------------------------- MODULE CoapReliableProofs -------------------------
(* Theorems about CoapReliable, for any messages and requests, and any       *)
(* timeouts for which copies of a request stop arriving within               *)
(* MAX_TRANSMIT_SPAN.                                                        *)
EXTENDS CoapReliable, WellFoundedInduction, TLAPS

\* A message is in the store from when it is first sent until it is
\* acknowledged, refused or given up, and never comes back: its transmissions
\* are counted there, and it has no outcome yet.
MessageInv ==
    /\ sync # None => sync \in DOMAIN client
    /\ \A m \in DOMAIN client : /\ tries[m] = client[m].count
                                /\ m \notin acked \cup refused
                                /\ outcome[m] = "none"
    /\ \A m \in acked \cup refused : tries[m] > 0
    /\ acked \cap refused = {}
    /\ \A m \in Messages : outcome[m] # "none" => tries[m] > 0

\* While copies of a request may arrive that was passed on, it or the answer
\* to it is kept for at least as long.
RequestInv ==
    /\ \A r \in Requests : handled[r] > 0 => r \in DOMAIN copies
    /\ \A r \in Requests :
           handled[r] > 0 /\ copies[r] > 0 => r \in DOMAIN server /\ server[r].left >= copies[r]
    /\ \A r \in answered : handled[r] > 0
    /\ \A r \in answered : r \in DOMAIN server => server[r].kind = "answer"

Inv == TypeOK /\ MessageInv /\ RequestInv /\ AtMostOnce /\ NoSilentLoss /\ SyncTruth

-----------------------------------------------------------------------------
(* The timeouts.  That Power2 is what its definition says, for every number, *)
(* is shown from its values up to n.                                         *)

PowersTo(n) == {f \in [0 .. n -> Nat] : \A k \in 0 .. n : f[k] = IF k = 0 THEN 1 ELSE 2 * f[k - 1]}

\* A set of naturals that is not empty has a least element.
LEMMA LeastNatural ==
    ASSUME NEW T \in SUBSET Nat, T # {}
    PROVE  \E x \in T : \A y \in T : x <= y
<1>1. PICK x \in T : \A y \in T : ~ (<<y, x>> \in OpToRel(<, Nat))
  BY NatLessThanWellFounded, WFMin
<1>2. \A y \in T : ~ (y < x)
  BY <1>1 DEF OpToRel
<1> QED
  BY <1>2

\* There are powers up to every n,
LEMMA PowersExist == \A n \in Nat : PowersTo(n) # {}
<1> DEFINE T == {n \in Nat : PowersTo(n) = {}}
<1>1. SUFFICES ASSUME T # {}
               PROVE  FALSE
  OBVIOUS
<1>2. PICK n \in T : \A m \in T : n <= m
  BY <1>1, LeastNatural
<1>3. CASE n = 0
  <2> DEFINE f == [k \in 0 .. n |-> 1]
  <2>1. f \in [0 .. n -> Nat]
    OBVIOUS
  <2>2. \A k \in 0 .. n : f[k] = IF k = 0 THEN 1 ELSE 2 * f[k - 1]
    BY <1>3
  <2> QED
    BY <1>2, <2>1, <2>2 DEF PowersTo
<1>4. CASE n # 0
  <2>1. n - 1 \in Nat /\ n - 1 \notin T
    BY <1>2, <1>4
  <2>2. PICK g \in [0 .. n - 1 -> Nat] :
           \A k \in 0 .. n - 1 : g[k] = IF k = 0 THEN 1 ELSE 2 * g[k - 1]
    BY <2>1 DEF PowersTo
  <2> DEFINE f == [k \in 0 .. n |-> IF k = n THEN 2 * g[n - 1] ELSE g[k]]
  <2>3. n - 1 \in 0 .. n - 1 /\ g[n - 1] \in Nat /\ 2 * g[n - 1] \in Nat
    BY <2>1, <2>2
  <2>4. f \in [0 .. n -> Nat]
    <3>1. \A k \in 0 .. n : k # n => k \in 0 .. n - 1 /\ g[k] \in Nat
      BY <1>2, <2>2
    <3> QED
      BY <2>3, <3>1
  <2>5. ASSUME NEW k \in 0 .. n
        PROVE  f[k] = IF k = 0 THEN 1 ELSE 2 * f[k - 1]
    <3>1. CASE k = n
      <4>1. n - 1 \in 0 .. n /\ n - 1 # n /\ f[n - 1] = g[n - 1]
        BY <1>2, <2>1
      <4> QED
        BY <1>4, <3>1, <4>1
    <3>2. CASE k # n
      <4>1. k \in 0 .. n - 1 /\ f[k] = g[k]
        BY <1>2, <3>2
      <4>2. k # 0 => k - 1 \in 0 .. n /\ k - 1 # n /\ f[k - 1] = g[k - 1]
        BY <1>2, <4>1
      <4> HIDE DEF f
      <4> QED
        BY <2>2, <4>1, <4>2
    <3> QED
      BY <3>1, <3>2
  <2> HIDE DEF f
  <2> QED
    BY <1>2, <2>4, <2>5 DEF PowersTo
<1> QED
  BY <1>3, <1>4

\* and they agree with each other.
LEMMA PowersAgree ==
    ASSUME NEW n \in Nat, NEW m \in Nat, NEW f \in PowersTo(n), NEW g \in PowersTo(m),
           NEW k \in Nat, k <= n, k <= m
    PROVE  f[k] = g[k]
<1> DEFINE T == {i \in Nat : i <= n /\ i <= m /\ f[i] # g[i]}
<1>1. SUFFICES ASSUME T # {}
               PROVE  FALSE
  OBVIOUS
<1>2. PICK i \in T : \A j \in T : i <= j
  BY <1>1, LeastNatural
<1>3. i \in 0 .. n /\ i \in 0 .. m /\ f[i] # g[i]
  BY <1>2
<1>4. /\ f[i] = IF i = 0 THEN 1 ELSE 2 * f[i - 1]
      /\ g[i] = IF i = 0 THEN 1 ELSE 2 * g[i - 1]
  BY <1>3 DEF PowersTo
<1>5. i # 0
  BY <1>3, <1>4
<1>6. i - 1 \in Nat /\ i - 1 <= n /\ i - 1 <= m /\ ~ (i <= i - 1)
  BY <1>3, <1>5
<1>7. f[i - 1] = g[i - 1]
  BY <1>2, <1>6
<1> QED
  BY <1>3, <1>4, <1>7

\* So the equation that defines Power2 has a solution.
LEMMA PowerEquation == Power2 = [n \in Nat |-> IF n = 0 THEN 1 ELSE 2 * Power2[n - 1]]
<1> DEFINE c(n) == CHOOSE f \in PowersTo(n) : TRUE
           F == [n \in Nat |-> c(n)[n]]
<1>1. \A n \in Nat : c(n) \in PowersTo(n)
  BY PowersExist
<1> HIDE DEF c
<1>2. ASSUME NEW n \in Nat
      PROVE  F[n] = IF n = 0 THEN 1 ELSE 2 * F[n - 1]
  <2>1. c(n)[n] = IF n = 0 THEN 1 ELSE 2 * c(n)[n - 1]
    <3>1. n \in 0 .. n
      OBVIOUS
    <3> QED
      BY <1>1, <3>1 DEF PowersTo
  <2>2. ASSUME n # 0
        PROVE  c(n)[n - 1] = c(n - 1)[n - 1] /\ F[n - 1] = c(n - 1)[n - 1]
    <3>1. n - 1 \in Nat /\ n - 1 <= n /\ n - 1 <= n - 1
      BY <2>2
    <3> QED
      BY <1>1, <3>1, PowersAgree
  <2> QED
    BY <2>1, <2>2
<1>3. F = [n \in Nat |-> IF n = 0 THEN 1 ELSE 2 * F[n - 1]]
  BY <1>2
<1> HIDE DEF F
<1>4. \E f : f = [n \in Nat |-> IF n = 0 THEN 1 ELSE 2 * f[n - 1]]
  BY <1>3
<1>5. Power2 = CHOOSE f : f = [n \in Nat |-> IF n = 0 THEN 1 ELSE 2 * f[n - 1]]
  BY DEF Power2
<1> QED
  BY <1>4, <1>5

LEMMA PowerStep ==
    Power2[0] = 1 /\ \A n \in Nat : n # 0 => Power2[n] = 2 * Power2[n - 1] /\ n - 1 \in Nat
BY PowerEquation

\* A power of two is a number, and not smaller than the ones before.
LEMMA PowerPositive == \A n \in Nat : Power2[n] \in Nat \ {0}
<1> DEFINE T == {n \in Nat : Power2[n] \notin Nat \ {0}}
<1>1. SUFFICES ASSUME T # {}
               PROVE  FALSE
  OBVIOUS
<1>2. PICK n \in T : \A m \in T : n <= m
  BY <1>1, LeastNatural
<1>3. n \in Nat /\ Power2[n] \notin Nat \ {0}
  BY <1>2
<1>4. n # 0
  BY <1>3, PowerStep
<1>5. n - 1 \in Nat /\ ~ (n <= n - 1)
  BY <1>3, <1>4
<1>6. Power2[n - 1] \in Nat \ {0}
  BY <1>2, <1>5
<1> QED
  BY <1>3, <1>4, <1>6, PowerStep

LEMMA PowerGrows ==
    ASSUME NEW i \in Nat, NEW j \in Nat, i <= j
    PROVE  Power2[i] <= Power2[j]
<1> DEFINE T == {n \in Nat : i <= n /\ ~ (Power2[i] <= Power2[n])}
<1>1. SUFFICES ASSUME T # {}
               PROVE  FALSE
  OBVIOUS
<1>2. PICK n \in T : \A m \in T : n <= m
  BY <1>1, LeastNatural
<1>3. n \in Nat /\ i <= n /\ ~ (Power2[i] <= Power2[n])
  BY <1>2
<1>4. Power2[i] \in Nat \ {0} /\ Power2[n] \in Nat \ {0}
  BY <1>3, PowerPositive
<1>5. n # i
  BY <1>3, <1>4
<1>6. n # 0 /\ n - 1 \in Nat /\ i <= n - 1 /\ ~ (n <= n - 1)
  BY <1>3, <1>5
<1>7. Power2[i] <= Power2[n - 1]
  BY <1>2, <1>6
<1>8. Power2[n] = 2 * Power2[n - 1] /\ Power2[n - 1] \in Nat \ {0}
  BY <1>3, <1>6, PowerStep, PowerPositive
<1> QED
  BY <1>3, <1>4, <1>7, <1>8

\* No timeout is longer than the one of the last transmission.
LEMMA TimeoutFacts ==
    ASSUME NEW count \in 0 .. MAX_RETRANSMIT
    PROVE  transmit_timeout(count) \subseteq 0 .. Longest
<1> DEFINE p == Power2[count]
           q == Power2[MAX_RETRANSMIT]
<1>1. count \in Nat /\ MAX_RETRANSMIT \in Nat /\ count <= MAX_RETRANSMIT /\ ACK_TIMEOUT \in Nat
  BY NumbersAssumption
<1>2. p \in Nat /\ q \in Nat /\ p <= q
  BY <1>1, PowerPositive, PowerGrows
<1> DEFINE x == ACK_TIMEOUT * p
           y == ACK_TIMEOUT * q
<1> HIDE DEF p, q
<1>3. x \in Nat /\ y \in Nat /\ x <= y
  BY <1>1, <1>2
<1>4. transmit_timeout(count) = x .. x + x \div 2 /\ Longest = y + y \div 2
  BY DEF transmit_timeout, Longest, p, q
<1> HIDE DEF x, y
<1> QED
  BY <1>3, <1>4

-----------------------------------------------------------------------------
(* The stores.                                                             *)

Stores == UNION {[s -> Pending] : s \in SUBSET Messages}
ServerStores == UNION {[s -> Kept] : s \in SUBSET Requests}

\* A store holds entries of its kind.
LEMMA StoreType ==
    ASSUME NEW S, NEW V, NEW store
    PROVE  store \in UNION {[s -> V] : s \in SUBSET S} <=>
               /\ store = [m \in DOMAIN store |-> store[m]]
               /\ DOMAIN store \subseteq S
               /\ \A m \in DOMAIN store : store[m] \in V
<1>1. ASSUME store \in UNION {[s -> V] : s \in SUBSET S}
      PROVE  /\ store = [m \in DOMAIN store |-> store[m]]
             /\ DOMAIN store \subseteq S
             /\ \A m \in DOMAIN store : store[m] \in V
  <2>1. PICK s \in SUBSET S : store \in [s -> V]
    BY <1>1
  <2> QED
    BY <2>1
<1>2. ASSUME /\ store = [m \in DOMAIN store |-> store[m]]
             /\ DOMAIN store \subseteq S
             /\ \A m \in DOMAIN store : store[m] \in V
      PROVE  store \in UNION {[s -> V] : s \in SUBSET S}
  <2>1. DOMAIN store \in SUBSET S /\ store \in [DOMAIN store -> V]
    BY <1>2
  <2> QED
    BY <2>1
<1> QED
  BY <1>1, <1>2

\* Entries that are removed and added.
LEMMA WithoutType ==
    ASSUME NEW S, NEW V, NEW store \in UNION {[s -> V] : s \in SUBSET S}, NEW ids
    PROVE  Without(store, ids) \in UNION {[s -> V] : s \in SUBSET S}
<1>1. DOMAIN store \subseteq S /\ \A m \in DOMAIN store : store[m] \in V
  BY StoreType
<1> DEFINE w == Without(store, ids)
<1>2. /\ w = [m \in DOMAIN w |-> w[m]]
      /\ DOMAIN w \subseteq S
      /\ \A m \in DOMAIN w : w[m] \in V
  BY <1>1 DEF Without
<1> HIDE DEF w
<1>3. w \in UNION {[s -> V] : s \in SUBSET S}
  BY <1>2, StoreType
<1> QED
  BY <1>3 DEF w

LEMMA WithFacts ==
    ASSUME NEW S, NEW V, NEW store \in UNION {[s -> V] : s \in SUBSET S}, NEW id \in S, NEW entry \in V
    PROVE  /\ With(store, id, entry) \in UNION {[s -> V] : s \in SUBSET S}
           /\ DOMAIN With(store, id, entry) = DOMAIN store \cup {id}
           /\ With(store, id, entry)[id] = entry
           /\ \A m \in DOMAIN store : m # id => With(store, id, entry)[m] = store[m]
<1>1. DOMAIN With(store, id, entry) = DOMAIN store \cup {id}
  BY DEF With
<1>2. /\ With(store, id, entry)[id] = entry
      /\ \A m \in DOMAIN store : m # id => With(store, id, entry)[m] = store[m]
  BY DEF With
<1>3. With(store, id, entry) = [m \in DOMAIN store \cup {id} |-> With(store, id, entry)[m]]
  BY DEF With
<1>4. DOMAIN store \subseteq S /\ \A m \in DOMAIN store : store[m] \in V
  BY StoreType
<1> QED
  BY <1>1, <1>2, <1>3, <1>4, StoreType

LEMMA NothingFacts ==
    ASSUME NEW S, NEW V
    PROVE  Nothing \in UNION {[s -> V] : s \in SUBSET S} /\ DOMAIN Nothing = {}
<1>1. DOMAIN Nothing = {} /\ Nothing = [m \in DOMAIN Nothing |-> Nothing[m]]
  BY DEF Nothing
<1> QED
  BY <1>1, StoreType

\* What becomes of the client's store in a round: every message is sent again,
\* given up or left alone.
LEMMA ProcessedFacts ==
    ASSUME NEW c \in Stores, NEW after \in Processed(c)
    PROVE  /\ after \in Stores
           /\ DOMAIN after = DOMAIN c \ Lost(c)
           /\ Again(c) \subseteq DOMAIN after /\ Lost(c) \subseteq DOMAIN c
           /\ \A m \in Again(c) : c[m].count <= MAX_RETRANSMIT /\ after[m].count = c[m].count + 1
           /\ \A m \in Lost(c) : c[m].count = MAX_RETRANSMIT + 1
           /\ \A m \in DOMAIN after : m \notin Again(c) => after[m] = c[m]
<1>a. DOMAIN c \subseteq Messages /\ \A m \in DOMAIN c : c[m] \in Pending
  BY StoreType DEF Stores
<1>b. /\ Again(c) \subseteq DOMAIN c /\ Lost(c) \subseteq DOMAIN c /\ Again(c) \cap Lost(c) = {}
      /\ \A m \in Again(c) : c[m].count <= MAX_RETRANSMIT
      /\ \A m \in Lost(c) : ~ (c[m].count <= MAX_RETRANSMIT)
  BY DEF Again, Lost, Due
<1>c. \A m \in DOMAIN c : c[m].count \in 1 .. MAX_RETRANSMIT + 1 /\ c[m].left \in 0 .. Longest
  BY <1>a DEF Pending
<1>d. MAX_RETRANSMIT \in Nat
  BY NumbersAssumption
<1>1. PICK left \in Renewals(c) :
        after = [m \in DOMAIN c \ Lost(c) |->
                    IF m \in Again(c) THEN [left |-> left[m], count |-> c[m].count + 1] ELSE c[m]]
  BY DEF Processed
<1>2. \A m \in Again(c) : left[m] \in transmit_timeout(c[m].count)
  BY <1>1 DEF Renewals
<1>3. ASSUME NEW m \in Again(c)
      PROVE  [left |-> left[m], count |-> c[m].count + 1] \in Pending
  <2>1. c[m].count \in 0 .. MAX_RETRANSMIT
    BY <1>b, <1>c, <1>d
  <2>2. left[m] \in 0 .. Longest
    BY <1>2, <2>1, TimeoutFacts
  <2>3. c[m].count + 1 \in 1 .. MAX_RETRANSMIT + 1
    BY <1>d, <2>1
  <2> QED
    BY <2>2, <2>3 DEF Pending
<1>4. DOMAIN after = DOMAIN c \ Lost(c)
  BY <1>1
<1>5. /\ \A m \in Again(c) : m \in DOMAIN after /\ after[m] = [left |-> left[m], count |-> c[m].count + 1]
      /\ \A m \in DOMAIN after : m \notin Again(c) => after[m] = c[m]
  BY <1>1, <1>b
<1>6. after = [m \in DOMAIN after |-> after[m]]
  BY <1>1
<1>7. \A m \in DOMAIN after : after[m] \in Pending
  BY <1>3, <1>4, <1>5, <1>a
<1>8. after \in Stores
  BY <1>4, <1>6, <1>7, <1>a, StoreType DEF Stores
<1>9. \A m \in Lost(c) : c[m].count = MAX_RETRANSMIT + 1
  BY <1>b, <1>c, <1>d
<1>10. \A m \in Again(c) : c[m].count <= MAX_RETRANSMIT /\ after[m].count = c[m].count + 1
  <2>1. TAKE m \in Again(c)
  <2>2. after[m] = [left |-> left[m], count |-> c[m].count + 1]
    BY <1>5
  <2> QED
    BY <1>b, <2>2
<1>11. Again(c) \subseteq DOMAIN after
  BY <1>5
<1>12. \A m \in DOMAIN after : m \notin Again(c) => after[m] = c[m]
  BY <1>5
<1> QED
  BY <1>4, <1>8, <1>9, <1>10, <1>11, <1>12, <1>b

-----------------------------------------------------------------------------
(* What the actions have in common.                                        *)

\* c is the client's store without the messages gone.
Left(c, gone) ==
    /\ c \in Stores
    /\ DOMAIN c = DOMAIN client \ gone
    /\ \A m \in DOMAIN c : c[m] = client[m]

LEMMA LeftFacts ==
    ASSUME TypeOK
    PROVE  /\ Left(client, {})
           /\ \A ids : Left(Without(client, ids), ids \cap DOMAIN client)
<1>1. client \in Stores
  BY DEF TypeOK, Stores
<1>2. Left(client, {})
  BY <1>1 DEF Left
<1>3. ASSUME NEW ids
      PROVE  Left(Without(client, ids), ids \cap DOMAIN client)
  <2>1. client \in UNION {[s -> Pending] : s \in SUBSET Messages}
    BY DEF TypeOK
  <2>2. Without(client, ids) \in UNION {[s -> Pending] : s \in SUBSET Messages}
    BY <2>1, WithoutType
  <2>3. /\ DOMAIN Without(client, ids) = DOMAIN client \ ids
        /\ \A m \in DOMAIN client \ ids : Without(client, ids)[m] = client[m]
    BY DEF Without
  <2> QED
    BY <2>2, <2>3 DEF Left, Stores
<1> QED
  BY <1>2, <1>3

\* Handing messages to the channel counts them once more.
LEMMA TransmitFacts ==
    ASSUME TypeOK, NEW ids \in SUBSET Messages,
           \A m \in ids : tries[m] <= MAX_RETRANSMIT,
           Transmit(ids)
    PROVE  /\ tries' \in [Messages -> 0 .. MAX_RETRANSMIT + 1]
           /\ \A m \in ids : tries'[m] = tries[m] + 1
           /\ \A m \in Messages \ ids : tries'[m] = tries[m]
           /\ answers' \subseteq Messages \X Types
<1>1. MAX_RETRANSMIT \in Nat /\ \A m \in Messages : tries[m] \in 0 .. MAX_RETRANSMIT + 1
  BY NumbersAssumption DEF TypeOK
<1>2. tries' = [m \in Messages |-> tries[m] + (IF m \in ids THEN 1 ELSE 0)]
  BY DEF Transmit
<1>3. \A m \in ids : tries'[m] = tries[m] + 1
  BY <1>2
<1>4. \A m \in Messages \ ids : tries'[m] = tries[m]
  BY <1>1, <1>2
<1>5. \A m \in Messages : tries'[m] \in 0 .. MAX_RETRANSMIT + 1
  BY <1>1, <1>3, <1>4
<1>6. tries' \in [Messages -> 0 .. MAX_RETRANSMIT + 1]
  BY <1>2, <1>5
<1>7. answers' \subseteq Messages \X Types
  BY DEF Transmit, TypeOK
<1> QED
  BY <1>3, <1>4, <1>6, <1>7

\* Processing the client's store keeps the count of every transmission.
LEMMA RetransmitFacts ==
    ASSUME TypeOK, MessageInv, NEW c, NEW gone, Left(c, gone),
           NEW after \in Processed(c), Transmit(Again(c))
    PROVE  /\ tries' \in [Messages -> 0 .. MAX_RETRANSMIT + 1]
           /\ answers' \subseteq Messages \X Types
           /\ after \in Stores
           /\ DOMAIN after = DOMAIN c \ Lost(c) /\ Lost(c) \subseteq DOMAIN c
           /\ \A m \in DOMAIN after : tries'[m] = after[m].count
           /\ \A m \in Messages : m \notin DOMAIN c => tries'[m] = tries[m]
           /\ \A m \in Lost(c) : tries'[m] = MAX_RETRANSMIT + 1
           /\ \A m \in Messages : tries[m] > 0 => tries'[m] > 0
<1>1. c \in Stores /\ DOMAIN c \subseteq DOMAIN client /\ \A m \in DOMAIN c : c[m] = client[m]
  BY DEF Left
<1>2. DOMAIN c \subseteq Messages
  BY <1>1, StoreType DEF Stores
<1>3. \A m \in DOMAIN c : tries[m] = c[m].count
  BY <1>1 DEF MessageInv
<1>4. /\ after \in Stores
      /\ DOMAIN after = DOMAIN c \ Lost(c)
      /\ Again(c) \subseteq DOMAIN after /\ Lost(c) \subseteq DOMAIN c
      /\ \A m \in Again(c) : c[m].count <= MAX_RETRANSMIT /\ after[m].count = c[m].count + 1
      /\ \A m \in Lost(c) : c[m].count = MAX_RETRANSMIT + 1
      /\ \A m \in DOMAIN after : m \notin Again(c) => after[m] = c[m]
  BY <1>1, ProcessedFacts
<1>5. \A m \in Again(c) : tries[m] <= MAX_RETRANSMIT
  BY <1>3, <1>4
<1>6. /\ tries' \in [Messages -> 0 .. MAX_RETRANSMIT + 1]
      /\ \A m \in Again(c) : tries'[m] = tries[m] + 1
      /\ \A m \in Messages \ Again(c) : tries'[m] = tries[m]
      /\ answers' \subseteq Messages \X Types
  <2>1. Again(c) \in SUBSET Messages
    BY <1>2, <1>4
  <2> QED
    BY <1>5, <2>1, TransmitFacts
<1>7. ASSUME NEW m \in DOMAIN after
      PROVE  tries'[m] = after[m].count
  <2>1. CASE m \in Again(c)
    BY <1>3, <1>4, <1>6, <2>1
  <2>2. CASE m \notin Again(c)
    BY <1>2, <1>3, <1>4, <1>6, <2>2
  <2> QED
    BY <2>1, <2>2
<1>8. \A m \in Lost(c) : tries'[m] = MAX_RETRANSMIT + 1
  BY <1>2, <1>3, <1>4, <1>6
<1>9. \A m \in Messages : tries[m] > 0 => tries'[m] > 0
  <2>1. \A m \in Messages : tries[m] \in Int
    BY NumbersAssumption DEF TypeOK
  <2> QED
    BY <1>4, <1>6, <2>1
<1>10. \A m \in Messages : m \notin DOMAIN c => tries'[m] = tries[m]
  BY <1>4, <1>6
<1> QED
  BY <1>4, <1>6, <1>7, <1>8, <1>9, <1>10

\* Storing a message for the first time.
LEMMA StoreFacts ==
    ASSUME TypeOK, NEW m \in Messages, Store(m), Transmit({m})
    PROVE  /\ tries[m] = 0 /\ tries'[m] = 1
           /\ \A n \in Messages : n # m => tries'[n] = tries[n]
           /\ tries' \in [Messages -> 0 .. MAX_RETRANSMIT + 1]
           /\ answers' \subseteq Messages \X Types
           /\ sent' = sent \cup {m}
           /\ client' \in Stores
           /\ DOMAIN client' = DOMAIN client \cup {m}
           /\ client'[m].count = 1
           /\ \A n \in DOMAIN client : n # m => client'[n] = client[n]
<1>1. tries[m] = 0 /\ tries[m] <= MAX_RETRANSMIT /\ sent' = sent \cup {m}
  BY NumbersAssumption DEF Store
<1>2. /\ tries' \in [Messages -> 0 .. MAX_RETRANSMIT + 1]
      /\ tries'[m] = tries[m] + 1
      /\ \A n \in Messages \ {m} : tries'[n] = tries[n]
      /\ answers' \subseteq Messages \X Types
  BY <1>1, TransmitFacts
<1>3. PICK left \in transmit_timeout(0) : client' = With(client, m, [left |-> left, count |-> 1])
  BY DEF Store
<1>4. [left |-> left, count |-> 1] \in Pending
  <2>1. 0 \in 0 .. MAX_RETRANSMIT /\ 1 \in 1 .. MAX_RETRANSMIT + 1
    BY NumbersAssumption
  <2>2. left \in 0 .. Longest
    BY <1>3, <2>1, TimeoutFacts
  <2> QED
    BY <2>1, <2>2 DEF Pending
<1>5. client \in UNION {[s -> Pending] : s \in SUBSET Messages}
  BY DEF TypeOK
<1> DEFINE entry == [left |-> left, count |-> 1]
<1> HIDE DEF entry
<1>6. /\ client' = With(client, m, entry)
      /\ entry \in Pending
      /\ entry.count = 1
  BY <1>3, <1>4 DEF entry
<1>7. client' \in Stores
  <2>1. With(client, m, entry) \in UNION {[s -> Pending] : s \in SUBSET Messages}
    BY <1>5, <1>6, WithFacts
  <2> QED
    BY <1>6, <2>1 DEF Stores
<1>8. /\ DOMAIN client' = DOMAIN client \cup {m}
      /\ client'[m] = entry
      /\ \A n \in DOMAIN client : n # m => client'[n] = client[n]
  BY <1>6 DEF With
<1> QED
  BY <1>1, <1>2, <1>6, <1>7, <1>8

-----------------------------------------------------------------------------
(* What becomes of the messages.                                           *)

Fate == MessageInv /\ NoSilentLoss /\ SyncTruth

\* A message that leaves the store is acknowledged, or refused, which closes
\* the session.
Leave(gone, acks, refusals, closed) ==
    /\ gone \subseteq DOMAIN client
    /\ gone = acks \cup refusals /\ acks \cap refusals = {}
    /\ acked' = acked \cup acks /\ refused' = refused \cup refusals
    /\ refusals # {} => closed

LEMMA LeaveFacts ==
    ASSUME TypeOK, MessageInv, NEW c, NEW gone, NEW acks, NEW refusals, NEW closed \in BOOLEAN,
           Left(c, gone), Leave(gone, acks, refusals, closed)
    PROVE  /\ DOMAIN c \subseteq Messages /\ gone \subseteq Messages
           /\ \A m \in DOMAIN c : m \notin acked' \cup refused'
           /\ \A m \in gone : tries[m] > 0
           /\ acked' \cap refused' = {}
           /\ acked' \cup refused' = acked \cup refused \cup gone
           /\ acked' \cup refused' \subseteq Messages
<1>1. client \in UNION {[s -> Pending] : s \in SUBSET Messages}
  BY DEF TypeOK
<1>2. DOMAIN client \subseteq Messages /\ \A m \in DOMAIN client : client[m] \in Pending
  BY <1>1, StoreType
<1>3. \A m \in DOMAIN client : tries[m] = client[m].count /\ m \notin acked \cup refused
  BY DEF MessageInv
<1>4. \A m \in DOMAIN client : tries[m] > 0
  <2>1. MAX_RETRANSMIT \in Nat
    BY NumbersAssumption
  <2>2. \A m \in DOMAIN client : client[m].count \in 1 .. MAX_RETRANSMIT + 1
    BY <1>2 DEF Pending
  <2> QED
    BY <1>3, <2>1, <2>2
<1>5. DOMAIN c = DOMAIN client \ gone
  BY DEF Left
<1>6. acked \cap refused = {} /\ acked \cup refused \subseteq Messages
  BY DEF MessageInv, TypeOK
<1>7. /\ gone \subseteq DOMAIN client
      /\ gone = acks \cup refusals /\ acks \cap refusals = {}
      /\ acked' = acked \cup acks /\ refused' = refused \cup refusals
  BY DEF Leave
<1>8. acked' \cup refused' = acked \cup refused \cup gone
  BY <1>7
<1>9. \A m \in DOMAIN c : m \notin acked' \cup refused'
  BY <1>3, <1>5, <1>8
<1>10. acked' \cap refused' = {}
  BY <1>3, <1>6, <1>7
<1>11. DOMAIN c \subseteq Messages /\ gone \subseteq Messages
  BY <1>2, <1>5, <1>7
<1>12. \A m \in gone : tries[m] > 0
  BY <1>4, <1>7
<1>13. acked' \cup refused' \subseteq Messages
  BY <1>6, <1>8, <1>11
<1> QED
  BY <1>8, <1>9, <1>10, <1>11, <1>12, <1>13

\* The rest of receive keeps the account of every message.
LEMMA ProcessKeeps ==
    ASSUME TypeOK, Fate, NEW c, NEW s, NEW gone, NEW acks, NEW refusals,
           NEW closed \in BOOLEAN, NEW sending \in BOOLEAN,
           Left(c, gone), Leave(gone, acks, refusals, closed),
           sync = None, Process(c, s, closed, sending),
           UNCHANGED <<sync, sent, outcome>>
    PROVE  Fate'
<1>1. MessageInv /\ NoSilentLoss /\ SyncTruth
  BY DEF Fate
<1>2. client' \in Processed(c) /\ Transmit(Again(c))
  BY DEF Process
<1>3. /\ DOMAIN client' = DOMAIN c \ Lost(c) /\ Lost(c) \subseteq DOMAIN c
      /\ \A m \in DOMAIN client' : tries'[m] = client'[m].count
      /\ \A m \in Messages : m \notin DOMAIN c => tries'[m] = tries[m]
      /\ \A m \in Messages : tries[m] > 0 => tries'[m] > 0
  BY <1>1, <1>2, RetransmitFacts
<1>4. /\ DOMAIN c \subseteq Messages /\ gone \subseteq Messages
      /\ \A m \in DOMAIN c : m \notin acked' \cup refused'
      /\ \A m \in gone : tries[m] > 0
      /\ acked' \cap refused' = {}
      /\ acked' \cup refused' = acked \cup refused \cup gone
      /\ acked' \cup refused' \subseteq Messages
  BY <1>1, LeaveFacts
<1>5. DOMAIN c = DOMAIN client \ gone /\ gone \subseteq DOMAIN client
  BY DEF Left, Leave
<1>6. /\ \A m \in DOMAIN client : outcome[m] = "none"
      /\ \A m \in acked \cup refused : tries[m] > 0
      /\ \A m \in Messages : outcome[m] # "none" => tries[m] > 0
  BY <1>1 DEF MessageInv
<1>7. MessageInv'
  <2>1. sync' = None /\ outcome' = outcome
    OBVIOUS
  <2>2. \A m \in DOMAIN client' : /\ tries'[m] = client'[m].count
                                  /\ m \notin acked' \cup refused'
                                  /\ outcome'[m] = "none"
    BY <1>3, <1>4, <1>5, <1>6, <2>1
  <2>3. \A m \in acked' \cup refused' : tries'[m] > 0
    BY <1>3, <1>4, <1>6
  <2>4. \A m \in Messages : outcome'[m] # "none" => tries'[m] > 0
    BY <1>3, <1>6, <2>1
  <2> QED
    BY <1>4, <2>1, <2>2, <2>3, <2>4 DEF MessageInv
<1>8. NoSilentLoss'
  <2>1. SUFFICES ASSUME session'
                 PROVE  sent' \subseteq DOMAIN client' \cup acked'
    BY DEF NoSilentLoss
  <2>2. session /\ ~closed /\ Lost(c) = {}
    BY <2>1 DEF Process, Close
  <2>3. sent \subseteq DOMAIN client \cup acked
    BY <1>1, <2>2 DEF NoSilentLoss
  <2>4. gone = acks /\ acked' = acked \cup acks
    BY <2>2 DEF Leave
  <2> QED
    BY <1>3, <1>5, <2>2, <2>3, <2>4
<1>9. SyncTruth'
  <2>1. \A m \in Messages : outcome[m] # "none" => m \notin DOMAIN client
    BY <1>6
  <2>2. \A m \in Messages : outcome[m] # "none" =>
            (m \in acked' <=> m \in acked) /\ (m \in refused' <=> m \in refused)
    BY <1>5, <2>1 DEF Leave
  <2>3. \A m \in Messages : outcome[m] # "none" => tries'[m] = tries[m]
    BY <1>3, <1>5, <2>1
  <2> QED
    BY <1>1, <2>2, <2>3 DEF SyncTruth
<1> QED
  BY <1>7, <1>8, <1>9 DEF Fate

\* So does a round of send_synchronous, which returns when its message has
\* left the store, or the channel fails.
LEMMA RoundKeeps ==
    ASSUME TypeOK, Fate, NEW c, NEW gone, NEW acks, NEW refusals,
           NEW closed \in BOOLEAN, NEW error \in {"ok", "reset", "error"},
           Left(c, gone), Leave(gone, acks, refusals, closed),
           error = "reset" <=> sync \in refusals,
           error = "error" => gone = {}, error # "ok" => closed,
           sync # None, Round(c, closed, error),
           UNCHANGED sent
    PROVE  Fate'
<1>1. MessageInv /\ NoSilentLoss /\ SyncTruth
  BY DEF Fate
<1> DEFINE over == sync \notin DOMAIN c \/ sync \in Lost(c) \/ error # "ok"
<1>2. PICK kept \in Processed(c) : client' = IF over THEN Without(kept, {sync}) ELSE kept
  BY DEF Round
<1>3. Transmit(Again(c))
  BY DEF Round
<1>4. /\ sync' = IF over THEN None ELSE sync
      /\ outcome' = IF over
                    THEN [outcome EXCEPT ![sync] = IF sync \in Lost(c) THEN "timeout" ELSE error]
                    ELSE outcome
  BY DEF Round
<1>5. /\ DOMAIN kept = DOMAIN c \ Lost(c) /\ Lost(c) \subseteq DOMAIN c
      /\ \A m \in DOMAIN kept : tries'[m] = kept[m].count
      /\ \A m \in Messages : m \notin DOMAIN c => tries'[m] = tries[m]
      /\ \A m \in Lost(c) : tries'[m] = MAX_RETRANSMIT + 1
      /\ \A m \in Messages : tries[m] > 0 => tries'[m] > 0
  BY <1>1, <1>3, RetransmitFacts
<1>6. /\ DOMAIN c \subseteq Messages /\ gone \subseteq Messages
      /\ \A m \in DOMAIN c : m \notin acked' \cup refused'
      /\ \A m \in gone : tries[m] > 0
      /\ acked' \cap refused' = {}
      /\ acked' \cup refused' = acked \cup refused \cup gone
      /\ acked' \cup refused' \subseteq Messages
  BY <1>1, LeaveFacts
<1>7. DOMAIN c = DOMAIN client \ gone /\ gone \subseteq DOMAIN client
  BY DEF Left, Leave
<1>8. /\ sync \in DOMAIN client
      /\ \A m \in DOMAIN client : outcome[m] = "none"
      /\ \A m \in acked \cup refused : tries[m] > 0
      /\ \A m \in Messages : outcome[m] # "none" => tries[m] > 0
  BY <1>1 DEF MessageInv
<1>9. /\ DOMAIN client' \subseteq DOMAIN kept
      /\ \A m \in DOMAIN client' : client'[m] = kept[m]
      /\ over => sync \notin DOMAIN client'
      /\ \A m \in DOMAIN kept : m # sync \/ ~over => m \in DOMAIN client'
  BY <1>2 DEF Without
<1>10. sync \in Messages /\ tries[sync] > 0
  <2>1. sync \in Messages
    BY <1>6, <1>7, <1>8
  <2>2. client \in UNION {[s -> Pending] : s \in SUBSET Messages}
    BY DEF TypeOK
  <2>3. client[sync] \in Pending /\ tries[sync] = client[sync].count
    BY <1>1, <1>8, <2>2, StoreType DEF MessageInv
  <2> QED
    BY <2>1, <2>3, NumbersAssumption DEF Pending
<1>11. /\ \A m \in Messages : m # sync => outcome'[m] = outcome[m]
       /\ ~over => outcome' = outcome
       /\ over => outcome'[sync] = IF sync \in Lost(c) THEN "timeout" ELSE error
  <2>1. outcome \in [Messages -> {"none", "ok", "timeout", "reset", "error"}]
    BY DEF TypeOK
  <2> HIDE DEF over
  <2> QED
    BY <1>4, <1>10, <2>1
<1> HIDE DEF over
<1>12. MessageInv'
  <2>1. sync' # None => sync' \in DOMAIN client'
    <3>1. ~over => sync \in DOMAIN kept
      BY <1>5 DEF over
    <3> QED
      BY <1>4, <1>9, <3>1
  <2>2. ASSUME NEW m \in DOMAIN client'
        PROVE  tries'[m] = client'[m].count /\ m \notin acked' \cup refused' /\ outcome'[m] = "none"
    <3>1. m \in DOMAIN kept /\ m \in DOMAIN c /\ m \in DOMAIN client /\ m \in Messages
      BY <1>5, <1>6, <1>7, <1>9
    <3>2. outcome'[m] = outcome[m]
      BY <1>9, <1>11, <3>1
    <3> QED
      BY <1>5, <1>6, <1>8, <1>9, <3>1, <3>2
  <2>3. \A m \in acked' \cup refused' : tries'[m] > 0
    BY <1>5, <1>6, <1>8
  <2>4. \A m \in Messages : outcome'[m] # "none" => tries'[m] > 0
    BY <1>5, <1>8, <1>10, <1>11
  <2> QED
    BY <1>6, <2>1, <2>2, <2>3, <2>4 DEF MessageInv
<1>13. NoSilentLoss'
  <2>1. SUFFICES ASSUME session'
                 PROVE  sent' \subseteq DOMAIN client' \cup acked'
    BY DEF NoSilentLoss
  <2>2. session /\ ~closed /\ Lost(c) = {}
    BY <2>1 DEF Round, Close
  <2>3. sent \subseteq DOMAIN client \cup acked
    BY <1>1, <2>2 DEF NoSilentLoss
  <2>4. gone = acks /\ acked' = acked \cup acks
    BY <2>2 DEF Leave
  <2>5. over => sync \notin DOMAIN kept
    BY <1>5, <2>2 DEF over
  <2> QED
    BY <1>5, <1>7, <1>9, <2>2, <2>3, <2>4, <2>5
<1>14. SyncTruth'
  <2>1. ASSUME NEW m \in Messages, outcome[m] # "none"
        PROVE  /\ m # sync /\ outcome'[m] = outcome[m]
               /\ (m \in acked' <=> m \in acked) /\ (m \in refused' <=> m \in refused)
               /\ tries'[m] = tries[m]
    <3>1. m \notin DOMAIN client /\ m # sync /\ m \notin DOMAIN c /\ m \notin gone
      BY <1>7, <1>8, <2>1
    <3> QED
      BY <1>5, <1>11, <3>1 DEF Leave
  <2>2. ASSUME over
        PROVE  /\ outcome'[sync] = "ok" <=> sync \in acked'
               /\ outcome'[sync] = "timeout" => tries'[sync] = MAX_RETRANSMIT + 1
               /\ outcome'[sync] = "reset" <=> sync \in refused'
               /\ outcome'[sync] # "none"
    <3>1. sync \notin acked \cup refused
      BY <1>1, <1>8 DEF MessageInv
    <3>2. (sync \in acked' <=> sync \in acks) /\ (sync \in refused' <=> sync \in refusals)
      BY <3>1 DEF Leave
    <3>3. CASE sync \in Lost(c)
      <4>1. sync \notin acked' \cup refused'
        BY <1>5, <1>6, <3>3
      <4>2. outcome'[sync] = "timeout" /\ tries'[sync] = MAX_RETRANSMIT + 1
        BY <1>5, <1>11, <2>2, <3>3
      <4> QED
        BY <4>1, <4>2
    <3>4. CASE sync \notin Lost(c)
      <4>1. outcome'[sync] = error
        BY <1>11, <2>2, <3>4
      <4>2. error = "ok" => sync \in gone
        BY <1>7, <1>8, <2>2, <3>4 DEF over
      <4>3. error = "ok" <=> sync \in acks
        BY <4>2 DEF Leave
      <4> QED
        BY <3>2, <4>1, <4>3
    <3> QED
      BY <3>3, <3>4
  <2>3. ASSUME NEW m \in Messages
        PROVE  /\ outcome'[m] = "ok" <=> outcome'[m] # "none" /\ m \in acked'
               /\ outcome'[m] = "timeout" => tries'[m] = MAX_RETRANSMIT + 1
               /\ outcome'[m] = "reset" <=> outcome'[m] # "none" /\ m \in refused'
    <3>1. CASE outcome[m] # "none"
      BY <1>1, <2>1, <3>1 DEF SyncTruth
    <3>2. CASE outcome[m] = "none" /\ m = sync /\ over
      BY <2>2, <3>2
    <3>3. CASE outcome[m] = "none" /\ ~(m = sync /\ over)
      BY <1>11, <3>3
    <3> QED
      BY <3>1, <3>2, <3>3
  <2> QED
    BY <2>3 DEF SyncTruth
<1> QED
  BY <1>12, <1>13, <1>14 DEF Fate

\* A message that is sent for the first time was never acknowledged or
\* refused, and has no outcome.
LEMMA FreshFacts ==
    ASSUME TypeOK, MessageInv, NEW m \in Messages, tries[m] = 0
    PROVE  /\ m \notin DOMAIN client /\ m \notin acked \cup refused /\ outcome[m] = "none"
           /\ DOMAIN client \subseteq Messages
<1>1. client \in UNION {[s -> Pending] : s \in SUBSET Messages}
  BY DEF TypeOK
<1>2. DOMAIN client \subseteq Messages /\ \A n \in DOMAIN client : client[n] \in Pending
  BY <1>1, StoreType
<1>3. \A n \in DOMAIN client : client[n].count \in 1 .. MAX_RETRANSMIT + 1
  BY <1>2 DEF Pending
<1>4. \A n \in DOMAIN client : tries[n] # 0
  BY <1>3, NumbersAssumption DEF MessageInv
<1> QED
  BY <1>2, <1>4 DEF MessageInv

LEMMA StoreKeeps ==
    ASSUME TypeOK, Fate, NEW m \in Messages, Store(m), Transmit({m}),
           sync = None, sync' \in {None, m}, session' => session,
           UNCHANGED <<acked, refused, outcome>>
    PROVE  Fate'
<1>1. MessageInv /\ NoSilentLoss /\ SyncTruth
  BY DEF Fate
<1>2. /\ tries[m] = 0 /\ tries'[m] = 1
      /\ \A n \in Messages : n # m => tries'[n] = tries[n]
      /\ sent' = sent \cup {m}
      /\ DOMAIN client' = DOMAIN client \cup {m}
      /\ client'[m].count = 1
      /\ \A n \in DOMAIN client : n # m => client'[n] = client[n]
  BY StoreFacts
<1>3. /\ m \notin DOMAIN client /\ m \notin acked \cup refused /\ outcome[m] = "none"
      /\ DOMAIN client \subseteq Messages
  BY <1>1, <1>2, FreshFacts
<1>4. acked \cup refused \subseteq Messages
  BY DEF TypeOK
<1>5. MessageInv'
  <2>1. sync' # None => sync' \in DOMAIN client'
    BY <1>2
  <2>2. \A n \in DOMAIN client' : /\ tries'[n] = client'[n].count
                                  /\ n \notin acked' \cup refused'
                                  /\ outcome'[n] = "none"
    BY <1>1, <1>2, <1>3 DEF MessageInv
  <2>3. \A n \in acked' \cup refused' : tries'[n] > 0
    BY <1>1, <1>2, <1>3, <1>4 DEF MessageInv
  <2>4. \A n \in Messages : outcome'[n] # "none" => tries'[n] > 0
    BY <1>1, <1>2, <1>3 DEF MessageInv
  <2> QED
    BY <1>1, <2>1, <2>2, <2>3, <2>4 DEF MessageInv
<1>6. NoSilentLoss'
  BY <1>1, <1>2 DEF NoSilentLoss
<1>7. SyncTruth'
  BY <1>1, <1>2, <1>3 DEF SyncTruth
<1> QED
  BY <1>5, <1>6, <1>7 DEF Fate

LEMMA FateStep ==
    ASSUME TypeOK, Fate, [Next]_vars
    PROVE  Fate'
<1>0. MessageInv /\ NoSilentLoss /\ SyncTruth
  BY DEF Fate
<1>1. CASE UNCHANGED vars
  BY <1>0, <1>1 DEF Fate, MessageInv, NoSilentLoss, SyncTruth, vars, stores, network, history
<1>2. ASSUME NEW m \in Messages, Send(m)
      PROVE  Fate'
  <2>1. session' => session
    BY <1>2 DEF Send, Close
  <2> QED
    BY <1>2, <2>1, StoreKeeps DEF Send
<1>3. ASSUME NEW m \in Messages, SendSynchronous(m)
      PROVE  Fate'
  <2>1. session' => session
    BY <1>3 DEF SendSynchronous, Close
  <2> QED
    BY <1>3, <2>1, StoreKeeps DEF SendSynchronous
<1>4. ASSUME NEW m \in Messages, SendSynchronousFails(m)
      PROVE  Fate'
  <2>1. /\ sync = None /\ sync' = sync /\ client' = client
        /\ acked' = acked /\ refused' = refused
        /\ outcome' = [outcome EXCEPT ![m] = "error"]
        /\ tries[m] = 0 /\ tries[m] <= MAX_RETRANSMIT
    BY <1>4, NumbersAssumption DEF SendSynchronousFails, stores
  <2>2. /\ tries'[m] = tries[m] + 1
        /\ \A n \in Messages \ {m} : tries'[n] = tries[n]
    BY <1>4, <2>1, TransmitFacts DEF SendSynchronousFails
  <2>3. /\ m \notin DOMAIN client /\ m \notin acked \cup refused /\ outcome[m] = "none"
        /\ DOMAIN client \subseteq Messages
    BY <1>0, <2>1, FreshFacts
  <2>4. outcome'[m] = "error" /\ \A n \in Messages : n # m => outcome'[n] = outcome[n]
    BY <2>1 DEF TypeOK
  <2>5. acked \cup refused \subseteq Messages
    BY DEF TypeOK
  <2>6. MessageInv'
    <3>1. \A n \in DOMAIN client' : /\ tries'[n] = client'[n].count
                                    /\ n \notin acked' \cup refused'
                                    /\ outcome'[n] = "none"
      BY <1>0, <2>1, <2>2, <2>3, <2>4 DEF MessageInv
    <3>2. \A n \in acked' \cup refused' : tries'[n] > 0
      BY <1>0, <2>1, <2>2, <2>3, <2>5 DEF MessageInv
    <3>3. \A n \in Messages : outcome'[n] # "none" => tries'[n] > 0
      BY <1>0, <2>1, <2>2, <2>4 DEF MessageInv
    <3> QED
      BY <1>0, <2>1, <3>1, <3>2, <3>3 DEF MessageInv
  <2>7. SyncTruth'
    BY <1>0, <2>1, <2>2, <2>3, <2>4 DEF SyncTruth
  <2>8. ~session'
    BY <1>4 DEF SendSynchronousFails, Close
  <2> QED
    BY <2>6, <2>7, <2>8 DEF Fate, NoSilentLoss
<1>5. ASSUME NEW r \in Requests, Answer(r)
      PROVE  Fate'
  BY <1>0, <1>5 DEF Fate, MessageInv, NoSilentLoss, SyncTruth, Answer, Close, network
<1>6. ASSUME NEW r \in Requests, Ask(r)
      PROVE  Fate'
  BY <1>0, <1>6 DEF Fate, MessageInv, NoSilentLoss, SyncTruth, Ask, stores, history
<1>7. ASSUME NEW failed \in BOOLEAN, ReceiveNothing(failed)
      PROVE  Fate'
  <2>1. Left(client, {}) /\ Leave({}, {}, {}, failed)
    BY <1>7, LeftFacts DEF Leave, ReceiveNothing
  <2> QED
    BY <1>7, <2>1, ProcessKeeps DEF ReceiveNothing
<1>8. ASSUME NEW m \in Messages, NEW type \in Types, ReceiveAnswer(m, type)
      PROVE  Fate'
  <2> DEFINE gone == {m} \cap DOMAIN client
             acks == IF type = "ACK" THEN gone ELSE {}
             refusals == IF type = "RESET" THEN gone ELSE {}
             closed == type = "RESET"
  <2>1. Left(Without(client, {m}), gone)
    BY LeftFacts
  <2>2. Leave(gone, acks, refusals, closed)
    BY <1>8 DEF Leave, ReceiveAnswer, Types
  <2>3. /\ sync = None /\ Process(Without(client, {m}), server, closed, FALSE)
        /\ UNCHANGED <<sync, sent, outcome>>
    BY <1>8 DEF ReceiveAnswer
  <2>4. closed \in BOOLEAN /\ FALSE \in BOOLEAN
    OBVIOUS
  <2> HIDE DEF gone, acks, refusals, closed
  <2> QED
    BY <2>1, <2>2, <2>3, <2>4, ProcessKeeps
<1>9. ASSUME NEW r \in Requests, ReceiveRequest(r)
      PROVE  Fate'
  <2>1. Left(client, {}) /\ Leave({}, {}, {}, FALSE)
    BY <1>9, LeftFacts DEF Leave, ReceiveRequest
  <2> DEFINE s == With(server, r, [kind |-> "request", left |-> MAX_TRANSMIT_SPAN])
  <2>2. sync = None /\ Process(client, s, FALSE, FALSE) /\ UNCHANGED <<sync, sent, outcome>>
    BY <1>9 DEF ReceiveRequest
  <2> HIDE DEF s
  <2> QED
    BY <2>1, <2>2, ProcessKeeps
<1>10. ASSUME NEW r \in Requests, ReceiveDuplicate(r)
       PROVE  Fate'
  <2>1. Left(client, {}) /\ Leave({}, {}, {}, FALSE)
    BY <1>10, LeftFacts DEF Leave, ReceiveDuplicate
  <2> DEFINE sending == server[r].kind = "answer"
  <2>2. sync = None /\ Process(client, server, FALSE, sending) /\ UNCHANGED <<sync, sent, outcome>>
    BY <1>10 DEF ReceiveDuplicate
  <2>3. sending \in BOOLEAN
    OBVIOUS
  <2> HIDE DEF sending
  <2> QED
    BY <2>1, <2>2, <2>3, ProcessKeeps
<1>11. ASSUME NEW failed \in BOOLEAN, WaitNothing(failed)
       PROVE  Fate'
  <2> DEFINE error == IF failed THEN "error" ELSE "ok"
  <2>1. Left(client, {}) /\ Leave({}, {}, {}, failed)
    BY <1>11, LeftFacts DEF Leave, WaitNothing
  <2>2. sync # None /\ Round(client, failed, error) /\ UNCHANGED sent
    BY <1>11 DEF WaitNothing
  <2>3. /\ error \in {"ok", "reset", "error"}
        /\ error = "reset" <=> sync \in {}
        /\ error = "error" => {} = {}
        /\ error # "ok" => failed
    OBVIOUS
  <2> HIDE DEF error
  <2> QED
    BY <2>1, <2>2, <2>3, RoundKeeps
<1>12. ASSUME NEW m \in Messages, NEW type \in Types, WaitAnswer(m, type)
       PROVE  Fate'
  <2> DEFINE gone == {m} \cap DOMAIN client
             acks == IF type = "ACK" THEN gone ELSE {}
             refusals == IF type = "RESET" THEN gone ELSE {}
             closed == type = "RESET"
             error == IF type = "RESET" /\ m = sync THEN "reset" ELSE "ok"
  <2>1. Left(Without(client, {m}), gone)
    BY LeftFacts
  <2>2. Leave(gone, acks, refusals, closed)
    BY <1>12 DEF Leave, WaitAnswer, Types
  <2>3. sync # None /\ Round(Without(client, {m}), closed, error) /\ UNCHANGED sent
    BY <1>12 DEF WaitAnswer
  <2>4. sync \in DOMAIN client
    BY <1>0, <2>3 DEF MessageInv
  <2>5. /\ error \in {"ok", "reset", "error"} /\ closed \in BOOLEAN
        /\ error = "reset" <=> sync \in refusals
        /\ error = "error" => gone = {}
        /\ error # "ok" => closed
    BY <2>4
  <2> HIDE DEF gone, acks, refusals, closed, error
  <2> QED
    BY <2>1, <2>2, <2>3, <2>5, RoundKeeps
<1>13. ASSUME NEW resumed \in BOOLEAN, Establish(resumed)
       PROVE  Fate'
  <2>1. DOMAIN client' = {} /\ sent' = {} /\ sync' = None
        /\ UNCHANGED <<acked, refused, tries, outcome>>
    BY <1>13 DEF Establish, Nothing
  <2> QED
    BY <1>0, <2>1 DEF Fate, MessageInv, NoSilentLoss, SyncTruth
<1>14. CASE Tick
  <2>1. /\ DOMAIN client' = DOMAIN client
        /\ \A m \in DOMAIN client : client'[m].count = client[m].count
        /\ UNCHANGED <<session, sync, sent, acked, refused, tries, outcome>>
    <3>1. client \in UNION {[s -> Pending] : s \in SUBSET Messages}
      BY DEF TypeOK
    <3>2. \A m \in DOMAIN client : client[m] \in Pending
      BY <3>1, StoreType
    <3> QED
      BY <1>14, <3>2 DEF Tick, history, Pending
  <2> QED
    BY <1>0, <2>1 DEF Fate, MessageInv, NoSilentLoss, SyncTruth
<1> QED
  BY <1>1, <1>2, <1>3, <1>4, <1>5, <1>6, <1>7, <1>8, <1>9, <1>10, <1>11, <1>12, <1>13, <1>14
     DEF Next, Receive, Wait

-----------------------------------------------------------------------------
(* What becomes of the requests of the server.                             *)

Once == RequestInv /\ AtMostOnce

\* Entries whose time is not over are kept.
LEMMA DueFacts ==
    ASSUME NEW s, s \in ServerStores
    PROVE  /\ Without(s, Due(s)) \in ServerStores
           /\ DOMAIN Without(s, Due(s)) \subseteq DOMAIN s
           /\ \A r \in DOMAIN Without(s, Due(s)) : Without(s, Due(s))[r] = s[r]
           /\ \A r \in DOMAIN s : s[r].left # 0 => r \in DOMAIN Without(s, Due(s))
<1>1. s \in UNION {[x -> Kept] : x \in SUBSET Requests}
  BY DEF ServerStores
<1>2. Without(s, Due(s)) \in UNION {[x -> Kept] : x \in SUBSET Requests}
  BY <1>1, WithoutType
<1>3. /\ DOMAIN Without(s, Due(s)) \subseteq DOMAIN s
      /\ \A r \in DOMAIN Without(s, Due(s)) : Without(s, Due(s))[r] = s[r]
      /\ \A r \in DOMAIN s : s[r].left # 0 => r \in DOMAIN Without(s, Due(s))
  BY DEF Without, Due
<1> QED
  BY <1>2, <1>3 DEF ServerStores

\* A request or an answer that is stored anew is kept as long as can be.
LEMMA KeepFacts ==
    ASSUME TypeOK, NEW r \in Requests, NEW kind \in {"request", "answer"}
    PROVE  LET entry == [kind |-> kind, left |-> MAX_TRANSMIT_SPAN]
               s     == With(server, r, entry)
           IN /\ s \in ServerStores
              /\ DOMAIN s = DOMAIN server \cup {r}
              /\ s[r].kind = kind /\ s[r].left = MAX_TRANSMIT_SPAN
              /\ \A q \in DOMAIN server : q # r => s[q] = server[q]
<1> DEFINE entry == [kind |-> kind, left |-> MAX_TRANSMIT_SPAN]
           s     == With(server, r, entry)
<1>1. entry \in Kept /\ entry.kind = kind /\ entry.left = MAX_TRANSMIT_SPAN
  BY NumbersAssumption DEF Kept
<1> HIDE DEF entry
<1>2. server \in UNION {[x -> Kept] : x \in SUBSET Requests}
  BY DEF TypeOK
<1>3. s \in UNION {[x -> Kept] : x \in SUBSET Requests}
  BY <1>1, <1>2, WithFacts
<1>4. /\ DOMAIN s = DOMAIN server \cup {r}
      /\ s[r] = entry
      /\ \A q \in DOMAIN server : q # r => s[q] = server[q]
  BY DEF With
<1> QED
  BY <1>1, <1>3, <1>4 DEF ServerStores, entry

\* What copies and server hold.
LEMMA ServerTypes ==
    ASSUME TypeOK
    PROVE  /\ server \in ServerStores
           /\ DOMAIN server \subseteq Requests /\ DOMAIN copies \subseteq Requests
           /\ \A r \in DOMAIN server : /\ server[r].left \in 0 .. MAX_TRANSMIT_SPAN
                                       /\ server[r].kind \in {"request", "answer"}
           /\ \A r \in DOMAIN copies : copies[r] \in 0 .. Window
<1>1. server \in UNION {[x -> Kept] : x \in SUBSET Requests}
  BY DEF TypeOK
<1>2. copies \in UNION {[x -> 0 .. Window] : x \in SUBSET Requests}
  BY DEF TypeOK
<1>3. DOMAIN server \subseteq Requests /\ \A r \in DOMAIN server : server[r] \in Kept
  BY <1>1, StoreType
<1>4. DOMAIN copies \subseteq Requests /\ \A r \in DOMAIN copies : copies[r] \in 0 .. Window
  BY <1>2, StoreType
<1> QED
  BY <1>1, <1>3, <1>4 DEF ServerStores, Kept

\* Dropping what is due disturbs no request whose copies still arrive.
LEMMA DropKeeps ==
    ASSUME TypeOK, Once, server' = Without(server, Due(server)),
           UNCHANGED <<copies, handled, answered>>
    PROVE  Once'
<1>1. /\ DOMAIN server' \subseteq DOMAIN server
      /\ \A r \in DOMAIN server' : server'[r] = server[r]
      /\ \A r \in DOMAIN server : server[r].left # 0 => r \in DOMAIN server'
  BY ServerTypes, DueFacts
<1>2. RequestInv /\ AtMostOnce
  BY DEF Once
<1>3. ASSUME NEW r \in Requests, handled[r] > 0, copies[r] > 0
      PROVE  r \in DOMAIN server' /\ server'[r].left >= copies[r]
  <2>1. r \in DOMAIN server /\ server[r].left >= copies[r] /\ r \in DOMAIN copies
    BY <1>2, <1>3 DEF RequestInv
  <2>2. copies[r] \in Int /\ server[r].left \in Int
    BY <2>1, ServerTypes
  <2>3. server[r].left # 0
    BY <1>3, <2>1, <2>2
  <2> QED
    BY <1>1, <2>1, <2>3
<1>4. \A r \in answered' : r \in DOMAIN server' => server'[r].kind = "answer"
  BY <1>1, <1>2 DEF RequestInv
<1>5. RequestInv'
  BY <1>2, <1>3, <1>4 DEF RequestInv
<1> QED
  BY <1>2, <1>5 DEF Once, AtMostOnce

LEMMA OnceStep ==
    ASSUME TypeOK, Once, [Next]_vars
    PROVE  Once'
<1>0. RequestInv /\ AtMostOnce
  BY DEF Once
<1>a. /\ handled \in [Requests -> 0 .. 2] /\ answered \subseteq Requests
      /\ MAX_TRANSMIT_SPAN \in Nat \ {0} /\ Window \in Nat \ {0} /\ Window <= MAX_TRANSMIT_SPAN
  BY NumbersAssumption, WindowAssumption DEF TypeOK
<1>1. ASSUME UNCHANGED <<server, copies, handled, answered>>
      PROVE  Once'
  BY <1>0, <1>1 DEF Once, RequestInv, AtMostOnce
<1>2. CASE UNCHANGED vars
  BY <1>1, <1>2 DEF vars, stores, network, history
<1>3. ASSUME NEW m \in Messages, Send(m) \/ SendSynchronous(m) \/ SendSynchronousFails(m)
      PROVE  Once'
  BY <1>1, <1>3 DEF Send, SendSynchronous, SendSynchronousFails, stores
<1>4. ASSUME NEW failed \in BOOLEAN, WaitNothing(failed)
      PROVE  Once'
  BY <1>1, <1>4 DEF WaitNothing
<1>5. ASSUME NEW m \in Messages, NEW type \in Types, WaitAnswer(m, type)
      PROVE  Once'
  BY <1>1, <1>5 DEF WaitAnswer
<1>6. ASSUME NEW r \in Requests, Answer(r)
      PROVE  Once'
  <2>1. /\ handled[r] > 0 /\ answered' = answered \cup {r}
        /\ UNCHANGED <<copies, handled>>
    BY <1>6 DEF Answer, network
  <2>2. /\ DOMAIN server' = DOMAIN server \cup {r}
        /\ server'[r].kind = "answer" /\ server'[r].left = MAX_TRANSMIT_SPAN
        /\ \A q \in DOMAIN server : q # r => server'[q] = server[q]
    BY <1>6, KeepFacts DEF Answer
  <2>3. r \in DOMAIN copies /\ copies[r] \in 0 .. Window
    BY <1>0, <2>1, ServerTypes DEF RequestInv
  <2>4. server'[r].left >= copies[r]
    BY <1>a, <2>2, <2>3
  <2>5. \A q \in Requests : handled[q] > 0 /\ copies[q] > 0 =>
            q \in DOMAIN server' /\ server'[q].left >= copies[q]
    BY <1>0, <2>2, <2>4 DEF RequestInv
  <2>6. \A q \in answered' : q \in DOMAIN server' => server'[q].kind = "answer"
    BY <1>0, <2>1, <2>2 DEF RequestInv
  <2>7. RequestInv'
    BY <1>0, <2>1, <2>5, <2>6 DEF RequestInv
  <2> QED
    BY <1>0, <2>1, <2>7 DEF Once, AtMostOnce
<1>7. ASSUME NEW r \in Requests, Ask(r)
      PROVE  Once'
  <2>1. /\ r \notin DOMAIN copies /\ copies' = With(copies, r, Window)
        /\ UNCHANGED <<server, handled, answered>>
    BY <1>7 DEF Ask, stores, history
  <2>2. /\ DOMAIN copies' = DOMAIN copies \cup {r}
        /\ \A q \in DOMAIN copies : q # r => copies'[q] = copies[q]
    BY <2>1 DEF With
  <2>3. \A q \in Requests : handled[q] > 0 =>
            q # r /\ q \in DOMAIN copies' /\ copies'[q] = copies[q]
    BY <1>0, <2>1, <2>2 DEF RequestInv
  <2>4. RequestInv'
    BY <1>0, <2>1, <2>3 DEF RequestInv
  <2> QED
    BY <1>0, <2>1, <2>4 DEF Once, AtMostOnce
<1>8. ASSUME NEW failed \in BOOLEAN, ReceiveNothing(failed)
      PROVE  Once'
  BY <1>8, DropKeeps DEF ReceiveNothing, Process
<1>9. ASSUME NEW m \in Messages, NEW type \in Types, ReceiveAnswer(m, type)
      PROVE  Once'
  BY <1>9, DropKeeps DEF ReceiveAnswer, Process
<1>10. ASSUME NEW r \in Requests, ReceiveDuplicate(r)
       PROVE  Once'
  BY <1>10, DropKeeps DEF ReceiveDuplicate, Process
<1>11. ASSUME NEW r \in Requests, ReceiveRequest(r)
       PROVE  Once'
  <2> DEFINE s == With(server, r, [kind |-> "request", left |-> MAX_TRANSMIT_SPAN])
  <2>1. /\ r \in DOMAIN copies /\ copies[r] > 0 /\ r \notin DOMAIN server
        /\ handled' = [handled EXCEPT ![r] = IF @ < 2 THEN @ + 1 ELSE 2]
        /\ server' = Without(s, Due(s))
        /\ UNCHANGED <<copies, answered>>
    BY <1>11 DEF ReceiveRequest, Copy, Process
  <2>2. handled[r] = 0
    BY <1>0, <1>a, <2>1 DEF RequestInv
  <2>3. handled'[r] = 1 /\ \A q \in Requests : q # r => handled'[q] = handled[q]
    BY <1>a, <2>1, <2>2
  <2>4. r \notin answered
    BY <1>0, <2>2 DEF RequestInv
  <2>5. /\ s \in ServerStores
        /\ DOMAIN s = DOMAIN server \cup {r}
        /\ s[r].left = MAX_TRANSMIT_SPAN
        /\ \A q \in DOMAIN server : q # r => s[q] = server[q]
    BY KeepFacts
  <2> HIDE DEF s
  <2>6. /\ DOMAIN server' \subseteq DOMAIN s
        /\ \A q \in DOMAIN server' : server'[q] = s[q]
        /\ \A q \in DOMAIN s : s[q].left # 0 => q \in DOMAIN server'
    BY <2>1, <2>5, DueFacts
  <2>7. ASSUME NEW q \in Requests, handled'[q] > 0, copies[q] > 0
        PROVE  q \in DOMAIN server' /\ server'[q].left >= copies[q]
    <3>1. CASE q = r
      <4>1. copies[r] \in 0 .. Window
        BY <2>1, ServerTypes
      <4> QED
        BY <1>a, <2>5, <2>6, <3>1, <4>1
    <3>2. CASE q # r
      <4>1. q \in DOMAIN server /\ server[q].left >= copies[q] /\ q \in DOMAIN copies
        BY <1>0, <2>3, <2>7, <3>2 DEF RequestInv
      <4>2. server[q].left \in Int /\ copies[q] \in Int
        BY <4>1, ServerTypes
      <4>3. s[q] = server[q] /\ q \in DOMAIN s /\ s[q].left # 0
        BY <2>5, <2>7, <3>2, <4>1, <4>2
      <4> QED
        BY <2>6, <4>1, <4>3
    <3> QED
      BY <3>1, <3>2
  <2>8. \A q \in Requests : handled'[q] > 0 => q \in DOMAIN copies
    BY <1>0, <2>1, <2>3 DEF RequestInv
  <2>9. \A q \in answered : handled'[q] > 0 /\ (q \in DOMAIN server' => server'[q].kind = "answer")
    BY <1>0, <1>a, <2>3, <2>4, <2>5, <2>6 DEF RequestInv
  <2>10. RequestInv'
    BY <2>1, <2>7, <2>8, <2>9 DEF RequestInv
  <2>11. AtMostOnce'
    BY <1>0, <2>3 DEF AtMostOnce
  <2> QED
    BY <2>10, <2>11 DEF Once
<1>12. ASSUME NEW resumed \in BOOLEAN, Establish(resumed)
       PROVE  Once'
  <2>1. handled' = [r \in Requests |-> 0] /\ answered' = {}
    BY <1>12 DEF Establish
  <2> QED
    BY <2>1 DEF Once, RequestInv, AtMostOnce
<1>13. CASE Tick
  <2>1. /\ DOMAIN server' = DOMAIN server /\ DOMAIN copies' = DOMAIN copies
        /\ UNCHANGED <<handled, answered>>
        /\ \A r \in DOMAIN copies : copies'[r] = Less(copies[r])
    BY <1>13 DEF Tick, history
  <2>2. \A r \in DOMAIN server : /\ server'[r].kind = server[r].kind
                                 /\ server'[r].left = Less(server[r].left)
    <3>1. server \in UNION {[x -> Kept] : x \in SUBSET Requests}
      BY DEF TypeOK
    <3>2. \A r \in DOMAIN server : server[r] \in Kept
      BY <3>1, StoreType
    <3>3. server' = [r \in DOMAIN server |-> [server[r] EXCEPT !.left = Less(@)]]
      BY <1>13 DEF Tick
    <3> QED
      BY <3>2, <3>3 DEF Kept
  <2>3. ASSUME NEW r \in Requests, handled[r] > 0, copies'[r] > 0
        PROVE  r \in DOMAIN server /\ server'[r].left >= copies'[r]
    <3>1. r \in DOMAIN copies /\ copies[r] \in 0 .. Window
      BY <1>0, <2>3, ServerTypes DEF RequestInv
    <3>2. copies[r] > 0 /\ copies'[r] = copies[r] - 1
      BY <2>1, <2>3, <3>1 DEF Less
    <3>3. r \in DOMAIN server /\ server[r].left >= copies[r]
      BY <1>0, <2>3, <3>2 DEF RequestInv
    <3>4. server[r].left \in 0 .. MAX_TRANSMIT_SPAN
      BY <3>3, ServerTypes
    <3>5. server'[r].left = server[r].left - 1
      BY <1>a, <2>2, <3>1, <3>2, <3>3, <3>4 DEF Less
    <3> QED
      BY <1>a, <3>1, <3>2, <3>3, <3>4, <3>5
  <2>4. RequestInv'
    BY <1>0, <2>1, <2>2, <2>3 DEF RequestInv
  <2> QED
    BY <1>0, <2>1, <2>4 DEF Once, AtMostOnce
<1> QED
  BY <1>2, <1>3, <1>4, <1>5, <1>6, <1>7, <1>8, <1>9, <1>10, <1>11, <1>12, <1>13
     DEF Next, Receive, Wait

-----------------------------------------------------------------------------
(* The types.                                                              *)

\* The parts of the state, in the order in which the actions change them.
Types1 == /\ client \in Stores /\ tries \in [Messages -> 0 .. MAX_RETRANSMIT + 1]
          /\ answers \subseteq Messages \X Types
Types2 == server \in ServerStores /\ session \in BOOLEAN
Types3 == sync \in Messages \cup {None}
          /\ outcome \in [Messages -> {"none", "ok", "timeout", "reset", "error"}]
Types4 == sent \subseteq Messages /\ acked \cup refused \subseteq Messages
Types5 == /\ copies \in UNION {[s -> 0 .. Window] : s \in SUBSET Requests}
          /\ handled \in [Requests -> 0 .. 2] /\ answered \subseteq Requests

LEMMA TypeParts == TypeOK <=> Types1 /\ Types2 /\ Types3 /\ Types4 /\ Types5
BY DEF TypeOK, Types1, Types2, Types3, Types4, Types5, Stores, ServerStores

LEMMA CloseType == ASSUME NEW failed, Close(failed) PROVE session' \in BOOLEAN
BY DEF Close

LEMMA ProcessTypes ==
    ASSUME TypeOK, MessageInv, NEW c, NEW s, NEW gone, NEW closed, NEW sending,
           Left(c, gone), s \in ServerStores, Process(c, s, closed, sending)
    PROVE  Types1' /\ Types2'
<1>1. client' \in Processed(c) /\ Transmit(Again(c)) /\ server' = Without(s, Due(s))
  BY DEF Process
<1>2. Types1'
  BY <1>1, RetransmitFacts DEF Types1
<1>3. session' \in BOOLEAN
  BY CloseType DEF Process
<1>4. server' \in ServerStores
  BY <1>1, DueFacts
<1> QED
  BY <1>2, <1>3, <1>4 DEF Types2

LEMMA RoundTypes ==
    ASSUME TypeOK, MessageInv, NEW c, NEW gone, NEW closed,
           NEW error \in {"ok", "reset", "error"},
           Left(c, gone), sync # None, Round(c, closed, error), UNCHANGED server
    PROVE  Types1' /\ Types2' /\ Types3'
<1> DEFINE over == sync \notin DOMAIN c \/ sync \in Lost(c) \/ error # "ok"
<1>1. PICK kept \in Processed(c) : client' = IF over THEN Without(kept, {sync}) ELSE kept
  BY DEF Round
<1>2. Transmit(Again(c))
  BY DEF Round
<1>3. /\ sync' = IF over THEN None ELSE sync
      /\ outcome' = IF over
                    THEN [outcome EXCEPT ![sync] = IF sync \in Lost(c) THEN "timeout" ELSE error]
                    ELSE outcome
  BY DEF Round
<1> HIDE DEF over
<1>4. /\ kept \in Stores /\ tries' \in [Messages -> 0 .. MAX_RETRANSMIT + 1]
      /\ answers' \subseteq Messages \X Types
  BY <1>2, RetransmitFacts
<1>5. Without(kept, {sync}) \in Stores
  BY <1>4, WithoutType DEF Stores
<1>6. session' \in BOOLEAN
  BY CloseType DEF Round
<1>7. /\ sync \in Messages \cup {None}
      /\ outcome \in [Messages -> {"none", "ok", "timeout", "reset", "error"}]
      /\ server \in ServerStores
  BY DEF TypeOK, ServerStores
<1>8. Types1'
  BY <1>1, <1>4, <1>5 DEF Types1
<1>9. Types3'
  BY <1>3, <1>7 DEF Types3
<1> QED
  BY <1>6, <1>7, <1>8, <1>9 DEF Types2

\* An answer that arrives is noted only of a message of the device.
LEMMA NoteTypes ==
    ASSUME TypeOK, NEW m \in Messages, NEW type, UNCHANGED sent,
           acked' = IF type = "ACK" THEN acked \cup ({m} \cap DOMAIN client) ELSE acked,
           refused' = IF type = "RESET" THEN refused \cup ({m} \cap DOMAIN client) ELSE refused
    PROVE  Types4'
BY DEF TypeOK, Types4

LEMMA TypeStep ==
    ASSUME TypeOK, MessageInv, [Next]_vars
    PROVE  TypeOK'
<1>0. Types1 /\ Types2 /\ Types3 /\ Types4 /\ Types5
  BY TypeParts
<1>a. ASSUME Types1', Types2', Types3', Types4', Types5'
      PROVE  TypeOK'
  BY <1>a DEF TypeOK, Types1, Types2, Types3, Types4, Types5, Stores, ServerStores
<1>b. ASSUME UNCHANGED <<client, tries, answers>> PROVE Types1'
  BY <1>0, <1>b DEF Types1
<1>c. ASSUME UNCHANGED <<server, session>> PROVE Types2'
  BY <1>0, <1>c DEF Types2
<1>d. ASSUME UNCHANGED <<sync, outcome>> PROVE Types3'
  BY <1>0, <1>d DEF Types3
<1>e. ASSUME UNCHANGED <<sent, acked, refused>> PROVE Types4'
  BY <1>0, <1>e DEF Types4
<1>f. ASSUME UNCHANGED <<copies, handled, answered>> PROVE Types5'
  BY <1>0, <1>f DEF Types5
<1>g. Left(client, {}) /\ server \in ServerStores
  BY LeftFacts, ServerTypes
<1>1. CASE UNCHANGED vars
  BY <1>1, <1>a, <1>b, <1>c, <1>d, <1>e, <1>f DEF vars, stores, network, history
<1>2. ASSUME NEW m \in Messages, Store(m), Transmit({m}), session' \in BOOLEAN,
             sync' \in {sync, m},
             UNCHANGED <<server, copies, acked, refused, outcome, handled, answered>>
      PROVE  TypeOK'
  <2>1. Types1'
    BY <1>2, StoreFacts DEF Types1
  <2>2. Types2'
    BY <1>0, <1>2 DEF Types2
  <2>3. Types3'
    BY <1>0, <1>2 DEF Types3
  <2>4. Types4'
    BY <1>0, <1>2, StoreFacts DEF Types4
  <2> QED
    BY <1>2, <1>a, <1>f, <2>1, <2>2, <2>3, <2>4
<1>3. ASSUME NEW m \in Messages, Send(m)
      PROVE  TypeOK'
  <2>1. session' \in BOOLEAN
    BY <1>3, CloseType DEF Send
  <2> QED
    BY <1>2, <1>3, <2>1 DEF Send
<1>4. ASSUME NEW m \in Messages, SendSynchronous(m)
      PROVE  TypeOK'
  <2>1. session' \in BOOLEAN
    BY <1>4, CloseType DEF SendSynchronous
  <2> QED
    BY <1>2, <1>4, <2>1 DEF SendSynchronous
<1>5. ASSUME NEW m \in Messages, SendSynchronousFails(m)
      PROVE  TypeOK'
  <2>1. session' \in BOOLEAN
    BY <1>5, CloseType DEF SendSynchronousFails
  <2>2. tries[m] <= MAX_RETRANSMIT
    BY <1>5, NumbersAssumption DEF SendSynchronousFails
  <2>3. Types1'
    BY <1>0, <1>5, <2>2, TransmitFacts DEF Types1, SendSynchronousFails, stores
  <2>4. Types2'
    BY <1>0, <1>5, <2>1 DEF Types2, SendSynchronousFails, stores
  <2>5. Types3'
    BY <1>0, <1>5 DEF Types3, SendSynchronousFails
  <2>6. Types4'
    BY <1>0, <1>5 DEF Types4, SendSynchronousFails
  <2> QED
    BY <1>5, <1>a, <1>f, <2>3, <2>4, <2>5, <2>6 DEF SendSynchronousFails
<1>6. ASSUME NEW r \in Requests, Answer(r)
      PROVE  TypeOK'
  <2>1. session' \in BOOLEAN
    BY <1>6, CloseType DEF Answer
  <2>2. server' \in ServerStores
    BY <1>6, KeepFacts DEF Answer
  <2>3. Types5'
    BY <1>0, <1>6 DEF Types5, Answer, network
  <2> QED
    BY <1>6, <1>a, <1>b, <1>d, <1>e, <2>1, <2>2, <2>3 DEF Answer, network, Types2
<1>7. ASSUME NEW r \in Requests, Ask(r)
      PROVE  TypeOK'
  <2>1. copies \in UNION {[s -> 0 .. Window] : s \in SUBSET Requests}
    BY DEF TypeOK
  <2>2. Window \in 0 .. Window
    BY NumbersAssumption
  <2>3. With(copies, r, Window) \in UNION {[s -> 0 .. Window] : s \in SUBSET Requests}
    BY <2>1, <2>2, WithFacts
  <2>4. Types5'
    BY <1>0, <1>7, <2>3 DEF Types5, Ask, history
  <2> QED
    BY <1>7, <1>a, <1>b, <1>c, <1>d, <1>e, <2>4 DEF Ask, stores, history
<1>8. ASSUME NEW failed \in BOOLEAN, ReceiveNothing(failed)
      PROVE  TypeOK'
  <2>1. Types1' /\ Types2'
    BY <1>8, <1>g, ProcessTypes DEF ReceiveNothing
  <2> QED
    BY <1>8, <1>a, <1>d, <1>e, <1>f, <2>1 DEF ReceiveNothing
<1>9. ASSUME NEW m \in Messages, NEW type \in Types, ReceiveAnswer(m, type)
      PROVE  TypeOK'
  <2> DEFINE closed == type = "RESET"
  <2>1. Process(Without(client, {m}), server, closed, FALSE)
    BY <1>9 DEF ReceiveAnswer
  <2> HIDE DEF closed
  <2>2. Types1' /\ Types2'
    BY <1>g, <2>1, LeftFacts, ProcessTypes
  <2>3. Types4'
    BY <1>9, NoteTypes DEF ReceiveAnswer
  <2> QED
    BY <1>9, <1>a, <1>d, <1>f, <2>2, <2>3 DEF ReceiveAnswer
<1>10. ASSUME NEW r \in Requests, ReceiveDuplicate(r)
       PROVE  TypeOK'
  <2> DEFINE sending == server[r].kind = "answer"
  <2>1. Process(client, server, FALSE, sending)
    BY <1>10 DEF ReceiveDuplicate
  <2> HIDE DEF sending
  <2>2. Types1' /\ Types2'
    BY <1>g, <2>1, ProcessTypes
  <2> QED
    BY <1>10, <1>a, <1>d, <1>e, <1>f, <2>2 DEF ReceiveDuplicate
<1>11. ASSUME NEW r \in Requests, ReceiveRequest(r)
       PROVE  TypeOK'
  <2> DEFINE s == With(server, r, [kind |-> "request", left |-> MAX_TRANSMIT_SPAN])
  <2>1. Process(client, s, FALSE, FALSE)
    BY <1>11 DEF ReceiveRequest
  <2>2. s \in ServerStores
    BY KeepFacts
  <2> HIDE DEF s
  <2>3. Types1' /\ Types2'
    BY <1>g, <2>1, <2>2, ProcessTypes
  <2>4. Types5'
    BY <1>0, <1>11 DEF Types5, ReceiveRequest
  <2> QED
    BY <1>11, <1>a, <1>d, <1>e, <2>3, <2>4 DEF ReceiveRequest
<1>12. ASSUME NEW failed \in BOOLEAN, WaitNothing(failed)
       PROVE  TypeOK'
  <2> DEFINE error == IF failed THEN "error" ELSE "ok"
  <2>1. Round(client, failed, error) /\ sync # None
    BY <1>12 DEF WaitNothing
  <2>2. error \in {"ok", "reset", "error"}
    OBVIOUS
  <2> HIDE DEF error
  <2>3. UNCHANGED <<server, copies, sent, acked, refused, handled, answered>>
    BY <1>12 DEF WaitNothing
  <2>4. Types1' /\ Types2' /\ Types3'
    BY <1>g, <2>1, <2>2, <2>3, RoundTypes
  <2> QED
    BY <1>a, <1>e, <1>f, <2>3, <2>4
<1>13. ASSUME NEW m \in Messages, NEW type \in Types, WaitAnswer(m, type)
       PROVE  TypeOK'
  <2> DEFINE error == IF type = "RESET" /\ m = sync THEN "reset" ELSE "ok"
             closed == type = "RESET"
  <2>1. Round(Without(client, {m}), closed, error) /\ sync # None
    BY <1>13 DEF WaitAnswer
  <2>2. error \in {"ok", "reset", "error"}
    OBVIOUS
  <2> HIDE DEF error, closed
  <2>3. UNCHANGED <<server, copies, sent, handled, answered>>
    BY <1>13 DEF WaitAnswer
  <2>4. Types1' /\ Types2' /\ Types3'
    BY <2>1, <2>2, <2>3, LeftFacts, RoundTypes
  <2>5. Types4'
    BY <1>13, NoteTypes DEF WaitAnswer
  <2> QED
    BY <1>a, <1>f, <2>3, <2>4, <2>5
<1>14. ASSUME NEW resumed \in BOOLEAN, Establish(resumed)
       PROVE  TypeOK'
  <2>1. client' \in Stores /\ server' \in ServerStores
    BY <1>14, NothingFacts DEF Establish, Stores, ServerStores
  <2>2. session' \in BOOLEAN /\ answers' \subseteq Messages \X Types
    BY <1>0, <1>14 DEF Establish, network, Types1
  <2>3. copies' \in UNION {[s -> 0 .. Window] : s \in SUBSET Requests}
    <3>1. CASE UNCHANGED copies
      BY <1>0, <3>1 DEF Types5
    <3>2. CASE copies' = [r \in DOMAIN copies |-> 0]
      <4>1. DOMAIN copies \in SUBSET Requests
        BY ServerTypes
      <4>2. copies' \in [DOMAIN copies -> 0 .. Window]
        BY <3>2, NumbersAssumption
      <4> QED
        BY <4>1, <4>2
    <3> QED
      BY <1>14, <3>1, <3>2 DEF Establish, network
  <2>4. /\ handled' = [r \in Requests |-> 0] /\ answered' = {} /\ sent' = {}
        /\ UNCHANGED <<sync, acked, refused, tries, outcome>>
    BY <1>14 DEF Establish
  <2>5. Types1' /\ Types2'
    BY <1>0, <2>1, <2>2, <2>4 DEF Types1, Types2
  <2>6. Types4'
    BY <1>0, <2>4 DEF Types4
  <2>7. Types5'
    BY <2>3, <2>4 DEF Types5
  <2> QED
    BY <1>a, <1>d, <2>4, <2>5, <2>6, <2>7
<1>15. CASE Tick
  <2>1. \A b \in Nat : \A n \in 0 .. b : Less(n) \in 0 .. b
    BY DEF Less
  <2>2. client' \in Stores
    <3>1. client \in UNION {[s -> Pending] : s \in SUBSET Messages}
      BY DEF TypeOK
    <3>2. DOMAIN client \subseteq Messages /\ \A m \in DOMAIN client : client[m] \in Pending
      BY <3>1, StoreType
    <3>3. \A m \in DOMAIN client : [client[m] EXCEPT !.left = Less(@)] \in Pending
      <4>1. Longest \in Nat
        <5>1. 0 \in 0 .. MAX_RETRANSMIT
          BY NumbersAssumption
        <5> DEFINE y == ACK_TIMEOUT * Power2[MAX_RETRANSMIT]
        <5>2. y \in Nat
          BY NumbersAssumption, PowerPositive
        <5>3. Longest = y + y \div 2
          BY DEF Longest
        <5> HIDE DEF y
        <5> QED
          BY <5>2, <5>3
      <4> HIDE DEF Longest
      <4> QED
        BY <2>1, <3>2, <4>1 DEF Pending
    <3>4. client' \in [DOMAIN client -> Pending]
      BY <1>15, <3>3 DEF Tick
    <3>5. DOMAIN client \in SUBSET Messages
      BY <3>2
    <3> QED
      BY <3>4, <3>5 DEF Stores
  <2>3. server' \in ServerStores
    <3>1. server \in UNION {[s -> Kept] : s \in SUBSET Requests}
      BY DEF TypeOK
    <3>2. DOMAIN server \subseteq Requests /\ \A r \in DOMAIN server : server[r] \in Kept
      BY <3>1, StoreType
    <3>3. \A r \in DOMAIN server : [server[r] EXCEPT !.left = Less(@)] \in Kept
      BY <2>1, <3>2, NumbersAssumption DEF Kept
    <3>4. server' \in [DOMAIN server -> Kept]
      BY <1>15, <3>3 DEF Tick
    <3>5. DOMAIN server \in SUBSET Requests
      BY <3>2
    <3> QED
      BY <3>4, <3>5 DEF ServerStores
  <2>4. copies' \in UNION {[s -> 0 .. Window] : s \in SUBSET Requests}
    <3>1. DOMAIN copies \in SUBSET Requests /\ \A r \in DOMAIN copies : copies[r] \in 0 .. Window
      BY ServerTypes
    <3>2. \A r \in DOMAIN copies : Less(copies[r]) \in 0 .. Window
      BY <2>1, <3>1, NumbersAssumption
    <3>3. copies' \in [DOMAIN copies -> 0 .. Window]
      BY <1>15, <3>2 DEF Tick
    <3> QED
      BY <3>1, <3>3
  <2>5. UNCHANGED <<session, sync, answers, history>>
    BY <1>15 DEF Tick
  <2>6. Types1' /\ Types2' /\ Types5'
    BY <1>0, <2>2, <2>3, <2>4, <2>5 DEF Types1, Types2, Types5, history
  <2> QED
    BY <1>a, <1>d, <1>e, <2>5, <2>6 DEF history
<1> QED
  BY <1>1, <1>3, <1>4, <1>5, <1>6, <1>7, <1>8, <1>9, <1>10, <1>11, <1>12, <1>13, <1>14, <1>15
     DEF Next, Receive, Wait

-----------------------------------------------------------------------------
(* The theorems.                                                           *)

LEMMA InitInv == Init => Inv
<1> SUFFICES ASSUME Init
             PROVE  Inv
  OBVIOUS
<1> USE DEF Init
<1>1. client \in Stores /\ server \in ServerStores
  BY NothingFacts DEF Stores, ServerStores
<1>2. copies \in UNION {[s -> 0 .. Window] : s \in SUBSET Requests}
  BY NothingFacts
<1>3. 0 \in 0 .. MAX_RETRANSMIT + 1
  BY NumbersAssumption
<1>4. TypeOK
  <2>1. Types1
    BY <1>1, <1>3 DEF Types1
  <2>2. Types2 /\ Types3 /\ Types4
    BY <1>1 DEF Types2, Types3, Types4
  <2>3. Types5
    BY <1>2 DEF Types5
  <2> QED
    BY <2>1, <2>2, <2>3, TypeParts
<1>5. DOMAIN client = {}
  BY DEF Nothing
<1>6. MessageInv /\ RequestInv
  BY <1>5 DEF MessageInv, RequestInv
<1>7. AtMostOnce /\ NoSilentLoss /\ SyncTruth
  BY DEF AtMostOnce, NoSilentLoss, SyncTruth
<1> QED
  BY <1>4, <1>6, <1>7 DEF Inv

\* The inductive invariant holds in every state that can be reached.
THEOREM Invariance == Spec => []Inv
<1>1. Inv /\ [Next]_vars => Inv'
  <2> SUFFICES ASSUME Inv, [Next]_vars
               PROVE  Inv'
    OBVIOUS
  <2>1. TypeOK /\ MessageInv /\ Fate /\ Once
    BY DEF Inv, Fate, Once
  <2>2. TypeOK' /\ Fate' /\ Once'
    BY <2>1, TypeStep, FateStep, OnceStep
  <2> QED
    BY <2>2 DEF Inv, Fate, Once
<1> QED
  BY <1>1, InitInv, PTL DEF Spec

\* No timer runs longer than the timeout of the last transmission, no count of
\* transmissions exceeds the first and MAX_RETRANSMIT more, whatever is lost.
THEOREM TypeCorrect == Spec => []TypeOK
<1>1. Inv => TypeOK
  BY DEF Inv
<1> QED
  BY <1>1, Invariance, PTL

\* A request is passed on to the application once in a session, however many
\* copies of it arrive, as copies stop arriving within MAX_TRANSMIT_SPAN.
THEOREM RequestsAreHandledOnce == Spec => []AtMostOnce
<1>1. Inv => AtMostOnce
  BY DEF Inv
<1> QED
  BY <1>1, Invariance, PTL

\* The answer to a request stays stored as long as a copy may ask for it.
THEOREM AnswersAreKept == Spec => []AnswerKept
<1>1. Inv => AnswerKept
  BY DEF Inv, TypeOK, RequestInv, AnswerKept
<1> QED
  BY <1>1, Invariance, PTL

\* No path of the code drops a message of a session that lasts before it is
\* acknowledged.
THEOREM NothingIsLostSilently == Spec => []NoSilentLoss
<1>1. Inv => NoSilentLoss
  BY DEF Inv
<1> QED
  BY <1>1, Invariance, PTL

\* send_synchronous reports an acknowledgement, a refusal or a timeout of its
\* own message, and of no other.
THEOREM ResultsAreTrue == Spec => []SyncTruth
<1>1. Inv => SyncTruth
  BY DEF Inv
<1> QED
  BY <1>1, Invariance, PTL
=============================================================================
