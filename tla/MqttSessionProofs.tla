-------------------------- MODULE MqttSessionProofs --------------------------
(* Theorems about MqttSession, for any keepalive and any number of packets   *)
(* under way.                                                                *)
EXTENDS MqttSession, FiniteSetTheorems, SequenceTheorems, TLAPS

\* What can be under way to the broker.
Ups == {<<>>, <<"CONNECT">>, <<"SUBSCRIBE">>, <<"PINGREQ">>, <<"SUBSCRIBE", "PINGREQ">>}

\* A connection begins with nothing left of the one before: until connect
\* returns, the only packet the client can find is the answer to its CONNECT.
ConnectionInv ==
    /\ up \in Ups
    /\ wire # "up" => up = <<>> /\ ~session /\ ~subscribed
    /\ wire = "up" => sock = "open"
    /\ sock = "closed" => wire = "closed" /\ down = <<>>
    /\ pc = "connect" => sock = "closed"
    /\ up = <<"CONNECT">> => pc = "connack" /\ down = <<>> /\ ~session
    /\ pc \in {"connack", "readack"} =>
           /\ up \in {<<>>, <<"CONNECT">>} /\ ~subscribed
           /\ down \in {<<>>, <<"ACCEPT">>, <<"REFUSE">>}
           /\ wire = "up" /\ down = <<"ACCEPT">> => session
    /\ pc = "subscribe" => /\ up = <<>> /\ down = <<>> /\ ~subscribed
                           /\ sock = "open" => ~pingOutstanding /\ quiet = 0
    /\ wire = "up" /\ ~Connecting => session

Asking == up \in {<<"PINGREQ">>, <<"SUBSCRIBE", "PINGREQ">>}
AnswerAt(i) == i \in 1 .. Len(down) /\ down[i] = "PINGRESP"

\* A PINGREQ is on its way, or its answer, and only while it is outstanding.
PingInv ==
    /\ Asking => pingOutstanding /\ \A i \in 1 .. Len(down) : ~AnswerAt(i)
    /\ \A i \in 1 .. Len(down) : AnswerAt(i) => pingOutstanding
    /\ \A i, j \in 1 .. Len(down) : AnswerAt(i) /\ AnswerAt(j) => i = j

\* No stamp is older than an outstanding PINGREQ of this connection.
AskedInv ==
    pingOutstanding /\ sock = "open" /\ ~Connecting =>
        asked # None /\ sinceIn <= asked /\ sinceOut <= asked /\ sinceStart <= asked

\* The worker has passed the test of the keepalive since it was last delayed.
Tested == pc \in {"poll", "read", "callback", "check", "delay"}

\* The time since a packet was read is what lastInActivity says, and a
\* keepalive and a tick more when a PINGREQ has set that back.
QuietInv ==
    sock = "open" /\ ~Connecting =>
        /\ ~pingOutstanding => quiet <= sinceIn /\ (Tested => quiet <= K)
        /\ pingOutstanding => quiet <= K + 1 + sinceIn /\ (Tested => quiet <= 2 * K + 1)

Inv == TypeOK /\ ConnectionInv /\ PingInv /\ AskedInv /\ QuietInv

-----------------------------------------------------------------------------
(* Queues.                                                                 *)

\* What is written, and taken by the broker.
LEMMA UpsFacts ==
    /\ Append(<<>>, "SUBSCRIBE") = <<"SUBSCRIBE">>
    /\ Append(<<>>, "PINGREQ") = <<"PINGREQ">>
    /\ Append(<<"SUBSCRIBE">>, "PINGREQ") = <<"SUBSCRIBE", "PINGREQ">>
    /\ Tail(<<"CONNECT">>) = <<>> /\ Tail(<<"SUBSCRIBE">>) = <<>> /\ Tail(<<"PINGREQ">>) = <<>>
    /\ Tail(<<"SUBSCRIBE", "PINGREQ">>) = <<"PINGREQ">>
    /\ Head(<<"CONNECT">>) = "CONNECT" /\ Head(<<"SUBSCRIBE">>) = "SUBSCRIBE"
    /\ Head(<<"PINGREQ">>) = "PINGREQ" /\ Head(<<"SUBSCRIBE", "PINGREQ">>) = "SUBSCRIBE"
<1>1. Append(<<>>, "SUBSCRIBE") = <<"SUBSCRIBE">> /\ Append(<<>>, "PINGREQ") = <<"PINGREQ">>
  OBVIOUS
<1>2. Append(<<"SUBSCRIBE">>, "PINGREQ") = <<"SUBSCRIBE", "PINGREQ">>
  <2>1. <<"SUBSCRIBE">> \in Seq(ToBroker) /\ "PINGREQ" \in ToBroker
    BY DEF ToBroker
  <2>2. /\ Append(<<"SUBSCRIBE">>, "PINGREQ") \in Seq(ToBroker)
        /\ Len(Append(<<"SUBSCRIBE">>, "PINGREQ")) = 2
        /\ Append(<<"SUBSCRIBE">>, "PINGREQ")[1] = "SUBSCRIBE"
        /\ Append(<<"SUBSCRIBE">>, "PINGREQ")[2] = "PINGREQ"
    BY <2>1
  <2>3. /\ <<"SUBSCRIBE", "PINGREQ">> \in Seq(ToBroker)
        /\ Len(<<"SUBSCRIBE", "PINGREQ">>) = 2
        /\ <<"SUBSCRIBE", "PINGREQ">>[1] = "SUBSCRIBE" /\ <<"SUBSCRIBE", "PINGREQ">>[2] = "PINGREQ"
    BY DEF ToBroker
  <2>4. \A k \in 1 .. 2 : k = 1 \/ k = 2
    OBVIOUS
  <2> QED
    BY <2>2, <2>3, <2>4, SeqEqual
<1>3. Tail(<<"CONNECT">>) = <<>> /\ Tail(<<"SUBSCRIBE">>) = <<>> /\ Tail(<<"PINGREQ">>) = <<>>
  OBVIOUS
<1>4. Tail(<<"SUBSCRIBE", "PINGREQ">>) = <<"PINGREQ">>
  OBVIOUS
<1>5. /\ Head(<<"CONNECT">>) = "CONNECT" /\ Head(<<"SUBSCRIBE">>) = "SUBSCRIBE"
      /\ Head(<<"PINGREQ">>) = "PINGREQ" /\ Head(<<"SUBSCRIBE", "PINGREQ">>) = "SUBSCRIBE"
  OBVIOUS
<1> QED
  BY <1>1, <1>2, <1>3, <1>4, <1>5

LEMMA UpsDistinct ==
    /\ <<"CONNECT">> # <<>> /\ <<"SUBSCRIBE">> # <<>> /\ <<"PINGREQ">> # <<>>
    /\ <<"SUBSCRIBE", "PINGREQ">> # <<>>
    /\ <<"CONNECT">> # <<"SUBSCRIBE">> /\ <<"CONNECT">> # <<"PINGREQ">>
    /\ <<"SUBSCRIBE">> # <<"PINGREQ">>
    /\ <<"SUBSCRIBE", "PINGREQ">> # <<"CONNECT">>
    /\ <<"SUBSCRIBE", "PINGREQ">> # <<"SUBSCRIBE">>
    /\ <<"SUBSCRIBE", "PINGREQ">> # <<"PINGREQ">>
OBVIOUS

LEMMA UpsType == \A packets \in Ups : packets \in Seq(ToBroker) /\ Len(packets) <= 2
<1>1. <<>> \in Seq(ToBroker) /\ Len(<<>>) <= 2
  OBVIOUS
<1>2. /\ <<"CONNECT">> \in Seq(ToBroker) /\ <<"SUBSCRIBE">> \in Seq(ToBroker)
      /\ <<"PINGREQ">> \in Seq(ToBroker)
  BY DEF ToBroker
<1>3. Len(<<"CONNECT">>) <= 2 /\ Len(<<"SUBSCRIBE">>) <= 2 /\ Len(<<"PINGREQ">>) <= 2
  OBVIOUS
<1>4. <<"SUBSCRIBE", "PINGREQ">> \in Seq(ToBroker)
  BY DEF ToBroker
<1>5. Len(<<"SUBSCRIBE", "PINGREQ">>) <= 2
  OBVIOUS
<1> QED
  BY <1>1, <1>2, <1>3, <1>4, <1>5 DEF Ups

\* The answer to a CONNECT.
LEMMA AckFacts ==
    /\ Append(<<>>, "ACCEPT") = <<"ACCEPT">> /\ Append(<<>>, "REFUSE") = <<"REFUSE">>
    /\ Tail(<<"ACCEPT">>) = <<>> /\ Head(<<"ACCEPT">>) = "ACCEPT" /\ Head(<<"REFUSE">>) = "REFUSE"
    /\ <<"ACCEPT">> # <<>> /\ <<"REFUSE">> # <<>> /\ <<"ACCEPT">> # <<"REFUSE">>
OBVIOUS

\* A packet that arrives, is read, or is lost.
LEMMA SendFacts ==
    ASSUME down \in Seq(ToClient), NEW packet \in ToClient, Send(packet)
    PROVE  /\ down' \in Seq(ToClient) /\ torn' \in BOOLEAN
           /\ down' = Append(down, packet)
           /\ Len(down) \in Nat /\ Len(down') = Len(down) + 1 /\ down'[Len(down) + 1] = packet
           /\ \A i \in 1 .. Len(down) : down'[i] = down[i]
BY DEF Send

LEMMA TakeFacts ==
    ASSUME down \in Seq(ToClient), TakePacket
    PROVE  /\ down' \in Seq(ToClient) /\ Len(down) \in Nat /\ Len(down) > 0
           /\ down' = Tail(down)
           /\ Len(down') = Len(down) - 1 /\ Head(down) = down[1]
           /\ \A i \in 1 .. Len(down') : i + 1 \in 1 .. Len(down) /\ down'[i] = down[i + 1]
BY DEF TakePacket, Complete, Available

LEMMA CutFacts ==
    ASSUME down \in Seq(ToClient), WireCloses
    PROVE  /\ down' \in Seq(ToClient) /\ torn' \in BOOLEAN
           /\ Len(down') <= Len(down)
           /\ \A i \in 1 .. Len(down') : i \in 1 .. Len(down) /\ down'[i] = down[i]
<1>1. PICK n \in (IF pc \in {"read", "readack"} THEN 1 ELSE 0) .. Len(down) :
        /\ down' = SubSeq(down, 1, n)
        /\ torn' \in (IF n = 0 THEN {FALSE} ELSE IF n = Len(down) /\ torn THEN {TRUE} ELSE BOOLEAN)
  BY DEF WireCloses
<1>2. n \in Nat /\ n <= Len(down) /\ Len(down) \in Nat
  BY <1>1
<1>3. torn' \in BOOLEAN
  BY <1>1
<1>4. down' \in Seq(ToClient) /\ Len(down') = n /\ \A i \in 1 .. n : down'[i] = down[i]
  BY <1>1, <1>2
<1> QED
  BY <1>2, <1>3, <1>4

\* Time passes, as far as it is counted.
LEMMA OlderFacts ==
    ASSUME NEW limit \in Nat
    PROVE  \A age \in 0 .. limit :
               /\ Older(age, limit) \in 0 .. limit
               /\ age <= Older(age, limit) /\ Older(age, limit) <= age + 1
               /\ \A more \in 0 .. limit : age <= more => Older(age, limit) <= Older(more, limit)
BY DEF Older

LEMMA AgeFacts ==
    /\ K \in Nat /\ K > 0 /\ K + 1 \in Nat /\ Age = 0 .. K + 1 /\ 0 \in Age /\ Age \subseteq Int
    /\ MaxQuiet \in Nat /\ MaxQuiet = 2 * K + 3 /\ 0 \in 0 .. MaxQuiet
    /\ None \notin Age /\ None = -1
BY KAssumption DEF Age, MaxQuiet, None

-----------------------------------------------------------------------------
(* The initial state and the types.                                        *)

LEMMA InitInv == Init => Inv
<1> SUFFICES ASSUME Init
             PROVE  Inv
  OBVIOUS
<1>1. TypeOK
  <2>1. up \in Seq(ToBroker) /\ Len(up) <= 2 /\ down \in Seq(ToClient)
    BY DEF Init
  <2>2. sinceIn \in Age /\ sinceOut \in Age /\ sinceStart \in Age /\ quiet \in 0 .. MaxQuiet
    BY AgeFacts DEF Init
  <2> QED
    BY <2>1, <2>2 DEF Init, TypeOK
<1>2. ConnectionInv
  BY UpsDistinct DEF Init, ConnectionInv, Ups, Connecting
<1>3. PingInv
  BY UpsDistinct DEF Init, PingInv, Asking, AnswerAt
<1>4. AskedInv /\ QuietInv
  BY DEF Init, AskedInv, QuietInv
<1> QED
  BY <1>1, <1>2, <1>3, <1>4 DEF Inv

\* The variables keep their types, the queue to the broker apart.
LEMMA TypeStep == TypeOK /\ up' \in Ups /\ [Next]_vars => TypeOK'
<1> SUFFICES ASSUME TypeOK, up' \in Ups, [Next]_vars
             PROVE  TypeOK'
  OBVIOUS
<1>a. up' \in Seq(ToBroker) /\ Len(up') <= 2
  BY UpsType
<1>b. 0 \in Age /\ 0 \in 0 .. MaxQuiet
  BY AgeFacts
<1>c. <<>> \in Seq(ToClient)
  OBVIOUS
<1>d. Return \in {"subscribe", "delay"}
  BY DEF Return
<1> USE DEF TypeOK, Go, netVars, timeVars
<1>1. CASE ConnectFails
  BY <1>1, <1>a, <1>c, <1>d DEF ConnectFails, Stop
<1>29. CASE LookupFails
  BY <1>29, <1>a, <1>b, <1>c DEF LookupFails, Stop
<1>2. CASE ConnectSends
  BY <1>2, <1>a, <1>b, <1>c DEF ConnectSends
<1>3. CASE ConnackTimeout
  BY <1>3, <1>a, <1>c, <1>d DEF ConnackTimeout, Stop
<1>4. CASE ConnackBegins
  BY <1>4 DEF ConnackBegins
<1>5. CASE ConnackAccepts
  BY <1>5, <1>a, <1>b, <1>d, TakeFacts DEF ConnackAccepts, TakePacket
<1>6. CASE ConnackRefuses
  BY <1>6, <1>a, <1>c, <1>d DEF ConnackRefuses, Stop
<1>7. CASE SetupSubscribes
  BY <1>7, <1>a, <1>b DEF SetupSubscribes, Write
<1>8. CASE SetupGivesUp
  BY <1>8, <1>a, <1>c DEF SetupGivesUp, Stop
<1>9. CASE LoopNotConnected
  BY <1>9, <1>a, <1>c DEF LoopNotConnected, Stop
<1>10. CASE KeepaliveStops
  BY <1>10, <1>a, <1>b, <1>c DEF KeepaliveStops, Stop
<1>11. CASE KeepalivePings
  BY <1>11, <1>a, <1>b DEF KeepalivePings, Write
<1>12. CASE KeepaliveNotDue
  BY <1>12, <1>b DEF KeepaliveNotDue
<1>13. CASE Poll
  BY <1>13 DEF Poll
<1>14. CASE Read
  BY <1>14, <1>a, <1>b, TakeFacts DEF Read, TakePacket
<1>15. CASE ReadTooLong
  BY <1>15, <1>a, TakeFacts DEF ReadTooLong, TakePacket
<1>16. CASE Callback
  BY <1>16 DEF Callback
<1>17. CASE CheckConnected
  BY <1>17 DEF CheckConnected
<1>18. CASE CheckReconnects
  BY <1>18, <1>a, <1>c DEF CheckReconnects, Stop
<1>19. CASE DelayEnds
  BY <1>19 DEF DelayEnds
<1>20. CASE Tick
  <2>1. sinceIn' \in Age /\ sinceOut' \in Age /\ sinceStart' \in Age
    BY <1>20, AgeFacts, OlderFacts DEF Tick
  <2>2. quiet' \in 0 .. MaxQuiet
    BY <1>20, AgeFacts, OlderFacts DEF Tick
  <2>3. asked' \in Age \cup {None}
    BY <1>20, AgeFacts, OlderFacts DEF Tick
  <2> QED
    BY <1>20, <2>1, <2>2, <2>3 DEF Tick
<1>21. CASE BrokerConnects
  BY <1>21, <1>a, SendFacts DEF BrokerConnects, ToClient
<1>22. CASE BrokerSubscribes
  BY <1>22, <1>a, SendFacts DEF BrokerSubscribes, ToClient
<1>23. CASE BrokerPongs
  BY <1>23, <1>a, SendFacts DEF BrokerPongs, ToClient
<1>24. CASE BrokerPublishes
  BY <1>24, <1>a, SendFacts DEF BrokerPublishes, ToClient
<1>25. CASE PacketCompletes
  BY <1>25 DEF PacketCompletes
<1>26. CASE WireDies
  BY <1>26, <1>a DEF WireDies
<1>27. CASE WireCloses
  BY <1>27, <1>a, CutFacts DEF WireCloses
<1>28. CASE UNCHANGED vars
  BY <1>28 DEF vars
<1> QED
  BY <1>1, <1>2, <1>3, <1>4, <1>5, <1>6, <1>7, <1>8, <1>9, <1>10, <1>11, <1>12, <1>13, <1>14,
     <1>15, <1>16, <1>17, <1>18, <1>19, <1>20, <1>21, <1>22, <1>23, <1>24, <1>25, <1>26, <1>27,
     <1>28, <1>29 DEF Next, Worker, Broker

-----------------------------------------------------------------------------
(* A connection and what an earlier one left.                              *)

\* stop() leaves nothing of the connection.
LEMMA Stopped ==
    ASSUME Stop
    PROVE  ConnectionInv'
<1>1. up' = <<>> /\ down' = <<>> /\ sock' = "closed" /\ wire' = "closed" /\ ~session' /\ ~subscribed'
  BY DEF Stop
<1> QED
  BY <1>1, UpsDistinct DEF ConnectionInv, Ups

\* The worker takes a step that leaves the network alone, between calls of
\* connect.
LEMMA NetworkKept ==
    ASSUME ConnectionInv, UNCHANGED netVars, ~Connecting, ~Connecting', pc' # "subscribe"
    PROVE  ConnectionInv'
BY DEF ConnectionInv, netVars, Connecting

\* Where connect returns to.
LEMMA ReturnFacts == Return \in {"subscribe", "delay"}
BY DEF Return

\* The answer to a CONNECT is what connect reads.
LEMMA ConnackStep ==
    ASSUME TypeOK, ConnectionInv, ConnackAccepts
    PROVE  ConnectionInv'
<1>1. /\ pc = "readack" /\ pc' \in {"subscribe", "delay"} /\ Head(down) = "ACCEPT" /\ down # <<>>
      /\ down' = Tail(down) /\ pingOutstanding' = FALSE /\ quiet' = 0
      /\ UNCHANGED <<sock, wire, up, session, subscribed>>
  BY ReturnFacts DEF ConnackAccepts, Go, TakePacket, Complete, Available
<1>2. down = <<"ACCEPT">>
  BY <1>1, AckFacts DEF ConnectionInv
<1>3. down' = <<>> /\ up = <<>>
  BY <1>1, <1>2, AckFacts, UpsDistinct DEF ConnectionInv
<1>4. wire = "up" => session
  BY <1>1, <1>2 DEF ConnectionInv
<1> QED
  BY <1>1, <1>2, <1>3, <1>4, UpsDistinct, AckFacts DEF ConnectionInv, Connecting

\* The broker answers.
LEMMA BrokerStep ==
    ASSUME TypeOK, ConnectionInv, Broker \/ BrokerPublishes
    PROVE  ConnectionInv'
<1>1. CASE BrokerConnects
  <2>1. up = <<"CONNECT">> /\ wire = "up" /\ up' = <<>> /\ UNCHANGED <<pc, sock, wire, pingOutstanding, quiet>>
    BY <1>1, UpsFacts, UpsDistinct DEF BrokerConnects, ConnectionInv, Ups, timeVars
  <2>2. pc = "connack" /\ down = <<>> /\ ~subscribed'
    BY <1>1, <2>1 DEF ConnectionInv, BrokerConnects
  <2>3. \/ down' = <<"ACCEPT">> /\ session' = TRUE
        \/ down' = <<"REFUSE">> /\ session' = FALSE
    BY <1>1, <2>2, AckFacts DEF BrokerConnects, Send
  <2> QED
    BY <2>1, <2>2, <2>3, AckFacts, UpsDistinct DEF ConnectionInv, Ups, Connecting
<1>2. CASE BrokerSubscribes \/ BrokerPongs
  <2>1. /\ up' = Tail(up) /\ up # <<>> /\ Head(up) \in {"SUBSCRIBE", "PINGREQ"} /\ wire = "up" /\ session
        /\ UNCHANGED <<pc, sock, wire, session, pingOutstanding, timeVars>>
    BY <1>2 DEF BrokerSubscribes, BrokerPongs
  <2>2. up \in {<<"SUBSCRIBE">>, <<"PINGREQ">>, <<"SUBSCRIBE", "PINGREQ">>}
    BY <2>1, UpsFacts DEF ConnectionInv, Ups
  <2>3. up' \in {<<>>, <<"PINGREQ">>}
    BY <2>1, <2>2, UpsFacts
  <2>4. ~Connecting /\ pc # "subscribe" /\ sock = "open"
    BY <2>1, <2>2, UpsDistinct DEF ConnectionInv, Connecting
  <2> QED
    BY <2>1, <2>3, <2>4, UpsDistinct DEF ConnectionInv, Ups, Connecting
<1>3. CASE BrokerPublishes
  <2>1. subscribed /\ wire = "up" /\ UNCHANGED <<pc, sock, wire, up, session, subscribed, pingOutstanding, timeVars>>
        /\ (Send("PUBLISH") \/ Send("TOOLONG"))
    BY <1>3 DEF BrokerPublishes
  <2>2. ~Connecting /\ pc # "subscribe" /\ sock = "open" /\ session
    BY <2>1 DEF ConnectionInv, Connecting
  <2> QED
    BY <2>1, <2>2, UpsDistinct DEF ConnectionInv, Connecting
<1>4. CASE PacketCompletes
  BY <1>4 DEF PacketCompletes, ConnectionInv, Connecting, timeVars
<1> QED
  BY <1>1, <1>2, <1>3, <1>4 DEF Broker

LEMMA ConnectionStep == TypeOK /\ ConnectionInv /\ PingInv /\ [Next]_vars => ConnectionInv'
<1> SUFFICES ASSUME TypeOK, ConnectionInv, PingInv, [Next]_vars
             PROVE  ConnectionInv'
  OBVIOUS
<1>1. CASE ConnectFails
  BY <1>1, Stopped DEF ConnectFails
<1>24. CASE LookupFails
  BY <1>24, Stopped DEF LookupFails
<1>2. CASE ConnectSends
  BY <1>2, UpsDistinct DEF ConnectSends, Go, ConnectionInv, Ups, Connecting
<1>3. CASE ConnackTimeout
  BY <1>3, Stopped DEF ConnackTimeout
<1>4. CASE ConnackBegins
  <2>1. pc = "connack" /\ pc' = "readack" /\ down # <<>> /\ UNCHANGED <<netVars, pingOutstanding, timeVars>>
    BY <1>4 DEF ConnackBegins, Go, Available
  <2>2. up # <<"CONNECT">>
    BY <2>1 DEF ConnectionInv
  <2> QED
    BY <2>1, <2>2 DEF ConnectionInv, Connecting, netVars
<1>5. CASE ConnackAccepts
  BY <1>5, ConnackStep
<1>6. CASE ConnackRefuses
  BY <1>6, Stopped DEF ConnackRefuses
<1>7. CASE SetupSubscribes
  <2>1. /\ pc = "subscribe" /\ pc' = "loop" /\ sock = "open"
        /\ up' = (IF wire = "up" THEN Append(up, "SUBSCRIBE") ELSE up)
        /\ UNCHANGED <<sock, wire, down, torn, session, subscribed>>
    BY <1>7 DEF SetupSubscribes, Go, Write, Connected
  <2>2. up = <<>> /\ up' = IF wire = "up" THEN <<"SUBSCRIBE">> ELSE <<>>
    BY <2>1, UpsFacts DEF ConnectionInv
  <2> QED
    BY <2>1, <2>2, UpsDistinct DEF ConnectionInv, Ups, Connecting
<1>8. CASE SetupGivesUp
  BY <1>8, Stopped DEF SetupGivesUp
<1>9. CASE LoopNotConnected
  BY <1>9, Stopped DEF LoopNotConnected
<1>10. CASE KeepaliveStops
  BY <1>10, Stopped DEF KeepaliveStops
<1>11. CASE KeepalivePings
  <2>1. /\ pc = "loop" /\ pc' = "poll" /\ sock = "open" /\ ~pingOutstanding
        /\ up' = (IF wire = "up" THEN Append(up, "PINGREQ") ELSE up)
        /\ UNCHANGED <<sock, wire, down, torn, session, subscribed>>
    BY <1>11 DEF KeepalivePings, Go, Write, Connected
  <2>2. up \in {<<>>, <<"SUBSCRIBE">>}
    BY <2>1 DEF ConnectionInv, Ups, PingInv, Asking
  <2>3. /\ up' \in {<<>>, <<"SUBSCRIBE">>, <<"PINGREQ">>, <<"SUBSCRIBE", "PINGREQ">>}
        /\ wire # "up" => up' = <<>>
    BY <2>1, <2>2, UpsFacts DEF ConnectionInv
  <2> QED
    BY <2>1, <2>3, UpsDistinct DEF ConnectionInv, Ups, Connecting
<1>12. CASE KeepaliveNotDue
  BY <1>12, NetworkKept DEF KeepaliveNotDue, Go, Connecting
<1>13. CASE Poll
  BY <1>13, NetworkKept DEF Poll, Go, Connecting
<1>14. CASE Read \/ ReadTooLong
  <2>1. /\ pc = "read" /\ pc' \in {"callback", "check"} /\ UNCHANGED <<sock, wire, up, session, subscribed>>
        /\ down # <<>>
    BY <1>14 DEF Read, ReadTooLong, Go, TakePacket, Complete, Available
  <2>2. sock = "open"
    BY <2>1 DEF ConnectionInv, TypeOK
  <2> QED
    BY <2>1, <2>2 DEF ConnectionInv, Connecting
<1>15. CASE Callback
  BY <1>15, NetworkKept DEF Callback, Go, Connecting
<1>16. CASE CheckConnected
  BY <1>16, NetworkKept DEF CheckConnected, Go, Connecting
<1>17. CASE CheckReconnects
  BY <1>17, Stopped DEF CheckReconnects
<1>18. CASE DelayEnds
  BY <1>18, NetworkKept DEF DelayEnds, Go, Connecting
<1>19. CASE Tick
  <2>1. UNCHANGED <<netVars, pingOutstanding>>
    BY <1>19 DEF Tick
  <2>2. CASE pc = "delay"
    BY <1>19, <2>1, <2>2, NetworkKept DEF Tick, Connecting
  <2>3. CASE pc # "delay"
    <3>1. pc \in {"connack", "read", "readack"} /\ pc' = pc /\ quiet' = quiet
      BY <1>19, <2>3 DEF Tick, WaitsForByte
    <3> QED
      BY <2>1, <3>1 DEF ConnectionInv, netVars, Connecting
  <2> QED
    BY <2>2, <2>3
<1>20. CASE Broker \/ BrokerPublishes
  BY <1>20, BrokerStep
<1>21. CASE WireDies
  BY <1>21, UpsDistinct DEF WireDies, ConnectionInv, Ups, Connecting, timeVars
<1>22. CASE WireCloses
  <2>1. /\ wire' = "closed" /\ up' = <<>> /\ session' = FALSE /\ subscribed' = FALSE
        /\ UNCHANGED <<pc, sock, pingOutstanding, quiet>> /\ wire \in {"up", "dead"}
    BY <1>22 DEF WireCloses, timeVars
  <2>2. sock # "closed" /\ pc # "connect"
    BY <2>1 DEF ConnectionInv
  <2>3. /\ down' \in Seq(ToClient) /\ Len(down') <= Len(down)
        /\ \A i \in 1 .. Len(down') : i \in 1 .. Len(down) /\ down'[i] = down[i]
    BY <1>22, CutFacts DEF TypeOK
  <2>4. down = <<>> => down' = <<>>
    BY <2>3 DEF TypeOK
  <2>5. ASSUME down \in {<<"ACCEPT">>, <<"REFUSE">>}
        PROVE  down' \in {<<>>, down}
    <3>1. Len(down) = 1
      BY <2>5
    <3>2. CASE Len(down') = 0
      BY <2>3, <3>2
    <3>3. CASE Len(down') = 1
      BY <2>3, <3>1, <3>3, SeqEqual DEF TypeOK
    <3> QED
      BY <2>3, <3>1, <3>2, <3>3
  <2> QED
    BY <2>1, <2>2, <2>4, <2>5, UpsDistinct DEF ConnectionInv, Ups, Connecting
<1>23. CASE UNCHANGED vars
  BY <1>23 DEF vars, netVars, timeVars, ConnectionInv, Connecting
<1> QED
  BY <1>1, <1>2, <1>3, <1>4, <1>5, <1>6, <1>7, <1>8, <1>9, <1>10, <1>11, <1>12, <1>13, <1>14,
     <1>15, <1>16, <1>17, <1>18, <1>19, <1>20, <1>21, <1>22, <1>23, <1>24 DEF Next, Worker

-----------------------------------------------------------------------------
(* The PINGREQ that is outstanding.                                        *)

LEMMA PingKept ==
    ASSUME PingInv, UNCHANGED <<down, pingOutstanding>>, Asking' => Asking
    PROVE  PingInv'
BY DEF PingInv, AnswerAt

LEMMA NoPing ==
    ASSUME down' = <<>>, ~Asking'
    PROVE  PingInv'
<1>1. Len(down') = 0
  OBVIOUS
<1>2. \A i \in 1 .. Len(down') : FALSE
  BY <1>1
<1> QED
  BY <1>2 DEF PingInv

LEMMA PingStopped ==
    ASSUME Stop
    PROVE  PingInv'
BY NoPing, UpsDistinct DEF Stop, Asking

\* A packet of another kind arrives.
LEMMA OtherSent ==
    ASSUME TypeOK, PingInv, NEW packet \in ToClient \ {"PINGRESP"}, Send(packet),
           UNCHANGED pingOutstanding, Asking' => Asking
    PROVE  PingInv'
<1>1. /\ Len(down) \in Nat /\ Len(down') = Len(down) + 1 /\ down'[Len(down) + 1] = packet
      /\ \A i \in 1 .. Len(down) : down'[i] = down[i]
  BY SendFacts DEF TypeOK
<1>2. \A i \in 1 .. Len(down') : AnswerAt(i)' => i \in 1 .. Len(down) /\ AnswerAt(i)
  BY <1>1 DEF AnswerAt
<1> QED
  BY <1>2 DEF PingInv

\* A packet is read.
LEMMA PingRead ==
    ASSUME TypeOK, PingInv, TakePacket,
           pingOutstanding' = (pingOutstanding /\ Head(down) # "PINGRESP")
    PROVE  PingInv'
<1>1. /\ Len(down) \in Nat /\ Len(down) > 0 /\ Len(down') = Len(down) - 1 /\ Head(down) = down[1]
      /\ \A i \in 1 .. Len(down') : i + 1 \in 1 .. Len(down) /\ down'[i] = down[i + 1]
  BY TakeFacts DEF TypeOK
<1>2. up' = up
  BY DEF TakePacket
<1>3. \A i \in 1 .. Len(down') : AnswerAt(i)' => AnswerAt(i + 1) /\ i + 1 \in 1 .. Len(down) /\ i + 1 # 1
  BY <1>1 DEF AnswerAt
<1>4. CASE Head(down) = "PINGRESP"
  <2>1. AnswerAt(1) /\ 1 \in 1 .. Len(down)
    BY <1>1, <1>4 DEF AnswerAt
  <2>2. ~Asking /\ \A i \in 1 .. Len(down') : ~AnswerAt(i)'
    BY <1>3, <2>1 DEF PingInv
  <2> QED
    BY <1>2, <2>2 DEF PingInv, Asking
<1>5. CASE Head(down) # "PINGRESP"
  <2>1. \A i, j \in 1 .. Len(down') : AnswerAt(i)' /\ AnswerAt(j)' => i = j
    <3>1. \A i, j \in 1 .. Len(down') : AnswerAt(i)' /\ AnswerAt(j)' => i + 1 = j + 1
      BY <1>3 DEF PingInv
    <3> QED
      BY <3>1
  <2>2. Asking' = Asking /\ pingOutstanding' = pingOutstanding
    BY <1>2, <1>5 DEF Asking, TypeOK
  <2> QED
    BY <1>3, <2>1, <2>2 DEF PingInv
<1> QED
  BY <1>4, <1>5

\* A PINGREQ is sent only when none is on its way and no answer is unread, and
\* the broker answers it once.
LEMMA PingStep == TypeOK /\ ConnectionInv /\ PingInv /\ [Next]_vars => PingInv'
<1> SUFFICES ASSUME TypeOK, ConnectionInv, PingInv, [Next]_vars
             PROVE  PingInv'
  OBVIOUS
<1>a. ASSUME UNCHANGED <<up, down, pingOutstanding>>
      PROVE  PingInv'
  BY <1>a, PingKept DEF Asking
<1>1. CASE ConnectFails \/ LookupFails \/ ConnackTimeout \/ ConnackRefuses
           \/ SetupGivesUp \/ LoopNotConnected \/ KeepaliveStops \/ CheckReconnects
  BY <1>1, PingStopped DEF ConnectFails, LookupFails, ConnackTimeout, ConnackRefuses,
     SetupGivesUp, LoopNotConnected, KeepaliveStops, CheckReconnects
<1>2. CASE ConnectSends
  BY <1>2, NoPing, UpsDistinct DEF ConnectSends, Asking
<1>3. CASE ConnackAccepts
  <2>1. pc = "readack" /\ down' = Tail(down) /\ down # <<>> /\ up' = up
    BY <1>3 DEF ConnackAccepts, Go, TakePacket, Complete, Available
  <2>2. down \in {<<"ACCEPT">>, <<"REFUSE">>} /\ up \in {<<>>, <<"CONNECT">>}
    BY <2>1 DEF ConnectionInv
  <2>3. down' = <<>>
    <3>1. Tail(<<"REFUSE">>) = <<>>
      OBVIOUS
    <3> QED
      BY <2>1, <2>2, <3>1, AckFacts
  <2> QED
    BY <2>1, <2>2, <2>3, NoPing, UpsDistinct DEF Asking
<1>4. CASE SetupSubscribes
  <2>1. pc = "subscribe" /\ up' \in {up, Append(up, "SUBSCRIBE")} /\ down' = down
    BY <1>4 DEF SetupSubscribes, Go, Write
  <2>2. up' \in {<<>>, <<"SUBSCRIBE">>} /\ down' = <<>>
    BY <2>1, UpsFacts DEF ConnectionInv
  <2> QED
    BY <2>2, NoPing, UpsDistinct DEF Asking
<1>5. CASE KeepalivePings
  <2>1. ~pingOutstanding /\ pingOutstanding' = TRUE /\ down' = down
    BY <1>5 DEF KeepalivePings, Write
  <2>2. \A i \in 1 .. Len(down) : ~AnswerAt(i)
    BY <2>1 DEF PingInv
  <2> QED
    BY <2>1, <2>2 DEF PingInv, AnswerAt
<1>6. CASE Read
  BY <1>6, PingRead DEF Read
<1>7. CASE ReadTooLong
  <2>1. pingOutstanding' = (pingOutstanding /\ Head(down) # "PINGRESP")
    BY <1>7 DEF ReadTooLong, TypeOK
  <2> QED
    BY <1>7, <2>1, PingRead DEF ReadTooLong
<1>8. CASE ConnackBegins \/ KeepaliveNotDue \/ Poll \/ Callback \/ CheckConnected \/ DelayEnds \/ Tick
           \/ PacketCompletes \/ UNCHANGED vars
  BY <1>8, <1>a DEF ConnackBegins, KeepaliveNotDue, Poll, Callback, CheckConnected, DelayEnds, Tick,
     PacketCompletes, vars, netVars
<1>9. CASE BrokerConnects
  <2>1. up = <<"CONNECT">> /\ up' = Tail(up) /\ UNCHANGED pingOutstanding
    BY <1>9, UpsFacts DEF BrokerConnects, ConnectionInv, Ups
  <2>2. ~Asking'
    BY <2>1, UpsFacts, UpsDistinct DEF Asking
  <2> QED
    BY <1>9, <2>1, <2>2, OtherSent DEF BrokerConnects, ToClient
<1>10. CASE BrokerSubscribes
  <2>1. up' = Tail(up) /\ up \in {<<"SUBSCRIBE">>, <<"SUBSCRIBE", "PINGREQ">>} /\ UNCHANGED pingOutstanding
    BY <1>10, UpsFacts DEF BrokerSubscribes, ConnectionInv, Ups
  <2>2. Asking' => Asking
    BY <2>1, UpsFacts, UpsDistinct DEF Asking
  <2> QED
    BY <1>10, <2>1, <2>2, OtherSent DEF BrokerSubscribes, ToClient
<1>11. CASE BrokerPongs
  <2>1. up' = Tail(up) /\ up = <<"PINGREQ">> /\ UNCHANGED pingOutstanding /\ Send("PINGRESP")
    BY <1>11, UpsFacts DEF BrokerPongs, ConnectionInv, Ups
  <2>2. pingOutstanding /\ \A i \in 1 .. Len(down) : ~AnswerAt(i)
    BY <2>1 DEF PingInv, Asking
  <2>3. /\ Len(down) \in Nat /\ Len(down') = Len(down) + 1
        /\ \A i \in 1 .. Len(down) : down'[i] = down[i]
    BY <2>1, SendFacts DEF TypeOK, ToClient
  <2>4. \A i \in 1 .. Len(down') : AnswerAt(i)' => i = Len(down) + 1
    BY <2>2, <2>3 DEF AnswerAt
  <2>5. ~Asking'
    BY <2>1, UpsFacts, UpsDistinct DEF Asking
  <2> QED
    BY <2>1, <2>2, <2>4, <2>5 DEF PingInv
<1>12. CASE BrokerPublishes
  BY <1>12, OtherSent DEF BrokerPublishes, ToClient, Asking
<1>13. CASE WireDies
  BY <1>13, PingKept, UpsDistinct DEF WireDies, Asking
<1>14. CASE WireCloses
  <2>1. up' = <<>> /\ UNCHANGED pingOutstanding
    BY <1>14 DEF WireCloses
  <2>2. \A i \in 1 .. Len(down') : i \in 1 .. Len(down) /\ down'[i] = down[i]
    BY <1>14, CutFacts DEF TypeOK
  <2>3. \A i \in 1 .. Len(down') : AnswerAt(i)' => AnswerAt(i)
    BY <2>2 DEF AnswerAt
  <2> QED
    BY <2>1, <2>2, <2>3, UpsDistinct DEF PingInv, Asking
<1> QED
  BY <1>1, <1>2, <1>3, <1>4, <1>5, <1>6, <1>7, <1>8, <1>9, <1>10, <1>11, <1>12, <1>13, <1>14
     DEF Next, Worker, Broker

-----------------------------------------------------------------------------
(* The stamps.                                                             *)

\* A closed socket has no stamps.
LEMMA Closed ==
    ASSUME Stop
    PROVE  AskedInv' /\ QuietInv'
BY DEF Stop, AskedInv, QuietInv

\* Nothing that the stamps are compared with changes.
LEMMA StampsKept ==
    ASSUME AskedInv, QuietInv, UNCHANGED <<sock, pingOutstanding, timeVars>>,
           Connecting => Connecting', Tested' => Tested
    PROVE  AskedInv' /\ QuietInv'
BY DEF AskedInv, QuietInv, timeVars

\* A PINGREQ sets the stamps back, and it is asked for when the keepalive has
\* passed.
LEMMA StampStep ==
    TypeOK /\ ConnectionInv /\ AskedInv /\ QuietInv /\ [Next]_vars => AskedInv' /\ QuietInv'
<1> SUFFICES ASSUME TypeOK, ConnectionInv, AskedInv, QuietInv, [Next]_vars
             PROVE  AskedInv' /\ QuietInv'
  OBVIOUS
<1>a. /\ sinceIn \in 0 .. K + 1 /\ sinceOut \in 0 .. K + 1 /\ sinceStart \in 0 .. K + 1
      /\ asked = None \/ asked \in 0 .. K + 1
      /\ quiet \in 0 .. 2 * K + 3 /\ quiet \in Int
      /\ K \in Int /\ K > 0
  BY AgeFacts DEF TypeOK
<1>1. CASE ConnectFails \/ LookupFails \/ ConnackTimeout \/ ConnackRefuses
           \/ SetupGivesUp \/ LoopNotConnected \/ KeepaliveStops \/ CheckReconnects
  BY <1>1, Closed DEF ConnectFails, LookupFails, ConnackTimeout, ConnackRefuses,
     SetupGivesUp, LoopNotConnected, KeepaliveStops, CheckReconnects
<1>2. CASE ConnectSends
  BY <1>2 DEF ConnectSends, Go, Connecting, AskedInv, QuietInv
<1>3. CASE ConnackAccepts
  <2>1. sinceIn' = 0 /\ quiet' = 0 /\ pingOutstanding' = FALSE
    BY <1>3 DEF ConnackAccepts
  <2> QED
    BY <1>a, <2>1 DEF AskedInv, QuietInv
<1>4. CASE SetupSubscribes
  <2>1. /\ sock = "open" /\ pc = "subscribe" /\ pc' = "loop"
        /\ UNCHANGED <<pingOutstanding, sinceIn, quiet>>
    BY <1>4 DEF SetupSubscribes, Go, Connected
  <2>2. ~pingOutstanding /\ quiet = 0
    BY <2>1 DEF ConnectionInv
  <2> QED
    BY <1>a, <2>1, <2>2 DEF AskedInv, QuietInv, Tested
<1>5. CASE KeepalivePings
  <2>1. /\ pc = "loop" /\ sock = "open" /\ ~pingOutstanding /\ pingOutstanding' = TRUE
        /\ sinceIn' = 0 /\ sinceOut' = 0 /\ sinceStart' = 0 /\ asked' = 0 /\ quiet' = quiet
    BY <1>5 DEF KeepalivePings, Go, Connected
  <2>2. quiet <= sinceIn
    BY <2>1 DEF QuietInv, Connecting
  <2>3. quiet <= K + 1 /\ quiet <= 2 * K + 1
    BY <1>a, <2>2
  <2> QED
    BY <1>a, <2>1, <2>3, AgeFacts DEF AskedInv, QuietInv, None
<1>6. CASE KeepaliveNotDue
  <2>1. /\ pc = "loop" /\ pc' = "poll" /\ sinceIn <= K /\ sinceStart' = 0
        /\ UNCHANGED <<sock, pingOutstanding, sinceIn, sinceOut, quiet, asked>>
    BY <1>6, <1>a DEF KeepaliveNotDue, Go, Due, netVars
  <2>2. AskedInv'
    BY <1>a, <2>1 DEF AskedInv, Connecting
  <2>3. QuietInv'
    BY <1>a, <2>1 DEF QuietInv, Connecting
  <2> QED
    BY <2>2, <2>3
<1>7. CASE Read
  <2>1. /\ pc = "read" /\ sinceIn' = sinceStart /\ quiet' = 0 /\ (pingOutstanding' => pingOutstanding)
        /\ UNCHANGED <<sock, sinceOut, sinceStart, asked>> /\ pc' \in {"callback", "check"}
    BY <1>7 DEF Read, Go, TakePacket
  <2>2. AskedInv'
    BY <1>a, <2>1 DEF AskedInv, Connecting
  <2>3. QuietInv'
    BY <1>a, <2>1 DEF QuietInv
  <2> QED
    BY <2>2, <2>3
<1>8. CASE ReadTooLong
  BY <1>8, StampsKept DEF ReadTooLong, Go, TakePacket, Connecting, Tested
<1>9. CASE ConnackBegins
  BY <1>9, StampsKept DEF ConnackBegins, Go, netVars, Connecting, Tested
<1>10. CASE Poll \/ Callback \/ CheckConnected \/ DelayEnds
  BY <1>10, StampsKept DEF Poll, Callback, CheckConnected, DelayEnds, Go, netVars, Connecting, Tested
<1>11. CASE Tick
  <2>a. K + 1 \in Nat /\ MaxQuiet \in Nat /\ MaxQuiet = 2 * K + 3
    BY AgeFacts
  <2>1. /\ sinceIn' = Older(sinceIn, K + 1) /\ sinceOut' = Older(sinceOut, K + 1)
        /\ sinceStart' = Older(sinceStart, K + 1)
        /\ asked' = (IF asked = None THEN None ELSE Older(asked, K + 1))
        /\ UNCHANGED <<sock, pingOutstanding>>
    BY <1>11 DEF Tick, netVars
  <2>2. Connecting' <=> Connecting
    BY <1>11 DEF Tick, WaitsForByte, Connecting
  <2>3. AskedInv'
    <3>1. SUFFICES ASSUME pingOutstanding, sock = "open", ~Connecting
                   PROVE  asked' # None /\ sinceIn' <= asked' /\ sinceOut' <= asked' /\ sinceStart' <= asked'
      BY <2>1, <2>2 DEF AskedInv
    <3>2. asked # None /\ sinceIn <= asked /\ sinceOut <= asked /\ sinceStart <= asked
      BY <3>1 DEF AskedInv
    <3> QED
      BY <1>a, <2>a, <2>1, <3>2, OlderFacts DEF None
  <2>4. sinceIn <= sinceIn' /\ sinceIn' \in Int /\ (sinceIn' = sinceIn + 1 \/ sinceIn' = K + 1)
    BY <1>a, <2>1 DEF Older
  <2>5. CASE pc = "delay"
    <3>1. pc' = "loop" /\ quiet' <= quiet + 1 /\ quiet' \in Int
      BY <1>11, <1>a, <2>a, <2>5 DEF Tick, Older
    <3>2. QuietInv'
      <4>1. SUFFICES ASSUME sock = "open", ~Connecting
                     PROVE  /\ ~pingOutstanding => quiet' <= sinceIn'
                            /\ pingOutstanding => quiet' <= K + 1 + sinceIn'
        BY <2>1, <2>2, <3>1 DEF QuietInv, Tested
      <4>2. /\ ~pingOutstanding => quiet <= sinceIn /\ quiet <= K
            /\ pingOutstanding => quiet <= K + 1 + sinceIn /\ quiet <= 2 * K + 1
        BY <2>5, <4>1 DEF QuietInv, Tested
      <4>3. K \in Int /\ K > 0 /\ quiet \in Int /\ sinceIn \in Int
        BY <1>a
      <4>4. quiet <= sinceIn /\ quiet <= K => quiet' <= sinceIn'
        BY <2>4, <3>1, <4>3
      <4>5. quiet <= K + 1 + sinceIn /\ quiet <= 2 * K + 1 => quiet' <= K + 1 + sinceIn'
        <5>1. CASE sinceIn' = sinceIn + 1
          BY <3>1, <4>3, <5>1
        <5>2. CASE sinceIn' = K + 1
          <6>1. quiet <= 2 * K + 1 => quiet' <= (K + 1) + (K + 1)
            BY <3>1, <4>3
          <6> QED
            BY <4>3, <5>2, <6>1
        <5> QED
          BY <2>4, <5>1, <5>2
      <4> QED
        BY <4>2, <4>4, <4>5
    <3> QED
      BY <2>3, <3>2
  <2>6. CASE pc # "delay"
    <3>1. quiet' = quiet /\ pc' = pc
      BY <1>11, <2>6 DEF Tick
    <3>2. QuietInv'
      BY <1>a, <2>1, <2>4, <3>1 DEF QuietInv, Connecting, Tested
    <3> QED
      BY <2>3, <3>2
  <2> QED
    BY <2>5, <2>6
<1>12. CASE Broker \/ BrokerPublishes \/ WireDies \/ WireCloses \/ UNCHANGED vars
  BY <1>12, StampsKept DEF Broker, BrokerConnects, BrokerSubscribes, BrokerPongs, BrokerPublishes,
     PacketCompletes, WireDies, WireCloses, vars, netVars, Connecting, Tested
<1> QED
  BY <1>1, <1>2, <1>3, <1>4, <1>5, <1>6, <1>7, <1>8, <1>9, <1>10, <1>11, <1>12 DEF Next, Worker

-----------------------------------------------------------------------------
(* The theorems.                                                           *)

LEMMA InvStep == Inv /\ [Next]_vars => Inv'
<1> SUFFICES ASSUME Inv, [Next]_vars
             PROVE  Inv'
  OBVIOUS
<1>1. ConnectionInv'
  BY ConnectionStep DEF Inv
<1>2. up' \in Ups
  BY <1>1 DEF ConnectionInv
<1> QED
  BY <1>1, <1>2, TypeStep, PingStep, StampStep DEF Inv

LEMMA Invariance == Spec => []Inv
BY InitInv, InvStep, PTL DEF Spec

\* The variables have their types: no more than a SUBSCRIBE and a PINGREQ is
\* ever under way to the broker.
THEOREM TypeCorrect == Spec => []TypeOK
<1>1. Inv => TypeOK
  BY DEF Inv
<1> QED
  BY <1>1, Invariance, PTL

\* The client takes itself for connected only to a broker that accepted the
\* connection (MQTT::connect), whatever connections it had before.
THEOREM ConnectedIsAccepted == Spec => []Agreement
<1>1. Inv => Agreement
  BY DEF Inv, ConnectionInv, Agreement
<1> QED
  BY <1>1, Invariance, PTL

\* A set of numbers without two different ones has at most one.
LEMMA AtMostOne ==
    ASSUME NEW S, \A i, j \in S : i = j
    PROVE  (Cardinality(S) = 0 /\ S = {}) \/ Cardinality(S) = 1
<1>1. CASE S = {}
  BY <1>1, FS_EmptySet
<1>2. CASE S # {}
  <2>1. PICK i \in S : TRUE
    BY <1>2
  <2>2. S = {i}
    BY <2>1
  <2> QED
    BY <2>2, FS_Singleton
<1> QED
  BY <1>1, <1>2

\* At most one PINGREQ is unanswered on a connection, counting the one under
\* way and the answer that is not read, and pingOutstanding says so.
THEOREM PingsAreCounted == Spec => []OnePing
<1>1. ASSUME Inv
      PROVE  OnePing
  <2> DEFINE Reqs == {i \in DOMAIN up : up[i] = "PINGREQ"}
             Resps == {i \in DOMAIN down : down[i] = "PINGRESP"}
  <2>1. Under(up, "PINGREQ") = Cardinality(Reqs) /\ Under(down, "PINGRESP") = Cardinality(Resps)
    BY DEF Under
  <2>2. DOMAIN down = 1 .. Len(down)
    BY <1>1 DEF Inv, TypeOK
  <2>3. \A i \in Resps : i \in 1 .. Len(down) /\ AnswerAt(i)
    BY <2>2 DEF AnswerAt
  <2>4. (\A i, j \in Resps : i = j) /\ (Resps # {} => pingOutstanding) /\ (Resps # {} => ~Asking)
    BY <1>1, <2>3 DEF Inv, PingInv
  <2>5. (\A i, j \in Reqs : i = j) /\ (Reqs # {} => Asking)
    <3>1. DOMAIN <<>> = {} /\ DOMAIN <<"CONNECT">> = {1} /\ DOMAIN <<"SUBSCRIBE">> = {1}
          /\ DOMAIN <<"PINGREQ">> = {1}
      OBVIOUS
    <3>2. <<"CONNECT">>[1] = "CONNECT" /\ <<"SUBSCRIBE">>[1] = "SUBSCRIBE"
      OBVIOUS
    <3>3. CASE up = <<"SUBSCRIBE", "PINGREQ">>
      <4>1. DOMAIN up = {1, 2} /\ up[1] = "SUBSCRIBE"
        BY <3>3
      <4> QED
        BY <3>3, <4>1 DEF Asking
    <3>4. CASE up # <<"SUBSCRIBE", "PINGREQ">>
      BY <1>1, <3>1, <3>2, <3>4 DEF Inv, ConnectionInv, Ups, Asking
    <3> QED
      BY <3>3, <3>4
  <2>6. Asking => pingOutstanding
    BY <1>1 DEF Inv, PingInv
  <2> HIDE DEF Reqs, Resps
  <2>7. /\ (Cardinality(Reqs) = 0 /\ Reqs = {}) \/ Cardinality(Reqs) = 1
        /\ (Cardinality(Resps) = 0 /\ Resps = {}) \/ Cardinality(Resps) = 1
    BY <2>4, <2>5, AtMostOne
  <2>8. (Cardinality(Reqs) = 1 => Reqs # {}) /\ (Cardinality(Resps) = 1 => Resps # {})
    BY FS_EmptySet
  <2>9. ~pingOutstanding => Cardinality(Reqs) = 0 /\ Cardinality(Resps) = 0
    BY <2>4, <2>5, <2>6, <2>7, <2>8
  <2>10. Cardinality(Reqs) = 0 \/ Cardinality(Resps) = 0
    BY <2>4, <2>5, <2>7, <2>8
  <2> QED
    BY <2>1, <2>7, <2>9, <2>10 DEF OnePing
<1> QED
  BY <1>1, Invariance, PTL

\* A silent connection is given up: nothing was read for at most two keepalives
\* and a tick when the worker waits in its delay on an open connection.
THEOREM SilenceIsBounded == Spec => []SilenceBounded
<1>1. Inv => SilenceBounded
  <2> SUFFICES ASSUME Inv, sock = "open", pc = "delay"
               PROVE  quiet <= 2 * K + 1
    BY DEF SilenceBounded
  <2>1. quiet <= K \/ quiet <= 2 * K + 1
    BY DEF Inv, QuietInv, Tested, Connecting, TypeOK
  <2>2. quiet \in Int /\ K \in Int /\ K > 0
    BY AgeFacts DEF Inv, TypeOK
  <2> QED
    BY <2>1, <2>2
<1> QED
  BY <1>1, Invariance, PTL

\* The keepalive gives a connection up only when a PINGREQ sent on that same
\* connection has been unanswered for more than a keepalive (MQTT::loop).
THEOREM StoppedAfterAsking == Spec => AskedBeforeStopped
<1>1. Inv /\ [Next]_vars => [KeepaliveStops => asked > K]_vars
  <2> SUFFICES ASSUME Inv, KeepaliveStops
               PROVE  asked > K
    OBVIOUS
  <2>1. pc = "loop" /\ sock = "open" /\ pingOutstanding /\ (sinceIn > K \/ sinceOut > K)
    BY DEF KeepaliveStops, Go, Connected, Due
  <2>2. asked # None /\ sinceIn <= asked /\ sinceOut <= asked
    BY <2>1 DEF Inv, AskedInv, Connecting
  <2>3. /\ sinceIn \in 0 .. K + 1 /\ sinceOut \in 0 .. K + 1 /\ K \in Int
        /\ asked = None \/ asked \in 0 .. K + 1
    BY AgeFacts DEF Inv, TypeOK
  <2> QED
    BY <2>1, <2>2, <2>3
<1>2. Spec => [][KeepaliveStops => asked > K]_vars
  BY <1>1, Invariance, PTL DEF Spec
<1> QED
  BY <1>2 DEF AskedBeforeStopped
=============================================================================
