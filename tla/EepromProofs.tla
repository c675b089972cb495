---------------------------- MODULE EepromProofs ----------------------------
(* Theorems about EepromEmulation, for pages of any size and any data.       *)
EXTENDS EepromEmulation, FiniteSetTheorems, WellFoundedInduction, TLAPS

(* The records of a page, apart from the state.                              *)

PageCells == [1 .. S -> Cell]
EndOf(c) == Least({n \in 1 .. S : c[n].kind # "valid"} \cup {S + 1})
Hits(c, i) == {n \in 1 .. EndOf(c) - 1 : c[n].index = i}
ValueOf(c, i) == IF Hits(c, i) = {} THEN FLASH_ERASED ELSE c[Greatest(Hits(c, i))].data

\* What index i holds when block f was put over the records c.
TargetOf(c, f, i) == IF i \in DOMAIN f THEN f[i] ELSE ValueOf(c, i)

\* Block f is being appended to the records c, backwards, the indices t of it
\* being left: the first free position stays empty, and those behind the ones
\* that are left to write hold the others.
ChangedOf(c, f) == {i \in DOMAIN f : ValueOf(c, i) # f[i]}
Appending(c, f, t) ==
    LET first == EndOf(c)
        next  == first + Cardinality(t)
        last  == first + Cardinality(ChangedOf(c, f)) - 1
    IN /\ t \subseteq ChangedOf(c, f)
       /\ last <= S /\ (last + 1 <= S => c[last + 1] = Empty)
       /\ c[first] = Empty
       /\ \A n \in next .. last : \E i \in ChangedOf(c, f) \ t : c[n] = Record(i, f[i])
       /\ \A i \in ChangedOf(c, f) \ t : \E n \in next .. last : c[n] = Record(i, f[i])

\* The records d are the copy of c with block f, but for the indices t.
WantedOf(c, f) == {i \in (Indices \cup Cut) \ DOMAIN f : ValueOf(c, i) # FLASH_ERASED}
                  \cup {i \in DOMAIN f : f[i] # FLASH_ERASED}
Copying(c, d, f, t) ==
    /\ t \subseteq WantedOf(c, f)
    /\ \A n \in 1 .. EndOf(d) - 1 : \E i \in WantedOf(c, f) \ t : d[n] = Record(i, TargetOf(c, f, i))
    /\ \A i \in WantedOf(c, f) \ t : \E n \in 1 .. EndOf(d) - 1 : d[n] = Record(i, TargetOf(c, f, i))

\* Behind its records a page is empty.
EmptyBehind(c) == \A n \in 1 .. S : n >= EndOf(c) => c[n] = Empty

-----------------------------------------------------------------------------
(* The invariant.                                                            *)

\* What the program remembers of the pages is what they are: the page in use
\* is the one that a boot would choose, but for an old page that could not be
\* marked, and for the moment between the two writes that end a swap, when both
\* are active.
RamInv ==
    /\ pc \in {"wipe1", "wipe2", "format"} => FirstActive = "NoPage"
    /\ pc \in {"idle", "append", "swap", "mark", "copy", "return", "hang"} =>
           activePage \in Pages /\ (activePage = FirstActive \/ status[activePage] = "garbage")
    /\ pc = "retire" => /\ activePage \in Pages /\ status[destination] = "ACTIVE"
                        /\ status[activePage] \in {"ACTIVE", "garbage"}

\* There is a block exactly while it is being put.
BlockInv ==
    /\ pc \in {"boot", "wipe1", "wipe2", "format", "idle"} => new = NoBlock
    /\ pc \in {"append", "swap", "mark", "copy", "retire", "return", "hang"} => new \in Puts
    /\ pc = "append" => todo # {} /\ todo \subseteq DOMAIN new

\* The page a swap fills was wholly erased, on the second try at the latest.
MarginInv == pc \in {"mark", "copy"} /\ tries = 1 => marginal[destination] = {}

\* The page that is made active after both were erased is empty, and so is the
\* one a swap fills behind what was written to it.
FreshInv ==
    /\ pc \in {"wipe2", "format"} => \A n \in 1 .. S : cells["Page1"][n] = Empty
    /\ pc = "mark" => status[destination] = "ERASED" /\ \A n \in 1 .. S : cells[destination][n] = Empty
    /\ pc = "copy" => status[destination] = "COPY" /\ EmptyBehind(cells[destination])

AppendInv == pc = "append" => Appending(cells[activePage], new, todo)
CopyInv == pc = "copy" => Copying(cells[source], cells[destination], new, todo)

\* When the page that was filled comes into use, it holds the block, and else
\* what the other one holds; and put returns when the block can be read, or,
\* where the old page could not be marked, will be read after the next boot.
RetireInv ==
    pc = "retire" =>
        \A i \in Indices : ValueOf(cells[destination], i) = TargetOf(cells[source], new, i)
Holds(c, f) == \A i \in DOMAIN f : ValueOf(c, i) = f[i]
ReturnInv ==
    pc = "return" => \/ Holds(cells[activePage], new)
                     \/ /\ status[activePage] = "garbage" /\ FirstActive = Other(activePage)
                        /\ Holds(cells[FirstActive], new)

Basic == TypeOK /\ RamInv /\ BlockInv
Inv == /\ Basic /\ MarginInv /\ FreshInv /\ AppendInv /\ CopyInv
       /\ RetireInv /\ ReturnInv /\ SwapFits

-----------------------------------------------------------------------------
(* The least and the greatest of some numbers.                               *)

LEMMA LeastFacts ==
    ASSUME NEW T \in SUBSET Nat, T # {}
    PROVE  Least(T) \in T /\ \A y \in T : Least(T) <= y
<1>1. PICK x \in T : \A y \in T : ~ (<<y, x>> \in OpToRel(<, Nat))
  BY NatLessThanWellFounded, WFMin
<1>2. \A y \in T : ~ (y < x)
  BY <1>1 DEF OpToRel
<1>3. \A y \in T : x <= y
  BY <1>2
<1> QED
  BY <1>3 DEF Least

LEMMA GreatestFacts ==
    ASSUME NEW m \in Nat, NEW T \in SUBSET (0 .. m), T # {}
    PROVE  Greatest(T) \in T /\ \A y \in T : Greatest(T) >= y
<1> DEFINE U == {m - x : x \in T}
<1>1. U \in SUBSET Nat /\ U # {}
  <2>1. \A x \in T : m - x \in Nat
    OBVIOUS
  <2> QED
    BY <2>1
<1>2. PICK u \in U : \A v \in U : u <= v
  BY <1>1, LeastFacts
<1>3. PICK x \in T : u = m - x
  BY <1>2
<1>4. \A y \in T : x >= y
  <2>1. TAKE y \in T
  <2>2. m - y \in U
    OBVIOUS
  <2>3. m - x <= m - y
    BY <1>2, <1>3, <2>2
  <2> QED
    BY <2>3
<1> QED
  BY <1>4 DEF Greatest

-----------------------------------------------------------------------------
(* The records of a page.                                                    *)

LEMMA SizeFacts ==
    /\ S \in Nat /\ S > 1 /\ capacity \in Nat /\ capacity <= S /\ capacity > 0
    /\ Indices \subseteq Nat /\ Cut \subseteq Nat
    /\ \A i \in Nat : i < capacity => i \in Indices
    /\ Data \subseteq 0 .. 255 /\ FLASH_ERASED \in Data
BY SAssumption, ValuesAssumption, CutAssumption
   DEF capacity, Indices, Data, FLASH_ERASED, Stray, LastBatch

LEMMA RecordFacts ==
    /\ Empty.kind = "empty" /\ Invalid.kind = "invalid" /\ Empty # Invalid
    /\ \A i, d : /\ Record(i, d).kind = "valid" /\ Record(i, d).index = i /\ Record(i, d).data = d
                 /\ Record(i, d) # Empty /\ Record(i, d) # Invalid
    /\ \A i \in Indices \cup Cut, d \in Data : Record(i, d) \in Cell
    /\ Empty \in Cell /\ Invalid \in Cell
    /\ \A x \in Cell : x.kind = "valid" => x.index \in Indices \cup Cut /\ x.data \in Data
    /\ \A x \in Cell : x.kind = "valid" \/ x = Empty \/ x = Invalid
<1>1. Empty.kind = "empty" /\ Invalid.kind = "invalid" /\ Empty # Invalid
  BY DEF Empty, Invalid
<1>2. ASSUME NEW i, NEW d
      PROVE  /\ Record(i, d).kind = "valid" /\ Record(i, d).index = i /\ Record(i, d).data = d
             /\ Record(i, d) # Empty /\ Record(i, d) # Invalid
  <2>1. Record(i, d).kind = "valid" /\ Record(i, d).index = i /\ Record(i, d).data = d
    BY DEF Record
  <2> QED
    BY <1>1, <2>1
<1>3. \A i \in Indices \cup Cut, d \in Data : Record(i, d) \in Cell
  BY DEF Cell
<1>4. Empty \in Cell /\ Invalid \in Cell
  BY DEF Cell
<1>5. \A x \in Cell : x = Empty \/ x = Invalid \/ \E i \in Indices \cup Cut, d \in Data : x = Record(i, d)
  BY DEF Cell
<1>6. ASSUME NEW x \in Cell
      PROVE  /\ x.kind = "valid" => x.index \in Indices \cup Cut /\ x.data \in Data
             /\ x.kind = "valid" \/ x = Empty \/ x = Invalid
  <2>1. CASE x = Empty \/ x = Invalid
    BY <1>1, <2>1
  <2>2. CASE \E i \in Indices \cup Cut, d \in Data : x = Record(i, d)
    BY <1>2, <2>2
  <2> QED
    BY <1>5, <2>1, <2>2
<1> QED
  BY <1>1, <1>2, <1>3, <1>4, <1>6

\* The valid records end at the first one that is not.
LEMMA EndFacts ==
    ASSUME NEW c
    PROVE  /\ EndOf(c) \in 1 .. S + 1
           /\ \A n \in 1 .. EndOf(c) - 1 : c[n].kind = "valid"
           /\ EndOf(c) <= S => c[EndOf(c)].kind # "valid"
<1> DEFINE T == {n \in 1 .. S : c[n].kind # "valid"} \cup {S + 1}
<1>1. S \in Nat
  BY SizeFacts
<1>2. T \in SUBSET Nat /\ T # {}
  BY <1>1
<1>3. EndOf(c) \in T /\ \A y \in T : EndOf(c) <= y
  BY <1>2, LeastFacts DEF EndOf
<1> QED
  BY <1>1, <1>3

LEMMA EndIs ==
    ASSUME NEW c, NEW e \in 1 .. S + 1, \A n \in 1 .. e - 1 : c[n].kind = "valid",
           e <= S => c[e].kind # "valid"
    PROVE  EndOf(c) = e
<1>1. S \in Nat
  BY SizeFacts
<1>2. /\ EndOf(c) \in 1 .. S + 1
      /\ \A n \in 1 .. EndOf(c) - 1 : c[n].kind = "valid"
      /\ EndOf(c) <= S => c[EndOf(c)].kind # "valid"
  BY EndFacts
<1>3. ~ (EndOf(c) < e)
  <2>1. EndOf(c) < e => EndOf(c) \in 1 .. e - 1 /\ EndOf(c) <= S
    BY <1>1, <1>2
  <2> QED
    BY <1>2, <2>1
<1>4. ~ (e < EndOf(c))
  <2>1. e < EndOf(c) => e \in 1 .. EndOf(c) - 1 /\ e <= S
    BY <1>1, <1>2
  <2> QED
    BY <1>2, <2>1
<1> QED
  BY <1>1, <1>2, <1>3, <1>4

\* The value of an index is the data of its last record.
LEMMA ValueIs ==
    ASSUME NEW c, NEW i, NEW n \in 1 .. EndOf(c) - 1, c[n].index = i,
           \A m \in 1 .. EndOf(c) - 1 : m > n => c[m].index # i
    PROVE  ValueOf(c, i) = c[n].data
<1>1. S \in Nat /\ EndOf(c) \in 1 .. S + 1
  BY SizeFacts, EndFacts
<1>2. n \in Hits(c, i) /\ Hits(c, i) \in SUBSET (0 .. S + 1) /\ S + 1 \in Nat
  BY <1>1 DEF Hits
<1>3. Greatest(Hits(c, i)) \in Hits(c, i) /\ \A y \in Hits(c, i) : Greatest(Hits(c, i)) >= y
  BY <1>2, GreatestFacts
<1>4. Greatest(Hits(c, i)) = n
  BY <1>1, <1>2, <1>3 DEF Hits
<1> QED
  BY <1>2, <1>4 DEF ValueOf

LEMMA ValueNone ==
    ASSUME NEW c, NEW i, \A n \in 1 .. EndOf(c) - 1 : c[n].index # i
    PROVE  ValueOf(c, i) = FLASH_ERASED
BY DEF ValueOf, Hits

\* So there is such a record, or no record.
LEMMA ValueFacts ==
    ASSUME NEW c, NEW i
    PROVE  \/ /\ ValueOf(c, i) = FLASH_ERASED
              /\ \A n \in 1 .. EndOf(c) - 1 : c[n].index # i
           \/ \E n \in 1 .. EndOf(c) - 1 :
                  /\ c[n].index = i /\ c[n].data = ValueOf(c, i)
                  /\ \A m \in 1 .. EndOf(c) - 1 : m > n => c[m].index # i
<1>1. S \in Nat /\ EndOf(c) \in 1 .. S + 1
  BY SizeFacts, EndFacts
<1>2. CASE Hits(c, i) = {}
  BY <1>2 DEF ValueOf, Hits
<1>3. CASE Hits(c, i) # {}
  <2>1. Hits(c, i) \in SUBSET (0 .. S + 1) /\ S + 1 \in Nat
    BY <1>1 DEF Hits
  <2>2. Greatest(Hits(c, i)) \in Hits(c, i) /\ \A y \in Hits(c, i) : Greatest(Hits(c, i)) >= y
    BY <1>3, <2>1, GreatestFacts
  <2> DEFINE n == Greatest(Hits(c, i))
  <2>3. ValueOf(c, i) = c[n].data
    BY <1>3 DEF ValueOf
  <2> HIDE DEF n
  <2>4. n \in 1 .. EndOf(c) - 1 /\ c[n].index = i
    BY <2>2 DEF Hits, n
  <2>5. \A m \in 1 .. EndOf(c) - 1 : m > n => c[m].index # i
    BY <1>1, <2>2, <2>4 DEF Hits, n
  <2> QED
    BY <2>3, <2>4, <2>5
<1> QED
  BY <1>2, <1>3

\* Of the records with an index the last one counts.
LEMMA LastRecord ==
    ASSUME NEW c, NEW i, NEW m \in 1 .. EndOf(c) - 1, c[m].index = i
    PROVE  \E n \in 1 .. EndOf(c) - 1 : n >= m /\ c[n].index = i /\ c[n].data = ValueOf(c, i)
<1>1. PICK n \in 1 .. EndOf(c) - 1 :
         /\ c[n].index = i /\ c[n].data = ValueOf(c, i)
         /\ \A x \in 1 .. EndOf(c) - 1 : x > n => c[x].index # i
  BY ValueFacts
<1>2. ~ (m > n)
  BY <1>1
<1>3. n >= m
  BY <1>2, EndFacts, SizeFacts
<1> QED
  BY <1>1, <1>3

LEMMA ValueType ==
    ASSUME NEW c \in PageCells, NEW i
    PROVE  ValueOf(c, i) \in Data
<1>1. S \in Nat /\ EndOf(c) \in 1 .. S + 1 /\ \A n \in 1 .. EndOf(c) - 1 : c[n].kind = "valid"
  BY SizeFacts, EndFacts
<1>2. \A n \in 1 .. EndOf(c) - 1 : c[n].data \in Data
  BY <1>1, RecordFacts DEF PageCells
<1> QED
  BY <1>2, ValueFacts, SizeFacts

\* Nothing that is written behind the end of the records is read, as long as
\* the end stays.
LEMMA SamePrefix ==
    ASSUME NEW c, NEW d, \A n \in 1 .. EndOf(c) - 1 : d[n] = c[n],
           EndOf(c) <= S => d[EndOf(c)].kind # "valid"
    PROVE  EndOf(d) = EndOf(c) /\ \A i : ValueOf(d, i) = ValueOf(c, i)
<1>1. EndOf(c) \in 1 .. S + 1 /\ \A n \in 1 .. EndOf(c) - 1 : c[n].kind = "valid"
  BY EndFacts
<1>2. EndOf(d) = EndOf(c)
  BY <1>1, EndIs
<1>3. ASSUME NEW i
      PROVE  ValueOf(d, i) = ValueOf(c, i)
  <2>1. Hits(d, i) = Hits(c, i)
    BY <1>2 DEF Hits
  <2>2. CASE Hits(c, i) = {}
    BY <2>1, <2>2 DEF ValueOf
  <2>3. CASE Hits(c, i) # {}
    <3>1. Hits(c, i) \in SUBSET (0 .. S + 1) /\ S + 1 \in Nat
      BY <1>1, SizeFacts DEF Hits
    <3>2. Greatest(Hits(c, i)) \in 1 .. EndOf(c) - 1
      BY <2>3, <3>1, GreatestFacts DEF Hits
    <3> QED
      BY <2>1, <2>3, <3>2 DEF ValueOf
  <2> QED
    BY <2>2, <2>3
<1> QED
  BY <1>2, <1>3

\* An erased page holds nothing.
LEMMA BlankFacts ==
    ASSUME NEW c, \A n \in 1 .. S : c[n] = Empty
    PROVE  EndOf(c) = 1 /\ EmptyBehind(c) /\ \A i : ValueOf(c, i) = FLASH_ERASED
<1>1. 1 \in 1 .. S + 1 /\ 1 \in 1 .. S
  BY SizeFacts
<1>2. EndOf(c) = 1
  <2>1. c[1].kind # "valid"
    BY <1>1, RecordFacts
  <2> QED
    BY <1>1, <2>1, EndIs
<1>3. \A i : ValueOf(c, i) = FLASH_ERASED
  BY <1>2, ValueNone
<1> QED
  BY <1>2, <1>3 DEF EmptyBehind

-----------------------------------------------------------------------------
(* Blocks.                                                                   *)

LEMMA IndexFacts ==
    ASSUME NEW t \in SUBSET (Indices \cup Cut)
    PROVE  /\ IsFiniteSet(t) /\ Cardinality(t) \in Nat /\ (Cardinality(t) = 0 <=> t = {})
           /\ \A u \in SUBSET t : Cardinality(u) <= Cardinality(t) /\ Cardinality(u) \in Nat
           /\ \A i \in t : Cardinality(t \ {i}) = Cardinality(t) - 1
           /\ t # {} => Least(t) \in t
<1>1. t \in SUBSET (0 .. S + 1) /\ S + 1 \in Int /\ 0 \in Int /\ t \in SUBSET Nat
  BY SizeFacts, CutAssumption DEF Indices, Stray, LastBatch
<1>2. IsFiniteSet(t)
  BY <1>1, FS_Interval, FS_Subset
<1>3. Cardinality(t) \in Nat /\ (Cardinality(t) = 0 <=> t = {})
  BY <1>2, FS_CardinalityType, FS_EmptySet
<1>4. \A u \in SUBSET t : Cardinality(u) <= Cardinality(t) /\ Cardinality(u) \in Nat
  BY <1>2, FS_Subset, FS_CardinalityType
<1>5. \A i \in t : Cardinality(t \ {i}) = Cardinality(t) - 1
  BY <1>2, FS_RemoveElement
<1>6. t # {} => Least(t) \in t
  BY <1>1, LeastFacts
<1> QED
  BY <1>2, <1>3, <1>4, <1>5, <1>6

LEMMA PutFacts ==
    ASSUME NEW f \in Puts
    PROVE  /\ DOMAIN f \subseteq Indices /\ DOMAIN f # {} /\ f # NoBlock
           /\ \A i \in DOMAIN f : f[i] \in Data
<1>1. PICK range \in {r \in Ranges : r \subseteq Indices} : f \in [range -> Data]
  BY DEF Puts
<1>2. range \subseteq Indices /\ range # {}
  BY DEF Ranges
<1>3. DOMAIN f = range
  BY <1>1
<1>4. DOMAIN NoBlock = {}
  BY DEF NoBlock
<1> QED
  BY <1>1, <1>2, <1>3, <1>4

\* Where the next record of a block goes.
LEMMA AppendFacts ==
    ASSUME NEW c \in PageCells, NEW f \in Puts, NEW t, t # {}, Appending(c, f, t)
    PROVE  /\ t \in SUBSET Indices /\ Cardinality(t) \in Nat \ {0}
           /\ Cardinality(t) <= Cardinality(ChangedOf(c, f)) /\ Cardinality(ChangedOf(c, f)) \in Nat
           /\ EndOf(c) \in 1 .. S /\ EndOf(c) + Cardinality(ChangedOf(c, f)) - 1 <= S
           /\ EndOf(c) + Cardinality(t) - 1 \in EndOf(c) .. S
<1>1. ChangedOf(c, f) \in SUBSET (Indices \cup Cut) /\ ChangedOf(c, f) \subseteq Indices
  BY PutFacts DEF ChangedOf
<1>2. t \in SUBSET ChangedOf(c, f) /\ EndOf(c) + Cardinality(ChangedOf(c, f)) - 1 <= S
  BY DEF Appending
<1>3. /\ Cardinality(t) \in Nat /\ Cardinality(t) <= Cardinality(ChangedOf(c, f))
      /\ Cardinality(ChangedOf(c, f)) \in Nat
  BY <1>1, <1>2, IndexFacts
<1>4. Cardinality(t) # 0
  <2>1. t \in SUBSET (Indices \cup Cut)
    BY <1>1, <1>2
  <2> QED
    BY <2>1, IndexFacts
<1>5. EndOf(c) \in 1 .. S + 1 /\ S \in Nat
  BY EndFacts, SizeFacts
<1> QED
  BY <1>1, <1>2, <1>3, <1>4, <1>5

\* All but the last of the records of a block are written without being read:
\* the records d are those of c with the one of index i, one of many left.
OneMore(c, f, t, i, d) ==
    /\ c \in PageCells /\ f \in Puts /\ i \in t /\ t # {i} /\ Appending(c, f, t)
    /\ d[EndOf(c) + Cardinality(t) - 1] = Record(i, f[i])
    /\ \A n \in 1 .. S : n # EndOf(c) + Cardinality(t) - 1 => d[n] = c[n]
LEMMA AppendMore ==
    ASSUME NEW c, NEW f, NEW t, NEW i, NEW d, OneMore(c, f, t, i, d)
    PROVE  /\ Appending(d, f, t \ {i}) /\ t \ {i} # {}
           /\ \A j : ValueOf(d, j) = ValueOf(c, j)
<1>a. /\ c \in PageCells /\ f \in Puts /\ i \in t /\ t # {i} /\ Appending(c, f, t)
      /\ d[EndOf(c) + Cardinality(t) - 1] = Record(i, f[i])
      /\ \A n \in 1 .. S : n # EndOf(c) + Cardinality(t) - 1 => d[n] = c[n]
  BY DEF OneMore
<1> DEFINE first == EndOf(c)
           k     == Cardinality(t)
           n     == first + k - 1
           last  == first + Cardinality(ChangedOf(c, f)) - 1
<1>1. /\ t \in SUBSET Indices /\ k \in Nat \ {0} /\ k <= Cardinality(ChangedOf(c, f))
      /\ Cardinality(ChangedOf(c, f)) \in Nat
      /\ first \in 1 .. S /\ last <= S /\ n \in first .. S
  BY <1>a, AppendFacts
<1>2. i \in t /\ Cardinality(t \ {i}) = k - 1 /\ k - 1 # 0
  <2>1. i \in t /\ t \in SUBSET (Indices \cup Cut) /\ t \ {i} \in SUBSET (Indices \cup Cut) /\ t \ {i} # {}
    BY <1>1, <1>a
  <2> QED
    BY <1>a, <2>1, IndexFacts
<1>3. /\ t \subseteq ChangedOf(c, f)
      /\ last + 1 <= S => c[last + 1] = Empty
      /\ c[first] = Empty
      /\ \A m \in first + k .. last : \E j \in ChangedOf(c, f) \ t : c[m] = Record(j, f[j])
      /\ \A j \in ChangedOf(c, f) \ t : \E m \in first + k .. last : c[m] = Record(j, f[j])
  BY <1>a DEF Appending
<1>4. S \in Nat /\ DOMAIN c = 1 .. S /\ n \in 1 .. S
  BY <1>1, <1>a, SizeFacts DEF PageCells
<1>5. n > first /\ n <= last
  BY <1>1, <1>2
<1>6. d[n] = Record(i, f[i]) /\ \A m \in 1 .. S : m # n => d[m] = c[m]
  BY <1>a
<1>7. EndOf(d) = first /\ \A j : ValueOf(d, j) = ValueOf(c, j)
  <2>1. \A m \in 1 .. first - 1 : d[m] = c[m]
    BY <1>1, <1>4, <1>5, <1>6
  <2>2. d[first].kind # "valid" /\ d[first] = Empty
    BY <1>1, <1>3, <1>5, <1>6, RecordFacts
  <2> QED
    BY <2>1, <2>2, SamePrefix
<1>8. ChangedOf(d, f) = ChangedOf(c, f)
  BY <1>7 DEF ChangedOf
<1>9. \A m \in n .. last : \E j \in ChangedOf(c, f) \ (t \ {i}) : d[m] = Record(j, f[j])
  <2>1. TAKE m \in n .. last
  <2>2. CASE m = n
    BY <1>2, <1>3, <1>6, <2>2
  <2>3. CASE m # n
    <3>1. m \in first + k .. last /\ d[m] = c[m]
      BY <1>1, <1>4, <1>6, <2>3
    <3> QED
      BY <1>3, <3>1
  <2> QED
    BY <2>2, <2>3
<1>10. \A j \in ChangedOf(c, f) \ (t \ {i}) : \E m \in n .. last : d[m] = Record(j, f[j])
  <2>1. TAKE j \in ChangedOf(c, f) \ (t \ {i})
  <2>2. CASE j = i
    BY <1>1, <1>5, <1>6, <2>2
  <2>3. CASE j # i
    <3>1. PICK m \in first + k .. last : c[m] = Record(j, f[j])
      BY <1>3, <2>3
    <3>2. m \in n .. last /\ d[m] = c[m]
      BY <1>1, <1>4, <1>6, <3>1
    <3> QED
      BY <3>1, <3>2
  <2> QED
    BY <2>2, <2>3
<1>11. /\ last + 1 <= S => d[last + 1] = Empty
       /\ d[first] = Empty
  BY <1>1, <1>3, <1>4, <1>5, <1>6
<1>12. first + Cardinality(t \ {i}) = n
  BY <1>1, <1>2
<1>13. Appending(d, f, t \ {i})
  <2> DEFINE next2 == EndOf(d) + Cardinality(t \ {i})
             last2 == EndOf(d) + Cardinality(ChangedOf(d, f)) - 1
  <2>1. next2 = n /\ last2 = last
    BY <1>7, <1>8, <1>12
  <2>2. t \ {i} \subseteq ChangedOf(d, f) /\ last2 <= S
    BY <1>1, <1>2, <1>3, <1>8, <2>1
  <2>3. (last2 + 1 <= S => d[last2 + 1] = Empty) /\ d[EndOf(d)] = Empty
    BY <1>7, <1>11, <2>1
  <2>4. \A m \in next2 .. last2 : \E j \in ChangedOf(d, f) \ (t \ {i}) : d[m] = Record(j, f[j])
    BY <1>8, <1>9, <2>1
  <2>5. \A j \in ChangedOf(d, f) \ (t \ {i}) : \E m \in next2 .. last2 : d[m] = Record(j, f[j])
    BY <1>8, <1>10, <2>1
  <2> QED
    BY <2>2, <2>3, <2>4, <2>5 DEF Appending
<1>14. t \ {i} # {}
  BY <1>a
<1> QED
  BY <1>7, <1>13, <1>14

\* The last of them makes the whole block count.
LEMMA AppendLast ==
    ASSUME NEW c \in PageCells, NEW f \in Puts, NEW i, Appending(c, f, {i}),
           NEW d, d[EndOf(c)] = Record(i, f[i]), \A n \in 1 .. S : n # EndOf(c) => d[n] = c[n]
    PROVE  \A j : ValueOf(d, j) = TargetOf(c, f, j)
<1> DEFINE first == EndOf(c)
           last  == first + Cardinality(ChangedOf(c, f)) - 1
<1>1. Cardinality({i}) = 1
  BY FS_Singleton
<1>2. /\ Cardinality(ChangedOf(c, f)) \in Nat /\ 1 <= Cardinality(ChangedOf(c, f))
      /\ first \in 1 .. S /\ last <= S
  BY <1>1, AppendFacts
<1>3. /\ i \in ChangedOf(c, f)
      /\ last + 1 <= S => c[last + 1] = Empty
      /\ \A m \in first + 1 .. last : \E j \in ChangedOf(c, f) \ {i} : c[m] = Record(j, f[j])
      /\ \A j \in ChangedOf(c, f) \ {i} : \E m \in first + 1 .. last : c[m] = Record(j, f[j])
  BY <1>1 DEF Appending
<1>4. S \in Nat /\ DOMAIN c = 1 .. S
  BY SizeFacts DEF PageCells
<1>5. d[first] = Record(i, f[i]) /\ \A m \in 1 .. S : m # first => d[m] = c[m]
  OBVIOUS
<1>6. \A m \in 1 .. first - 1 : c[m].kind = "valid" /\ d[m] = c[m]
  BY <1>2, <1>4, <1>5, EndFacts
<1>7. \A m \in first .. last : \E j \in ChangedOf(c, f) : d[m] = Record(j, f[j])
  <2>1. TAKE m \in first .. last
  <2>2. CASE m = first
    BY <1>3, <1>5, <2>2
  <2>3. CASE m # first
    <3>1. m \in first + 1 .. last /\ d[m] = c[m]
      BY <1>2, <1>4, <1>5, <2>3
    <3> QED
      BY <1>3, <3>1
  <2> QED
    BY <2>2, <2>3
<1>8. \A j \in ChangedOf(c, f) : \E m \in first .. last : d[m] = Record(j, f[j])
  <2>1. TAKE j \in ChangedOf(c, f)
  <2>2. CASE j = i
    BY <1>2, <1>5, <2>2
  <2>3. CASE j # i
    <3>1. PICK m \in first + 1 .. last : c[m] = Record(j, f[j])
      BY <1>3, <2>3
    <3>2. m \in first .. last /\ d[m] = c[m]
      BY <1>2, <1>4, <1>5, <3>1
    <3> QED
      BY <3>1, <3>2
  <2> QED
    BY <2>2, <2>3
<1>9. EndOf(d) = last + 1
  <2>1. last + 1 \in 1 .. S + 1
    BY <1>2, <1>4
  <2>2. ASSUME NEW m \in 1 .. last
        PROVE  d[m].kind = "valid"
    <3>1. m \in 1 .. first - 1 \/ m \in first .. last
      BY <1>2
    <3> QED
      BY <1>6, <1>7, <3>1, RecordFacts
  <2>3. last + 1 <= S => d[last + 1] = Empty
    BY <1>2, <1>3, <1>4, <1>5
  <2>4. last + 1 <= S => d[last + 1].kind # "valid"
    BY <2>3, RecordFacts
  <2>5. (last + 1) - 1 = last
    BY <1>2
  <2> HIDE DEF last
  <2> QED
    BY <2>1, <2>2, <2>4, <2>5, EndIs
<1>10. \A m \in first .. last : m \in 1 .. EndOf(d) - 1
  BY <1>2, <1>9
<1>11. \A m \in 1 .. EndOf(d) - 1 : m \in 1 .. first - 1 \/ m \in first .. last
  BY <1>2, <1>9
<1>a. first \in Nat /\ last \in Nat /\ first = EndOf(c) /\ last = EndOf(d) - 1
      /\ first <= last
  BY <1>2, <1>4, <1>9
<1> HIDE DEF first, last
<1>12. ASSUME NEW j \in ChangedOf(c, f)
       PROVE  ValueOf(d, j) = f[j]
  <2>1. PICK m \in first .. last : d[m] = Record(j, f[j])
    BY <1>8
  <2>2. m \in 1 .. EndOf(d) - 1
    BY <1>10
  <2>a. d[m].index = j
    BY <2>1, RecordFacts
  <2>3. PICK n \in 1 .. EndOf(d) - 1 : n >= m /\ d[n].index = j /\ d[n].data = ValueOf(d, j)
    BY <2>2, <2>a, LastRecord
  <2>5. n \in first .. last
    BY <1>11, <1>a, <2>3
  <2>6. PICK k \in ChangedOf(c, f) : d[n] = Record(k, f[k])
    BY <1>7, <2>5
  <2> QED
    BY <2>3, <2>6, RecordFacts
<1>13. ASSUME NEW j, j \notin ChangedOf(c, f)
       PROVE  ValueOf(d, j) = ValueOf(c, j)
  <2>1. \A m \in first .. last : d[m].index # j
    BY <1>7, <1>13, RecordFacts
  <2>2. CASE \A n \in 1 .. first - 1 : c[n].index # j
    <3>1. \A n \in 1 .. EndOf(d) - 1 : d[n].index # j
      BY <1>6, <1>11, <2>1, <2>2
    <3> QED
      BY <2>2, <3>1, ValueNone DEF first
  <2>3. CASE ~ \A n \in 1 .. first - 1 : c[n].index # j
    <3>1. PICK n \in 1 .. first - 1 :
             /\ c[n].index = j /\ c[n].data = ValueOf(c, j)
             /\ \A x \in 1 .. first - 1 : x > n => c[x].index # j
      BY <2>3, ValueFacts DEF first
    <3>2. n \in 1 .. EndOf(d) - 1
      BY <1>a, <3>1
    <3>3. \A x \in 1 .. EndOf(d) - 1 : x > n => d[x].index # j
      BY <1>6, <1>11, <2>1, <3>1
    <3>4. d[n].index = j /\ d[n].data = ValueOf(c, j)
      BY <1>6, <3>1
    <3>5. ValueOf(d, j) = d[n].data
      BY <3>2, <3>3, <3>4, ValueIs
    <3> QED
      BY <3>4, <3>5
  <2> QED
    BY <2>2, <2>3
<1> QED
  BY <1>12, <1>13 DEF TargetOf, ChangedOf

\* A copy begins on an erased page,
LEMMA CopyBegins ==
    ASSUME NEW c, NEW f \in Puts, NEW d, \A n \in 1 .. S : d[n] = Empty
    PROVE  /\ EmptyBehind(d) /\ EndOf(d) = 1 /\ Copying(c, d, f, WantedOf(c, f))
           /\ WantedOf(c, f) \in SUBSET (Indices \cup Cut)
<1>1. EmptyBehind(d) /\ EndOf(d) = 1
  BY BlankFacts
<1>2. Copying(c, d, f, WantedOf(c, f))
  BY <1>1 DEF Copying
<1>3. WantedOf(c, f) \in SUBSET (Indices \cup Cut)
  BY PutFacts DEF WantedOf
<1> QED
  BY <1>1, <1>2, <1>3

\* goes on by one record after the other, from d to e that of index i,
OneCopied(c, d, f, t, i, e) ==
    /\ i \in t /\ EndOf(d) <= S /\ EmptyBehind(d) /\ Copying(c, d, f, t)
    /\ e[EndOf(d)] = Record(i, TargetOf(c, f, i))
    /\ \A n \in 1 .. S : n # EndOf(d) => e[n] = d[n]
LEMMA CopyMore ==
    ASSUME NEW c, NEW d, NEW f, NEW t, NEW i, NEW e, OneCopied(c, d, f, t, i, e)
    PROVE  /\ EndOf(e) = EndOf(d) + 1 /\ EmptyBehind(e) /\ Copying(c, e, f, t \ {i})
<1>a. /\ i \in t /\ EndOf(d) <= S /\ EmptyBehind(d) /\ Copying(c, d, f, t)
      /\ e[EndOf(d)] = Record(i, TargetOf(c, f, i))
      /\ \A n \in 1 .. S : n # EndOf(d) => e[n] = d[n]
  BY DEF OneCopied
<1> DEFINE first == EndOf(d)
<1>1. first \in 1 .. S /\ S \in Nat /\ \A n \in 1 .. first - 1 : d[n].kind = "valid"
  BY <1>a, EndFacts, SizeFacts
<1>2. /\ e[first] = Record(i, TargetOf(c, f, i))
      /\ \A n \in 1 .. first - 1 : e[n] = d[n]
      /\ \A n \in 1 .. S : n > first => e[n] = Empty
  BY <1>1, <1>a DEF EmptyBehind
<1>3. EndOf(e) = first + 1
  <2>1. \A n \in 1 .. first : e[n].kind = "valid"
    <3>1. TAKE n \in 1 .. first
    <3>2. n = first \/ n \in 1 .. first - 1
      BY <1>1
    <3> QED
      BY <1>1, <1>2, <3>2, RecordFacts
  <2>2. first + 1 <= S => e[first + 1].kind # "valid"
    BY <1>1, <1>2, RecordFacts
  <2>3. first + 1 \in 1 .. S + 1 /\ (first + 1) - 1 = first
    BY <1>1
  <2> HIDE DEF first
  <2> QED
    BY <2>1, <2>2, <2>3, EndIs
<1>4. EmptyBehind(e)
  BY <1>1, <1>2, <1>3 DEF EmptyBehind
<1>5. /\ i \in t /\ t \subseteq WantedOf(c, f)
      /\ \A n \in 1 .. first - 1 : \E j \in WantedOf(c, f) \ t : d[n] = Record(j, TargetOf(c, f, j))
      /\ \A j \in WantedOf(c, f) \ t : \E n \in 1 .. first - 1 : d[n] = Record(j, TargetOf(c, f, j))
  BY <1>a DEF Copying
<1> HIDE DEF first
<1>6. EndOf(e) - 1 = first
  BY <1>1, <1>3
<1>7. \A n \in 1 .. first : \E j \in WantedOf(c, f) \ (t \ {i}) : e[n] = Record(j, TargetOf(c, f, j))
  <2>1. TAKE n \in 1 .. first
  <2>2. CASE n = first
    BY <1>2, <1>5, <2>2
  <2>3. CASE n # first
    <3>1. n \in 1 .. first - 1 /\ e[n] = d[n]
      BY <1>1, <1>2, <2>3
    <3> QED
      BY <1>5, <3>1
  <2> QED
    BY <2>2, <2>3
<1>8. \A j \in WantedOf(c, f) \ (t \ {i}) : \E n \in 1 .. first : e[n] = Record(j, TargetOf(c, f, j))
  <2>1. TAKE j \in WantedOf(c, f) \ (t \ {i})
  <2>2. CASE j = i
    BY <1>1, <1>2, <2>2
  <2>3. CASE j # i
    <3>1. PICK n \in 1 .. first - 1 : d[n] = Record(j, TargetOf(c, f, j))
      BY <1>5, <2>3
    <3>2. n \in 1 .. first /\ e[n] = d[n]
      BY <1>1, <1>2, <3>1
    <3> QED
      BY <3>1, <3>2
  <2> QED
    BY <2>2, <2>3
<1>9. Copying(c, e, f, t \ {i})
  BY <1>5, <1>6, <1>7, <1>8 DEF Copying
<1> QED
  BY <1>3, <1>4, <1>9 DEF first

\* and holds in the end what it is to hold.
LEMMA CopyEnds ==
    ASSUME NEW c, NEW f \in Puts, NEW d, Copying(c, d, f, {}), NEW i \in Indices
    PROVE  ValueOf(d, i) = TargetOf(c, f, i)
<1>1. /\ \A n \in 1 .. EndOf(d) - 1 : \E j \in WantedOf(c, f) : d[n] = Record(j, TargetOf(c, f, j))
      /\ \A j \in WantedOf(c, f) : \E n \in 1 .. EndOf(d) - 1 : d[n] = Record(j, TargetOf(c, f, j))
  BY DEF Copying
<1>2. CASE i \in WantedOf(c, f)
  <2>1. PICK m \in 1 .. EndOf(d) - 1 : d[m] = Record(i, TargetOf(c, f, i))
    BY <1>1, <1>2
  <2>2. d[m].index = i
    BY <2>1, RecordFacts
  <2>3. PICK n \in 1 .. EndOf(d) - 1 : n >= m /\ d[n].index = i /\ d[n].data = ValueOf(d, i)
    BY <2>2, LastRecord
  <2>4. PICK j \in WantedOf(c, f) : d[n] = Record(j, TargetOf(c, f, j))
    BY <1>1
  <2> QED
    BY <2>3, <2>4, RecordFacts
<1>3. CASE i \notin WantedOf(c, f)
  <2>1. \A n \in 1 .. EndOf(d) - 1 : d[n].index # i
    BY <1>1, <1>3, RecordFacts
  <2>2. ValueOf(d, i) = FLASH_ERASED
    BY <2>1, ValueNone
  <2>3. TargetOf(c, f, i) = FLASH_ERASED
    BY <1>3 DEF WantedOf, TargetOf
  <2> QED
    BY <2>2, <2>3
<1> QED
  BY <1>2, <1>3

-----------------------------------------------------------------------------
(* The state in these terms.                                                 *)

FirstOf(s) ==
    IF \A p \in Pages : s[p] # "ACTIVE" THEN "NoPage"
    ELSE IF s["Page1"] = "ACTIVE" THEN "Page1" ELSE "Page2"

LEMMA PageTerms ==
    /\ \A p : End(p) = EndOf(cells[p]) /\ End(p)' = EndOf(cells'[p])
    /\ \A p, i : Value(p, i) = ValueOf(cells[p], i) /\ Value(p, i)' = ValueOf(cells'[p], i)
    /\ FirstActive = FirstOf(status) /\ FirstActive' = FirstOf(status')
BY DEF End, EndOf, Value, ValueOf, Hits, FirstActive, FirstOf

LEMMA OtherFacts ==
    /\ \A p \in Pages : Other(p) \in Pages /\ Other(p) # p /\ Other(Other(p)) = p
    /\ \A p, q \in Pages : q = p \/ q = Other(p)
    /\ "NoPage" \notin Pages /\ "Page1" \in Pages /\ "Page2" \in Pages
    /\ \A p : Other(p) \in Pages
BY DEF Other, Pages

\* The first active page.
LEMMA FirstFacts ==
    ASSUME NEW s
    PROVE  /\ FirstOf(s) \in Pages \cup {"NoPage"}
           /\ FirstOf(s) = "NoPage" <=> \A p \in Pages : s[p] # "ACTIVE"
           /\ FirstOf(s) \in Pages => s[FirstOf(s)] = "ACTIVE"
           /\ FirstOf(s) = "Page2" => s["Page1"] # "ACTIVE"
           /\ s["Page1"] = "ACTIVE" => FirstOf(s) = "Page1"
           /\ s["Page1"] # "ACTIVE" /\ s["Page2"] = "ACTIVE" => FirstOf(s) = "Page2"
BY DEF FirstOf, Pages

\* It stays the first when the status of the other page does not become ACTIVE,
LEMMA FirstStays ==
    ASSUME NEW s, NEW r, NEW p \in Pages, FirstOf(s) = p, r[p] = s[p],
           r[Other(p)] # "ACTIVE" \/ r[Other(p)] = s[Other(p)]
    PROVE  FirstOf(r) = p
BY DEF FirstOf, Pages, Other

\* and is the only one of which that can be said.
LEMMA FirstAlone ==
    ASSUME NEW s, NEW p \in Pages, s[p] = "ACTIVE", s[Other(p)] # "ACTIVE"
    PROVE  FirstOf(s) = p
BY DEF FirstOf, Pages, Other

-----------------------------------------------------------------------------
(* Types, and what the program remembers.                                    *)

FlashType ==
    /\ status \in [Pages -> Status]
    /\ cells \in [Pages -> PageCells]
    /\ marginal \in [Pages -> SUBSET Parts]
RamType ==
    /\ activePage \in Pages \cup {"NoPage"}
    /\ pc \in {"boot", "wipe1", "wipe2", "format", "idle", "append",
               "swap", "mark", "copy", "retire", "return", "hang"}
    /\ new \in Puts \cup {NoBlock}
    /\ todo \in SUBSET (Indices \cup Cut)
    /\ tries \in 0 .. 1

LEMMA TypeParts == (TypeOK <=> FlashType /\ RamType) /\ (TypeOK' <=> FlashType' /\ RamType')
BY DEF TypeOK, FlashType, RamType, PageCells

\* The operations on the flash.
LEMMA FlashTypes ==
    ASSUME TypeOK, NEW p \in Pages
    PROVE  /\ Erase(p) \/ EraseCut(p) => FlashType'
           /\ \A n : \A x \in Cell : WriteCell(p, n, x) => FlashType'
           /\ \A s \in Status : WriteStatus(p, s) => FlashType'
           /\ \A n : WrittenInPart(p, n) \subseteq Cell /\ WriteCut(p, n) => FlashType'
           /\ StatusCut(p) \/ StatusFailed(p) => FlashType'
           /\ UNCHANGED flash => FlashType'
<1>1. FlashType
  BY TypeParts
<1>2. [n \in 1 .. S |-> Empty] \in PageCells /\ [n \in 1 .. S |-> Invalid] \in PageCells
  BY RecordFacts DEF PageCells
<1>3. Erase(p) => FlashType'
  BY <1>1, <1>2 DEF Erase, FlashType, Status, Parts
<1>4. EraseCut(p) => FlashType'
  <2>1. SUFFICES ASSUME EraseCut(p)
                 PROVE  FlashType'
    OBVIOUS
  <2>2. PICK s \in {status[p], "ERASED", "garbage"} : status' = [status EXCEPT ![p] = s]
    BY <2>1 DEF EraseCut
  <2>3. PICK c \in {cells[p], [n \in 1 .. S |-> Empty], [n \in 1 .. S |-> Invalid]} :
           cells' = [cells EXCEPT ![p] = c]
    BY <2>1 DEF EraseCut
  <2>4. s \in Status /\ c \in PageCells
    BY <1>1, <1>2, <2>2, <2>3 DEF FlashType, Status
  <2>5. marginal' = [marginal EXCEPT ![p] = Parts]
    BY <2>1 DEF EraseCut
  <2> QED
    BY <1>1, <2>2, <2>3, <2>4, <2>5 DEF FlashType
<1>m. \A x \in SUBSET Parts : marginal' = [marginal EXCEPT ![p] = @ \cup x] => marginal' \in [Pages -> SUBSET Parts]
  BY <1>1 DEF FlashType
<1>5. ASSUME NEW n, NEW x \in Cell, WriteCell(p, n, x)
      PROVE  FlashType'
  <2>1. cells[p] \in PageCells
    BY <1>1 DEF FlashType
  <2>2. [cells[p] EXCEPT ![n] = x] \in PageCells
    BY <2>1 DEF PageCells
  <2>3. cells' = [cells EXCEPT ![p] = [cells[p] EXCEPT ![n] = x]] /\ UNCHANGED <<status, marginal>>
    BY <1>5 DEF WriteCell
  <2> QED
    BY <1>1, <2>2, <2>3 DEF FlashType
<1>6. ASSUME NEW s \in Status, WriteStatus(p, s)
      PROVE  FlashType'
  BY <1>1, <1>6 DEF WriteStatus, FlashType
<1>7. UNCHANGED flash => FlashType'
  BY <1>1 DEF flash, FlashType
<1>8. ASSUME NEW n, WrittenInPart(p, n) \subseteq Cell, WriteCut(p, n)
      PROVE  FlashType'
  <2>1. PICK x \in WrittenInPart(p, n) : cells' = [cells EXCEPT ![p][n] = x]
    BY <1>8 DEF WriteCut
  <2>2. cells[p] \in PageCells /\ x \in Cell
    BY <1>1, <1>8, <2>1 DEF FlashType
  <2>3. [cells[p] EXCEPT ![n] = x] \in PageCells
    BY <2>2 DEF PageCells
  <2>4. cells' = [cells EXCEPT ![p] = [cells[p] EXCEPT ![n] = x]]
    BY <2>1
  <2>5. cells' \in [Pages -> PageCells]
    BY <1>1, <2>3, <2>4 DEF FlashType
  <2>6. UNCHANGED status /\ marginal' = [marginal EXCEPT ![p] = @ \cup {"records"}] /\ {"records"} \in SUBSET Parts
    BY <1>8 DEF WriteCut, Parts
  <2> QED
    BY <1>1, <1>m, <2>5, <2>6 DEF FlashType
<1>9. StatusCut(p) => FlashType'
  <2>1. SUFFICES ASSUME StatusCut(p)
                 PROVE  FlashType'
    OBVIOUS
  <2>2. PICK s \in {status[p], "garbage"} : status' = [status EXCEPT ![p] = s]
    BY <2>1 DEF StatusCut
  <2>3. s \in Status /\ status' \in [Pages -> Status]
    BY <1>1, <2>2 DEF FlashType, Status
  <2>4. UNCHANGED cells /\ marginal' = [marginal EXCEPT ![p] = @ \cup {"header"}] /\ {"header"} \in SUBSET Parts
    BY <2>1 DEF StatusCut, Parts
  <2> QED
    BY <1>1, <1>m, <2>3, <2>4 DEF FlashType
<1>10. StatusFailed(p) => FlashType'
  BY <1>6 DEF StatusFailed, Status
<1> QED
  BY <1>3, <1>4, <1>5, <1>6, <1>7, <1>8, <1>9, <1>10

\* What can come out of the writing of a record.
LEMMA WrittenFacts ==
    ASSUME NEW p, NEW n, NEW i \in Indices \cup Cut, NEW d \in Data
    PROVE  /\ Record(i, d) \in Cell
           /\ Written(p, n, Record(i, d)) \subseteq Cell
           /\ WrittenInPart(p, n) \subseteq Cell
           /\ cells[p][n] = Empty /\ marginal[p] = {} =>
                  Written(p, n, Record(i, d)) = {Record(i, d)}
           /\ cells[p][n] = Empty /\ Cut = {} =>
                  /\ \A x \in Written(p, n, Record(i, d)) : x # Record(i, d) => x.kind # "valid"
                  /\ \A x \in WrittenInPart(p, n) : x.kind # "valid"
<1>1. Record(i, d) \in Cell
  BY RecordFacts
<1>2. Spoilt \subseteq Cell
  BY RecordFacts DEF Spoilt
<1>3. Written(p, n, Record(i, d)) \subseteq Cell /\ WrittenInPart(p, n) \subseteq Cell
  BY <1>1, <1>2, RecordFacts DEF Written, WrittenInPart
<1>4. cells[p][n] = Empty /\ marginal[p] = {} => Written(p, n, Record(i, d)) = {Record(i, d)}
  BY DEF Written
<1>5. Cut = {} => \A x \in Spoilt : x = Invalid
  BY DEF Spoilt
<1>6. cells[p][n] = Empty /\ Cut = {} =>
          /\ \A x \in Written(p, n, Record(i, d)) : x # Record(i, d) => x = Invalid
          /\ \A x \in WrittenInPart(p, n) : x = Empty \/ x = Invalid
  BY <1>5 DEF Written, WrittenInPart
<1> QED
  BY <1>1, <1>3, <1>4, <1>6, RecordFacts

\* The record that is appended next,
LEMMA NextToAppend ==
    ASSUME TypeOK, BlockInv, pc = "append"
    PROVE  Least(todo) \in todo /\ Least(todo) \in DOMAIN new /\ new \in Puts
           /\ Least(todo) \in Indices \cup Cut /\ new[Least(todo)] \in Data
<1>1. todo \in SUBSET (Indices \cup Cut) /\ todo # {} /\ todo \subseteq DOMAIN new /\ new \in Puts
  BY DEF TypeOK, BlockInv
<1>2. Least(todo) \in todo
  BY <1>1, IndexFacts
<1> QED
  BY <1>1, <1>2, PutFacts

\* and the one that is copied next.
NextCopied == Least(IF todo \ DOMAIN new # {} THEN todo \ DOMAIN new ELSE todo)
CopiedRecord == Record(NextCopied, TargetOf(cells[source], new, NextCopied))
LEMMA NextToCopy ==
    ASSUME TypeOK, RamInv, BlockInv, pc = "copy", todo # {}
    PROVE  /\ NextCopied \in todo /\ NextCopied \in Indices \cup Cut
           /\ TargetOf(cells[source], new, NextCopied) \in Data
           /\ CopyNext => \/ End(destination) > S /\ Failed /\ UNCHANGED <<flash, activePage, new>>
                          \/ /\ End(destination) <= S
                             /\ \E x \in Written(destination, End(destination), CopiedRecord) :
                                    /\ WriteCell(destination, End(destination), x)
                                    /\ \/ x = CopiedRecord /\ todo' = todo \ {NextCopied} /\ UNCHANGED <<pc, tries>>
                                       \/ x # CopiedRecord /\ Failed
                                    /\ UNCHANGED <<activePage, new>>
                          \/ /\ End(destination) <= S
                             /\ WriteCut(destination, End(destination))
<1>1. todo \in SUBSET (Indices \cup Cut) /\ source \in Pages /\ cells[source] \in PageCells /\ new \in Puts
  BY DEF TypeOK, RamInv, BlockInv, PageCells, source
<1>2. NextCopied \in todo
  BY <1>1, IndexFacts DEF NextCopied
<1>3. TargetOf(cells[source], new, NextCopied) \in Data
  BY <1>1, PutFacts, ValueType DEF TargetOf
<1>4. Record(NextCopied, IF NextCopied \in DOMAIN new THEN new[NextCopied] ELSE Value(source, NextCopied))
      = CopiedRecord
  BY PageTerms DEF CopiedRecord, TargetOf
<1>5. End(destination) \in Int /\ S \in Int
  BY PageTerms, EndFacts, SizeFacts
<1>6. CopyNext => \/ End(destination) > S /\ Failed /\ UNCHANGED <<flash, activePage, new>>
                  \/ /\ ~ (End(destination) > S)
                     /\ \E x \in Written(destination, End(destination), CopiedRecord) :
                            /\ WriteCell(destination, End(destination), x)
                            /\ \/ x = CopiedRecord /\ todo' = todo \ {NextCopied} /\ UNCHANGED <<pc, tries>>
                               \/ x # CopiedRecord /\ Failed
                            /\ UNCHANGED <<activePage, new>>
                  \/ /\ ~ (End(destination) > S)
                     /\ WriteCut(destination, End(destination))
  BY <1>4 DEF CopyNext, NextCopied
<1> QED
  BY <1>1, <1>2, <1>3, <1>5, <1>6

\* A reset leaves the program with nothing to remember.
LEMMA BootKeeps ==
    ASSUME FlashType', Boot
    PROVE  Basic'
<1>1. RamType'
  BY DEF Boot, RamType
<1>2. RamInv' /\ BlockInv'
  BY DEF Boot, RamInv, BlockInv
<1> QED
  BY <1>1, <1>2, TypeParts DEF Basic

\* An operation that leaves the page in use in use.
InUse == {"idle", "append", "swap", "mark", "copy", "return", "hang"}
LEMMA InUseKeeps ==
    ASSUME Basic, FlashType', RamType', pc \in InUse, pc' \in InUse,
           status'[activePage] = status[activePage],
           \/ status'[Other(activePage)] # "ACTIVE"
           \/ status'[Other(activePage)] = status[Other(activePage)],
           UNCHANGED activePage
    PROVE  TypeOK' /\ RamInv'
<1>1. activePage \in Pages /\ (activePage = FirstOf(status) \/ status[activePage] = "garbage")
  BY PageTerms DEF Basic, RamInv, InUse
<1>2. FirstOf(status') = activePage \/ status'[activePage] = "garbage"
  BY <1>1, FirstStays
<1>3. RamInv'
  BY <1>1, <1>2, PageTerms DEF RamInv, InUse
<1> QED
  BY <1>3, TypeParts

\* The part of a put that goes on with its block.
LEMMA PuttingKeeps ==
    ASSUME Basic, pc \in InUse \ {"idle"}, pc' \in InUse \ {"idle", "append"}, UNCHANGED new
    PROVE  BlockInv'
BY DEF Basic, BlockInv, InUse

LEMMA BasicStep ==
    ASSUME Basic, [Next]_vars
    PROVE  Basic'
<1>t. TypeOK /\ RamInv /\ BlockInv /\ FlashType /\ RamType
  BY TypeParts DEF Basic
<1>f. UNCHANGED flash => FlashType'
  BY <1>t DEF flash, FlashType
<1>p. /\ pc \in InUse => /\ activePage \in Pages /\ destination \in Pages /\ destination # activePage
                         /\ destination = Other(activePage)
      /\ pc = "retire" => /\ activePage \in Pages /\ destination \in Pages /\ destination # activePage
                          /\ destination = Other(activePage)
  BY <1>t, OtherFacts DEF RamInv, InUse, destination
<1>1. CASE UNCHANGED vars
  <2>1. FlashType' /\ RamType' /\ RamInv' /\ BlockInv'
    BY <1>1, <1>t, <1>f, PageTerms DEF vars, ram, flash, RamType, RamInv, BlockInv, destination
  <2> QED
    BY <2>1, TypeParts DEF Basic
<1>2. CASE Start
  <2>1. pc = "boot" /\ new = NoBlock /\ new' = new
    BY <1>2, <1>t DEF Start, BlockInv
  <2>2. FirstActive \in Pages \cup {"NoPage"} /\ FirstActive' = FirstActive
    BY <1>2, FirstFacts, PageTerms DEF Start, flash
  <2>3. FlashType' /\ RamType'
    BY <1>2, <1>t, <1>f, <2>2 DEF Start, RamType
  <2>4. RamInv' /\ BlockInv'
    BY <1>2, <2>1, <2>2 DEF Start, RamInv, BlockInv
  <2> QED
    BY <2>3, <2>4, TypeParts DEF Basic
<1>3. ASSUME NEW page \in Pages, NEW from, NEW to, Wipe(page, from, to),
             from \in {"wipe1", "wipe2"}, to \in {"wipe2", "format"}
      PROVE  Basic'
  <2>1. FlashType'
    BY <1>3, <1>t, FlashTypes DEF Wipe
  <2>2. CASE EraseCut(page)
    BY <2>1, <2>2, BootKeeps DEF EraseCut
  <2>3. CASE Erase(page) /\ pc' = to /\ UNCHANGED <<activePage, new, todo, tries>>
    <3>1. pc \in {"wipe1", "wipe2"} /\ FirstOf(status) = "NoPage" /\ new = NoBlock
      BY <1>3, <1>t, PageTerms DEF Wipe, RamInv, BlockInv
    <3>2. \A p \in Pages : status[p] # "ACTIVE"
      BY <3>1, FirstFacts
    <3>3. \A p \in Pages : status'[p] # "ACTIVE"
      BY <1>t, <2>3, <3>2 DEF Erase, FlashType
    <3>4. FirstActive' = "NoPage"
      BY <3>3, FirstFacts, PageTerms
    <3>5. RamType' /\ RamInv' /\ BlockInv'
      BY <1>3, <1>t, <2>3, <3>1, <3>4 DEF RamType, RamInv, BlockInv
    <3> QED
      BY <2>1, <3>5, TypeParts DEF Basic
  <2> QED
    BY <1>3, <2>2, <2>3 DEF Wipe
<1>4. CASE Format
  <2>1. FlashType'
    BY <1>4, <1>t, FlashTypes, OtherFacts DEF Format, Status
  <2>2. CASE StatusCut("Page1")
    BY <2>1, <2>2, BootKeeps DEF StatusCut
  <2>3. CASE /\ WriteStatus("Page1", "ACTIVE") /\ activePage' = "Page1" /\ pc' = "idle"
             /\ UNCHANGED <<new, todo, tries>>
    <3>1. pc = "format" /\ new = NoBlock
      BY <1>4, <1>t DEF Format, BlockInv
    <3>2. status'["Page1"] = "ACTIVE"
      BY <1>t, <2>3, OtherFacts DEF WriteStatus, FlashType
    <3>3. FirstActive' = "Page1"
      BY <3>2, FirstFacts, PageTerms
    <3>4. RamType' /\ RamInv' /\ BlockInv'
      BY <1>t, <2>3, <3>1, <3>3, OtherFacts DEF RamType, RamInv, BlockInv
    <3> QED
      BY <2>1, <3>4, TypeParts DEF Basic
  <2> QED
    BY <1>4, <2>2, <2>3 DEF Format
<1>5. CASE Append
  <2> DEFINE i == Least(todo)
             n == End(activePage) + Cardinality(todo) - 1
             record == Record(i, new[i])
  <2>1. pc = "append"
    BY <1>5 DEF Append
  <2>2. /\ i \in todo /\ i \in DOMAIN new /\ new \in Puts
        /\ i \in Indices \cup Cut /\ new[i] \in Data
    BY <1>t, <2>1, NextToAppend
  <2>3. Written(activePage, n, record) \subseteq Cell /\ WrittenInPart(activePage, n) \subseteq Cell
    BY <2>2, WrittenFacts
  <2>4. \/ /\ \E cell \in Written(activePage, n, record) :
                /\ WriteCell(activePage, n, cell)
                /\ pc' = IF cell # record THEN "swap" ELSE IF todo = {i} THEN "return" ELSE "append"
                /\ todo' = IF cell # record THEN {} ELSE todo \ {i}
           /\ UNCHANGED <<activePage, new, tries>>
        \/ WriteCut(activePage, n)
    BY <1>5 DEF Append
  <2> HIDE DEF i, n, record
  <2>5. activePage \in Pages
    BY <1>p, <2>1 DEF InUse
  <2>6. CASE WriteCut(activePage, n)
    <3>1. FlashType' /\ Boot
      BY <1>t, <2>3, <2>5, <2>6, FlashTypes DEF WriteCut
    <3> QED
      BY <3>1, BootKeeps
  <2>7. ASSUME NEW cell \in Written(activePage, n, record),
               WriteCell(activePage, n, cell),
               pc' = IF cell # record THEN "swap" ELSE IF todo = {i} THEN "return" ELSE "append",
               todo' = IF cell # record THEN {} ELSE todo \ {i},
               UNCHANGED <<activePage, new, tries>>
        PROVE  Basic'
    <3>1. FlashType'
      BY <1>t, <2>3, <2>5, <2>7, FlashTypes
    <3>2. RamType'
      BY <1>t, <2>7 DEF RamType
    <3>3. TypeOK' /\ RamInv'
      BY <2>1, <2>7, <3>1, <3>2, InUseKeeps DEF InUse, WriteCell
    <3>4. BlockInv'
      BY <1>t, <2>1, <2>2, <2>7 DEF BlockInv
    <3> QED
      BY <3>3, <3>4 DEF Basic
  <2> QED
    BY <2>4, <2>6, <2>7
<1>6. CASE Return
  <2>1. pc = "return" /\ pc' = "idle" /\ new' = NoBlock /\ UNCHANGED <<flash, activePage, todo, tries>>
    BY <1>6 DEF Return
  <2>2. FlashType' /\ RamType'
    BY <1>t, <1>f, <2>1 DEF RamType
  <2>3. TypeOK' /\ RamInv'
    BY <2>1, <2>2, InUseKeeps DEF InUse, flash
  <2>4. BlockInv'
    BY <2>1 DEF BlockInv
  <2> QED
    BY <2>3, <2>4 DEF Basic
<1>7. CASE EraseDestination
  <2>1. /\ pc = "swap" /\ destination \in Pages /\ activePage \in Pages /\ destination # activePage
        /\ destination = Other(activePage)
    BY <1>7, <1>p DEF EraseDestination, InUse
  <2>2. FlashType'
    BY <1>7, <1>t, <1>f, <2>1, FlashTypes DEF EraseDestination
  <2>3. CASE EraseCut(destination)
    BY <2>2, <2>3, BootKeeps DEF EraseCut
  <2>4. CASE /\ Erase(destination) \/ UNCHANGED flash
             /\ pc' = "mark" /\ UNCHANGED <<activePage, new, todo, tries>>
    <3>1. RamType'
      BY <1>t, <2>4 DEF RamType
    <3>2. /\ status'[activePage] = status[activePage]
          /\ status'[destination] = "ERASED" \/ status'[destination] = status[destination]
      BY <1>t, <2>1, <2>4 DEF Erase, flash, FlashType
    <3>3. TypeOK' /\ RamInv'
      BY <2>1, <2>2, <2>4, <3>1, <3>2, InUseKeeps DEF InUse
    <3>4. BlockInv'
      BY <2>1, <2>4, PuttingKeeps DEF InUse
    <3> QED
      BY <3>3, <3>4 DEF Basic
  <2> QED
    BY <1>7, <2>3, <2>4 DEF EraseDestination
<1>8. CASE MarkCopy
  <2>1. /\ pc = "mark" /\ destination \in Pages /\ activePage \in Pages /\ destination # activePage
        /\ destination = Other(activePage)
    BY <1>8, <1>p DEF MarkCopy, InUse
  <2>2. FlashType'
    BY <1>8, <1>t, <2>1, FlashTypes DEF MarkCopy, Status
  <2>3. CASE StatusCut(destination)
    BY <2>2, <2>3, BootKeeps DEF StatusCut
  <2>4. CASE ~ StatusCut(destination)
    <3>1. /\ \/ WriteStatus(destination, "COPY") \/ WriteStatus(destination, "garbage")
          /\ pc' \in {"hang", "copy", "swap", "return"}
          /\ UNCHANGED <<activePage, new>>
      BY <1>8, <2>4 DEF MarkCopy, StatusFailed, Failed
    <3>2. RamType'
      <4>1. Copied \cup {i \in DOMAIN new : new[i] # FLASH_ERASED} \in SUBSET (Indices \cup Cut)
        <5>1. new \in Puts
          BY <1>t, <2>1 DEF BlockInv
        <5> QED
          BY <5>1, PutFacts DEF Copied
      <4>2. todo' \in SUBSET (Indices \cup Cut) /\ tries' \in 0 .. 1
        BY <1>8, <1>t, <2>4, <4>1 DEF MarkCopy, StatusFailed, Failed, RamType
      <4> QED
        BY <1>t, <3>1, <4>2 DEF RamType
    <3>3. /\ status'[activePage] = status[activePage]
          /\ status'[destination] # "ACTIVE"
      BY <1>t, <2>1, <3>1 DEF WriteStatus, FlashType
    <3>4. TypeOK' /\ RamInv'
      BY <2>1, <2>2, <3>1, <3>2, <3>3, InUseKeeps DEF InUse
    <3>5. BlockInv'
      BY <2>1, <3>1, PuttingKeeps DEF InUse
    <3> QED
      BY <3>4, <3>5 DEF Basic
  <2> QED
    BY <2>3, <2>4
<1>9. CASE CopyNext
  <2>1. /\ pc = "copy" /\ todo # {}
        /\ destination \in Pages /\ destination # activePage /\ destination = Other(activePage)
    BY <1>9, <1>p DEF CopyNext, InUse
  <2> DEFINE n == End(destination)
             i == NextCopied
             d == TargetOf(cells[source], new, i)
  <2>2. i \in todo /\ i \in Indices \cup Cut /\ d \in Data
    BY <1>t, <2>1, NextToCopy
  <2>3. /\ Written(destination, n, CopiedRecord) \subseteq Cell
        /\ WrittenInPart(destination, n) \subseteq Cell
    BY <2>2, WrittenFacts DEF CopiedRecord
  <2> HIDE DEF n, i, d
  <2>4. ASSUME FlashType', UNCHANGED status, pc' \in {"copy", "swap", "return"},
               todo' \subseteq todo, tries' \in 0 .. 1, UNCHANGED <<activePage, new>>
        PROVE  Basic'
    <3>1. RamType'
      BY <1>t, <2>4 DEF RamType
    <3>2. TypeOK' /\ RamInv'
      BY <2>1, <2>4, <3>1, InUseKeeps DEF InUse
    <3>3. BlockInv'
      BY <2>1, <2>4, PuttingKeeps DEF InUse
    <3> QED
      BY <3>2, <3>3 DEF Basic
  <2>5. CASE Failed /\ UNCHANGED <<flash, activePage, new>>
    BY <1>f, <2>4, <2>5 DEF Failed, flash
  <2>6. CASE WriteCut(destination, n)
    <3>1. FlashType' /\ Boot
      BY <1>t, <2>1, <2>3, <2>6, FlashTypes DEF WriteCut
    <3> QED
      BY <3>1, BootKeeps
  <2>7. ASSUME NEW x \in Written(destination, n, CopiedRecord),
               WriteCell(destination, n, x),
               \/ x = CopiedRecord /\ todo' = todo \ {i} /\ UNCHANGED <<pc, tries>>
               \/ x # CopiedRecord /\ Failed,
               UNCHANGED <<activePage, new>>
        PROVE  Basic'
    <3>1. FlashType' /\ UNCHANGED status
      BY <1>t, <2>1, <2>3, <2>7, FlashTypes DEF WriteCell
    <3>2. pc' \in {"copy", "swap", "return"} /\ todo' \subseteq todo /\ tries' \in 0 .. 1
      BY <1>t, <2>1, <2>7 DEF Failed, RamType
    <3> QED
      BY <2>4, <2>7, <3>1, <3>2
  <2> QED
    BY <1>9, <1>t, <2>1, <2>5, <2>6, <2>7, NextToCopy DEF n, i
<1>10. CASE Activate
  <2>1. /\ pc = "copy" /\ destination \in Pages /\ activePage \in Pages /\ destination # activePage
        /\ destination = Other(activePage)
    BY <1>10, <1>p DEF Activate, InUse
  <2>2. FlashType'
    BY <1>10, <1>t, <2>1, FlashTypes DEF Activate, Status
  <2>3. CASE StatusCut(destination)
    BY <2>2, <2>3, BootKeeps DEF StatusCut
  <2>4. CASE StatusFailed(destination)
    <3>1. RamType' /\ pc' \in {"swap", "return"} /\ UNCHANGED <<activePage, new>>
      BY <1>t, <2>4 DEF StatusFailed, Failed, RamType
    <3>2. status'[activePage] = status[activePage] /\ status'[destination] # "ACTIVE"
      BY <1>t, <2>1, <2>4 DEF StatusFailed, WriteStatus, FlashType
    <3>3. TypeOK' /\ RamInv'
      BY <2>1, <2>2, <3>1, <3>2, InUseKeeps DEF InUse
    <3>4. BlockInv'
      BY <2>1, <3>1, PuttingKeeps DEF InUse
    <3> QED
      BY <3>3, <3>4 DEF Basic
  <2>5. CASE /\ WriteStatus(destination, "ACTIVE") /\ pc' = "retire"
             /\ UNCHANGED <<activePage, new, todo, tries>>
    <3>1. RamType'
      BY <1>t, <2>5 DEF RamType
    <3>2. status[activePage] \in {"ACTIVE", "garbage"}
      BY <1>t, <2>1, FirstFacts, PageTerms DEF RamInv
    <3>3. status'[destination] = "ACTIVE" /\ status'[activePage] = status[activePage]
      BY <1>t, <2>1, <2>5 DEF WriteStatus, FlashType
    <3>4. RamInv'
      BY <2>1, <2>5, <3>2, <3>3 DEF RamInv, destination
    <3>5. BlockInv'
      BY <1>t, <2>1, <2>5 DEF BlockInv
    <3> QED
      BY <2>2, <3>1, <3>4, <3>5, TypeParts DEF Basic
  <2> QED
    BY <1>10, <2>3, <2>4, <2>5 DEF Activate
<1>11. CASE Retire
  <2>1. /\ pc = "retire" /\ destination \in Pages /\ activePage \in Pages /\ destination # activePage
        /\ destination = Other(activePage) /\ Other(destination) = activePage
    BY <1>11, <1>p, OtherFacts DEF Retire
  <2>2. FlashType'
    BY <1>11, <1>t, <2>1, FlashTypes DEF Retire, Status, source
  <2>3. CASE StatusCut(source)
    BY <2>2, <2>3, BootKeeps DEF StatusCut
  <2>4. CASE StatusFailed(source)
    <3>1. RamType' /\ pc' \in {"swap", "return"} /\ UNCHANGED <<activePage, new>>
      BY <1>t, <2>4 DEF StatusFailed, Failed, RamType
    <3>2. status'[activePage] = "garbage"
      BY <1>t, <2>1, <2>4 DEF StatusFailed, WriteStatus, FlashType, source
    <3>3. RamInv' /\ BlockInv'
      BY <1>t, <2>1, <3>1, <3>2 DEF RamInv, BlockInv
    <3> QED
      BY <2>2, <3>1, <3>3, TypeParts DEF Basic
  <2>5. CASE /\ WriteStatus(source, "INACTIVE") /\ activePage' = destination
             /\ pc' = "return" /\ UNCHANGED <<new, todo, tries>>
    <3>1. status'[destination] = "ACTIVE" /\ status'[Other(destination)] # "ACTIVE"
      BY <1>t, <2>1, <2>5 DEF WriteStatus, FlashType, RamInv, source
    <3>2. FirstActive' = destination
      BY <2>1, <3>1, FirstAlone, PageTerms
    <3>3. RamType' /\ RamInv' /\ BlockInv'
      BY <1>t, <2>1, <2>5, <3>2 DEF RamType, RamInv, BlockInv
    <3> QED
      BY <2>2, <3>3, TypeParts DEF Basic
  <2> QED
    BY <1>11, <2>3, <2>4, <2>5 DEF Retire
<1>12. CASE Put
  <2>1. /\ pc = "idle" /\ pc' \in {"swap", "return", "append"} /\ tries' = 0
        /\ UNCHANGED <<flash, activePage>>
    BY <1>12 DEF Put
  <2>2. PICK range \in {r \in Ranges : InRange(r)} : \E block \in [range -> Data] :
          LET changed == {i \in DOMAIN block : Value(activePage, i) # block[i]}
          IN /\ new' = block
             /\ todo' \in {changed, {}}
             /\ pc' = "append" => todo' = changed /\ changed # {}
    BY <1>12 DEF Put
  <2>3. new' \in Puts
    <3>1. range \in {r \in Ranges : r \subseteq Indices}
      <4>1. \A r \in Ranges : r \subseteq Nat
        BY SizeFacts DEF Ranges
      <4>2. range \in Ranges /\ \A i \in range : i < capacity
        BY <2>2 DEF InRange
      <4> QED
        BY <4>1, <4>2, SizeFacts
    <3> QED
      BY <2>2, <3>1 DEF Puts
  <2>4. todo' \subseteq DOMAIN new' /\ (pc' = "append" => todo' # {})
    BY <2>2
  <2>5. RamType'
    BY <1>t, <2>1, <2>3, <2>4, PutFacts DEF RamType
  <2>6. FlashType' /\ UNCHANGED status
    BY <1>f, <2>1 DEF flash
  <2>7. TypeOK' /\ RamInv'
    BY <2>1, <2>5, <2>6, InUseKeeps DEF InUse
  <2>8. BlockInv'
    BY <2>1, <2>3, <2>4 DEF BlockInv
  <2> QED
    BY <2>7, <2>8 DEF Basic
<1>13. CASE PerformPendingErase
  <2>1. pc = "idle" /\ destination \in Pages /\ destination # activePage /\ destination = Other(activePage)
    BY <1>13, <1>p DEF PerformPendingErase, InUse
  <2>2. FlashType'
    BY <1>13, <1>t, <2>1, FlashTypes DEF PerformPendingErase
  <2>3. CASE EraseCut(Other(activePage))
    BY <2>2, <2>3, BootKeeps DEF EraseCut
  <2>4. CASE Erase(Other(activePage)) /\ UNCHANGED ram
    <3>1. RamType'
      BY <1>t, <2>4 DEF RamType, ram
    <3>2. /\ status'[activePage] = status[activePage]
          /\ status'[Other(activePage)] # "ACTIVE"
      BY <1>t, <2>1, <2>4 DEF Erase, FlashType
    <3>3. TypeOK' /\ RamInv'
      BY <2>1, <2>2, <2>4, <3>1, <3>2, InUseKeeps DEF InUse, ram
    <3>4. BlockInv'
      BY <1>t, <2>1, <2>4 DEF BlockInv, ram
    <3> QED
      BY <3>3, <3>4 DEF Basic
  <2> QED
    BY <1>13, <2>3, <2>4 DEF PerformPendingErase
<1>14. CASE Reset
  BY <1>14, <1>f, BootKeeps DEF Reset
<1>15. Clear => Basic'
  <2>1. Wipe("Page1", "wipe1", "wipe2") => Basic'
    BY <1>3, OtherFacts
  <2>2. Wipe("Page2", "wipe2", "format") => Basic'
    BY <1>3, OtherFacts
  <2> QED
    BY <1>4, <2>1, <2>2 DEF Clear
<1> QED
  BY <1>1, <1>2, <1>5, <1>6, <1>7, <1>8, <1>9, <1>10, <1>11, <1>12, <1>13, <1>14, <1>15
     DEF Next, Program, Swap

-----------------------------------------------------------------------------
(* The pages.                                                                *)

Rest == MarginInv /\ FreshInv /\ AppendInv /\ CopyInv /\ RetireInv /\ ReturnInv /\ SwapFits

\* Where nothing is said of the pages.
LEMMA RestPlain ==
    ASSUME pc' \in {"boot", "wipe1", "idle", "swap", "hang"}
    PROVE  Rest'
BY DEF Rest, MarginInv, FreshInv, AppendInv, CopyInv, RetireInv, ReturnInv, SwapFits

LEMMA SwapFitsTerms ==
    /\ SwapFits <=> (pc = "copy" => EndOf(cells[destination]) - 1 + Cardinality(todo) <= S)
    /\ SwapFits' <=> (pc' = "copy" => EndOf(cells'[destination']) - 1 + Cardinality(todo') <= S)
BY DEF SwapFits, End, EndOf

\* An operation on a page that is not the first active one leaves that one.
LEMMA OtherStays ==
    ASSUME TypeOK, NEW p \in Pages, p # FirstActive,
           Erase(p) \/ EraseCut(p) \/ WriteStatus(p, "COPY") \/ StatusFailed(p) \/ StatusCut(p)
    PROVE  FirstActive' = FirstActive
<1>1. FlashType
  BY TypeParts
<1>2. /\ status'[p] # "ACTIVE" \/ status'[p] = status[p]
      /\ \A q \in Pages : q # p => status'[q] = status[q]
  BY <1>1 DEF Erase, EraseCut, WriteStatus, StatusFailed, StatusCut, FlashType
<1>3. FirstActive' = FirstActive
  <2>1. CASE FirstOf(status) \in Pages
    <3>1. p = Other(FirstOf(status))
      BY <2>1, OtherFacts, PageTerms
    <3>2. status'[FirstOf(status)] = status[FirstOf(status)]
      BY <1>2, <2>1, PageTerms
    <3>3. FirstOf(status') = FirstOf(status)
      BY <1>2, <2>1, <3>1, <3>2, FirstStays
    <3> QED
      BY <3>3, PageTerms
  <2>2. CASE FirstOf(status) \notin Pages
    <3>1. \A q \in Pages : status[q] # "ACTIVE"
      BY <2>2, FirstFacts
    <3>2. \A q \in Pages : status'[q] # "ACTIVE"
      BY <1>2, <3>1
    <3>3. FirstOf(status') = "NoPage" /\ FirstOf(status) = "NoPage"
      BY <3>1, <3>2, FirstFacts
    <3> QED
      BY <3>3, PageTerms
  <2> QED
    BY <2>1, <2>2
<1> QED
  BY <1>3

\* There is no doubt about the page in use, unless it could not be marked,
LEMMA UsedFacts ==
    ASSUME Basic, pc \in InUse
    PROVE  /\ activePage \in Pages /\ (~Orphaned => activePage = FirstActive)
           /\ cells[activePage] \in PageCells
           /\ destination \in Pages /\ destination # activePage /\ cells[destination] \in PageCells
           /\ destination = Other(activePage)
<1>1. activePage \in Pages /\ (activePage = FirstActive \/ status[activePage] = "garbage")
  BY DEF Basic, RamInv, InUse
<1> QED
  BY <1>1, OtherFacts DEF Basic, TypeOK, PageCells, destination, Orphaned

\* nor about a record that is appended to it.
LEMMA AppendStep ==
    ASSUME Basic, Rest, Append
    PROVE  /\ Rest' /\ FirstActive' = FirstActive
           /\ \/ /\ UNCHANGED new
                 /\ \/ Cut = {} => \A j : ValueOf(cells'[activePage], j) = ValueOf(cells[activePage], j)
                    \/ \A j : ValueOf(cells'[activePage], j) = TargetOf(cells[activePage], new, j)
              \/ /\ new' = NoBlock
                 /\ Cut = {} => \A j : ValueOf(cells'[activePage], j) = ValueOf(cells[activePage], j)
<1> DEFINE i == Least(todo)
           c == cells[activePage]
           n == End(activePage) + Cardinality(todo) - 1
           record == Record(i, new[i])
           d == cells'[activePage]
<1>1. pc = "append" /\ TypeOK /\ BlockInv /\ Appending(c, new, todo)
  BY DEF Append, Basic, Rest, AppendInv
<1>2. activePage \in Pages /\ c \in PageCells /\ DOMAIN c = 1 .. S
  BY <1>1, UsedFacts DEF InUse, PageCells
<1>3. /\ i \in todo /\ i \in DOMAIN new /\ new \in Puts
      /\ i \in Indices \cup Cut /\ new[i] \in Data /\ todo # {}
  BY <1>1, NextToAppend
<1>4. n = EndOf(c) + Cardinality(todo) - 1
  BY PageTerms
<1>5. /\ EndOf(c) \in 1 .. S /\ n \in EndOf(c) .. S /\ Cardinality(todo) \in Nat \ {0} /\ S \in Nat
      /\ todo \in SUBSET (Indices \cup Cut)
  BY <1>1, <1>2, <1>3, <1>4, AppendFacts, SizeFacts
<1>6. c[EndOf(c)] = Empty
  BY <1>1 DEF Appending
<1>7. n = EndOf(c) => todo = {i}
  <2>1. ASSUME n = EndOf(c)
        PROVE  Cardinality(todo \ {i}) = 0
    <3>1. Cardinality(todo) = 1
      BY <1>4, <1>5, <2>1
    <3> QED
      BY <1>3, <1>5, <3>1, IndexFacts
  <2>2. todo \ {i} \in SUBSET (Indices \cup Cut)
    BY <1>5
  <2>3. n = EndOf(c) => todo \ {i} = {}
    BY <2>1, <2>2, IndexFacts
  <2> QED
    BY <1>3, <2>3
<1>8. todo = {i} => n = EndOf(c)
  <2>1. Cardinality({i}) = 1
    BY FS_Singleton
  <2>2. todo = {i} => Cardinality(todo) = 1
    BY <2>1
  <2> QED
    BY <1>4, <1>5, <2>2
<1>9. \/ /\ \E cell \in Written(activePage, n, record) :
              /\ WriteCell(activePage, n, cell)
              /\ pc' = IF cell # record THEN "swap" ELSE IF todo = {i} THEN "return" ELSE "append"
              /\ todo' = IF cell # record THEN {} ELSE todo \ {i}
         /\ UNCHANGED <<activePage, new, tries>>
      \/ WriteCut(activePage, n)
  BY DEF Append
<1> HIDE DEF i, n, d
<1>11. n = EndOf(c) /\ Cut = {} => \A x \in WrittenInPart(activePage, n) : x.kind # "valid"
  <2>1. n = EndOf(c) => cells[activePage][n] = Empty
    BY <1>6
  <2> QED
    BY <1>3, <2>1, WrittenFacts
<1>10. n = EndOf(c) /\ Cut = {} =>
           \A x \in Written(activePage, n, record) : x # record => x.kind # "valid"
  <2>1. n = EndOf(c) => cells[activePage][n] = Empty
    BY <1>6
  <2>2. cells[activePage][n] = Empty /\ Cut = {} =>
            \A x \in Written(activePage, n, Record(i, new[i])) : x # Record(i, new[i]) => x.kind # "valid"
    BY <1>3, WrittenFacts
  <2> QED
    BY <2>1, <2>2
<1> HIDE DEF record
<1>12. ASSUME NEW cell, cells' = [cells EXCEPT ![activePage][n] = cell]
       PROVE  /\ d[n] = cell
              /\ \A m \in 1 .. S : m # n => d[m] = c[m]
  <2>1. cells' = [cells EXCEPT ![activePage] = [c EXCEPT ![n] = cell]]
    BY <1>12
  <2>2. cells \in [Pages -> PageCells]
    BY <1>1 DEF TypeOK, PageCells
  <2>3. d = [c EXCEPT ![n] = cell]
    BY <1>2, <2>1, <2>2 DEF d
  <2> QED
    BY <1>2, <1>5, <2>1, <2>3
<1>13. ASSUME NEW cell, cells' = [cells EXCEPT ![activePage][n] = cell], n # EndOf(c) \/ cell.kind # "valid"
       PROVE  \A j : ValueOf(d, j) = ValueOf(c, j)
  <2>0. d[n] = cell /\ \A m \in 1 .. S : m # n => d[m] = c[m]
    BY <1>12, <1>13
  <2>1. \A m \in 1 .. EndOf(c) - 1 : d[m] = c[m]
    <3>1. \A m \in 1 .. EndOf(c) - 1 : m \in 1 .. S /\ m # n
      BY <1>5
    <3> QED
      BY <2>0, <3>1
  <2>2. d[EndOf(c)].kind # "valid"
    <3>1. CASE n = EndOf(c)
      BY <1>12, <1>13, <3>1
    <3>2. CASE n # EndOf(c)
      BY <1>5, <1>6, <1>12, <1>13, <3>2, RecordFacts
    <3> QED
      BY <3>1, <3>2
  <2> QED
    BY <2>1, <2>2, SamePrefix
<1>16. UNCHANGED status => FirstActive' = FirstActive
  BY PageTerms
<1>14. CASE WriteCut(activePage, n)
  <2>1. PICK cell \in WrittenInPart(activePage, n) : cells' = [cells EXCEPT ![activePage][n] = cell]
    BY <1>14 DEF WriteCut
  <2>2. pc' = "boot" /\ new' = NoBlock /\ FirstActive' = FirstActive
    BY <1>14, <1>16 DEF WriteCut, Boot
  <2>3. Cut = {} => \A j : ValueOf(d, j) = ValueOf(c, j)
    BY <1>11, <1>13, <2>1
  <2> QED
    BY <2>2, <2>3, RestPlain DEF d
<1>15. ASSUME NEW cell \in Written(activePage, n, record),
              WriteCell(activePage, n, cell),
              pc' = IF cell # record THEN "swap" ELSE IF todo = {i} THEN "return" ELSE "append",
              todo' = IF cell # record THEN {} ELSE todo \ {i},
              UNCHANGED <<activePage, new, tries>>
       PROVE  /\ Rest' /\ FirstActive' = FirstActive
              /\ \/ Cut = {} => \A j : ValueOf(d, j) = ValueOf(c, j)
                 \/ \A j : ValueOf(d, j) = TargetOf(c, new, j)
  <2>1. cells' = [cells EXCEPT ![activePage][n] = cell] /\ FirstActive' = FirstActive
    BY <1>15, <1>16 DEF WriteCell
  <2>2. CASE cell # record
    <3>1. Cut = {} => \A j : ValueOf(d, j) = ValueOf(c, j)
      BY <1>10, <1>13, <1>15, <2>1, <2>2
    <3> QED
      BY <1>15, <2>1, <2>2, <3>1, RestPlain
  <2>3. CASE cell = record /\ todo = {i}
    <3>1. /\ Appending(c, new, {i}) /\ d[EndOf(c)] = Record(i, new[i])
          /\ \A m \in 1 .. S : m # EndOf(c) => d[m] = c[m]
      BY <1>1, <1>8, <1>12, <2>1, <2>3 DEF record
    <3>2. \A j : ValueOf(d, j) = TargetOf(c, new, j)
      BY <1>2, <1>3, <3>1, AppendLast
    <3>3. pc' = "return" /\ ReturnInv'
      BY <1>15, <2>3, <3>2 DEF ReturnInv, Holds, TargetOf, d
    <3> QED
      BY <2>1, <3>2, <3>3
         DEF Rest, MarginInv, FreshInv, AppendInv, CopyInv, RetireInv, SwapFits
  <2>4. CASE cell = record /\ todo # {i}
    <3>1. /\ d[EndOf(c) + Cardinality(todo) - 1] = Record(i, new[i])
          /\ \A m \in 1 .. S : m # EndOf(c) + Cardinality(todo) - 1 => d[m] = c[m]
      BY <1>4, <1>12, <2>1, <2>4 DEF record
    <3>2. Appending(d, new, todo \ {i}) /\ \A j : ValueOf(d, j) = ValueOf(c, j)
      <4>1. OneMore(c, new, todo, i, d)
        BY <1>1, <1>2, <1>3, <2>4, <3>1 DEF OneMore
      <4> QED
        BY <4>1, AppendMore
    <3>3. pc' = "append" /\ AppendInv'
      BY <1>15, <2>4, <3>2 DEF AppendInv, d
    <3> QED
      BY <2>1, <3>2, <3>3
         DEF Rest, MarginInv, FreshInv, CopyInv, RetireInv, ReturnInv, SwapFits
  <2> QED
    BY <2>2, <2>3, <2>4
<1> QED
  BY <1>9, <1>14, <1>15 DEF d

\* A step that leaves what is read as it is, and the block as well unless it
\* is dropped.
Quiet ==
    /\ FirstActive' = FirstActive
    /\ FirstActive \in Pages => cells'[FirstActive] = cells[FirstActive]
    /\ UNCHANGED new \/ new' = NoBlock

\* It is one for the program when it leaves the page in use and its status.
LEMMA QuietFacts ==
    ASSUME activePage \in Pages, activePage = FirstActive \/ Orphaned,
           FirstActive = activePage => FirstActive' = FirstActive,
           cells'[activePage] = cells[activePage], UNCHANGED new \/ new' = NoBlock
    PROVE  ~Orphaned => Quiet
BY DEF Quiet

\* The swap of the pages: a copy goes on to an erased page.
LEMMA CopyStep ==
    ASSUME Basic, Rest, CopyNext
    PROVE  Rest' /\ (~Orphaned => Quiet)
<1> DEFINE i == NextCopied
           c == cells[source]
           d == cells[destination]
           e == cells'[destination]
           n == End(destination)
<1>1. /\ pc = "copy" /\ todo # {} /\ TypeOK /\ RamInv /\ BlockInv /\ MarginInv /\ SwapFits
      /\ status[destination] = "COPY" /\ EmptyBehind(d) /\ Copying(c, d, new, todo)
  BY DEF CopyNext, Basic, Rest, FreshInv, CopyInv
<1>2. /\ activePage \in Pages /\ (activePage = FirstActive \/ Orphaned)
      /\ destination \in Pages /\ destination # activePage /\ d \in PageCells
  BY <1>1, UsedFacts DEF InUse
<1>3. /\ n = EndOf(d) /\ n \in 1 .. S /\ S \in Nat
      /\ n - 1 + Cardinality(todo) <= S /\ Cardinality(todo) \in Nat \ {0}
  <2>1. todo \in SUBSET (Indices \cup Cut)
    BY <1>1 DEF TypeOK
  <2>2. Cardinality(todo) \in Nat \ {0}
    BY <1>1, <2>1, IndexFacts
  <2>3. n = EndOf(d) /\ n \in 1 .. S + 1 /\ S \in Nat
    BY PageTerms, EndFacts, SizeFacts
  <2>4. n - 1 + Cardinality(todo) <= S
    BY <1>1, <2>3, SwapFitsTerms
  <2> QED
    BY <2>2, <2>3, <2>4
<1>4. d[n] = Empty
  BY <1>1, <1>3 DEF EmptyBehind
<1>5. i \in todo /\ i \in Indices \cup Cut /\ TargetOf(c, new, i) \in Data
  BY <1>1, NextToCopy
<1> HIDE DEF i, n, d
<1>7. marginal[destination] = {} => Written(destination, n, CopiedRecord) = {CopiedRecord}
  <2>1. cells[destination][n] = Empty
    BY <1>4 DEF d
  <2> QED
    BY <2>1 DEF Written
<1> USE DEF d
<1>8. marginal[destination] # {} => tries = 0
  BY <1>1 DEF MarginInv, TypeOK
<1>9. ASSUME NEW x, cells' = [cells EXCEPT ![destination][n] = x], UNCHANGED status
      PROVE  /\ FirstActive' = FirstActive /\ cells'[activePage] = cells[activePage]
             /\ cells'[destination][n] = x
             /\ \A m \in 1 .. S : m # n => cells'[destination][m] = d[m]
  <2>1. cells' = [cells EXCEPT ![destination] = [d EXCEPT ![n] = x]]
    BY <1>9
  <2>2. cells \in [Pages -> PageCells] /\ d \in [1 .. S -> Cell]
    BY <1>1, <1>2 DEF TypeOK, PageCells
  <2>3. cells'[destination] = [d EXCEPT ![n] = x] /\ cells'[activePage] = cells[activePage]
    BY <1>2, <2>1, <2>2
  <2> QED
    BY <1>3, <1>9, <2>2, <2>3, PageTerms
<1>10. CASE WriteCut(destination, n)
  <2>1. PICK x \in WrittenInPart(destination, n) : cells' = [cells EXCEPT ![destination][n] = x]
    BY <1>10 DEF WriteCut
  <2>2. pc' = "boot" /\ new' = NoBlock /\ UNCHANGED status
    BY <1>10 DEF WriteCut, Boot
  <2> QED
    BY <1>2, <1>9, <2>1, <2>2, RestPlain, QuietFacts
<1>11. ASSUME NEW x \in Written(destination, n, CopiedRecord), WriteCell(destination, n, x),
              x # CopiedRecord, Failed, UNCHANGED <<activePage, new>>
       PROVE  Rest' /\ (~Orphaned => Quiet)
  <2>1. pc' = "swap"
    BY <1>7, <1>8, <1>11 DEF Failed
  <2> QED
    BY <1>2, <1>9, <1>11, <2>1, RestPlain, QuietFacts DEF WriteCell
<1>12. ASSUME NEW x \in Written(destination, n, CopiedRecord), WriteCell(destination, n, x),
              x = CopiedRecord, todo' = todo \ {i}, UNCHANGED <<pc, tries, activePage, new>>
       PROVE  Rest' /\ (~Orphaned => Quiet)
  <2>0. cells' = [cells EXCEPT ![destination][n] = x] /\ UNCHANGED <<status, marginal>>
    BY <1>12 DEF WriteCell
  <2>1. OneCopied(c, d, new, todo, i, cells'[destination])
    <3>1. /\ cells'[destination][n] = CopiedRecord
          /\ \A m \in 1 .. S : m # n => cells'[destination][m] = d[m]
      BY <1>9, <1>12, <2>0
    <3>2. CopiedRecord = Record(i, TargetOf(c, new, i))
      BY DEF CopiedRecord, i
    <3>3. n = EndOf(d) /\ EndOf(d) <= S
      BY <1>3
    <3> HIDE DEF c, d
    <3>4. /\ cells'[destination][EndOf(d)] = Record(i, TargetOf(c, new, i))
          /\ \A m \in 1 .. S : m # EndOf(d) => cells'[destination][m] = d[m]
      BY <3>1, <3>2, <3>3
    <3> QED
      BY <1>1, <1>5, <3>3, <3>4 DEF OneCopied
  <2>2. /\ EndOf(cells'[destination]) = EndOf(d) + 1 /\ EmptyBehind(cells'[destination])
        /\ Copying(c, cells'[destination], new, todo \ {i})
    BY <2>1, CopyMore
  <2>3. UNCHANGED destination /\ UNCHANGED source
    BY <1>12 DEF destination, source
  <2>4. cells'[source] = c
    BY <1>9, <1>12, <2>0 DEF source
  <2>5. CopyInv' /\ FreshInv'
    BY <1>1, <1>12, <2>0, <2>2, <2>3, <2>4 DEF CopyInv, FreshInv
  <2>6. SwapFits'
    <3>1. Cardinality(todo \ {i}) = Cardinality(todo) - 1
      BY <1>1, <1>5, IndexFacts DEF TypeOK
    <3> QED
      BY <1>3, <1>12, <2>2, <2>3, <3>1, SwapFitsTerms
  <2>7. MarginInv'
    BY <1>1, <1>12, <2>0, <2>3 DEF MarginInv
  <2>8. AppendInv' /\ RetireInv' /\ ReturnInv'
    BY <1>1, <1>12 DEF AppendInv, RetireInv, ReturnInv
  <2>9. ~Orphaned => Quiet
    BY <1>2, <1>9, <1>12, <2>0, QuietFacts
  <2> QED
    BY <2>5, <2>6, <2>7, <2>8, <2>9 DEF Rest
<1>13. \/ End(destination) > S
       \/ \E x \in Written(destination, End(destination), CopiedRecord) :
              /\ WriteCell(destination, End(destination), x)
              /\ \/ x = CopiedRecord /\ todo' = todo \ {NextCopied} /\ UNCHANGED <<pc, tries>>
                 \/ x # CopiedRecord /\ Failed
              /\ UNCHANGED <<activePage, new>>
       \/ WriteCut(destination, End(destination))
  BY <1>1, NextToCopy
<1> QED
  BY <1>3, <1>10, <1>11, <1>12, <1>13 DEF n, i

LEMMA EraseStep ==
    ASSUME Basic, Rest, EraseDestination
    PROVE  Rest' /\ (~Orphaned => Quiet)
<1>1. pc = "swap" /\ TypeOK /\ FlashType
  BY TypeParts DEF EraseDestination, Basic, Rest
<1>2. /\ activePage \in Pages /\ (activePage = FirstActive \/ Orphaned)
      /\ destination \in Pages /\ destination # activePage
  BY <1>1, UsedFacts DEF InUse
<1>3. Erase(destination) \/ EraseCut(destination) => (FirstActive = activePage => FirstActive' = FirstActive)
  BY <1>1, <1>2, OtherStays
<1>4. CASE EraseCut(destination)
  <2>1. pc' = "boot" /\ new' = NoBlock /\ cells'[activePage] = cells[activePage]
    BY <1>1, <1>2, <1>4 DEF EraseCut, Boot, FlashType
  <2> QED
    BY <1>2, <1>3, <1>4, <2>1, RestPlain, QuietFacts
<1>5. CASE /\ IF tries > 0 \/ ~Erased(destination) THEN Erase(destination) ELSE UNCHANGED flash
           /\ pc' = "mark" /\ UNCHANGED <<activePage, new, todo, tries>>
  <2>1. /\ FirstActive = activePage => FirstActive' = FirstActive
        /\ cells'[activePage] = cells[activePage] /\ status'[destination] = "ERASED"
        /\ \A n \in 1 .. S : cells'[destination][n] = Empty
        /\ tries = 1 => marginal'[destination] = {}
    <3>1. CASE Erase(destination)
      <4>1. /\ cells'[activePage] = cells[activePage] /\ marginal'[destination] = {} /\ status'[destination] = "ERASED"
            /\ \A n \in 1 .. S : cells'[destination][n] = Empty
        BY <1>1, <1>2, <3>1 DEF Erase, FlashType
      <4> QED
        BY <1>3, <3>1, <4>1
    <3>2. CASE ~ (tries > 0 \/ ~Erased(destination)) /\ UNCHANGED flash
      <4>1. status'[destination] = "ERASED" /\ \A n \in 1 .. S : cells'[destination][n] = Empty
        BY <3>2 DEF Erased, flash
      <4> QED
        BY <3>2, <4>1, PageTerms DEF flash
    <3> QED
      BY <1>5, <3>1, <3>2
  <2>2. UNCHANGED destination
    BY <1>5 DEF destination
  <2>3. MarginInv' /\ FreshInv'
    BY <1>5, <2>1, <2>2 DEF MarginInv, FreshInv
  <2>4. AppendInv' /\ CopyInv' /\ RetireInv' /\ ReturnInv' /\ SwapFits'
    BY <1>5 DEF AppendInv, CopyInv, RetireInv, ReturnInv, SwapFits
  <2> QED
    BY <1>2, <1>5, <2>1, <2>3, <2>4, QuietFacts DEF Rest
<1> QED
  BY <1>4, <1>5 DEF EraseDestination

\* What the copy is to hold fits in a page, if the indices do.
LEMMA MarkStep ==
    ASSUME Cardinality(Indices \cup Cut) <= S, Basic, Rest, MarkCopy
    PROVE  Rest' /\ (~Orphaned => Quiet)
<1> DEFINE c == cells[source]
           d == cells[destination]
<1>1. /\ pc = "mark" /\ TypeOK /\ MarginInv /\ FlashType /\ new \in Puts
      /\ status[destination] = "ERASED" /\ \A n \in 1 .. S : d[n] = Empty
  BY TypeParts DEF MarkCopy, Basic, Rest, BlockInv, FreshInv
<1>2. /\ activePage \in Pages /\ (activePage = FirstActive \/ Orphaned)
      /\ destination \in Pages /\ destination # activePage
  BY <1>1, UsedFacts DEF InUse
<1>4. WriteStatus(destination, "COPY") \/ StatusFailed(destination) \/ StatusCut(destination) =>
          (FirstActive = activePage => FirstActive' = FirstActive) /\ UNCHANGED cells
  <2>1. WriteStatus(destination, "COPY") \/ StatusFailed(destination) \/ StatusCut(destination) => UNCHANGED cells
    BY DEF WriteStatus, StatusFailed, StatusCut
  <2> QED
    BY <1>1, <1>2, <2>1, OtherStays
<1>5. CASE StatusCut(destination)
  <2>1. pc' = "boot" /\ new' = NoBlock
    BY <1>5 DEF StatusCut, Boot
  <2> QED
    BY <1>2, <1>4, <1>5, <2>1, RestPlain, QuietFacts
<1>6. CASE StatusFailed(destination)
  <2>1. "header" \in marginal[destination]
    BY <1>1, <1>6 DEF StatusFailed
  <2>2. pc' = "swap" /\ UNCHANGED new
    BY <1>1, <1>6, <2>1 DEF StatusFailed, Failed, MarginInv, TypeOK
  <2> QED
    BY <1>2, <1>4, <1>6, <2>2, RestPlain, QuietFacts
<1>7. CASE /\ WriteStatus(destination, "COPY") /\ pc' \in {"hang", "copy"}
           /\ todo' = Copied \cup {i \in DOMAIN new : new[i] # FLASH_ERASED}
           /\ UNCHANGED <<activePage, new, tries>>
  <2>1. (FirstActive = activePage => FirstActive' = FirstActive) /\ UNCHANGED <<cells, marginal>>
        /\ status'[destination] = "COPY"
    BY <1>1, <1>2, <1>4, <1>7 DEF WriteStatus, FlashType
  <2>2. todo' = WantedOf(c, new)
    BY <1>7, PageTerms DEF Copied, WantedOf
  <2>3. UNCHANGED <<source, destination>>
    BY <1>7 DEF source, destination
  <2>4. /\ EmptyBehind(d) /\ EndOf(d) = 1 /\ Copying(c, d, new, WantedOf(c, new))
        /\ WantedOf(c, new) \in SUBSET (Indices \cup Cut)
    BY <1>1, CopyBegins
  <2>5. CopyInv' /\ FreshInv'
    BY <1>7, <2>1, <2>2, <2>3, <2>4 DEF CopyInv, FreshInv
  <2>6. SwapFits'
    <3>1. Cardinality(WantedOf(c, new)) <= S
      <4>1. /\ Cardinality(WantedOf(c, new)) <= Cardinality(Indices \cup Cut)
            /\ Cardinality(WantedOf(c, new)) \in Nat /\ Cardinality(Indices \cup Cut) \in Nat
        BY <2>4, IndexFacts
      <4> QED
        BY <4>1, SizeFacts
    <3>2. Cardinality(WantedOf(c, new)) \in Nat
      BY <2>4, IndexFacts
    <3>3. EndOf(cells'[destination]) = 1 /\ todo' = WantedOf(c, new)
      BY <2>1, <2>2, <2>4
    <3> QED
      BY <2>3, <3>1, <3>2, <3>3, SwapFitsTerms, SizeFacts
  <2>7. MarginInv'
    BY <1>1, <1>7, <2>1, <2>3 DEF MarginInv
  <2>8. AppendInv' /\ RetireInv' /\ ReturnInv'
    BY <1>7 DEF AppendInv, RetireInv, ReturnInv
  <2> QED
    BY <1>2, <1>7, <2>1, <2>5, <2>6, <2>7, <2>8, QuietFacts DEF Rest
<1> QED
  BY <1>5, <1>6, <1>7 DEF MarkCopy

\* The page that was filled comes into use beside the other one,
LEMMA ActivateStep ==
    ASSUME Basic, Rest, Activate
    PROVE  /\ Rest' /\ UNCHANGED cells
           /\ ~Orphaned =>
                  \/ Quiet
                  \/ /\ UNCHANGED new /\ FirstActive' \in {activePage, destination}
                     /\ \A j \in Indices :
                            ValueOf(cells[destination], j) = TargetOf(cells[activePage], new, j)
<1>1. /\ pc = "copy" /\ TypeOK /\ MarginInv /\ FlashType /\ new \in Puts
      /\ status[destination] = "COPY"
      /\ todo = {} /\ Copying(cells[source], cells[destination], new, todo)
  BY TypeParts DEF Activate, Basic, Rest, BlockInv, CopyInv, FreshInv
<1>2. /\ activePage \in Pages /\ (activePage = FirstActive \/ Orphaned)
      /\ destination \in Pages /\ destination # activePage
  BY <1>1, UsedFacts DEF InUse
<1>3. \A j \in Indices : ValueOf(cells[destination], j) = TargetOf(cells[activePage], new, j)
  BY <1>1, CopyEnds DEF source
<1>4. StatusFailed(destination) \/ StatusCut(destination) =>
          (FirstActive = activePage => FirstActive' = FirstActive) /\ UNCHANGED cells
  <2>1. StatusFailed(destination) \/ StatusCut(destination) => UNCHANGED cells
    BY DEF WriteStatus, StatusFailed, StatusCut
  <2> QED
    BY <1>1, <1>2, <2>1, OtherStays
<1>5. CASE StatusCut(destination)
  <2>1. pc' = "boot" /\ new' = NoBlock
    BY <1>5 DEF StatusCut, Boot
  <2> QED
    BY <1>2, <1>4, <1>5, <2>1, RestPlain, QuietFacts
<1>6. CASE StatusFailed(destination)
  <2>1. "header" \in marginal[destination]
    BY <1>1, <1>6 DEF StatusFailed
  <2>2. pc' = "swap" /\ UNCHANGED new
    BY <1>1, <1>6, <2>1 DEF StatusFailed, Failed, MarginInv, TypeOK
  <2> QED
    BY <1>2, <1>4, <1>6, <2>2, RestPlain, QuietFacts
<1>7. CASE /\ WriteStatus(destination, "ACTIVE") /\ pc' = "retire"
           /\ UNCHANGED <<activePage, new, todo, tries>>
  <2>1. UNCHANGED <<source, destination, cells>>
    BY <1>7 DEF source, destination, WriteStatus
  <2>2. RetireInv'
    BY <1>3, <1>7, <2>1 DEF RetireInv, source
  <2>3. MarginInv' /\ FreshInv' /\ AppendInv' /\ CopyInv' /\ ReturnInv' /\ SwapFits'
    BY <1>7 DEF MarginInv, FreshInv, AppendInv, CopyInv, ReturnInv, SwapFits
  <2>4. FirstActive' \in {activePage, destination}
    <3>1. status'[destination] = "ACTIVE"
      BY <1>1, <1>2, <1>7 DEF FlashType, WriteStatus
    <3>2. FirstOf(status') \in Pages
      BY <1>2, <3>1, FirstFacts
    <3> QED
      BY <1>2, <3>2, OtherFacts, PageTerms DEF destination
  <2> QED
    BY <1>3, <1>7, <2>1, <2>2, <2>3, <2>4 DEF Rest
<1> QED
  BY <1>5, <1>6, <1>7 DEF Activate

\* and the other one goes out of use, or stays because it cannot be marked.
LEMMA RetireStep ==
    ASSUME Basic, Rest, Retire
    PROVE  /\ Rest' /\ UNCHANGED cells /\ (UNCHANGED new \/ new' = NoBlock) /\ new \in Puts
           /\ ~Orphaned => /\ FirstActive \in {activePage, destination}
                           /\ FirstActive' \in {FirstActive, destination}
           /\ \A j \in Indices :
                  ValueOf(cells[destination], j) = TargetOf(cells[activePage], new, j)
<1>1. /\ pc = "retire" /\ TypeOK /\ FlashType /\ new \in Puts /\ activePage \in Pages
      /\ status[destination] = "ACTIVE" /\ status[activePage] \in {"ACTIVE", "garbage"}
  BY TypeParts DEF Retire, Basic, Rest, BlockInv, RamInv
<1>2. /\ destination \in Pages /\ destination # activePage /\ Other(destination) = activePage
      /\ \A p \in Pages : p \in {activePage, destination}
  BY <1>1, OtherFacts DEF destination
<1>3. \A j \in Indices : ValueOf(cells[destination], j) = TargetOf(cells[activePage], new, j)
  BY <1>1 DEF Rest, RetireInv, source
<1>4. FirstActive \in {activePage, destination}
  <2>1. FirstOf(status) \in Pages
    BY <1>1, <1>2, FirstFacts
  <2> QED
    BY <1>2, <2>1, PageTerms
<1>5. ASSUME NEW s, s # "ACTIVE", WriteStatus(activePage, s)
      PROVE  FirstActive' = destination /\ UNCHANGED cells /\ status'[activePage] = s
  <2>1. /\ status'[destination] = "ACTIVE" /\ status'[activePage] = s /\ status'[activePage] # "ACTIVE"
        /\ UNCHANGED cells
    BY <1>1, <1>2, <1>5 DEF WriteStatus, FlashType
  <2>2. FirstOf(status') = destination
    BY <1>2, <2>1, FirstAlone
  <2> QED
    BY <2>1, <2>2, PageTerms
<1>6. Holds(cells[destination], new)
  <2>1. DOMAIN new \subseteq Indices
    BY <1>1, PutFacts
  <2> QED
    BY <1>3, <2>1 DEF Holds, TargetOf
<1>7. CASE StatusCut(source)
  <2>1. UNCHANGED cells /\ pc' = "boot" /\ new' = NoBlock
    BY <1>7 DEF StatusCut, Boot
  <2>2. FirstActive' \in {FirstActive, destination}
    <3>1. PICK s \in {status[activePage], "garbage"} : status' = [status EXCEPT ![activePage] = s]
      BY <1>7 DEF StatusCut, source
    <3>2. CASE s = status[activePage]
      <4>1. status' = status
        BY <1>1, <3>1, <3>2 DEF FlashType
      <4> QED
        BY <4>1, PageTerms
    <3>3. CASE s = "garbage"
      <4>1. status'[destination] = "ACTIVE" /\ status'[activePage] # "ACTIVE"
        BY <1>1, <1>2, <3>1, <3>3 DEF FlashType
      <4> QED
        BY <1>2, <4>1, FirstAlone, PageTerms
    <3> QED
      BY <3>1, <3>2, <3>3
  <2> QED
    BY <1>1, <1>3, <1>4, <2>1, <2>2, RestPlain
<1>8. CASE StatusFailed(source)
  <2>1. /\ FirstActive' = destination /\ UNCHANGED cells /\ status'[activePage] = "garbage"
        /\ UNCHANGED <<activePage, new>> /\ pc' \in {"swap", "return"}
    BY <1>5, <1>8 DEF StatusFailed, Failed, source
  <2>2. ReturnInv'
    BY <1>6, <2>1 DEF ReturnInv, Holds, destination
  <2>3. MarginInv' /\ FreshInv' /\ AppendInv' /\ CopyInv' /\ RetireInv' /\ SwapFits'
    BY <2>1 DEF MarginInv, FreshInv, AppendInv, CopyInv, RetireInv, SwapFits
  <2> QED
    BY <1>1, <1>3, <1>4, <2>1, <2>2, <2>3 DEF Rest
<1>9. CASE /\ WriteStatus(source, "INACTIVE") /\ activePage' = destination
           /\ pc' = "return" /\ UNCHANGED <<new, todo, tries>>
  <2>1. FirstActive' = destination /\ UNCHANGED cells
    BY <1>5, <1>9 DEF source
  <2>2. ReturnInv'
    BY <1>6, <1>9, <2>1 DEF ReturnInv, Holds
  <2>3. MarginInv' /\ FreshInv' /\ AppendInv' /\ CopyInv' /\ RetireInv' /\ SwapFits'
    BY <1>9 DEF MarginInv, FreshInv, AppendInv, CopyInv, RetireInv, SwapFits
  <2> QED
    BY <1>1, <1>3, <1>4, <1>9, <2>1, <2>2, <2>3 DEF Rest
<1> QED
  BY <1>7, <1>8, <1>9 DEF Retire

\* A put begins by appending, where its records fit, and else by a swap.
LEMMA PutStep ==
    ASSUME Basic, Rest, Put
    PROVE  Rest' /\ FirstActive' = FirstActive /\ UNCHANGED cells
<1> DEFINE c == cells[activePage]
<1>1. pc = "idle" /\ TypeOK /\ UNCHANGED <<flash, activePage>>
  BY DEF Put, Basic
<1>2. activePage \in Pages /\ c \in PageCells
  BY <1>1, UsedFacts DEF InUse
<1>3. FirstActive' = FirstActive /\ UNCHANGED cells
  BY <1>1, PageTerms DEF flash
<1>4. /\ pc' \in {"swap", "return", "append"}
      /\ pc' = "return" => \A i \in DOMAIN new' : Value(activePage, i) = new'[i]
      /\ pc' = "append" =>
             /\ todo' = {i \in DOMAIN new' : Value(activePage, i) # new'[i]} /\ todo' # {}
             /\ Room(activePage, Cardinality(todo')) /\ ~HasInvalidRecords(activePage)
  BY DEF Put
<1>5. pc' = "return" => ReturnInv'
  BY <1>1, <1>3, <1>4, PageTerms DEF ReturnInv, Holds
<1>6. pc' = "append" => AppendInv'
  <2> SUFFICES ASSUME pc' = "append"
               PROVE  Appending(c, new', todo')
    BY <1>1, <1>3 DEF AppendInv
  <2> DEFINE first == EndOf(c)
             k == Cardinality(todo')
  <2>1. todo' = ChangedOf(c, new') /\ todo' # {}
    BY <1>4, PageTerms DEF ChangedOf
  <2>2. /\ first + k - 1 <= S /\ (first + k <= S => c[first + k] = Empty)
        /\ ~ (first <= S /\ c[first] = Invalid)
    BY <1>4, PageTerms DEF Room, HasInvalidRecords
  <2>3. k \in Nat \ {0} /\ first \in 1 .. S + 1 /\ S \in Nat
    <3>1. todo' \in SUBSET (Indices \cup Cut)
      <4>1. TypeOK'
        BY BasicStep DEF Next, Basic
      <4> QED
        BY <4>1 DEF TypeOK
    <3> QED
      BY <2>1, <3>1, IndexFacts, EndFacts, SizeFacts
  <2> HIDE DEF k
  <2>4. first <= S
    BY <2>2, <2>3
  <2>5. c[first] = Empty
    <3>1. c[first] \in Cell /\ c[first].kind # "valid"
      BY <1>2, <2>3, <2>4, EndFacts DEF PageCells
    <3> QED
      BY <2>2, <2>4, <3>1, RecordFacts
  <2>6. (first + k - 1) + 1 = first + k
    BY <2>3
  <2>7. \A n \in first + k .. first + k - 1 : FALSE
    BY <2>3
  <2> HIDE DEF first, c
  <2> QED
    BY <2>1, <2>2, <2>5, <2>6, <2>7 DEF Appending, k, first
<1>7. MarginInv' /\ FreshInv' /\ CopyInv' /\ RetireInv' /\ SwapFits'
  BY <1>3, <1>4 DEF MarginInv, FreshInv, CopyInv, RetireInv, SwapFits
<1>8. (pc' # "append" => AppendInv') /\ (pc' # "return" => ReturnInv')
  BY DEF AppendInv, ReturnInv
<1> QED
  BY <1>3, <1>5, <1>6, <1>7, <1>8 DEF Rest

\* init and clear: all bytes are blank, before and after each of their steps.
LEMMA WipeStep ==
    ASSUME Basic, Rest, NEW page \in Pages, FirstActive = "NoPage",
           EraseCut(page) \/ (Erase(page) /\ UNCHANGED <<activePage, new, todo, tries>>)
    PROVE  /\ FirstActive' = "NoPage" /\ (UNCHANGED new \/ new' = NoBlock)
           /\ EraseCut(page) => pc' = "boot"
           /\ \A p \in Pages : p # page => cells'[p] = cells[p]
           /\ Erase(page) => \A n \in 1 .. S : cells'[page][n] = Empty
<1>1. TypeOK /\ FlashType /\ page # FirstActive
  BY TypeParts, OtherFacts DEF Basic
<1>2. FirstActive' = "NoPage"
  BY <1>1, OtherStays
<1>3. (EraseCut(page) => pc' = "boot") /\ (UNCHANGED new \/ new' = NoBlock)
  BY DEF EraseCut, Boot
<1>4. \A p \in Pages : p # page => cells'[p] = cells[p]
  BY <1>1 DEF Erase, EraseCut, FlashType
<1>5. Erase(page) => \A n \in 1 .. S : cells'[page][n] = Empty
  BY <1>1 DEF Erase, FlashType
<1> QED
  BY <1>2, <1>3, <1>4, <1>5

LEMMA ClearStep ==
    ASSUME Basic, Rest, Clear
    PROVE  /\ Rest' /\ (UNCHANGED new \/ new' = NoBlock)
           /\ FirstActive = "NoPage"
           /\ \/ FirstActive' = "NoPage"
              \/ FirstActive' \in Pages /\ \A n \in 1 .. S : cells'[FirstActive'][n] = Empty
<1>1. /\ TypeOK /\ FlashType /\ FreshInv /\ "Page1" \in Pages /\ "Page2" \in Pages
      /\ "Page1" # "Page2"
  BY TypeParts, OtherFacts DEF Basic, Rest
<1>2. pc \in {"wipe1", "wipe2", "format"} /\ FirstActive = "NoPage"
  BY DEF Clear, Wipe, Format, Basic, RamInv
<1>3. ASSUME pc' \in {"wipe2", "format"}, \A n \in 1 .. S : cells'["Page1"][n] = Empty
      PROVE  Rest'
  BY <1>3 DEF Rest, MarginInv, FreshInv, AppendInv, CopyInv, RetireInv, ReturnInv, SwapFits
<1>4. CASE Wipe("Page1", "wipe1", "wipe2")
  <2>1. \/ EraseCut("Page1")
        \/ Erase("Page1") /\ pc' = "wipe2" /\ UNCHANGED <<activePage, new, todo, tries>>
    BY <1>4 DEF Wipe
  <2>2. /\ FirstActive' = "NoPage" /\ (UNCHANGED new \/ new' = NoBlock)
        /\ EraseCut("Page1") => pc' = "boot"
        /\ Erase("Page1") => \A n \in 1 .. S : cells'["Page1"][n] = Empty
    BY <1>1, <1>2, <2>1, WipeStep
  <2>3. Rest'
    BY <1>3, <2>1, <2>2, RestPlain
  <2> QED
    BY <1>2, <2>2, <2>3
<1>5. CASE Wipe("Page2", "wipe2", "format")
  <2>1. \/ EraseCut("Page2")
        \/ Erase("Page2") /\ pc' = "format" /\ UNCHANGED <<activePage, new, todo, tries>>
    BY <1>5 DEF Wipe
  <2>2. /\ FirstActive' = "NoPage" /\ (UNCHANGED new \/ new' = NoBlock)
        /\ EraseCut("Page2") => pc' = "boot"
        /\ cells'["Page1"] = cells["Page1"]
    BY <1>1, <1>2, <2>1, WipeStep
  <2>3. \A n \in 1 .. S : cells["Page1"][n] = Empty
    BY <1>1, <1>5 DEF Wipe, FreshInv
  <2>4. Rest'
    BY <1>3, <2>1, <2>2, <2>3, RestPlain
  <2> QED
    BY <1>2, <2>2, <2>4
<1>6. CASE Format
  <2>1. \A n \in 1 .. S : cells["Page1"][n] = Empty
    BY <1>1, <1>6 DEF Format, FreshInv
  <2>2. CASE StatusCut("Page1")
    <3>1. /\ FirstActive' = "NoPage" /\ pc' = "boot" /\ new' = NoBlock
      BY <1>1, <1>2, <2>2, OtherStays, OtherFacts DEF StatusCut, Boot
    <3> QED
      BY <1>2, <3>1, RestPlain
  <2>3. CASE /\ WriteStatus("Page1", "ACTIVE") /\ pc' = "idle" /\ UNCHANGED <<new, todo, tries>>
    <3>1. status'["Page1"] = "ACTIVE" /\ UNCHANGED cells
      BY <1>1, <2>3 DEF WriteStatus, FlashType
    <3>2. FirstActive' = "Page1"
      BY <3>1, FirstFacts, PageTerms
    <3> QED
      BY <1>1, <1>2, <2>1, <2>3, <3>1, <3>2, RestPlain
  <2> QED
    BY <1>6, <2>2, <2>3 DEF Format
<1> QED
  BY <1>4, <1>5, <1>6 DEF Clear

\* performPendingErase
LEMMA PendingEraseStep ==
    ASSUME Basic, Rest, PerformPendingErase
    PROVE  Rest' /\ (~Orphaned => Quiet)
<1>1. pc = "idle" /\ TypeOK /\ FlashType
  BY TypeParts DEF PerformPendingErase, Basic
<1>2. /\ activePage \in Pages /\ (activePage = FirstActive \/ Orphaned)
      /\ destination \in Pages /\ destination # activePage /\ destination = Other(activePage)
  BY <1>1, UsedFacts DEF InUse
<1>3. \/ Erase(destination) /\ UNCHANGED ram
      \/ EraseCut(destination)
  BY <1>2 DEF PerformPendingErase
<1>4. FirstActive = activePage => FirstActive' = FirstActive
  BY <1>1, <1>2, <1>3, OtherStays
<1>5. cells'[activePage] = cells[activePage]
  BY <1>1, <1>2, <1>3 DEF Erase, EraseCut, FlashType
<1>6. pc' \in {"idle", "boot"} /\ (UNCHANGED new \/ new' = NoBlock)
  BY <1>1, <1>3 DEF ram, EraseCut, Boot
<1> QED
  BY <1>2, <1>4, <1>5, <1>6, RestPlain, QuietFacts

\* The invariant is inductive.
LEMMA RestStep ==
    ASSUME Cardinality(Indices \cup Cut) <= S, Basic, Rest, [Next]_vars
    PROVE  Rest'
<1>1. CASE UNCHANGED vars
  <2>1. /\ UNCHANGED <<status, cells, marginal, activePage, pc, new, todo, tries>>
        /\ UNCHANGED <<source, destination, FirstActive>>
    BY <1>1, PageTerms DEF vars, flash, ram, source, destination
  <2>2. MarginInv' /\ FreshInv'
    BY <2>1 DEF Rest, MarginInv, FreshInv
  <2>3. AppendInv' /\ CopyInv' /\ RetireInv' /\ ReturnInv'
    BY <2>1 DEF Rest, AppendInv, CopyInv, RetireInv, ReturnInv
  <2>4. SwapFits'
    BY <2>1, SwapFitsTerms DEF Rest
  <2> QED
    BY <2>2, <2>3, <2>4 DEF Rest
<1>2. CASE Start \/ Return \/ Reset
  <2>1. pc' \in {"boot", "wipe1", "idle"}
    BY <1>2 DEF Start, Return, Reset, Boot
  <2> QED
    BY <2>1, RestPlain
<1>3. CASE Clear
  BY <1>3, ClearStep
<1>4. CASE Append
  BY <1>4, AppendStep
<1>5. CASE Swap
  <2>1. EraseDestination => Rest'
    BY EraseStep
  <2>2. MarkCopy => Rest'
    BY MarkStep
  <2>3. CopyNext => Rest'
    BY CopyStep
  <2>4. Activate => Rest'
    BY ActivateStep
  <2>5. Retire => Rest'
    BY RetireStep
  <2> QED
    BY <1>5, <2>1, <2>2, <2>3, <2>4, <2>5 DEF Swap
<1>6. CASE Put
  BY <1>6, PutStep
<1>7. CASE PerformPendingErase
  BY <1>7, PendingEraseStep
<1> QED
  BY <1>1, <1>2, <1>3, <1>4, <1>5, <1>6, <1>7 DEF Next, Program

LEMMA InvInit == Init => Basic /\ Rest
<1> SUFFICES ASSUME Init
             PROVE  Basic /\ Rest
  OBVIOUS
<1>1. /\ status \in [Pages -> Status] /\ marginal \in [Pages -> SUBSET Parts]
  BY DEF Init, Status
<1>2. cells \in [Pages -> PageCells]
  <2>1. [n \in 1 .. S |-> Empty] \in PageCells /\ [n \in 1 .. S |-> Invalid] \in PageCells
    BY RecordFacts DEF PageCells
  <2> QED
    BY <2>1 DEF Init
<1>3. TypeOK
  <2>1. pc = "boot" /\ activePage = "NoPage" /\ new = NoBlock /\ todo = {} /\ tries = 0
    BY DEF Init
  <2>2. RamType
    BY <2>1 DEF RamType
  <2> QED
    BY <1>1, <1>2, <2>2, TypeParts DEF FlashType
<1>4. RamInv /\ BlockInv
  BY DEF Init, RamInv, BlockInv
<1>5. Rest
  BY DEF Init, Rest, MarginInv, FreshInv, AppendInv, CopyInv, RetireInv, ReturnInv, SwapFits
<1> QED
  BY <1>3, <1>4, <1>5 DEF Basic

\* The indices fit in a page: in one of four records and more also those that
\* only a record that was cut off can show.
LEMMA IndicesFit ==
    ASSUME Cut = {} \/ S >= 4
    PROVE  Cardinality(Indices \cup Cut) <= S
<1>1. S \in Nat /\ S > 1 /\ capacity \in Nat /\ capacity <= S /\ (S >= 4 => capacity + 2 <= S)
  BY SAssumption DEF capacity
<1> DEFINE top == IF Cut = {} THEN capacity - 1 ELSE capacity + 1
<1>2. top \in Int /\ 0 \in Int /\ top + 1 <= S /\ top >= -1
  BY <1>1
<1> HIDE DEF top
<1>3. IsFiniteSet(0 .. top) /\ Cardinality(0 .. top) <= S
  <2>1. IsFiniteSet(0 .. top) /\ Cardinality(0 .. top) = IF 0 > top THEN 0 ELSE top - 0 + 1
    BY <1>2, FS_Interval
  <2> QED
    BY <1>1, <1>2, <2>1
<1>4. Indices \cup Cut \subseteq 0 .. top
  BY <1>1, CutAssumption DEF Indices, Stray, LastBatch, top
<1>5. /\ Cardinality(Indices \cup Cut) <= Cardinality(0 .. top)
      /\ Cardinality(0 .. top) \in Nat /\ Cardinality(Indices \cup Cut) \in Nat
  BY <1>3, <1>4, FS_Subset, FS_CardinalityType
<1> QED
  BY <1>1, <1>3, <1>5

-----------------------------------------------------------------------------
(* What holds in every reachable state.                                      *)

LEMMA BasicHolds == Spec => []Basic
<1>1. Init => Basic
  BY InvInit
<1>2. Basic /\ [Next]_vars => Basic'
  BY BasicStep
<1> QED
  BY <1>1, <1>2, PTL DEF Spec

\* The types of the flash and of what the program remembers, for pages and
\* data of any size and whatever a cut record shows.
THEOREM TypeCorrect == Spec => []TypeOK
<1>1. Basic => TypeOK
  BY DEF Basic
<1> QED
  BY <1>1, BasicHolds, PTL

\* Between two puts the page that the program reads is the one that the next
\* boot would choose, whatever resets have struck, whichever writes failed and
\* whatever a cut record shows: a put that has returned is not undone by a
\* reset.  The only exception is an old page whose mark did not read back.
THEOREM BootsAgree == Spec => []RamAgrees
<1>1. Basic => RamAgrees
  BY OtherFacts DEF Basic, RamInv, RamAgrees
<1> QED
  BY <1>1, BasicHolds, PTL

\* The invariant holds in every state of every execution, if the indices fit
\* in a page.
THEOREM InvHolds ==
    ASSUME Cut = {} \/ S >= 4
    PROVE  Spec => []Inv
<1>1. Init => Inv
  BY InvInit DEF Inv, Rest
<1>2. Inv /\ [Next]_vars => Inv'
  <2>1. Inv <=> Basic /\ Rest
    BY DEF Inv, Rest
  <2>2. Inv' <=> Basic' /\ Rest'
    BY DEF Inv, Rest
  <2> QED
    BY <2>1, <2>2, IndicesFit, BasicStep, RestStep
<1> QED
  BY <1>1, <1>2, PTL DEF Spec

\* A swap never runs out of room.
THEOREM SwapsFit ==
    ASSUME Cut = {} \/ S >= 4
    PROVE  Spec => []SwapFits
<1>1. Inv => SwapFits
  BY DEF Inv
<1> QED
  BY <1>1, InvHolds, PTL

\* When put returns, the bytes of its block are read back from the page in
\* use, whether they were appended or written by a swap; or, when the mark of
\* the old page did not read back in either try, from the page that the next
\* boot chooses.
IsRead(page) == \A i \in DOMAIN new : Value(page, i) = new[i]
PutIsRead ==
    pc = "return" => \/ IsRead(activePage)
                     \/ /\ status[activePage] = "garbage" /\ FirstActive = Other(activePage)
                        /\ IsRead(FirstActive)
THEOREM PutsAreRead ==
    ASSUME Cut = {} \/ S >= 4
    PROVE  Spec => []PutIsRead
<1>1. \A p : Holds(cells[p], new) <=> IsRead(p)
  BY PageTerms DEF Holds, IsRead
<1>2. Inv => PutIsRead
  BY <1>1 DEF Inv, ReturnInv, PutIsRead
<1> QED
  BY <1>2, InvHolds, PTL

-----------------------------------------------------------------------------
(* The refinement, where a record that is cut off is invalid.                *)

\* What the program reads, and the put under way.
mem == [i \in Indices |-> IF FirstActive = "NoPage" THEN FLASH_ERASED ELSE Value(FirstActive, i)]
pending == IF new = NoBlock THEN {} ELSE {new}

LEMMA MemTerms ==
    /\ mem = [i \in Indices |-> IF FirstActive = "NoPage" THEN FLASH_ERASED
                                 ELSE ValueOf(cells[FirstActive], i)]
    /\ mem' = [i \in Indices |-> IF FirstActive' = "NoPage" THEN FLASH_ERASED
                                  ELSE ValueOf(cells'[FirstActive'], i)]
BY DEF mem, Value, ValueOf, Hits, End, EndOf

\* Reading what was read before is a step of the memory only if the block is
\* dropped,
LEMMA SilentStep ==
    ASSUME UNCHANGED mem, UNCHANGED new \/ new' = NoBlock
    PROVE  Memory!MemNext \/ UNCHANGED <<mem, pending>>
<1>1. CASE UNCHANGED new
  BY <1>1 DEF pending
<1>2. CASE new' = NoBlock
  <2>1. pending' = {}
    BY <1>2 DEF pending
  <2>2. Memory!Reset
    BY <2>1 DEF Memory!Reset, mem, pending
  <2> QED
    BY <2>2 DEF Memory!MemNext
<1> QED
  BY <1>1, <1>2

\* and when the whole block is read it has taken effect, if only by a reset.
LEMMA TakeStep ==
    ASSUME new \in Puts, mem' = Memory!With(new), UNCHANGED new \/ new' = NoBlock
    PROVE  Memory!MemNext
<1>1. pending = {new}
  BY PutFacts DEF pending
<1>2. CASE UNCHANGED new
  <2>1. pending' = pending
    BY <1>2 DEF pending
  <2>2. Memory!Take(new)
    BY <1>1, <2>1 DEF Memory!Take, mem, pending
  <2> QED
    BY <2>2 DEF Memory!MemNext
<1>3. CASE new' = NoBlock
  <2>1. pending' = {}
    BY <1>3 DEF pending
  <2>2. Memory!Reset
    BY <1>1, <2>1 DEF Memory!Reset, mem, pending
  <2> QED
    BY <2>2 DEF Memory!MemNext
<1> QED
  BY <1>2, <1>3

LEMMA QuietStep ==
    ASSUME Quiet
    PROVE  Memory!MemNext \/ UNCHANGED <<mem, pending>>
<1>1. FirstActive \in Pages \cup {"NoPage"}
  BY FirstFacts, PageTerms
<1>2. mem' = mem
  BY <1>1, MemTerms DEF Quiet
<1> QED
  BY <1>2, SilentStep DEF Quiet

\* Reading from a page whose values are those of the block and else those of
\* the page that was read.
LEMMA BlockStep ==
    ASSUME new \in Puts, FirstActive \in Pages, FirstActive' \in Pages,
           \A j \in Indices :
               ValueOf(cells'[FirstActive'], j) = TargetOf(cells[FirstActive], new, j),
           UNCHANGED new \/ new' = NoBlock
    PROVE  Memory!MemNext
<1>1. FirstActive # "NoPage" /\ FirstActive' # "NoPage"
  BY OtherFacts
<1>2. Memory!With(new) = [i \in Indices |-> IF i \in DOMAIN new THEN new[i] ELSE mem[i]]
  BY DEF Memory!With, mem
<1>3. \A i \in Indices : mem[i] = ValueOf(cells[FirstActive], i)
  BY <1>1, MemTerms
<1>4. mem' = [i \in Indices |-> TargetOf(cells[FirstActive], new, i)]
  BY <1>1, MemTerms
<1>5. mem' = Memory!With(new)
  BY <1>2, <1>3, <1>4 DEF TargetOf
<1> QED
  BY <1>5, TakeStep

\* Each step, while the page in use is marked active.
LEMMA MemStep ==
    ASSUME Cut = {}, Inv, Inv', ~Orphaned, [Next]_vars
    PROVE  Memory!MemNext \/ UNCHANGED <<mem, pending>>
<1>1. /\ Basic /\ Rest /\ RamInv /\ BlockInv /\ TypeOK /\ ReturnInv
      /\ Basic' /\ BlockInv' /\ TypeOK'
  BY DEF Inv, Rest, Basic
<1>2. FirstActive \in Pages \cup {"NoPage"} /\ FirstActive' \in Pages \cup {"NoPage"}
      /\ "NoPage" \notin Pages
  BY FirstFacts, OtherFacts, PageTerms
<1>3. UNCHANGED flash => UNCHANGED mem
  <2>1. UNCHANGED flash => UNCHANGED <<cells, FirstActive>>
    BY PageTerms DEF flash
  <2> QED
    BY <2>1, MemTerms
<1>4. CASE Start \/ Reset \/ UNCHANGED vars
  <2>1. UNCHANGED flash /\ (UNCHANGED new \/ new' = NoBlock)
    BY <1>4 DEF Start, Reset, Boot, vars, ram
  <2> QED
    BY <1>3, <2>1, SilentStep
<1>5. CASE Clear
  <2>1. /\ UNCHANGED new \/ new' = NoBlock
        /\ FirstActive = "NoPage"
        /\ \/ FirstActive' = "NoPage"
           \/ FirstActive' \in Pages /\ \A n \in 1 .. S : cells'[FirstActive'][n] = Empty
    BY <1>1, <1>5, ClearStep
  <2>2. FirstActive' \in Pages => \A i : ValueOf(cells'[FirstActive'], i) = FLASH_ERASED
    BY <1>2, <2>1, BlankFacts
  <2>3. UNCHANGED mem
    BY <1>2, <2>1, <2>2, MemTerms
  <2> QED
    BY <2>1, <2>3, SilentStep
<1>6. CASE Append
  <2>1. activePage = FirstActive /\ FirstActive' = FirstActive /\ FirstActive \in Pages /\ new \in Puts
    <3>1. pc = "append" /\ new \in Puts
      BY <1>1, <1>6 DEF Append, BlockInv
    <3> QED
      BY <1>1, <1>6, <3>1, AppendStep, UsedFacts DEF InUse
  <2>2. \/ /\ UNCHANGED new
           /\ \/ \A j : ValueOf(cells'[activePage], j) = ValueOf(cells[activePage], j)
              \/ \A j : ValueOf(cells'[activePage], j) = TargetOf(cells[activePage], new, j)
        \/ /\ new' = NoBlock
           /\ \A j : ValueOf(cells'[activePage], j) = ValueOf(cells[activePage], j)
    BY <1>1, <1>6, AppendStep
  <2>3. CASE \A j : ValueOf(cells'[activePage], j) = ValueOf(cells[activePage], j)
    <3>1. UNCHANGED mem
      BY <1>2, <2>1, <2>3, MemTerms
    <3> QED
      BY <2>2, <3>1, SilentStep
  <2>4. CASE UNCHANGED new /\ \A j : ValueOf(cells'[activePage], j) = TargetOf(cells[activePage], new, j)
    BY <2>1, <2>4, BlockStep
  <2> QED
    BY <2>2, <2>3, <2>4
<1>7. CASE Return
  <2>1. /\ pc = "return" /\ new \in Puts /\ activePage = FirstActive /\ FirstActive \in Pages
        /\ UNCHANGED flash /\ new' = NoBlock
    <3>1. pc = "return" /\ new \in Puts /\ UNCHANGED flash /\ new' = NoBlock
      BY <1>1, <1>7 DEF Return, BlockInv
    <3> QED
      BY <1>1, <3>1, UsedFacts DEF InUse
  <2>2. mem = [i \in Indices |-> ValueOf(cells[activePage], i)]
    BY <1>2, <2>1, MemTerms
  <2>3. \A i \in DOMAIN new : ValueOf(cells[activePage], i) = new[i]
    <3>1. status[activePage] # "garbage"
      BY <2>1, OtherFacts DEF Orphaned
    <3> QED
      BY <1>1, <2>1, <3>1 DEF ReturnInv, Holds
  <2>4. mem = Memory!With(new)
    BY <2>2, <2>3 DEF Memory!With, mem
  <2>5. pending = {new} /\ pending' = {}
    BY <2>1, PutFacts DEF pending
  <2>6. Memory!Return(new)
    BY <1>3, <2>1, <2>4, <2>5 DEF Memory!Return, mem, pending
  <2> QED
    BY <2>1, <2>6 DEF Memory!MemNext
<1>8. CASE EraseDestination \/ CopyNext \/ PerformPendingErase
  BY <1>1, <1>8, EraseStep, CopyStep, PendingEraseStep, QuietStep
<1>9. CASE MarkCopy
  BY <1>1, <1>9, IndicesFit, MarkStep, QuietStep
<1>10. CASE Activate
  <2>1. pc = "copy" /\ activePage = FirstActive /\ FirstActive \in Pages /\ new \in Puts
        /\ destination \in Pages
    <3>1. pc = "copy" /\ new \in Puts
      BY <1>1, <1>10 DEF Activate, BlockInv
    <3> QED
      BY <1>1, <3>1, UsedFacts DEF InUse
  <2>2. /\ UNCHANGED cells
        /\ \/ Quiet
           \/ /\ UNCHANGED new /\ FirstActive' \in {activePage, destination}
              /\ \A j \in Indices :
                     ValueOf(cells[destination], j) = TargetOf(cells[activePage], new, j)
    BY <1>1, <1>10, ActivateStep
  <2>3. CASE ~Quiet /\ FirstActive' = destination
    <3>1. /\ UNCHANGED new /\ FirstActive' \in Pages
          /\ \A j \in Indices :
                 ValueOf(cells'[FirstActive'], j) = TargetOf(cells[FirstActive], new, j)
      BY <2>1, <2>2, <2>3
    <3> QED
      BY <2>1, <3>1, BlockStep
  <2>4. CASE ~Quiet /\ FirstActive' = activePage
    <3>1. UNCHANGED mem /\ UNCHANGED new
      BY <2>1, <2>2, <2>4, MemTerms
    <3> QED
      BY <3>1, SilentStep
  <2> QED
    BY <2>2, <2>3, <2>4, QuietStep
<1>11. CASE Retire
  <2>1. activePage \in Pages /\ destination \in Pages
    BY <1>1, <1>11, OtherFacts DEF Retire, RamInv, destination
  <2>2. /\ FirstActive' \in {FirstActive, destination}
        /\ UNCHANGED cells /\ (UNCHANGED new \/ new' = NoBlock)
        /\ FirstActive \in {activePage, destination} /\ new \in Puts
        /\ \A j \in Indices :
               ValueOf(cells[destination], j) = TargetOf(cells[activePage], new, j)
    BY <1>1, <1>11, RetireStep
  <2>3. CASE FirstActive' = FirstActive
    <3>1. UNCHANGED mem
      BY <2>2, <2>3, MemTerms
    <3> QED
      BY <2>2, <3>1, SilentStep
  <2>4. CASE FirstActive' = destination /\ FirstActive = activePage
    <3>1. \A j \in Indices :
              ValueOf(cells'[FirstActive'], j) = TargetOf(cells[FirstActive], new, j)
      BY <2>2, <2>4
    <3> QED
      BY <2>1, <2>2, <2>4, <3>1, BlockStep
  <2> QED
    BY <2>2, <2>3, <2>4
<1>12. CASE Put
  <2>1. /\ pc = "idle" /\ pc' \in {"swap", "return", "append"} /\ UNCHANGED flash
    BY <1>12 DEF Put
  <2>2. new = NoBlock /\ new' \in Puts
    BY <1>1, <2>1 DEF BlockInv
  <2>3. pending = {} /\ pending' = {new'} /\ mem' = mem
    BY <1>3, <2>1, <2>2, PutFacts DEF pending
  <2>4. Memory!Begin(new')
    BY <2>3 DEF Memory!Begin, mem, pending
  <2> QED
    BY <2>2, <2>4 DEF Memory!MemNext
<1> QED
  BY <1>4, <1>5, <1>6, <1>7, <1>8, <1>9, <1>10, <1>11, <1>12 DEF Next, Program, Swap

\* A put of several bytes takes effect as a whole or not at all, whatever
\* resets strike, whichever writes fail and in whichever order the pages are
\* swapped: while the page in use is marked active the emulation implements
\* the memory of AtomicMemory, as long as no record of which bits are missing
\* is valid.  (With one that is, the run eeprom_torn shows a block of which a
\* part is read.)
THEOREM Implements ==
    ASSUME Cut = {}
    PROVE  Spec => ImplementsMemory
<1>1. Init => Memory!MemInit
  <2> SUFFICES ASSUME Init
               PROVE  Memory!MemInit
    OBVIOUS
  <2>1. FirstOf(status) = "NoPage"
    BY FirstFacts DEF Init
  <2>2. FirstActive = "NoPage" /\ new = NoBlock
    BY <2>1, PageTerms DEF Init
  <2> QED
    BY <2>2 DEF Memory!MemInit
<1>2. Inv /\ Inv' /\ [Next]_vars => [Orphaned \/ Memory!MemNext]_(Memory!memVars)
  BY MemStep DEF Memory!memVars, mem, pending
<1> QED
  BY <1>1, <1>2, InvHolds, PTL DEF Spec, ImplementsMemory
=============================================================================
