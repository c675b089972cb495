----------------------------- MODULE DcdProofs -----------------------------
(* Theorems about Dcd, for blocks of any length and any values. *)
EXTENDS Dcd, TLAPS

\* The block as it will be when the write has taken effect.
Result == [i \in Offsets |-> IF i \in DOMAIN new THEN new[i] ELSE data[current][i]]

Initializing == pc \in {"initErase", "initHeader"}
Preparing == pc \in {"erase", "before", "data", "after", "header"}
Finishing == pc \in {"invalidate", "return"}

\* Until the new sector is made valid the current one is what a boot would
\* choose, so nothing that is done to the other one shows.
CurrentInv ==
    /\ Initializing => ~isInitialized /\ (new = NoBlock \/ current = Sector_0)
    /\ pc = "initHeader" => data[Sector_0] = Blank
    /\ Preparing => isValid(current) /\ currentSector = current
    /\ pc = "invalidate" => isValid(current) /\ isValid(newSector)
    /\ pc = "return" => header[current] = "cleared" /\ isValid(newSector)
    /\ pc = "idle" <=> ~Initializing /\ new = NoBlock

\* What has been written to the new sector so far.
CopiedInv ==
    /\ pc = "before" => data[newSector] = Blank
    /\ pc = "data" =>
           data[newSector] = [i \in Offsets |-> IF i \in Before THEN data[current][i] ELSE Erased]
    /\ pc = "after" =>
           data[newSector] = [i \in Offsets |-> IF i \in Before THEN data[current][i]
                                                ELSE IF i \in DOMAIN new THEN new[i] ELSE Erased]
    /\ pc = "header" \/ Finishing => data[newSector] = Result

\* A pointer that was read is into the sector that is current for the first
\* write after it.
PointerInv ==
    /\ pointer # NoSector => isInitialized
    /\ pointer # NoSector /\ writes = 0 => pc = "idle" /\ pointer = currentSector
    /\ pointer # NoSector /\ writes = 1 => pc = "idle" \/ pointer = current
    /\ PointerHolds

Inv == TypeOK /\ CurrentInv /\ CopiedInv /\ PointerInv

-----------------------------------------------------------------------------
(* Sectors and blocks.                                                     *)

\* There are two sectors, and a write goes from one to the other.
LEMMA SectorFacts ==
    ASSUME current \in Sectors
    PROVE  /\ newSector \in Sectors /\ newSector # current
           /\ \A s \in Sectors : s = current \/ s = newSector
BY DEF newSector, alternateSectorTo, Sectors, Sector_0, Sector_1

\* A block holds data.
LEMMA BlockFacts ==
    ASSUME NEW block \in Asked
    PROVE  \A i \in DOMAIN block : block[i] \in Data
<1>1. PICK range \in Ranges : block \in [range -> Values]
  BY DEF Asked
<1> QED
  BY <1>1 DEF Data

\* Every offset is before, in or after a block.
LEMMA BlockIsRange ==
    ASSUME NEW block \in Asked, block # NoBlock, NEW i \in Offsets
    PROVE  \/ i \in DOMAIN block
           \/ \A j \in DOMAIN block : i < j
           \/ \A j \in DOMAIN block : i > j
<1>1. PICK range \in Ranges : block \in [range -> Values]
  BY DEF Asked
<1>2. PICK first \in 0 .. Length, last \in 0 .. Length : range = first .. last
  BY DEF Ranges
<1>3. i \in Int /\ first \in Int /\ last \in Int /\ DOMAIN block = first .. last
  BY <1>1, <1>2, LengthAssumption DEF Offsets
<1> QED
  BY <1>3

\* Only one block is empty.
LEMMA EmptyBlock ==
    ASSUME NEW block \in Asked, DOMAIN block = {}
    PROVE  block = NoBlock
<1>1. PICK range \in Ranges : block \in [range -> Values]
  BY DEF Asked
<1> QED
  BY <1>1 DEF NoBlock

\* No offset is both before and after a block.
LEMMA SplitFacts ==
    ASSUME NEW i \in Offsets, NEW j \in Offsets, i < j
    PROVE  ~ (i > j)
BY DEF Offsets

\* What blank and empty blocks are.
LEMMA BlankType == Blank \in [Offsets -> Data] /\ Erased \in Data /\ NoBlock \in Asked
<1>1. {} \in Ranges
  <2>1. {} = Length .. 0 /\ 0 \in 0 .. Length /\ Length \in 0 .. Length
    BY LengthAssumption
  <2> QED
    BY <2>1 DEF Ranges
<1>2. NoBlock \in [{} -> Values]
  BY DEF NoBlock
<1>3. NoBlock \in Asked
  BY <1>1, <1>2 DEF Asked
<1>4. Erased \in Data /\ Blank \in [Offsets -> Data]
  BY DEF Blank, Data, Erased
<1> QED
  BY <1>3, <1>4

\* The bytes of the parts of a write.
LEMMA WriteFacts ==
    ASSUME TypeOK, NEW sector \in Sectors, NEW offsets \in SUBSET Offsets, NEW source,
           \A i \in offsets : source[i] \in Data,
           Write(sector, offsets, source)
    PROVE  /\ data' \in [Sectors -> [Offsets -> Data]]
           /\ \A s \in Sectors : s # sector => data'[s] = data[s]
           /\ data'[sector] = [i \in Offsets |-> IF i \in offsets THEN Written(data[sector][i], source[i])
                                                ELSE data[sector][i]]
           /\ header' = header
<1>1. data \in [Sectors -> [Offsets -> Data]]
  BY DEF TypeOK
<1>2. \A i \in Offsets : data[sector][i] \in Data
  BY <1>1
<1>3. 0 \in Data
  BY DEF Data
<1>4. [i \in Offsets |-> IF i \in offsets THEN Written(data[sector][i], source[i])
                         ELSE data[sector][i]] \in [Offsets -> Data]
  BY <1>2, <1>3 DEF Written
<1> QED
  BY <1>1, <1>4 DEF Write

\* Setting a header leaves the other one and the bytes alone.
LEMMA HeaderFacts ==
    ASSUME TypeOK, NEW sector \in Sectors, NEW h \in Headers, SetHeader(sector, h)
    PROVE  /\ header' \in [Sectors -> Headers] /\ data' = data
           /\ header'[sector] = h
           /\ \A s \in Sectors : s # sector => header'[s] = header[s]
BY DEF TypeOK, SetHeader

\* Erasing a sector, or trying to, leaves the other one alone, and makes
\* nothing valid.
LEMMA EraseFacts ==
    ASSUME TypeOK, NEW sector \in Sectors, erase(sector) \/ EraseCut(sector)
    PROVE  /\ header' \in [Sectors -> Headers]
           /\ data' \in [Sectors -> [Offsets -> Data]]
           /\ \A s \in Sectors : s # sector => header'[s] = header[s] /\ data'[s] = data[s]
           /\ header'[sector] \in {header[sector], "erased", "other"}
           /\ erase(sector) => data'[sector] = Blank
<1>1. CASE erase(sector)
  <2>1. CASE requiresErase(sector)
    BY <1>1, <2>1, BlankType DEF erase, TypeOK, Headers
  <2>2. CASE ~requiresErase(sector)
    BY <1>1, <2>2, BlankType DEF erase, TypeOK, Headers, requiresErase, flash
  <2> QED
    BY <2>1, <2>2
<1>2. CASE EraseCut(sector) /\ ~erase(sector)
  BY <1>2 DEF EraseCut, TypeOK, Headers
<1> QED
  BY <1>1, <1>2

-----------------------------------------------------------------------------
(* Types.                                                                  *)

\* Every action keeps the types.
LEMMA TypeStep == TypeOK /\ [Next]_vars => TypeOK'
<1> SUFFICES ASSUME TypeOK, [Next]_vars PROVE TypeOK'
  OBVIOUS
<1> USE DEF TypeOK, flash, reader
<1>c. newSector \in Sectors /\ current \in Sectors /\ Sector_0 \in Sectors
  BY SectorFacts DEF Sectors, Sector_0
<1>h. {"erased", "other", "valid", "cleared"} \subseteq Headers
  BY DEF Headers
<1>n. NoBlock \in Asked /\ DOMAIN NoBlock \subseteq Offsets
  BY BlankType DEF NoBlock
<1>b. Broken => /\ current' \in Sectors /\ pc' = "idle" /\ new' \in Asked /\ DOMAIN new' \subseteq Offsets
                /\ pointer' \in Sectors \cup {NoSector} /\ seen' = seen /\ writes' = writes
  BY <1>n DEF Broken, Over
<1>1. CASE InitErase
  BY <1>1, <1>b, <1>c, EraseFacts DEF InitErase
<1>2. CASE InitHeader
  BY <1>2, <1>b, <1>c, <1>h, HeaderFacts DEF InitHeader
<1>3. CASE Read
  BY <1>3, <1>c DEF Read, currentSector, Sectors, Sector_1, Sector_0
<1>4. ASSUME NEW block \in Asked, Begin(block)
      PROVE  TypeOK'
  <2>1. DOMAIN block \subseteq Offsets
    <3>1. PICK range \in Ranges : block \in [range -> Values]
      BY DEF Asked
    <3>2. range \subseteq 0 .. Length /\ DOMAIN block = range
      BY <3>1 DEF Ranges
    <3>3. \A i \in range : i < Length
      BY <1>4, <3>2 DEF Begin, Fits
    <3> QED
      BY <3>2, <3>3, LengthAssumption DEF Offsets
  <2> QED
    BY <1>4, <2>1, <1>c DEF Begin, currentSector, Sectors, Sector_1, Sector_0
<1>5. CASE EraseNew
  BY <1>5, <1>b, <1>c, EraseFacts DEF EraseNew
<1>6. CASE CopyAll
  <2> DEFINE part(offsets, source) ==
               \E some \in SUBSET offsets : Write(newSector, some, source)
  <2>1. \A i \in Offsets : data[current][i] \in Data
    BY <1>c
  <2>2. \A i \in DOMAIN new : new[i] \in Data
    BY BlockFacts
  <2>3. ASSUME NEW some \in SUBSET Offsets,
               Write(newSector, some, data[current]) \/ (some \subseteq DOMAIN new /\ Write(newSector, some, new))
        PROVE  data' \in [Sectors -> [Offsets -> Data]] /\ header' = header
    BY <2>3, <2>1, <2>2, <1>c, WriteFacts
  <2>4. Before \subseteq Offsets /\ After \subseteq Offsets /\ DOMAIN new \subseteq Offsets
    BY DEF Before, After
  <2>5. data' \in [Sectors -> [Offsets -> Data]] /\ header' = header
    BY <1>6, <2>3, <2>4 DEF CopyAll, Copy
  <2> QED
    BY <1>6, <2>5, <1>b DEF CopyAll, Copy
<1>7. CASE MakeValid
  BY <1>7, <1>b, <1>c, <1>h, HeaderFacts DEF MakeValid
<1>8. CASE MakeInvalid
  BY <1>8, <1>b, <1>c, <1>h, HeaderFacts DEF MakeInvalid
<1>9. CASE Return
  BY <1>9, <1>n DEF Return, Over
<1>10. CASE Reset
  BY <1>10, <1>b DEF Reset
<1>11. CASE UNCHANGED vars
  BY <1>11 DEF vars
<1> QED
  BY <1>1, <1>2, <1>3, <1>4, <1>5, <1>6, <1>7, <1>8, <1>9, <1>10, <1>11 DEF Next

-----------------------------------------------------------------------------
(* The invariant.                                                          *)

\* What is made of the new sector shows only when the current one is not the
\* second sector, or is not valid: currentSector and isInitialized depend on
\* which headers are valid and on nothing else.
LEMMA SameCurrent ==
    ASSUME TypeOK, \A s \in Sectors : (header'[s] = "valid") <=> (header[s] = "valid")
    PROVE  currentSector' = currentSector /\ isInitialized' = isInitialized
BY DEF currentSector, isInitialized, isValid, Sectors, Sector_0, Sector_1

\* While the current sector is valid and chosen, no change of the other one
\* that leaves it not valid, or as it was, changes the choice.
LEMMA ChoiceKept ==
    ASSUME TypeOK, isValid(current), currentSector = current,
           header'[current] = header[current], current' = current,
           header'[newSector] = "valid" => header[newSector] = "valid"
    PROVE  isValid(current)' /\ currentSector' = current /\ isInitialized'
BY DEF TypeOK, currentSector, isInitialized, isValid, newSector, alternateSectorTo,
       Sectors, Sector_0, Sector_1

\* After a reset or an error only the
\* headers count, as the program starts from what is in the flash.
LEMMA BrokenKeeps ==
    ASSUME Inv, TypeOK', Broken,
           isInitialized => isInitialized',
           pointer # NoSector /\ writes < 2 => data'[pointer] = data[pointer],
           pointer # NoSector /\ writes = 0 => currentSector' = currentSector
    PROVE  Inv'
<1>1. pc' = "idle" /\ new' = NoBlock /\ seen' = seen /\ writes' = writes /\ pointer' \in {pointer, NoSector}
  BY DEF Broken, Over, reader
<1>2. CurrentInv'
  BY <1>1 DEF CurrentInv, Initializing, Preparing
<1>3. CopiedInv'
  BY <1>1 DEF CopiedInv, Finishing
<1>4. PointerInv'
  BY <1>1 DEF Inv, PointerInv, PointerHolds
<1> QED
  BY <1>2, <1>3, <1>4 DEF Inv

\* Copying a part of the block changes the new sector only.
LEMMA CopyFacts ==
    ASSUME Inv, TypeOK', NEW from \in {"before", "data", "after"}, NEW to,
           NEW offsets \in SUBSET Offsets, NEW source,
           \A i \in offsets : source[i] \in Data, Copy(from, to, offsets, source)
    PROVE  /\ data'[current] = data[current] /\ UNCHANGED header
           /\ Broken => Inv'
           /\ ~Broken => /\ Write(newSector, offsets, source) /\ pc' = to
                         /\ UNCHANGED <<current, new, reader>>
                         /\ data'[newSector] = [i \in Offsets |->
                                IF i \in offsets THEN Written(data[newSector][i], source[i])
                                ELSE data[newSector][i]]
           /\ isValid(current)' /\ currentSector' = current /\ isInitialized'
           /\ newSector' = newSector
<1>t. TypeOK
  BY DEF Inv
<1>c. /\ newSector \in Sectors /\ current \in Sectors /\ newSector # current
      /\ \A s \in Sectors : s = current \/ s = newSector
  BY <1>t, SectorFacts DEF TypeOK
<1>1. PICK some \in SUBSET offsets : Write(newSector, some, source)
  BY DEF Copy
<1>2. data'[current] = data[current] /\ UNCHANGED header
  BY <1>1, <1>t, <1>c, WriteFacts
<1>3. pc = from /\ isValid(current) /\ currentSector = current
  BY DEF Copy, Inv, CurrentInv, Preparing
<1>4. current' = current
  BY DEF Copy, Broken
<1>5. isValid(current)' /\ currentSector' = current /\ isInitialized' /\ newSector' = newSector
  BY <1>t, <1>2, <1>3, <1>4, ChoiceKept DEF newSector
<1>6. pointer # NoSector /\ writes < 2 => pointer = current
  BY <1>t, <1>3 DEF Inv, PointerInv, TypeOK
<1>7. Broken => Inv'
  BY <1>2, <1>3, <1>5, <1>6, BrokenKeeps
<1>8. ~Broken => /\ Write(newSector, offsets, source) /\ pc' = to
                 /\ UNCHANGED <<current, new, reader>>
  BY DEF Copy
<1>9. ~Broken => data'[newSector] = [i \in Offsets |->
                     IF i \in offsets THEN Written(data[newSector][i], source[i])
                     ELSE data[newSector][i]]
  <2> SUFFICES ASSUME Write(newSector, offsets, source)
               PROVE  data'[newSector] = [i \in Offsets |->
                          IF i \in offsets THEN Written(data[newSector][i], source[i])
                          ELSE data[newSector][i]]
    BY <1>8
  <2>1. data \in [Sectors -> [Offsets -> Data]]
    BY <1>t DEF TypeOK
  <2> HIDE DEF newSector
  <2> QED
    BY <1>c, <2>1 DEF Write
<1> QED
  BY <1>2, <1>5, <1>7, <1>8, <1>9

\* Every action keeps the invariant.
LEMMA InvStep == Inv /\ [Next]_vars => Inv'
<1> SUFFICES ASSUME Inv, [Next]_vars PROVE Inv'
  OBVIOUS
<1>t. TypeOK /\ TypeOK'
  BY TypeStep DEF Inv
<1>c. /\ newSector \in Sectors /\ current \in Sectors /\ Sector_0 \in Sectors /\ newSector # current
      /\ \A s \in Sectors : s = current \/ s = newSector
  BY <1>t, SectorFacts DEF Sectors, Sector_0, TypeOK
<1>1. CASE InitErase
  <2>1. pc = "initErase" /\ ~isInitialized /\ pointer = NoSector
    BY <1>1 DEF InitErase, Inv, CurrentInv, PointerInv, Initializing
  <2>2. ~isInitialized'
    BY <1>1, <1>t, <1>c, <2>1, EraseFacts DEF InitErase, isInitialized, isValid
  <2>3. CASE erase(Sector_0) /\ pc' = "initHeader" /\ UNCHANGED <<current, new, reader>>
    <3>1. data'[Sector_0] = Blank
      BY <1>t, <1>c, <2>3, EraseFacts
    <3> QED
      BY <1>t, <2>1, <2>2, <2>3, <3>1 DEF Inv, CurrentInv, CopiedInv, PointerInv, PointerHolds,
         Initializing, Preparing, Finishing, reader, Blank
  <2>4. CASE Broken
    BY <1>t, <2>1, <2>2, <2>4, BrokenKeeps
  <2> QED
    BY <1>1, <2>3, <2>4 DEF InitErase
<1>2. CASE InitHeader
  <2>1. pc = "initHeader" /\ ~isInitialized /\ pointer = NoSector
    BY <1>2 DEF InitHeader, Inv, CurrentInv, PointerInv, Initializing
  <2>2. CASE SetHeader(Sector_0, "valid") /\ pc' = (IF new = NoBlock THEN "idle" ELSE "erase")
             /\ UNCHANGED <<current, new, reader>>
    <3>1. header'[Sector_0] = "valid" /\ header'[Sector_1] # "valid" /\ data' = data
      BY <1>t, <1>c, <2>1, <2>2, HeaderFacts
         DEF Headers, isInitialized, isValid, Sectors, Sector_0, Sector_1
    <3>2. isInitialized' /\ currentSector' = Sector_0 /\ isValid(Sector_0)'
      BY <3>1, <1>c DEF isInitialized, isValid, currentSector
    <3>3. new = NoBlock \/ current = Sector_0
      BY <2>1 DEF Inv, CurrentInv, Initializing
    <3> QED
      BY <1>t, <2>1, <2>2, <3>1, <3>2, <3>3 DEF Inv, CurrentInv, CopiedInv, PointerInv, PointerHolds,
         Initializing, Preparing, Finishing, reader
  <2>3. CASE SetHeader(Sector_0, "other") /\ Broken
    BY <1>t, <2>1, <2>3, BrokenKeeps
  <2> QED
    BY <1>2, <2>2, <2>3 DEF InitHeader
<1>3. CASE Read
  <2>1. UNCHANGED flash /\ currentSector' = currentSector /\ isInitialized' = isInitialized
    BY <1>3, <1>t, SameCurrent DEF Read, flash
  <2>2. currentSector \in Sectors /\ NoSector \notin Sectors
    BY DEF currentSector, Sectors, Sector_0, Sector_1, NoSector
  <2> QED
    BY <1>3, <1>t, <2>1, <2>2 DEF Read, Inv, CurrentInv, CopiedInv, PointerInv, PointerHolds,
       Initializing, Preparing, Finishing, reader, flash
<1>4. ASSUME NEW block \in Asked, Begin(block)
      PROVE  Inv'
  <2>1. UNCHANGED flash /\ currentSector' = currentSector /\ isInitialized' = isInitialized
    BY <1>4, <1>t, SameCurrent DEF Begin, flash
  <2>2. isInitialized => isValid(currentSector)
    BY DEF isInitialized, isValid, currentSector, Sectors, Sector_0, Sector_1
  <2>3. ~isInitialized => currentSector = Sector_0
    BY DEF isInitialized, isValid, currentSector, Sectors, Sector_0, Sector_1
  <2>4. CurrentInv'
    BY <1>4, <2>1, <2>2, <2>3 DEF Begin, CurrentInv, Initializing, Preparing, Finishing, flash, isValid
  <2>5. CopiedInv'
    BY <1>4 DEF Begin, CopiedInv, Finishing
  <2>6. PointerInv'
    BY <1>4, <1>t, <2>1 DEF Begin, Inv, PointerInv, PointerHolds, flash, TypeOK
  <2> QED
    BY <1>t, <2>4, <2>5, <2>6 DEF Inv
<1>5. CASE EraseNew
  <2>1. pc = "erase" /\ isValid(current) /\ currentSector = current /\ isInitialized
    BY <1>5, <1>c DEF EraseNew, Inv, CurrentInv, Preparing, isInitialized
  <2>2. /\ header'[current] = header[current] /\ data'[current] = data[current]
        /\ header'[newSector] = "valid" => header[newSector] = "valid"
        /\ erase(newSector) => data'[newSector] = Blank
    BY <1>5, <1>t, <1>c, EraseFacts DEF EraseNew
  <2>3. current' = current
    BY <1>5 DEF EraseNew, Broken
  <2>4. isValid(current)' /\ currentSector' = current /\ isInitialized' /\ newSector' = newSector
    BY <1>t, <2>1, <2>2, <2>3, ChoiceKept DEF newSector
  <2>5. pointer # NoSector /\ writes < 2 => pointer = current
    BY <1>t, <2>1 DEF Inv, PointerInv, TypeOK
  <2>6. CASE erase(newSector) /\ pc' = "before" /\ UNCHANGED <<current, new, reader>>
    <3>1. (data[newSector])' = Blank'
      BY <2>2, <2>4, <2>6 DEF Blank
    <3> QED
      BY <1>t, <2>1, <2>2, <2>4, <2>5, <2>6, <3>1 DEF Inv, CurrentInv, CopiedInv, PointerInv, PointerHolds,
         Initializing, Preparing, Finishing, reader
  <2>7. CASE Broken
    BY <1>t, <2>1, <2>2, <2>4, <2>5, <2>7, BrokenKeeps
  <2> QED
    BY <1>5, <2>6, <2>7 DEF EraseNew
<1>6. CASE CopyAll
  <2>a. Before \subseteq Offsets /\ After \subseteq Offsets
    BY DEF Before, After
  <2>b. \A i \in Before \cup After : i \notin DOMAIN new
    BY DEF Before, After, Offsets
  <2>d. UNCHANGED new => Before' = Before /\ After' = After
    BY DEF Before, After
  <2>1. \A i \in Offsets : data[current][i] \in Data
    BY <1>t, <1>c DEF TypeOK
  <2>2. \A i \in DOMAIN new : new[i] \in Data
    BY <1>t, BlockFacts DEF TypeOK
  <2>3. DOMAIN new \subseteq Offsets
    BY <1>t DEF TypeOK
  <2>4. CASE Copy("before", "data", Before, data[current])
    <3>1. CASE ~Broken
      <4>1. /\ data'[current] = data[current] /\ UNCHANGED header
            /\ Write(newSector, Before, data[current]) /\ pc' = "data" /\ UNCHANGED <<current, new, reader>>
            /\ isValid(current)' /\ currentSector' = current /\ isInitialized' /\ newSector' = newSector
        BY <1>t, <2>1, <2>a, <2>4, <3>1, CopyFacts
      <4>2. data[newSector] = Blank
        BY <2>4 DEF Copy, Inv, CopiedInv
      <4>3. (data[newSector])' = [i \in Offsets |-> IF i \in Before THEN data[current][i] ELSE Erased]
        BY <1>t, <1>c, <2>1, <2>a, <4>1, <4>2, WriteFacts DEF Written, Blank
      <4>4. CopiedInv'
        BY <4>1, <4>3, <2>d DEF CopiedInv, Finishing
      <4>5. CurrentInv'
        BY <2>4, <4>1 DEF Copy, Inv, CurrentInv, Initializing, Preparing
      <4>6. PointerInv'
        BY <1>t, <2>4, <4>1 DEF Copy, Inv, PointerInv, PointerHolds, reader, TypeOK
      <4> QED
        BY <1>t, <4>4, <4>5, <4>6 DEF Inv
    <3> QED
      BY <1>t, <2>1, <2>a, <2>4, <3>1, CopyFacts
  <2>5. CASE Copy("data", "after", DOMAIN new, new)
    <3>1. CASE ~Broken
      <4>1. /\ data'[current] = data[current] /\ UNCHANGED header
            /\ Write(newSector, DOMAIN new, new) /\ pc' = "after" /\ UNCHANGED <<current, new, reader>>
            /\ isValid(current)' /\ currentSector' = current /\ isInitialized' /\ newSector' = newSector
        BY <1>t, <2>2, <2>3, <2>5, <3>1, CopyFacts
      <4>2. data[newSector] = [i \in Offsets |-> IF i \in Before THEN data[current][i] ELSE Erased]
        BY <2>5 DEF Copy, Inv, CopiedInv
      <4>3. \A i \in Before : i \notin DOMAIN new
        BY <2>b
      <4>4. (data[newSector])' = [i \in Offsets |-> IF i \in Before THEN data[current][i]
                                                    ELSE IF i \in DOMAIN new THEN new[i] ELSE Erased]
        <5>1. data'[newSector] = [i \in Offsets |-> IF i \in DOMAIN new THEN Written(data[newSector][i], new[i])
                                                    ELSE data[newSector][i]]
          BY <1>t, <2>2, <2>3, <2>5, <3>1, CopyFacts
        <5>2. \A i \in DOMAIN new : Written(data[newSector][i], new[i]) = new[i]
          BY <2>3, <4>2, <4>3 DEF Written
        <5>3. data'[newSector] = [i \in Offsets |-> IF i \in Before THEN data[current][i]
                                                    ELSE IF i \in DOMAIN new THEN new[i] ELSE Erased]
          BY <4>2, <4>3, <5>1, <5>2
        <5> QED
          BY <4>1, <5>3
      <4>5. CopiedInv'
        BY <4>1, <4>4, <2>d DEF CopiedInv, Finishing
      <4>6. CurrentInv'
        BY <2>5, <4>1 DEF Copy, Inv, CurrentInv, Initializing, Preparing
      <4>7. PointerInv'
        BY <1>t, <2>5, <4>1 DEF Copy, Inv, PointerInv, PointerHolds, reader, TypeOK
      <4> QED
        BY <1>t, <4>5, <4>6, <4>7 DEF Inv
    <3> QED
      BY <1>t, <2>2, <2>3, <2>5, <3>1, CopyFacts
  <2>6. CASE Copy("after", "header", After, data[current])
    <3>1. CASE ~Broken
      <4>1. /\ data'[current] = data[current] /\ UNCHANGED header
            /\ Write(newSector, After, data[current]) /\ pc' = "header" /\ UNCHANGED <<current, new, reader>>
            /\ isValid(current)' /\ currentSector' = current /\ isInitialized' /\ newSector' = newSector
        BY <1>t, <2>1, <2>a, <2>6, <3>1, CopyFacts
      <4>2. data[newSector] = [i \in Offsets |-> IF i \in Before THEN data[current][i]
                                                 ELSE IF i \in DOMAIN new THEN new[i] ELSE Erased]
        BY <2>6 DEF Copy, Inv, CopiedInv
      <4>3. \A i \in Offsets : i \in Before \/ i \in DOMAIN new \/ i \in After
        BY <1>t, <2>6, BlockIsRange DEF Copy, Inv, CurrentInv, TypeOK, Initializing, Before, After
      <4>4. (data[newSector])' = Result'
        <5>1. data'[newSector] = [i \in Offsets |->
                                    IF i \in After THEN Written(data[newSector][i], data[current][i])
                                    ELSE data[newSector][i]]
          BY <1>t, <2>1, <2>a, <2>6, <3>1, CopyFacts
        <5>2. \A i \in Before \cup After : i \notin DOMAIN new
          BY <2>3, <2>b
        <5>3. \A i \in After : i \in Before \/ Written(data[newSector][i], data[current][i]) = data[current][i]
          BY <2>a, <4>2, <5>2 DEF Written
        <5>4. \A i \in Before : i \notin After
          <6>1. new # NoBlock /\ new \in Asked
            BY <1>t, <2>6 DEF Copy, Inv, CurrentInv, Initializing, TypeOK
          <6>2. PICK j \in DOMAIN new : TRUE
            BY <6>1, EmptyBlock
          <6> QED
            BY <2>3, <6>2, SplitFacts DEF Before, After
        <5>5. \A i \in Offsets : data'[newSector][i] = IF i \in DOMAIN new THEN new[i] ELSE data[current][i]
          BY <4>2, <4>3, <5>1, <5>2, <5>3, <5>4
        <5>6. data'[newSector] = [i \in Offsets |-> IF i \in DOMAIN new THEN new[i] ELSE data[current][i]]
          BY <5>1, <5>5
        <5> QED
          BY <4>1, <5>6 DEF Result
      <4>5. CopiedInv'
        BY <4>1, <4>4, <2>d DEF CopiedInv, Finishing
      <4>6. CurrentInv'
        BY <2>6, <4>1 DEF Copy, Inv, CurrentInv, Initializing, Preparing
      <4>7. PointerInv'
        BY <1>t, <2>6, <4>1 DEF Copy, Inv, PointerInv, PointerHolds, reader, TypeOK
      <4> QED
        BY <1>t, <4>5, <4>6, <4>7 DEF Inv
    <3> QED
      BY <1>t, <2>1, <2>a, <2>6, <3>1, CopyFacts
  <2> QED
    BY <1>6, <2>4, <2>5, <2>6 DEF CopyAll
<1>7. CASE MakeValid
  <2>1. /\ pc = "header" /\ isValid(current) /\ currentSector = current
        /\ data[newSector] = Result /\ new # NoBlock
    BY <1>7 DEF MakeValid, Inv, CurrentInv, CopiedInv, Preparing, Initializing
  <2>2. current' = current /\ newSector' = newSector /\ header'[current] = header[current] /\ data' = data
    BY <1>7, <1>t, <1>c, HeaderFacts DEF MakeValid, Broken, Headers, newSector
  <2>3. isValid(current)' /\ isInitialized'
    BY <1>c, <2>1, <2>2 DEF isValid, isInitialized
  <2>4. pointer # NoSector /\ writes < 2 => pointer = current /\ writes = 1
    BY <1>t, <2>1, <1>7 DEF Inv, PointerInv, TypeOK, MakeValid
  <2>5. CASE SetHeader(newSector, "valid") /\ pc' = "invalidate" /\ UNCHANGED <<current, new, reader>>
    <3>1. isValid(newSector)'
      BY <1>t, <1>c, <2>2, <2>5, HeaderFacts DEF Headers, isValid
    <3>2. CurrentInv'
      BY <2>1, <2>2, <2>3, <2>5, <3>1 DEF CurrentInv, Initializing, Preparing
    <3>3. CopiedInv'
      BY <2>1, <2>2, <2>5 DEF CopiedInv, Finishing, Result
    <3>4. PointerInv'
      BY <1>t, <2>1, <2>2, <2>3, <2>4, <2>5 DEF Inv, PointerInv, PointerHolds, reader, TypeOK
    <3> QED
      BY <1>t, <3>2, <3>3, <3>4 DEF Inv
  <2>6. CASE Broken
    BY <1>t, <2>2, <2>3, <2>4, <2>6, BrokenKeeps
  <2> QED
    BY <1>7, <2>5, <2>6 DEF MakeValid
<1>8. CASE MakeInvalid
  <2>1. /\ pc = "invalidate" /\ isValid(newSector) /\ data[newSector] = Result /\ new # NoBlock
    BY <1>8 DEF MakeInvalid, Inv, CurrentInv, CopiedInv, Finishing, Initializing
  <2>2. current' = current /\ newSector' = newSector /\ header'[newSector] = header[newSector] /\ data' = data
    BY <1>8, <1>t, <1>c, HeaderFacts DEF MakeInvalid, Broken, Headers, newSector
  <2>3. isValid(newSector)' /\ isInitialized'
    BY <1>c, <2>1, <2>2 DEF isValid, isInitialized
  <2>4. pointer # NoSector /\ writes < 2 => pointer = current /\ writes = 1
    BY <1>t, <2>1, <1>8 DEF Inv, PointerInv, TypeOK, MakeInvalid
  <2>5. CASE SetHeader(current, "cleared") /\ pc' = "return" /\ UNCHANGED <<current, new, reader>>
    <3>1. (header[current])' = "cleared"
      BY <1>t, <1>c, <2>2, <2>5, HeaderFacts DEF Headers
    <3>2. CurrentInv'
      BY <2>1, <2>2, <2>3, <2>5, <3>1 DEF CurrentInv, Initializing, Preparing
    <3>3. CopiedInv'
      BY <2>1, <2>2, <2>5 DEF CopiedInv, Finishing, Result
    <3>4. PointerInv'
      BY <1>t, <2>1, <2>2, <2>3, <2>4, <2>5 DEF Inv, PointerInv, PointerHolds, reader, TypeOK
    <3> QED
      BY <1>t, <3>2, <3>3, <3>4 DEF Inv
  <2>6. CASE Broken
    BY <1>t, <2>2, <2>3, <2>4, <2>6, BrokenKeeps
  <2> QED
    BY <1>8, <2>5, <2>6 DEF MakeInvalid
<1>9. CASE Return
  <2>1. UNCHANGED flash /\ currentSector' = currentSector /\ isInitialized' = isInitialized
    BY <1>9, <1>t, SameCurrent DEF Return, flash
  <2>2. pc = "return" /\ pc' = "idle" /\ new' = NoBlock /\ UNCHANGED reader
    BY <1>9 DEF Return, Over
  <2>3. CurrentInv'
    BY <2>2 DEF CurrentInv, Initializing, Preparing
  <2>4. CopiedInv'
    BY <2>2 DEF CopiedInv, Finishing
  <2>5. PointerInv'
    BY <1>t, <2>1, <2>2 DEF Inv, PointerInv, PointerHolds, reader, flash, TypeOK
  <2> QED
    BY <1>t, <2>3, <2>4, <2>5 DEF Inv
<1>10. CASE Reset
  <2>1. UNCHANGED flash /\ currentSector' = currentSector /\ isInitialized' = isInitialized
    BY <1>10, <1>t, SameCurrent DEF Reset, flash
  <2> QED
    BY <1>10, <1>t, <2>1, BrokenKeeps DEF Reset, flash
<1>11. CASE UNCHANGED vars
  <2>1. UNCHANGED flash /\ UNCHANGED reader /\ UNCHANGED <<pc, current, new>>
    BY <1>11 DEF vars
  <2> QED
    BY <1>t, <2>1 DEF Inv, CurrentInv, CopiedInv, PointerInv, PointerHolds, Initializing, Preparing, Finishing,
       Result, Before, newSector, isInitialized, isValid, currentSector, flash, reader
<1> QED
  BY <1>1, <1>2, <1>3, <1>4, <1>5, <1>6, <1>7, <1>8, <1>9, <1>10, <1>11 DEF Next

\* A flash that was never used satisfies the invariant.
LEMMA InvInit == Init => Inv
<1> SUFFICES ASSUME Init PROVE Inv
  OBVIOUS
<1>1. TypeOK
  BY BlankType DEF Init, TypeOK, Headers, Sectors, Sector_0, NoBlock
<1>2. ~isInitialized
  BY DEF Init, isInitialized, isValid
<1> QED
  BY <1>1, <1>2 DEF Init, Inv, CurrentInv, CopiedInv, PointerInv, PointerHolds, Initializing, Preparing, Finishing

\* The invariant holds in every state of every execution.
THEOREM InvHolds == Spec => []Inv
BY InvInit, InvStep, PTL DEF Spec

\* The types of dcd.h hold for blocks of every length.
THEOREM TypeCorrect == Spec => []TypeOK
<1>1. Inv => TypeOK
  BY DEF Inv
<1> QED
  BY <1>1, InvHolds, PTL

\* What a pointer returned by read points to is unchanged until the second
\* write after it begins, whatever resets and errors come between.
THEOREM PointersHold == Spec => []PointerHolds
<1>1. Inv => PointerHolds
  BY DEF Inv, PointerInv
<1> QED
  BY <1>1, InvHolds, PTL

-----------------------------------------------------------------------------
(* The refinement.                                                         *)

\* What a read returns, and the write under way.
mem == IF isInitialized THEN data[currentSector] ELSE Blank
pending == IF new = NoBlock THEN {} ELSE {new}

\* While a write is prepared the memory is what it was, and the whole block
\* is in it from the moment the first sector can be read that holds it.
LEMMA MemFacts ==
    ASSUME Inv
    PROVE  /\ pc = "idle" => pending = {}
           /\ Preparing \/ Finishing => pending = {new} /\ new \in Blocks \ {NoBlock}
           /\ Initializing => mem = Blank
           /\ Preparing => mem = data[current]
           /\ pc = "invalidate" => mem \in {data[current], Result}
           /\ pc = "invalidate" /\ newSector = Sector_1 => mem = Result
           /\ pc = "return" => mem = Result
<1>t. TypeOK
  BY DEF Inv
<1>c. /\ newSector \in Sectors /\ current \in Sectors /\ newSector # current
      /\ \A s \in Sectors : s = current \/ s = newSector
  BY <1>t, SectorFacts DEF TypeOK
<1>1. new # NoBlock => new \in Blocks \ {NoBlock}
  <2>1. \A i \in DOMAIN new : i < Length
    BY <1>t, LengthAssumption DEF TypeOK, Offsets
  <2> QED
    BY <1>t, <2>1 DEF TypeOK, Blocks, Fits
<1>2. pc = "idle" => new = NoBlock
  BY DEF Inv, CurrentInv
<1>3. Preparing \/ Finishing => new # NoBlock
  BY DEF Inv, CurrentInv, Preparing, Finishing, Initializing
<1>4. Initializing => mem = Blank
  BY DEF Inv, CurrentInv, mem
<1>5. Preparing => mem = data[current]
  BY <1>c DEF Inv, CurrentInv, mem, isInitialized
<1>6. Finishing => data[newSector] = Result /\ isValid(newSector) /\ isInitialized
  BY <1>c DEF Inv, CurrentInv, CopiedInv, Finishing, isInitialized
<1>7. currentSector \in Sectors /\ (newSector = Sector_1 /\ isValid(newSector) => currentSector = newSector)
  BY DEF currentSector, Sectors, Sector_0, Sector_1
<1>8. pc = "return" => currentSector = newSector
  <2> SUFFICES ASSUME pc = "return" PROVE currentSector = newSector
    OBVIOUS
  <2>1. header[current] = "cleared" /\ isValid(newSector)
    BY DEF Inv, CurrentInv
  <2> QED
    BY <1>c, <2>1 DEF currentSector, isValid, Sectors, Sector_0, Sector_1
<1>9. Finishing => mem = IF currentSector = newSector THEN Result ELSE data[current]
  BY <1>6, <1>7, <1>c DEF mem
<1> QED
  BY <1>1, <1>2, <1>3, <1>4, <1>5, <1>6, <1>7, <1>8, <1>9 DEF pending, Finishing

\* When write returns without an error, read returns its bytes, and the bytes
\* from before at all other offsets (dcd.h).
WriteIsRead ==
    pc = "return" =>
        /\ isInitialized
        /\ \A i \in Offsets :
               data[currentSector][i] = IF i \in DOMAIN new THEN new[i] ELSE data[current][i]
THEOREM WritesAreRead == Spec => []WriteIsRead
<1>1. Inv => WriteIsRead
  <2> SUFFICES ASSUME Inv, pc = "return"
               PROVE  WriteIsRead
    BY DEF WriteIsRead
  <2>1. isValid(newSector) /\ newSector \in Sectors
    BY SectorFacts DEF Inv, TypeOK, CurrentInv
  <2>2. isInitialized
    BY <2>1 DEF isInitialized
  <2>3. data[currentSector] = Result
    BY <2>2, MemFacts DEF mem
  <2> QED
    BY <2>2, <2>3 DEF Result, WriteIsRead
<1> QED
  BY <1>1, InvHolds, PTL

\* The memory after the block is what the write prepares.
LEMMA TakenFacts ==
    ASSUME Inv, Preparing \/ Finishing
    PROVE  mem \in {data[current], Result} => Memory!With(new) = Result
<1>1. Result = [i \in Offsets |-> IF i \in DOMAIN new THEN new[i] ELSE Result[i]]
  BY DEF Result
<1> QED
  BY <1>1 DEF Memory!With, Result, mem

\* A write that is interrupted is a reset of the memory.
LEMMA BrokenStep ==
    ASSUME Broken, pending \in {{}, {new}}, mem' = mem \/ (pending = {new} /\ mem' = Memory!With(new))
    PROVE  Memory!Reset
BY DEF Broken, Over, pending, mem, Memory!Reset

\* Every step of a write is one of the memory, or leaves it as it is.
LEMMA MemStep == Inv /\ Inv' /\ [Next]_vars => [Memory!MemNext]_(Memory!memVars)
<1> SUFFICES ASSUME Inv, Inv', [Next]_vars
             PROVE  Memory!MemNext \/ UNCHANGED <<mem, pending>>
  BY DEF Memory!memVars, mem, pending
<1>t. TypeOK /\ TypeOK'
  BY DEF Inv
<1>c. /\ newSector \in Sectors /\ current \in Sectors /\ newSector # current
      /\ \A s \in Sectors : s = current \/ s = newSector
  BY <1>t, SectorFacts DEF TypeOK
<1>p. pending \in {{}, {new}} /\ (UNCHANGED new => UNCHANGED pending)
  BY DEF pending
<1>m. Memory!Reset => Memory!MemNext
  BY DEF Memory!MemNext
<1>f. UNCHANGED flash => UNCHANGED mem
  BY <1>t, SameCurrent DEF mem, flash, Blank
<1>i. Initializing => mem = Blank
  BY MemFacts
<1>1. CASE InitErase
  <2>1. ~isInitialized' /\ pc = "initErase"
    BY <1>1, <1>t, EraseFacts DEF InitErase, Inv, CurrentInv, Initializing, isInitialized, isValid,
       Sectors, Sector_0
  <2>2. mem' = mem
    BY <1>i, <2>1 DEF mem, Blank, Initializing
  <2> QED
    BY <1>1, <1>p, <1>m, <2>2, BrokenStep DEF InitErase
<1>2. CASE InitHeader
  <2>1. pc = "initHeader" /\ data[Sector_0] = Blank /\ data' = data /\ ~isInitialized
    BY <1>2 DEF InitHeader, Inv, CurrentInv, SetHeader, Initializing
  <2>2. ~isValid(Sector_1)'
    BY <1>2, <1>t, <2>1, HeaderFacts DEF InitHeader, isInitialized, isValid, Sectors, Sector_0, Sector_1, Headers
  <2>3. mem' = mem
    BY <1>i, <2>1, <2>2 DEF mem, currentSector, Blank, Initializing
  <2> QED
    BY <1>2, <1>p, <1>m, <2>3, BrokenStep DEF InitHeader
<1>3. CASE Read
  BY <1>3, <1>p, <1>f DEF Read
<1>4. ASSUME NEW block \in Asked, Begin(block)
      PROVE  Memory!MemNext
  <2>1. pending = {} /\ pending' = {block} /\ mem' = mem
    BY <1>4, <1>f, MemFacts DEF Begin, pending
  <2>2. block \in Blocks \ {NoBlock}
    BY <1>4 DEF Begin, Blocks
  <2>3. Memory!Begin(block)
    BY <2>1 DEF Memory!Begin, mem, pending
  <2> QED
    BY <2>2, <2>3 DEF Memory!MemNext
<1>5. CASE EraseNew
  <2>1. pc = "erase" /\ isValid(current) /\ currentSector = current /\ mem = data[current]
    BY <1>5, MemFacts DEF EraseNew, Inv, CurrentInv, Preparing
  <2>2. /\ header'[current] = header[current] /\ data'[current] = data[current] /\ current' = current
        /\ header'[newSector] = "valid" => header[newSector] = "valid"
    BY <1>5, <1>t, <1>c, EraseFacts DEF EraseNew, Broken
  <2>3. isInitialized' /\ currentSector' = current
    BY <1>t, <2>1, <2>2, ChoiceKept
  <2>4. mem' = mem
    BY <2>1, <2>2, <2>3 DEF mem
  <2> QED
    BY <1>5, <1>p, <1>m, <2>4, BrokenStep DEF EraseNew
<1>6. CASE CopyAll
  <2>1. /\ Preparing /\ isValid(current) /\ currentSector = current /\ mem = data[current]
    BY <1>6, MemFacts DEF CopyAll, Copy, Inv, CurrentInv, Preparing
  <2>2. header' = header /\ data'[current] = data[current] /\ current' = current
    BY <1>6, <1>t, <1>c DEF CopyAll, Copy, Write, Broken, TypeOK
  <2>3. isInitialized' /\ currentSector' = current
    BY <1>t, <2>1, <2>2, ChoiceKept
  <2>4. mem' = mem
    BY <2>1, <2>2, <2>3 DEF mem
  <2> QED
    BY <1>6, <1>p, <1>m, <2>4, BrokenStep DEF CopyAll, Copy
<1>7. CASE MakeValid
  <2>1. /\ pc = "header" /\ isValid(current) /\ currentSector = current /\ mem = data[current]
        /\ data[newSector] = Result /\ pending = {new} /\ new \in Blocks \ {NoBlock}
    BY <1>7, MemFacts DEF MakeValid, Inv, CurrentInv, CopiedInv, Preparing
  <2>2. data' = data /\ header'[current] = header[current] /\ current' = current
    BY <1>7, <1>t, <1>c, HeaderFacts DEF MakeValid, Broken, Headers
  <2>3. isInitialized' /\ currentSector' \in {current, newSector}
    BY <1>c, <2>1, <2>2 DEF isInitialized, isValid, currentSector, Sectors, Sector_0, Sector_1
  <2>4. mem' = mem \/ mem' = Memory!With(new)
    BY <2>1, <2>2, <2>3, TakenFacts DEF mem, Preparing
  <2>5. CASE Broken
    BY <1>p, <1>m, <2>1, <2>4, <2>5, BrokenStep
  <2>6. CASE UNCHANGED new
    <3>1. mem' = Memory!With(new) => Memory!Take(new)
      BY <1>p, <2>1, <2>6 DEF Memory!Take, mem, pending
    <3> QED
      BY <1>p, <2>1, <2>4, <2>6, <3>1 DEF Memory!MemNext
  <2> QED
    BY <1>7, <2>5, <2>6 DEF MakeValid
<1>8. CASE MakeInvalid
  <2>1. /\ pc = "invalidate" /\ isValid(newSector) /\ isValid(current) /\ mem \in {data[current], Result}
        /\ data[newSector] = Result /\ pending = {new} /\ new \in Blocks \ {NoBlock}
    BY <1>8, MemFacts DEF MakeInvalid, Inv, CurrentInv, CopiedInv, Finishing
  <2>2. data' = data /\ header'[newSector] = header[newSector] /\ current' = current
    BY <1>8, <1>t, <1>c, HeaderFacts DEF MakeInvalid, Broken, Headers
  <2>3. isInitialized' /\ currentSector' \in {current, newSector} /\ isInitialized
    BY <1>c, <2>1, <2>2 DEF isInitialized, isValid, currentSector, Sectors, Sector_0, Sector_1
  <2>4. currentSector = newSector => currentSector' = newSector
    BY <1>c, <2>1, <2>2 DEF isInitialized, isValid, currentSector, Sectors, Sector_0, Sector_1
  <2>5. mem' = mem \/ mem' = Memory!With(new)
    <3>1. currentSector \in {current, newSector}
      BY <1>c DEF currentSector, Sectors, Sector_0, Sector_1
    <3> QED
      BY <2>1, <2>2, <2>3, <2>4, <3>1, TakenFacts DEF mem, Finishing
  <2>6. CASE Broken
    BY <1>p, <1>m, <2>1, <2>5, <2>6, BrokenStep
  <2>7. CASE UNCHANGED new
    <3>1. mem' = Memory!With(new) => Memory!Take(new)
      BY <1>p, <2>1, <2>7 DEF Memory!Take, mem, pending
    <3> QED
      BY <1>p, <2>1, <2>5, <2>7, <3>1 DEF Memory!MemNext
  <2> QED
    BY <1>8, <2>6, <2>7 DEF MakeInvalid
<1>9. CASE Return
  <2>1. pending = {new} /\ new \in Blocks \ {NoBlock} /\ mem = Result
    BY <1>9, MemFacts DEF Return, Finishing
  <2>2. mem' = mem /\ pending' = {} /\ mem = Memory!With(new)
    BY <1>9, <1>f, <2>1, TakenFacts DEF Return, Over, pending, Finishing
  <2>3. Memory!Return(new)
    BY <2>1, <2>2 DEF Memory!Return, mem, pending
  <2> QED
    BY <2>1, <2>3 DEF Memory!MemNext
<1>10. CASE Reset
  BY <1>10, <1>p, <1>m, <1>f, BrokenStep DEF Reset
<1>11. CASE UNCHANGED vars
  BY <1>11, <1>p, <1>f DEF vars
<1> QED
  BY <1>1, <1>2, <1>3, <1>4, <1>5, <1>6, <1>7, <1>8, <1>9, <1>10, <1>11 DEF Next

\* A write of the configuration data is atomic: whatever resets and errors
\* strike, dcd.h implements a memory that changes by whole writes.
THEOREM Implements == Spec => ImplementsMemory
<1>1. Init => Memory!MemInit
  <2> SUFFICES ASSUME Init PROVE Memory!MemInit
    OBVIOUS
  <2>1. ~isInitialized /\ new = NoBlock
    BY DEF Init, isInitialized, isValid
  <2> QED
    BY <2>1 DEF Memory!MemInit, Blank
<1> QED
  BY <1>1, InvHolds, MemStep, PTL DEF Spec, ImplementsMemory, Memory!MemSpec
=============================================================================
