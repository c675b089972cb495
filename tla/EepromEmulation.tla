-------------------------- MODULE EepromEmulation --------------------------
(***************************************************************************)
(* The EEPROM emulation of services/inc/eeprom_emulation.h: bytes kept as  *)
(* records in one of two pages of flash, with a swap of the pages when the *)
(* one in use is full or damaged.  One action per operation on the flash:  *)
(* the erasure of a page, the writing of a record or of a page's status.   *)
(* A reset may strike between two of them or in the middle of one.         *)
(***************************************************************************)
EXTENDS Integers, FiniteSets

CONSTANTS
    S,           \* the records a page has room for (both pages, for simplicity)
    Values,      \* data other than FLASH_ERASED
    Cut          \* the indices a record can show whose writing was cut off or failed

FLASH_ERASED == 255

ASSUME SAssumption == S \in Nat /\ S > 1
ASSUME ValuesAssumption == Values \subseteq 0 .. 254

CapacityWhole == S + 1     \* mutated form of capacity: not halved
\* capacity: half the records of a page that had no header.
capacity == (S + 1) \div 2

Indices == 0 .. capacity - 1
Data == Values \cup {FLASH_ERASED}

\* Indices beyond the capacity that only such a record can show: one below and
\* one within 0xFF80 .. 0xFFFE, the last batch of forEachUniqueValidRecord.
Stray == capacity
LastBatch == capacity + 1

ASSUME CutAssumption == Cut \subseteq Indices \cup {Stray, LastBatch}

Pages == {"Page1", "Page2"}
Other(page) == IF page = "Page1" THEN "Page2" ELSE "Page1"
Parts == {"header", "records"}
Status == {"ERASED", "COPY", "ACTIVE", "INACTIVE", "garbage"}

Empty      == [kind |-> "empty", index |-> 0, data |-> 0]
Invalid    == [kind |-> "invalid", index |-> 0, data |-> 0]
Record(i, d) == [kind |-> "valid", index |-> i, data |-> d]
Cell == {Empty, Invalid} \cup {Record(i, d) : i \in Indices \cup Cut, d \in Data}

VARIABLES
    status,      \* status[p]: the header of page p
    cells,       \* cells[p]: the records of page p
    marginal,    \* marginal[p]: the parts of p with bits that read as 1 and may
                 \* turn 0 when they are written
    activePage,  \* the page in use, as the program remembers it
    pc,          \* what the program does next
    new,         \* the block that is being put
    todo,        \* the indices whose records are yet to be written
    tries        \* the round of swapPagesAndWrite

flash == <<status, cells, marginal>>
ram   == <<activePage, pc, new, todo, tries>>
vars  == <<flash, ram>>

\* No block is being put.
NoBlock == [i \in {} |-> FLASH_ERASED]

InRangeLoose(range) == \A i \in range : i <= capacity   \* mutated form of InRange
\* writeRange ignores a block that ends beyond the capacity.
InRange(range) == \A i \in range : i < capacity

\* What a program may ask to put, and what can be put.
Ranges == {first .. last : first, last \in 0 .. capacity} \ {{}}
Puts == UNION {[range -> Data] : range \in {r \in Ranges : r \subseteq Indices}}

TypeOK ==
    /\ status \in [Pages -> Status]
    /\ cells \in [Pages -> [1 .. S -> Cell]]
    /\ marginal \in [Pages -> SUBSET Parts]
    /\ activePage \in Pages \cup {"NoPage"}
    /\ pc \in {"boot", "wipe1", "wipe2", "format", "idle", "append",
               "swap", "mark", "copy", "retire", "return", "hang"}
    /\ new \in Puts \cup {NoBlock}
    /\ todo \in SUBSET (Indices \cup Cut)
    /\ tries \in 0 .. 1

\* A flash that was never used: erased, or with anything but a page's status.
Init ==
    /\ \/ status = [p \in Pages |-> "ERASED"] /\ cells = [p \in Pages |-> [n \in 1 .. S |-> Empty]]
       \/ status = [p \in Pages |-> "garbage"] /\ cells = [p \in Pages |-> [n \in 1 .. S |-> Invalid]]
    /\ marginal = [p \in Pages |-> {}]
    /\ activePage = "NoPage"
    /\ pc = "boot"
    /\ new = NoBlock /\ todo = {} /\ tries = 0

-----------------------------------------------------------------------------
(* Reading.                                                                *)

Least(set) == CHOOSE x \in set : \A y \in set : x <= y
Greatest(set) == CHOOSE x \in set : \A y \in set : x >= y

\* The first active page.
FirstActive ==
    IF \A p \in Pages : status[p] # "ACTIVE" THEN "NoPage"
    ELSE IF status["Page1"] = "ACTIVE" THEN "Page1" ELSE "Page2"

\* forEachValidRecord stops before this position of the page.
End(page) == Least({n \in 1 .. S : cells[page][n].kind # "valid"} \cup {S + 1})

\* The value of the last of the valid records with the index.
Value(page, i) ==
    LET hits == {n \in 1 .. End(page) - 1 : cells[page][n].index = i}
    IN IF hits = {} THEN FLASH_ERASED ELSE cells[page][Greatest(hits)].data

\* readRangeAndFindEmpty finds an invalid record.
HasInvalidRecords(page) == End(page) <= S /\ cells[page][End(page)] = Invalid

\* verifyPage
Erased(page) == status[page] = "ERASED" /\ \A n \in 1 .. S : cells[page][n] = Empty

-----------------------------------------------------------------------------
(* Operations on the flash, carried out and cut off by a reset.            *)

Boot == pc' = "boot" /\ activePage' = "NoPage" /\ new' = NoBlock /\ todo' = {} /\ tries' = 0

Erase(page) ==
    /\ status' = [status EXCEPT ![page] = "ERASED"]
    /\ cells' = [cells EXCEPT ![page] = [n \in 1 .. S |-> Empty]]
    /\ marginal' = [marginal EXCEPT ![page] = {}]

EraseCut(page) ==
    /\ \E s \in {status[page], "ERASED", "garbage"} :
           status' = [status EXCEPT ![page] = s]
    /\ \E c \in {cells[page], [n \in 1 .. S |-> Empty], [n \in 1 .. S |-> Invalid]} :
           cells' = [cells EXCEPT ![page] = c]
    /\ marginal' = [marginal EXCEPT ![page] = Parts]
    /\ Boot

\* A record of which bits are missing: not valid, or valid with another index.
Spoilt == {Invalid} \cup {Record(i, d) : i \in Cut, d \in Data}

\* What a position reads after a record was written to it.  Writing only
\* clears bits: over another record anything may come out.
Written(page, n, record) ==
    IF cells[page][n] \notin {Empty, record} THEN Cell \ {Empty}
    ELSE {record} \cup (IF "records" \in marginal[page] THEN Spoilt ELSE {})

WriteCell(page, n, cell) ==
    /\ cells' = [cells EXCEPT ![page][n] = cell]
    /\ UNCHANGED <<status, marginal>>

WriteStatus(page, s) ==
    /\ status' = [status EXCEPT ![page] = s]
    /\ UNCHANGED <<cells, marginal>>

\* What it reads when the writing was cut off: as before, or some bits of the
\* record are there; what still reads as 1 may be half written.
WrittenInPart(page, n) ==
    IF cells[page][n] = Empty THEN {Empty} \cup Spoilt ELSE Cell \ {Empty}

WriteCut(page, n) ==
    /\ \E cell \in WrittenInPart(page, n) : cells' = [cells EXCEPT ![page][n] = cell]
    /\ marginal' = [marginal EXCEPT ![page] = @ \cup {"records"}]
    /\ UNCHANGED status
    /\ Boot

StatusCut(page) ==
    /\ \E s \in {status[page], "garbage"} : status' = [status EXCEPT ![page] = s]
    /\ marginal' = [marginal EXCEPT ![page] = @ \cup {"header"}]
    /\ UNCHANGED cells
    /\ Boot

-----------------------------------------------------------------------------
(* init and clear.                                                         *)

Start ==
    /\ pc = "boot"
    /\ activePage' = FirstActive
    /\ pc' = IF FirstActive = "NoPage" THEN "wipe1" ELSE "idle"
    /\ UNCHANGED <<flash, new, todo, tries>>

Wipe(page, from, to) ==
    /\ pc = from
    /\ \/ Erase(page) /\ pc' = to /\ UNCHANGED <<activePage, new, todo, tries>>
       \/ EraseCut(page)

Format ==
    /\ pc = "format"
    /\ \/ /\ WriteStatus("Page1", "ACTIVE")
          /\ activePage' = "Page1" /\ pc' = "idle"
          /\ UNCHANGED <<new, todo, tries>>
       \/ StatusCut("Page1")

Clear == Wipe("Page1", "wipe1", "wipe2") \/ Wipe("Page2", "wipe2", "format") \/ Format

-----------------------------------------------------------------------------
(* put: writeRange.                                                        *)

\* The records fit behind those there are, and what follows them is empty.
RoomUnseparated(page, count) == End(page) + count - 1 <= S   \* mutated form of Room
Room(page, count) ==
    /\ End(page) + count - 1 <= S
    /\ End(page) + count <= S => cells[page][End(page) + count] = Empty

Put ==
    /\ pc = "idle"
    /\ \E range \in {r \in Ranges : InRange(r)} : \E block \in [range -> Data] :
        LET changed == {i \in DOMAIN block : Value(activePage, i) # block[i]}
            append  == ~HasInvalidRecords(activePage) /\ (changed = {} \/ Room(activePage, Cardinality(changed)))
        IN /\ new' = block
           /\ todo' = IF append THEN changed ELSE {}
           /\ pc' = IF ~append THEN "swap" ELSE IF changed = {} THEN "return" ELSE "append"
    /\ tries' = 0
    /\ UNCHANGED <<flash, activePage>>

\* writeRangeChanged: backwards, so that the records count all at once.
Append ==
    LET i == Least(todo)
        n == End(activePage) + Cardinality(todo) - 1
        record == Record(i, new[i])
    IN
    /\ pc = "append"
    /\ \/ /\ \E cell \in Written(activePage, n, record) :
                /\ WriteCell(activePage, n, cell)
                /\ pc' = IF cell # record THEN "swap" ELSE IF todo = {i} THEN "return" ELSE "append"
                /\ todo' = IF cell # record THEN {} ELSE todo \ {i}
          /\ UNCHANGED <<activePage, new, tries>>
       \/ WriteCut(activePage, n)

Return ==
    /\ pc = "return"
    /\ pc' = "idle" /\ new' = NoBlock
    /\ UNCHANGED <<flash, activePage, todo, tries>>

-----------------------------------------------------------------------------
(* swapPagesAndWrite.                                                      *)

source == activePage
destination == Other(activePage)

\* The destination is erased unless it reads as erased on the first try.
EraseDestination ==
    /\ pc = "swap"
    /\ \/ /\ IF tries > 0 \/ ~Erased(destination) THEN Erase(destination) ELSE UNCHANGED flash
          /\ pc' = "mark"
          /\ UNCHANGED <<activePage, new, todo, tries>>
       \/ (tries > 0 \/ ~Erased(destination)) /\ EraseCut(destination)

\* A write failed: once more with the destination erased, or give up, and go
\* on with the old page.
Failed ==
    /\ pc' = IF tries = 0 THEN "swap" ELSE "return"
    /\ tries' = 1
    /\ todo' = {}

\* A status that does not read back: bits of it that were 1 are not any more.
StatusFailed(page) ==
    /\ "header" \in marginal[page] \/ status[page] = "garbage"
    /\ WriteStatus(page, "garbage")
    /\ Failed
    /\ UNCHANGED <<activePage, new>>

\* The other records of the source that are to be copied.
Copied == {i \in (Indices \cup Cut) \ DOMAIN new : Value(source, i) # FLASH_ERASED}

\* forEachUniqueValidRecord goes through the indices in batches.  In the last
\* one the 16-bit lastIndex is 0 and every record counts as a later one.
EndlessMore == End(source) > 1   \* mutated form of Endless: hasMoreRecords never reset
Endless == \E n \in 1 .. End(source) - 1 : cells[source][n].index = LastBatch

MarkCopy ==
    /\ pc = "mark"
    /\ \/ /\ WriteStatus(destination, "COPY")
          /\ pc' = IF Endless THEN "hang" ELSE "copy"
          /\ todo' = Copied \cup {i \in DOMAIN new : new[i] # FLASH_ERASED}
          /\ UNCHANGED <<activePage, new, tries>>
       \/ StatusFailed(destination)
       \/ StatusCut(destination)

\* The copies are written first, then the new records.
CopyNext ==
    LET copies == todo \ DOMAIN new
        i == Least(IF copies # {} THEN copies ELSE todo)
        n == End(destination)
        record == Record(i, IF i \in DOMAIN new THEN new[i] ELSE Value(source, i))
    IN
    /\ pc = "copy" /\ todo # {}
    /\ IF n > S
       THEN Failed /\ UNCHANGED <<flash, activePage, new>>
       ELSE \/ \E cell \in Written(destination, n, record) :
                 /\ WriteCell(destination, n, cell)
                 /\ IF cell = record
                    THEN todo' = todo \ {i} /\ UNCHANGED <<pc, tries>>
                    ELSE Failed
                 /\ UNCHANGED <<activePage, new>>
            \/ WriteCut(destination, n)

\* The new page is marked.
Activate ==
    /\ pc = "copy" /\ todo = {}
    /\ \/ /\ WriteStatus(destination, "ACTIVE")
          /\ pc' = "retire"
          /\ UNCHANGED <<activePage, new, todo, tries>>
       \/ StatusFailed(destination)
       \/ StatusCut(destination)

\* mutated form of Retire: the program goes on with the old page
RetireForgetful ==
    /\ pc = "retire"
    /\ \/ /\ status[source] = "ACTIVE"
          /\ WriteStatus(source, "INACTIVE")
          /\ pc' = "return"
          /\ UNCHANGED <<activePage, new, todo, tries>>
       \/ StatusFailed(source)
       \/ StatusCut(source)

\* The old page is marked, and updateActivePage finds the new one.  When the
\* mark does not read back the old page is not active any more, and the new
\* one is erased for the second try.
Retire ==
    /\ pc = "retire"
    /\ \/ /\ status[source] = "ACTIVE"
          /\ WriteStatus(source, "INACTIVE")
          /\ activePage' = destination
          /\ pc' = "return"
          /\ UNCHANGED <<new, todo, tries>>
       \/ StatusFailed(source)
       \/ StatusCut(source)

-----------------------------------------------------------------------------
\* performPendingErase, when the user calls it.
PerformPendingErase ==
    /\ pc = "idle"
    /\ status[Other(activePage)] # "ERASED"
    /\ \/ Erase(Other(activePage)) /\ UNCHANGED ram
       \/ EraseCut(Other(activePage))

\* A reset between two operations.
Reset == Boot /\ UNCHANGED flash

Swap == EraseDestination \/ MarkCopy \/ CopyNext \/ Activate \/ Retire

Program == Start \/ Clear \/ Append \/ Return \/ Swap

Next == Program \/ Put \/ PerformPendingErase \/ Reset

Spec == Init /\ [][Next]_vars

\* The program goes on by itself; nothing makes it call put, and nothing
\* makes a reset strike.
FairSpec == Spec /\ WF_vars(Program)

-----------------------------------------------------------------------------
(* Properties.                                                             *)

\* The old page stays in use after the write that marks it failed twice.
Orphaned == activePage # "NoPage" /\ status[activePage] # "ACTIVE"

\* Reads go to the page that the next boot would choose, and there is one: a
\* put that has returned is not undone by a reset (updateActivePage after a
\* swap, and what a page's status can be when the other page is in use).  The
\* only exception is an old page whose mark did not read back.
RamAgrees ==
    pc = "idle" =>
        /\ activePage # "NoPage"
        /\ activePage = FirstActive \/ status[activePage] = "garbage"

\* A swap never runs out of room: the records that are still to be written
\* fit behind those already written (capacity is half a page, so the indices,
\* and not the number of puts, bound what a swap writes).
SwapFits == pc = "copy" => End(destination) - 1 + Cardinality(todo) <= S

\* For the program that reads, the flash is a memory that resets do not
\* disturb, and a put of several bytes takes effect all at once or not at all
\* (the promises of eeprom_emulation.h to put): the pages, the records, every
\* order of writes, failing writes and resets implement AtomicMemory, while
\* the page in use is marked active.
Memory == INSTANCE AtomicMemory WITH
    Blank <- FLASH_ERASED,
    mem <- [i \in Indices |-> IF FirstActive = "NoPage" THEN FLASH_ERASED ELSE Value(FirstActive, i)],
    pending <- IF new = NoBlock THEN {} ELSE {new}

ImplementsMemory ==
    /\ Memory!MemInit
    /\ [][Orphaned \/ Memory!MemNext]_(Memory!memVars)

\* The program comes back from every put, from its swap of the pages and from
\* init, unless resets never end.
ComesBack == []<><<pc' = "boot">>_vars \/ []<>(pc = "idle")
=============================================================================
