-------------------------------- MODULE Dcd --------------------------------
(***************************************************************************)
(* The configuration data of services/inc/dcd.h: a block of bytes kept in  *)
(* one of two sectors of flash.  A write copies the block with its change  *)
(* to the other sector, makes that valid and then this one invalid.  One   *)
(* action per operation on the flash; a reset may strike between two of    *)
(* them or in the middle of one, or the operation fail in the middle, and  *)
(* the write then returns an error.                                        *)
(***************************************************************************)
EXTENDS Integers

CONSTANTS
    Length,      \* the bytes of the block
    Values       \* what a program writes

ASSUME LengthAssumption == Length \in Nat \ {0}
ASSUME ValuesAssumption == Values \subseteq 0 .. 255

Erased == 255
Offsets == 0 .. Length - 1
Data == Values \cup {0, Erased}

Sector_0 == 0
Sector_1 == 1
Sectors == {Sector_0, Sector_1}
NoSector == 2

SameSector(sector) == sector   \* mutated form of alternateSectorTo: written in place
alternateSectorTo(sector) == 1 - sector

\* "erased": nothing but 0xFF; "other": neither that nor one of the others.
Headers == {"erased", "other", "valid", "cleared"}

\* What a program may ask to write, and what is written.
Ranges == {range \in SUBSET (0 .. Length) : \E first, last \in 0 .. Length : range = first .. last}
Asked == UNION {[range -> Values] : range \in Ranges}
FitsLoosely(block) == \A i \in DOMAIN block : i <= Length   \* mutated form of Fits
Fits(block) == \A i \in DOMAIN block : i < Length
Blocks == {block \in Asked : Fits(block)}
NoBlock == [i \in {} |-> Erased]

VARIABLES
    header,      \* header[s]: the watermark and the seal of sector s
    data,        \* data[s]: the bytes behind it
    pc,          \* what the program does next
    current,     \* the sector in use when the write began
    new,         \* the block that is being written
    pointer,     \* the sector that read last returned a pointer into,
    seen,        \* what was behind the pointer then,
    writes       \* and the writes begun since, up to two

flash == <<header, data>>
reader == <<pointer, seen, writes>>
vars == <<flash, pc, current, new, reader>>

TypeOK ==
    /\ header \in [Sectors -> Headers]
    /\ data \in [Sectors -> [Offsets -> Data]]
    /\ pc \in {"idle", "initErase", "initHeader", "erase", "before", "data", "after",
               "header", "invalidate", "return"}
    /\ current \in Sectors
    /\ new \in Asked /\ DOMAIN new \subseteq Offsets
    /\ pointer \in Sectors \cup {NoSector}
    /\ seen \in [Offsets -> Data]
    /\ writes \in 0 .. 2

Blank == [i \in Offsets |-> Erased]

\* A flash that was never used, whatever it holds.
Init ==
    /\ header \in [Sectors -> {"erased", "other"}]
    /\ data \in [Sectors -> [Offsets -> Data]]
    /\ pc = "idle" /\ current = Sector_0 /\ new = NoBlock
    /\ pointer = NoSector /\ seen = Blank /\ writes = 0

-----------------------------------------------------------------------------

isValid(sector) == header[sector] = "valid"

isInitialized == \E s \in Sectors : isValid(s)

\* mutated form of currentSector: the first sector is preferred
FirstSector == IF isValid(Sector_0) THEN Sector_0 ELSE Sector_1
\* The sector that is read, once one is valid.
currentSector == IF isValid(Sector_1) THEN Sector_1 ELSE Sector_0

requiresErase(sector) == header[sector] # "erased" \/ data[sector] # Blank

\* The write or the read ends, at its end or because of a reset or an error.
Over == pc' = "idle" /\ new' = NoBlock

\* A reset in the middle of an operation, or an error of the flash.  Pointers
\* that were read do not outlive a reset.
Broken ==
    /\ Over
    /\ \/ pointer' = NoSector /\ UNCHANGED <<seen, writes>>
       \/ UNCHANGED reader
    /\ UNCHANGED current

SetHeader(sector, h) == header' = [header EXCEPT ![sector] = h] /\ UNCHANGED data

\* erase, if there is something to erase, and one that is cut off: the bytes
\* may be anything, the header as it was, erased or neither.
erase(sector) ==
    IF requiresErase(sector)
    THEN /\ header' = [header EXCEPT ![sector] = "erased"]
         /\ data' = [data EXCEPT ![sector] = Blank]
    ELSE UNCHANGED flash
EraseCut(sector) ==
    /\ requiresErase(sector)
    /\ \E h \in {header[sector], "erased", "other"} : header' = [header EXCEPT ![sector] = h]
    /\ \E bytes \in [Offsets -> Data] : data' = [data EXCEPT ![sector] = bytes]

\* Writing clears bits: a byte that was not erased keeps its value only if
\* that is what is written to it (0 stands for anything else).
Written(old, byte) == IF old \in {Erased, byte} THEN byte ELSE 0

\* The bytes at offsets are copied from source to the sector.
Write(sector, offsets, source) ==
    /\ data' = [data EXCEPT ![sector] = [i \in Offsets |->
                   IF i \in offsets THEN Written(@[i], source[i]) ELSE @[i]]]
    /\ UNCHANGED header

-----------------------------------------------------------------------------
(* initialize, when neither sector is valid.                               *)

InitErase ==
    /\ pc = "initErase"
    /\ \/ erase(Sector_0) /\ pc' = "initHeader" /\ UNCHANGED <<current, new, reader>>
       \/ EraseCut(Sector_0) /\ Broken

InitHeader ==
    /\ pc = "initHeader"
    /\ \/ /\ SetHeader(Sector_0, "valid")
          /\ pc' = IF new = NoBlock THEN "idle" ELSE "erase"
          /\ UNCHANGED <<current, new, reader>>
       \/ SetHeader(Sector_0, "other") /\ Broken

-----------------------------------------------------------------------------
(* read and write.                                                         *)

\* read initializes the flash, or returns a pointer into the current sector.
Read ==
    /\ pc = "idle"
    /\ IF isInitialized
       THEN /\ pointer' = currentSector /\ seen' = data[currentSector] /\ writes' = 0
            /\ UNCHANGED pc
       ELSE pc' = "initErase" /\ UNCHANGED reader
    /\ UNCHANGED <<flash, current, new>>

Begin(block) ==
    /\ pc = "idle"
    /\ block # NoBlock /\ Fits(block)
    /\ new' = block
    /\ current' = currentSector
    /\ pc' = IF isInitialized THEN "erase" ELSE "initErase"
    /\ writes' = IF writes < 2 THEN writes + 1 ELSE 2
    /\ UNCHANGED <<flash, pointer, seen>>

newSector == alternateSectorTo(current)

EraseNew ==
    /\ pc = "erase"
    /\ \/ erase(newSector) /\ pc' = "before" /\ UNCHANGED <<current, new, reader>>
       \/ EraseCut(newSector) /\ Broken

Before == {i \in Offsets : \A j \in DOMAIN new : i < j}
After == {i \in Offsets : \A j \in DOMAIN new : i > j}

\* The bytes of one of the three parts are written, all or some of them.
Copy(from, to, offsets, source) ==
    /\ pc = from
    /\ \/ Write(newSector, offsets, source) /\ pc' = to /\ UNCHANGED <<current, new, reader>>
       \/ (\E some \in SUBSET offsets : Write(newSector, some, source)) /\ Broken

CopyAll ==
    \/ Copy("before", "data", Before, data[current])
    \/ Copy("data", "after", DOMAIN new, new)
    \/ Copy("after", "header", After, data[current])

MakeValid ==
    /\ pc = "header"
    /\ \/ SetHeader(newSector, "valid") /\ pc' = "invalidate" /\ UNCHANGED <<current, new, reader>>
       \/ (\E h \in {"erased", "other"} : SetHeader(newSector, h)) /\ Broken

MakeInvalid ==
    /\ pc = "invalidate"
    /\ \/ SetHeader(current, "cleared") /\ pc' = "return" /\ UNCHANGED <<current, new, reader>>
       \/ (\E h \in {"valid", "other"} : SetHeader(current, h)) /\ Broken

Return == pc = "return" /\ Over /\ UNCHANGED <<flash, current, reader>>

\* A reset between two operations.
Reset == Broken /\ UNCHANGED flash

Next ==
    \/ InitErase \/ InitHeader \/ Read
    \/ \E block \in Asked : Begin(block)
    \/ EraseNew \/ CopyAll \/ MakeValid \/ MakeInvalid \/ Return
    \/ Reset

Spec == Init /\ [][Next]_vars

-----------------------------------------------------------------------------
(* Properties.                                                             *)

\* What a pointer that read returned points to does not change until the
\* second write after it begins: the first one leaves the sector's bytes
\* alone, valid or not.
PointerHolds == pointer # NoSector /\ writes < 2 => data[pointer] = seen

\* The block is a memory that resets do not disturb and that changes by whole
\* writes: of a write that is interrupted at any point, also while both
\* sectors are valid, all or nothing is read back, now and later.
Memory == INSTANCE AtomicMemory WITH
    Indices <- Offsets, Blank <- Erased, Puts <- Blocks \ {NoBlock},
    mem <- IF isInitialized THEN data[currentSector] ELSE Blank,
    pending <- IF new = NoBlock THEN {} ELSE {new}

ImplementsMemory == Memory!MemSpec
=============================================================================
