---------------------------- MODULE AtomicMemory ----------------------------
(***************************************************************************)
(* What the EEPROM emulation promises: bytes that keep their values over   *)
(* resets, and puts of several bytes of which all or none is read back,    *)
(* whenever a reset strikes.  Pages, records and flash are absent.         *)
(***************************************************************************)
EXTENDS Integers

CONSTANTS
    Indices,     \* the bytes
    Data,        \* what a byte can hold
    Blank,       \* the value of a byte that was never put
    Puts         \* the blocks that can be put: functions from some indices to data

VARIABLES
    mem,         \* mem[i]: the value of byte i
    pending      \* {f} while block f is being put, else {}

memVars == <<mem, pending>>

\* The memory with block f in it.
With(f) == [i \in Indices |-> IF i \in DOMAIN f THEN f[i] ELSE mem[i]]

MemInit == mem = [i \in Indices |-> Blank] /\ pending = {}

Begin(f) ==
    /\ pending = {}
    /\ pending' = {f}
    /\ UNCHANGED mem

\* The block takes effect, all of it.
Take(f) ==
    /\ pending = {f}
    /\ mem' = With(f)
    /\ UNCHANGED pending

\* put returns, once the block has taken effect.
Return(f) ==
    /\ pending = {f}
    /\ mem = With(f)
    /\ pending' = {}
    /\ UNCHANGED mem

\* A reset: the block has taken effect, or takes effect now, or never will.
Reset ==
    /\ pending' = {}
    /\ mem' \in {mem} \cup {With(f) : f \in pending}

MemNext == Reset \/ \E f \in Puts : Begin(f) \/ Take(f) \/ Return(f)

MemSpec == MemInit /\ [][MemNext]_memVars
=============================================================================
