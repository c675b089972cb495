------------------------- MODULE CloudSessionProofs -------------------------
(* Theorems about CloudSession, for files of any length, any timeouts and    *)
(* any bounds.                                                               *)
EXTENDS CloudSession, WellFoundedInduction, FiniteSetTheorems, TLAPS

\* A file that has been completed is not being transferred, and chunks are
\* asked for only while some are missing.
PhaseInv ==
    /\ complete => updating = 0
    /\ updating = 2 => ~ (Chunks \subseteq received)

\* In a fast transfer the bitmap tells which places of the flash are right.
FastInv == fast /\ updating # 0 => \A i \in received : content[i] = i

\* In a slow transfer the bitmap tells nothing: all bits are set.  The places
\* before chunk_index are right because only the chunk that belongs there is
\* under way, and the server is done only when there is no such chunk left.
\* This holds as long as the session: an UPDATE_BEGIN whose acknowledgement
\* cannot be sent makes the transfer slow while the last one is under way.
SlowInv ==
    up /\ updating # 0 /\ ~fast =>
        /\ received = Chunks
        /\ \A j \in Chunks : j < chunk_index => content[j] = j
        /\ \A i \in Chunks : copies[i] > 0 => i = chunk_index /\ copies[i] = 1
        /\ done => chunk_index = Count

FlashInv == PhaseInv /\ FastInv /\ SlowInv /\ Whole

\* How often a message that is not about a chunk can still make the event loop
\* turn without a call of idle.
Turns == MaxStarts - starts + (IF begin = "none" THEN 0 ELSE 1)

\* While the device waits for chunks that it has not asked for again, the timer
\* counts no more than the ticks until it asks and those of the turns that keep
\* it from asking.
Waiting == up /\ updating = 2 /\ ~requested

InTime ==
    /\ chunkAge <= ChunkTimeout => timer <= chunkAge
    /\ timer + (MaxBlocked - blocked) + MaxBlocked * Turns
           <= ChunkTimeout + MaxBlocked * (MaxStarts + 1)

AskInv == (begin # "none" => starts > 0) /\ (Waiting => InTime)

Inv == TypeOK /\ TimerRuns /\ FlashInv

-----------------------------------------------------------------------------
(* Chunks that are missing.                                                *)

\* A set of naturals that is not empty has a least element,
LEMMA LeastNatural ==
    ASSUME NEW T \in SUBSET Nat, T # {}
    PROVE  \E x \in T : \A y \in T : x <= y
<1>1. PICK x \in T : \A y \in T : ~ (<<y, x>> \in OpToRel(<, Nat))
  BY NatLessThanWellFounded, WFMin
<1>2. \A y \in T : ~ (y < x)
  BY <1>1 DEF OpToRel
<1> QED
  BY <1>2

\* and one that is bounded a greatest.
LEMMA GreatestNatural ==
    ASSUME NEW n \in Nat, NEW T \in SUBSET (0 .. n), T # {}
    PROVE  Max(T) \in T
<1> DEFINE D == {n - x : x \in T}
<1>0. \A x \in T : n - x \in Nat
  OBVIOUS
<1>1. D \in SUBSET Nat /\ D # {}
  BY <1>0
<1> HIDE DEF D
<1>2. PICK d \in D : \A y \in D : d <= y
  BY <1>1, LeastNatural
<1>3. PICK x \in T : d = n - x
  BY <1>2 DEF D
<1>4. \A y \in T : n - y \in D
  BY DEF D
<1>5. \A y \in T : x >= y
  BY <1>2, <1>3, <1>4
<1> QED
  BY <1>5 DEF Max

\* The last chunk to be asked for is a chunk, if any is missing.
LEMMA MissingFacts ==
    ASSUME NEW got, ~ (Chunks \subseteq got)
    PROVE  Max(Missing(got)) \in Chunks
<1>1. Chunks \ got \in SUBSET Nat /\ Chunks \ got # {}
  BY CountAssumption DEF Chunks
<1>2. PICK i \in Chunks \ got : \A j \in Chunks \ got : i <= j
  BY <1>1, LeastNatural
<1>3. {j \in Chunks \ got : j < i} = {}
  BY <1>1, <1>2
<1>4. Cardinality({j \in Chunks \ got : j < i}) < MISSED_CHUNKS_TO_SEND
  BY <1>3, FS_EmptySet, BoundAssumption
<1>5. i \in Missing(got)
  BY <1>2, <1>4 DEF Missing
<1>6. Missing(got) \in SUBSET (0 .. Count - 1) /\ Missing(got) \subseteq Chunks
  BY DEF Missing, Chunks
<1>7. Count - 1 \in Nat
  BY CountAssumption
<1> QED
  BY <1>5, <1>6, <1>7, GreatestNatural

\* NO_CHUNKS_MISSING is returned when there are none.
LEMMA NextMissing ==
    ASSUME NEW got
    PROVE  next_chunk_missing(got) = Nothing <=> Chunks \subseteq got
<1>1. CASE Chunks \subseteq got
  BY <1>1 DEF next_chunk_missing
<1>2. CASE ~ (Chunks \subseteq got)
  <2>1. Chunks \ got \in SUBSET Nat /\ Chunks \ got # {}
    BY <1>2, CountAssumption DEF Chunks
  <2>2. \E i \in Chunks \ got : \A j \in Chunks \ got : i <= j
    BY <2>1, LeastNatural
  <2>3. Min(Chunks \ got) \in Chunks
    BY <2>2 DEF Min
  <2>4. Nothing \notin Chunks
    BY CountAssumption DEF Nothing, Chunks
  <2> QED
    BY <1>2, <2>3, <2>4 DEF next_chunk_missing
<1> QED
  BY <1>1, <1>2

-----------------------------------------------------------------------------
(* The parts of the actions.                                               *)

\* The constants and what is made of them.
LEMMA ConstantFacts ==
    /\ Count \in Nat /\ Count > 0 /\ 0 \in Chunks /\ Chunks \subseteq Int
    /\ \A i \in Chunks : 0 <= i /\ i < Count /\ i + 1 \in 0 .. Count /\ i \in 0 .. Count
    /\ Nothing = Count /\ Count \in 0 .. Count
    /\ Off = FlashTimeout + 1 /\ FlashTimeout \in Nat /\ Off \in 0 .. Off /\ 0 \in 0 .. Off /\ 0 # Off
    /\ Ancient = ChunkTimeout + 1 /\ ChunkTimeout \in Nat
    /\ Ancient \in 0 .. ChunkTimeout + 1 /\ 0 \in 0 .. ChunkTimeout + 1
    /\ Silent \in Nat /\ 0 \in 0 .. Silent
    /\ MaxBlocked \in Nat /\ 0 \in 0 .. MaxBlocked
    /\ MaxCopies \in Nat /\ MaxCopies > 0 /\ 0 \in 0 .. MaxCopies /\ 1 \in 0 .. MaxCopies
    /\ MaxStarts \in Nat
BY CountAssumption, TimeAssumption, BoundAssumption
   DEF Chunks, Nothing, Off, Ancient, Silent

\* Nothing under way, and erased flash.
LEMMA NoneType ==
    NoCopies \in [Chunks -> 0 .. MaxCopies] /\ [i \in Chunks |-> Nothing] \in [Chunks -> 0 .. Count]
BY ConstantFacts DEF NoCopies

\* The end of a session.
LEMMA ErrorType ==
    ASSUME NEW phase, NEW time \in 0 .. Off, Error(phase, time)
    PROVE  up' \in BOOLEAN /\ timer' \in 0 .. Off
BY ConstantFacts DEF Error, cancel

\* Copies that are taken from the network, and sent to it, are counted.
LEMMA CopiesType ==
    ASSUME copies \in [Chunks -> 0 .. MaxCopies], NEW i \in Chunks, copies[i] > 0
    PROVE  Without(i) \in [Chunks -> 0 .. MaxCopies]
<1>1. copies[i] - 1 \in 0 .. MaxCopies
  BY ConstantFacts
<1> QED
  BY <1>1 DEF Without

LEMMA SentType ==
    ASSUME NEW under \in [Chunks -> 0 .. MaxCopies], NEW sent
    PROVE  With(sent, under) \in [Chunks -> 0 .. MaxCopies]
<1>1. \A i \in Chunks : under[i] < MaxCopies => under[i] + 1 \in 0 .. MaxCopies
  BY ConstantFacts
<1> QED
  BY <1>1 DEF With

\* Asking for the chunks that are missing.
LEMMA SendMissingType ==
    ASSUME NEW got, ~ (Chunks \subseteq got),
           NEW under \in [Chunks -> 0 .. MaxCopies], NEW sent, SendMissing(got, under, sent)
    PROVE  /\ missed_chunk_index' \in Chunks /\ requested' \in BOOLEAN
           /\ copies' \in [Chunks -> 0 .. MaxCopies]
BY MissingFacts, SentType DEF SendMissing

\* A message of the server's.
LEMMA HeardType ==
    ASSUME Heard
    PROVE  /\ messageAge' \in 0 .. Silent /\ expecting_ping_ack' \in BOOLEAN
           /\ blocked' \in 0 .. MaxBlocked
BY ConstantFacts DEF Heard

\* What becomes of the types when a chunk is saved.
LEMMA SaveType ==
    ASSUME TypeOK, NEW i \in Chunks, Save(i)
    PROVE  /\ content' \in [Chunks -> 0 .. Count] /\ received' \subseteq Chunks
           /\ chunk_index' \in 0 .. Count
           /\ Place(i) \in Chunks /\ Without(i) \in [Chunks -> 0 .. MaxCopies]
BY ConstantFacts, CopiesType DEF TypeOK, Save

\* Chunks are missing whenever they are asked for, so there is a last one.
LEMMA TypeStep == TypeOK /\ PhaseInv /\ [Next]_vars => TypeOK'
<1> SUFFICES ASSUME TypeOK, PhaseInv, [Next]_vars
             PROVE  TypeOK'
  OBVIOUS
<1> USE ConstantFacts
<1>1. CASE Establish
  <2>1. /\ updating' \in 0 .. 2 /\ chunk_index' \in 0 .. Count /\ timer' \in 0 .. Off
        /\ chunkAge' \in 0 .. ChunkTimeout + 1 /\ messageAge' \in 0 .. Silent /\ blocked' \in 0 .. MaxBlocked
    BY <1>1 DEF Establish, TypeOK, flash
  <2>2. content' \in [Chunks -> 0 .. Count] /\ copies' \in [Chunks -> 0 .. MaxCopies]
    BY <1>1, NoneType DEF Establish, TypeOK, flash
  <2> QED
    BY <1>1, <2>1, <2>2 DEF Establish, TypeOK, flash
<1>2. CASE cloud_disconnect
  BY <1>2 DEF cloud_disconnect, TypeOK, transfer, pinger, flash, network
<1>3. CASE StartTransfer
  BY <1>3 DEF StartTransfer, TypeOK, transfer, pinger, flash
<1>4. CASE HandleOther
  BY <1>4, HeardType DEF HandleOther, TypeOK, transfer, flash
<1>5. CASE RefuseUpdate
  BY <1>5, HeardType DEF RefuseUpdate, TypeOK, transfer, flash, Error, cancel
<1>6. CASE handle_update_begin
  <2>1. /\ begin' \in {"none", "slow", "fast"} /\ fast' \in BOOLEAN /\ received' \subseteq Chunks
        /\ updating' \in 0 .. 2 /\ chunk_index' \in 0 .. Count /\ chunkAge' \in 0 .. ChunkTimeout + 1
        /\ content' \in [Chunks -> 0 .. Count] /\ complete' \in BOOLEAN /\ requested' \in BOOLEAN
    <3>1. fast' \in BOOLEAN
      BY <1>6 DEF handle_update_begin
    <3>2. Unreceived(fast') \subseteq Chunks
      BY DEF Unreceived
    <3>3. content' \in [Chunks -> 0 .. Count]
      BY <1>6, NoneType DEF handle_update_begin
    <3>4. updating' \in 0 .. 2 /\ chunk_index' \in 0 .. Count /\ chunkAge' \in 0 .. ChunkTimeout + 1
      BY <1>6 DEF handle_update_begin
    <3> QED
      BY <1>6, <3>1, <3>2, <3>3, <3>4 DEF handle_update_begin
  <2>2. up' \in BOOLEAN /\ timer' \in 0 .. Off /\ done' \in BOOLEAN
    BY <1>6, <2>1 DEF handle_update_begin, Error, cancel, TypeOK
  <2>3. copies' \in [Chunks -> 0 .. MaxCopies]
    <3>1. [i \in Chunks |-> IF fast' \/ i = 0 THEN 1 ELSE 0] \in [Chunks -> 0 .. MaxCopies]
      OBVIOUS
    <3> QED
      BY <1>6, <3>1 DEF handle_update_begin, TypeOK
  <2> QED
    BY <1>6, <2>1, <2>2, <2>3, HeardType DEF handle_update_begin, TypeOK
<1>7. CASE handle_update_done
  <2>1. CASE Error(updating, timer) /\ UNCHANGED <<transfer, flash, copies>>
    <3>1. up' \in BOOLEAN /\ timer' \in 0 .. Off
      BY <2>1, ErrorType DEF TypeOK
    <3> QED
      BY <1>7, <2>1, <3>1, HeardType DEF handle_update_done, TypeOK, transfer, flash
  <2>2. CASE /\ updating' = 0 /\ chunkAge' = Ancient /\ timer' = Off /\ complete' = TRUE
             /\ UNCHANGED <<up, received, chunk_index, missed_chunk_index, content, requested, copies>>
    <3>1. /\ updating' \in 0 .. 2 /\ chunk_index' \in 0 .. Count /\ timer' \in 0 .. Off
          /\ chunkAge' \in 0 .. ChunkTimeout + 1
      BY <2>2 DEF TypeOK
    <3> QED
      BY <1>7, <2>2, <3>1, HeardType DEF handle_update_done, TypeOK
  <2>3. CASE /\ updating # 0 /\ next_chunk_missing(received) # Nothing
             /\ updating' = 2 /\ chunkAge' = 0
             /\ \E sent \in BOOLEAN :
                   /\ SendMissing(received, copies, sent)
                   /\ IF sent THEN UNCHANGED <<up, timer>> ELSE Error(updating', timer)
             /\ UNCHANGED <<received, chunk_index, content, complete>>
    <3>1. /\ missed_chunk_index' \in Chunks /\ requested' \in BOOLEAN
          /\ copies' \in [Chunks -> 0 .. MaxCopies]
      BY <2>3, NextMissing, SendMissingType DEF TypeOK
    <3>2. up' \in BOOLEAN /\ timer' \in 0 .. Off
      BY <2>3 DEF TypeOK, Error, cancel
    <3>3. /\ updating' \in 0 .. 2 /\ chunkAge' \in 0 .. ChunkTimeout + 1
          /\ UNCHANGED <<received, chunk_index, content, complete, begin, fast, starts>> /\ done' = FALSE
      BY <1>7, <2>3 DEF handle_update_done
    <3> QED
      BY <1>7, <3>1, <3>2, <3>3, HeardType DEF handle_update_done, TypeOK
  <2> QED
    BY <1>7, <2>1, <2>2, <2>3 DEF handle_update_done
<1>8. ASSUME NEW i \in Chunks, Lose(i)
      PROVE  TypeOK'
  BY <1>8, CopiesType DEF Lose, TypeOK, transfer, pinger, flash
<1>9. ASSUME NEW i \in Chunks, StrayChunk(i)
      PROVE  TypeOK'
  BY <1>9, CopiesType, HeardType DEF StrayChunk, TypeOK, flash, Error, cancel
<1>10. ASSUME NEW i \in Chunks, BadChunk(i)
       PROVE  TypeOK'
  <2>1. copies' \in [Chunks -> 0 .. MaxCopies] /\ chunk_index' \in 0 .. Count
    BY <1>10, CopiesType DEF BadChunk, TypeOK
  <2>2. up' \in BOOLEAN /\ timer' \in 0 .. Off
    BY <1>10 DEF BadChunk, TypeOK, Error, cancel
  <2> QED
    BY <1>10, <2>1, <2>2, HeardType DEF BadChunk, TypeOK
<1>11. ASSUME NEW i \in Chunks, handle_chunk(i)
       PROVE  TypeOK'
  <2>1. copies' \in [Chunks -> 0 .. MaxCopies]
    BY <1>11, SaveType, SentType DEF handle_chunk
  <2>2. up' \in BOOLEAN /\ timer' \in 0 .. Off /\ done' \in BOOLEAN
    BY <1>11 DEF handle_chunk, TypeOK, Error, cancel
  <2> QED
    BY <1>11, <2>1, <2>2, HeardType, SaveType DEF handle_chunk, Save, TypeOK
<1>12. ASSUME NEW i \in Chunks, handle_missed_chunk(i)
       PROVE  TypeOK'
  <2>1. /\ copies' \in [Chunks -> 0 .. MaxCopies] /\ missed_chunk_index' \in Chunks
        /\ requested' \in BOOLEAN
    <3>1. ~ (Chunks \subseteq received')
      BY <1>12, NextMissing DEF handle_missed_chunk
    <3>2. Without(i) \in [Chunks -> 0 .. MaxCopies]
      BY <1>12, SaveType DEF handle_missed_chunk
    <3> QED
      BY <1>12, <3>1, <3>2, SendMissingType DEF handle_missed_chunk, TypeOK
  <2> QED
    BY <1>12, <2>1, HeardType, SaveType DEF handle_missed_chunk, Save, TypeOK
<1>13. ASSUME NEW i \in Chunks, handle_last_chunk(i)
       PROVE  TypeOK'
  <2>1. /\ updating' \in 0 .. 2 /\ chunk_index' \in 0 .. Count /\ timer' \in 0 .. Off
        /\ chunkAge' \in 0 .. ChunkTimeout + 1 /\ messageAge' \in 0 .. Silent /\ blocked' \in 0 .. MaxBlocked
    <3>1. updating' = 0 /\ chunkAge' = Ancient /\ timer' = Off
      BY <1>13 DEF handle_last_chunk, Error, cancel
    <3>2. chunk_index' \in 0 .. Count
      BY <1>13, SaveType DEF handle_last_chunk
    <3>3. messageAge' \in 0 .. Silent /\ blocked' \in 0 .. MaxBlocked
      BY <1>13, HeardType DEF handle_last_chunk, Save
    <3> QED
      BY <3>1, <3>2, <3>3
  <2>2. content' \in [Chunks -> 0 .. Count] /\ copies' \in [Chunks -> 0 .. MaxCopies]
    BY <1>13, NoneType, HeardType, SaveType DEF handle_last_chunk, TypeOK, Save, Error, cancel
  <2> QED
    BY <1>13, <2>1, <2>2, HeardType, SaveType DEF handle_last_chunk, TypeOK, Save, Error, cancel
<1>14. CASE TransferIdle
  <2>1. /\ copies' \in [Chunks -> 0 .. MaxCopies] /\ missed_chunk_index' \in Chunks
        /\ requested' \in BOOLEAN
    <3>1. CASE Resends
      <4>1. ~ (Chunks \subseteq received)
        BY <3>1 DEF Resends, PhaseInv
      <4> QED
        BY <1>14, <3>1, <4>1, SendMissingType DEF TransferIdle, TypeOK
    <3> QED
      BY <1>14, <3>1 DEF TransferIdle, TypeOK
  <2>2. up' \in BOOLEAN /\ timer' \in 0 .. Off /\ chunkAge' \in 0 .. ChunkTimeout + 1
    BY <1>14 DEF TransferIdle, TypeOK, Error, cancel
  <2> QED
    BY <1>14, <2>1, <2>2 DEF TransferIdle, TypeOK, pinger
<1>15. CASE PingIdle
  BY <1>15 DEF PingIdle, TypeOK, transfer, pinger, flash, network, Error, cancel
<1>16. CASE Tick
  <2>1. timer' \in 0 .. Off
    BY <1>16 DEF Tick, TypeOK, Counted
  <2>2. chunkAge' \in 0 .. ChunkTimeout + 1 /\ messageAge' \in 0 .. Silent /\ blocked' \in 0 .. MaxBlocked
    BY <1>16 DEF Tick, TypeOK, Older
  <2> QED
    BY <1>16, <2>1, <2>2 DEF Tick, TypeOK, flash, network
<1>17. CASE FlashTimedOut
  <2>1. /\ updating' \in 0 .. 2 /\ chunk_index' \in 0 .. Count /\ timer' \in 0 .. Off
        /\ chunkAge' \in 0 .. ChunkTimeout + 1 /\ messageAge' \in 0 .. Silent /\ blocked' \in 0 .. MaxBlocked
    BY <1>17 DEF FlashTimedOut, TypeOK, flash, network
  <2>2. content' \in [Chunks -> 0 .. Count] /\ copies' \in [Chunks -> 0 .. MaxCopies]
    BY <1>17, NoneType DEF FlashTimedOut, TypeOK, flash, network
  <2> QED
    BY <1>17, <2>1, <2>2 DEF FlashTimedOut, TypeOK, flash, network
<1>18. CASE UNCHANGED vars
  BY <1>18 DEF vars, TypeOK, transfer, pinger, flash, network
<1> QED
  BY <1>1, <1>2, <1>3, <1>4, <1>5, <1>6, <1>7, <1>8, <1>9, <1>10, <1>11, <1>12, <1>13,
     <1>14, <1>15, <1>16, <1>17, <1>18 DEF Next, Idle

\* The timer is started with the transfer, and stopped with it or with the
\* session.
LEMMA TimerStep == TypeOK /\ TimerRuns /\ [Next]_vars => TimerRuns'
<1> SUFFICES ASSUME TypeOK, TimerRuns, [Next]_vars
             PROVE  TimerRuns'
  OBVIOUS
<1> USE DEF TimerRuns
<1>a. Off # 0 /\ Off # FlashTimeout /\ FlashTimeout \in Nat
  BY ConstantFacts
<1>b. ASSUME NEW phase, NEW time, Error(phase, time), phase = 0 => time = Off
      PROVE  ~up' /\ timer' = Off
  BY <1>b DEF Error, cancel
<1>c. up \/ timer = Off
  OBVIOUS
<1>1. CASE Establish
  BY <1>1 DEF Establish
<1>2. CASE cloud_disconnect
  BY <1>2 DEF cloud_disconnect
<1>3. CASE StartTransfer
  BY <1>3 DEF StartTransfer, transfer
<1>4. CASE HandleOther
  BY <1>4 DEF HandleOther, transfer
<1>5. CASE RefuseUpdate
  BY <1>5, <1>b DEF RefuseUpdate, transfer
<1>6. CASE handle_update_begin
  <2>1. CASE timer' = 0 /\ UNCHANGED up
    BY <1>6, <1>a, <2>1 DEF handle_update_begin
  <2>2. CASE Error(1, 0)
    BY <1>a, <2>2, <1>b
  <2> QED
    BY <1>6, <2>1, <2>2 DEF handle_update_begin
<1>7. CASE handle_update_done
  <2>1. CASE Error(updating, timer) /\ UNCHANGED updating
    BY <2>1, <1>b
  <2>2. CASE updating' = 0 /\ timer' = Off
    BY <2>2
  <2>3. CASE updating # 0 /\ updating' = 2 /\ UNCHANGED <<up, timer>>
    BY <2>3
  <2>4. CASE updating' = 2 /\ Error(updating', timer)
    BY <2>4, <1>b
  <2> QED
    BY <1>7, <2>1, <2>2, <2>3, <2>4 DEF handle_update_done, transfer
<1>8. ASSUME NEW i \in Chunks, Lose(i)
      PROVE  TimerRuns'
  BY <1>8 DEF Lose, transfer
<1>9. ASSUME NEW i \in Chunks, StrayChunk(i)
      PROVE  TimerRuns'
  BY <1>9, <1>b DEF StrayChunk
<1>10. ASSUME NEW i \in Chunks, BadChunk(i)
       PROVE  TimerRuns'
  BY <1>10, <1>b DEF BadChunk
<1>11. ASSUME NEW i \in Chunks, handle_chunk(i)
       PROVE  TimerRuns'
  <2>1. updating = 1 /\ updating' = 1 /\ up
    BY <1>11 DEF handle_chunk, Save
  <2>2. CASE timer' = 0 /\ UNCHANGED up
    BY <1>a, <2>1, <2>2
  <2>3. CASE Error(updating, 0)
    BY <2>1, <2>3, <1>b
  <2> QED
    BY <1>11, <2>2, <2>3 DEF handle_chunk
<1>12. ASSUME NEW i \in Chunks, handle_missed_chunk(i)
       PROVE  TimerRuns'
  BY <1>12, <1>a DEF handle_missed_chunk, Save
<1>13. ASSUME NEW i \in Chunks, handle_last_chunk(i)
       PROVE  TimerRuns'
  BY <1>13, <1>b DEF handle_last_chunk
<1>14. CASE TransferIdle
  BY <1>14, <1>b DEF TransferIdle
<1>15. CASE PingIdle
  BY <1>15, <1>b DEF PingIdle, transfer
<1>16. CASE Tick
  <2>1. timer \in 0 .. Off /\ timer # FlashTimeout
    BY <1>16 DEF Tick, TypeOK
  <2>2. Counted(timer) = Off <=> timer = Off
    BY <2>1, ConstantFacts DEF Counted
  <2> QED
    BY <1>16, <2>2 DEF Tick
<1>17. CASE FlashTimedOut
  BY <1>17 DEF FlashTimedOut
<1>18. CASE UNCHANGED vars
  BY <1>18 DEF vars, transfer
<1> QED
  BY <1>1, <1>2, <1>3, <1>4, <1>5, <1>6, <1>7, <1>8, <1>9, <1>10, <1>11, <1>12, <1>13,
     <1>14, <1>15, <1>16, <1>17, <1>18 DEF Next, Idle

\* Nothing of the transfer changes that a slow one, or its session, relies on.
LEMMA Kept ==
    ASSUME FlashInv, UNCHANGED <<content, complete, received, updating, fast>>,
           ~up' \/ fast \/ updating = 0 \/ UNCHANGED <<up, copies, done, chunk_index>>
    PROVE  FlashInv'
<1>1. PhaseInv' /\ FastInv' /\ Whole'
  BY DEF FlashInv, PhaseInv, FastInv, Whole
<1>2. SlowInv'
  <2>1. CASE ~up' \/ fast \/ updating = 0
    BY <2>1 DEF SlowInv
  <2>2. CASE UNCHANGED <<up, copies, done, chunk_index>>
    BY <2>2 DEF FlashInv, SlowInv
  <2> QED
    BY <2>1, <2>2
<1> QED
  BY <1>1, <1>2 DEF FlashInv

\* The transfer is forgotten, the file is not.
LEMMA Forgotten ==
    ASSUME FlashInv, updating' = 0, UNCHANGED <<content, complete>>
    PROVE  FlashInv'
BY DEF FlashInv, PhaseInv, FastInv, SlowInv, Whole

\* Chunks that are missing are asked for in fast transfers only.
LEMMA AskingIsFast == FlashInv /\ up /\ updating = 2 => fast
BY DEF FlashInv, PhaseInv, SlowInv

\* A chunk of a fast transfer is saved where it belongs.
LEMMA FastSave ==
    ASSUME TypeOK, FlashInv, fast, updating # 0, NEW i \in Chunks, Save(i)
    PROVE  \A j \in received' : content'[j] = j
<1>1. /\ content' = [content EXCEPT ![i] = i] /\ received' = received \cup {i}
      /\ content \in [Chunks -> 0 .. Count]
  BY DEF Save, Place, TypeOK
<1>2. \A j \in received : j \in Chunks /\ content[j] = j
  BY DEF FlashInv, FastInv, TypeOK
<1> QED
  BY <1>1, <1>2

\* A chunk of a slow transfer is saved after the ones before it.
LEMMA SlowSave ==
    ASSUME TypeOK, FlashInv, ~fast, updating # 0, NEW i \in Chunks, Save(i)
    PROVE  /\ received = Chunks /\ received' = Chunks
           /\ i = chunk_index /\ chunk_index' = i + 1
           /\ copies[i] = 1 /\ \A j \in Chunks : j # i => copies[j] = 0
           /\ \A j \in Chunks : j < i + 1 => content'[j] = j
<1>1. /\ up /\ copies[i] > 0 /\ chunk_index \in Chunks
      /\ content' = [content EXCEPT ![chunk_index] = i]
      /\ received' = received \cup {chunk_index} /\ chunk_index' = chunk_index + 1
  BY DEF Save, Place
<1>2. /\ received = Chunks /\ \A j \in Chunks : j < chunk_index => content[j] = j
      /\ \A j \in Chunks : copies[j] > 0 => j = chunk_index /\ copies[j] = 1
  BY <1>1 DEF FlashInv, SlowInv
<1>3. content \in [Chunks -> 0 .. Count] /\ \A j \in Chunks : copies[j] \in 0 .. MaxCopies
  BY DEF TypeOK
<1>4. i = chunk_index /\ copies[i] = 1 /\ \A j \in Chunks : j # i => copies[j] = 0
  BY <1>1, <1>2, <1>3, ConstantFacts
<1>5. \A j \in Chunks : j < i + 1 => j < i \/ j = i
  BY ConstantFacts
<1> QED
  BY <1>1, <1>2, <1>3, <1>4, <1>5

\* What is in the flash, whatever was lost before.
LEMMA FlashStep == TypeOK /\ FlashInv /\ [Next]_vars => FlashInv'
<1> SUFFICES ASSUME TypeOK, FlashInv, [Next]_vars
             PROVE  FlashInv'
  OBVIOUS
<1>a. \A phase, time : Error(phase, time) => ~up'
  BY DEF Error
<1>1. CASE Establish
  BY <1>1, Forgotten DEF Establish, flash
<1>2. CASE cloud_disconnect
  BY <1>2, Kept DEF cloud_disconnect, transfer, flash, network
<1>3. CASE StartTransfer
  BY <1>3, Kept DEF StartTransfer, transfer, flash
<1>4. CASE HandleOther
  BY <1>4, Kept DEF HandleOther, transfer, flash
<1>5. CASE RefuseUpdate
  BY <1>5, <1>a, Kept DEF RefuseUpdate, transfer, flash
<1>6. CASE handle_update_begin
  <2>1. /\ updating' = 1 /\ chunk_index' = 0 /\ received' = Unreceived(fast') /\ complete' = FALSE
        /\ fast' \in BOOLEAN
    BY <1>6 DEF handle_update_begin
  <2>2. PhaseInv' /\ Whole' /\ FastInv'
    BY <2>1 DEF PhaseInv, Whole, FastInv, Unreceived
  <2>3. SlowInv'
    <3>1. SUFFICES ASSUME up', ~fast'
                   PROVE  /\ received' = Chunks
                          /\ \A j \in Chunks : j < chunk_index' => content'[j] = j
                          /\ \A j \in Chunks : copies'[j] > 0 => j = chunk_index' /\ copies'[j] = 1
                          /\ done' => chunk_index' = Count
      BY DEF SlowInv
    <3>2. copies' = [j \in Chunks |-> IF fast' \/ j = 0 THEN 1 ELSE 0] /\ done' = fast'
      BY <1>6, <1>a, <3>1 DEF handle_update_begin
    <3>3. \A j \in Chunks : copies'[j] = IF j = 0 THEN 1 ELSE 0
      BY <3>1, <3>2
    <3>4. \A j \in Chunks : ~ (j < 0)
      BY ConstantFacts
    <3> QED
      BY <2>1, <3>1, <3>2, <3>3, <3>4 DEF Unreceived
  <2> QED
    BY <2>2, <2>3 DEF FlashInv
<1>7. CASE handle_update_done
  <2>1. up /\ done /\ UNCHANGED fast
    BY <1>7 DEF handle_update_done
  <2>2. CASE Error(updating, timer) /\ UNCHANGED <<transfer, flash, copies>>
    BY <1>a, <2>1, <2>2, Kept DEF transfer, flash
  <2>3. CASE /\ updating # 0 /\ next_chunk_missing(received) = Nothing
             /\ updating' = 0 /\ complete' = TRUE /\ UNCHANGED content
    <3>1. Chunks \subseteq received
      BY <2>3, NextMissing
    <3>2. CASE fast
      BY <2>3, <3>1, <3>2 DEF FlashInv, FastInv, PhaseInv, SlowInv, Whole
    <3>3. CASE ~fast
      <4>1. \A j \in Chunks : content[j] = j
        BY <2>1, <2>3, <3>3, ConstantFacts DEF FlashInv, SlowInv
      <4> QED
        BY <2>3, <4>1 DEF FlashInv, FastInv, PhaseInv, SlowInv, Whole
    <3> QED
      BY <3>2, <3>3
  <2>4. CASE /\ updating # 0 /\ next_chunk_missing(received) # Nothing
             /\ updating' = 2 /\ UNCHANGED <<received, chunk_index, content, complete>>
    <3>1. ~ (Chunks \subseteq received)
      BY <2>4, NextMissing
    <3>2. fast
      BY <2>1, <2>4, <3>1 DEF FlashInv, SlowInv
    <3> QED
      BY <2>1, <2>4, <3>1, <3>2 DEF FlashInv, FastInv, PhaseInv, SlowInv, Whole
  <2> QED
    BY <1>7, <2>2, <2>3, <2>4 DEF handle_update_done
<1>8. ASSUME NEW i \in Chunks, Lose(i)
      PROVE  FlashInv'
  BY <1>8, Kept DEF Lose, transfer, flash
<1>9. ASSUME NEW i \in Chunks, StrayChunk(i)
      PROVE  FlashInv'
  BY <1>9, Kept DEF StrayChunk, flash
<1>10. ASSUME NEW i \in Chunks, BadChunk(i)
       PROVE  FlashInv'
  BY <1>10, <1>a, Kept DEF BadChunk
<1>11. ASSUME NEW i \in Chunks, handle_chunk(i)
       PROVE  FlashInv'
  <2>1. /\ updating = 1 /\ updating' = 1 /\ Save(i) /\ UNCHANGED <<complete, fast>>
    BY <1>11 DEF handle_chunk
  <2>2. PhaseInv' /\ Whole'
    BY <2>1 DEF FlashInv, PhaseInv, Whole
  <2>3. FastInv'
    BY <2>1, FastSave DEF FastInv
  <2>4. SlowInv'
    <3>1. SUFFICES ASSUME up', ~fast'
                   PROVE  /\ received' = Chunks
                          /\ \A j \in Chunks : j < chunk_index' => content'[j] = j
                          /\ \A j \in Chunks : copies'[j] > 0 => j = chunk_index' /\ copies'[j] = 1
                          /\ done' => chunk_index' = Count
      BY DEF SlowInv
    <3>2. ~fast /\ up
      BY <2>1, <3>1 DEF Save
    <3>3. /\ received = Chunks /\ received' = Chunks /\ i = chunk_index /\ chunk_index' = i + 1
          /\ copies[i] = 1 /\ \A j \in Chunks : j # i => copies[j] = 0
          /\ \A j \in Chunks : j < i + 1 => content'[j] = j
      BY <2>1, <3>2, SlowSave
    <3>4. /\ copies' = IF i + 1 = Count THEN Without(i) ELSE With({i + 1}, Without(i))
          /\ done' = (done \/ i + 1 = Count)
      BY <1>11, <1>a, <3>1, <3>2 DEF handle_chunk
    <3>5. \A j \in Chunks : Without(i)[j] = 0
      BY <3>3 DEF Without, TypeOK
    <3>6. done => i + 1 = Count
      BY <2>1, <3>2, <3>3, ConstantFacts DEF FlashInv, SlowInv
    <3>7. ASSUME NEW j \in Chunks, copies'[j] > 0
          PROVE  j = i + 1 /\ copies'[j] = 1
      <4>1. CASE i + 1 = Count
        BY <3>4, <3>5, <3>7, <4>1
      <4>2. CASE i + 1 # Count
        BY <3>4, <3>5, <3>7, <4>2, ConstantFacts DEF With
      <4> QED
        BY <4>1, <4>2
    <3> QED
      BY <3>3, <3>4, <3>6, <3>7
  <2> QED
    BY <2>2, <2>3, <2>4 DEF FlashInv
<1>12. ASSUME NEW i \in Chunks, handle_missed_chunk(i)
       PROVE  FlashInv'
  <2>1. /\ updating = 2 /\ updating' = 2 /\ Save(i) /\ up /\ UNCHANGED <<complete, fast>>
        /\ next_chunk_missing(received') # Nothing
    BY <1>12 DEF handle_missed_chunk, Save
  <2>2. fast /\ ~ (Chunks \subseteq received')
    BY <2>1, AskingIsFast, NextMissing
  <2>3. FastInv'
    BY <2>1, <2>2, FastSave DEF FastInv
  <2> QED
    BY <2>1, <2>2, <2>3 DEF FlashInv, PhaseInv, SlowInv, Whole
<1>13. ASSUME NEW i \in Chunks, handle_last_chunk(i)
       PROVE  FlashInv'
  <2>1. /\ updating = 2 /\ updating' = 0 /\ Save(i) /\ up
        /\ next_chunk_missing(received') = Nothing
    BY <1>13 DEF handle_last_chunk, Save
  <2>2. Chunks \subseteq received' /\ fast
    BY <2>1, NextMissing, AskingIsFast
  <2>3. \A j \in received' : content'[j] = j
    BY <2>1, <2>2, FastSave
  <2> QED
    BY <2>1, <2>2, <2>3 DEF FlashInv, PhaseInv, FastInv, SlowInv, Whole
<1>14. CASE TransferIdle
  <2>1. CASE Resends
    <3>1. fast
      BY <1>14, <2>1, AskingIsFast DEF TransferIdle, Resends
    <3> QED
      BY <1>14, <3>1, Kept DEF TransferIdle
  <2>2. CASE ~Resends
    BY <1>14, <2>2, Kept DEF TransferIdle
  <2> QED
    BY <2>1, <2>2
<1>15. CASE PingIdle
  BY <1>15, Kept DEF PingIdle, transfer, flash, network
<1>16. CASE Tick
  BY <1>16, Kept DEF Tick, flash, network
<1>17. CASE FlashTimedOut
  BY <1>17, Forgotten DEF FlashTimedOut, flash
<1>18. CASE UNCHANGED vars
  BY <1>18, Kept DEF vars, transfer, flash, network
<1> QED
  BY <1>1, <1>2, <1>3, <1>4, <1>5, <1>6, <1>7, <1>8, <1>9, <1>10, <1>11, <1>12, <1>13,
     <1>14, <1>15, <1>16, <1>17, <1>18 DEF Next, Idle

-----------------------------------------------------------------------------
(* The timer and the chunks that are asked for.                            *)

LEMMA Products ==
    ASSUME NEW a \in Nat, NEW b \in Nat, NEW c \in Nat
    PROVE  /\ a * b \in Nat /\ a * (b + 1) = a * b + a
           /\ c <= b => a * c <= a * b
<1>1. a * b \in Nat /\ a * (b + 1) = a * b + a
  OBVIOUS
<1>2. ASSUME c <= b
      PROVE  a * c <= a * b
  <2>1. b - c \in Nat /\ a * (b - c) \in Nat
    BY <1>2
  <2>2. a * b = a * c + a * (b - c)
    BY <1>2
  <2> QED
    BY <2>1, <2>2
<1> QED
  BY <1>1, <1>2

\* The turns that are left.
LEMMA TurnsFacts ==
    ASSUME TypeOK, TypeOK', AskInv
    PROVE  /\ Turns \in Nat /\ Turns <= MaxStarts /\ MaxBlocked * Turns \in Nat
           /\ MaxBlocked * MaxStarts \in Nat /\ MaxBlocked * Turns <= MaxBlocked * MaxStarts
           /\ MaxBlocked * (MaxStarts + 1) = MaxBlocked * MaxStarts + MaxBlocked
           /\ Turns' + 1 = Turns => MaxBlocked * Turns' = MaxBlocked * Turns - MaxBlocked
<1>1. /\ MaxBlocked \in Nat /\ MaxStarts \in Nat
      /\ starts \in 0 .. MaxStarts /\ starts' \in 0 .. MaxStarts
  BY ConstantFacts DEF TypeOK
<1>2. Turns \in Nat /\ Turns <= MaxStarts /\ Turns' \in Nat
  <2>1. Turns \in Nat /\ Turns <= MaxStarts
    BY <1>1 DEF Turns, AskInv
  <2>2. Turns' = MaxStarts - starts' \/ Turns' = MaxStarts - starts' + 1
    <3>1. Turns' = MaxStarts - starts' + (IF begin' = "none" THEN 0 ELSE 1)
      BY DEF Turns
    <3>2. CASE begin' = "none"
      BY <1>1, <3>1, <3>2
    <3>3. CASE begin' # "none"
      BY <1>1, <3>1, <3>3
    <3> QED
      BY <3>2, <3>3
  <2>3. Turns' \in Nat
    BY <1>1, <2>2
  <2> QED
    BY <2>1, <2>3
<1>3. /\ MaxBlocked * Turns \in Nat /\ MaxBlocked * MaxStarts \in Nat
      /\ MaxBlocked * Turns <= MaxBlocked * MaxStarts
      /\ MaxBlocked * (MaxStarts + 1) = MaxBlocked * MaxStarts + MaxBlocked
  BY <1>1, <1>2, Products
<1>4. ASSUME Turns' + 1 = Turns
      PROVE  MaxBlocked * Turns' = MaxBlocked * Turns - MaxBlocked
  <2>1. MaxBlocked * Turns = MaxBlocked * Turns' + MaxBlocked /\ MaxBlocked * Turns' \in Nat
    BY <1>1, <1>2, <1>4, Products
  <2> QED
    BY <1>1, <2>1
<1> QED
  BY <1>2, <1>3, <1>4

\* Nothing of it changes when the loop does not turn and no time goes by.
LEMMA StillInTime ==
    ASSUME AskInv, begin' # "none" => starts' > 0,
           Waiting' => Waiting, Turns' = Turns, UNCHANGED <<chunkAge, timer, blocked>>
    PROVE  AskInv'
  BY DEF AskInv, InTime

\* A message that is not about a chunk makes the loop turn.
LEMMA TurnInTime ==
    ASSUME TypeOK, TypeOK', AskInv, Waiting, Turns' + 1 = Turns, blocked' = 0,
           UNCHANGED <<chunkAge, timer>>
    PROVE  InTime'
<1>1. InTime
  BY DEF AskInv
<1>2. /\ MaxBlocked \in Nat /\ timer \in Nat /\ blocked \in Nat /\ blocked <= MaxBlocked
      /\ MaxBlocked * Turns \in Nat /\ MaxBlocked * Turns' = MaxBlocked * Turns - MaxBlocked
      /\ MaxBlocked * (MaxStarts + 1) = MaxBlocked * MaxStarts + MaxBlocked
      /\ MaxBlocked * MaxStarts \in Nat /\ ChunkTimeout \in Nat
  BY TurnsFacts, ConstantFacts DEF TypeOK
<1>3. timer + (MaxBlocked - 0) + MaxBlocked * Turns' <= timer + (MaxBlocked - blocked) + MaxBlocked * Turns
  BY <1>2
<1>4. timer + (MaxBlocked - 0) + MaxBlocked * Turns' <= ChunkTimeout + MaxBlocked * (MaxStarts + 1)
  BY <1>1, <1>2, <1>3 DEF InTime
<1> QED
  BY <1>1, <1>4 DEF InTime

\* The timer, and the ages of the last chunk and turn, begin anew or are short.
LEMMA FreshInTime ==
    ASSUME TypeOK, TypeOK', AskInv, Turns' = Turns, blocked' = 0,
           timer' <= ChunkTimeout, timer' <= chunkAge'
    PROVE  InTime'
<1>1. /\ MaxBlocked \in Nat /\ timer' \in Nat /\ ChunkTimeout \in Nat
      /\ MaxBlocked * Turns \in Nat /\ MaxBlocked * MaxStarts \in Nat
      /\ MaxBlocked * Turns <= MaxBlocked * MaxStarts
      /\ MaxBlocked * (MaxStarts + 1) = MaxBlocked * MaxStarts + MaxBlocked
  BY TurnsFacts, ConstantFacts DEF TypeOK
<1> QED
  BY <1>1 DEF InTime

LEMMA AskStep == TypeOK /\ TypeOK' /\ TimerRuns /\ AskInv /\ [Next]_vars => AskInv'
<1> SUFFICES ASSUME TypeOK, TypeOK', TimerRuns, AskInv, [Next]_vars
             PROVE  AskInv'
  OBVIOUS
<1>0. /\ ChunkTimeout \in Nat /\ starts \in Nat
      /\ begin # "none" => starts > 0
  BY ConstantFacts DEF TypeOK, AskInv
<1>1. CASE Establish \/ cloud_disconnect \/ FlashTimedOut
  <2>1. ~Waiting' /\ starts' = starts /\ (begin' = "none" \/ begin' = begin)
    BY <1>1 DEF Establish, cloud_disconnect, FlashTimedOut, Waiting, network
  <2> QED
    BY <1>0, <2>1 DEF AskInv
<1>2. CASE StartTransfer
  <2>1. /\ starts' = starts + 1 /\ begin = "none" /\ begin' # "none"
        /\ UNCHANGED <<up, updating, requested, chunkAge, timer, blocked>>
    BY <1>2 DEF StartTransfer, transfer, flash
  <2>2. MaxStarts \in Nat
    BY ConstantFacts
  <2>3. Turns' = Turns
    BY <1>0, <2>1, <2>2 DEF Turns
  <2> QED
    BY <1>0, <2>1, <2>3, StillInTime DEF Waiting
<1>3. CASE HandleOther
  <2>1. /\ starts' = starts + 1 /\ blocked' = 0
        /\ UNCHANGED <<up, updating, requested, chunkAge, timer, begin>>
    BY <1>3 DEF HandleOther, Heard, transfer, flash
  <2>2. MaxStarts \in Nat
    BY ConstantFacts
  <2>3. Turns' + 1 = Turns
    BY <1>0, <2>1, <2>2 DEF Turns
  <2>4. Waiting' => InTime'
    BY <2>1, <2>3, TurnInTime DEF Waiting
  <2> QED
    BY <1>0, <2>1, <2>4 DEF AskInv
<1>4. CASE RefuseUpdate
  <2>1. /\ blocked' = 0 /\ begin # "none" /\ begin' = "none" /\ up
        /\ UNCHANGED <<updating, requested, chunkAge, starts>>
        /\ up' = FALSE \/ UNCHANGED <<up, timer>>
    BY <1>4 DEF RefuseUpdate, Heard, Error, transfer, flash
  <2>2. MaxStarts \in Nat
    BY ConstantFacts
  <2>3. Turns' + 1 = Turns
    BY <1>0, <2>1, <2>2 DEF Turns
  <2>4. Waiting' => InTime'
    BY <2>1, <2>3, TurnInTime DEF Waiting
  <2> QED
    BY <2>1, <2>4 DEF AskInv
<1>5. CASE handle_update_begin
  <2>1. updating' = 1 /\ begin' = "none"
    BY <1>5 DEF handle_update_begin
  <2> QED
    BY <2>1 DEF AskInv, Waiting
<1>6. CASE handle_update_done
  <2>1. UNCHANGED <<begin, starts>> /\ (up' = FALSE \/ updating' = 0 \/ requested' = TRUE)
    BY <1>6 DEF handle_update_done, Error, SendMissing
  <2> QED
    BY <1>0, <2>1 DEF AskInv, Waiting
<1>7. ASSUME NEW i \in Chunks, Lose(i)
      PROVE  AskInv'
  <2>1. UNCHANGED <<up, updating, requested, chunkAge, timer, blocked, begin, starts>>
    BY <1>7 DEF Lose, transfer, flash
  <2> QED
    BY <1>0, <2>1, StillInTime DEF Waiting, Turns
<1>8. ASSUME NEW i \in Chunks, StrayChunk(i) \/ BadChunk(i) \/ handle_chunk(i) \/ handle_last_chunk(i)
      PROVE  AskInv'
  <2>1. ~Waiting' /\ UNCHANGED <<begin, starts>>
    BY <1>8 DEF StrayChunk, BadChunk, handle_chunk, handle_last_chunk, Waiting, Error
  <2> QED
    BY <1>0, <2>1 DEF AskInv
<1>9. ASSUME NEW i \in Chunks, handle_missed_chunk(i)
      PROVE  AskInv'
  <2>1. blocked' = 0 /\ timer' = 0 /\ chunkAge' = 0 /\ UNCHANGED <<begin, starts>>
    BY <1>9 DEF handle_missed_chunk, Save, Heard
  <2>2. InTime'
    BY <1>0, <2>1, FreshInTime DEF Turns
  <2> QED
    BY <1>0, <2>1, <2>2 DEF AskInv
<1>10. CASE TransferIdle
  <2>1. blocked' = 0 /\ UNCHANGED <<begin, starts, updating>>
    BY <1>10 DEF TransferIdle
  <2>2. Waiting' => InTime'
    <3> SUFFICES ASSUME Waiting'
                 PROVE  InTime'
      OBVIOUS
    <3>1. ~Resends
      BY <1>10 DEF TransferIdle, SendMissing, Waiting
    <3>2. chunkAge \in Nat /\ ~ (chunkAge > ChunkTimeout)
      BY <1>0, <2>1, <3>1 DEF Resends, Waiting, TypeOK
    <3>3. chunkAge' = chunkAge /\ timer' = timer /\ Waiting
      BY <1>10, <3>1, <3>2 DEF TransferIdle, Waiting
    <3>4. chunkAge <= ChunkTimeout
      BY <1>0, <3>2
    <3>5. timer \in Nat /\ timer <= chunkAge
      BY <3>3, <3>4 DEF AskInv, InTime, TypeOK
    <3> QED
      BY <1>0, <2>1, <3>2, <3>3, <3>4, <3>5, FreshInTime DEF Turns
  <2> QED
    BY <1>0, <2>1, <2>2 DEF AskInv
<1>11. CASE PingIdle
  <2>1. ~Waiting' /\ UNCHANGED <<begin, starts>>
    BY <1>11 DEF PingIdle, Waiting, transfer, network
  <2> QED
    BY <1>0, <2>1 DEF AskInv
<1>12. CASE Tick
  <2>1. /\ blocked < MaxBlocked /\ blocked' = blocked + 1 /\ up
        /\ chunkAge' = Older(chunkAge, Ancient) /\ timer' = Counted(timer)
        /\ UNCHANGED <<up, updating, requested, begin, starts>>
    BY <1>12 DEF Tick, flash, network
  <2>2. Waiting' => InTime'
    <3> SUFFICES ASSUME Waiting'
                 PROVE  InTime'
      OBVIOUS
    <3>1. Waiting /\ timer # Off /\ InTime
      BY <2>1 DEF Waiting, TimerRuns, AskInv
    <3>2. timer' = timer + 1 /\ Turns' = Turns
      BY <2>1, <3>1 DEF Counted, Turns
    <3>3. /\ MaxBlocked \in Nat /\ blocked \in Nat /\ timer \in Nat /\ chunkAge \in Nat
          /\ MaxBlocked * Turns \in Nat
      BY ConstantFacts, TurnsFacts DEF TypeOK
    <3>4. chunkAge' <= ChunkTimeout => chunkAge' = chunkAge + 1
      BY <1>0, <2>1, <3>3 DEF Older, Ancient
    <3>5. chunkAge' <= ChunkTimeout => timer' <= chunkAge'
      BY <1>0, <3>1, <3>2, <3>3, <3>4 DEF InTime
    <3>6. timer' + (MaxBlocked - blocked') = timer + (MaxBlocked - blocked)
      BY <2>1, <3>2, <3>3
    <3> QED
      BY <3>1, <3>2, <3>5, <3>6 DEF InTime
  <2> QED
    BY <1>0, <2>1, <2>2 DEF AskInv
<1>13. CASE UNCHANGED vars
  <2>1. UNCHANGED <<up, updating, requested, chunkAge, timer, blocked, begin, starts>>
    BY <1>13 DEF vars, transfer, flash, network
  <2> QED
    BY <1>0, <2>1, StillInTime DEF Waiting, Turns
<1> QED
  BY <1>1, <1>2, <1>3, <1>4, <1>5, <1>6, <1>7, <1>8, <1>9, <1>10, <1>11, <1>12, <1>13
     DEF Next, Idle

-----------------------------------------------------------------------------
(* The theorems.                                                           *)

\* The initial state.
LEMMA InitInv == Init => Inv
<1> SUFFICES ASSUME Init
             PROVE  Inv
  OBVIOUS
<1>1. TypeOK
  <2>1. /\ updating \in 0 .. 2 /\ chunk_index \in 0 .. Count /\ timer \in 0 .. Off
        /\ chunkAge \in 0 .. ChunkTimeout + 1 /\ messageAge \in 0 .. Silent /\ blocked \in 0 .. MaxBlocked
    BY ConstantFacts DEF Init
  <2>2. content \in [Chunks -> 0 .. Count] /\ copies \in [Chunks -> 0 .. MaxCopies]
    BY NoneType DEF Init
  <2> QED
    <3>1. received \subseteq Chunks /\ missed_chunk_index \in Chunks /\ starts \in 0 .. MaxStarts
      BY ConstantFacts DEF Init
    <3>2. begin \in {"none", "slow", "fast"}
      BY DEF Init
    <3> QED
      BY <2>1, <2>2, <3>1, <3>2 DEF Init, TypeOK
<1>2. TimerRuns /\ FlashInv
  BY DEF Init, TimerRuns, FlashInv, PhaseInv, FastInv, SlowInv, Whole
<1> QED
  BY <1>1, <1>2 DEF Inv

LEMMA Invariance == Spec => []Inv
<1>1. Inv /\ [Next]_vars => Inv'
  BY TypeStep, TimerStep, FlashStep DEF Inv, FlashInv
<1> QED
  BY <1>1, InitInv, PTL DEF Spec

\* The variables have their types: what the handlers ask for is a chunk, and
\* no counter leaves its range.
THEOREM TypeCorrect == Spec => []TypeOK
<1>1. Inv => TypeOK
  BY DEF Inv
<1> QED
  BY <1>1, Invariance, PTL

\* A file that is reported complete by chunked_transfer.cpp is whole and in
\* order, in transfers of any length, whatever was lost, overtaken, repeated or
\* garbled.
THEOREM CompleteIsWhole == Spec => []Whole
<1>1. Inv => Whole
  BY DEF Inv, FlashInv
<1> QED
  BY <1>1, Invariance, PTL

\* The timer of main.cpp that resets the device runs exactly as long as a file
\* is transferred over a session.
THEOREM TimerFollowsTransfer == Spec => []TimerRuns
<1>1. Inv => TimerRuns
  BY DEF Inv
<1> QED
  BY <1>1, Invariance, PTL

\* The device is reset because of chunks that are missing only after they have
\* been asked for since the last one arrived, when the time-out of main.cpp is
\* longer than that of the chunks and the ticks for which the messages that are
\* not about chunks can keep the event loop from asking.
THEOREM ResetsAfterAsking ==
    ASSUME FlashTimeout > ChunkTimeout + MaxBlocked * (MaxStarts + 1)
    PROVE  Spec => ResetAfterAsking
<1>1. Init => AskInv
  BY DEF Init, AskInv, Waiting
<1>2. Inv /\ Inv' /\ AskInv /\ [Next]_vars => AskInv'
  BY AskStep DEF Inv
<1>3. Inv /\ AskInv => [FlashTimedOut /\ updating = 2 => requested]_vars
  <2> SUFFICES ASSUME TypeOK, TimerRuns, AskInv, FlashTimedOut, updating = 2, ~requested
               PROVE  FALSE
    BY DEF Inv
  <2>1. timer = FlashTimeout /\ FlashTimeout \in Nat
    BY ConstantFacts DEF FlashTimedOut
  <2>2. up
    BY <2>1 DEF TimerRuns, Off
  <2>3. InTime
    BY <2>2 DEF AskInv, Waiting
  <2>4. /\ MaxBlocked \in Nat /\ MaxStarts \in Nat /\ blocked \in 0 .. MaxBlocked
        /\ Turns \in Nat
    BY ConstantFacts DEF TypeOK, Turns, AskInv
  <2>5. MaxBlocked * Turns \in Nat /\ MaxBlocked * (MaxStarts + 1) \in Nat /\ ChunkTimeout \in Nat
    BY <2>4, Products, ConstantFacts
  <2> QED
    BY <2>1, <2>3, <2>4, <2>5 DEF InTime
<1> QED
  BY <1>1, <1>2, <1>3, Invariance, PTL DEF Spec, ResetAfterAsking
=============================================================================
