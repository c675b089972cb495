---------------------------- MODULE CloudSession ----------------------------
(***************************************************************************)
(* The event loop of the cloud protocol with the two parts that keep time  *)
(* in it, the transfer of a file in chunks (chunked_transfer.cpp) and the  *)
(* ping (ping.h), and the timer by which the system resets a device whose  *)
(* update is stuck (main.cpp).  The server and the network are external:   *)
(* chunks of a fast transfer overtake each other and get lost, a slow one  *)
(* sends each chunk when the last one has been confirmed.                  *)
(***************************************************************************)
EXTENDS Integers, FiniteSets, FiniteSetsExt

CONSTANTS
    Count,                     \* the chunks of the file
    MISSED_CHUNKS_TO_SEND,     \* chunks asked for in one message
    ChunkTimeout, FlashTimeout, ping_interval, ping_timeout,   \* in ticks
    MaxBlocked,                \* bound: ticks the event loop may be kept from turning
    MaxCopies,                 \* bound: copies of one chunk under way
    MaxStarts                  \* bound: messages the server sends unasked

ASSUME CountAssumption == Count \in Nat \ {0}
ASSUME TimeAssumption == /\ ChunkTimeout \in Nat /\ FlashTimeout \in Nat
                         /\ ping_interval \in Nat \ {0} /\ ping_timeout \in Nat
ASSUME BoundAssumption == /\ MISSED_CHUNKS_TO_SEND \in Nat \ {0}
                          /\ MaxBlocked \in Nat \ {0} /\ MaxCopies \in Nat \ {0} /\ MaxStarts \in Nat

Chunks == 0 .. Count - 1
Nothing == Count             \* no chunk: erased flash, NO_CHUNKS_MISSING
Off == FlashTimeout + 1      \* SPARK_FLASH_UPDATE is 0
Silent == ping_interval + ping_timeout + 1

VARIABLES
    up,                  \* the session is established
    updating,            \* 0, 1, or 2 while chunks that are missing are asked for
    received,            \* bitmap
    chunk_index,
    missed_chunk_index,  \* the last chunk asked for
    chunkAge,            \* ticks since last_chunk_millis
    expecting_ping_ack,
    messageAge,          \* ticks since last_message_millis
    blocked,             \* ticks since the event loop turned
    timer,               \* TimingFlashUpdateTimeout, or Off
    content,             \* content[i]: the chunk in place i of the flash
    complete,            \* the update was finished with success
    requested,           \* since a chunk was saved, chunks were asked for or one had a wrong CRC
    begin,               \* under way to the device: an UPDATE_BEGIN,
    copies,              \* copies[i]: how many times chunk i,
    done,                \* an UPDATE_DONE
    fast,                \* the transfer of these is a fast one
    starts               \* messages sent unasked

transfer == <<updating, received, chunk_index, missed_chunk_index, chunkAge>>
pinger == <<expecting_ping_ack, messageAge>>
flash == <<content, complete, requested>>
network == <<begin, copies, done, fast, starts>>
vars == <<up, transfer, pinger, blocked, timer, flash, network>>

TypeOK ==
    /\ up \in BOOLEAN /\ blocked \in 0 .. MaxBlocked /\ complete \in BOOLEAN /\ requested \in BOOLEAN
    /\ updating \in 0 .. 2
    /\ received \subseteq Chunks
    /\ chunk_index \in 0 .. Count /\ missed_chunk_index \in Chunks
    /\ chunkAge \in 0 .. ChunkTimeout + 1
    /\ expecting_ping_ack \in BOOLEAN /\ messageAge \in 0 .. Silent
    /\ timer \in 0 .. Off
    /\ content \in [Chunks -> 0 .. Count]
    /\ begin \in {"none", "slow", "fast"} /\ copies \in [Chunks -> 0 .. MaxCopies]
    /\ done \in BOOLEAN /\ fast \in BOOLEAN /\ starts \in 0 .. MaxStarts

NoCopies == [i \in Chunks |-> 0]

\* The device has just started.
Init ==
    /\ up = FALSE /\ updating = 0 /\ received = {} /\ chunk_index = 0 /\ missed_chunk_index = 0
    /\ chunkAge = ChunkTimeout + 1 /\ expecting_ping_ack = FALSE /\ messageAge = 0
    /\ blocked = 0 /\ timer = Off
    /\ content = [i \in Chunks |-> Nothing] /\ complete = FALSE /\ requested = FALSE
    /\ begin = "none" /\ copies = NoCopies /\ done = FALSE /\ fast = FALSE /\ starts = 0

-----------------------------------------------------------------------------
(* Helpers.                                                                *)

next_chunk_missing(got) == IF Chunks \subseteq got THEN Nothing ELSE Min(Chunks \ got)

\* mutated form of Missing: the index is advanced before it is written
MissingNext(got) ==
    {i + 1 : i \in {k \in Chunks \ got :
                       Cardinality({j \in Chunks \ got : j < k}) < MISSED_CHUNKS_TO_SEND}}
\* The first chunks that are missing.
Missing(got) ==
    {i \in Chunks \ got : Cardinality({j \in Chunks \ got : j < i}) < MISSED_CHUNKS_TO_SEND}

\* What is under way once the device has taken chunk i,
Without(i) == [copies EXCEPT ![i] = @ - 1]
\* and once the server has sent more.
With(sent, under) ==
    [i \in Chunks |-> IF i \in sent /\ under[i] < MaxCopies THEN under[i] + 1 ELSE under[i]]

\* mutated form of cancel: the system is not told
CancelQuietly(phase, time) == time
\* finish_firmware_update without success, if a file was being transferred.
cancel(phase, time) == IF phase # 0 THEN Off ELSE time

\* The event loop returns an error, in phase, and the session is over.
Error(phase, time) == up' = FALSE /\ timer' = cancel(phase, time)

\* last_chunk_millis is set to 0.
Ancient == ChunkTimeout + 1

\* handle_received_message, for whatever message.
Heard ==
    /\ messageAge' = 0 /\ expecting_ping_ack' = FALSE
    /\ blocked' = 0

\* send_missing_chunks: the send may fail when nothing is asked for.
SendMissing(got, under, sent) ==
    /\ missed_chunk_index' = Max(Missing(got))
    /\ requested' = TRUE
    /\ copies' = IF sent THEN With(Missing(got), under) ELSE under

-----------------------------------------------------------------------------
(* The session.                                                            *)

\* begin, with the server's answer to the hello.
Establish ==
    /\ ~up
    /\ up' = TRUE /\ blocked' = 0
    /\ updating' = 0 /\ chunkAge' = Ancient /\ UNCHANGED <<received, chunk_index, missed_chunk_index>>
    /\ expecting_ping_ack' = FALSE /\ messageAge' = 0
    /\ begin' = "none" /\ copies' = NoCopies /\ done' = FALSE
    /\ UNCHANGED <<timer, flash, fast, starts>>

\* cloud_disconnect, for a reason outside of the protocol.
cloud_disconnect ==
    /\ up
    /\ up' = FALSE /\ timer' = Off
    /\ UNCHANGED <<transfer, pinger, blocked, flash, network>>

-----------------------------------------------------------------------------
(* The server.                                                             *)

\* The server begins a transfer, when nothing of the last one is under way.
StartTransfer ==
    /\ up /\ starts < MaxStarts
    /\ begin = "none" /\ copies = NoCopies /\ ~done
    /\ begin' \in {"slow", "fast"} /\ starts' = starts + 1
    /\ UNCHANGED <<up, transfer, pinger, blocked, timer, flash, copies, done, fast>>

Lose(i) ==
    /\ fast /\ copies[i] > 0
    /\ copies' = Without(i)
    /\ UNCHANGED <<up, transfer, pinger, blocked, timer, flash, begin, done, fast, starts>>

\* Any other message of the server's: an answer to a ping, an event.
HandleOther ==
    /\ up /\ starts < MaxStarts
    /\ starts' = starts + 1 /\ Heard
    /\ UNCHANGED <<up, transfer, timer, flash, begin, copies, done, fast>>

-----------------------------------------------------------------------------
(* The handlers of chunked_transfer.cpp.                                   *)

\* The acknowledgement cannot be sent, or the update is refused.
RefuseUpdate ==
    /\ up /\ begin # "none" /\ Heard
    /\ begin' = "none"
    /\ Error(updating, timer) \/ UNCHANGED <<up, timer>>
    /\ UNCHANGED <<transfer, flash, copies, done, fast, starts>>

\* mutated form of Unreceived: the bitmap of a fast transfer is set too
AllReceived(isFast) == Chunks
\* set_chunks_received: what counts as received when the transfer begins.
Unreceived(isFast) == IF isFast THEN {} ELSE Chunks

\* The flash is erased, and the server is told, if that can be sent.  It then
\* sends the first chunk, or all of them and that it is done.
handle_update_begin ==
    /\ up /\ begin # "none" /\ Heard
    /\ begin' = "none" /\ fast' = (begin = "fast")
    /\ updating' = 1 /\ chunk_index' = 0 /\ chunkAge' = 0
    /\ received' = Unreceived(fast')
    /\ content' = [i \in Chunks |-> Nothing] /\ complete' = FALSE /\ requested' = FALSE
    /\ \/ /\ copies' = [i \in Chunks |-> IF fast' \/ i = 0 THEN 1 ELSE 0] /\ done' = fast'
          /\ timer' = 0 /\ UNCHANGED up
       \/ Error(1, 0) /\ UNCHANGED <<copies, done>>
    /\ UNCHANGED <<missed_chunk_index, starts>>

\* A chunk that is not expected.
StrayChunk(i) ==
    /\ up /\ copies[i] > 0 /\ updating = 0 /\ Heard
    /\ Error(updating, timer)
    /\ chunkAge' = 0 /\ copies' = Without(i)
    /\ UNCHANGED <<updating, received, chunk_index, missed_chunk_index, flash, begin, done, fast, starts>>

\* A chunk with a wrong CRC, or one that cannot be acknowledged.
BadChunk(i) ==
    /\ up /\ copies[i] > 0 /\ updating # 0 /\ Heard
    /\ chunkAge' = 0 /\ requested' = TRUE
    /\ chunk_index' = IF fast THEN i ELSE chunk_index
    /\ \/ /\ copies' = IF fast THEN Without(i) ELSE copies
          /\ UNCHANGED <<up, timer>>
       \/ /\ ~fast /\ copies' = Without(i)
          /\ Error(updating, timer)
    /\ UNCHANGED <<updating, received, missed_chunk_index, content, complete, begin, done, fast, starts>>

\* Where a chunk is saved: a slow one is where the last one ended.
Place(i) == IF fast THEN i ELSE chunk_index

Save(i) ==
    /\ up /\ copies[i] > 0 /\ Place(i) \in Chunks /\ Heard
    /\ content' = [content EXCEPT ![Place(i)] = i]
    /\ received' = received \cup {Place(i)}
    /\ chunk_index' = Place(i) + 1

\* The chunk is saved while the server sends the file.
handle_chunk(i) ==
    /\ updating = 1 /\ Save(i)
    /\ chunkAge' = 0 /\ requested' = FALSE
    /\ \/ /\ timer' = 0 /\ UNCHANGED up
          /\ copies' = IF fast \/ i + 1 = Count THEN Without(i) ELSE With({i + 1}, Without(i))
          /\ done' = (done \/ (~fast /\ i + 1 = Count))
       \/ ~fast /\ Error(updating, 0) /\ copies' = Without(i) /\ UNCHANGED done
    /\ UNCHANGED <<updating, missed_chunk_index, complete, begin, fast, starts>>

\* All that were asked for have been received.
AskAgain(got) == next_chunk_missing(got) > missed_chunk_index

\* The chunk is saved and others are still missing.
handle_missed_chunk(i) ==
    /\ updating = 2 /\ Save(i)
    /\ next_chunk_missing(received') # Nothing
    /\ chunkAge' = 0 /\ timer' = 0
    /\ IF AskAgain(received')
       THEN \E sent \in BOOLEAN : SendMissing(received', Without(i), sent)
       ELSE copies' = Without(i) /\ requested' = FALSE /\ UNCHANGED missed_chunk_index
    /\ UNCHANGED <<up, updating, complete, begin, done, fast, starts>>

\* The last chunk is saved; telling the server may fail.
handle_last_chunk(i) ==
    /\ updating = 2 /\ Save(i)
    /\ next_chunk_missing(received') = Nothing
    /\ updating' = 0 /\ chunkAge' = Ancient
    /\ complete' = TRUE /\ requested' = FALSE
    /\ copies' = Without(i)
    /\ \/ timer' = Off /\ UNCHANGED up
       \/ Error(updating', Off)
    /\ UNCHANGED <<missed_chunk_index, begin, done, fast, starts>>

\* The server has sent everything: the transfer is over, or the chunks that
\* are missing are asked for.
handle_update_done ==
    /\ up /\ done /\ Heard
    /\ done' = FALSE
    /\ \/ /\ Error(updating, timer)
          /\ UNCHANGED <<transfer, flash, copies>>
       \/ /\ updating # 0 /\ next_chunk_missing(received) = Nothing
          /\ updating' = 0 /\ chunkAge' = Ancient /\ timer' = Off /\ complete' = TRUE
          /\ UNCHANGED <<up, received, chunk_index, missed_chunk_index, content, requested, copies>>
       \/ /\ updating # 0 /\ next_chunk_missing(received) # Nothing
          /\ updating' = 2 /\ chunkAge' = 0
          /\ \E sent \in BOOLEAN :
                /\ SendMissing(received, copies, sent)
                /\ IF sent THEN UNCHANGED <<up, timer>> ELSE Error(updating', timer)
          /\ UNCHANGED <<received, chunk_index, content, complete>>
    /\ UNCHANGED <<begin, fast, starts>>

-----------------------------------------------------------------------------
(* Nothing was received.                                                   *)

\* mutated form of Resends: chunks are never asked for a second time
NeverResends == FALSE
Resends == chunkAge > ChunkTimeout /\ updating = 2

\* idle of chunked_transfer.cpp.
TransferIdle ==
    /\ up /\ updating # 0 /\ blocked' = 0
    /\ chunkAge' = IF chunkAge > ChunkTimeout THEN 0 ELSE chunkAge
    /\ IF Resends
       THEN \E sent \in BOOLEAN :
                /\ SendMissing(received, copies, sent)
                /\ IF sent THEN UNCHANGED <<up, timer>> ELSE Error(updating, timer)
       ELSE UNCHANGED <<up, timer, missed_chunk_index, requested, copies>>
    /\ UNCHANGED <<updating, received, chunk_index, pinger, content, complete, begin, done, fast, starts>>

PingDue == messageAge > ping_interval

\* process of ping.h: a ping counts as answered when the loop comes back
\* within ping_timeout of the last message, or of the ping itself.
PingIdle ==
    /\ up /\ updating = 0 /\ blocked' = 0
    /\ \/ /\ expecting_ping_ack /\ messageAge > ping_timeout
          /\ Error(updating, timer) /\ UNCHANGED pinger
       \/ /\ expecting_ping_ack /\ messageAge <= ping_timeout
          /\ expecting_ping_ack' = FALSE /\ UNCHANGED <<up, timer, messageAge>>
       \/ /\ ~expecting_ping_ack /\ ~PingDue
          /\ UNCHANGED <<up, timer, pinger>>
       \/ /\ ~expecting_ping_ack /\ PingDue
          /\ expecting_ping_ack' = TRUE /\ messageAge' = 0
          /\ UNCHANGED <<up, timer>> \/ Error(updating, timer)
    /\ UNCHANGED <<transfer, flash, network>>

-----------------------------------------------------------------------------
(* Time.                                                                   *)

Older(age, most) == IF age < most THEN age + 1 ELSE most

\* mutated form of Counted: TimingFlashUpdateTimeout stands still
CountedNot(time) == time
Counted(time) == IF time = Off THEN Off ELSE time + 1

Tick ==
    /\ up /\ blocked < MaxBlocked /\ timer # FlashTimeout
    /\ blocked' = blocked + 1
    /\ chunkAge' = Older(chunkAge, Ancient) /\ messageAge' = Older(messageAge, Silent)
    /\ timer' = Counted(timer)
    /\ UNCHANGED <<up, updating, received, chunk_index, missed_chunk_index, expecting_ping_ack, flash, network>>

\* HAL_SysTick_Handler: the device resets itself.
FlashTimedOut ==
    /\ timer = FlashTimeout
    /\ up' = FALSE /\ timer' = Off /\ blocked' = 0
    /\ updating' = 0 /\ received' = {} /\ chunk_index' = 0 /\ missed_chunk_index' = 0
    /\ chunkAge' = Ancient /\ expecting_ping_ack' = FALSE /\ messageAge' = 0
    /\ UNCHANGED <<flash, network>>

Idle == TransferIdle \/ PingIdle

Next ==
    \/ Establish \/ cloud_disconnect
    \/ StartTransfer \/ HandleOther
    \/ RefuseUpdate \/ handle_update_begin \/ handle_update_done
    \/ \E i \in Chunks : \/ Lose(i) \/ StrayChunk(i) \/ BadChunk(i)
                         \/ handle_chunk(i) \/ handle_missed_chunk(i) \/ handle_last_chunk(i)
    \/ Idle \/ Tick \/ FlashTimedOut

Spec == Init /\ [][Next]_vars

\* The loop turns while there is a session, and time goes by.
FairSpec == Spec /\ WF_vars(Idle) /\ WF_vars(Tick) /\ WF_vars(FlashTimedOut)

-----------------------------------------------------------------------------
(* Properties.                                                             *)

\* A file that is reported complete is whole and in order, whatever was lost,
\* overtaken, repeated or garbled, and whichever connections were lost before.
Whole == complete => \A i \in Chunks : content[i] = i

\* The timer that resets the device runs as long as a file is transferred
\* over a session, and no longer: it is not left running when the transfer
\* ends in any of the ways it can, and not stopped before.
TimerRuns == (timer # Off) <=> (up /\ updating # 0)

\* The device resets itself because of chunks that are missing only after it
\* has asked for them since the last one arrived.
ResetAfterAsking == [][FlashTimedOut /\ updating = 2 => requested]_vars

\* A transfer ends, even if the server falls silent in the middle of it.
Ends == up /\ updating # 0 ~> ~up \/ updating = 0

\* ping.h:17 "the expected maximum response time" and :44 "timed out,
\* disconnect": the session with a server that sends nothing any more ends.
SilenceNoticed == []<>~up
=============================================================================
