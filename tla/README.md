# Verification of the indoor controller

The repository is the firmware of an indoor controller (a Particle Photon): three led strips, each with a
potmeter, a switch, a temperature sensor, a 2.4" display, and MQTT messages that set the strips from elsewhere.
`src/user` is the program; the rest of `src` is the Particle system firmware it is built with (wiring, system,
communication, services, HAL, bootloader) and third-party libraries.

This directory holds TLA+ modules translated from that source, TLC configurations that check them on small
instances, and proofs that TLAPS checks for every instance. `PROJECT.json` lists the runs, the source lines each
definition stands for, the hazards the properties are aimed at, and for each property a *mutated form* of a
definition, the way a plausible bug would change it, that breaks the property.

## 1. The system

### The program (`src/user`)

| Component | State | Operations | Interacts with |
|---|---|---|---|
| main thread (`application.cpp` `setup`, `loop`) | none of its own | connects, registers the handlers, adds the items to the display, starts the threads; then shows the connection state every 2 s | everything |
| application thread (`application_task_worker`) | `led1_prev` ... `led3_prev`, `backlight` | reads the switch and the potmeters every 80 ms, sets the strips | strips, display, signaling |
| temperature thread (`temperature_read_worker`) | `measurement_count` | reads the sensor every 30 s, shows it, adds to the graph every 60th time | display |
| MQTT thread (`mqtt_server_worker`) | `state`, the MQTT client | keeps the connection, reads one packet per 100 ms, calls the message handlers | broker, strips, display |
| display (`Display`) | the items' current values, the graph, the tft's cursor | `addItem`, `updateItem`, `enableGraph`, `addDataToGraph` | drawn on by four threads, guarded by `display_mutex` (not always) |
| MQTT client (`MQTT.cpp`) | buffer, `lastInActivity`, `lastOutActivity`, `pingOutstanding`, `nextMsgId` | `connect`, `loop`, `readPacket`, `subscribe` | TCP client |
| TCP client (`spark_wiring_tcpclient.cpp`) | socket, 128-byte buffer | `connect`, `available`, `read`, `write`, `connected`, `stop` | network stack |
| message (`utils::Message`) | a typed value | assignment, conversion | handlers |
| signaling (`signaling.cpp`) | brightness pattern, three colour patterns, their successors | `set_state`, the thread that blinks | RGB led |

What is hard: `set_led_brightness` runs in two threads and does three things (signal, pin, display) of which only
the last is under the mutex; the previous values of the potmeters live apart from the strips; the handlers are
registered after the subscription; the connection is lost in silence, in the middle of a packet, or refused; the
keepalive's stamps and its `pingOutstanding` outlive a connection; some variables start uninitialised.

### The system firmware

`PROJECT.json` lists its components one by one. Those that are modelled, with the state they keep:

| Component | State | Operations | Interacts with |
|---|---|---|---|
| EEPROM emulation (`services/inc/eeprom_emulation.h`) | two pages of flash, the RAM's idea of which is in use | `init`, `get`, `put`, `performPendingErase` | the flash; resets anywhere |
| configuration data (`services/inc/dcd.h`) | two sectors of flash with a header each | `read`, `write`, `initialize` | the flash; resets anywhere; users of pointers that `read` returned |
| CoAP channel (`communication/src/coap_channel`) | the messages of the device not yet acknowledged, the requests of the server and the answers to them | `send`, `receive`, `send_synchronous`, `establish` | the DTLS channel below, the protocol above |
| chunked transfer (`chunked_transfer.cpp`) | bitmap, the place in the file, the last chunk asked for | `handle_update_begin`, `handle_chunk`, `handle_update_done`, `idle`, `cancel` | the server, the flash, the system's update |
| cloud protocol (`protocol.cpp`, `ping.h`) | time of the last message, whether a ping is out | `begin`, `event_loop`, the ping | channel, transfer, system loop |
| reset timer (`main.cpp`, `system_update.cpp`) | `SPARK_FLASH_UPDATE`, `TimingFlashUpdateTimeout` | start, save, finish, the SysTick interrupt | the transfer |
| active objects (`active_object.h`, `system_threading.h`) | a queue of calls each | `invoke_async`, `invoke_future`, `process`, `get` | application and system thread |
| control requests (`system_control.cpp`) | one request, `active`, `ready` | enqueue, process, set and fetch the result | the USB interrupt, the system and the application thread |

What is hard: datagrams that are lost, late and doubled; chunks that overtake each other; a reset in the middle of a write to
the flash; one time stamp with two meanings; a timer in an interrupt that several modules start and stop; two threads that call
each other through bounded queues; a buffer written in an interrupt. Left out: drivers, cryptography,
consoles, third-party code; section 6 says which components with state are yet to come.

## 2. The modules

| Module | Models | Extends |
|---|---|---|
| `LedArith` | `map`, the conversions to `uint8_t`, `utils::Message` to `int` | |
| `LedPanel` | abstract specification: what the strips and the display promise their users | `LedArith`, `TLAPS` |
| `LedControl` | the threads of `application.cpp`, the mutex, the display's values, the message callback | `LedArith`; instantiates `LedPanel` |
| `LedControlMC` | values for TLC | `LedControl` |
| `LedControlProofs` | theorems about `LedControl` | `LedControl`, `TLAPS` |
| `MqttSession` | the MQTT client, the worker that runs it, the TCP client, the network and the broker | |
| `MqttSessionProofs` | theorems about `MqttSession` | `MqttSession`, `TLAPS` |
| `AtomicMemory` | abstract specification: bytes that survive resets, blocks put all or not at all | |
| `EepromEmulation` | the EEPROM emulation on two pages of flash, with resets | instantiates `AtomicMemory` |
| `EepromProofs` | theorems about `EepromEmulation` | `EepromEmulation`, `TLAPS` |
| `Dcd` | the configuration data in two sectors of flash, with resets and errors | instantiates `AtomicMemory` |
| `DcdProofs` | theorems about `Dcd` | `Dcd`, `TLAPS` |
| `CoapReliable` | the message stores of the CoAP channel over a network that loses, delays and repeats | |
| `CoapReliableProofs` | theorems about `CoapReliable` | `CoapReliable`, `TLAPS` |
| `CloudSession` | the event loop of the protocol, the chunked transfer, the ping, the reset timer | |
| `CloudSessionProofs` | theorems about `CloudSession` | `CloudSession`, `TLAPS` |
| `SystemThreads` | the active objects, their queues, and the control requests over USB | |
| `SystemThreadsProofs` | theorems about `SystemThreads` | `SystemThreads`, `TLAPS` |

### LedControl and the code

`pc[t]` is where a thread stands; an action is the code between two points at which another thread can tell the
difference: `analogWrite`, `display_mutex.lock`, the drawing together with `unlock`, a read of an input, the fetch of a message.

* `set_led_brightness(k, b)` is three actions of the thread that calls it: `Light` (`analogWrite`), `Lock`, and the drawing
  (`ShowZero`, `ShowPot` or `ShowCommand`, according to the place it was called from, which goes on with the caller's code).
* `ReadSwitchOn`/`ReadSwitchOff` are the head of the application's loop; a switched-off round is `Light`, `Lock`, `ShowZero`
  for each strip; a switched-on one `PotMoved` (then `Light`, `Lock`, `ShowPot`) or `PotSteady` for each strip.
* `Receive` parses a message; `CallHandler`/`SkipField` walk through its fields in the order of the JSON library's map.
* `ConnectToBroker` ... `StartThreads` are `setup`, `LoopLock`/`LoopShow` are `loop`; `EnableGraph`, `MeasureLock`, `MeasureShow`
  the temperature thread.
* The previous values of the strips outside `Initialised` start with any value of `Stack` (in the code only `led3_prev` has an initialiser), and a message field that is neither a
  number nor a boolean converts to any value of `Garbage`: both are reads of uninitialised memory.

`raced` and `writer` are history variables: no guard of the code's reads them.

### LedPanel

The promise to whoever uses the panel: a request lights the strip at once and reaches the display later; the display may
be blanked (`addItem`). `LedControl` implements it under `pending[w] <- ` the request thread `w` is in the middle of. The
theorem about what is shown is proved there once, and carried over to the program by refinement.

### MqttSession and the code

One thread at a time uses the connection: `setup` (`inSetup`) until it starts the worker. `pc` names the place: `connect`,
the wait for the CONNACK (`connack`), `readPacket` for it (`readack`), `subscribe`, `loop`, the poll, `read`, the callback, the
check of `isConnected`, the delay. Packets are members of a small set; `torn` says that the last one has arrived in part
only, so that a reader of it waits in `readByte`. `wire` is what the TCP connection is like: up, dead without
anybody knowing, or known to be closed (a reset or close seen by the socket layer, or the Wi-Fi gone). `Stop` is `TCPClient::stop`: it closes the
socket and flushes the buffer. `LookupFails` is the error of the name service that `TCPClient::connect` returns and `MQTT::connect` takes for success, as it is not 0: the
wait for the CONNACK then begins on no connection. Stamps are kept as ages, `millis()` advances (`Tick`) where the thread waits. The callback is one
step here; what it does is in `LedControl`.

`publish`, `unsubscribe`, `disconnect` and the acknowledgement of QoS 1 messages do not occur: the program never calls
them and subscribes with QoS 0.

### EepromEmulation and the code

An action is one operation on the flash: an erasure, the writing of a record, of a page's status. `pc` is the place in
`init` (`boot`, `wipe1`, `wipe2`, `format`), `writeRange` (`append`), `swapPagesAndWrite` (`swap`, `mark`, `copy`, `retire`),
`todo` the indices whose records are yet to be written, `tries` the round of the swap. `Reset` strikes between two operations;
the variants `EraseCut`, `WriteCut`, `StatusCut` are those it strikes in the middle of. What they leave is what
the header's own comment and the mock store of the tests say: an erasure that is cut off leaves the page as it was, in disorder,
or reading as erased; a status that is cut off is as before or none of the four; a
record that is cut off before its index is empty or invalid, as its index is 0xFFFF. What was cut off also leaves cells between 0 and 1: `marginal[p]` are the parts of page
`p` (its header, its records) with bits that read as 1 and may turn 0 when they are written. An erasure that is cut off makes both parts marginal, a record or status its own; nothing but the next
whole erasure of the page ends it. A write to a marginal part may fail: a record then reads otherwise (`Written`), which turns an append into a swap, and
a status is none of the four (`StatusFailed`), which leads the swap to its second try or to giving up, be it the mark of the copy, of the new page (`Activate`) or of the
old one (`Retire`). `Cut` says which indices a record shows whose writing was cut off within its index, or failed there: none in `eeprom_all`, `Stray` (above the capacity) in the run of the finding;
`LastBatch` (0xFF80 and above) is there for whoever wants to see the loop of `forEachUniqueValidRecord` go round for ever.
The mock store writes byte by byte, the store of the Photon word by word, where it is bits of the index that can be missing.

Assumed: what was written as 0 stays 0, and what was written whole stays as it is; a whole erasure leaves nothing marginal; a write that fails shows a record that is not valid, or one of
`Cut`; both pages have the same size; half an erasure does not turn another status into `ACTIVE`. Left out: the `clear` a program calls (it destroys
the data and promises nothing when interrupted), puts of no bytes, whose end index wraps, or for which there is no heap.

`mem` of `AtomicMemory` is what `get` would return after a boot now: the last values in the first active page. `pending` is
the block `put` is working on. `Orphaned` states are those in which the page in use is not marked active, because its own mark failed; steps from them are left out of
`ImplementsMemory`, and section 5 says what they do.

### Dcd and the code

Again an action is one operation on the flash, and `pc` the place in `initialize` or `write`; the two writes of one copy
loop are one. Each may be cut off, by a reset or by an error that `write` returns; the difference is whether pointers
outlive it. A header is the pair of watermark and seal: erased, valid, cleared, or anything else. `pointer`, `seen` and
`writes` are history: the sector `read` last returned a pointer into, what it saw there, and the writes begun since.
`Written` is the flash: a byte that is not erased keeps its value only if that is what is written.

Assumed: an erasure or a header that is cut off does not look like a valid header; an error in `initialize` is
met as a reset only. Left out: the `erase` a program calls, the migration from an older layout, and sectors that read
as erased but are not quite.

### CoapReliable and the code

One action per call of `send` or `receive`, and one per round of the loop in `send_synchronous`: a call runs to its end on the
thread of the protocol, and nothing else touches the stores. `client` and `server` are the two message stores as functions from
message ids to the time left and the number of transmissions; `Processed` is `CoAPMessageStore::process`, `Close` the
`reset_session` that a given-up message, a RESET or an error ends in. The network is `answers` (what the server has
sent, which may arrive at any time and any number of times) and `copies` (how long copies of a request may still arrive).
Time is in ticks; a timer that has run out is served in the next call.

Assumed: copies of a request arrive no longer after the first one than `MAX_TRANSMIT_SPAN` (`WindowAssumption`). At most once is meant per
`establish`, which clears the stores. Left out: the wrap of 16-bit ids, the limit of one message under
way (the code does not enforce it), non-confirmable messages, `receive_confirmations` (never called). A message that
cannot be handed to the channel stays stored and is sent again although its sender was given an error.

### CloudSession and the code

An action is the handling of one message (`handle_received_message` and the handler), an idle round (`TransferIdle` while a file is transferred,
`PingIdle` otherwise), or an event outside: a tick of the clock, `cloud_disconnect`, the interrupt that resets the
device. `updating`, `received`, `chunk_index`, `missed_chunk_index` are the fields of `ChunkedTransfer`; stamps are ages.
`content[i]` is the chunk that was written to place `i`: a slow transfer writes where its index says, a fast one where the chunk says.
`timer` is `TimingFlashUpdateTimeout`, or `Off` when no update is under way. `Error` is an error of the event loop, upon which the
system cancels the transfer and only `begin` follows.

The server begins a transfer when nothing of the last one is under way, sends the next chunk of a slow transfer when the last one was confirmed,
and sends what it is asked for again. All transfers are of the same file. Where the bitmap is kept, and the pointer to it, which a reconnection
clears, are left out. The wait of `Spark_Prepare_For_Firmware_Update` for the
application is part of `handle_update_begin`. `save_firmware_chunk` is taken to succeed, as the code ignores its result.

### SystemThreads and the code

`queue[o]` is the queue of an active object, `stack[o]` the calls it is running: `process` is also called from within a call (a
delay of the application, listening mode and the waits of the system), so that calls nest. `pc[t]` says whether a thread runs, stands
in `os_queue_put` or waits in `get`. `put_wait` is the timeout of the put: 5 s for the application's queue, 0x7FFFFFFF ms, taken for
ever, for the system's. The control interface is `request`, `active`, `ready` (`usbReq_`), the queue for calls from interrupts (`isr`), and
`handling`, what the application knows of the request it was given. `buffer` is the event the channel's buffer holds when
`invokeEventHandler` is called. The program is one with a system thread (`application.cpp:21`).

## 3. The runs

| Run | Constants | Shows |
|---|---|---|
| `led_one` | 1 strip whose previous value starts as 0, 100 or 65535, potmeter at an end or the other, a fraction, a number above 100 and a string as JSON values, 2 messages | `TypeOK`, `PotInRange`, `TftExclusive`, `ShownAgrees`, `PrevTracks`; that `LedControl` implements `LedPanel`; `GoesDark`, `FollowsPot`, `CommandShown` under fairness |
| `mqtt_all` | keepalive of 3 ticks, 3 packets under way | `Agreement`, `OnePing`, `SilenceBounded`, `AskedBeforeStopped`; `WorkerComesRound`, `LossNoticed` under fairness |
| `mqtt_alive` | keepalive of 1 tick, 1 packet | finding: `readByte` waits for ever |
| `mqtt_delivered` | as `mqtt_alive` | finding: connected without a subscription |
| `eeprom_all` | pages of 3 records, 2 indices, one value besides 0xFF, whole or no indices, resets and failing writes anywhere | `RamAgrees`, `SwapFits`; that `EepromEmulation` implements `AtomicMemory` while the page in use is marked active; `ComesBack` under fairness |
| `eeprom_torn` | as `eeprom_all`, half-written indices | finding: part of a block is read back |
| `dcd_all` | blocks of 3 bytes, one value besides 0 and 0xFF | `PointerHolds`; that `Dcd` implements `AtomicMemory` |
| `coap_all` | 2 messages of the device, 1 request of the server, 1 retransmission, timeout of 1 tick, span and window of 2 | `AtMostOnce`, `AnswerKept`, `NoSilentLoss`, `SyncTruth`; `Settles`, `Returns` under fairness |
| `cloud` | 3 chunks, 2 asked for at once, 2 copies of each under way, 2 unasked messages of the server | `Whole`, `TimerRuns`, `ResetAfterAsking`; `Ends` under fairness |
| `cloud_silent` | 2 chunks, a ping timeout above the time between two rounds of the loop | finding: a silent server is not noticed |
| `threads` | an application queue of 1, a system queue of 2, 2 calls each of two threads, 1 event, 2 requests over USB | `RequestStable`; `SyncReturns`, `SystemRuns` under fairness |
| `threads_event` | an application queue of 2, 2 events | finding: an event is given the data of the next one |

**Bounds.** `MaxMessages` bounds the messages of `led_one`: two are enough for one to overtake a round of the
application and another to overlap with the next; everything else in `LedControl` is finite by the code. One strip shows
every interleaving of the writers on a strip, a previous value that starts uninitialised (`Initialised = {}`: it is one of the first two; 100 is what the potmeter's
upper end reads as, so that the first reading counts as unmoved, 65535 the largest) and, with two messages, the walk
over the fields; what several strips add, the rounds over them, is covered by the theorems, which hold for any number. `MaxDown` bounds the packets unread: three hold an answer behind two
other packets. The keepalive is counted in ticks: with three, stamps of different ages, a ping in between and
the wait after it are distinct; ages above the keepalive are one. `quiet` counts to `2K + 3`, one more than can be distinguished from what
`SilenceBounded` forbids. A page of three records takes a block of two behind one record, one behind two, and a
block that does not fit, and two indices make a block that can be torn; resets and puts are not bounded. In `Dcd` three bytes leave one before, in and
behind a block of one; writes, reads and resets are not bounded. In `CoapReliable` two messages let one be waited for while the other
is retransmitted or given up, one retransmission makes every message go through sent, sent again and given up, and a window as long
as the span is the tightest the assumption allows; each message and request is sent once, time is not bounded. In `CloudSession` three chunks are
enough for two to be asked for at once and one more later; `MaxBlocked` bounds how long the loop may be away (the other work of the system thread), `MaxCopies` the copies of
a chunk under way, `MaxStarts` what the server begins by itself: two make a transfer follow one that failed. The timer's timeout is the longest one, as in the
code. In `SystemThreads` the queues are as short as they can be with one call behind another, and two threads, both calling synchronously,
and the nested calls fill them; `MaxCalls`, `MaxEvents`, `MaxRequests` bound who calls how often.

**Fairness.** The RTOS is preemptive and the loops of the threads end in delays, so every step of a thread that can run is weakly fair. `display_mutex` is
handed on by the RTOS to a waiting thread, and its holders release it in bounded time: taking it is strongly fair.
Nothing is assumed of the hands on the potmeters and the switch, or of messages coming. In `MqttSession` the
worker is weakly fair; time passes whenever the worker keeps coming to a wait (strong fairness of `Tick`); a broker at the other end of a connection that
is up answers. That a connection can be made, or stays, is assumed of nobody. In `EepromEmulation` the program is weakly
fair, as nothing but a reset can stop it, and `ComesBack` is about runs whose resets end. In `CoapReliable` the program comes round to
`receive` while the session lasts, `send_synchronous` goes on looping, and time passes; nothing is assumed of the network. In `CloudSession`
the loop turns, time passes and the interrupt is served; the server may fall silent at any time. In `SystemThreads`
an object processes its queue when it runs no call, a call that does not wait for anything ends, a timeout ends a put, and the RTOS queue lets each waiting
thread in in turn (strong fairness of `put`). That calls nest is possible and assumed of nobody.

## 4. Proofs

`LedControlProofs` proves, for any number of strips, any potmeter readings, JSON values, uninitialised values and number of
messages:

* `TypeCorrect` and `AsksForPercentages`: `TypeOK` and `PotInRange`, which are inductive together (a previous value is what was asked for) once
  `PwmWidthRange` and `PotPercentRange` bound the arithmetic.
* `DisplayExclusive`: `TftExclusive`, by the inductive `MutexInv`: whoever is in the middle of a guarded drawing is the one that
  holds the mutex, and before the threads are started nobody else draws.
* `PreviousTracks`: `PrevTracks`, by `PrevInv`. `PrevTracks` is not inductive: in the middle of `set_led_brightness` the previous value is stale,
  and in a switched-off round those of all the strips are. `PrevLink` says what holds then: the application holds
  the brightness it has lit the strip with, and has zeroed the strips before this one.
* `Implements`: `Spec => ImplementsPanel`, one case per action.
* `DisplayAgrees`: `ShownAgrees`, from `Implements` and `LedPanel!PanelShownAgrees`. The latter's invariant adds that the requests pending for a strip
  that is not raced are one at most, and that the strip is lit with it.

`DcdProofs` proves, for blocks of any length, any values that programs write, and resets and errors anywhere:

* `TypeCorrect`: `TypeOK`.
* `InvHolds`: the inductive invariant `Inv`. It says of each place in `write` which sector is valid (the one in use while the other is erased and filled,
  both once that one is made valid), and how far the new sector has been filled: erased behind what was written, the old bytes and the
  new block before it. That the bytes at a place are still erased is needed because a byte that is not takes no other value.
* `PointersHold`: `PointerHolds`, from the part of `Inv` that relates `pointer` and `writes` to the sector in use: until a second write begins, the
  sector that is erased is not the one the pointer points into.
* `Implements`: `ImplementsMemory`. `MakeValid` is the step at which a write takes place, or, when the old sector has precedence, `MakeInvalid`, unless it is cut off and leaves that one
  valid; every other one is the beginning, the end, or a stutter of the memory's.

* `WritesAreRead`: when `write` returns without an error, `read` returns its bytes, and else the old ones.

`EepromProofs` proves, for pages of any size, any data and capacity of half a page, with resets and failing writes anywhere:

* `TypeCorrect` and `BootsAgree`: `TypeOK` and `RamAgrees`, whatever index a cut record shows, by the inductive `Basic`: `RamInv` says of each place which page
  is the one a boot would choose (during the second write of the end of a swap both are active; an old page whose mark did not read back stays in use although the boot would choose
the other, or none), `BlockInv` that there is a block exactly while it is put.
* `InvHolds`, `SwapsFit`, `PutsAreRead`: `SwapFits`, and that a block is read back when its `put` returns, from the page in use or, where the mark of the old page failed
in both tries, from the one the next boot chooses. `Inv` follows the records: while a block is
  appended, backwards, the first free place stays empty and the places behind it hold the records of the block that are no longer in `todo` (`Appending`); while the pages
  are swapped, the new one holds, of what is wanted, what is no longer in `todo`, and nothing else (`Copying`); and
  on the second try the page that is filled has no marginal part (`MarginInv`), so that of all its writes only the mark of the old page can fail. `SwapFits` is inductive only with `Copying`: what is wanted has at most one record per index.
  Where cut records are valid a page must have 4 records, so that the indices, with those a cut record can show, fit in it; the flash has thousands.
* `Implements`: `ImplementsMemory`, while the page in use is marked active and if no cut record is valid (`Cut = {}`; otherwise it is false, as `eeprom_torn` shows). The record that is written last, in the first free place, is the step at which
  an appended block takes effect, as it ends the gap in front of the others; in a swap it is the status of the page, the first or the second of the two, according to which page has
  precedence. One lemma per operation says that it is this step, a reset, or a stutter of the memory.

`MqttSessionProofs` proves, for any keepalive and bound on the packets under way, by one inductive invariant of five parts:

* `ConnectedIsAccepted`: `Agreement`. `ConnectionInv` says what can be under way at each place: until `connect` returns only the CONNECT and its answer, as the
  connection before was closed and the buffer flushed.
* `PingsAreCounted`: `OnePing`. `PingInv`: a PINGREQ or its answer is under way only while `pingOutstanding`, and one of them only.
* `StoppedAfterAsking`: `AskedBeforeStopped`. `AskedInv`: while a ping is outstanding no stamp of the client is older than it, so that a stamp that is due means that the PINGREQ is.
* `SilenceIsBounded`: `SilenceBounded`. `QuietInv` bounds the silence by `lastInActivity` alone while no ping is outstanding, and by a keepalive and a tick more
  once one is, which set that stamp back; and by constants after the test of the keepalive.
* `TypeCorrect`: `TypeOK`; that the queue to the broker is bounded needs `ConnectionInv`.

`CoapReliableProofs` proves, for any messages and requests, timeouts and numbers of retransmissions that satisfy the assumptions of
`CoapReliable` (copies of a request stop arriving within `MAX_TRANSMIT_SPAN`):

* `TypeCorrect`, `RequestsAreHandledOnce`, `AnswersAreKept`, `NothingIsLostSilently`, `ResultsAreTrue`: `TypeOK`, `AtMostOnce`, `AnswerKept`, `NoSilentLoss`, `SyncTruth`. The inductive
  invariant adds `MessageInv` (a stored message has as many transmissions as the history says, no outcome yet, and is neither acknowledged nor refused) and
  `RequestInv` (a request that was passed on is kept, or its answer is, for at least as long as copies of it may arrive): the time of the entry in the store against that of the network is what `AtMostOnce` rests on.
* The timeouts are powers of two. `PowerEquation` proves that the recursive function `Power2` satisfies its equation for every number, from
  the least number up to which there would be no such function.

`CloudSessionProofs` proves, for files of any length, any timeouts and bounds:

* `TypeCorrect`, `TimerFollowsTransfer`: `TypeOK` and `TimerRuns`. That chunks asked for are chunks of the file needs that some are missing while they are asked for (`PhaseInv`).
* `CompleteIsWhole`: `Whole`, by `FlashInv`. In a fast transfer the bitmap tells which places of the flash are right (`FastInv`). In a slow one it tells
  nothing, all its bits being set; there the places below `chunk_index` are right because the one chunk under way, once, is the next (`SlowInv`), and the server
  is done only when there is none. A session that ends ends the transfer, so that what is still under way then does not count.
* `ResetsAfterAsking`: `ResetAfterAsking`, if `FlashTimeout > ChunkTimeout + MaxBlocked * (MaxStarts + 1)`: the interrupt must not come
  before the loop has had a chance to ask. `AskInv` counts the time against the turns of the loop that other messages may still take (`Turns`); the age of the last chunk is what
  the timer counts, as nothing but a chunk sets it back. The run has 8 > 1 + 2 * 3.

`SystemThreadsProofs` proves, for any number of threads and any sizes of the queues:

* `TypeCorrect`: `TypeOK`; the calls of the system are bounded by the requests accepted (`CountInv`).
* `RequestsAreStable`: `RequestStable`. `PlaceInv` says that the request that is not answered is in one place only, and that it is `active` and not `ready` in all of them: in the queue for
  interrupts, with the system that is about to queue its call, in the application's queue, or with the handler. Neither a second `enqueueRequest` nor a result of an earlier request can come between.
* `NobodyWaitsInVain`: `WaitersAreServed`, the part of `SyncReturns` that needs no fairness: the system waits for nobody, and a call that is waited for
  is in its queue, run by it or complete, so that there is no circle of waiting and no lost semaphore.
* `CallsBeginInOrder`: `OneByOne`, the part of `SystemRuns` that needs no fairness: of the calls of each thread the system begins one after the other. `InLine` says that those not begun are
  in its queue, in order, and the last one perhaps still at the `put`. No such thing holds of the application's queue, whose `put` gives up.

**Assumptions**: the named `ASSUME`s of the modules about their constants, which TLC evaluates in the runs, and the hypotheses named
above: `Cut = {}` or pages of 4 records (`EepromProofs`), and the timeouts in `ResetsAfterAsking`.

**Only model-checked**: what depends on fairness, which is out of the prover's reach: `GoesDark`, `FollowsPot`, `CommandShown`, `WorkerComesRound`, `LossNoticed`,
`ComesBack`, `Settles`, `Returns`, `Ends`, `SyncReturns`, `SystemRuns`. All invariants, action properties and refinements
of the passing runs are proved. Every inductive invariant was checked with TLC on the constants of its run before it was proved.

## 5. Findings

See "findings" in `PROJECT.json`; each quotes the line of the repository that says otherwise.

1. `WorkerAlive`: a connection lost in the middle of a packet stops the MQTT worker for good.
2. `DeliveredWhileConnected`: after a reconnection the program is connected and receives nothing.
3. `ImplementsMemory` (`eeprom_torn`): a record cut off between the two bytes of its index counts as valid. The highest record is written first, so that it is the last byte of the block that is lost.
4. `SilenceNoticed`: the ping counts as its own answer, so that a session with a silent server lasts.
5. `EventIntact`: the data of an event is not copied before the application's thread gets it.

Other places where code and comments part, which the models contain and no run is about: the pin is written
outside the mutex (`application.cpp:68`), so that the display can keep the brightness of the other thread; a strip lit by a message during a switched-off
round stays lit after switching on with its potmeter at zero (`application.cpp:116`); `enableGraph` draws without the
mutex (`application.cpp:155`); a half-written index of 0xFF80 or above makes the loop over the batches of an
EEPROM page endless (`eeprom_emulation.h:610`); a broker whose name cannot be resolved makes `MQTT::connect` wait for a CONNACK on no connection for a keepalive of half an hour
(`spark_wiring_tcpclient.cpp:62`); a control request whose call is lost blocks the interface for good
(`system_control.cpp:307`, which says so).

One more is about the EEPROM, and is the exception `Orphaned` of `RamAgrees` and `ImplementsMemory`. `eeprom_emulation.h:59-61` says that the old page is used until it is marked inactive, and lines
74-79 that a write that does not read back leads to a swap. When that very mark does not read back (line 682), the old page is neither active nor inactive, and the second try erases the new page, the only active one: a
reset there finds no active page, and `init` clears everything. Without a reset the second try fills the new page again, fails at the same mark, and `put` gives up: the program goes on reading and
writing the old page, what it puts there is gone after the next reset, and the next swap erases the only active page once more. With `Memory!MemSpec` as the property in place of `ImplementsMemory`, the constants of `eeprom_all` show it.

## 6. Not modelled, and the plan

Not modelled in the program: the debug output, the start-up screens, the TCP server of an earlier version (nobody starts it), the race of `setup` and the MQTT thread on the
`std::map` of the display (undefined below the model's level). In the firmware: drivers, cryptography, consoles, the
bootloader, third-party libraries; "components" in `PROJECT.json` gives the reason for each.

Plan, in order:

1. The safety part of the liveness properties that have one not yet stated: what ranks the steps of a swap (`ComesBack`), of the retransmissions
   (`Settles`) and of a transfer that falls silent (`Ends`), as action properties that say what comes nearer with each step.
2. Indices of a given width in `EepromEmulation`, so that a block may wrap; the weaker memory it still implements when cut records are valid.
3. `Signaling`: `set_state` of three threads against the thread that blinks; that the pattern settles.
4. `TemperatureGraph`: the ring of measurements against a reference definition; the scale of the graph.
5. Composition of `LedControl` and `MqttSession`: the state that is shown against the connection there is.
6. The network manager and the connection attempts of the system loop, the LED service, the sessions of the DTLS channel that are saved.
