---------------------------- MODULE MqttSession ----------------------------
(***************************************************************************)
(* The connection to the broker: MQTT.cpp (connect, loop, readPacket,      *)
(* subscribe), the thread of ConnectionManager.cpp that runs it, the       *)
(* TCPClient below it, the network and the broker.                         *)
(*                                                                         *)
(* One thread at a time uses the connection: setup connects and subscribes *)
(* and starts the worker.  The clock ticks where the thread waits: in its  *)
(* delay and in its two busy waits.  A time stamp is kept as its age,      *)
(* counted up to one tick more than the keepalive.                         *)
(***************************************************************************)
EXTENDS Integers, Sequences, FiniteSets

CONSTANTS
    K,           \* the keepalive, in ticks
    MaxDown      \* bound: packets the broker has under way to the client

ASSUME KAssumption == K \in Nat \ {0}
ASSUME MaxDownAssumption == MaxDown \in Nat \ {0}

VARIABLES
    pc,              \* what the thread that uses the connection does next
    inSetup,         \* setup is still running connectToBroker
    state,           \* ConnectionManager::state
    sock,            \* the client's socket: "open" or "closed"
    wire,            \* "up"; "dead": silent for good; "closed": the client's stack knows
    up,              \* packets under way to the broker
    down,            \* packets that reached the client and are unread
    torn,            \* the last packet of down has not arrived completely
    session,         \* the broker accepted the connection
    subscribed,      \* the broker delivers the topic on this connection
    pingOutstanding,
    sinceIn,         \* age of lastInActivity
    sinceOut,        \* age of lastOutActivity
    sinceStart,      \* age of t, the time at which loop was called
    quiet,           \* history: ticks in the delay since a packet was last read
    asked            \* history: age of this connection's last PINGREQ, None before

netVars   == <<sock, wire, up, down, torn, session, subscribed>>
timeVars  == <<sinceIn, sinceOut, sinceStart, quiet, asked>>
vars == <<pc, inSetup, state, netVars, pingOutstanding, timeVars>>

ToBroker == {"CONNECT", "SUBSCRIBE", "PINGREQ"}

\* What the broker sends.  "TOOLONG" is a PUBLISH longer than the buffer.
ToClient == {"ACCEPT", "REFUSE", "SUBACK", "PINGRESP", "PUBLISH", "TOOLONG"}

Age == 0 .. K + 1
MaxQuiet == 2 * K + 3
None == -1

TypeOK ==
    /\ pc \in {"connect", "connack", "readack", "subscribe",
               "loop", "poll", "read", "callback", "check", "delay"}
    /\ inSetup \in BOOLEAN
    /\ state \in {"DISCONNECTED", "CONNECTING", "CONNECTED"}
    /\ sock \in {"open", "closed"}
    /\ wire \in {"up", "dead", "closed"}
    /\ up \in Seq(ToBroker) /\ Len(up) <= 2
    /\ down \in Seq(ToClient)
    /\ torn \in BOOLEAN /\ session \in BOOLEAN /\ subscribed \in BOOLEAN
    /\ pingOutstanding \in BOOLEAN
    /\ sinceIn \in Age /\ sinceOut \in Age /\ sinceStart \in Age
    /\ quiet \in 0 .. MaxQuiet
    /\ asked \in Age \cup {None}

Init ==
    /\ pc = "connect" /\ inSetup = TRUE /\ state = "DISCONNECTED"
    /\ sock = "closed" /\ wire = "closed" /\ up = <<>> /\ down = <<>>
    /\ torn = FALSE /\ session = FALSE /\ subscribed = FALSE
    /\ pingOutstanding = FALSE
    /\ sinceIn = 0 /\ sinceOut = 0 /\ sinceStart = 0 /\ quiet = 0 /\ asked = None

-----------------------------------------------------------------------------
(* The TCP client.                                                         *)

Available == down # <<>>

\* The first packet has arrived completely: readPacket gets to its end.
Complete == Available /\ (torn => Len(down) > 1)

\* connected(): an open socket, or data left in the local buffer.
Connected == sock = "open" /\ (wire # "closed" \/ Available)

\* stop(): the socket is closed and the buffer flushed.
Stop ==
    /\ sock' = "closed" /\ wire' = "closed"
    /\ up' = <<>> /\ down' = <<>> /\ torn' = FALSE
    /\ session' = FALSE /\ subscribed' = FALSE

\* write(): what is written on a connection that is not up is lost.
Write(packet) ==
    /\ up' = IF wire = "up" THEN Append(up, packet) ELSE up
    /\ UNCHANGED <<sock, wire, down, torn, session, subscribed>>

\* readPacket takes the first packet.
TakePacket ==
    /\ Complete
    /\ down' = Tail(down)
    /\ UNCHANGED <<sock, wire, up, torn, session, subscribed>>

-----------------------------------------------------------------------------
(* MQTT::connect, in setup and in the worker.                              *)

Go(from, to) == pc = from /\ pc' = to

\* Where connect returns to.
Return == IF inSetup THEN "subscribe" ELSE "delay"

\* No network, or nobody at the broker's address accepts.
ConnectFails ==
    /\ Go("connect", Return)
    /\ Stop
    /\ UNCHANGED <<inSetup, state, pingOutstanding, timeVars>>

\* A name that cannot be resolved: TCPClient::connect returns the error of the
\* lookup, which is not 0, and connect waits for the CONNACK on no connection.
LookupFails ==
    /\ Go("connect", "connack")
    /\ Stop
    /\ sinceIn' = 0 /\ sinceOut' = 0
    /\ asked' = None
    /\ UNCHANGED <<inSetup, state, pingOutstanding, sinceStart, quiet>>

ConnectSends ==
    /\ Go("connect", "connack")
    /\ sock' = "open" /\ wire' = "up"
    /\ up' = <<"CONNECT">> /\ down' = <<>> /\ torn' = FALSE
    /\ session' = FALSE /\ subscribed' = FALSE
    /\ sinceIn' = 0 /\ sinceOut' = 0
    /\ asked' = None
    /\ UNCHANGED <<inSetup, state, pingOutstanding, sinceStart, quiet>>

\* Mutated form of ConnackTimeout: the wait starts over.
ConnackTimeoutWaits ==
    /\ ~Available
    /\ sinceIn > K
    /\ pc = "connack"
    /\ sinceIn' = 0
    /\ UNCHANGED <<pc, inSetup, state, netVars, pingOutstanding, sinceOut, sinceStart, quiet, asked>>

\* while (!_client->available()): only the keepalive ends it.
ConnackTimeout ==
    /\ ~Available
    /\ sinceIn > K
    /\ Go("connack", Return)
    /\ Stop
    /\ UNCHANGED <<inSetup, state, pingOutstanding, timeVars>>

ConnackBegins ==
    /\ Available
    /\ Go("connack", "readack")
    /\ UNCHANGED <<inSetup, state, netVars, pingOutstanding, timeVars>>

\* Mutated form of ConnackAccepts: pingOutstanding is not reset.
ConnackAcceptsKeepsPing ==
    /\ Go("readack", Return)
    /\ TakePacket
    /\ Head(down) = "ACCEPT"
    /\ sinceIn' = 0 /\ quiet' = 0
    /\ UNCHANGED <<inSetup, state, pingOutstanding, sinceOut, sinceStart, asked>>

ConnackAccepts ==
    /\ Go("readack", Return)
    /\ TakePacket
    /\ Head(down) = "ACCEPT"
    /\ sinceIn' = 0 /\ quiet' = 0
    /\ pingOutstanding' = FALSE
    /\ UNCHANGED <<inSetup, state, sinceOut, sinceStart, asked>>

\* Mutated form of ConnackRefuses: the socket is left open.
ConnackRefusesKeepsSocket ==
    /\ Go("readack", Return)
    /\ TakePacket
    /\ Head(down) # "ACCEPT"
    /\ UNCHANGED <<inSetup, state, pingOutstanding, timeVars>>

ConnackRefuses ==
    /\ Go("readack", Return)
    /\ Complete
    /\ Head(down) # "ACCEPT"
    /\ Stop
    /\ UNCHANGED <<inSetup, state, pingOutstanding, timeVars>>

\* connectToBroker subscribes if it is connected, and starts the worker.
SetupSubscribes ==
    /\ Connected
    /\ Go("subscribe", "loop")
    /\ inSetup' = FALSE
    /\ state' = "CONNECTED"
    /\ Write("SUBSCRIBE")
    /\ sinceOut' = 0
    /\ UNCHANGED <<pingOutstanding, sinceIn, sinceStart, quiet, asked>>

SetupGivesUp ==
    /\ ~Connected
    /\ Go("subscribe", "loop")
    /\ inSetup' = FALSE
    /\ Stop
    /\ UNCHANGED <<state, pingOutstanding, timeVars>>

-----------------------------------------------------------------------------
(* MQTT::loop, called by the worker.                                       *)

LoopNotConnected ==
    /\ ~Connected
    /\ Go("loop", "check")
    /\ Stop
    /\ UNCHANGED <<inSetup, state, pingOutstanding, timeVars>>

\* More than the keepalive has passed without input or without output.
Due == sinceIn > K \/ sinceOut > K

\* Mutated form of KeepaliveStops: loop returns false and stops nothing.
KeepaliveOnlyReturns ==
    /\ Connected /\ Due /\ pingOutstanding
    /\ Go("loop", "check")
    /\ sinceStart' = 0
    /\ UNCHANGED <<inSetup, state, netVars, pingOutstanding, sinceIn, sinceOut, quiet, asked>>

KeepaliveStops ==
    /\ Connected /\ Due /\ pingOutstanding
    /\ Go("loop", "check")
    /\ Stop
    /\ sinceStart' = 0
    /\ UNCHANGED <<inSetup, state, pingOutstanding, sinceIn, sinceOut, quiet, asked>>

\* Mutated form of KeepalivePings: the PINGREQ is not remembered.
KeepalivePingsAgain ==
    /\ Connected /\ Due /\ ~pingOutstanding
    /\ Go("loop", "poll")
    /\ Write("PINGREQ")
    /\ sinceStart' = 0 /\ sinceIn' = 0 /\ sinceOut' = 0
    /\ asked' = 0
    /\ UNCHANGED <<inSetup, state, pingOutstanding, quiet>>

KeepalivePings ==
    /\ Connected /\ Due /\ ~pingOutstanding
    /\ Go("loop", "poll")
    /\ Write("PINGREQ")
    /\ sinceStart' = 0 /\ sinceIn' = 0 /\ sinceOut' = 0
    /\ pingOutstanding' = TRUE
    /\ asked' = 0
    /\ UNCHANGED <<inSetup, state, quiet>>

KeepaliveNotDue ==
    /\ Connected /\ ~Due
    /\ Go("loop", "poll")
    /\ sinceStart' = 0
    /\ UNCHANGED <<inSetup, state, netVars, pingOutstanding, sinceIn, sinceOut, quiet, asked>>

Poll ==
    /\ Go("poll", IF Available THEN "read" ELSE "check")
    /\ UNCHANGED <<inSetup, state, netVars, pingOutstanding, timeVars>>

\* Mutated form of Read: any packet counts as the answer to the PINGREQ.
ReadAnswersPing ==
    /\ TakePacket
    /\ Go("read", IF Head(down) = "PUBLISH" THEN "callback" ELSE "check")
    /\ Head(down) # "TOOLONG"
    /\ sinceIn' = sinceStart
    /\ quiet' = 0
    /\ pingOutstanding' = FALSE
    /\ UNCHANGED <<inSetup, state, sinceOut, sinceStart, asked>>

\* A packet has been read: lastInActivity becomes t, the time loop was called.
Read ==
    /\ TakePacket
    /\ Go("read", IF Head(down) = "PUBLISH" THEN "callback" ELSE "check")
    /\ Head(down) # "TOOLONG"
    /\ sinceIn' = sinceStart
    /\ quiet' = 0
    /\ pingOutstanding' = (pingOutstanding /\ Head(down) # "PINGRESP")
    /\ UNCHANGED <<inSetup, state, sinceOut, sinceStart, asked>>

\* A packet longer than the buffer is ignored.
ReadTooLong ==
    /\ Go("read", "check")
    /\ TakePacket
    /\ Head(down) = "TOOLONG"
    /\ UNCHANGED <<inSetup, state, pingOutstanding, timeVars>>

\* mqtt_onmessage_callback runs; what it does is in LedControl.
Callback ==
    /\ Go("callback", "check")
    /\ UNCHANGED <<inSetup, state, netVars, pingOutstanding, timeVars>>

-----------------------------------------------------------------------------
(* ConnectionManager::mqtt_server_worker.                                  *)

CheckConnected ==
    /\ Connected
    /\ Go("check", "delay")
    /\ state' = "CONNECTED"
    /\ UNCHANGED <<inSetup, netVars, pingOutstanding, timeVars>>

\* Mutated form of CheckReconnects: the state is not updated.
CheckReconnectsSilently ==
    /\ ~Connected
    /\ Go("check", "connect")
    /\ Stop
    /\ UNCHANGED <<inSetup, state, pingOutstanding, timeVars>>

CheckReconnects ==
    /\ ~Connected
    /\ Go("check", "connect")
    /\ Stop
    /\ state' = "CONNECTING"
    /\ UNCHANGED <<inSetup, pingOutstanding, timeVars>>

DelayEnds ==
    /\ Go("delay", "loop")
    /\ UNCHANGED <<inSetup, state, netVars, pingOutstanding, timeVars>>

Worker ==
    \/ ConnectFails \/ LookupFails \/ ConnectSends \/ ConnackTimeout \/ ConnackBegins
    \/ ConnackAccepts \/ ConnackRefuses \/ SetupSubscribes \/ SetupGivesUp
    \/ LoopNotConnected \/ KeepaliveStops \/ KeepalivePings \/ KeepaliveNotDue
    \/ Poll \/ Read \/ ReadTooLong \/ Callback
    \/ CheckConnected \/ CheckReconnects \/ DelayEnds

-----------------------------------------------------------------------------
(* Time.                                                                   *)

Older(age, limit) == IF age < limit THEN age + 1 ELSE limit

\* The thread waits for a byte: for a packet's first in connack, for a later
\* one in readByte.
WaitsForByte ==
    \/ pc = "connack" /\ ~Available /\ sinceIn <= K
    \/ pc \in {"read", "readack"} /\ ~Complete

Tick ==
    /\ pc = "delay" \/ WaitsForByte
    /\ pc' = IF pc = "delay" THEN "loop" ELSE pc
    /\ sinceIn' = Older(sinceIn, K + 1)
    /\ sinceOut' = Older(sinceOut, K + 1)
    /\ sinceStart' = Older(sinceStart, K + 1)
    /\ quiet' = IF pc = "delay" THEN Older(quiet, MaxQuiet) ELSE quiet
    /\ asked' = IF asked = None THEN None ELSE Older(asked, K + 1)
    /\ UNCHANGED <<inSetup, state, netVars, pingOutstanding>>

-----------------------------------------------------------------------------
(* The broker and the network.                                             *)

\* The broker sends a packet, all of it or, for now, a part.
Send(packet) ==
    /\ ~torn
    /\ Len(down) < MaxDown
    /\ down' = Append(down, packet)
    /\ torn' \in BOOLEAN

BrokerConnects ==
    /\ wire = "up" /\ up # <<>> /\ Head(up) = "CONNECT"
    /\ up' = Tail(up)
    /\ \/ Send("ACCEPT") /\ session' = TRUE
       \/ Send("REFUSE") /\ session' = FALSE
    /\ subscribed' = FALSE
    /\ UNCHANGED <<pc, inSetup, state, sock, wire, pingOutstanding, timeVars>>

BrokerSubscribes ==
    /\ wire = "up" /\ up # <<>> /\ Head(up) = "SUBSCRIBE" /\ session
    /\ up' = Tail(up)
    /\ Send("SUBACK")
    /\ subscribed' = TRUE
    /\ UNCHANGED <<pc, inSetup, state, sock, wire, session, pingOutstanding, timeVars>>

BrokerPongs ==
    /\ wire = "up" /\ up # <<>> /\ Head(up) = "PINGREQ" /\ session
    /\ up' = Tail(up)
    /\ Send("PINGRESP")
    /\ UNCHANGED <<pc, inSetup, state, sock, wire, session, subscribed, pingOutstanding, timeVars>>

BrokerPublishes ==
    /\ wire = "up" /\ subscribed
    /\ Send("PUBLISH") \/ Send("TOOLONG")
    /\ UNCHANGED <<pc, inSetup, state, sock, wire, up, session, subscribed, pingOutstanding, timeVars>>

\* The rest of a packet arrives.
PacketCompletes ==
    /\ wire = "up" /\ torn
    /\ torn' = FALSE
    /\ UNCHANGED <<pc, inSetup, state, sock, wire, up, down, session, subscribed, pingOutstanding, timeVars>>

\* Nothing arrives any more, in either direction, and nobody is told.
WireDies ==
    /\ wire = "up"
    /\ wire' = "dead"
    /\ up' = <<>> /\ session' = FALSE /\ subscribed' = FALSE
    /\ UNCHANGED <<pc, inSetup, state, sock, down, torn, pingOutstanding, timeVars>>

\* The client's stack learns that the connection is gone; packets that have
\* not reached the local buffer are lost, the last of the others possibly
\* in part.  The first byte of a packet that is being read is there.
WireCloses ==
    /\ wire \in {"up", "dead"}
    /\ wire' = "closed"
    /\ up' = <<>> /\ session' = FALSE /\ subscribed' = FALSE
    /\ \E n \in (IF pc \in {"read", "readack"} THEN 1 ELSE 0) .. Len(down) :
          /\ down' = SubSeq(down, 1, n)
          /\ torn' \in (IF n = 0 THEN {FALSE} ELSE IF n = Len(down) /\ torn THEN {TRUE} ELSE BOOLEAN)
    /\ UNCHANGED <<pc, inSetup, state, sock, pingOutstanding, timeVars>>

Broker == BrokerConnects \/ BrokerSubscribes \/ BrokerPongs \/ PacketCompletes

Next == Worker \/ Tick \/ Broker \/ BrokerPublishes \/ WireDies \/ WireCloses

Spec == Init /\ [][Next]_vars

(***************************************************************************)
(* The thread runs, time passes (whenever it is often able to), and a      *)
(* broker at the other end of a working connection answers.  That a        *)
(* connection is made, lost or stays up is assumed of nobody.              *)
(***************************************************************************)
FairSpec == Spec /\ WF_vars(Worker) /\ SF_vars(Tick) /\ WF_vars(Broker)

-----------------------------------------------------------------------------
(* Properties.                                                             *)

\* The number of a packet's copies in a queue.
Under(queue, packet) == Cardinality({i \in DOMAIN queue : queue[i] = packet})

\* connect has not been called, or has not returned.
Connecting == pc \in {"connect", "connack", "readack"}

(***************************************************************************)
(* The client takes itself for connected only to a broker that accepted    *)
(* this connection: what an earlier connection left unread is never taken  *)
(* for the answer to this one's CONNECT, and a refusal never for consent.  *)
(***************************************************************************)
Agreement == Connected /\ wire = "up" /\ ~Connecting => session

(***************************************************************************)
(* At most one PINGREQ is unanswered on a connection, counting the one     *)
(* under way and the PINGRESP not read yet, and pingOutstanding says so.   *)
(***************************************************************************)
OnePing ==
    Under(up, "PINGREQ") + Under(down, "PINGRESP") <= (IF pingOutstanding THEN 1 ELSE 0)

(***************************************************************************)
(* A silent connection is given up: the worker does not wait in its delay  *)
(* on an open connection on which nothing was read for more than two       *)
(* keepalives and a tick, whatever the packets read before, the connection *)
(* lost before or the stamps an earlier connection left.                   *)
(***************************************************************************)
SilenceBounded == sock = "open" /\ pc = "delay" => quiet <= 2 * K + 1

(***************************************************************************)
(* The keepalive gives a connection up only after the broker had more than *)
(* a keepalive to answer a PINGREQ sent on that same connection: neither a *)
(* PINGREQ of an earlier connection nor old stamps end a new one.          *)
(***************************************************************************)
AskedBeforeStopped == [][KeepaliveStops => asked > K]_vars

\* The thread spins in readByte for a byte that will never come.
Stuck == pc \in {"read", "readack"} /\ ~Complete /\ wire # "up"

(***************************************************************************)
(* The worker keeps coming round, whatever the network and the broker do   *)
(* (silence instead of a CONNACK, too), unless a connection is lost in the *)
(* middle of a packet it has begun to read.                                *)
(***************************************************************************)
WorkerComesRound == []<>(pc = "delay") \/ <>[]Stuck

(***************************************************************************)
(* The worker thread keeps the connection alive (the comment of            *)
(* ConnectionManager.cpp:301): once started, it comes round for ever.  It  *)
(* need not: readByte has no way out.                                      *)
(***************************************************************************)
WorkerAlive == <>[]inSetup \/ []<>(pc = "delay")

(***************************************************************************)
(* A loss for good is noticed, even of a connection that dies in silence:  *)
(* the state the main thread shows stops being CONNECTED.                  *)
(***************************************************************************)
LossNoticed == <>[](wire # "up") => <>[](state # "CONNECTED") \/ <>[]Stuck

(***************************************************************************)
(* The firmware communicates over MQTT (README.md:28): while it is         *)
(* connected for good, and says so, the broker delivers it the topic.  It  *)
(* need not: nobody subscribes after a reconnection.                       *)
(***************************************************************************)
DeliveredWhileConnected ==
    <>[](state = "CONNECTED" /\ session) => <>[]subscribed
=============================================================================
