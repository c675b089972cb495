---------------------------- MODULE CoapReliable ----------------------------
(***************************************************************************)
(* The reliable CoAP channel of communication/src/coap_channel: two stores *)
(* of messages over a channel of datagrams that are lost, delayed and      *)
(* duplicated.  The client's store holds the confirmable messages of the   *)
(* device until they are acknowledged or given up, the server's store the  *)
(* requests of the server and the answers to them.  One action per call of *)
(* send or receive, and one per round of send_synchronous.                 *)
(***************************************************************************)
EXTENDS Integers, FiniteSets

CONSTANTS
    Messages,            \* the confirmable messages the device may send, by id
    Requests,            \* the confirmable requests the server may send, by id
    MAX_RETRANSMIT,
    ACK_TIMEOUT,         \* in ticks, as the next two
    MAX_TRANSMIT_SPAN,
    Window               \* copies of a request arrive no longer than this after the first

ASSUME NumbersAssumption ==
    /\ MAX_RETRANSMIT \in Nat /\ ACK_TIMEOUT \in Nat \ {0}
    /\ MAX_TRANSMIT_SPAN \in Nat \ {0} /\ Window \in Nat \ {0}
\* The server gives up, and the network has lost or delivered every copy,
\* within the time the device remembers a request.
ASSUME WindowAssumption == Window <= MAX_TRANSMIT_SPAN

None == "None"
ASSUME NoneAssumption == None \notin Messages

Types == {"ACK", "RESET"}

VARIABLES
    client,      \* client[m]: the timer and the transmissions of a message not yet acknowledged
    server,      \* server[r]: the request or the answer to it, and the time it is kept
    session,     \* the DTLS session is established
    sync,        \* the message send_synchronous waits for
    answers,     \* what the server has answered, any of which may arrive at any time
    copies,      \* copies[r]: how much longer copies of r may arrive, r having been sent
    sent,        \* the messages sent since the session was established
    acked,       \* those of them whose acknowledgement was received,
    refused,     \* and those the server refused with a RESET
    tries,       \* tries[m]: how often m was handed to the channel below
    outcome,     \* outcome[m]: what send_synchronous returned
    handled,     \* handled[r]: how often r was passed on since the session was established
    answered     \* the requests answered since then

stores  == <<client, server>>
network == <<answers, copies>>
history == <<sent, acked, refused, tries, outcome, handled, answered>>
vars    == <<stores, session, sync, network, history>>

Power2[n \in Nat] == IF n = 0 THEN 1 ELSE 2 * Power2[n - 1]

\* transmit_timeout: doubled each time, and up to half as long again.
transmit_timeout(count) ==
    LET timeout == ACK_TIMEOUT * Power2[count] IN timeout .. timeout + timeout \div 2

Longest == ACK_TIMEOUT * Power2[MAX_RETRANSMIT] + (ACK_TIMEOUT * Power2[MAX_RETRANSMIT]) \div 2

Pending == [left : 0 .. Longest, count : 1 .. MAX_RETRANSMIT + 1]
Kept == [kind : {"request", "answer"}, left : 0 .. MAX_TRANSMIT_SPAN]

TypeOK ==
    /\ client \in UNION {[s -> Pending] : s \in SUBSET Messages}
    /\ server \in UNION {[s -> Kept] : s \in SUBSET Requests}
    /\ session \in BOOLEAN
    /\ sync \in Messages \cup {None}
    /\ answers \subseteq Messages \X Types
    /\ copies \in UNION {[s -> 0 .. Window] : s \in SUBSET Requests}
    /\ sent \cup acked \cup refused \subseteq Messages
    /\ tries \in [Messages -> 0 .. MAX_RETRANSMIT + 1]
    /\ outcome \in [Messages -> {"none", "ok", "timeout", "reset", "error"}]
    /\ handled \in [Requests -> 0 .. 2]
    /\ answered \subseteq Requests

Nothing == [m \in {} |-> 0]

Init ==
    /\ client = Nothing /\ server = Nothing
    /\ session = FALSE
    /\ sync = None
    /\ answers = {} /\ copies = Nothing
    /\ sent = {} /\ acked = {} /\ refused = {}
    /\ tries = [m \in Messages |-> 0]
    /\ outcome = [m \in Messages |-> "none"]
    /\ handled = [r \in Requests |-> 0] /\ answered = {}

-----------------------------------------------------------------------------
(* The stores.                                                             *)

Without(store, ids) == [m \in DOMAIN store \ ids |-> store[m]]
With(store, id, entry) ==
    [m \in DOMAIN store \cup {id} |-> IF m = id THEN entry ELSE store[m]]

Due(store) == {m \in DOMAIN store : store[m].left = 0}

\* mutated forms of Again: one transmission too few, one too many
AgainOneLess(store) == {m \in Due(store) : store[m].count < MAX_RETRANSMIT}
AgainOneMore(store) == {m \in Due(store) : store[m].count <= MAX_RETRANSMIT + 1}
\* prepare_retransmit returns true: the message is sent once more.
Again(store) == {m \in Due(store) : store[m].count <= MAX_RETRANSMIT}
Lost(store) == Due(store) \ Again(store)

\* The timers of the messages that are sent again.
Renewals(store) ==
    {left \in [Again(store) -> UNION {transmit_timeout(store[m].count) : m \in Again(store)}] :
        \A m \in Again(store) : left[m] \in transmit_timeout(store[m].count)}

\* What process may make of the client's store: messages are sent again with
\* new timers, or given up and removed.
Processed(store) ==
    {[m \in DOMAIN store \ Lost(store) |->
          IF m \in Again(store)
          THEN [left |-> left[m], count |-> store[m].count + 1] ELSE store[m]] :
        left \in Renewals(store)}

\* What is stored of a request is a confirmable message, which is never sent
\* and given up when its time is over; an answer is dropped then.
Unanswered(store) == {r \in Due(store) : store[r].kind = "request"}

-----------------------------------------------------------------------------
(* The channel below: DTLSMessageChannel.                                  *)

\* ids are handed to the channel: each may reach the server, which answers.
Transmit(ids) ==
    /\ tries' = [m \in Messages |-> tries[m] + (IF m \in ids THEN 1 ELSE 0)]
    /\ \E new \in SUBSET (ids \X Types) :
           answers' = IF session THEN answers \cup new ELSE answers

\* reset_session, after an error of the channel or the command CLOSE or
\* DISCARD_SESSION; failed says that the channel fails now.
Close(failed) == session' = (session /\ ~failed)

-----------------------------------------------------------------------------
(* Sending.                                                                *)

\* CoAPMessageStore::send: the message is stored before it is handed to the
\* channel, and stays stored when that fails.
Store(m) ==
    /\ tries[m] = 0
    /\ sent' = sent \cup {m}
    /\ \E left \in transmit_timeout(0) : client' = With(client, m, [left |-> left, count |-> 1])

Send(m) ==
    /\ sync = None
    /\ Store(m)
    /\ Transmit({m})
    /\ \E failed \in BOOLEAN : Close(failed)
    /\ UNCHANGED <<server, sync, copies, acked, refused, outcome, handled, answered>>

\* send_synchronous up to its loop.
SendSynchronous(m) ==
    /\ sync = None
    /\ session
    /\ Store(m)
    /\ Transmit({m})
    /\ Close(FALSE)
    /\ sync' = m
    /\ UNCHANGED <<server, copies, acked, refused, outcome, handled, answered>>

\* The channel refuses it, and it is cleared from the store.
SendSynchronousFails(m) ==
    /\ sync = None
    /\ tries[m] = 0
    /\ sent' = sent \cup {m}
    /\ Transmit({m})
    /\ Close(TRUE)
    /\ outcome' = [outcome EXCEPT ![m] = "error"]
    /\ UNCHANGED <<stores, sync, copies, acked, refused, handled, answered>>

\* mutated forms of Answer: the request is kept as it is, or forgotten
AnswerNotStored(r) ==
    /\ sync = None
    /\ handled[r] > 0 /\ r \notin answered
    /\ answered' = answered \cup {r}
    /\ \E failed \in BOOLEAN : Close(failed)
    /\ UNCHANGED <<stores, sync, network, sent, acked, refused, tries, outcome, handled>>
AnswerForgets(r) ==
    /\ sync = None
    /\ handled[r] > 0 /\ r \notin answered
    /\ answered' = answered \cup {r}
    /\ server' = Without(server, {r})
    /\ \E failed \in BOOLEAN : Close(failed)
    /\ UNCHANGED <<client, sync, network, sent, acked, refused, tries, outcome, handled>>
\* The application answers a request it was handed: the answer takes the
\* place of the request in the store.
Answer(r) ==
    /\ sync = None
    /\ handled[r] > 0 /\ r \notin answered
    /\ answered' = answered \cup {r}
    /\ server' = With(server, r, [kind |-> "answer", left |-> MAX_TRANSMIT_SPAN])
    /\ \E failed \in BOOLEAN : Close(failed)
    /\ UNCHANGED <<client, sync, network, sent, acked, refused, tries, outcome, handled>>

-----------------------------------------------------------------------------
(* Receiving.                                                              *)

\* mutated forms of Process: the client's store is left out; giving a message
\* up does not end the session
ProcessServerOnly(c, s, closed, sending) ==
    /\ client' = c
    /\ server' = Without(s, Due(s))
    /\ \E failed \in BOOLEAN :
           /\ failed => sending
           /\ Close(failed \/ closed \/ Unanswered(s) # {})
    /\ UNCHANGED <<answers, tries>>
ProcessQuietly(c, s, closed, sending) ==
    /\ client' \in Processed(c)
    /\ server' = Without(s, Due(s))
    /\ Transmit(Again(c))
    /\ \E failed \in BOOLEAN :
           /\ failed => sending \/ Again(c) # {}
           /\ Close(failed \/ closed \/ Unanswered(s) # {})
\* The rest of receive once its message has left the stores as c and s:
\* process of both.  closed: the session was reset on the way; sending: an
\* answer was sent on the way.
Process(c, s, closed, sending) ==
    /\ client' \in Processed(c)
    /\ server' = Without(s, Due(s))
    /\ Transmit(Again(c))
    /\ \E failed \in BOOLEAN :
           /\ failed => sending \/ Again(c) # {}
           /\ Close(failed \/ closed \/ Lost(c) # {} \/ Unanswered(s) # {})

\* No message, or an error of the channel.
ReceiveNothing(failed) ==
    /\ sync = None
    /\ ~session => failed
    /\ Process(client, server, failed, FALSE)
    /\ UNCHANGED <<sync, copies, sent, acked, refused, outcome, handled, answered>>

\* An acknowledgement or a RESET; of a message that is not stored it is dropped.
ReceiveAnswer(m, type) ==
    /\ sync = None
    /\ session /\ <<m, type>> \in answers
    /\ Process(Without(client, {m}), server, type = "RESET", FALSE)
    /\ acked' = IF type = "ACK" THEN acked \cup ({m} \cap DOMAIN client) ELSE acked
    /\ refused' = IF type = "RESET" THEN refused \cup ({m} \cap DOMAIN client) ELSE refused
    /\ UNCHANGED <<sync, copies, sent, outcome, handled, answered>>

Copy(r) == session /\ r \in DOMAIN copies /\ copies[r] > 0

\* A request that is not stored is stored and passed on.
ReceiveRequest(r) ==
    /\ sync = None
    /\ Copy(r)
    /\ r \notin DOMAIN server
    /\ Process(client, With(server, r, [kind |-> "request", left |-> MAX_TRANSMIT_SPAN]),
               FALSE, FALSE)
    /\ handled' = [handled EXCEPT ![r] = IF @ < 2 THEN @ + 1 ELSE 2]
    /\ UNCHANGED <<sync, copies, sent, acked, refused, outcome, answered>>

\* One that is stored is dropped, and answered again if it was answered.
ReceiveDuplicate(r) ==
    /\ sync = None
    /\ Copy(r)
    /\ r \in DOMAIN server
    /\ Process(client, server, FALSE, server[r].kind = "answer")
    /\ UNCHANGED <<sync, copies, sent, acked, refused, outcome, handled, answered>>

-----------------------------------------------------------------------------
(* The loop of send_synchronous.                                           *)

\* mutated form of Round: process is not called
RoundNoProcess(c, closed, error) ==
    LET over == sync \notin DOMAIN c \/ error # "ok"
    IN /\ client' = IF over THEN Without(c, {sync}) ELSE c
       /\ Close(closed)
       /\ sync' = IF over THEN None ELSE sync
       /\ outcome' = IF over THEN [outcome EXCEPT ![sync] = error] ELSE outcome
       /\ UNCHANGED <<answers, tries>>
\* A round of it, its message having left the client's store as c, and what
\* error says then.  The requests of the server are dropped and its store is
\* not looked at.
Round(c, closed, error) ==
    LET over == sync \notin DOMAIN c \/ sync \in Lost(c) \/ error # "ok"
    IN /\ \E kept \in Processed(c) : client' = IF over THEN Without(kept, {sync}) ELSE kept
       /\ Transmit(Again(c))
       /\ \E failed \in BOOLEAN :
              /\ failed => Again(c) # {}
              /\ Close(failed \/ closed \/ Lost(c) # {})
       /\ sync' = IF over THEN None ELSE sync
       /\ outcome' = IF over
                     THEN [outcome EXCEPT ![sync] = IF sync \in Lost(c) THEN "timeout" ELSE error]
                     ELSE outcome

WaitNothing(failed) ==
    /\ sync # None
    /\ ~session => failed
    /\ Round(client, failed, IF failed THEN "error" ELSE "ok")
    /\ UNCHANGED <<server, copies, sent, acked, refused, handled, answered>>

WaitAnswer(m, type) ==
    /\ sync # None
    /\ session /\ <<m, type>> \in answers
    /\ Round(Without(client, {m}), type = "RESET",
             IF type = "RESET" /\ m = sync THEN "reset" ELSE "ok")
    /\ acked' = IF type = "ACK" THEN acked \cup ({m} \cap DOMAIN client) ELSE acked
    /\ refused' = IF type = "RESET" THEN refused \cup ({m} \cap DOMAIN client) ELSE refused
    /\ UNCHANGED <<server, copies, sent, handled, answered>>

-----------------------------------------------------------------------------
(* The session, the server and time.                                       *)

\* establish clears both stores.  A session that was not reset may be
\* resumed: what is under way in it still arrives.
Establish(resumed) ==
    /\ sync = None
    /\ resumed => session
    /\ client' = Nothing /\ server' = Nothing
    /\ IF resumed
       THEN session' = TRUE /\ UNCHANGED network
       ELSE /\ session' \in BOOLEAN
            /\ answers' = {} /\ copies' = [r \in DOMAIN copies |-> 0]
    /\ sent' = {}
    /\ handled' = [r \in Requests |-> 0] /\ answered' = {}
    /\ UNCHANGED <<sync, acked, refused, tries, outcome>>

\* The server sends a request for the first time.
Ask(r) ==
    /\ session
    /\ r \notin DOMAIN copies
    /\ copies' = With(copies, r, Window)
    /\ UNCHANGED <<stores, session, sync, answers, history>>

Less(n) == IF n = 0 THEN 0 ELSE n - 1

Tick ==
    /\ client' = [m \in DOMAIN client |-> [client[m] EXCEPT !.left = Less(@)]]
    /\ server' = [r \in DOMAIN server |-> [server[r] EXCEPT !.left = Less(@)]]
    /\ copies' = [r \in DOMAIN copies |-> Less(copies[r])]
    /\ UNCHANGED <<session, sync, answers, history>>

\* receive, and a round of send_synchronous, in which the channel does not fail.
Receive ==
    \/ ReceiveNothing(FALSE)
    \/ \E m \in Messages, type \in Types : ReceiveAnswer(m, type)
    \/ \E r \in Requests : ReceiveRequest(r) \/ ReceiveDuplicate(r)
Wait ==
    \/ WaitNothing(FALSE)
    \/ \E m \in Messages, type \in Types : WaitAnswer(m, type)

Next ==
    \/ \E m \in Messages : Send(m) \/ SendSynchronous(m) \/ SendSynchronousFails(m)
    \/ \E r \in Requests : Answer(r) \/ Ask(r)
    \/ Receive \/ ReceiveNothing(TRUE)
    \/ Wait \/ WaitNothing(TRUE)
    \/ \E resumed \in BOOLEAN : Establish(resumed)
    \/ Tick

Spec == Init /\ [][Next]_vars

\* The program calls receive in its loop as long as the session lasts,
\* send_synchronous goes on, with an error once the session is reset, and
\* time passes.
FairSpec ==
    /\ Spec
    /\ WF_vars(Receive)
    /\ WF_vars(Wait)
    /\ WF_vars(~session /\ WaitNothing(TRUE))
    /\ WF_vars(Tick)

-----------------------------------------------------------------------------
(* Properties.                                                             *)

\* A request of the server is passed on to the application once for each
\* time the session was established, whatever the copies of it that arrive
\* before and after it was answered (CoAPMessageStore::receive).
AtMostOnce == \A r \in Requests : handled[r] <= 1

\* As long as copies of an answered request may arrive, the answer to them
\* is stored (the answer replaces the request, with a time of its own).
AnswerKept ==
    \A r \in answered :
        copies[r] > 0 => r \in DOMAIN server /\ server[r].kind = "answer"

\* While a session lasts, no message sent in it is forgotten before it was
\* acknowledged: it is stored, and giving it up ends the session, on all the
\* paths that do (message_timeout, RESET, an error in send_synchronous).
NoSilentLoss == session => sent \subseteq DOMAIN client \cup acked

\* What send_synchronous returns is what happened to the message, whoever
\* else's messages are acknowledged, refused or given up while it waits.
SyncTruth ==
    \A m \in Messages :
        /\ outcome[m] = "ok" <=> outcome[m] # "none" /\ m \in acked
        /\ outcome[m] = "timeout" => tries[m] = MAX_RETRANSMIT + 1
        /\ outcome[m] = "reset" <=> outcome[m] # "none" /\ m \in refused

\* As long as the session lasts every message leaves the store in the end:
\* acknowledged or given up, which the retransmissions lead to.
Settles == \A m \in Messages : m \in DOMAIN client ~> m \notin DOMAIN client \/ ~session

\* send_synchronous returns, whatever the server answers or does not.
Returns == sync # None ~> sync = None
=============================================================================
