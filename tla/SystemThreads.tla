--------------------------- MODULE SystemThreads ---------------------------
(***************************************************************************)
(* The active objects of the system: the queues by which the threads of a  *)
(* device have each other run calls (active_object.h, system_threading.h), *)
(* the queue for calls from interrupts, and the control requests over USB  *)
(* that go through all of them (system_control.cpp).  A thread that calls  *)
(* synchronously waits until the system thread has run the call.  Both     *)
(* threads may take a call while they run another one: the application in  *)
(* a delay, the system while it listens for credentials or shuts down.     *)
(***************************************************************************)
EXTENDS Integers, Sequences

CONSTANTS
    Others,          \* threads of the application without a queue
    AppSize,         \* capacity of the queue of the application,
    SystemSize,      \* of the system
    ISRSize,         \* and of the one for interrupts
    MaxCalls,        \* bound: calls of each thread to the system,
    MaxEvents,       \* of the system to the application,
    MaxRequests      \* and requests over USB

App == "application"
System == "system"
Objects == {App, System}
Threads == Objects \cup Others

ASSUME ThreadAssumption == Objects \cap Others = {}
ASSUME SizeAssumption == AppSize \in Nat \ {0} /\ SystemSize \in Nat \ {0} /\ ISRSize \in Nat \ {0}
ASSUME BoundAssumption == MaxCalls \in Nat /\ MaxEvents \in Nat /\ MaxRequests \in Nat

\* The n-th call of a thread.  Only calls to the system are synchronous.
MaxMade == MaxCalls + MaxEvents + MaxRequests
Kinds == {"async", "sync", "usb"}
Calls == [from : Threads, n : 1 .. MaxMade, kind : Kinds]
NoCall == [from |-> System, n |-> 0, kind |-> "async"]
Size(object) == IF object = App THEN AppSize ELSE SystemSize
Target(thread) == IF thread = System THEN App ELSE System

VARIABLES
    pc,              \* pc[t]: thread t runs, puts a call in a queue, or waits for its end
    call,            \* call[t]: that call
    queue,           \* queue[o]: the calls that wait for object o
    stack,           \* stack[o]: the calls that it runs, the outermost first
    complete,        \* the calls whose semaphore was given
    made, last,      \* the last call of each thread, and the last that was begun
    buffer,          \* the event whose name and data the channel's buffer holds
    request,         \* the request in usbReq_, by its number,
    active, ready,
    isr,             \* how often processSystemRequest is in the queue for interrupts
    handling         \* the request that the application was given, until it sets the result

calls == <<pc, call, queue, stack, complete, made, last, buffer>>
usb == <<request, active, ready, isr, handling>>
vars == <<calls, usb>>

TypeOK ==
    /\ pc \in [Threads -> {"run", "put", "wait"}]
    /\ call \in [Threads -> Calls \cup {NoCall}]
    /\ queue \in [Objects -> Seq(Calls)] /\ \A o \in Objects : Len(queue[o]) <= Size(o)
    /\ stack \in [Objects -> Seq(Calls)]
    /\ complete \subseteq Calls
    /\ made \in [Threads -> 0 .. MaxMade] /\ last \in [Threads -> 0 .. MaxMade]
    /\ buffer \in 0 .. MaxMade
    /\ request \in 0 .. MaxRequests /\ active \in BOOLEAN /\ ready \in BOOLEAN
    /\ isr \in 0 .. ISRSize /\ handling \in 0 .. MaxRequests

Init ==
    /\ pc = [t \in Threads |-> "run"] /\ call = [t \in Threads |-> NoCall]
    /\ queue = [o \in Objects |-> <<>>] /\ stack = [o \in Objects |-> <<>>]
    /\ complete = {}
    /\ made = [t \in Threads |-> 0] /\ last = [t \in Threads |-> 0] /\ buffer = 0
    /\ request = 0 /\ active = FALSE /\ ready = FALSE /\ isr = 0 /\ handling = 0

-----------------------------------------------------------------------------
(* Calls.                                                                  *)

\* invoke_async, invoke_future.  A call of the system to the application is an
\* event: it came in the buffer that the next one overwrites.
Begin(t, kind) ==
    /\ pc[t] = "run"
    /\ made' = [made EXCEPT ![t] = @ + 1]
    /\ pc' = [pc EXCEPT ![t] = "put"]
    /\ call' = [call EXCEPT ![t] = [from |-> t, n |-> made'[t], kind |-> kind]]
    /\ UNCHANGED <<queue, stack, complete, last>>

Invoke(t) ==
    /\ made[t] < IF t = System THEN MaxEvents ELSE MaxCalls
    /\ \E kind \in {"async", "sync"} : (kind = "sync" => Target(t) = System) /\ Begin(t, kind)
    /\ buffer' = IF t = System THEN made'[t] ELSE buffer
    /\ UNCHANGED usb

\* A semaphore is created empty: the caller of a synchronous call waits.
AfterPut(kind) == IF kind = "sync" THEN "wait" ELSE "run"

\* mutated form of HasRoom: one item too many
HasRoomForOneMore(object) == Len(queue[object]) <= Size(object)
HasRoom(object) == Len(queue[object]) < Size(object)

\* os_queue_put succeeds.
put(t) ==
    /\ pc[t] = "put"
    /\ HasRoom(Target(t))
    /\ queue' = [queue EXCEPT ![Target(t)] = Append(@, call[t])]
    /\ pc' = [pc EXCEPT ![t] = AfterPut(call[t].kind)]
    /\ UNCHANGED <<call, stack, complete, made, last, buffer, usb>>

\* mutated forms of put_wait: everyone waits for ever, or nobody does
WaitsForever(object) == FALSE
GivesUp(object) == TRUE
\* Whether those who call the object give up in time: 5 s for the
\* application, and never for the system.
put_wait(object) == object = App

\* os_queue_put fails, and the call is deleted; a synchronous one returns 0.
PutFails(t) ==
    /\ pc[t] = "put" /\ put_wait(Target(t))
    /\ ~HasRoom(Target(t))
    /\ pc' = [pc EXCEPT ![t] = "run"]
    /\ UNCHANGED <<call, queue, stack, complete, made, last, buffer, usb>>

\* process: the object takes a call and begins to run it.
process(o) ==
    /\ pc[o] = "run" /\ queue[o] # <<>>
    /\ LET c == Head(queue[o]) IN
       /\ stack' = [stack EXCEPT ![o] = Append(@, c)]
       /\ last' = [last EXCEPT ![c.from] = c.n]
       /\ handling' = IF c.kind = "usb" THEN request ELSE handling
    /\ queue' = [queue EXCEPT ![o] = Tail(@)]
    /\ UNCHANGED <<pc, call, complete, made, buffer, request, active, ready, isr>>

\* The innermost call ends, and its semaphore is given.
task_complete(o) ==
    /\ pc[o] = "run" /\ stack[o] # <<>>
    /\ LET c == stack[o][Len(stack[o])] IN
       complete' = IF c.kind = "sync" THEN complete \cup {c} ELSE complete
    /\ stack' = [stack EXCEPT ![o] = SubSeq(@, 1, Len(@) - 1)]
    /\ UNCHANGED <<pc, call, queue, made, last, buffer, usb>>

\* wait_complete returns; the promise is deleted.
get(t) ==
    /\ pc[t] = "wait" /\ call[t] \in complete
    /\ pc' = [pc EXCEPT ![t] = "run"]
    /\ complete' = complete \ {call[t]}
    /\ UNCHANGED <<call, queue, stack, made, last, buffer, usb>>

-----------------------------------------------------------------------------
(* Requests over USB, for which the application has a handler or not.      *)

\* mutated form of Accepted: the request before is overwritten
AlwaysAccepted == TRUE
Accepted == ~active \/ ready

\* enqueueRequest, in an interrupt.
enqueueRequest ==
    /\ request < MaxRequests /\ Accepted /\ isr < ISRSize
    /\ request' = request + 1
    /\ isr' = isr + 1
    /\ ready' = FALSE /\ active' = TRUE
    /\ UNCHANGED <<calls, handling>>

\* fetchRequestResult: the reply can be fetched again.
fetchRequestResult ==
    /\ ready /\ active
    /\ active' = FALSE
    /\ UNCHANGED <<calls, request, ready, isr, handling>>

\* processSystemRequest on the system thread.
processSystemRequest ==
    /\ pc[System] = "run" /\ isr > 0
    /\ isr' = isr - 1
    /\ \/ ready' = TRUE /\ UNCHANGED calls
       \/ Begin(System, "usb") /\ UNCHANGED <<ready, buffer>>
    /\ UNCHANGED <<request, active, handling>>

\* setRequestResult, by the handler or later.
setRequestResult ==
    /\ handling # 0
    /\ handling' = 0 /\ ready' = TRUE
    /\ UNCHANGED <<calls, request, active, isr>>

-----------------------------------------------------------------------------
Next ==
    \/ \E t \in Threads : Invoke(t) \/ put(t) \/ PutFails(t) \/ get(t)
    \/ \E o \in Objects : process(o) \/ task_complete(o)
    \/ enqueueRequest \/ fetchRequestResult \/ processSystemRequest \/ setRequestResult

Spec == Init /\ [][Next]_vars

\* The loop of an object processes its queue when it runs no call; calls end
\* when what they wait for does; a queue that has room is entered in turn.
FairSpec ==
    /\ Spec
    /\ \A t \in Threads : SF_vars(put(t)) /\ WF_vars(PutFails(t)) /\ WF_vars(get(t))
    /\ \A o \in Objects : /\ WF_vars(process(o) /\ stack[o] = <<>>)
                          /\ WF_vars(task_complete(o))

-----------------------------------------------------------------------------
(* Properties.                                                             *)

\* A synchronous call returns, whatever the application and the system have
\* each other run: they never wait for each other.
SyncReturns == \A t \in Threads \ {System} : pc[t] = "wait" ~> pc[t] = "run"

\* No call to the system is lost: only those of the system to the
\* application may be.
SystemRuns == \A t \in Threads \ {System} : made[t] = MaxCalls ~> last[t] = MaxCalls

\* What the application was given of a request is not overwritten by the next
\* one before it has set the result.
RequestStable == handling # 0 => handling = request /\ active /\ ~ready

\* "copy the buffers to dynamically allocated storage" (invokeEventHandler):
\* what the application reads of an event is that event's.
EventIntact ==
    [][\A c \in Calls : /\ c.from = System /\ c.kind = "async"
                        /\ stack'[App] = Append(stack[App], c)
                        => buffer = c.n]_vars
=============================================================================
