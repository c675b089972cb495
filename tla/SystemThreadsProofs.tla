------------------------- MODULE SystemThreadsProofs -------------------------
(* Theorems about SystemThreads, for any number of threads and any sizes of  *)
(* the queues.                                                               *)
EXTENDS SystemThreads, TLAPS

\* The system has made an event, or a call for a request that it has taken
\* from the queue for interrupts.
CountInv ==
    /\ isr <= request
    /\ made[System] + isr <= MaxEvents + request
    /\ \A t \in Threads \ {System} : made[t] <= MaxCalls

\* What a thread is about to put in a queue is its call, and only the system
\* makes those that handle requests over USB, for the application.
CallInv ==
    /\ \A t \in Threads : pc[t] = "put" => call[t] \in Calls /\ call[t].from = t
    /\ \A t \in Threads \ {System} : pc[t] = "put" => call[t].kind # "usb"
    /\ \A k \in 1 .. Len(queue[System]) : queue[System][k].kind # "usb"

\* Where the one request that is not answered can be: in the queue for
\* interrupts, with the system that is about to queue its call, in the queue
\* of the application at place k,
AtSystem == pc[System] = "put" /\ call[System].kind = "usb"
AtPlace(k) == k \in 1 .. Len(queue[App]) /\ queue[App][k].kind = "usb"

Pending ==
    \/ isr > 0 \/ AtSystem \/ handling # 0
    \/ \E k \in 1 .. Len(queue[App]) : AtPlace(k)

\* or with its handler.  It is in one of these places only, and usbReq_ is not
\* accepted again until it has left all of them.
PlaceInv ==
    /\ isr <= 1
    /\ isr > 0 => ~AtSystem /\ handling = 0 /\ \A k \in 1 .. Len(queue[App]) : ~AtPlace(k)
    /\ AtSystem => handling = 0 /\ \A k \in 1 .. Len(queue[App]) : ~AtPlace(k)
    /\ handling # 0 => handling = request /\ \A k \in 1 .. Len(queue[App]) : ~AtPlace(k)
    /\ \A j, k \in 1 .. Len(queue[App]) : AtPlace(j) /\ AtPlace(k) => j = k
    /\ Pending => active /\ ~ready

Inv == TypeOK /\ CountInv /\ CallInv /\ PlaceInv

-----------------------------------------------------------------------------
(* Threads and calls.                                                      *)

LEMMA ConstantFacts ==
    /\ App \in Objects /\ System \in Objects /\ App # System
    /\ App \in Threads /\ System \in Threads /\ Objects \subseteq Threads
    /\ MaxMade \in Nat /\ MaxCalls \in Nat /\ MaxEvents \in Nat /\ MaxRequests \in Nat
    /\ MaxMade = MaxCalls + MaxEvents + MaxRequests
    /\ \A o \in Objects : Size(o) \in Nat
    /\ \A t \in Threads : Target(t) \in Objects /\ (Target(t) = App <=> t = System)
    /\ ISRSize \in Nat
BY SizeAssumption, BoundAssumption
   DEF App, System, Objects, Threads, MaxMade, Size, Target

\* A call that a thread makes.
LEMMA BeginFacts ==
    ASSUME TypeOK, NEW t \in Threads, NEW kind \in Kinds, made[t] < MaxMade, Begin(t, kind)
    PROVE  /\ made' \in [Threads -> 0 .. MaxMade] /\ made'[t] = made[t] + 1
           /\ \A u \in Threads : u # t => made'[u] = made[u] /\ pc'[u] = pc[u] /\ call'[u] = call[u]
           /\ pc' \in [Threads -> {"run", "put", "wait"}] /\ pc[t] = "run" /\ pc'[t] = "put"
           /\ call' \in [Threads -> Calls \cup {NoCall}]
           /\ call'[t] \in Calls /\ call'[t].from = t /\ call'[t].kind = kind
           /\ UNCHANGED <<queue, stack, complete, last>>
<1>1. made[t] \in 0 .. MaxMade /\ made[t] + 1 \in 1 .. MaxMade /\ made[t] + 1 \in 0 .. MaxMade
  <2>1. made[t] \in 0 .. MaxMade /\ MaxMade \in Nat
    BY ConstantFacts DEF TypeOK
  <2> QED
    BY <2>1
<1>2. made' = [made EXCEPT ![t] = made[t] + 1] /\ made \in [Threads -> 0 .. MaxMade]
  BY DEF Begin, TypeOK
<1>3. [from |-> t, n |-> made[t] + 1, kind |-> kind] \in Calls
  BY <1>1 DEF Calls
<1>4. made'[t] = made[t] + 1
  BY <1>2
<1>5. call' = [call EXCEPT ![t] = [from |-> t, n |-> made[t] + 1, kind |-> kind]]
  BY <1>4 DEF Begin
<1> QED
  BY <1>1, <1>2, <1>3, <1>4, <1>5 DEF Begin, TypeOK

\* A thread may make another call.
LEMMA BeginBound ==
    ASSUME TypeOK, CountInv
    PROVE  /\ \A t \in Threads : Invoke(t) => made[t] < MaxMade
           /\ isr > 0 => made[System] < MaxMade
<1>1. /\ \A t \in Threads : made[t] \in 0 .. MaxMade
      /\ isr \in Int /\ request \in 0 .. MaxRequests /\ made[System] \in Int
  BY ConstantFacts DEF TypeOK
<1>2. isr > 0 => made[System] < MaxMade
  BY <1>1, ConstantFacts DEF CountInv
<1>3. ASSUME NEW t \in Threads, Invoke(t)
      PROVE  made[t] < MaxMade
  <2>1. CASE t = System
    <3>1. made[t] < MaxEvents \/ MaxRequests > 0
      BY <1>3, <2>1 DEF Invoke
    <3>2. made[t] < MaxEvents
      BY <1>3, <2>1 DEF Invoke
    <3> QED
      BY <1>1, <3>2, ConstantFacts
  <2>2. CASE t # System
    <3>1. made[t] < MaxCalls
      BY <1>3, <2>2 DEF Invoke
    <3> QED
      BY <1>1, <3>1, ConstantFacts
  <2> QED
    BY <2>1, <2>2
<1> QED
  BY <1>2, <1>3

LEMMA InitInv == Init => Inv
<1> SUFFICES ASSUME Init
             PROVE  Inv
  OBVIOUS
<1>1. queue[App] = <<>> /\ queue[System] = <<>> /\ \A o \in Objects : Len(queue[o]) = 0
  BY ConstantFacts DEF Init
<1>2. TypeOK
  <2>1. /\ pc \in [Threads -> {"run", "put", "wait"}] /\ call \in [Threads -> Calls \cup {NoCall}]
        /\ made \in [Threads -> 0 .. MaxMade] /\ last \in [Threads -> 0 .. MaxMade]
    BY ConstantFacts DEF Init
  <2>2. queue \in [Objects -> Seq(Calls)] /\ stack \in [Objects -> Seq(Calls)]
    BY DEF Init
  <2> QED
    <3>1. \A o \in Objects : Len(queue[o]) <= Size(o)
      BY <1>1, ConstantFacts
    <3>2. /\ buffer \in 0 .. MaxMade /\ request \in 0 .. MaxRequests
          /\ isr \in 0 .. ISRSize /\ handling \in 0 .. MaxRequests
      BY ConstantFacts DEF Init
    <3> QED
      BY <2>1, <2>2, <3>1, <3>2 DEF Init, TypeOK
<1>3. CountInv
  BY ConstantFacts DEF Init, CountInv
<1>4. CallInv /\ PlaceInv
  <2>1. pc[System] = "run" /\ \A t \in Threads : pc[t] = "run"
    BY ConstantFacts DEF Init
  <2> QED
    BY <1>1, <2>1 DEF Init, CallInv, PlaceInv, Pending, AtSystem, AtPlace
<1> QED
  BY <1>2, <1>3, <1>4 DEF Inv

-----------------------------------------------------------------------------
(* The steps.                                                              *)

\* A call is queued where there is room, and taken from where there is one.
LEMMA TypeStep == TypeOK /\ CountInv /\ CallInv /\ [Next]_vars => TypeOK'
<1> SUFFICES ASSUME TypeOK, CountInv, CallInv, [Next]_vars
             PROVE  TypeOK'
  OBVIOUS
<1> USE ConstantFacts
<1>1. ASSUME NEW t \in Threads, Invoke(t)
      PROVE  TypeOK'
  <2>1. PICK kind \in {"async", "sync"} : Begin(t, kind)
    BY <1>1 DEF Invoke
  <2>2. made[t] < MaxMade /\ kind \in Kinds
    BY <1>1, <2>1, BeginBound DEF Kinds
  <2>3. /\ made' \in [Threads -> 0 .. MaxMade] /\ call' \in [Threads -> Calls \cup {NoCall}]
        /\ pc' \in [Threads -> {"run", "put", "wait"}] /\ UNCHANGED <<queue, stack, complete, last>>
    BY <2>1, <2>2, BeginFacts
  <2>4. buffer' \in 0 .. MaxMade
    BY <1>1, <2>3 DEF Invoke, TypeOK
  <2> QED
    BY <1>1, <2>3, <2>4 DEF Invoke, TypeOK, usb
<1>2. ASSUME NEW t \in Threads, put(t)
      PROVE  TypeOK'
  <2>1. call[t] \in Calls /\ Target(t) \in Objects /\ queue[Target(t)] \in Seq(Calls)
    BY <1>2 DEF put, CallInv, TypeOK
  <2>2. /\ Append(queue[Target(t)], call[t]) \in Seq(Calls)
        /\ Len(Append(queue[Target(t)], call[t])) <= Size(Target(t))
    BY <1>2, <2>1 DEF put, HasRoom
  <2>3. queue' \in [Objects -> Seq(Calls)] /\ \A o \in Objects : Len(queue'[o]) <= Size(o)
    BY <1>2, <2>1, <2>2 DEF put, TypeOK
  <2>4. pc' \in [Threads -> {"run", "put", "wait"}]
    BY <1>2 DEF put, AfterPut, TypeOK
  <2> QED
    BY <1>2, <2>3, <2>4 DEF put, TypeOK, usb
<1>3. ASSUME NEW t \in Threads, PutFails(t)
      PROVE  TypeOK'
  BY <1>3 DEF PutFails, TypeOK, usb
<1>4. ASSUME NEW t \in Threads, get(t)
      PROVE  TypeOK'
  BY <1>4 DEF get, TypeOK, usb
<1>5. ASSUME NEW o \in Objects, process(o)
      PROVE  TypeOK'
  <2>1. queue[o] \in Seq(Calls) /\ queue[o] # <<>> /\ stack[o] \in Seq(Calls) /\ Len(queue[o]) <= Size(o)
    BY <1>5 DEF process, TypeOK
  <2>2. /\ Head(queue[o]) \in Calls /\ Tail(queue[o]) \in Seq(Calls)
        /\ Len(Tail(queue[o])) <= Size(o) /\ Append(stack[o], Head(queue[o])) \in Seq(Calls)
    BY <2>1
  <2>3. Head(queue[o]).n \in 0 .. MaxMade
    <3>1. Head(queue[o]).n \in 1 .. MaxMade
      BY <2>2 DEF Calls
    <3> QED
      BY <3>1
  <2>4. queue' \in [Objects -> Seq(Calls)] /\ \A p \in Objects : Len(queue'[p]) <= Size(p)
    BY <1>5, <2>2 DEF process, TypeOK
  <2>5. stack' \in [Objects -> Seq(Calls)] /\ last' \in [Threads -> 0 .. MaxMade]
    BY <1>5, <2>2, <2>3 DEF process, TypeOK
  <2>6. handling' \in 0 .. MaxRequests
    BY <1>5 DEF process, TypeOK
  <2> QED
    BY <1>5, <2>4, <2>5, <2>6 DEF process, TypeOK
<1>6. ASSUME NEW o \in Objects, task_complete(o)
      PROVE  TypeOK'
  <2>1. stack[o] \in Seq(Calls) /\ stack[o] # <<>>
    BY <1>6 DEF task_complete, TypeOK
  <2>2. /\ stack[o][Len(stack[o])] \in Calls
        /\ SubSeq(stack[o], 1, Len(stack[o]) - 1) \in Seq(Calls)
    BY <2>1
  <2>3. stack' \in [Objects -> Seq(Calls)] /\ complete' \subseteq Calls
    BY <1>6, <2>2 DEF task_complete, TypeOK
  <2> QED
    BY <1>6, <2>3 DEF task_complete, TypeOK, usb
<1>7. CASE enqueueRequest
  <2>1. request' \in 0 .. MaxRequests /\ isr' \in 0 .. ISRSize
    BY <1>7 DEF enqueueRequest, TypeOK
  <2> QED
    BY <1>7, <2>1 DEF enqueueRequest, TypeOK, calls
<1>8. CASE fetchRequestResult
  BY <1>8 DEF fetchRequestResult, TypeOK, calls
<1>9. CASE processSystemRequest
  <2>1. isr' \in 0 .. ISRSize
    BY <1>9 DEF processSystemRequest, TypeOK
  <2>2. CASE ready' = TRUE /\ UNCHANGED calls
    BY <1>9, <2>1, <2>2 DEF processSystemRequest, TypeOK, calls
  <2>3. CASE Begin(System, "usb") /\ UNCHANGED <<ready, buffer>>
    <3>1. made[System] < MaxMade
      BY <1>9, BeginBound DEF processSystemRequest
    <3>2. /\ made' \in [Threads -> 0 .. MaxMade] /\ call' \in [Threads -> Calls \cup {NoCall}]
          /\ pc' \in [Threads -> {"run", "put", "wait"}] /\ UNCHANGED <<queue, stack, complete, last>>
      BY <2>3, <3>1, BeginFacts DEF Kinds
    <3> QED
      BY <1>9, <2>1, <2>3, <3>2 DEF processSystemRequest, TypeOK
  <2> QED
    BY <1>9, <2>2, <2>3 DEF processSystemRequest
<1>10. CASE setRequestResult
  <2>1. handling' \in 0 .. MaxRequests
    BY <1>10 DEF setRequestResult
  <2> QED
    BY <1>10, <2>1 DEF setRequestResult, TypeOK, calls
<1>11. CASE UNCHANGED vars
  BY <1>11 DEF vars, calls, usb, TypeOK
<1> QED
  BY <1>1, <1>2, <1>3, <1>4, <1>5, <1>6, <1>7, <1>8, <1>9, <1>10, <1>11 DEF Next

\* The system makes one call for each request in the queue for interrupts.
LEMMA CountStep == TypeOK /\ CountInv /\ [Next]_vars => CountInv'
<1> SUFFICES ASSUME TypeOK, CountInv, [Next]_vars
             PROVE  CountInv'
  OBVIOUS
<1>a. /\ \A t \in Threads : made[t] \in Int
      /\ isr \in Nat /\ request \in Nat /\ System \in Threads /\ MaxEvents \in Nat /\ MaxCalls \in Nat
  BY ConstantFacts DEF TypeOK
<1>b. ASSUME UNCHANGED <<made, isr, request>>
      PROVE  CountInv'
  BY <1>b DEF CountInv
<1>1. ASSUME NEW t \in Threads, Invoke(t)
      PROVE  CountInv'
  <2>1. PICK kind \in {"async", "sync"} : Begin(t, kind)
    BY <1>1 DEF Invoke
  <2>2. made'[t] = made[t] + 1 /\ \A u \in Threads : u # t => made'[u] = made[u]
    BY <1>1, <2>1, BeginBound, BeginFacts DEF Kinds
  <2>3. made[t] < IF t = System THEN MaxEvents ELSE MaxCalls
    BY <1>1 DEF Invoke
  <2>4. UNCHANGED <<isr, request>>
    BY <1>1 DEF Invoke, usb
  <2> QED
    BY <1>a, <2>2, <2>3, <2>4 DEF CountInv
<1>2. ASSUME NEW t \in Threads, put(t) \/ PutFails(t) \/ get(t)
      PROVE  CountInv'
  BY <1>2, <1>b DEF put, PutFails, get, usb
<1>3. ASSUME NEW o \in Objects, process(o) \/ task_complete(o)
      PROVE  CountInv'
  BY <1>3, <1>b DEF process, task_complete, usb
<1>4. CASE enqueueRequest
  BY <1>4, <1>a DEF enqueueRequest, calls, CountInv
<1>5. CASE processSystemRequest
  <2>1. isr > 0 /\ isr' = isr - 1 /\ request' = request
    BY <1>5 DEF processSystemRequest
  <2>2. made[System] < MaxMade
    BY <2>1, BeginBound
  <2>3. CASE UNCHANGED calls
    BY <1>a, <2>1, <2>3 DEF calls, CountInv
  <2>4. CASE Begin(System, "usb")
    <3>1. made'[System] = made[System] + 1 /\ \A u \in Threads : u # System => made'[u] = made[u]
      BY <1>a, <2>2, <2>4, BeginFacts DEF Kinds
    <3> QED
      BY <1>a, <2>1, <3>1 DEF CountInv
  <2> QED
    BY <1>5, <2>3, <2>4 DEF processSystemRequest
<1>6. CASE fetchRequestResult \/ setRequestResult \/ UNCHANGED vars
  BY <1>6, <1>b DEF fetchRequestResult, setRequestResult, vars, calls, usb
<1> QED
  BY <1>1, <1>2, <1>3, <1>4, <1>5, <1>6 DEF Next

\* The calls that only the system makes are not in its own queue.
LEMMA CallStep == TypeOK /\ CountInv /\ CallInv /\ [Next]_vars => CallInv'
<1> SUFFICES ASSUME TypeOK, CountInv, CallInv, [Next]_vars
             PROVE  CallInv'
  OBVIOUS
<1>a. System \in Objects /\ System \in Threads /\ queue[System] \in Seq(Calls)
  BY ConstantFacts DEF TypeOK
<1>b. ASSUME UNCHANGED call, queue'[System] = queue[System],
             \A t \in Threads : pc'[t] = "put" => pc[t] = "put"
      PROVE  CallInv'
  BY <1>b DEF CallInv
<1>c. ASSUME NEW t \in Threads, NEW kind \in Kinds, Begin(t, kind), made[t] < MaxMade,
             t # System => kind # "usb"
      PROVE  CallInv'
  <2>1. /\ \A u \in Threads : u # t => pc'[u] = pc[u] /\ call'[u] = call[u]
        /\ call'[t] \in Calls /\ call'[t].from = t /\ call'[t].kind = kind /\ UNCHANGED queue
    BY <1>c, BeginFacts
  <2>2. \A k \in 1 .. Len(queue'[System]) : queue'[System][k].kind # "usb"
    BY <2>1 DEF CallInv
  <2>3. ASSUME NEW u \in Threads, pc'[u] = "put"
        PROVE  /\ call'[u] \in Calls /\ call'[u].from = u
               /\ u # System => call'[u].kind # "usb"
    BY <1>c, <2>1, <2>3 DEF CallInv
  <2> QED
    BY <2>2, <2>3 DEF CallInv
<1>1. ASSUME NEW t \in Threads, Invoke(t)
      PROVE  CallInv'
  <2>1. PICK kind \in {"async", "sync"} : Begin(t, kind)
    BY <1>1 DEF Invoke
  <2> QED
    BY <1>1, <1>c, <2>1, BeginBound DEF Kinds
<1>2. ASSUME NEW t \in Threads, put(t)
      PROVE  CallInv'
  <2>1. /\ UNCHANGED call /\ pc[t] = "put"
        /\ queue' = [queue EXCEPT ![Target(t)] = Append(queue[Target(t)], call[t])]
        /\ pc' = [pc EXCEPT ![t] = AfterPut(call[t].kind)] /\ AfterPut(call[t].kind) # "put"
    BY <1>2 DEF put, AfterPut
  <2>2. \A u \in Threads : pc'[u] = "put" => pc[u] = "put"
    BY <2>1 DEF TypeOK
  <2>3. CASE t = System
    <3>1. queue'[System] = queue[System]
      BY <1>a, <2>1, <2>3, ConstantFacts DEF TypeOK
    <3> QED
      BY <1>b, <2>1, <2>2, <3>1
  <2>4. CASE t # System
    <3>1. Target(t) = System /\ call[t] \in Calls /\ call[t].kind # "usb"
      BY <2>1, <2>4 DEF Target, CallInv
    <3>2. queue'[System] = Append(queue[System], call[t])
      BY <1>a, <2>1, <3>1 DEF TypeOK
    <3>3. \A k \in 1 .. Len(queue'[System]) : queue'[System][k].kind # "usb"
      BY <1>a, <3>1, <3>2 DEF CallInv
    <3> QED
      BY <2>1, <2>2, <3>3 DEF CallInv
  <2> QED
    BY <2>3, <2>4
<1>3. ASSUME NEW t \in Threads, PutFails(t) \/ get(t)
      PROVE  CallInv'
  <2>1. UNCHANGED <<call, queue>> /\ pc' = [pc EXCEPT ![t] = "run"]
    BY <1>3 DEF PutFails, get
  <2>2. \A u \in Threads : pc'[u] = "put" => pc[u] = "put"
    BY <2>1 DEF TypeOK
  <2> QED
    BY <1>b, <2>1, <2>2
<1>4. ASSUME NEW o \in Objects, process(o)
      PROVE  CallInv'
  <2>1. /\ UNCHANGED <<pc, call>> /\ queue[o] # <<>>
        /\ queue' = [queue EXCEPT ![o] = Tail(queue[o])]
    BY <1>4 DEF process
  <2>2. CASE o # System
    <3>1. queue'[System] = queue[System]
      BY <1>a, <2>1, <2>2 DEF TypeOK
    <3> QED
      BY <1>b, <2>1, <3>1
  <2>3. CASE o = System
    <3>1. queue'[System] = Tail(queue[System])
      BY <1>a, <2>1, <2>3 DEF TypeOK
    <3>2. \A k \in 1 .. Len(queue'[System]) : queue'[System][k].kind # "usb"
      BY <1>a, <2>1, <2>3, <3>1 DEF CallInv
    <3> QED
      BY <2>1, <3>2 DEF CallInv
  <2> QED
    BY <2>2, <2>3
<1>5. ASSUME NEW o \in Objects, task_complete(o)
      PROVE  CallInv'
  BY <1>5, <1>b DEF task_complete
<1>6. CASE processSystemRequest
  <2>1. CASE UNCHANGED calls
    BY <1>b, <2>1 DEF calls
  <2>2. CASE Begin(System, "usb")
    BY <1>6, <1>a, <1>c, <2>2, BeginBound DEF Kinds, processSystemRequest
  <2> QED
    BY <1>6, <2>1, <2>2 DEF processSystemRequest
<1>7. CASE enqueueRequest \/ fetchRequestResult \/ setRequestResult \/ UNCHANGED vars
  BY <1>7, <1>b DEF enqueueRequest, fetchRequestResult, setRequestResult, vars, calls
<1> QED
  BY <1>1, <1>2, <1>3, <1>4, <1>5, <1>6, <1>7 DEF Next

\* Nothing changes where a request can be.
LEMMA PlaceKept ==
    ASSUME PlaceInv, UNCHANGED usb, queue'[App] = queue[App], AtSystem' => AtSystem
    PROVE  PlaceInv'
<1>1. \A k : AtPlace(k)' <=> AtPlace(k)
  BY DEF AtPlace
<1>2. Pending' => Pending
  BY <1>1 DEF Pending, AtPlace, usb
<1> QED
  BY <1>1, <1>2 DEF PlaceInv, AtPlace, usb

\* A request is accepted when the one before has left all the places, and
\* goes from one place to the next.
LEMMA PlaceStep == TypeOK /\ CountInv /\ CallInv /\ PlaceInv /\ [Next]_vars => PlaceInv'
<1> SUFFICES ASSUME TypeOK, CountInv, CallInv, PlaceInv, [Next]_vars
             PROVE  PlaceInv'
  OBVIOUS
<1>a. /\ App \in Objects /\ System \in Objects /\ App # System /\ System \in Threads
      /\ queue[App] \in Seq(Calls) /\ queue \in [Objects -> Seq(Calls)]
      /\ isr \in Nat /\ handling \in Nat /\ request \in Nat
  BY ConstantFacts DEF TypeOK
<1>b. Pending => active /\ ~ready
  BY DEF PlaceInv
<1>1. ASSUME NEW t \in Threads, Invoke(t)
      PROVE  PlaceInv'
  <2>1. PICK kind \in {"async", "sync"} : Begin(t, kind)
    BY <1>1 DEF Invoke
  <2>2. /\ UNCHANGED queue /\ call'[t].kind = kind
        /\ \A u \in Threads : u # t => pc'[u] = pc[u] /\ call'[u] = call[u]
    BY <1>1, <2>1, BeginBound, BeginFacts DEF Kinds
  <2>3. AtSystem' => AtSystem
    BY <1>a, <2>2 DEF AtSystem
  <2> QED
    BY <1>1, <2>2, <2>3, PlaceKept DEF Invoke
<1>2. ASSUME NEW t \in Threads, put(t)
      PROVE  PlaceInv'
  <2>1. /\ pc[t] = "put" /\ UNCHANGED <<call, usb>>
        /\ queue' = [queue EXCEPT ![Target(t)] = Append(queue[Target(t)], call[t])]
        /\ pc' = [pc EXCEPT ![t] = AfterPut(call[t].kind)] /\ AfterPut(call[t].kind) # "put"
    BY <1>2 DEF put, AfterPut
  <2>2. AtSystem' => AtSystem
    BY <1>a, <2>1 DEF AtSystem, TypeOK
  <2>3. CASE t # System
    <3>1. queue'[App] = queue[App]
      BY <1>a, <2>1, <2>3 DEF Target
    <3> QED
      BY <2>1, <2>2, <3>1, PlaceKept
  <2>4. CASE t = System
    <3>1. call[t] \in Calls /\ Target(t) = App
      BY <2>1, <2>4 DEF CallInv, Target
    <3>2. queue'[App] = Append(queue[App], call[t])
      BY <1>a, <2>1, <3>1
    <3>3. /\ Len(queue'[App]) = Len(queue[App]) + 1 /\ Len(queue[App]) \in Nat
          /\ queue'[App][Len(queue[App]) + 1] = call[t]
          /\ \A k \in 1 .. Len(queue[App]) : queue'[App][k] = queue[App][k]
      BY <1>a, <3>1, <3>2
    <3>4. ~AtSystem'
      BY <1>a, <2>1, <2>4 DEF AtSystem, TypeOK
    <3>5. AtSystem <=> call[t].kind = "usb"
      BY <2>1, <2>4 DEF AtSystem
    <3>6. \A k : AtPlace(k)' <=> AtPlace(k) \/ (k = Len(queue[App]) + 1 /\ AtSystem)
      BY <3>3, <3>5 DEF AtPlace
    <3>7. Pending' => Pending
      BY <2>1, <3>4, <3>6 DEF Pending, AtPlace, usb
    <3>8. CASE AtSystem
      <4>1. isr = 0 /\ handling = 0 /\ \A k : ~AtPlace(k)
        BY <1>a, <3>8 DEF PlaceInv, AtPlace
      <4>2. \A k : AtPlace(k)' <=> k = Len(queue[App]) + 1
        BY <3>6, <3>8, <4>1
      <4> QED
        BY <2>1, <3>4, <3>7, <4>1, <4>2, <1>b DEF PlaceInv, usb
    <3>9. CASE ~AtSystem
      <4>1. \A k : AtPlace(k)' <=> AtPlace(k)
        BY <3>6, <3>9
      <4> QED
        BY <2>1, <3>4, <3>7, <4>1 DEF PlaceInv, usb, AtPlace
    <3> QED
      BY <3>8, <3>9
  <2> QED
    BY <2>3, <2>4
<1>3. ASSUME NEW t \in Threads, PutFails(t) \/ get(t)
      PROVE  PlaceInv'
  <2>1. UNCHANGED <<call, queue, usb>> /\ pc' = [pc EXCEPT ![t] = "run"]
    BY <1>3 DEF PutFails, get
  <2>2. AtSystem' => AtSystem
    BY <1>a, <2>1 DEF AtSystem, TypeOK
  <2> QED
    BY <2>1, <2>2, PlaceKept
<1>4. ASSUME NEW o \in Objects, process(o)
      PROVE  PlaceInv'
  <2>1. /\ queue[o] # <<>> /\ queue' = [queue EXCEPT ![o] = Tail(queue[o])]
        /\ handling' = (IF Head(queue[o]).kind = "usb" THEN request ELSE handling)
        /\ UNCHANGED <<pc, call, request, active, ready, isr>>
    BY <1>4 DEF process
  <2>2. AtSystem' <=> AtSystem
    BY <2>1 DEF AtSystem
  <2>3. CASE o # App
    <3>1. o = System /\ queue'[App] = queue[App]
      BY <1>a, <2>1, <2>3 DEF Objects
    <3>2. Head(queue[o]).kind # "usb"
      <4>1. queue[o] \in Seq(Calls) /\ queue[o] # <<>>
        BY <1>a, <2>1
      <4>2. 1 \in 1 .. Len(queue[o]) /\ Head(queue[o]) = queue[o][1]
        BY <4>1
      <4> QED
        BY <3>1, <4>2 DEF CallInv
    <3> QED
      BY <2>1, <2>2, <3>1, <3>2, PlaceKept DEF usb
  <2>4. CASE o = App
    <3>1. queue'[App] = Tail(queue[App]) /\ queue[App] # <<>>
      BY <1>a, <2>1, <2>4
    <3>2. /\ Len(queue'[App]) = Len(queue[App]) - 1 /\ Len(queue[App]) \in Nat /\ Len(queue[App]) > 0
          /\ Head(queue[App]) = queue[App][1]
          /\ \A k \in 1 .. Len(queue[App]) - 1 : queue'[App][k] = queue[App][k + 1]
      BY <1>a, <3>1
    <3>3. \A k \in 1 .. Len(queue'[App]) : k + 1 \in 1 .. Len(queue[App]) /\ (AtPlace(k)' <=> AtPlace(k + 1))
      BY <3>2 DEF AtPlace
    <3>4. \A k : AtPlace(k)' => k \in 1 .. Len(queue'[App]) /\ k \in Int
      BY DEF AtPlace
    <3>5. CASE Head(queue[App]).kind = "usb"
      <4>1. AtPlace(1) /\ 1 \in 1 .. Len(queue[App])
        BY <3>2, <3>5 DEF AtPlace
      <4>2. isr = 0 /\ ~AtSystem /\ Pending
        BY <1>a, <4>1 DEF PlaceInv, Pending
      <4>3. \A k : ~AtPlace(k)'
        BY <3>3, <3>4, <4>1 DEF PlaceInv
      <4>4. handling' = request
        BY <2>1, <2>4, <3>5
      <4> QED
        BY <1>b, <2>1, <2>2, <4>2, <4>3, <4>4 DEF PlaceInv, Pending
    <3>6. CASE Head(queue[App]).kind # "usb"
      <4>1. handling' = handling
        BY <2>1, <2>4, <3>6
      <4>2. Pending' => Pending
        BY <2>1, <2>2, <3>3, <4>1 DEF Pending
      <4>3. ASSUME NEW j \in 1 .. Len(queue'[App]), NEW k \in 1 .. Len(queue'[App]), AtPlace(j)', AtPlace(k)'
            PROVE  j = k
        <5>1. j + 1 = k + 1
          BY <3>3, <4>3 DEF PlaceInv
        <5> QED
          BY <5>1
      <4>4. (\A k \in 1 .. Len(queue[App]) : ~AtPlace(k)) => \A k \in 1 .. Len(queue'[App]) : ~AtPlace(k)'
        BY <3>3
      <4> QED
        BY <2>1, <2>2, <4>1, <4>2, <4>3, <4>4 DEF PlaceInv
    <3> QED
      BY <3>5, <3>6
  <2> QED
    BY <2>3, <2>4
<1>5. ASSUME NEW o \in Objects, task_complete(o)
      PROVE  PlaceInv'
  BY <1>5, PlaceKept DEF task_complete, AtSystem
<1>6. CASE enqueueRequest
  <2>1. ~Pending
    BY <1>6, <1>b DEF enqueueRequest, Accepted
  <2>2. isr = 0 /\ ~AtSystem /\ handling = 0 /\ \A k \in 1 .. Len(queue[App]) : ~AtPlace(k)
    BY <1>a, <2>1 DEF Pending
  <2>3. isr' = 1 /\ active' = TRUE /\ ready' = FALSE /\ UNCHANGED <<calls, handling>>
    BY <1>6, <2>2 DEF enqueueRequest
  <2>4. ~AtSystem' /\ \A k \in 1 .. Len(queue'[App]) : ~AtPlace(k)'
    BY <2>2, <2>3 DEF calls, AtSystem, AtPlace
  <2> QED
    BY <2>2, <2>3, <2>4 DEF PlaceInv, Pending
<1>7. CASE fetchRequestResult
  <2>1. ~Pending /\ UNCHANGED <<calls, request, isr, handling>>
    BY <1>7, <1>b DEF fetchRequestResult
  <2>2. ~Pending' /\ isr' <= 1
    BY <2>1 DEF Pending, calls, AtSystem, AtPlace, PlaceInv
  <2> QED
    BY <1>a, <2>1, <2>2 DEF PlaceInv, Pending
<1>8. CASE processSystemRequest
  <2>1. isr > 0 /\ isr' = isr - 1 /\ UNCHANGED <<request, active, handling>>
    BY <1>8 DEF processSystemRequest
  <2>2. isr' = 0 /\ ~AtSystem /\ handling = 0 /\ \A k \in 1 .. Len(queue[App]) : ~AtPlace(k)
    BY <1>a, <2>1 DEF PlaceInv
  <2>3. CASE ready' = TRUE /\ UNCHANGED calls
    <3>1. ~AtSystem' /\ \A k \in 1 .. Len(queue'[App]) : ~AtPlace(k)'
      BY <2>2, <2>3 DEF calls, AtSystem, AtPlace
    <3> QED
      BY <2>1, <2>2, <3>1 DEF PlaceInv, Pending
  <2>4. CASE Begin(System, "usb") /\ UNCHANGED <<ready, buffer>>
    <3>1. UNCHANGED queue
      BY <2>4 DEF Begin
    <3>2. \A k \in 1 .. Len(queue'[App]) : ~AtPlace(k)'
      BY <2>2, <3>1 DEF AtPlace
    <3>3. Pending
      BY <2>1 DEF Pending
    <3> QED
      BY <1>b, <2>1, <2>2, <2>4, <3>2, <3>3 DEF PlaceInv, Pending
  <2> QED
    BY <1>8, <2>3, <2>4 DEF processSystemRequest
<1>9. CASE setRequestResult
  <2>1. handling # 0 /\ handling' = 0 /\ UNCHANGED <<calls, isr, request>>
    BY <1>9 DEF setRequestResult
  <2>2. isr = 0 /\ ~AtSystem /\ \A k \in 1 .. Len(queue[App]) : ~AtPlace(k)
    BY <1>a, <2>1 DEF PlaceInv
  <2>3. ~AtSystem' /\ \A k \in 1 .. Len(queue'[App]) : ~AtPlace(k)'
    BY <2>1, <2>2 DEF calls, AtSystem, AtPlace
  <2> QED
    BY <2>1, <2>2, <2>3 DEF PlaceInv, Pending
<1>10. CASE UNCHANGED vars
  BY <1>10, PlaceKept DEF vars, calls, AtSystem
<1> QED
  BY <1>1, <1>2, <1>3, <1>4, <1>5, <1>6, <1>7, <1>8, <1>9, <1>10 DEF Next

-----------------------------------------------------------------------------
(* The calls that are waited for.                                          *)

\* A call of a thread that waits, and only such a thread's, is synchronous and
\* is in the queue of the system, or run by it, or complete.
Held(c) ==
    \/ c \in complete
    \/ \E k \in 1 .. Len(queue[System]) : queue[System][k] = c
    \/ \E k \in 1 .. Len(stack[System]) : stack[System][k] = c

Served(t) == pc[t] = "wait" => call[t].from = t /\ call[t].kind = "sync" /\ Held(call[t])

\* The system waits for nobody, and whoever waits for it will be answered by
\* what it has still to do.
WaitersAreServed == pc[System] # "wait" /\ \A t \in Threads \ {System} : Served(t)

WaitInv ==
    /\ pc[System] = "put" => call[System].kind # "sync"
    /\ WaitersAreServed

\* A call stays where it is, or moves on.
LEMMA StillServed ==
    ASSUME NEW t \in Threads \ {System}, Served(t), pc'[t] = "wait" => pc[t] = "wait",
           call'[t] = call[t],
           \A c : pc[t] = "wait" /\ c = call[t] /\ Held(c) => Held(c)'
    PROVE  Served(t)'
<1> SUFFICES ASSUME pc'[t] = "wait"
             PROVE  (call[t].from = t /\ call[t].kind = "sync" /\ Held(call[t]))'
  BY DEF Served
<1>1. call[t].from = t /\ call[t].kind = "sync" /\ Held(call[t])
  BY DEF Served
<1>2. PICK c : c = call[t]
  OBVIOUS
<1>3. Held(c)'
  BY <1>1, <1>2
<1>4. c = call'[t]
  BY <1>2
<1> QED
  BY <1>1, <1>3, <1>4 DEF Held

LEMMA WaitStep == TypeOK /\ CountInv /\ CallInv /\ WaitInv /\ [Next]_vars => WaitInv'
<1> SUFFICES ASSUME TypeOK, CountInv, CallInv, WaitInv, [Next]_vars
             PROVE  WaitInv'
  OBVIOUS
<1>a. /\ System \in Objects /\ System \in Threads /\ App \in Objects /\ App # System
      /\ queue[System] \in Seq(Calls) /\ stack[System] \in Seq(Calls)
  BY ConstantFacts DEF TypeOK
<1>b. \A t \in Threads \ {System} : Served(t)
  BY DEF WaitInv, WaitersAreServed
<1>c. ASSUME UNCHANGED <<pc, call>>,
             \A c : (c.kind = "sync" /\ Held(c)) => Held(c)'
      PROVE  WaitInv'
  <2>1. ASSUME NEW t \in Threads \ {System}
        PROVE  Served(t)'
    BY <1>b, <1>c DEF Served
  <2> QED
    BY <1>c, <2>1 DEF WaitInv, WaitersAreServed
<1>d. ASSUME NEW t \in Threads, NEW kind \in Kinds, Begin(t, kind), made[t] < MaxMade,
             t = System => kind # "sync"
      PROVE  WaitInv'
  <2>1. /\ \A u \in Threads : u # t => pc'[u] = pc[u] /\ call'[u] = call[u]
        /\ pc'[t] = "put" /\ call'[t].kind = kind /\ UNCHANGED <<queue, stack, complete>>
    BY <1>d, BeginFacts
  <2>2. ASSUME NEW u \in Threads \ {System}
        PROVE  Served(u)'
    <3>1. CASE u = t
      BY <2>1, <3>1 DEF Served
    <3>2. CASE u # t
      <4>1. \A c : Held(c) => Held(c)'
        BY <2>1 DEF Held
      <4> QED
        BY <1>b, <2>1, <3>2, <4>1, StillServed
    <3> QED
      BY <3>1, <3>2
  <2>3. pc'[System] # "wait" /\ (pc'[System] = "put" => call'[System].kind # "sync")
    BY <1>a, <1>d, <2>1 DEF WaitInv, WaitersAreServed
  <2> QED
    BY <2>2, <2>3 DEF WaitInv, WaitersAreServed
<1>1. ASSUME NEW t \in Threads, Invoke(t)
      PROVE  WaitInv'
  <2>1. PICK kind \in {"async", "sync"} : Begin(t, kind) /\ (kind = "sync" => Target(t) = System)
    BY <1>1 DEF Invoke
  <2>2. t = System => kind # "sync"
    BY <1>a, <2>1 DEF Target
  <2> QED
    BY <1>1, <1>d, <2>1, <2>2, BeginBound DEF Kinds
<1>2. ASSUME NEW t \in Threads, put(t)
      PROVE  WaitInv'
  <2>1. /\ pc[t] = "put" /\ UNCHANGED <<call, stack, complete>>
        /\ queue' = [queue EXCEPT ![Target(t)] = Append(queue[Target(t)], call[t])]
        /\ pc' = [pc EXCEPT ![t] = AfterPut(call[t].kind)]
        /\ call[t] \in Calls /\ call[t].from = t
    BY <1>2 DEF put, CallInv
  <2>2. \A u \in Threads : u # t => pc'[u] = pc[u]
    BY <2>1 DEF TypeOK
  <2>3. pc'[t] = AfterPut(call[t].kind)
    BY <2>1 DEF TypeOK
  <2>4. ASSUME NEW c, Held(c)
        PROVE  Held(c)'
    <3>1. CASE t = System
      <4>1. queue'[System] = queue[System]
        BY <1>a, <2>1, <3>1 DEF Target, TypeOK
      <4> QED
        BY <2>1, <2>4, <4>1 DEF Held
    <3>2. CASE t # System
      <4>1. queue'[System] = Append(queue[System], call[t])
        BY <1>a, <2>1, <3>2 DEF Target, TypeOK
      <4>2. \A k \in 1 .. Len(queue[System]) :
                k \in 1 .. Len(queue'[System]) /\ queue'[System][k] = queue[System][k]
        BY <1>a, <2>1, <4>1
      <4> QED
        BY <2>1, <2>4, <4>2 DEF Held
    <3> QED
      BY <3>1, <3>2
  <2>5. ASSUME NEW u \in Threads \ {System}
        PROVE  Served(u)'
    <3>1. CASE u # t
      BY <1>b, <2>1, <2>2, <2>4, <3>1, StillServed
    <3>2. CASE u = t
      <4>1. queue'[System] = Append(queue[System], call[t])
        BY <1>a, <2>1, <3>2 DEF Target, TypeOK
      <4>2. Len(queue[System]) + 1 \in 1 .. Len(queue'[System]) /\ queue'[System][Len(queue[System]) + 1] = call[t]
        BY <1>a, <2>1, <4>1
      <4>3. (\E k \in 1 .. Len(queue[System]) : queue[System][k] = call[u])'
        BY <2>1, <3>2, <4>2
      <4>4. Held(call[u])'
        BY <4>3 DEF Held
      <4>5. pc'[u] = "wait" => call'[u].from = u /\ call'[u].kind = "sync"
        BY <2>1, <2>3, <3>2 DEF AfterPut
      <4> QED
        BY <4>4, <4>5 DEF Served
    <3> QED
      BY <3>1, <3>2
  <2>6. pc'[System] # "wait" /\ (pc'[System] = "put" => call'[System].kind # "sync")
    BY <1>a, <2>1, <2>2, <2>3 DEF WaitInv, WaitersAreServed, AfterPut
  <2> QED
    BY <2>5, <2>6 DEF WaitInv, WaitersAreServed
<1>3. ASSUME NEW t \in Threads, PutFails(t) \/ get(t)
      PROVE  WaitInv'
  <2>1. UNCHANGED <<call, queue, stack>> /\ pc' = [pc EXCEPT ![t] = "run"]
    BY <1>3 DEF PutFails, get
  <2>2. pc'[t] = "run" /\ \A u \in Threads : u # t => pc'[u] = pc[u]
    BY <2>1 DEF TypeOK
  <2>3. UNCHANGED complete \/ (pc[t] = "wait" /\ complete' = complete \ {call[t]})
    BY <1>3 DEF PutFails, get
  <2>4. ASSUME NEW u \in Threads \ {System}
        PROVE  Served(u)'
    <3>1. CASE u = t
      BY <2>2, <3>1 DEF Served
    <3>2. CASE u # t
      <4>1. ASSUME NEW c, pc[u] = "wait", c = call[u], Held(c)
            PROVE  Held(c)'
        <5>1. call[u].from = u
          BY <1>b, <4>1 DEF Served
        <5>2. pc[t] = "wait" => call[t].from = t
          BY <1>b DEF Served, WaitInv, WaitersAreServed
        <5>3. c \in complete => c \in complete'
          BY <2>3, <3>2, <4>1, <5>1, <5>2
        <5> QED
          BY <2>1, <4>1, <5>3 DEF Held
      <4> QED
        BY <1>b, <2>1, <2>2, <3>2, <4>1, StillServed
    <3> QED
      BY <3>1, <3>2
  <2>5. pc'[System] # "wait" /\ (pc'[System] = "put" => call'[System].kind # "sync")
    BY <1>a, <2>1, <2>2 DEF WaitInv, WaitersAreServed
  <2> QED
    BY <2>4, <2>5 DEF WaitInv, WaitersAreServed
<1>4. ASSUME NEW o \in Objects, process(o)
      PROVE  WaitInv'
  <2>1. /\ UNCHANGED <<pc, call, complete>> /\ queue[o] # <<>>
        /\ queue' = [queue EXCEPT ![o] = Tail(queue[o])]
        /\ stack' = [stack EXCEPT ![o] = Append(stack[o], Head(queue[o]))]
    BY <1>4 DEF process
  <2>2. ASSUME NEW c, Held(c)
        PROVE  Held(c)'
    <3>1. CASE o # System
      BY <1>a, <2>1, <2>2, <3>1 DEF Held, TypeOK
    <3>2. CASE o = System
      <4>1. queue'[System] = Tail(queue[System]) /\ stack'[System] = Append(stack[System], Head(queue[System]))
        BY <1>a, <2>1, <3>2 DEF TypeOK
      <4>2. /\ queue[System] # <<>> /\ Head(queue[System]) \in Calls
            /\ Head(queue[System]) = queue[System][1]
        BY <1>a, <2>1, <3>2
      <4>3. \A k \in 1 .. Len(stack[System]) :
                k \in 1 .. Len(stack'[System]) /\ stack'[System][k] = stack[System][k]
        BY <1>a, <4>1, <4>2
      <4>4. /\ Len(stack[System]) + 1 \in 1 .. Len(stack'[System])
            /\ stack'[System][Len(stack[System]) + 1] = queue[System][1]
        BY <1>a, <4>1, <4>2
      <4>5. ASSUME NEW k \in 1 .. Len(queue[System]), k # 1
            PROVE  k - 1 \in 1 .. Len(queue'[System]) /\ queue'[System][k - 1] = queue[System][k]
        BY <1>a, <4>1, <4>2, <4>5
      <4> QED
        BY <2>1, <2>2, <4>3, <4>4, <4>5 DEF Held
    <3> QED
      BY <3>1, <3>2
  <2> QED
    BY <1>c, <2>1, <2>2
<1>5. ASSUME NEW o \in Objects, task_complete(o)
      PROVE  WaitInv'
  <2> DEFINE top == stack[o][Len(stack[o])]
  <2>1. /\ UNCHANGED <<pc, call, queue>> /\ stack[o] # <<>>
        /\ complete' = (IF top.kind = "sync" THEN complete \cup {top} ELSE complete)
        /\ stack' = [stack EXCEPT ![o] = SubSeq(stack[o], 1, Len(stack[o]) - 1)]
    BY <1>5 DEF task_complete
  <2>2. ASSUME NEW c, c.kind = "sync", Held(c)
        PROVE  Held(c)'
    <3>1. complete \subseteq complete'
      BY <2>1
    <3>2. CASE o # System
      BY <1>a, <2>1, <2>2, <3>1, <3>2 DEF Held, TypeOK
    <3>3. CASE o = System
      <4>1. stack'[System] = SubSeq(stack[System], 1, Len(stack[System]) - 1)
        BY <1>a, <2>1, <3>3 DEF TypeOK
      <4>2. ASSUME NEW k \in 1 .. Len(stack[System]), k # Len(stack[System])
            PROVE  k \in 1 .. Len(stack'[System]) /\ stack'[System][k] = stack[System][k]
        BY <1>a, <4>1, <4>2
      <4>3. c = top => c \in complete'
        BY <2>1, <2>2
      <4> QED
        BY <2>1, <2>2, <3>1, <3>3, <4>2, <4>3 DEF Held
    <3> QED
      BY <3>2, <3>3
  <2> QED
    BY <1>c, <2>1, <2>2
<1>6. CASE processSystemRequest
  <2>1. CASE UNCHANGED calls
    BY <1>c, <2>1 DEF calls, Held
  <2>2. CASE Begin(System, "usb")
    BY <1>6, <1>a, <1>d, <2>2, BeginBound DEF Kinds, processSystemRequest
  <2> QED
    BY <1>6, <2>1, <2>2 DEF processSystemRequest
<1>7. CASE enqueueRequest \/ fetchRequestResult \/ setRequestResult \/ UNCHANGED vars
  BY <1>7, <1>c DEF enqueueRequest, fetchRequestResult, setRequestResult, vars, calls, Held
<1> QED
  BY <1>1, <1>2, <1>3, <1>4, <1>5, <1>6, <1>7 DEF Next

-----------------------------------------------------------------------------
(* The order of the calls.                                                 *)

\* Place k of the queue of the system holds a call of t.
Of(t, k) == k \in 1 .. Len(queue[System]) /\ queue[System][k].from = t
Putting(t) == pc[t] = "put"

\* The calls of t that the system has not begun are those in its queue, in the
\* order they were made, and the one that is being put there.
InLine(t) ==
    /\ last[t] <= made[t]
    /\ Putting(t) => call[t].n = made[t] /\ last[t] < made[t]
    /\ \A k \in 1 .. Len(queue[System]) : Of(t, k) =>
           /\ last[t] < queue[System][k].n /\ queue[System][k].n <= made[t]
           /\ Putting(t) => queue[System][k].n < made[t]
    /\ \A j, k \in 1 .. Len(queue[System]) :
           j < k /\ Of(t, j) /\ Of(t, k) => queue[System][j].n < queue[System][k].n
    /\ \A n \in last[t] + 1 .. made[t] :
           \/ Putting(t) /\ n = made[t]
           \/ \E k \in 1 .. Len(queue[System]) : Of(t, k) /\ queue[System][k].n = n

OrderInv ==
    /\ \A k \in 1 .. Len(queue[App]) : queue[App][k].from = System
    /\ \A k \in 1 .. Len(queue[System]) : queue[System][k].from # System
    /\ \A t \in Threads \ {System} : InLine(t)

\* The system begins the calls of every thread in the order they were made,
\* none twice and none left out.
OneByOne == \A t \in Threads \ {System} : last'[t] = last[t] \/ last'[t] = last[t] + 1

\* The types of what is compared.
LEMMA OrderTypes ==
    ASSUME TypeOK
    PROVE  /\ \A t \in Threads : made[t] \in Nat /\ last[t] \in Nat
           /\ queue[System] \in Seq(Calls) /\ queue[App] \in Seq(Calls) /\ Len(queue[System]) \in Nat
           /\ \A k \in 1 .. Len(queue[System]) : queue[System][k] \in Calls /\ queue[System][k].n \in Nat
<1>1. /\ \A t \in Threads : made[t] \in 0 .. MaxMade /\ last[t] \in 0 .. MaxMade
      /\ queue[System] \in Seq(Calls) /\ queue[App] \in Seq(Calls) /\ MaxMade \in Nat
  BY ConstantFacts DEF TypeOK
<1>2. \A c \in Calls : c.n \in Nat
  BY <1>1 DEF Calls
<1> QED
  BY <1>1, <1>2

\* A thread's calls stay in line when nothing that is about them changes.
LEMMA LineKept ==
    ASSUME NEW t \in Threads \ {System}, InLine(t),
           made'[t] = made[t], last'[t] = last[t], queue'[System] = queue[System],
           call'[t] = call[t], pc'[t] = "put" <=> pc[t] = "put"
    PROVE  InLine(t)'
BY DEF InLine, Of, Putting

LEMMA OrderStep ==
    TypeOK /\ CountInv /\ CallInv /\ WaitInv /\ OrderInv /\ [Next]_vars => OrderInv' /\ [OneByOne]_vars
<1> SUFFICES ASSUME TypeOK, CountInv, CallInv, WaitInv, OrderInv, [Next]_vars
             PROVE  OrderInv' /\ OneByOne
  OBVIOUS
<1>a. /\ System \in Objects /\ System \in Threads /\ App \in Objects /\ App # System
  BY ConstantFacts
<1>b. \A t \in Threads \ {System} : InLine(t)
  BY DEF OrderInv
<1>c. ASSUME NEW t \in Threads, NEW kind \in Kinds, Begin(t, kind), made[t] < MaxMade
      PROVE  OrderInv' /\ OneByOne
  <2>1. /\ \A u \in Threads : u # t => made'[u] = made[u] /\ pc'[u] = pc[u] /\ call'[u] = call[u]
        /\ pc[t] = "run" /\ pc'[t] = "put" /\ made'[t] = made[t] + 1
        /\ UNCHANGED <<queue, stack, complete, last>>
    BY <1>c, BeginFacts
  <2>2. call'[t].n = made'[t]
    BY <1>c DEF Begin, TypeOK
  <2>3. ASSUME NEW u \in Threads \ {System}
        PROVE  InLine(u)'
    <3>1. CASE u # t
      BY <1>b, <2>1, <3>1, LineKept
    <3>2. CASE u = t
      <4>1. InLine(t) /\ ~Putting(t) /\ Putting(t)'
        BY <1>b, <2>1, <3>2 DEF Putting
      <4>2. \A k : Of(t, k)' <=> Of(t, k)
        BY <2>1 DEF Of
      <4>3. ASSUME NEW n \in last[t] + 1 .. made[t] + 1, n # made[t] + 1
            PROVE  \E k \in 1 .. Len(queue[System]) : Of(t, k) /\ queue[System][k].n = n
        <5>1. n \in last[t] + 1 .. made[t]
          BY <4>3, OrderTypes
        <5> QED
          BY <4>1, <5>1 DEF InLine
      <4>4. /\ call'[t].n = made'[t] /\ last'[t] < made'[t] /\ last'[t] <= made'[t]
        BY <2>1, <2>2, <4>1, OrderTypes DEF InLine
      <4>5. \A k \in 1 .. Len(queue[System]) : Of(t, k) =>
                /\ last[t] < queue[System][k].n /\ queue[System][k].n <= made[t] + 1
                /\ queue[System][k].n < made[t] + 1
        BY <4>1, OrderTypes DEF InLine
      <4>6. \A n \in last[t] + 1 .. made[t] + 1 :
               \/ n = made[t] + 1
               \/ \E k \in 1 .. Len(queue[System]) : Of(t, k) /\ queue[System][k].n = n
        BY <4>3
      <4>7. InLine(t)'
        BY <2>1, <4>1, <4>2, <4>4, <4>5, <4>6 DEF InLine
      <4> QED
        BY <3>2, <4>7
    <3> QED
      BY <3>1, <3>2
  <2> QED
    BY <2>1, <2>3 DEF OrderInv, OneByOne
<1>1. ASSUME NEW t \in Threads, Invoke(t)
      PROVE  OrderInv' /\ OneByOne
  <2>1. PICK kind \in {"async", "sync"} : Begin(t, kind)
    BY <1>1 DEF Invoke
  <2> QED
    BY <1>1, <1>c, <2>1, BeginBound DEF Kinds
<1>2. ASSUME NEW t \in Threads, put(t)
      PROVE  OrderInv' /\ OneByOne
  <2>1. /\ pc[t] = "put" /\ UNCHANGED <<call, made, last>>
        /\ queue' = [queue EXCEPT ![Target(t)] = Append(queue[Target(t)], call[t])]
        /\ pc' = [pc EXCEPT ![t] = AfterPut(call[t].kind)] /\ AfterPut(call[t].kind) # "put"
        /\ call[t] \in Calls /\ call[t].from = t
    BY <1>2 DEF put, CallInv, AfterPut
  <2>2. pc'[t] # "put" /\ \A u \in Threads : u # t => pc'[u] = pc[u]
    BY <2>1 DEF TypeOK
  <2>3. CASE t = System
    <3>1. queue'[System] = queue[System] /\ queue'[App] = Append(queue[App], call[t])
      BY <1>a, <2>1, <2>3 DEF Target, TypeOK
    <3>2. \A k \in 1 .. Len(queue'[App]) : queue'[App][k].from = System
      <4>1. queue[App] \in Seq(Calls)
        BY OrderTypes
      <4> QED
        BY <2>1, <2>3, <3>1, <4>1 DEF OrderInv
    <3>3. \A u \in Threads \ {System} : InLine(u)'
      BY <1>b, <2>1, <2>2, <2>3, <3>1, LineKept
    <3> QED
      BY <2>1, <3>1, <3>2, <3>3 DEF OrderInv, OneByOne
  <2>4. CASE t # System
    <3> DEFINE q == queue[System]
    <3>1. queue'[App] = queue[App] /\ queue'[System] = Append(q, call[t])
      BY <1>a, <2>1, <2>4 DEF Target, TypeOK
    <3>2. /\ Len(queue'[System]) = Len(q) + 1 /\ Len(q) \in Nat
          /\ queue'[System][Len(q) + 1] = call[t]
          /\ \A k \in 1 .. Len(q) : queue'[System][k] = q[k]
      BY <2>1, <3>1, OrderTypes
    <3>0. PICK end : end = Len(q) + 1
      OBVIOUS
    <3>3. /\ \A k \in 1 .. Len(queue'[System]) : k = end \/ k \in 1 .. Len(q)
          /\ end \in 1 .. Len(queue'[System]) /\ queue'[System][end] = call[t]
      BY <3>0, <3>2
    <3>4. \A k \in 1 .. Len(queue'[System]) : queue'[System][k].from # System
      BY <2>1, <2>4, <3>2, <3>3 DEF OrderInv
    <3>5. ASSUME NEW u \in Threads \ {System}
          PROVE  InLine(u)'
      <4>1. \A k \in 1 .. Len(q) : (Of(u, k)' <=> Of(u, k)) /\ k \in 1 .. Len(queue'[System])
        BY <3>2 DEF Of
      <4>2. Of(u, end)' <=> u = t
        BY <2>1, <3>3 DEF Of
      <4>3. InLine(u)
        BY <1>b
      <4>4. CASE u # t
        <5>1. pc'[u] = pc[u] /\ call'[u] = call[u] /\ made'[u] = made[u] /\ last'[u] = last[u]
          BY <2>1, <2>2, <4>4
        <5>2. \A k \in 1 .. Len(queue'[System]) : Of(u, k)' => k \in 1 .. Len(q) /\ Of(u, k)
          <6> SUFFICES ASSUME NEW k \in 1 .. Len(queue'[System]), Of(u, k)'
                       PROVE  k \in 1 .. Len(q) /\ Of(u, k)
            OBVIOUS
          <6>1. k # end
            BY <4>2, <4>4
          <6> QED
            BY <3>3, <4>1, <6>1
        <5>3. Putting(u)' <=> Putting(u)
          BY <5>1 DEF Putting
        <5>4. \A k \in 1 .. Len(queue'[System]) : Of(u, k)' =>
                  /\ last[u] < queue'[System][k].n /\ queue'[System][k].n <= made[u]
                  /\ Putting(u) => queue'[System][k].n < made[u]
          BY <3>2, <4>3, <5>2 DEF InLine
        <5>5. \A j, k \in 1 .. Len(queue'[System]) :
                  j < k /\ Of(u, j)' /\ Of(u, k)' => queue'[System][j].n < queue'[System][k].n
          BY <3>2, <4>3, <5>2 DEF InLine
        <5>6. \A n \in last[u] + 1 .. made[u] :
                  \/ Putting(u) /\ n = made[u]
                  \/ \E k \in 1 .. Len(queue'[System]) : Of(u, k)' /\ queue'[System][k].n = n
          BY <3>2, <4>1, <4>3 DEF InLine
        <5> QED
          BY <4>3, <5>1, <5>3, <5>4, <5>5, <5>6 DEF InLine
      <4>5. CASE u = t
        <5>1. ~Putting(u)' /\ Putting(u) /\ call[u].n = made[u] /\ last[u] < made[u]
          BY <2>1, <2>2, <4>3, <4>5 DEF Putting, InLine
        <5>2. \A k \in 1 .. Len(q) : Of(u, k) => last[u] < q[k].n /\ q[k].n < made[u]
          BY <4>3, <5>1 DEF InLine
        <5>3. \A k \in 1 .. Len(queue'[System]) : Of(u, k)' =>
                  last[u] < queue'[System][k].n /\ queue'[System][k].n <= made[u]
          <6>1. ASSUME NEW k \in 1 .. Len(q), Of(u, k)'
                PROVE  last[u] < queue'[System][k].n /\ queue'[System][k].n <= made[u]
            <7>1. last[u] < q[k].n /\ q[k].n < made[u] /\ queue'[System][k].n = q[k].n
              BY <3>2, <4>1, <5>2, <6>1
            <7> QED
              BY <7>1, OrderTypes
          <6>2. last[u] < queue'[System][end].n /\ queue'[System][end].n <= made[u]
            BY <3>3, <4>5, <5>1, OrderTypes
          <6> QED
            BY <3>3, <6>1, <6>2
        <5>4. ASSUME NEW j \in 1 .. Len(queue'[System]), NEW k \in 1 .. Len(queue'[System]),
                     j < k, Of(u, j)', Of(u, k)'
              PROVE  queue'[System][j].n < queue'[System][k].n
          <6>1. j \in 1 .. Len(q) /\ Of(u, j)
            BY <3>0, <3>2, <3>3, <4>1, <5>4
          <6>2. CASE k = end
            BY <3>2, <3>3, <4>5, <5>1, <5>2, <6>1, <6>2
          <6>3. CASE k \in 1 .. Len(q)
            <7>1. Of(u, k)
              BY <4>1, <5>4, <6>3
            <7> QED
              BY <3>2, <4>3, <5>4, <6>1, <6>3, <7>1 DEF InLine
          <6> QED
            BY <3>3, <6>2, <6>3
        <5>5. ASSUME NEW n \in last[u] + 1 .. made[u]
              PROVE  \E k \in 1 .. Len(queue'[System]) : Of(u, k)' /\ queue'[System][k].n = n
          <6>1. CASE n = made[u]
            BY <3>3, <4>2, <4>5, <5>1, <6>1
          <6>2. CASE n # made[u]
            <7>1. PICK k \in 1 .. Len(q) : Of(u, k) /\ q[k].n = n
              BY <4>3, <6>2 DEF InLine
            <7> QED
              BY <3>2, <4>1, <7>1
          <6> QED
            BY <6>1, <6>2
        <5>6. made'[u] = made[u] /\ last'[u] = last[u]
          BY <2>1
        <5> QED
          BY <4>3, <5>1, <5>3, <5>4, <5>5, <5>6 DEF InLine
      <4> QED
        BY <4>4, <4>5
    <3> QED
      BY <2>1, <3>1, <3>4, <3>5 DEF OrderInv, OneByOne
  <2> QED
    BY <2>3, <2>4
<1>3. ASSUME NEW t \in Threads, PutFails(t)
      PROVE  OrderInv' /\ OneByOne
  <2>1. /\ t = System /\ UNCHANGED <<queue, call, made, last>> /\ pc' = [pc EXCEPT ![t] = "run"]
    BY <1>3, ConstantFacts DEF PutFails, put_wait
  <2>2. \A u \in Threads \ {System} : pc'[u] = pc[u]
    BY <2>1 DEF TypeOK
  <2>3. \A u \in Threads \ {System} : InLine(u)'
    BY <1>b, <2>1, <2>2, LineKept
  <2> QED
    BY <2>1, <2>3 DEF OrderInv, OneByOne
<1>4. ASSUME NEW t \in Threads, get(t)
      PROVE  OrderInv' /\ OneByOne
  <2>1. /\ pc[t] = "wait" /\ UNCHANGED <<queue, call, made, last>> /\ pc' = [pc EXCEPT ![t] = "run"]
    BY <1>4 DEF get
  <2>2. \A u \in Threads \ {System} : pc'[u] = "put" <=> pc[u] = "put"
    BY <2>1 DEF TypeOK
  <2>3. \A u \in Threads \ {System} : InLine(u)'
    BY <1>b, <2>1, <2>2, LineKept
  <2> QED
    BY <2>1, <2>3 DEF OrderInv, OneByOne
<1>5. ASSUME NEW o \in Objects, process(o)
      PROVE  OrderInv' /\ OneByOne
  <2>1. /\ UNCHANGED <<pc, call, made>> /\ queue[o] # <<>>
        /\ queue' = [queue EXCEPT ![o] = Tail(queue[o])]
        /\ last' = [last EXCEPT ![Head(queue[o]).from] = Head(queue[o]).n]
    BY <1>5 DEF process
  <2>2. CASE o # System
    <3>1. o = App /\ queue'[System] = queue[System] /\ queue'[App] = Tail(queue[App])
      BY <1>a, <2>1, <2>2 DEF Objects, TypeOK
    <3>2. queue[App] \in Seq(Calls) /\ queue[App] # <<>>
      BY <2>1, <3>1, OrderTypes
    <3>3. Head(queue[App]).from = System
      <4>1. 1 \in 1 .. Len(queue[App]) /\ Head(queue[App]) = queue[App][1]
        BY <3>2
      <4> QED
        BY <4>1 DEF OrderInv
    <3>4. \A k \in 1 .. Len(queue'[App]) : queue'[App][k].from = System
      BY <3>1, <3>2 DEF OrderInv
    <3>5. \A u \in Threads \ {System} : last'[u] = last[u]
      BY <2>1, <3>1, <3>3 DEF TypeOK
    <3>6. \A u \in Threads \ {System} : InLine(u)'
      BY <1>b, <2>1, <3>1, <3>5, LineKept
    <3> QED
      BY <3>1, <3>4, <3>5, <3>6 DEF OrderInv, OneByOne
  <2>3. CASE o = System
    <3> DEFINE q == queue[System]  t == Head(q).from
    <3>1. queue'[System] = Tail(q) /\ queue'[App] = queue[App] /\ q # <<>> /\ q \in Seq(Calls)
      BY <1>a, <2>1, <2>3, OrderTypes DEF TypeOK
    <3>2. /\ Len(queue'[System]) = Len(q) - 1 /\ Len(q) \in Nat /\ Len(q) > 0
          /\ Head(q) = q[1] /\ q[1] \in Calls
          /\ \A k \in 1 .. Len(q) - 1 : queue'[System][k] = q[k + 1]
      BY <3>1
    <3>3. \A k \in 1 .. Len(queue'[System]) : k + 1 \in 1 .. Len(q) /\ k + 1 > 1 /\ queue'[System][k] = q[k + 1]
      BY <3>2
    <3>4. \A k \in 1 .. Len(q) : k = 1 \/ (k - 1 \in 1 .. Len(queue'[System]) /\ queue'[System][k - 1] = q[k])
      BY <3>2, <3>3
    <3>5. t \in Threads \ {System} /\ Of(t, 1) /\ 1 \in 1 .. Len(q)
      <4>1. 1 \in 1 .. Len(q)
        BY <3>2
      <4>2. q[1].from # System
        BY <4>1 DEF OrderInv
      <4> QED
        BY <3>2, <4>1, <4>2 DEF Of, Calls
    <3>6. last'[t] = q[1].n /\ \A u \in Threads \ {System} : u # t => last'[u] = last[u]
      BY <2>1, <2>3, <3>2, <3>5 DEF TypeOK
    <3> HIDE DEF t, q
    <3>7. InLine(t) /\ q = queue[System]
      BY <1>b, <3>5 DEF q
    <3>8. q[1].n \in Nat /\ last[t] < q[1].n /\ q[1].n <= made[t] /\ last[t] \in Nat /\ made[t] \in Nat
      BY <3>5, <3>7, OrderTypes DEF InLine
    <3>9. q[1].n = last[t] + 1
      <4>1. SUFFICES ASSUME q[1].n # last[t] + 1
                     PROVE  FALSE
        OBVIOUS
      <4>2. last[t] + 1 \in last[t] + 1 .. made[t] /\ last[t] + 1 < q[1].n /\ last[t] + 1 # made[t]
        BY <3>8, <4>1
      <4>3. PICK k \in 1 .. Len(q) : Of(t, k) /\ q[k].n = last[t] + 1
        BY <3>7, <4>2 DEF InLine
      <4>4. k # 1 /\ k > 1
        BY <4>1, <4>3
      <4>5. q[1].n < q[k].n
        BY <3>5, <3>7, <4>3, <4>4 DEF InLine
      <4> QED
        BY <3>8, <4>2, <4>3, <4>5
    <3>10. OneByOne
      BY <3>6, <3>9 DEF OneByOne
    <3>11. \A k \in 1 .. Len(queue'[System]) : queue'[System][k].from # System
      BY <3>3, <3>7 DEF OrderInv
    <3>12. ASSUME NEW u \in Threads \ {System}
           PROVE  InLine(u)'
      <4>1. InLine(u) /\ made'[u] = made[u] /\ call'[u] = call[u] /\ (Putting(u)' <=> Putting(u))
        BY <1>b, <2>1 DEF Putting
      <4>2. \A k \in 1 .. Len(queue'[System]) : Of(u, k)' <=> Of(u, k + 1)
        BY <3>3, <3>7 DEF Of
      <4>3. last'[u] \in Nat /\ last[u] \in Nat /\ last[u] <= last'[u] /\ made[u] \in Nat /\ last'[u] <= made[u]
        <5>1. CASE u = t
          BY <3>6, <3>8, <5>1
        <5>2. CASE u # t
          BY <3>6, <4>1, <5>2, OrderTypes DEF InLine
        <5> QED
          BY <5>1, <5>2
      <4>4. ASSUME NEW k \in 1 .. Len(queue'[System]), Of(u, k)'
            PROVE  /\ last'[u] < queue'[System][k].n /\ queue'[System][k].n <= made[u]
                   /\ Putting(u) => queue'[System][k].n < made[u]
        <5>1. k + 1 \in 1 .. Len(q) /\ k + 1 > 1 /\ queue'[System][k] = q[k + 1] /\ Of(u, k + 1)
          BY <3>3, <4>2, <4>4
        <5>2. /\ last[u] < q[k + 1].n /\ q[k + 1].n <= made[u]
              /\ Putting(u) => q[k + 1].n < made[u]
          BY <3>7, <4>1, <5>1 DEF InLine
        <5>3. CASE u = t
          <6>1. q[1].n < q[k + 1].n
            BY <3>5, <3>7, <5>1, <5>3 DEF InLine
          <6> QED
            BY <3>6, <5>1, <5>2, <5>3, <6>1
        <5>4. CASE u # t
          BY <3>6, <5>1, <5>2, <5>4
        <5> QED
          BY <5>3, <5>4
      <4>5. ASSUME NEW j \in 1 .. Len(queue'[System]), NEW k \in 1 .. Len(queue'[System]),
                   j < k, Of(u, j)', Of(u, k)'
            PROVE  queue'[System][j].n < queue'[System][k].n
        <5>1. /\ j + 1 \in 1 .. Len(q) /\ k + 1 \in 1 .. Len(q) /\ j + 1 < k + 1
              /\ Of(u, j + 1) /\ Of(u, k + 1)
          BY <3>3, <4>2, <4>5
        <5>2. q[j + 1].n < q[k + 1].n
          BY <3>7, <4>1, <5>1 DEF InLine
        <5> QED
          BY <3>3, <5>2
      <4>6. ASSUME NEW n \in last'[u] + 1 .. made[u], ~ (Putting(u) /\ n = made[u])
            PROVE  \E k \in 1 .. Len(queue'[System]) : Of(u, k)' /\ queue'[System][k].n = n
        <5>1. n \in last[u] + 1 .. made[u] /\ n # last'[u]
          BY <4>3
        <5>2. PICK k \in 1 .. Len(q) : Of(u, k) /\ q[k].n = n
          BY <3>7, <4>1, <4>6, <5>1 DEF InLine
        <5>3. k # 1
          <6>1. CASE u = t
            BY <3>6, <5>1, <5>2, <6>1
          <6>2. CASE u # t
            <7>1. q[1].from = t
              BY <3>5, <3>7 DEF Of
            <7>2. q[k].from = u
              BY <3>7, <5>2 DEF Of
            <7> QED
              BY <6>2, <7>1, <7>2
          <6> QED
            BY <6>1, <6>2
        <5>4. k - 1 \in 1 .. Len(queue'[System]) /\ queue'[System][k - 1] = q[k] /\ k - 1 + 1 = k
          BY <3>4, <5>3
        <5>5. Of(u, k - 1)'
          BY <4>2, <5>2, <5>4
        <5> QED
          BY <5>2, <5>4, <5>5
      <4>7. Putting(u)' => call'[u].n = made'[u] /\ last'[u] < made'[u]
        <5>1. ASSUME Putting(u)
              PROVE  call[u].n = made[u] /\ last'[u] < made[u]
          <6>1. call[u].n = made[u] /\ last[u] < made[u]
            BY <4>1, <5>1 DEF InLine
          <6>2. CASE u = t
            <7>1. q[1].n < made[u]
              BY <3>5, <3>7, <5>1, <6>2 DEF InLine
            <7> QED
              BY <3>6, <6>1, <6>2, <7>1
          <6>3. CASE u # t
            BY <3>6, <6>1, <6>3
          <6> QED
            BY <6>2, <6>3
        <5> QED
          BY <4>1, <5>1
      <4> QED
        BY <4>1, <4>3, <4>4, <4>5, <4>6, <4>7 DEF InLine
    <3> QED
      BY <3>1, <3>10, <3>11, <3>12 DEF OrderInv
  <2> QED
    BY <2>2, <2>3
<1>6. ASSUME NEW o \in Objects, task_complete(o)
      PROVE  OrderInv' /\ OneByOne
  <2>1. UNCHANGED <<pc, call, queue, made, last>>
    BY <1>6 DEF task_complete
  <2> QED
    BY <1>b, <2>1, LineKept DEF OrderInv, OneByOne
<1>7. CASE processSystemRequest
  <2>1. CASE UNCHANGED calls
    <3>1. UNCHANGED <<pc, call, queue, made, last>>
      BY <2>1 DEF calls
    <3> QED
      BY <1>b, <3>1, LineKept DEF OrderInv, OneByOne
  <2>2. CASE Begin(System, "usb")
    BY <1>7, <1>a, <1>c, <2>2, BeginBound DEF Kinds, processSystemRequest
  <2> QED
    BY <1>7, <2>1, <2>2 DEF processSystemRequest
<1>8. CASE enqueueRequest \/ fetchRequestResult \/ setRequestResult \/ UNCHANGED vars
  <2>1. UNCHANGED <<pc, call, queue, made, last>>
    BY <1>8 DEF enqueueRequest, fetchRequestResult, setRequestResult, vars, calls
  <2> QED
    BY <1>b, <2>1, LineKept DEF OrderInv, OneByOne
<1> QED
  BY <1>1, <1>2, <1>3, <1>4, <1>5, <1>6, <1>7, <1>8 DEF Next

-----------------------------------------------------------------------------
(* The theorems.                                                           *)

LEMMA Invariance == Spec => []Inv
<1>1. Inv /\ [Next]_vars => Inv'
  BY TypeStep, CountStep, CallStep, PlaceStep DEF Inv
<1> QED
  BY <1>1, InitInv, PTL DEF Spec

\* The variables have their types: no queue holds more than its capacity, and
\* the system makes no more calls than it is asked for.
THEOREM TypeCorrect == Spec => []TypeOK
<1>1. Inv => TypeOK
  BY DEF Inv
<1> QED
  BY <1>1, Invariance, PTL

\* What the application was given of a request over USB is not overwritten
\* before it has set the result (enqueueRequest of system_control.cpp).
THEOREM RequestsAreStable == Spec => []RequestStable
<1>1. Inv => RequestStable
  BY DEF Inv, PlaceInv, Pending, RequestStable
<1> QED
  BY <1>1, Invariance, PTL

\* Nobody waits in vain or in a circle: the system waits for nobody, and the
\* call of a thread that waits in wait_complete of active_object.h is queued,
\* run or complete; no semaphore that is waited for is lost.
THEOREM NobodyWaitsInVain == Spec => []WaitersAreServed
<1>1. Init => WaitInv
  BY ConstantFacts DEF Init, WaitInv, WaitersAreServed, Served
<1>2. Inv /\ WaitInv /\ [Next]_vars => WaitInv'
  BY WaitStep DEF Inv
<1>3. WaitInv => WaitersAreServed
  BY DEF WaitInv
<1> QED
  BY <1>1, <1>2, <1>3, Invariance, PTL DEF Spec

\* The queue of the system loses no call and keeps their order: put_wait of the
\* system waits for ever (system_threading.h), so of the calls of each thread
\* the system begins one after the other.
THEOREM CallsBeginInOrder == Spec => [][OneByOne]_vars
<1>1. Init => WaitInv /\ OrderInv
  <2> SUFFICES ASSUME Init
               PROVE  WaitInv /\ OrderInv
    OBVIOUS
  <2>1. /\ \A t \in Threads : pc[t] = "run" /\ last[t] = 0 /\ made[t] = 0
        /\ queue[App] = <<>> /\ queue[System] = <<>> /\ System \in Threads
    BY ConstantFacts DEF Init
  <2>2. WaitInv
    BY <2>1 DEF WaitInv, WaitersAreServed, Served
  <2>3. OrderInv
    BY <2>1 DEF OrderInv, InLine, Of, Putting
  <2> QED
    BY <2>2, <2>3
<1>2. Inv /\ WaitInv /\ OrderInv /\ [Next]_vars => WaitInv' /\ OrderInv' /\ [OneByOne]_vars
  BY WaitStep, OrderStep DEF Inv
<1> QED
  BY <1>1, <1>2, Invariance, PTL DEF Spec
=============================================================================
