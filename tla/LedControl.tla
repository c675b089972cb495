----------------------------- MODULE LedControl -----------------------------
(***************************************************************************)
(* The application of the indoor controller: the threads of                *)
(* user/src/application.cpp, the strips, the potmeters, the switch, the    *)
(* display with its mutex, and the message handlers the MQTT thread calls. *)
(* One action per stretch of code between two points where another thread  *)
(* can tell the difference: analogWrite, display_mutex.lock, the drawing   *)
(* with its unlock, and a read of an input.                                *)
(***************************************************************************)
EXTENDS LedArith

CONSTANTS
    N,           \* number of led strips (3 in the code), each with a potmeter
    PotRaw,      \* the analogReads a potmeter can give
    Json,        \* the values a field of a message can carry
    Garbage,     \* the ints an uninitialised utils::Message converts to
    Stack,       \* what an uninitialised previous value can hold
    Initialised, \* the strips whose previous value has an initialiser (led3 in the code)
    MaxMessages  \* bound: messages the broker delivers

ASSUME NAssumption == N \in Nat \ {0}
ASSUME PotAssumption == PotRaw \subseteq AdcRange
ASSUME JsonAssumption == Json \subseteq JsonValue
ASSUME MaxMessagesAssumption == MaxMessages \in Nat
ASSUME IntsAssumption == Garbage \subseteq Int /\ Stack \subseteq UInt16
ASSUME InitialisedAssumption == Initialised \subseteq 1 .. N

Strips  == 1 .. N
Writers == {"app", "mqtt"}
Threads == Writers \cup {"main", "temp"}

\* The brightnesses set_led_brightness can be called with.
Brightness ==
    {0} \cup {PotPercent(raw) : raw \in PotRaw} \cup UNION {Converted(json, Garbage) : json \in Json}

VARIABLES
    pc,          \* pc[t]: what thread t does next
    at,          \* at[t]: the strip thread t works on
    val,         \* val[w]: the brightness set_led_brightness runs with in w
    fields,      \* the fields of the message in hand that are yet to be looked at
    handlers,    \* the strips whose message handler is registered
    mutex,       \* display_mutex: the thread that holds it, or "none"
    strip,       \* strip[k]: the PWM width on the pin of strip k
    shown,       \* shown[k]: {b} when the display says b for strip k, {} when it says "-"
    prev,        \* prev[k]: led1_prev, led2_prev, led3_prev of the application thread
    backlight,   \* the backlight of the display
    pot,         \* pot[k]: where potmeter k stands
    switch,      \* the switch: TRUE when on
    messages,    \* messages delivered so far
    raced,       \* history: see LedPanel
    writer       \* history: writer[k] is who last lit strip k

threadVars == <<pc, at, val, fields>>
ledVars    == <<strip, raced, writer>>
envVars    == <<pot, switch>>
vars == <<pc, at, val, fields, handlers, mutex, strip, shown, prev, backlight,
          pot, switch, messages, raced, writer>>

\* The fields of a parsed JSON object that name a strip, with their values.
Message == UNION {[F -> Json] : F \in SUBSET Strips}

Empty(message) == DOMAIN message = {}

Control == {"none", "boot", "handlers", "items", "start", "loop",
            "switch", "check", "light", "lock", "draw", "idle", "field", "graph", "measure"}

TypeOK ==
    /\ pc \in [Threads -> Control]
    /\ at \in [Threads -> Strips]
    /\ val \in [Writers -> Brightness]
    /\ fields \in Message
    /\ handlers \in SUBSET Strips
    /\ mutex \in Threads \cup {"none"}
    /\ strip \in [Strips -> 0 .. 255]
    /\ shown \in [Strips -> SUBSET Brightness]
    /\ prev \in [Strips -> UInt16]
    /\ backlight \in BOOLEAN
    /\ pot \in [Strips -> PotRaw]
    /\ switch \in BOOLEAN
    /\ messages \in 0 .. MaxMessages
    /\ raced \in [Strips -> BOOLEAN]
    /\ writer \in [Strips -> Writers \cup {"none"}]

Init ==
    /\ pc = [t \in Threads |-> IF t = "main" THEN "boot" ELSE "none"]
    /\ at = [t \in Threads |-> 1]
    /\ val = [w \in Writers |-> 0]
    /\ fields \in [{} -> Json]
    /\ handlers = {}
    /\ mutex = "none"
    /\ strip = [k \in Strips |-> 0]
    /\ shown = [k \in Strips |-> {}]
    /\ prev \in {p \in [Strips -> Stack \cup {0}] : \A k \in Initialised : p[k] = 0}
    /\ backlight = TRUE
    /\ pot \in [Strips -> PotRaw]
    /\ switch \in BOOLEAN
    /\ messages = 0
    /\ raced = [k \in Strips |-> FALSE]
    /\ writer = [k \in Strips |-> "none"]

-----------------------------------------------------------------------------
(* Control flow.                                                           *)

Go(t, from, to) ==
    /\ pc[t] = from
    /\ pc' = [pc EXCEPT ![t] = to]

\* Mutated form of NextStrip: one strip too many.
NextStripTooFar(t, from, again, done) ==
    /\ Go(t, from, IF at[t] > N THEN done ELSE again)
    /\ at' = [at EXCEPT ![t] = IF at[t] > N THEN 1 ELSE at[t] + 1]

\* t goes on with the next strip at again, or, after the last one, to done.
NextStrip(t, from, again, done) ==
    /\ Go(t, from, IF at[t] = N THEN done ELSE again)
    /\ at' = [at EXCEPT ![t] = IF at[t] = N THEN 1 ELSE at[t] + 1]

\* Mutated form of LockDisplay: does not wait.
LockDisplayNow(t) == mutex' = t

\* display_mutex.lock, which waits while another thread holds the mutex.
LockDisplay(t) == mutex = "none" /\ mutex' = t

UnlockDisplay(t) == mutex' = "none"

-----------------------------------------------------------------------------
(* The environment.                                                        *)

TurnPot(k) ==
    /\ \E raw \in PotRaw \ {pot[k]} : pot' = [pot EXCEPT ![k] = raw]
    /\ UNCHANGED <<threadVars, ledVars, handlers, mutex, shown, prev, backlight, switch, messages>>

FlipSwitch ==
    /\ switch' = ~switch
    /\ UNCHANGED <<threadVars, ledVars, handlers, mutex, shown, prev, backlight, pot, messages>>

-----------------------------------------------------------------------------
(* The main thread: setup, then loop.                                      *)

\* connectToNetwork and connectToBroker return: the MQTT thread runs from here on.
ConnectToBroker ==
    /\ pc["main"] = "boot"
    /\ pc' = [pc EXCEPT !["main"] = "handlers", !["mqtt"] = "idle"]
    /\ UNCHANGED <<at, val, fields, ledVars, envVars, handlers, mutex, shown, prev, backlight, messages>>

AddMessageHandler ==
    /\ NextStrip("main", "handlers", "handlers", "items")
    /\ handlers' = handlers \cup {at["main"]}
    /\ UNCHANGED <<val, fields, ledVars, envVars, mutex, shown, prev, backlight, messages>>

\* addItem replaces whatever was shown for the strip by "-".
AddItem ==
    /\ NextStrip("main", "items", "items", "start")
    /\ shown' = [shown EXCEPT ![at["main"]] = {}]
    /\ UNCHANGED <<val, fields, ledVars, envVars, handlers, mutex, prev, backlight, messages>>

StartThreads ==
    /\ pc["main"] = "start"
    /\ pc' = [pc EXCEPT !["main"] = "loop", !["app"] = "switch", !["temp"] = "graph"]
    /\ UNCHANGED <<at, val, fields, ledVars, envVars, handlers, mutex, shown, prev, backlight, messages>>

\* loop: the connection state is shown under the mutex.
LoopLock ==
    /\ Go("main", "loop", "draw")
    /\ LockDisplay("main")
    /\ UNCHANGED <<at, val, fields, ledVars, envVars, handlers, shown, prev, backlight, messages>>

LoopShow ==
    /\ Go("main", "draw", "loop")
    /\ UnlockDisplay("main")
    /\ UNCHANGED <<at, val, fields, ledVars, envVars, handlers, shown, prev, backlight, messages>>

-----------------------------------------------------------------------------
(* set_led_brightness, in the application thread and in the MQTT thread.   *)

\* w runs set_led_brightness for strip k, between analogWrite and updateItem.
Pending(w, k) == pc[w] \in {"lock", "draw"} /\ at[w] = k

\* analogWrite: nothing orders it with the other thread's.
Light(w) ==
    LET k == at[w] IN
    /\ Go(w, "light", "lock")
    /\ strip' = [strip EXCEPT ![k] = PwmWidth(val[w])]
    /\ writer' = [writer EXCEPT ![k] = w]
    /\ raced' = [raced EXCEPT ![k] = \E u \in Writers \ {w} : Pending(u, k)]
    /\ UNCHANGED <<at, val, fields, envVars, handlers, mutex, shown, prev, backlight, messages>>

Lock(w) ==
    /\ Go(w, "lock", "draw")
    /\ LockDisplay(w)
    /\ UNCHANGED <<at, val, fields, ledVars, envVars, handlers, shown, prev, backlight, messages>>

\* Mutated forms of Show: the width is shown for the brightness; nothing is
\* stored.
ShowWidth(w) ==
    /\ shown' = [shown EXCEPT ![at[w]] = {PwmWidth(val[w])}]
    /\ UnlockDisplay(w)

ShowNothing(w) ==
    /\ shown' = shown
    /\ UnlockDisplay(w)

\* updateItem draws the value and stores it as the current one; unlock.
Show(w) ==
    /\ shown' = [shown EXCEPT ![at[w]] = {val[w]}]
    /\ UnlockDisplay(w)

-----------------------------------------------------------------------------
(* The application thread: application_task_worker.                        *)

ReadSwitchOn ==
    /\ switch
    /\ Go("app", "switch", "check")
    /\ backlight' = TRUE
    /\ UNCHANGED <<at, val, fields, ledVars, envVars, handlers, mutex, shown, prev, messages>>

\* Mutated form of ReadSwitchOff: the strips are zeroed only when the switch
\* was on before.
ReadSwitchTurnedOff ==
    /\ ~switch
    /\ Go("app", "switch", IF backlight THEN "light" ELSE "switch")
    /\ backlight' = FALSE
    /\ val' = [val EXCEPT !["app"] = 0]
    /\ UNCHANGED <<at, fields, ledVars, envVars, handlers, mutex, shown, prev, messages>>

ReadSwitchOff ==
    /\ ~switch
    /\ Go("app", "switch", "light")
    /\ backlight' = FALSE
    /\ val' = [val EXCEPT !["app"] = 0]
    /\ UNCHANGED <<at, fields, ledVars, envVars, handlers, mutex, shown, prev, messages>>

\* Mutated form of ShowZero: the previous values are kept.
ShowZeroKeepPrev ==
    /\ ~backlight
    /\ NextStrip("app", "draw", "light", "switch")
    /\ Show("app")
    /\ UNCHANGED <<val, fields, envVars, handlers, strip, raced, writer, backlight, prev, messages>>

\* Switched off: the next strip is zeroed too, or after the last one the
\* previous values are.
ShowZero ==
    /\ ~backlight
    /\ NextStrip("app", "draw", "light", "switch")
    /\ Show("app")
    /\ prev' = IF at["app"] = N THEN [k \in Strips |-> 0] ELSE prev
    /\ UNCHANGED <<val, fields, envVars, handlers, strip, raced, writer, backlight, messages>>

\* Mutated form of Moved: without abs.
MovedDown(k, width) == prev[k] - width > 1

\* abs(*prev_value - width), an int computation
Moved(k, width) ==
    LET d == prev[k] - width IN (IF d < 0 THEN -d ELSE d) > 1

\* potmeter_check finds the potmeter moved and calls set_led_brightness.
PotMoved ==
    LET k == at["app"]  width == PotPercent(pot[k]) IN
    /\ Moved(k, width)
    /\ Go("app", "check", "light")
    /\ val' = [val EXCEPT !["app"] = width]
    /\ UNCHANGED <<at, fields, ledVars, envVars, handlers, mutex, shown, prev, backlight, messages>>

PotSteady ==
    LET k == at["app"] IN
    /\ ~Moved(k, PotPercent(pot[k]))
    /\ NextStrip("app", "check", "check", "switch")
    /\ UNCHANGED <<val, fields, ledVars, envVars, handlers, mutex, shown, prev, backlight, messages>>

\* set_led_brightness returns to potmeter_check.
ShowPot ==
    /\ backlight
    /\ NextStrip("app", "draw", "check", "switch")
    /\ Show("app")
    /\ prev' = [prev EXCEPT ![at["app"]] = val["app"]]
    /\ UNCHANGED <<val, fields, ledVars, envVars, handlers, backlight, messages>>

-----------------------------------------------------------------------------
(* The MQTT thread: mqtt_onmessage_callback.                               *)

\* A message is read and parsed to an object.
Receive ==
    /\ messages < MaxMessages
    /\ Go("mqtt", "idle", "field")
    /\ fields' \in Message
    /\ ~Empty(fields')
    /\ messages' = messages + 1
    /\ UNCHANGED <<at, val, ledVars, envVars, handlers, mutex, shown, prev, backlight>>

\* The fields of an object are visited in the order of their names.
IsFirst(k) == k \in DOMAIN fields /\ \A j \in DOMAIN fields : k <= j

DropField(k) == fields' = [j \in DOMAIN fields \ {k} |-> fields[j]]

CallHandler(k) ==
    /\ IsFirst(k)
    /\ k \in handlers
    /\ Go("mqtt", "field", "light")
    /\ at' = [at EXCEPT !["mqtt"] = k]
    /\ \E b \in Converted(fields[k], Garbage) : val' = [val EXCEPT !["mqtt"] = b]
    /\ DropField(k)
    /\ UNCHANGED <<ledVars, envVars, handlers, mutex, shown, prev, backlight, messages>>

\* No handler is registered for the field yet.
SkipField(k) ==
    /\ IsFirst(k)
    /\ k \notin handlers
    /\ Go("mqtt", "field", "field")
    /\ DropField(k)
    /\ UNCHANGED <<at, val, ledVars, envVars, handlers, mutex, shown, prev, backlight, messages>>

ShowCommand ==
    /\ Go("mqtt", "draw", "field")
    /\ Show("mqtt")
    /\ UNCHANGED <<at, val, fields, ledVars, envVars, handlers, prev, backlight, messages>>

CallbackReturns ==
    /\ Empty(fields)
    /\ Go("mqtt", "field", "idle")
    /\ UNCHANGED <<at, val, fields, ledVars, envVars, handlers, mutex, shown, prev, backlight, messages>>

-----------------------------------------------------------------------------
(* The temperature thread: temperature_read_worker.                        *)

\* enableGraph draws the axes without the mutex.
EnableGraph ==
    /\ Go("temp", "graph", "measure")
    /\ UNCHANGED <<at, val, fields, ledVars, envVars, handlers, mutex, shown, prev, backlight, messages>>

MeasureLock ==
    /\ Go("temp", "measure", "draw")
    /\ LockDisplay("temp")
    /\ UNCHANGED <<at, val, fields, ledVars, envVars, handlers, shown, prev, backlight, messages>>

\* Mutated form of MeasureShow: without the unlock.
MeasureShowLocked ==
    /\ Go("temp", "draw", "measure")
    /\ UNCHANGED <<at, val, fields, ledVars, envVars, handlers, mutex, shown, prev, backlight, messages>>

MeasureShow ==
    /\ Go("temp", "draw", "measure")
    /\ UnlockDisplay("temp")
    /\ UNCHANGED <<at, val, fields, ledVars, envVars, handlers, shown, prev, backlight, messages>>

-----------------------------------------------------------------------------
MainStep == AddMessageHandler \/ AddItem \/ StartThreads \/ LoopShow
AppStep  == ReadSwitchOn \/ ReadSwitchOff \/ ShowZero \/ PotMoved \/ PotSteady \/ ShowPot
MqttStep == (\E k \in Strips : CallHandler(k) \/ SkipField(k)) \/ ShowCommand \/ CallbackReturns
TempStep == EnableGraph \/ MeasureShow

Environment == FlipSwitch \/ \E k \in Strips : TurnPot(k)

Next ==
    \/ ConnectToBroker \/ MainStep \/ LoopLock
    \/ AppStep
    \/ Receive \/ MqttStep
    \/ \E w \in Writers : Light(w) \/ Lock(w)
    \/ TempStep \/ MeasureLock
    \/ Environment

Spec == Init /\ [][Next]_vars

(***************************************************************************)
(* Every thread that can run does: the RTOS is preemptive and every loop   *)
(* of the application ends in a delay.  A thread that waits for the mutex  *)
(* gets it if it is released again and again: its holders delay, at        *)
(* whatever priority, before they ask for it anew.  Neither the network    *)
(* nor the environment is fair.                                            *)
(***************************************************************************)
Fairness ==
    /\ WF_vars(MainStep) /\ WF_vars(AppStep) /\ WF_vars(MqttStep) /\ WF_vars(TempStep)
    /\ \A w \in Writers : WF_vars(Light(w)) /\ SF_vars(Lock(w))
    /\ SF_vars(LoopLock) /\ SF_vars(MeasureLock)

FairSpec == Spec /\ Fairness

-----------------------------------------------------------------------------
(* Properties.                                                             *)

(* The display.                                                            *)

\* The threads in the middle of drawing on the display.
Drawing == {t \in Threads :
    \/ pc[t] = "draw"
    \/ t = "main" /\ pc[t] \in {"boot", "handlers", "items", "start"}
    \/ t = "temp" /\ pc[t] = "graph"}

(***************************************************************************)
(* updateItem and addDataToGraph are long sequences of calls on one tft    *)
(* with one cursor, text size and colour.  Once setup is over and the      *)
(* graph is enabled, only the thread that holds the mutex is ever in the   *)
(* middle of one.                                                          *)
(***************************************************************************)
TftExclusive ==
    pc["main"] \in {"loop", "draw"} /\ pc["temp"] # "graph" => Drawing = {mutex} \ {"none"}

-----------------------------------------------------------------------------
(* The strips and the display.                                             *)

\* The request each writer has yet to show: it is between analogWrite and
\* updateItem.
Requested == [w \in Writers |-> IF pc[w] \in {"lock", "draw"} THEN {<<at[w], val[w]>>} ELSE {}]

\* The led panel this program implements.
Panel == INSTANCE LedPanel WITH pending <- Requested

(***************************************************************************)
(* Every set_led_brightness of either thread lights its strip once, then   *)
(* updates the display once with the same value, and nothing else touches  *)
(* the two but the addItems of setup.                                      *)
(***************************************************************************)
ImplementsPanel == Panel!PanelSpec

(***************************************************************************)
(* When no set_led_brightness is under way for a strip and the last ones   *)
(* did not overlap, the display says the brightness the strip has.         *)
(***************************************************************************)
ShownAgrees == Panel!ShownAgrees

-----------------------------------------------------------------------------
(* The potmeters and the switch.                                           *)

(***************************************************************************)
(* The previous value potmeter_check compares a reading with is the        *)
(* brightness of the strip, whenever the application thread was the last   *)
(* to light it and is not in the middle of doing it again: zeroing the     *)
(* strips leaves the previous values stale until all are zeroed.           *)
(***************************************************************************)
PrevTracks ==
    \A k \in Strips :
        /\ writer[k] = "app"
        /\ \/ pc["app"] \in {"switch", "check"}
           \/ backlight /\ at["app"] # k
        => strip[k] = PwmWidth(prev[k])

(***************************************************************************)
(* Why PrevTracks is invariant.  In the middle of set_led_brightness the   *)
(* application thread holds the brightness it has lit the strip with; in a *)
(* switched-off round it holds 0 and has zeroed the strips before this one.*)
(***************************************************************************)
PrevLink ==
    /\ pc["app"] = "none" => \A k \in Strips : writer[k] # "app"
    /\ pc["app"] \in {"none", "switch"} => at["app"] = 1
    /\ pc["app"] = "check" => backlight
    /\ pc["app"] \in {"lock", "draw"} /\ writer[at["app"]] = "app" => strip[at["app"]] = PwmWidth(val["app"])
    /\ pc["app"] \in {"light", "lock", "draw"} /\ ~backlight =>
           /\ val["app"] = 0
           /\ \A k \in Strips : k < at["app"] /\ writer[k] = "app" => strip[k] = PwmWidth(0)

(***************************************************************************)
(* The application thread never asks for a brightness that is not a        *)
(* percentage, although the scaled readings below 35 are negative before   *)
(* the division and those above 4080 exceed the scale.                     *)
(***************************************************************************)
PotInRange == val["app"] \in 0 .. 100

\* A strip has the brightness its potmeter asks for, to within a percent.
AtPot(k) == \E b \in PotPercent(pot[k]) - 1 .. PotPercent(pot[k]) + 1 : strip[k] = PwmWidth(b)

-----------------------------------------------------------------------------
(* Liveness.                                                               *)

Running == pc["app"] # "none"

(***************************************************************************)
(* If the switch stays off, the strips go dark and the display says so,    *)
(* for good, once no more messages come: whatever overlapped before, the   *)
(* zeroes are written again in every round.                                *)
(***************************************************************************)
GoesDark ==
    <>[](Running /\ ~switch) => <>[](\A k \in Strips : strip[k] = 0 /\ shown[k] = {0})

(***************************************************************************)
(* If the switch stays on and a potmeter is left alone, its strip ends up  *)
(* at the brightness the potmeter asks for, unless a message or nothing at *)
(* all was the last to light it.                                           *)
(***************************************************************************)
FollowsPot ==
    \A k \in Strips : \A raw \in PotRaw :
        <>[](Running /\ switch /\ pot[k] = raw) => <>[](writer[k] = "app" => AtPot(k))

(***************************************************************************)
(* Every brightness a message asks for reaches the display, although the   *)
(* application and temperature threads and the loop contend for the mutex. *)
(***************************************************************************)
CommandShown ==
    \A k \in Strips : \A b \in Brightness :
        pc["mqtt"] = "light" /\ at["mqtt"] = k /\ val["mqtt"] = b ~> shown[k] = {b}
=============================================================================
