-------------------------- MODULE LedControlProofs --------------------------
(* Theorems about LedControl, for every number of strips and every input. *)
EXTENDS LedControl, TLAPS

-----------------------------------------------------------------------------
(* Arithmetic.                                                             *)

\* A brightness is converted to an 8-bit width.
LEMMA PwmWidthRange ==
    ASSUME NEW b \in Int
    PROVE  PwmWidth(b) \in 0 .. 255
<1>1. map(b, 0, 100, 0, 255) \in Int
  BY DEF map, TruncDiv
<1> QED
  BY <1>1 DEF PwmWidth, uint8

\* Whatever a potmeter's analogRead returns (application.cpp:86), its scaled
\* value is a percentage: the division truncates the negative quotients of
\* the readings below 35 to zero, so that the conversion to uint8_t never wraps.
THEOREM PotPercentRange ==
    ASSUME NEW raw \in AdcRange
    PROVE  PotPercent(raw) \in 0 .. 100
<1> DEFINE n == (raw - 35) * 100
           q == TruncDiv(n, 4045)
<1>1. map(raw, 35, 4080, 0, 100) = q
  BY DEF map, TruncDiv, AdcRange
<1>2. n \in Int /\ -3500 <= n /\ n <= 406000
  BY DEF AdcRange
<1>3. q \in 0 .. 100
  BY <1>2 DEF TruncDiv
<1> QED
  BY <1>1, <1>3 DEF PotPercent, uint8

\* Every brightness the program can come to is an int, and it can come to the
\* zero of the switch, the percentages of the potmeters and the converted
\* fields of the messages.
LEMMA BrightnessFacts ==
    /\ 0 \in Brightness
    /\ \A raw \in PotRaw : PotPercent(raw) \in Brightness
    /\ \A json \in Json : Converted(json, Garbage) \subseteq Brightness
    /\ \A raw \in PotRaw : PotPercent(raw) \in 0 .. 100
    /\ Brightness \subseteq Int
<1>1. \A raw \in PotRaw : PotPercent(raw) \in 0 .. 100
  BY PotPercentRange, PotAssumption
<1>2. ASSUME NEW json \in Json
      PROVE  Converted(json, Garbage) \subseteq Int
  <2>1. json.tenths \in Int
    BY JsonAssumption DEF JsonValue
  <2>2. TruncDiv(json.tenths, 10) \in Int
    BY <2>1 DEF TruncDiv
  <2> QED
    BY <2>2, IntsAssumption DEF Converted
<1> QED
  BY <1>1, <1>2 DEF Brightness

\* A uint16_t holds every percentage.
LEMMA PercentIsUInt16 == \A b \in 0 .. 100 : b \in UInt16
BY DEF UInt16

-----------------------------------------------------------------------------
(* Type correctness.                                                       *)

\* Dropping a field of a message leaves a message.
LEMMA DropFieldMessage ==
    ASSUME fields \in Message, NEW k \in Strips, DropField(k)
    PROVE  fields' \in Message
<1>1. PICK F \in SUBSET Strips : fields \in [F -> Json]
  BY DEF Message
<1>2. fields' \in [F \ {k} -> Json]
  BY <1>1 DEF DropField
<1> QED
  BY <1>2 DEF Message

\* Control passes within the program.
LEMMA GoType ==
    ASSUME TypeOK, NEW t \in Threads, NEW from, NEW to \in Control, Go(t, from, to)
    PROVE  pc' \in [Threads -> Control]
BY DEF TypeOK, Go

\* The strips are visited one by one.
LEMMA NextStripType ==
    ASSUME TypeOK, NEW t \in Threads, NEW from, NEW again \in Control, NEW done \in Control,
           NextStrip(t, from, again, done)
    PROVE  pc' \in [Threads -> Control] /\ at' \in [Threads -> Strips]
<1>1. at[t] \in 1 .. N
  BY DEF TypeOK, Strips
<1>2. (IF at[t] = N THEN 1 ELSE at[t] + 1) \in Strips
  BY <1>1, NAssumption DEF Strips
<1>3. (IF at[t] = N THEN done ELSE again) \in Control
  OBVIOUS
<1> QED
  BY <1>2, <1>3 DEF TypeOK, NextStrip, Go

\* What the application thread asks for stays a percentage, which is what
\* makes the uint16_t previous values hold it.
LEMMA PotInRangeStep == TypeOK /\ PotInRange /\ [Next]_vars => PotInRange'
<1> USE DEF threadVars, ledVars, envVars, PotInRange
<1> SUFFICES ASSUME TypeOK, PotInRange, [Next]_vars PROVE PotInRange'
  OBVIOUS
<1>t. "app" \in Writers /\ "app" \in Threads
  BY DEF Threads, Writers
<1>1. CASE ReadSwitchOff
  BY <1>1, <1>t DEF ReadSwitchOff, TypeOK
<1>2. CASE PotMoved
  <2>1. PotPercent(pot[at["app"]]) \in 0 .. 100
    BY <1>t, BrightnessFacts DEF TypeOK
  <2> QED
    BY <1>2, <1>t, <2>1 DEF PotMoved, TypeOK
<1>3. ASSUME NEW k \in Strips, CallHandler(k)
      PROVE  PotInRange'
  BY <1>3, <1>t DEF CallHandler, TypeOK
<1>4. CASE UNCHANGED val
  BY <1>4
<1>5. ConnectToBroker \/ MainStep \/ LoopLock => UNCHANGED val
  BY DEF ConnectToBroker, MainStep, AddMessageHandler, AddItem, StartThreads, LoopLock, LoopShow
<1>6. ReadSwitchOn \/ ShowZero \/ PotSteady \/ ShowPot => UNCHANGED val
  BY DEF ReadSwitchOn, ShowZero, PotSteady, ShowPot
<1>7. Receive \/ (\E k \in Strips : SkipField(k)) \/ ShowCommand \/ CallbackReturns => UNCHANGED val
  BY DEF Receive, SkipField, ShowCommand, CallbackReturns
<1>8. (\E w \in Writers : Light(w) \/ Lock(w)) => UNCHANGED val
  BY DEF Light, Lock
<1>9. TempStep \/ MeasureLock \/ Environment \/ UNCHANGED vars => UNCHANGED val
  BY DEF TempStep, EnableGraph, MeasureShow, MeasureLock, Environment, FlipSwitch, TurnPot, vars
<1> QED
  BY <1>1, <1>2, <1>3, <1>4, <1>5, <1>6, <1>7, <1>8, <1>9 DEF Next, AppStep, MqttStep

\* Both at once: prev holds what the application thread asked for.
LEMMA TypesAndPercentages == Spec => [](TypeOK /\ PotInRange)
<1> USE DEF threadVars, ledVars, envVars
<1>1. Init => TypeOK /\ PotInRange
  <2>p. Init => PotInRange
    BY DEF Init, PotInRange, Writers
  <2> SUFFICES ASSUME Init PROVE TypeOK
    BY <2>p
  <2>1. 1 \in Strips
    BY NAssumption DEF Strips
  <2>2. fields \in Message
    BY DEF Init, Message
  <2>3. prev \in [Strips -> UInt16]
    <3>1. Stack \cup {0} \subseteq UInt16
      BY IntsAssumption, PercentIsUInt16
    <3> QED
      BY <3>1 DEF Init
  <2> QED
    BY <2>1, <2>2, <2>3, BrightnessFacts, MaxMessagesAssumption
       DEF Init, TypeOK, Control, Threads, Writers
<1>2. TypeOK /\ PotInRange /\ [Next]_vars => TypeOK'
  <2> SUFFICES ASSUME TypeOK, PotInRange, [Next]_vars PROVE TypeOK'
    OBVIOUS
  <2>t. "main" \in Threads /\ "app" \in Threads /\ "mqtt" \in Threads /\ "temp" \in Threads
        /\ "app" \in Writers /\ "mqtt" \in Writers /\ Writers \subseteq Threads
    BY DEF Threads, Writers
  <2>1. CASE ConnectToBroker
    BY <2>1 DEF ConnectToBroker, TypeOK, Control
  <2>2. CASE AddMessageHandler
    <3>1. pc' \in [Threads -> Control] /\ at' \in [Threads -> Strips]
      BY <2>2, <2>t, NextStripType DEF AddMessageHandler, Control
    <3> QED
      BY <2>2, <2>t, <3>1 DEF AddMessageHandler, TypeOK
  <2>3. CASE AddItem
    <3>1. pc' \in [Threads -> Control] /\ at' \in [Threads -> Strips]
      BY <2>3, <2>t, NextStripType DEF AddItem, Control
    <3> QED
      BY <2>3, <3>1 DEF AddItem, TypeOK
  <2>4. CASE StartThreads
    BY <2>4 DEF StartThreads, TypeOK, Control
  <2>5. CASE LoopLock \/ MeasureLock
    BY <2>5, <2>t DEF LoopLock, MeasureLock, LockDisplay, Go, TypeOK, Control
  <2>6. CASE LoopShow \/ MeasureShow \/ EnableGraph
    BY <2>6, <2>t DEF LoopShow, MeasureShow, EnableGraph, UnlockDisplay, Go, TypeOK, Control
  <2>7. CASE ReadSwitchOn
    BY <2>7 DEF ReadSwitchOn, Go, TypeOK, Control
  <2>8. CASE ReadSwitchOff
    BY <2>8, BrightnessFacts DEF ReadSwitchOff, Go, TypeOK, Control
  <2>9. CASE ShowZero
    <3>1. pc' \in [Threads -> Control] /\ at' \in [Threads -> Strips]
      BY <2>9, <2>t, NextStripType DEF ShowZero, Control
    <3>2. shown' \in [Strips -> SUBSET Brightness] /\ mutex' \in Threads \cup {"none"}
      BY <2>9, <2>t DEF ShowZero, Show, UnlockDisplay, TypeOK
    <3>3. prev' \in [Strips -> UInt16]
      <4>1. 0 \in UInt16
        BY PercentIsUInt16
      <4>2. CASE at["app"] = N
        BY <2>9, <4>1, <4>2 DEF ShowZero
      <4>3. CASE at["app"] # N
        BY <2>9, <4>3 DEF ShowZero, TypeOK
      <4> QED
        BY <4>2, <4>3
    <3> QED
      BY <2>9, <3>1, <3>2, <3>3 DEF ShowZero, TypeOK
  <2>10. CASE PotMoved
    <3>1. PotPercent(pot[at["app"]]) \in Brightness
      BY <2>t, BrightnessFacts DEF TypeOK
    <3> QED
      BY <2>10, <3>1 DEF PotMoved, Go, TypeOK, Control
  <2>11. CASE PotSteady
    <3>1. pc' \in [Threads -> Control] /\ at' \in [Threads -> Strips]
      BY <2>11, <2>t, NextStripType DEF PotSteady, Control
    <3> QED
      BY <2>11, <3>1 DEF PotSteady, TypeOK
  <2>12. CASE ShowPot
    <3>1. pc' \in [Threads -> Control] /\ at' \in [Threads -> Strips]
      BY <2>12, <2>t, NextStripType DEF ShowPot, Control
    <3>2. shown' \in [Strips -> SUBSET Brightness] /\ mutex' \in Threads \cup {"none"}
      BY <2>12, <2>t DEF ShowPot, Show, UnlockDisplay, TypeOK
    <3>3. prev' \in [Strips -> UInt16]
      BY <2>12, <2>t, PercentIsUInt16 DEF ShowPot, TypeOK, PotInRange
    <3> QED
      BY <2>12, <3>1, <3>2, <3>3 DEF ShowPot, TypeOK
  <2>13. CASE Receive
    <3>1. messages' \in 0 .. MaxMessages
      BY <2>13, MaxMessagesAssumption DEF Receive, TypeOK
    <3> QED
      BY <2>13, <3>1 DEF Receive, Go, TypeOK, Control
  <2>14. ASSUME NEW k \in Strips, CallHandler(k)
         PROVE  TypeOK'
    <3>1. k \in DOMAIN fields /\ fields' \in Message
      BY <2>14, DropFieldMessage DEF TypeOK, CallHandler, IsFirst
    <3>2. Converted(fields[k], Garbage) \subseteq Brightness
      BY <3>1, BrightnessFacts DEF TypeOK, Message
    <3>3. val' \in [Writers -> Brightness]
      BY <2>14, <3>2 DEF CallHandler, TypeOK
    <3> QED
      BY <2>14, <3>1, <3>3 DEF CallHandler, Go, TypeOK, Control
  <2>15. ASSUME NEW k \in Strips, SkipField(k)
         PROVE  TypeOK'
    <3>1. fields' \in Message
      BY <2>15, DropFieldMessage DEF TypeOK, SkipField
    <3> QED
      BY <2>15, <3>1 DEF SkipField, Go, TypeOK, Control
  <2>16. CASE ShowCommand
    BY <2>16, <2>t DEF ShowCommand, Show, UnlockDisplay, Go, TypeOK, Control
  <2>17. CASE CallbackReturns
    BY <2>17 DEF CallbackReturns, Go, TypeOK, Control
  <2>18. ASSUME NEW w \in Writers, Light(w)
         PROVE  TypeOK'
    <3>1. at[w] \in Strips /\ val[w] \in Int
      BY <2>t, BrightnessFacts DEF TypeOK
    <3>2. strip' \in [Strips -> 0 .. 255]
      BY <2>18, <3>1, PwmWidthRange DEF Light, TypeOK
    <3>3. pc' \in [Threads -> Control]
      BY <2>18 DEF Light, Go, TypeOK, Control
    <3>4. writer' \in [Strips -> Writers \cup {"none"}]
      BY <2>18, <3>1 DEF Light, TypeOK
    <3>5. raced' \in [Strips -> BOOLEAN]
      <4>1. (\E u \in Writers \ {w} : Pending(u, at[w])) \in BOOLEAN
        OBVIOUS
      <4> QED
        BY <2>18, <3>1, <4>1 DEF Light, TypeOK
    <3> QED
      BY <2>18, <3>2, <3>3, <3>4, <3>5 DEF Light, TypeOK
  <2>19. ASSUME NEW w \in Writers, Lock(w)
         PROVE  TypeOK'
    BY <2>19, <2>t DEF Lock, LockDisplay, Go, TypeOK, Control
  <2>20. CASE FlipSwitch
    BY <2>20 DEF FlipSwitch, TypeOK
  <2>21. ASSUME NEW k \in Strips, TurnPot(k)
         PROVE  TypeOK'
    BY <2>21 DEF TurnPot, TypeOK
  <2>22. CASE UNCHANGED vars
    BY <2>22 DEF vars, TypeOK
  <2> QED
    BY <2>1, <2>2, <2>3, <2>4, <2>5, <2>6, <2>7, <2>8, <2>9, <2>10, <2>11, <2>12, <2>13, <2>14,
       <2>15, <2>16, <2>17, <2>18, <2>19, <2>20, <2>21, <2>22
       DEF Next, MainStep, AppStep, MqttStep, TempStep, Environment
<1> QED
  BY <1>1, <1>2, PotInRangeStep, PTL DEF Spec

\* The variables of the program stay within their types (application.cpp), for
\* any number of strips, any readings and whatever a message contains.
THEOREM TypeCorrect == Spec => []TypeOK
<1>1. TypeOK /\ PotInRange => TypeOK
  OBVIOUS
<1> QED
  BY <1>1, TypesAndPercentages, PTL

\* The application thread asks set_led_brightness for percentages only: no
\* reading of a potmeter takes map (application.cpp) out of 0 to 100.
THEOREM AsksForPercentages == Spec => []PotInRange
<1>1. TypeOK /\ PotInRange => PotInRange
  OBVIOUS
<1> QED
  BY <1>1, TypesAndPercentages, PTL

-----------------------------------------------------------------------------
(* The mutex and the display.                                              *)

\* Only the holder of the mutex is in a drawing that setup did not do.
HolderDraws == \A t \in Threads : pc[t] = "draw" <=> mutex = t

\* Which threads setup has yet to start.
NotStarted ==
    /\ pc["main"] = "boot" => pc["mqtt"] = "none"
    /\ pc["main"] \in {"boot", "handlers", "items", "start"} => pc["app"] = "none" /\ pc["temp"] = "none"

MutexInv == TypeOK /\ HolderDraws /\ NotStarted

\* Initially no thread draws.
LEMMA MutexInit == Init => HolderDraws /\ NotStarted
BY DEF Init, HolderDraws, NotStarted, Threads, Writers

\* A thread that passes from one place to another without touching the mutex
\* leaves the others where they are.
LEMMA MutexGo ==
    ASSUME MutexInv, NEW t \in Threads, NEW from \in Control, NEW to \in Control,
           Go(t, from, to), mutex' = mutex,
           from # "draw", to # "draw", from # "none", from # "boot", to # "boot",
           t = "main" /\ to \in {"boot", "handlers", "items", "start"} => from \in {"handlers", "items"}
    PROVE  HolderDraws' /\ NotStarted'
<1>1. HolderDraws'
  BY DEF MutexInv, HolderDraws, Go, TypeOK
<1>2. NotStarted'
  BY DEF MutexInv, NotStarted, Go, TypeOK, Threads, Writers
<1> QED
  BY <1>1, <1>2

\* Locking and unlocking keep the holder the one that draws.
LEMMA MutexLock ==
    ASSUME MutexInv, NEW t \in Threads, NEW from \in {"lock", "loop", "measure"},
           Go(t, from, "draw"), LockDisplay(t)
    PROVE  HolderDraws' /\ NotStarted'
<1>1. HolderDraws'
  BY DEF MutexInv, HolderDraws, Go, TypeOK, LockDisplay, Threads, Writers
<1>2. NotStarted'
  BY DEF MutexInv, NotStarted, Go, TypeOK, Threads, Writers
<1> QED
  BY <1>1, <1>2

LEMMA MutexUnlock ==
    ASSUME MutexInv, NEW t \in Threads, NEW to \in Control \ {"draw", "none", "boot", "handlers", "items", "start"},
           Go(t, "draw", to), UnlockDisplay(t)
    PROVE  HolderDraws' /\ NotStarted'
<1>1. HolderDraws'
  BY DEF MutexInv, HolderDraws, Go, TypeOK, UnlockDisplay, Threads, Writers
<1>2. NotStarted'
  BY DEF MutexInv, NotStarted, Go, TypeOK, Threads, Writers
<1> QED
  BY <1>1, <1>2

\* The mutex invariant is preserved by every step of the program.
LEMMA MutexStep == MutexInv /\ TypeOK' /\ [Next]_vars => MutexInv'
<1> SUFFICES ASSUME MutexInv, TypeOK', [Next]_vars PROVE HolderDraws' /\ NotStarted'
  BY DEF MutexInv
<1> USE DEF Control, Threads, Writers
<1>1. CASE ConnectToBroker
  BY <1>1 DEF ConnectToBroker, MutexInv, HolderDraws, NotStarted, TypeOK
<1>2. CASE AddMessageHandler
  <2>1. Go("main", "handlers", "handlers") \/ Go("main", "handlers", "items")
    BY <1>2 DEF AddMessageHandler, NextStrip
  <2> QED
    BY <1>2, <2>1, MutexGo DEF AddMessageHandler
<1>3. CASE AddItem
  <2>1. Go("main", "items", "items") \/ Go("main", "items", "start")
    BY <1>3 DEF AddItem, NextStrip
  <2> QED
    BY <1>3, <2>1, MutexGo DEF AddItem
<1>4. CASE StartThreads
  BY <1>4 DEF StartThreads, MutexInv, HolderDraws, NotStarted, TypeOK
<1>5. CASE LoopLock \/ MeasureLock
  BY <1>5, MutexLock DEF LoopLock, MeasureLock
<1>6. CASE LoopShow \/ MeasureShow
  BY <1>6, MutexUnlock DEF LoopShow, MeasureShow
<1>7. CASE EnableGraph
  BY <1>7, MutexGo DEF EnableGraph
<1>8. CASE ReadSwitchOn \/ ReadSwitchOff
  BY <1>8, MutexGo DEF ReadSwitchOn, ReadSwitchOff
<1>9. CASE ShowZero
  <2>1. Go("app", "draw", "light") \/ Go("app", "draw", "switch")
    BY <1>9 DEF ShowZero, NextStrip
  <2> QED
    BY <1>9, <2>1, MutexUnlock DEF ShowZero, Show
<1>10. CASE PotMoved
  BY <1>10, MutexGo DEF PotMoved
<1>11. CASE PotSteady
  <2>1. Go("app", "check", "check") \/ Go("app", "check", "switch")
    BY <1>11 DEF PotSteady, NextStrip
  <2> QED
    BY <1>11, <2>1, MutexGo DEF PotSteady
<1>12. CASE ShowPot
  <2>1. Go("app", "draw", "check") \/ Go("app", "draw", "switch")
    BY <1>12 DEF ShowPot, NextStrip
  <2> QED
    BY <1>12, <2>1, MutexUnlock DEF ShowPot, Show
<1>13. CASE Receive \/ CallbackReturns
  BY <1>13, MutexGo DEF Receive, CallbackReturns
<1>14. ASSUME NEW k \in Strips, CallHandler(k) \/ SkipField(k)
       PROVE  HolderDraws' /\ NotStarted'
  BY <1>14, MutexGo DEF CallHandler, SkipField
<1>15. CASE ShowCommand
  BY <1>15, MutexUnlock DEF ShowCommand, Show
<1>16. ASSUME NEW w \in Writers, Light(w)
       PROVE  HolderDraws' /\ NotStarted'
  <2>1. w \in Threads /\ w # "main" /\ Go(w, "light", "lock") /\ mutex' = mutex
    BY <1>16 DEF Light
  <2> QED
    BY <2>1, MutexGo
<1>17. ASSUME NEW w \in Writers, Lock(w)
       PROVE  HolderDraws' /\ NotStarted'
  BY <1>17, MutexLock DEF Lock
<1>18. CASE UNCHANGED <<pc, mutex>>
  BY <1>18 DEF MutexInv, HolderDraws, NotStarted
<1>19. Environment \/ UNCHANGED vars => UNCHANGED <<pc, mutex>>
  BY DEF Environment, FlipSwitch, TurnPot, vars, threadVars
<1> QED
  BY <1>1, <1>2, <1>3, <1>4, <1>5, <1>6, <1>7, <1>8, <1>9, <1>10, <1>11, <1>12, <1>13, <1>14,
     <1>15, <1>16, <1>17, <1>18, <1>19
     DEF Next, MainStep, AppStep, MqttStep, TempStep

\* The mutex invariant holds throughout.
LEMMA MutexAlways == Spec => []MutexInv
<1>1. Init /\ TypeOK => MutexInv
  BY MutexInit DEF MutexInv
<1> QED
  BY <1>1, TypesAndPercentages, MutexStep, PTL DEF Spec

\* Once setup is over and the graph enabled, only the holder of display_mutex
\* draws on the display (application.cpp:70, 197 and 300).
THEOREM DisplayExclusive == Spec => []TftExclusive
<1>1. MutexInv => TftExclusive
  BY DEF MutexInv, HolderDraws, TftExclusive, Drawing, TypeOK, Threads, Writers
<1> QED
  BY <1>1, MutexAlways, PTL

-----------------------------------------------------------------------------
(* The previous values of the potmeters.                                   *)

PrevInv == TypeOK /\ NotStarted /\ PrevLink /\ PrevTracks

\* Steps that leave the application thread and the strips alone.
LEMMA PrevUntouched ==
    ASSUME PrevInv, pc'["app"] = pc["app"], at'["app"] = at["app"], val'["app"] = val["app"],
           UNCHANGED <<strip, writer, prev, backlight>>
    PROVE  PrevLink' /\ PrevTracks'
BY DEF PrevInv, PrevLink, PrevTracks

\* The steps of the main, MQTT and temperature threads, the environment's and
\* the stuttering steps are of that kind, but for two.
LEMMA PrevOthers ==
    ASSUME PrevInv,
           \/ ConnectToBroker \/ AddMessageHandler \/ AddItem \/ LoopLock \/ LoopShow
           \/ Receive \/ (\E k \in Strips : CallHandler(k) \/ SkipField(k))
           \/ ShowCommand \/ CallbackReturns \/ Lock("mqtt")
           \/ TempStep \/ MeasureLock \/ Environment \/ UNCHANGED vars
    PROVE  PrevLink' /\ PrevTracks'
<1> USE DEF threadVars, ledVars, envVars, Go, NextStrip, Show
<1> SUFFICES /\ pc'["app"] = pc["app"] /\ at'["app"] = at["app"] /\ val'["app"] = val["app"]
             /\ UNCHANGED <<strip, writer, prev, backlight>>
  BY PrevUntouched
<1>t. "app" \in Threads /\ "app" \in Writers
  BY DEF Threads, Writers
<1>1. CASE ConnectToBroker \/ AddMessageHandler \/ AddItem
  BY <1>1, <1>t DEF ConnectToBroker, AddMessageHandler, AddItem, PrevInv, TypeOK
<1>2. CASE LoopLock \/ LoopShow \/ TempStep \/ MeasureLock
  BY <1>2, <1>t DEF LoopLock, LoopShow, TempStep, EnableGraph, MeasureShow, MeasureLock, PrevInv, TypeOK
<1>3. CASE Receive \/ ShowCommand \/ CallbackReturns \/ Lock("mqtt")
  BY <1>3, <1>t DEF Receive, ShowCommand, CallbackReturns, Lock, PrevInv, TypeOK
<1>4. ASSUME NEW k \in Strips, CallHandler(k) \/ SkipField(k)
      PROVE  /\ pc'["app"] = pc["app"] /\ at'["app"] = at["app"] /\ val'["app"] = val["app"]
             /\ UNCHANGED <<strip, writer, prev, backlight>>
  BY <1>4, <1>t DEF CallHandler, SkipField, PrevInv, TypeOK
<1>5. CASE Environment \/ UNCHANGED vars
  BY <1>5 DEF Environment, FlipSwitch, TurnPot, vars
<1> QED
  BY <1>1, <1>2, <1>3, <1>4, <1>5

\* The link between the previous values and the strips survives every step.
LEMMA PrevStep == PrevInv /\ MutexInv' /\ [Next]_vars => PrevInv'
<1> SUFFICES ASSUME PrevInv, [Next]_vars PROVE PrevLink' /\ PrevTracks'
  BY DEF PrevInv, MutexInv
<1> USE DEF threadVars, ledVars, envVars, Go
<1>t. "app" \in Threads /\ "app" \in Writers /\ "mqtt" \in Threads /\ "mqtt" \in Writers
  BY DEF Threads, Writers
<1>1. CASE StartThreads
  <2>1. /\ pc'["app"] = "switch" /\ pc["app"] = "none"
        /\ UNCHANGED <<at, val, strip, writer, prev, backlight>>
    BY <1>1, <1>t DEF StartThreads, PrevInv, NotStarted, TypeOK
  <2> QED
    BY <2>1 DEF PrevInv, PrevLink, PrevTracks
<1>2. CASE ReadSwitchOn
  <2>1. /\ pc["app"] = "switch" /\ pc'["app"] = "check" /\ backlight' = TRUE
        /\ UNCHANGED <<at, val, strip, writer, prev>>
    BY <1>2, <1>t DEF ReadSwitchOn, PrevInv, TypeOK
  <2> QED
    BY <2>1 DEF PrevInv, PrevLink, PrevTracks
<1>3. CASE ReadSwitchOff
  <2>1. /\ pc["app"] = "switch" /\ pc'["app"] = "light" /\ backlight' = FALSE /\ val'["app"] = 0
        /\ UNCHANGED <<at, strip, writer, prev>>
    BY <1>3, <1>t DEF ReadSwitchOff, PrevInv, TypeOK
  <2> QED
    BY <2>1 DEF PrevInv, PrevLink, PrevTracks, Strips
<1>4. CASE ShowZero
  <2>1. /\ pc["app"] = "draw" /\ ~backlight /\ backlight' = backlight
        /\ UNCHANGED <<val, strip, writer>>
    BY <1>4 DEF ShowZero, NextStrip
  <2>2. val["app"] = 0 /\ \A k \in Strips : k <= at["app"] /\ writer[k] = "app" => strip[k] = PwmWidth(0)
    <3>1. \A k \in Strips : k <= at["app"] => k < at["app"] \/ k = at["app"]
      BY <1>t DEF PrevInv, TypeOK, Strips
    <3> QED
      BY <2>1, <3>1 DEF PrevInv, PrevLink
  <2>3. CASE at["app"] = N
    <3>1. pc'["app"] = "switch" /\ at'["app"] = 1 /\ prev' = [k \in Strips |-> 0]
      BY <1>4, <1>t, <2>3 DEF ShowZero, NextStrip, PrevInv, TypeOK
    <3>2. \A k \in Strips : k <= at["app"]
      BY <2>3, NAssumption DEF Strips
    <3> QED
      BY <2>1, <2>2, <3>1, <3>2 DEF PrevLink, PrevTracks
  <2>4. CASE at["app"] # N
    <3>1. pc'["app"] = "light" /\ at'["app"] = at["app"] + 1
      BY <1>4, <1>t, <2>4 DEF ShowZero, NextStrip, PrevInv, TypeOK
    <3>2. \A k \in Strips : k < at["app"] + 1 => k <= at["app"]
      BY <1>t DEF PrevInv, TypeOK, Strips
    <3> QED
      BY <2>1, <2>2, <3>1, <3>2 DEF PrevLink, PrevTracks
  <2> QED
    BY <2>3, <2>4
<1>5. CASE PotMoved
  <2>1. /\ pc["app"] = "check" /\ pc'["app"] = "light"
        /\ UNCHANGED <<at, strip, writer, prev, backlight>>
    BY <1>5, <1>t DEF PotMoved, PrevInv, TypeOK
  <2> QED
    BY <2>1 DEF PrevInv, PrevLink, PrevTracks
<1>6. CASE PotSteady
  <2>1. /\ pc["app"] = "check"
        /\ pc'["app"] = "check" \/ (pc'["app"] = "switch" /\ at'["app"] = 1)
        /\ UNCHANGED <<val, strip, writer, prev, backlight>>
    <3>1. CASE at["app"] = N
      BY <1>6, <1>t, <3>1 DEF PotSteady, NextStrip, PrevInv, TypeOK
    <3>2. CASE at["app"] # N
      BY <1>6, <1>t, <3>2 DEF PotSteady, NextStrip, PrevInv, TypeOK
    <3> QED
      BY <3>1, <3>2
  <2> QED
    BY <2>1 DEF PrevInv, PrevLink, PrevTracks
<1>7. CASE ShowPot
  <2>1. /\ pc["app"] = "draw" /\ backlight /\ backlight' = backlight
        /\ pc'["app"] = "check" \/ (pc'["app"] = "switch" /\ at'["app"] = 1)
        /\ prev' = [prev EXCEPT ![at["app"]] = val["app"]]
        /\ UNCHANGED <<strip, writer>>
    <3>1. CASE at["app"] = N
      BY <1>7, <1>t, <3>1 DEF ShowPot, NextStrip, PrevInv, TypeOK
    <3>2. CASE at["app"] # N
      BY <1>7, <1>t, <3>2 DEF ShowPot, NextStrip, PrevInv, TypeOK
    <3> QED
      BY <3>1, <3>2
  <2>2. \A k \in Strips : prev'[k] = IF k = at["app"] THEN val["app"] ELSE prev[k]
    BY <2>1 DEF PrevInv, TypeOK
  <2>3. \A k \in Strips : writer[k] = "app" => strip[k] = PwmWidth(prev'[k])
    BY <2>1, <2>2 DEF PrevInv, PrevLink, PrevTracks
  <2> QED
    BY <2>1, <2>3 DEF PrevLink, PrevTracks
<1>8. CASE Light("app")
  <2>1. /\ pc["app"] = "light" /\ pc'["app"] = "lock"
        /\ UNCHANGED <<at, val, prev, backlight>>
    BY <1>8, <1>t DEF Light, PrevInv, TypeOK
  <2>2. \A k \in Strips : strip'[k] = IF k = at["app"] THEN PwmWidth(val["app"]) ELSE strip[k]
    BY <1>8 DEF Light, PrevInv, TypeOK
  <2>3. \A k \in Strips : k # at["app"] => writer'[k] = writer[k]
    BY <1>8 DEF Light, PrevInv, TypeOK
  <2>4. at["app"] \in Strips
    BY <1>t DEF PrevInv, TypeOK
  <2>5. \A k \in Strips : k < at["app"] => k # at["app"]
    BY <2>4 DEF Strips
  <2>6. PrevLink'
    BY <2>1, <2>2, <2>3, <2>4, <2>5 DEF PrevInv, PrevLink
  <2>7. PrevTracks'
    BY <2>1, <2>2, <2>3 DEF PrevInv, PrevTracks
  <2> QED
    BY <2>6, <2>7
<1>9. CASE Light("mqtt")
  <2>1. /\ pc'["app"] = pc["app"] /\ UNCHANGED <<at, val, prev, backlight>>
    BY <1>9, <1>t DEF Light, PrevInv, TypeOK
  <2>2. \A k \in Strips : writer'[k] = "app" => writer[k] = "app" /\ strip'[k] = strip[k]
    BY <1>9, <1>t DEF Light, PrevInv, TypeOK
  <2>4. at["app"] \in Strips
    BY <1>t DEF PrevInv, TypeOK
  <2>5. PrevLink'
    BY <2>1, <2>2, <2>4 DEF PrevInv, PrevLink
  <2>6. PrevTracks'
    BY <2>1, <2>2 DEF PrevInv, PrevTracks
  <2> QED
    BY <2>5, <2>6
<1>10. CASE Lock("app")
  <2>1. /\ pc["app"] = "lock" /\ pc'["app"] = "draw"
        /\ UNCHANGED <<at, val, strip, writer, prev, backlight>>
    BY <1>10, <1>t DEF Lock, PrevInv, TypeOK
  <2> QED
    BY <2>1 DEF PrevInv, PrevLink, PrevTracks
<1>11. (\E w \in Writers : Light(w) \/ Lock(w)) =>
           Light("app") \/ Lock("app") \/ Light("mqtt") \/ Lock("mqtt")
  BY DEF Writers
<1> QED
  BY <1>1, <1>2, <1>3, <1>4, <1>5, <1>6, <1>7, <1>8, <1>9, <1>10, <1>11, PrevOthers
     DEF Next, MainStep, AppStep, MqttStep

\* What potmeter_check compares a reading with (application.cpp:89) is the
\* brightness the application thread last gave the strip.
THEOREM PreviousTracks == Spec => []PrevTracks
<1>1. Init => PrevLink /\ PrevTracks
  BY DEF Init, PrevLink, PrevTracks, Threads, Writers
<1>2. Init /\ MutexInv => PrevInv
  BY <1>1 DEF PrevInv, MutexInv
<1>3. PrevInv => PrevTracks
  BY DEF PrevInv
<1> QED
  BY <1>2, <1>3, MutexAlways, PrevStep, PTL DEF Spec

-----------------------------------------------------------------------------
(* The program implements the led panel.                                   *)

\* The facts the refinement rests on.
ImplInv == TypeOK /\ NotStarted

\* Steps that leave the strips, the display and the requests alone.
LEMMA PanelStutter ==
    ASSUME UNCHANGED <<strip, shown, raced>>, Requested' = Requested
    PROVE  UNCHANGED Panel!panelVars
BY DEF Panel!panelVars

\* A writer that neither begins nor ends a request, and whose strip and
\* brightness stay the same while it has one, requests what it did before.
LEMMA RequestedSame ==
    ASSUME \A w \in Writers :
               /\ pc'[w] \in {"lock", "draw"} <=> pc[w] \in {"lock", "draw"}
               /\ pc[w] \in {"lock", "draw"} => at'[w] = at[w] /\ val'[w] = val[w]
    PROVE  Requested' = Requested
BY DEF Requested

\* The program's requests are those the panel counts as awaiting the display.
LEMMA AwaitsIsPending ==
    ASSUME TypeOK, NEW w \in Writers, NEW k \in Strips
    PROVE  Panel!Awaits(w, k) <=> Pending(w, k)
BY DEF Panel!Awaits, Requested, Pending, TypeOK

\* The end of set_led_brightness is the panel's Display.
LEMMA ShowDisplays ==
    ASSUME ImplInv, NEW w \in Writers, pc[w] = "draw", Show(w),
           pc'[w] \notin {"lock", "draw"},
           \A u \in Writers \ {w} : pc'[u] = pc[u] /\ at'[u] = at[u],
           UNCHANGED <<strip, raced, val>>
    PROVE  Panel!PanelNext
<1> DEFINE k == at[w]  b == val[w]
<1>1. k \in Strips /\ b \in Brightness
  BY DEF ImplInv, TypeOK, Threads
<1>2. Requested[w] = {<<k, b>>}
  BY DEF Requested
<1>3. Requested' = [Requested EXCEPT ![w] = {}]
  BY DEF Requested
<1>4. Panel!Display(w, k, b)
  BY <1>2, <1>3 DEF Panel!Display, Show
<1> QED
  BY <1>1, <1>4 DEF Panel!PanelNext

\* Every step of the program is one of the panel or leaves it alone.
LEMMA PanelStep == ImplInv /\ [Next]_vars => [Panel!PanelNext]_Panel!panelVars
<1> SUFFICES ASSUME ImplInv, [Next]_vars PROVE [Panel!PanelNext]_Panel!panelVars
  OBVIOUS
<1> USE DEF threadVars, ledVars, envVars, Go
<1>t. "app" \in Threads /\ "mqtt" \in Threads /\ "temp" \in Threads /\ "main" \in Threads
      /\ "app" \in Writers /\ "mqtt" \in Writers
      /\ \A w \in Writers : w \in Threads /\ w # "main" /\ w # "temp"
  BY DEF Threads, Writers
<1>1. CASE ConnectToBroker \/ StartThreads
  <2>1. Requested' = Requested
    BY <1>1, <1>t, RequestedSame DEF ConnectToBroker, StartThreads, ImplInv, NotStarted, TypeOK, Writers
  <2> QED
    BY <1>1, <2>1, PanelStutter DEF ConnectToBroker, StartThreads
<1>2. CASE AddMessageHandler
  <2>1. Requested' = Requested
    BY <1>2, <1>t, RequestedSame DEF AddMessageHandler, NextStrip, ImplInv, TypeOK
  <2> QED
    BY <1>2, <2>1, PanelStutter DEF AddMessageHandler
<1>3. CASE AddItem
  <2>1. Requested' = Requested
    BY <1>3, <1>t, RequestedSame DEF AddItem, NextStrip, ImplInv, TypeOK
  <2>2. at["main"] \in Strips
    BY <1>t DEF ImplInv, TypeOK
  <2>3. Panel!Blank(at["main"])
    BY <1>3, <2>1 DEF AddItem, Panel!Blank
  <2> QED
    BY <2>2, <2>3 DEF Panel!PanelNext
<1>4. CASE LoopLock \/ LoopShow \/ TempStep \/ MeasureLock
  <2>1. Requested' = Requested
    BY <1>4, <1>t, RequestedSame
       DEF LoopLock, LoopShow, TempStep, EnableGraph, MeasureShow, MeasureLock, ImplInv, TypeOK
  <2> QED
    BY <1>4, <2>1, PanelStutter DEF LoopLock, LoopShow, TempStep, EnableGraph, MeasureShow, MeasureLock
<1>5. CASE ReadSwitchOn \/ ReadSwitchOff \/ PotMoved
  <2>1. Requested' = Requested
    BY <1>5, <1>t, RequestedSame DEF ReadSwitchOn, ReadSwitchOff, PotMoved, ImplInv, TypeOK, Writers
  <2> QED
    BY <1>5, <2>1, PanelStutter DEF ReadSwitchOn, ReadSwitchOff, PotMoved
<1>6. CASE PotSteady
  <2>1. Requested' = Requested
    BY <1>6, <1>t, RequestedSame DEF PotSteady, NextStrip, ImplInv, TypeOK, Writers
  <2> QED
    BY <1>6, <2>1, PanelStutter DEF PotSteady
<1>7. CASE ShowZero
  <2>1. pc'["app"] \notin {"lock", "draw"}
    BY <1>7, <1>t DEF ShowZero, NextStrip, ImplInv, TypeOK
  <2>2. \A u \in Writers \ {"app"} : pc'[u] = pc[u] /\ at'[u] = at[u]
    BY <1>7, <1>t DEF ShowZero, NextStrip, ImplInv, TypeOK
  <2> QED
    BY <1>7, <1>t, <2>1, <2>2, ShowDisplays DEF ShowZero, NextStrip
<1>8. CASE ShowPot
  <2>1. pc'["app"] \notin {"lock", "draw"}
    BY <1>8, <1>t DEF ShowPot, NextStrip, ImplInv, TypeOK
  <2>2. \A u \in Writers \ {"app"} : pc'[u] = pc[u] /\ at'[u] = at[u]
    BY <1>8, <1>t DEF ShowPot, NextStrip, ImplInv, TypeOK
  <2> QED
    BY <1>8, <1>t, <2>1, <2>2, ShowDisplays DEF ShowPot, NextStrip
<1>9. CASE Receive \/ CallbackReturns
  <2>1. Requested' = Requested
    BY <1>9, <1>t, RequestedSame DEF Receive, CallbackReturns, ImplInv, TypeOK, Writers
  <2> QED
    BY <1>9, <2>1, PanelStutter DEF Receive, CallbackReturns
<1>10. ASSUME NEW k \in Strips, CallHandler(k) \/ SkipField(k)
       PROVE  [Panel!PanelNext]_Panel!panelVars
  <2>1. Requested' = Requested
    BY <1>10, <1>t, RequestedSame DEF CallHandler, SkipField, ImplInv, TypeOK, Writers
  <2> QED
    BY <1>10, <2>1, PanelStutter DEF CallHandler, SkipField
<1>11. CASE ShowCommand
  <2>1. pc'["mqtt"] \notin {"lock", "draw"}
    BY <1>11, <1>t DEF ShowCommand, ImplInv, TypeOK
  <2>2. \A u \in Writers \ {"mqtt"} : pc'[u] = pc[u] /\ at'[u] = at[u]
    BY <1>11, <1>t DEF ShowCommand, ImplInv, TypeOK
  <2> QED
    BY <1>11, <1>t, <2>1, <2>2, ShowDisplays DEF ShowCommand
<1>12. ASSUME NEW w \in Writers, Light(w)
       PROVE  [Panel!PanelNext]_Panel!panelVars
  <2> DEFINE k == at[w]  b == val[w]
  <2>1. k \in Strips /\ b \in Brightness
    BY <1>t DEF ImplInv, TypeOK
  <2>2. Requested[w] = {}
    BY <1>12 DEF Light, Requested
  <2>3. \A u \in Writers : pc'[u] = IF u = w THEN "lock" ELSE pc[u]
    BY <1>12, <1>t DEF Light, ImplInv, TypeOK
  <2>4. at' = at /\ val' = val
    BY <1>12 DEF Light
  <2>5. Requested' = [Requested EXCEPT ![w] = {<<k, b>>}]
    BY <2>3, <2>4 DEF Requested
  <2>6. (\E u \in Writers \ {w} : Pending(u, k)) <=> (\E u \in Writers \ {w} : Panel!Awaits(u, k))
    BY <2>1, AwaitsIsPending DEF ImplInv
  <2>7. raced' = [raced EXCEPT ![k] = \E u \in Writers \ {w} : Panel!Awaits(u, k)]
    BY <1>12, <2>6 DEF Light
  <2>8. Panel!Request(w, k, b)
    <3>1. strip' = [strip EXCEPT ![k] = Panel!PwmWidth(b)] /\ shown' = shown
      BY <1>12 DEF Light, PwmWidth, Panel!PwmWidth, uint8, Panel!uint8, map, Panel!map, TruncDiv, Panel!TruncDiv
    <3> HIDE DEF k, b
    <3> QED
      BY <2>2, <2>5, <2>7, <3>1 DEF Panel!Request
  <2> QED
    BY <2>1, <2>8 DEF Panel!PanelNext
<1>13. ASSUME NEW w \in Writers, Lock(w)
       PROVE  [Panel!PanelNext]_Panel!panelVars
  <2>1. Requested' = Requested
    BY <1>13, <1>t, RequestedSame DEF Lock, ImplInv, TypeOK
  <2> QED
    BY <1>13, <2>1, PanelStutter DEF Lock
<1>14. CASE Environment \/ UNCHANGED vars
  <2>1. UNCHANGED <<pc, at, val, strip, shown, raced>>
    BY <1>14 DEF Environment, FlipSwitch, TurnPot, vars
  <2> QED
    BY <2>1, PanelStutter DEF Requested
<1> QED
  BY <1>1, <1>2, <1>3, <1>4, <1>5, <1>6, <1>7, <1>8, <1>9, <1>10, <1>11, <1>12, <1>13, <1>14
     DEF Next, MainStep, AppStep, MqttStep

\* The program implements the led panel: every set_led_brightness lights its
\* strip once and then shows the same brightness once (application.cpp:63).
THEOREM Implements == Spec => ImplementsPanel
<1>1. Init => Panel!PanelInit
  BY DEF Init, Panel!PanelInit, Requested, Threads, Writers
<1>2. MutexInv => ImplInv
  BY DEF MutexInv, ImplInv
<1> QED
  BY <1>1, <1>2, MutexAlways, PanelStep, PTL DEF Spec, ImplementsPanel, Panel!PanelSpec

\* The display agrees with the strips, overlapping requests apart: inherited
\* from the panel.
THEOREM DisplayAgrees == Spec => []ShownAgrees
<1>1. Panel!PanelSpec => []Panel!ShownAgrees
  BY Panel!PanelShownAgrees
<1> QED
  BY <1>1, Implements, PTL DEF ImplementsPanel, ShownAgrees
=============================================================================
