------------------------------ MODULE LedPanel ------------------------------
(***************************************************************************)
(* What the led panel promises, whoever uses it: a request for a           *)
(* brightness lights the strip at once and reaches the display later, the  *)
(* requests of different writers may overlap, and the display may be       *)
(* blanked.  The threads of the firmware, their program and the mutex are  *)
(* absent: LedControl implements this specification.                       *)
(***************************************************************************)
EXTENDS LedArith, TLAPS

CONSTANTS
    Strips,      \* the led strips
    Writers,     \* those who ask for a brightness
    Brightness   \* what they ask for, in percent: any int the program can come to

VARIABLES
    strip,       \* strip[k]: the PWM width on the pin of strip k
    shown,       \* shown[k]: {b} when the display says b for strip k, {} when it says "-"
    pending,     \* pending[w]: the request {<<k, b>>} of w that the display has yet to show, or {}
    raced        \* raced[k]: a request for k was made while another one for k was pending

panelVars == <<strip, shown, pending, raced>>

\* The shapes of the variables; what a width is, only LedArith knows.
PanelTypes ==
    /\ DOMAIN strip = Strips /\ strip = [k \in Strips |-> strip[k]]
    /\ shown \in [Strips -> SUBSET Brightness]
    /\ pending \in [Writers -> SUBSET (Strips \X Brightness)]
    /\ raced \in [Strips -> BOOLEAN]

\* A request for strip k that w has made is yet to be shown.
Awaits(w, k) == \E b \in Brightness : <<k, b>> \in pending[w]

-----------------------------------------------------------------------------
PanelInit ==
    /\ strip = [k \in Strips |-> 0]
    /\ shown = [k \in Strips |-> {}]
    /\ pending = [w \in Writers |-> {}]
    /\ raced = [k \in Strips |-> FALSE]

\* w asks for brightness b on strip k, and the strip is lit with it.
Request(w, k, b) ==
    /\ pending[w] = {}
    /\ strip' = [strip EXCEPT ![k] = PwmWidth(b)]
    /\ pending' = [pending EXCEPT ![w] = {<<k, b>>}]
    /\ raced' = [raced EXCEPT ![k] = \E u \in Writers \ {w} : Awaits(u, k)]
    /\ UNCHANGED shown

\* The display shows what w asked for.
Display(w, k, b) ==
    /\ pending[w] = {<<k, b>>}
    /\ shown' = [shown EXCEPT ![k] = {b}]
    /\ pending' = [pending EXCEPT ![w] = {}]
    /\ UNCHANGED <<strip, raced>>

\* The item of strip k is put on the display afresh.
Blank(k) ==
    /\ shown' = [shown EXCEPT ![k] = {}]
    /\ UNCHANGED <<strip, pending, raced>>

PanelNext ==
    \/ \E w \in Writers, k \in Strips, b \in Brightness : Request(w, k, b)
    \/ \E w \in Writers, k \in Strips, b \in Brightness : Display(w, k, b)
    \/ \E k \in Strips : Blank(k)

PanelSpec == PanelInit /\ [][PanelNext]_panelVars

-----------------------------------------------------------------------------
\* No request for strip k is waiting for the display.
Settled(k) == \A w \in Writers : ~Awaits(w, k)

(***************************************************************************)
(* Once the display has caught up with a strip, it says the brightness the *)
(* strip is lit with, unless two requests for the strip overlapped since   *)
(* the strip last settled: analogWrite is called before the mutex of the   *)
(* display is taken, so that overlapping requests may reach the strip in   *)
(* one order and the display in the other.                                 *)
(***************************************************************************)
ShownAgrees ==
    \A k \in Strips :
        Settled(k) /\ ~raced[k] => \A b \in shown[k] : strip[k] = PwmWidth(b)

(***************************************************************************)
(* Why ShownAgrees is invariant: the requests pending for a strip that is  *)
(* not raced are one at most, and the strip is lit with it.                *)
(***************************************************************************)
OneRequest == \A w \in Writers : \A p, q \in pending[w] : p = q

UnracedPending ==
    \A k \in Strips : ~raced[k] =>
        /\ \A w \in Writers : \A b \in Brightness :
               <<k, b>> \in pending[w] => strip[k] = PwmWidth(b)
        /\ \A u, w \in Writers : Awaits(u, k) /\ Awaits(w, k) => u = w

PanelInv == PanelTypes /\ OneRequest /\ UnracedPending /\ ShownAgrees

\* For any strips, writers and brightnesses, an implementation of the panel
\* shows what a strip is lit with once it has caught up, overlaps apart
\* (set_led_brightness, application.cpp:63).
THEOREM PanelShownAgrees == PanelSpec => []ShownAgrees
<1>1. PanelInit => PanelInv
  BY DEF PanelInit, PanelInv, PanelTypes, OneRequest, UnracedPending, ShownAgrees, Awaits
<1>2. PanelInv /\ [PanelNext]_panelVars => PanelInv'
  <2> SUFFICES ASSUME PanelInv, [PanelNext]_panelVars PROVE PanelInv'
    OBVIOUS
  <2> USE DEF PanelInv
  <2>1. ASSUME NEW w \in Writers, NEW k \in Strips, NEW b \in Brightness, Request(w, k, b)
        PROVE  PanelInv'
    <3>1. PanelTypes' /\ OneRequest'
      BY <2>1 DEF Request, PanelTypes, OneRequest
    <3>2. pending' = [pending EXCEPT ![w] = {<<k, b>>}]
      BY <2>1 DEF Request
    <3>3. \A u \in Writers : \A j \in Strips : j # k => (Awaits(u, j)' => Awaits(u, j))
      BY <3>2 DEF Awaits, PanelTypes
    <3>4. \A u \in Writers : \A j \in Strips : u # w => (Awaits(u, j)' <=> Awaits(u, j))
      BY <3>2 DEF Awaits, PanelTypes
    <3>5. Awaits(w, k)'
      BY <3>2 DEF Awaits, PanelTypes
    <3>6. \A u \in Writers : u # w /\ ~raced'[k] => ~Awaits(u, k)
      BY <2>1 DEF Request, PanelTypes
    <3>7. \A j \in Strips : j # k => strip'[j] = strip[j] /\ raced'[j] = raced[j]
      BY <2>1 DEF Request, PanelTypes
    <3>8. strip'[k] = PwmWidth(b) /\ shown' = shown
      BY <2>1 DEF Request, PanelTypes
    <3>9. UnracedPending'
      <4> SUFFICES ASSUME NEW j \in Strips, ~raced'[j]
                   PROVE  /\ \A u \in Writers : \A c \in Brightness :
                                 <<j, c>> \in pending'[u] => strip'[j] = PwmWidth(c)
                          /\ \A u, v \in Writers : Awaits(u, j)' /\ Awaits(v, j)' => u = v
        BY DEF UnracedPending
      <4>1. CASE j = k
        <5>1. \A u \in Writers : u # w => ~Awaits(u, k)'
          BY <3>4, <3>6, <4>1
        <5>2. \A c \in Brightness : <<k, c>> \in pending'[w] => c = b
          BY <3>2 DEF PanelTypes
        <5>3. \A u \in Writers : \A c \in Brightness : <<k, c>> \in pending'[u] => u = w
          BY <5>1 DEF Awaits
        <5> QED
          BY <3>8, <4>1, <5>1, <5>2, <5>3
      <4>2. CASE j # k
        <5>1. \A u \in Writers : \A c \in Brightness : <<j, c>> \in pending'[u] => <<j, c>> \in pending[u]
          BY <3>2, <4>2 DEF PanelTypes
        <5> QED
          BY <3>3, <3>7, <4>2, <5>1 DEF UnracedPending
      <4> QED
        BY <4>1, <4>2
    <3>10. ShownAgrees'
      <4> SUFFICES ASSUME NEW j \in Strips, Settled(j)', ~raced'[j], NEW c \in shown'[j]
                   PROVE  strip'[j] = PwmWidth(c)
        BY DEF ShownAgrees
      <4>1. j # k
        BY <2>1, <3>5 DEF Settled
      <4>2. Settled(j)
        <5>1. ~Awaits(w, j)
          BY <2>1 DEF Request, Awaits
        <5> QED
          BY <3>4, <5>1 DEF Settled
      <4> QED
        BY <3>7, <3>8, <4>1, <4>2 DEF ShownAgrees
    <3> QED
      BY <3>1, <3>9, <3>10
  <2>2. ASSUME NEW w \in Writers, NEW k \in Strips, NEW b \in Brightness, Display(w, k, b)
        PROVE  PanelInv'
    <3>1. PanelTypes' /\ OneRequest'
      BY <2>2 DEF Display, PanelTypes, OneRequest
    <3>2. pending' = [pending EXCEPT ![w] = {}] /\ strip' = strip /\ raced' = raced
      BY <2>2 DEF Display
    <3>3. \A u \in Writers : \A j \in Strips : Awaits(u, j)' => Awaits(u, j)
      BY <3>2 DEF Awaits, PanelTypes
    <3>4. UnracedPending'
      <4>1. \A u \in Writers : \A p : p \in pending'[u] => p \in pending[u]
        BY <3>2 DEF PanelTypes
      <4> QED
        BY <3>2, <3>3, <4>1 DEF UnracedPending
    <3>5. ~raced[k] => strip[k] = PwmWidth(b)
      BY <2>2 DEF Display, UnracedPending
    <3>6. shown'[k] = {b} /\ \A j \in Strips : j # k => shown'[j] = shown[j]
      BY <2>2 DEF Display, PanelTypes
    <3>7. ShownAgrees'
      <4> SUFFICES ASSUME NEW j \in Strips, Settled(j)', ~raced'[j], NEW c \in shown'[j]
                   PROVE  strip'[j] = PwmWidth(c)
        BY DEF ShownAgrees
      <4>1. CASE j = k
        BY <3>2, <3>5, <3>6, <4>1
      <4>2. CASE j # k
        <5>1. ~Awaits(w, j)
          BY <2>2, <4>2 DEF Display, Awaits
        <5>2. \A u \in Writers : u # w => (Awaits(u, j)' <=> Awaits(u, j))
          BY <3>2 DEF Awaits, PanelTypes
        <5>3. Settled(j)
          BY <5>1, <5>2 DEF Settled
        <5> QED
          BY <3>2, <3>6, <4>2, <5>3 DEF ShownAgrees
      <4> QED
        BY <4>1, <4>2
    <3> QED
      BY <3>1, <3>4, <3>7
  <2>3. ASSUME NEW k \in Strips, Blank(k)
        PROVE  PanelInv'
    <3>1. strip' = strip /\ pending' = pending /\ raced' = raced
      BY <2>3 DEF Blank
    <3>2. PanelTypes' /\ OneRequest'
      BY <2>3 DEF Blank, PanelTypes, OneRequest
    <3>3. UnracedPending'
      BY <3>1 DEF UnracedPending, Awaits
    <3>4. \A j \in Strips : shown'[j] \subseteq shown[j]
      BY <2>3 DEF Blank, PanelTypes
    <3>5. ShownAgrees'
      BY <3>1, <3>4 DEF ShownAgrees, Settled, Awaits
    <3> QED
      BY <3>2, <3>3, <3>5
  <2>4. CASE UNCHANGED panelVars
    <3>1. strip' = strip /\ pending' = pending /\ raced' = raced /\ shown' = shown
      BY <2>4 DEF panelVars
    <3>2. PanelTypes' /\ OneRequest' /\ UnracedPending'
      <4>1. PanelTypes'
        BY <3>1 DEF PanelTypes
      <4>2. OneRequest'
        BY <3>1 DEF OneRequest
      <4>3. UnracedPending'
        BY <3>1 DEF UnracedPending, Awaits
      <4> QED
        BY <4>1, <4>2, <4>3
    <3>3. ShownAgrees'
      BY <3>1 DEF ShownAgrees, Settled, Awaits
    <3> QED
      BY <3>2, <3>3
  <2> QED
    BY <2>1, <2>2, <2>3, <2>4 DEF PanelNext
<1>3. PanelInv => ShownAgrees
  BY DEF PanelInv
<1> QED
  BY <1>1, <1>2, <1>3, PTL DEF PanelSpec
=============================================================================
