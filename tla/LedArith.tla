------------------------------ MODULE LedArith ------------------------------
(***************************************************************************)
(* The arithmetic between a control and a led strip: the wiring library's  *)
(* map, the conversions to uint8_t the application makes of its result,    *)
(* and the conversion of a JSON value to the int that set_led_brightness   *)
(* works with.                                                             *)
(***************************************************************************)
EXTENDS Integers

\* A mutated form of TruncDiv: the quotient rounded down, as TLA+ does it.
FloorDiv(a, b) == a \div b

\* Division as C does it: the quotient is truncated towards zero.
TruncDiv(a, b) == IF a >= 0 THEN a \div b ELSE -((-a) \div b)

\* uint8_t: the value modulo 2^8.
uint8(x) == x % 256

\* The values of a uint16_t.
UInt16 == {x \in Nat : x < 65536}

\* map: the linear scale of one interval onto another.
map(value, fromStart, fromEnd, toStart, toEnd) ==
    TruncDiv((value - fromStart) * (toEnd - toStart), fromEnd - fromStart) + toStart

\* The PWM width set_led_brightness gives a strip for a brightness in percent.
PwmWidth(brightness) == uint8(map(brightness, 0, 100, 0, 255))

\* The brightness potmeter_check makes of a 12-bit analogRead.
PotPercent(raw) == uint8(map(raw, 35, 4080, 0, 100))

\* What an analogRead can return.
AdcRange == 0 .. 4095

(***************************************************************************)
(* The value of a field of a JSON message.  Numbers are counted in tenths, *)
(* enough to tell an integer from a fraction; "other" stands for a string, *)
(* null, an array or an object.                                            *)
(***************************************************************************)
JsonNumber(tenths) == [type |-> "number", tenths |-> tenths]
JsonBool(b)        == [type |-> "bool", tenths |-> IF b THEN 10 ELSE 0]
JsonOther          == [type |-> "other", tenths |-> 0]

JsonValue == [type : {"number", "bool", "other"}, tenths : Int]

(***************************************************************************)
(* The ints "int brightness = data" may yield for a JSON value: numbers    *)
(* are truncated, booleans are 0 or 1, and for any other value the         *)
(* utils::Message was never assigned, so that the int is whatever its      *)
(* uninitialised state and data make of it: any member of garbage.         *)
(***************************************************************************)
Converted(json, garbage) ==
    IF json.type = "other" THEN garbage ELSE {TruncDiv(json.tenths, 10)}
=============================================================================
