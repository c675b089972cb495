---------------------------- MODULE LedControlMC ----------------------------
(* Instances of LedControl for TLC. *)
EXTENDS LedControl

\* A fraction, a number above 100 whose width wraps, and a string.
MCJson == {JsonNumber(507), JsonNumber(1010), JsonOther}
MCGarbage == {-1}
=============================================================================
