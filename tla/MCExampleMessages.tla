--------------------------- MODULE MCExampleMessages --------------------------
(***************************************************************************)
(* ExampleMessages for TLC: two senders, and a receiver with a limit, which  *)
(* may also come later than everything else, as if it waited for ever.      *)
(***************************************************************************)
EXTENDS ExampleMessages

CONSTANTS a1, a2, b1, sEmpty, sRead, xStop

ThreeThreads == {a1, a2, b1}
InOrder == <<a1, a2, b1>>
TwoSems == {sEmpty, sRead}
OneTimer == {xStop}
===============================================================================
