----------------------------- MODULE MCTestProgram ----------------------------
(***************************************************************************)
(* TestProgram for TLC: two children, one stopped after every second message. *)
(***************************************************************************)
EXTENDS TestProgram

CONSTANTS b1, c1, c2, sEmpty, sRead, xStop

ThreeThreads == {b1, c1, c2}
InOrder == <<b1, c1, c2>>
TwoChildren == <<c1, c2>>
TwoSems == {sEmpty, sRead}
OneTimer == {xStop}

Forever == -1
===============================================================================
