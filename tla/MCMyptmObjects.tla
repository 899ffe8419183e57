---------------------------- MODULE MCMyptmObjects ----------------------------
(***************************************************************************)
(* MyptmObjects for TLC.                                                   *)
(***************************************************************************)
EXTENDS MyptmObjects

CONSTANTS t1, t2, s1, x1, x2, shot

Threads == {t1, t2}
Sems == {s1}
Timers == {x1, x2, shot}
OneShots == {shot}
NoCodes == {}

ObjectSymmetry == Permutations(Thread) \cup Permutations(Timer \ OneShot)
=============================================================================
