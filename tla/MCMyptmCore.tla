----------------------------- MODULE MCMyptmCore -----------------------------
(***************************************************************************)
(* MyptmCore for TLC: the threads and semaphores are model values, and the *)
(* identities of threads are interchangeable in the runs that check safety *)
(* properties only.                                                        *)
(***************************************************************************)
EXTENDS MyptmCore, FiniteSets

CONSTANTS t1, t2, s1, x1

OneSem == {s1}
TwoThreads == {t1, t2}
OneTimer == {x1}

ThreadSymmetry == Permutations(Thread)

AllCodes == {"EOK", "ETERMINATED", "ETIMEOUT"}
OnlyTerminated == {"ETERMINATED"}

ButLeftAlone == AllRules \ {"LeftAlone"}
=============================================================================
