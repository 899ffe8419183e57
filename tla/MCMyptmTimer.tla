----------------------------- MODULE MCMyptmTimer -----------------------------
(***************************************************************************)
(* MyptmTimer for TLC.  As a word -1 is the largest, as a delay and as the *)
(* difference that a clock that goes backwards gives.                      *)
(***************************************************************************)
EXTENDS MyptmTimer

CONSTANTS x1, x2, x3

TwoTimers == {x1, x2}
ThreeTimers == {x1, x2, x3}

AnyDelay == {-1, 0, 2}
PositiveDelay == {1, 3}

AnyDiff == {-1, 1}
PositiveDiff == {1, 2}

ButDestroyIdle == AllRules \ {"DestroyIdle"}
=============================================================================
