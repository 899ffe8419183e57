------------------------------ MODULE MyptmAlarm ------------------------------
(***************************************************************************)
(* What src/src/myptm_timer.c promises: every timer has a time of its own, *)
(* which passes for all timers alike and which nothing that happens to     *)
(* another timer changes, and a timer fires when its time is used up.  The *)
(* list of differences, the loops of myptm_tick_increase and their nesting *)
(* are hidden; MyptmTimer is shown to implement this module.               *)
(***************************************************************************)
EXTENDS Integers

CONSTANTS
    Timer,
    Off,         \* the remaining time of a timer that is not running; not a word
    Modulus      \* times are words below Modulus

VARIABLES
    remaining,   \* the time each timer has left
    owed         \* time that has been reported and not yet charged to the timers

vars == <<remaining, owed>>

Word == 0 .. Modulus - 1

Armed == {x \in Timer : remaining[x] # Off}

Init == remaining = [x \in Timer |-> Off] /\ owed = 0

-----------------------------------------------------------------------------
\* A timer is started, or started again from its beginning.
Set(x, ticks) ==
    /\ remaining' = [remaining EXCEPT ![x] = ticks]
    /\ UNCHANGED owed

Cancel(x) ==
    /\ remaining' = [remaining EXCEPT ![x] = Off]
    /\ UNCHANGED owed

CancelAll ==
    /\ remaining' = [x \in Timer |-> Off]
    /\ UNCHANGED owed

\* Time is reported.
Elapse(ticks) ==
    /\ owed' = owed + ticks
    /\ UNCHANGED remaining

\* Time that was reported is charged to every timer, and stops at one that is due.
Charge(ticks) ==
    /\ ticks <= owed
    /\ Armed # {}
    /\ \A x \in Armed : ticks <= remaining[x]
    /\ owed' = owed - ticks
    /\ remaining' = [x \in Timer |-> IF x \in Armed THEN remaining[x] - ticks ELSE Off]

\* Without timers there is nobody to charge.
Forgive ==
    /\ Armed = {}
    /\ owed' \in 0 .. owed
    /\ UNCHANGED remaining

Fire(x) ==
    /\ remaining[x] = 0
    /\ remaining' = [remaining EXCEPT ![x] = Off]
    /\ UNCHANGED owed

-----------------------------------------------------------------------------
Next ==
    \/ \E x \in Timer : Cancel(x) \/ Fire(x) \/ \E ticks \in Word : Set(x, ticks)
    \/ \E ticks \in Word : Elapse(ticks) \/ Charge(ticks)
    \/ CancelAll
    \/ Forgive

Spec == Init /\ [][Next]_vars
=============================================================================
