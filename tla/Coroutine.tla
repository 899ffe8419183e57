------------------------------- MODULE Coroutine -------------------------------
(***************************************************************************)
(* What the macros of src/include/myptm/myptm_core.h and src/simple/mypt.h *)
(* promise to whoever writes a body between BEGIN and END: a coroutine that *)
(* goes on after the statement it gave up control in.  Labels, the switch  *)
(* and the yield flag are hidden; Protothread implements this module.      *)
(***************************************************************************)
EXTENDS Naturals, Sequences

CONSTANT Program

VARIABLES
    point,       \* the statement it is at
    inside,      \* its entry has been called and has not returned
    waited,      \* it has given up control in this statement
    ready        \* what the conditions of the body say at the moment

vars == <<point, inside, waited, ready>>

EndPoint == Len(Program) + 1

Kind == IF point = EndPoint THEN "end" ELSE Program[point]

Init == point = 1 /\ inside = FALSE /\ waited = FALSE /\ ready = FALSE

Enter == ~inside /\ inside' = TRUE /\ UNCHANGED <<point, waited, ready>>

Change == ready' = ~ready /\ UNCHANGED <<point, inside, waited>>

\* The statement is over: what suspends has done so, what waits has its condition.
Over ==
    \/ Kind \in {"work", "loop", "restart", "exit"}
    \/ Kind \in {"yield", "delay"} /\ waited
    \/ Kind = "wait" /\ ready
    \/ Kind = "yield_until" /\ waited /\ ready
    \/ Kind = "take" /\ (waited \/ ready)

\* Where a statement leads.
Successor ==
    IF Kind = "loop" THEN {1} ELSE IF Kind = "exit" THEN {point + 1, EndPoint}
    ELSE {point + 1}

Proceed ==
    /\ inside /\ Over
    /\ point' \in Successor
    /\ waited' = FALSE
    /\ UNCHANGED <<inside, ready>>

\* Control is given up in the statement.
Suspend ==
    /\ inside /\ Kind \in {"yield", "delay", "wait", "yield_until", "take"} /\ ~Over
    /\ inside' = FALSE
    /\ waited' = (Kind # "wait")
    /\ UNCHANGED <<point, ready>>

Restart ==
    /\ inside /\ Kind = "restart"
    /\ inside' = FALSE /\ point' = 1 /\ waited' = FALSE
    /\ UNCHANGED ready

End == inside /\ Kind = "end" /\ inside' = FALSE /\ UNCHANGED <<point, waited, ready>>

Next == Enter \/ Change \/ Proceed \/ Suspend \/ Restart \/ End

Spec == Init /\ [][Next]_vars
=============================================================================
