---------------------------- MODULE MCExampleDriver ---------------------------
(***************************************************************************)
(* ExampleSemaphore and ExampleDriver for TLC, side by side: the first      *)
(* state says which of the two programs runs.                               *)
(***************************************************************************)
EXTENDS ExampleDriver

CONSTANTS t1, t2, sem, xPeriod, xStop

TwoThreads == {t1, t2}
InOrder == <<t1, t2>>
OneSem == {sem}
TwoTimers == {xPeriod, xStop}

VARIABLE example

mcVars == <<driverVars, example>>

MCInit ==
    \/ example = "semaphore" /\ ExInit /\ buffer = 0
    \/ example = "driver" /\ DriverInit

MCNext ==
    /\ UNCHANGED example
    /\ \/ example = "semaphore" /\ ExNext /\ UNCHANGED buffer
       \/ example = "driver" /\ DriverNext

\* The same for both
MCFairness ==
    /\ WF_mcVars(MCNext)
    /\ \A t \in Thread : SF_mcVars(Due(t) /\ UNCHANGED <<buffer, example>>)
    /\ SF_mcVars(TickEnds /\ UNCHANGED <<buffer, example>>)
    /\ SF_mcVars(Interrupts /\ UNCHANGED example)

MCSpec == MCInit /\ [][MCNext]_mcVars /\ MCFairness
===============================================================================
