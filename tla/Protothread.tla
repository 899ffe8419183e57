------------------------------ MODULE Protothread ------------------------------
(***************************************************************************)
(* Protothreads: the macros that src/include/myptm/myptm_core.h and        *)
(* src/simple/mypt.h build entry functions from.  A body is a sequence of  *)
(* statements in a switch on lc.  A statement that can give up control has *)
(* a label; it stores the label in lc, returns, and is entered at the label*)
(* when the entry is called again.  The yield flag, a local variable, tells*)
(* the two ways to a label apart: 0 from above, 1 from the switch.         *)
(***************************************************************************)
EXTENDS Naturals, Sequences

CONSTANT Program \* the kinds of the statements of the body

Kinds == {"work", "yield", "wait", "yield_until", "take", "delay", "restart", "exit", "loop"}

ASSUME ProgramAssumption == Program \in Seq(Kinds) /\ Program # <<>>

VARIABLES
    lc,          \* 0, the label of a statement, or that of END
    flag,        \* YIELD_FLAG
    at,          \* where the entry executes, or Outside
    code,        \* what the entry returned last
    ready,       \* what the conditions of the body say: it may change in between
    prepared     \* how often the statement at lc has begun to wait in the loop

bodyVars == <<lc, flag, at, code, ready, prepared>>

EndPoint == Len(Program) + 1
Outside == [i |-> 0, part |-> "label"]

Kind == IF at.i = EndPoint THEN "end" ELSE Program[at.i]

BodyInit ==
    /\ lc = 0 /\ flag = 1 /\ at = Outside /\ code = "none"
    /\ ready = FALSE /\ prepared = 0

Before(kinds) == at # Outside /\ at.part = "start" /\ Kind \in kinds
AtLabel(kinds) == at # Outside /\ at.part = "label" /\ Kind \in kinds

Goto(i) == at' = [i |-> i, part |-> "start"] /\ prepared' = 0
Onward == Goto(at.i + 1) /\ UNCHANGED <<lc, flag, code, ready>>

Return(c) == at' = Outside /\ code' = c

\* LC_SET: the label is stored and reached.
SetLabel == lc' = at.i /\ at' = [at EXCEPT !.part = "label"]

-----------------------------------------------------------------------------
\* The entry is called: BEGIN.
Call ==
    /\ at = Outside
    /\ flag' = 1
    /\ at' = IF lc = 0 THEN [i |-> 1, part |-> "start"] ELSE [i |-> lc, part |-> "label"]
    /\ UNCHANGED <<lc, code, ready, prepared>>

Work == Before({"work"}) /\ Onward

Loop == Before({"loop"}) /\ Goto(1) /\ UNCHANGED <<lc, flag, code, ready>>

\* Mutant: the flag is not cleared.
YieldKeepsFlag ==
    /\ Before({"yield", "yield_until"})
    /\ SetLabel
    /\ UNCHANGED <<flag, code, ready, prepared>>

\* YIELD and YIELD_UNTIL to the label
Yield ==
    /\ Before({"yield", "yield_until"})
    /\ flag' = 0
    /\ SetLabel
    /\ UNCHANGED <<code, ready, prepared>>

\* myptm_thread_delay: the delay is prepared before the label.
Delay ==
    /\ Before({"delay"})
    /\ prepared' = prepared + 1
    /\ flag' = 0
    /\ SetLabel
    /\ UNCHANGED <<code, ready>>

\* YIELD, YIELD_UNTIL and the delay at the label
Yielded ==
    /\ AtLabel({"yield", "delay", "yield_until"})
    /\ IF flag = 0 \/ (Kind = "yield_until" /\ ~ready)
       THEN Return("YIELDED") /\ UNCHANGED <<lc, flag, ready, prepared>>
       ELSE Onward

\* WAIT_UNTIL and WAIT_WHILE
Wait ==
    /\ Before({"wait"})
    /\ SetLabel
    /\ UNCHANGED <<flag, code, ready, prepared>>

Waited ==
    /\ AtLabel({"wait"})
    /\ IF ready THEN Onward
       ELSE Return("WAITING") /\ UNCHANGED <<lc, flag, ready, prepared>>

\* myptm_sem_take
Take ==
    /\ Before({"take"})
    /\ flag' = 0
    /\ SetLabel
    /\ UNCHANGED <<code, ready, prepared>>

\* myptm_sem_prepare_take takes a token, or prepares a wait.
Taken ==
    /\ AtLabel({"take"})
    /\ IF flag = 1 \/ ready THEN Onward
       ELSE /\ prepared' = prepared + 1
            /\ Return("YIELDED")
            /\ UNCHANGED <<lc, flag, ready>>

Restart ==
    /\ Before({"restart"})
    /\ \/ lc' = 0 /\ Return("WAITING") /\ UNCHANGED <<flag, ready, prepared>>
       \/ Onward

Exit ==
    /\ Before({"exit"})
    /\ \/ Goto(EndPoint) /\ UNCHANGED <<lc, flag, code, ready>>
       \/ Onward

\* END, from above and when a finished body is called again
End ==
    /\ at # Outside /\ Kind = "end"
    /\ lc' = EndPoint /\ flag' = 0
    /\ Return("ENDED")
    /\ UNCHANGED <<ready, prepared>>

Change == ready' = ~ready /\ UNCHANGED <<lc, flag, at, code, prepared>>

BodyNext ==
    \/ Call \/ Work \/ Loop \/ Yield \/ Delay \/ Yielded \/ Wait \/ Waited
    \/ Take \/ Taken \/ Restart \/ Exit \/ End \/ Change

BodySpec == BodyInit /\ [][BodyNext]_bodyVars

-----------------------------------------------------------------------------
(***************************************************************************)
(* Properties.                                                             *)
(***************************************************************************)

\* A wait of the loop (a delay, or a take without a token) is prepared once for each
\* time its statement is executed, however the calls of the entry come, and the
\* entry returns after it.
PreparedOnce ==
    /\ prepared <= 1
    /\ at = Outside /\ lc \in DOMAIN Program /\ Program[lc] \in {"take", "delay"} =>
           prepared = 1

\* Where the coroutine is, and whether it has given up control there.
Point == IF at # Outside THEN at.i ELSE IF lc = 0 THEN 1 ELSE lc

GivenUp ==
    \/ at = Outside /\ lc \in DOMAIN Program /\ Program[lc] # "wait"
    \/ at # Outside /\ at.part = "label" /\ flag = 1 /\ Kind \notin {"wait", "end"}

\* A body behaves like a coroutine: each call goes on where the last one stopped, a
\* yield gives up control once, a wait ends with its condition, and END is final.
Body == INSTANCE Coroutine WITH
    point <- Point, inside <- at # Outside, waited <- GivenUp

ImplementsCoroutine == Body!Spec
=============================================================================
