----------------------------- MODULE SimpleThreads -----------------------------
(***************************************************************************)
(* The programs src/simple/example.c and src/simple/test_thread.c: a main  *)
(* loop calls the entries of protothreads that do nothing but delay, and   *)
(* an entry of kind b calls two of kind a at the start of each of its      *)
(* rounds.  Protothread is about the macros, this module about the time:   *)
(* MYPT_DELAY_MS stores now + ms in tick and waits for now - tick > 0.     *)
(***************************************************************************)
EXTENDS SimpleClock, Sequences, SequencesExt

CONSTANTS
    Thread,      \* the objects with a protothread in them
    Main,        \* the threads main calls, in their order
    Children,    \* the threads each thread calls at the start of a round
    Delays,      \* the delays of a round of each thread; a loop is written out
    MaxPause     \* bound: the milliseconds between two calls of main

Round(t) == Delays[t]

SimpleThreadsAssumption ==
    /\ Main \in Seq(Thread) /\ Main # <<>>
    /\ Children \in [Thread -> SUBSET Thread]
    /\ \A t \in Thread : \A c \in Children[t] : Children[c] = {}
    /\ \A t \in Thread : Round(t) \in Seq(1 .. Half - 1) /\ Round(t) # <<>>
    /\ MaxPause \in Nat

VARIABLES
    now,         \* mypt_thread_sys_tick_get_ms()
    lc,          \* the delay each thread is in, 0 before its first call
    tick,        \* until when, as a word
    since,       \* the real time since the delay began
    turn,        \* the thread main calls next
    pause        \* the time since main's last call

vars == <<now, lc, tick, since, turn, pause>>

\* The real times are only followed up to here.
Far == Modulus

Init ==
    /\ now \in Word
    /\ lc = [t \in Thread |-> 0]
    /\ tick = [t \in Thread |-> 0]
    /\ since = [t \in Thread |-> 0]
    /\ turn = 1 /\ pause = 0

\* Mutant: the end of the delay is compared as a number.
OverUnsigned(t) == now > tick[t]

\* The condition of MYPT_WAIT_UNTIL in MYPT_DELAY_MS
Over(t) == Difference(now, tick[t]) > 0

\* A call of the entry of t goes on after its delay.
GoesOn(t) == lc[t] = 0 \/ Over(t)

NextDelay(t) == IF lc[t] \in 1 .. Len(Round(t)) - 1 THEN lc[t] + 1 ELSE 1

StartsRound(t) == GoesOn(t) /\ NextDelay(t) = 1

\* The entry of t is called, and those it calls itself.
Called(t) == {t} \cup (IF StartsRound(t) THEN Children[t] ELSE {})

\* my_thread_entry_a and my_thread_entry_b: the next delay begins, as far as the one
\* before is over.
Enter(called) ==
    LET going == {t \in called : GoesOn(t)}
    IN  /\ lc' = [t \in Thread |-> IF t \in going THEN NextDelay(t) ELSE lc[t]]
        /\ tick' = [t \in Thread |-> IF t \in going THEN Plus(now, Round(t)[NextDelay(t)])
                                     ELSE tick[t]]
        /\ since' = [t \in Thread |-> IF t \in going THEN 0 ELSE since[t]]
        /\ UNCHANGED now

\* One step of the loop of main
Step ==
    /\ Enter(Called(Main[turn]))
    /\ turn' = (turn % Len(Main)) + 1
    /\ pause' = 0

Min2(a, b) == IF a < b THEN a ELSE b

Pass ==
    /\ pause < MaxPause
    /\ pause' = pause + 1
    /\ now' = Plus(now, 1)
    /\ since' = [t \in Thread |-> IF lc[t] = 0 THEN 0 ELSE Min2(since[t] + 1, Far)]
    /\ UNCHANGED <<lc, tick, turn>>

Next == Step \/ Pass

Spec == Init /\ [][Next]_vars

\* The processor runs main, and the clock goes on.
FairSpec == Spec /\ WF_vars(Step) /\ WF_vars(Pass)

-----------------------------------------------------------------------------
(***************************************************************************)
(* Properties.                                                             *)
(***************************************************************************)

\* A delay is over when more than its milliseconds have passed, and not before: also
\* when the clock overflows in it.
NeverEarly ==
    [][\A t \in Thread : since'[t] < since[t] => since[t] > Round(t)[lc[t]]]_vars

\* How late main comes back to a thread, and how long a round of a thread takes.
Lateness == 1 + Len(Main) * MaxPause
RoundTime(t) == FoldLeft(LAMBDA sum, ms : sum + ms + Lateness, 0, Round(t))

\* A thread that main calls is late by at most one round of main, and one that another
\* thread calls by at most a round of that thread: it never waits for the clock to
\* come round again, although it is called seldom.
OnTime ==
    \A t \in Thread : lc[t] # 0 =>
        since[t] <= Round(t)[lc[t]] + Lateness +
                    (IF t \in Range(Main) THEN 0
                     ELSE RoundTime(CHOOSE p \in Thread : t \in Children[p]))

\* Every thread, those that are called by others included, goes on for ever.
KeepsGoing == \A t \in Thread : []<>(since[t] = 0) /\ []<>(since[t] > 0)
=============================================================================
