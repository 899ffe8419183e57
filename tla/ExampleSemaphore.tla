--------------------------- MODULE ExampleSemaphore ---------------------------
(***************************************************************************)
(* src/example/examples/example3.cpp, and example4.cpp, the same program   *)
(* with the classes of myptm.hpp: threads take a semaphore with a limit, a *)
(* timer that starts itself again gives it a token at a time, and another  *)
(* timer destroys the loop.  The code runs on MyptmCore, one call of the   *)
(* library to a step, and no rule of use is assumed.                       *)
(***************************************************************************)
EXTENDS MyptmCore

CONSTANTS
    Started,     \* the threads in the order main adds and starts them
    TheSem,      \* g_sem
    Period,      \* timer_500ms
    StopTimer    \* timer

ASSUME ExampleSemaphoreAssumption ==
    /\ Started \in Seq(Thread) /\ Thread = Range(Started) /\ IsInjective(Started)
    /\ Sem = {TheSem} /\ Timer = {Period, StopTimer} /\ Period # StopTimer
    /\ MaxCount > 0

VARIABLES
    pc,          \* where each thread's code is
    callback,    \* what the running callback does next
    unclaimed    \* the tokens given that no thread has had yet

program == <<pc, callback, unclaimed>>
exVars == <<vars, program>>

\* A program when main comes to its loop: every thread is started, the semaphore has n
\* tokens, and the two timers run.
Opens(n) ==
    /\ pending = {} /\ running = Started /\ clip = <<>>
    /\ waitq = [s \in Sem |-> <<>>] /\ count = [s \in Sem |-> n]
    /\ state = [t \in Thread |-> "READY"] /\ owner = [t \in Thread |-> TRUE]
    /\ err = [t \in Thread |-> "EOK"] /\ lc = [t \in Thread |-> NoSem]
    /\ ref = [t \in Thread |-> 0]
    /\ armed = Timer /\ stale = {}
    /\ current = NoThread /\ stack = <<>> /\ fault = "none"
    /\ callback = "none" /\ unclaimed = n

\* main up to its loop
ExInit == Opens(1) /\ pc = [t \in Thread |-> "take"]

-----------------------------------------------------------------------------
Goes(t, from, to) == InEntry(t) /\ pc[t] = from /\ pc' = [pc EXCEPT ![t] = to]

\* A thread that takes a token for each round, within a limit or not (-1), and looks at
\* the result.
Takes(t, limit) ==
    /\ Goes(t, "take", "look")
    /\ TakeNow(t, TheSem) \/ TakeBlock(t, TheSem, limit)
    /\ UNCHANGED <<callback, unclaimed>>

Looks(t) == Goes(t, "look", "take") /\ UNCHANGED <<vars, callback>>

Got(t) == err[t] = "EOK"

\* my_thread_entry_a, run
ThreadEntry(t) ==
    \/ Takes(t, 0)
    \/ /\ Looks(t)
       /\ unclaimed' = IF Got(t) THEN unclaimed - 1 ELSE unclaimed

\* A timer fires, and its callback goes on, one call after the other.
Fires(x, next) == Expire(x) /\ callback' = next /\ UNCHANGED pc
Continues(from, to) == InPhase("callback") /\ callback = from /\ callback' = to /\ UNCHANGED pc

\* Mutant: the timer is not started again.
StartsAgainNot == Continues("start", "return") /\ UNCHANGED <<vars, unclaimed>>

\* The myptm_loop_timer_start of the callback
StartsAgain == Continues("start", "return") /\ TimerStart(Period) /\ UNCHANGED unclaimed

\* __timer_callback_500ms: a token, and the timer again.  It bounds the tokens that
\* are given while the threads do not run.
PeriodCallback ==
    \/ unclaimed < MaxCount /\ Fires(Period, "give") /\ UNCHANGED unclaimed
    \/ Continues("give", "start") /\ SemGive(TheSem, 1) /\ unclaimed' = unclaimed + 1
    \/ StartsAgain

\* __stop_everything
StopFires == Fires(StopTimer, "stop") /\ UNCHANGED unclaimed

\* The myptm_loop_destroy of the callback.  Only the periodic timer may run then,
\* which it leaves linked to the ticker.
Stops == Continues("stop", "return") /\ LoopDestroy /\ UNCHANGED unclaimed

Returns == Continues("return", "none") /\ CallbackReturn /\ UNCHANGED unclaimed

LoopEmpty == armed = {} /\ pending = {} /\ running = <<>> /\ clip = <<>>

\* The loop of main.  What follows is not modelled: every thread is stopped and no
\* timer runs, but the periodic one may still be linked to the ticker.  example3
\* leaves it so, main of example_driver destroys it and finds an empty ticker, and in
\* example4 ~timer comes after ~loop and writes to the ticker of a loop that is gone
\* (TimersStopped of MyptmObjects).
MainPolls == stack = <<>> /\ ~LoopEmpty /\ Poll

LoopSteps ==
    \/ \E t \in Thread : Timeout(t)
    \/ MainPolls \/ TickDone \/ Dispatch \/ PollReturn

\* Main has left its loop.
Left == stack = <<>> /\ LoopEmpty

ExNext ==
    \/ \E t \in Thread : ThreadEntry(t)
    \/ PeriodCallback \/ StopFires \/ Stops \/ Returns
    \/ LoopSteps /\ UNCHANGED program
    \/ Left /\ UNCHANGED exVars

ExSpec == ExInit /\ [][ExNext]_exVars

(***************************************************************************)
(* The program goes on by itself; a take with a limit, a tick and half a   *)
(* second end some time.  Nothing is assumed of the 15 seconds.            *)
(***************************************************************************)
Due(t) == Timeout(t) /\ UNCHANGED program
TickEnds == TickDone /\ UNCHANGED program

ExFairSpec ==
    /\ ExSpec /\ WF_exVars(ExNext)
    /\ \A t \in Thread : SF_exVars(Due(t))
    /\ SF_exVars(TickEnds) /\ SF_exVars(PeriodCallback)

-----------------------------------------------------------------------------
(***************************************************************************)
(* Properties.                                                             *)
(***************************************************************************)

\* Threads that have been handed a token and have not run since.
Handed == {t \in Thread : state[t] = "READY" /\ pc[t] = "look" /\ Got(t)}

\* Until the loop is destroyed no token is lost or had twice, although each give may
\* come in the same tick as the limit of a take, before it or after it.
TokensKept ==
    (\E t \in Thread : owner[t]) => unclaimed = count[TheSem] + Cardinality(Handed)

\* As long as the loop is not destroyed a token is to come again.
Dry == ~LoopEmpty /\ unclaimed = 0

\* The timer that starts itself again in its own callback is never lost.
TokensComing == Dry ~> ~Dry
=============================================================================
