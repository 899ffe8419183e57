------------------------------ MODULE MyptmSystem ------------------------------
(***************************************************************************)
(* The ticker in a loop in a program, in time: MyptmTimer with the time    *)
(* part of myptm_loop_poll and of the waits of src/src/myptm_core.c, under *)
(* the main loop of the examples,                                          *)
(*                                                                         *)
(*     while (!loop.empty()) { delay = loop.poll(); if (delay > 0) sleep }  *)
(*                                                                         *)
(* Time is relative to systick, the clock as the last poll read it.  The   *)
(* threads are as simple as time allows: ready, pending or dead.  Nested   *)
(* polls and wait queues are in MyptmCore, destroying timers in MyptmTimer. *)
(***************************************************************************)
EXTENDS MyptmTimer

CONSTANTS
    Thread,      \* the threads; the timer of a thread has its name
    MaxWork      \* bound: how long one round of the main loop takes without its sleep

ASSUME SystemAssumption ==
    /\ Thread \subseteq Timer
    /\ MaxWork \in 0 .. Modulus - 1
    /\ \A tick \in Delays : tick > 0 /\ tick < Modulus \div 2
    /\ \A tick \in Delays : tick + MaxWork < Modulus

VARIABLES
    phase,       \* setup, test, poll, dispatch, sleep or done: where main is
    answer,      \* what the last poll returned
    clip,        \* the threads this poll has yet to call
    state,       \* of each thread
    lag,         \* now - systick
    limit,       \* the lag main goes on at, asleep or not
    due,         \* the time until each running timer is due, from its start on
    slack        \* the time that had passed unnoticed when it was started

main == <<phase, answer, clip, state>>
time == <<lag, limit, due, slack>>
sysVars == <<vars, main, time>>

\* Code of the application is running, in a thread or in the callback of a timer.
AppRuns == phase \in {"setup", "dispatch"} \/ InPhase("callback")

\* What an unsigned int is as an int.
AsInt(word) == IF word >= Modulus \div 2 THEN word - Modulus ELSE word

SysInit ==
    /\ Init
    /\ phase = "setup" /\ answer = 0 /\ clip = {}
    /\ state = [t \in Thread |-> "ready"]
    /\ lag = 0 /\ limit = MaxWork
    /\ due = [x \in Timer |-> 0] /\ slack = [x \in Timer |-> 0]

-----------------------------------------------------------------------------
Timed(x, left, early) ==
    /\ due' = [due EXCEPT ![x] = left] /\ slack' = [slack EXCEPT ![x] = early]
    /\ UNCHANGED <<lag, limit>>

Forget(x) == Timed(x, 0, 0)

\* A timer of the application is started, restarted or removed.
AppTimer(x) ==
    /\ AppRuns /\ x \notin Thread
    /\ \/ \E tick \in Delays : AddTimer(x, tick) /\ Timed(x, tick, lag + Owed)
       \/ Restart(x) /\ Timed(x, origin[x], lag + Owed)
       \/ RemoveTimer(x) /\ Forget(x)
    /\ UNCHANGED main

\* myptm_thread_resume of a thread that waits, or myptm_thread_stop
WakeOrStop(t) ==
    /\ AppRuns
    /\ \/ state[t] = "pending" /\ state' = [state EXCEPT ![t] = "ready"]
       \/ state[t] # "dead" /\ state' = [state EXCEPT ![t] = "dead"]
    /\ clip' = clip \ {t}
    /\ ring' = Removed(ring, t)
    /\ Forget(t)
    /\ UNCHANGED <<stale, life, origin, calls, phase, answer>>

\* Mutant: the running threads are not moved to the clip.
PollSkipsMove ==
    /\ phase' = "poll"
    /\ clip' = {}
    /\ lag' = 0 /\ limit' = MaxWork
    /\ IF lag % Modulus # 0 THEN Increase(lag % Modulus) ELSE UNCHANGED vars
    /\ UNCHANGED <<answer, state, due, slack>>

\* myptm_loop_poll to myptm_tick_increase: threads that are made ready later are
\* called by the next poll.
PollStarts ==
    /\ phase' = "poll"
    /\ clip' = {t \in Thread : state[t] = "ready"}
    /\ lag' = 0 /\ limit' = MaxWork
    /\ IF lag % Modulus # 0 THEN Increase(lag % Modulus) ELSE UNCHANGED vars
    /\ UNCHANGED <<answer, state, due, slack>>

\* myptm_timeout_cb__
TimedOut(t) == state' = [state EXCEPT ![t] = "ready"]

\* myptm_tick_increase; the callback of a thread's timer makes the thread ready.
Tick ==
    /\ \/ /\ Charge \/ FireDone \/ IncreaseReturn \/ CallbackReturn
          /\ UNCHANGED <<state, time>>
       \/ /\ Fire /\ Head(ring).timer \notin Thread
          /\ Forget(Head(ring).timer)
          /\ UNCHANGED state
       \/ /\ InPhase("fire") /\ ring # <<>>
          /\ Head(ring).tick = 0 /\ Head(ring).timer \in Thread
          /\ ring' = Tail(ring)
          /\ TimedOut(Head(ring).timer)
          /\ Forget(Head(ring).timer)
          /\ UNCHANGED <<stale, life, origin, calls>>
    /\ UNCHANGED <<phase, answer, clip>>

Dispatch ==
    /\ phase = "poll" /\ calls = <<>>
    /\ phase' = "dispatch"
    /\ UNCHANGED <<vars, answer, clip, state, time>>

\* The entry of t is called and returns, ready, waiting for an event, delayed or
\* for good.
Run(t) ==
    /\ phase = "dispatch" /\ t \in clip
    /\ clip' = clip \ {t}
    /\ \/ \E s \in {"ready", "pending", "dead"} :
             state' = [state EXCEPT ![t] = s] /\ UNCHANGED <<vars, time>>
       \/ /\ state' = [state EXCEPT ![t] = "pending"]
          /\ \E tick \in Delays : AddTimer(t, tick) /\ Timed(t, tick, lag + Owed)
    /\ UNCHANGED <<phase, answer>>

\* Mutant: ready threads do not keep the program from sleeping.
TickNextOnly == IF ring = <<>> THEN -1 ELSE AsInt(Head(ring).tick)

\* What a poll returns: the end of myptm_loop_poll, and myptm_tick_next.
NextTick ==
    IF \E t \in Thread : state[t] = "ready" THEN 0
    ELSE IF ring = <<>> THEN -1 ELSE AsInt(Head(ring).tick)

\* The poll returns and main sleeps.
PollReturns ==
    /\ phase = "dispatch" /\ clip = {}
    /\ answer' = NextTick
    /\ IF answer' > 0 THEN phase' = "sleep" /\ limit' = lag + answer'
                      ELSE phase' = "test" /\ UNCHANGED limit
    /\ UNCHANGED <<vars, clip, state, lag, due, slack>>

\* myptm_loop_empty
LoopEmpty == ring = <<>> /\ \A t \in Thread : state[t] = "dead"

EnterLoop == phase = "setup" /\ phase' = "test" /\ UNCHANGED <<vars, answer, clip, state, time>>

WakeUp == /\ phase = "sleep" /\ lag = limit
          /\ phase' = "test"
          /\ UNCHANGED <<vars, answer, clip, state, time>>

Poll == phase = "test" /\ ~LoopEmpty /\ PollStarts

Leave == phase = "test" /\ LoopEmpty /\ phase' = "done"
         /\ UNCHANGED <<vars, answer, clip, state, time>>

\* The program has ended.
Done == phase = "done" /\ UNCHANGED sysVars

\* The clock.
Pass ==
    /\ phase # "done" /\ lag < limit
    /\ lag' = lag + 1
    /\ due' = [x \in Timer |-> IF x \in Linked THEN due[x] - 1 ELSE 0]
    /\ UNCHANGED <<vars, main, limit, slack>>

SysNext ==
    \/ \E x \in Timer : AppTimer(x)
    \/ \E t \in Thread : WakeOrStop(t) \/ Run(t)
    \/ EnterLoop \/ Poll \/ Tick \/ Dispatch \/ PollReturns \/ WakeUp \/ Leave \/ Done
    \/ Pass

SysSpec == SysInit /\ [][SysNext]_sysVars

(***************************************************************************)
(* The program goes on, and so does the clock; application code does not   *)
(* keep the processor.                                                     *)
(***************************************************************************)
SysFairness ==
    /\ WF_sysVars(EnterLoop \/ Poll \/ Tick \/ Dispatch \/ PollReturns \/ WakeUp \/ Leave)
    /\ WF_sysVars(Pass)
    /\ \A t \in Thread : WF_sysVars(Run(t))

SysFairSpec == SysSpec /\ SysFairness

-----------------------------------------------------------------------------
(***************************************************************************)
(* Properties.                                                             *)
(***************************************************************************)

\* The time of a timer in the ring is its real time but for what had passed when
\* it was started and what has not been charged: whatever timers are added, removed
\* and restarted in callbacks and between polls, no tick is lost or charged twice.
TimesAgree ==
    \A i \in DOMAIN ring :
        LET x == ring[i].timer
        IN  Offset(ring, i) = due[x] - slack[x] + lag + Owed

\* By the clock of the poll that fires it, a timer is at most as early as its start
\* was late after a poll, and, since main sleeps no longer than the last poll said,
\* it is late by at most one round of main.
Punctual ==
    [][InPhase("fire") /\ ring' # ring =>
           LET x == Head(ring).timer IN due[x] + lag \in -MaxWork .. slack[x]]_sysVars

\* Main sleeps, and leaves its loop, only when there is nothing to do: no thread is
\* ready, and no timer is due before the sleep is over.  A poll that returns -1 means
\* that no timer runs: the unsigned tick that myptm_tick_next returns as an int is
\* never taken for -1.
NothingMissed ==
    /\ phase \in {"sleep", "done"} => \A t \in Thread : state[t] # "ready"
    /\ phase = "sleep" => \A i \in DOMAIN ring : answer <= Offset(ring, i)
    /\ (answer = -1 /\ phase = "test") \/ phase = "done" => ring = <<>>

\* The delay of a thread ends, and a thread that is ready is called: main oversleeps
\* neither, and a poll that returns 0 is followed by another.
ThreadsGoOn ==
    \A t \in Thread :
        /\ state[t] = "pending" /\ t \in Linked ~> state[t] # "pending"
        /\ state[t] = "ready" ~> t \in clip \/ state[t] = "dead"
=============================================================================
