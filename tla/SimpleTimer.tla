------------------------------ MODULE SimpleTimer ------------------------------
(***************************************************************************)
(* The timers of src/simple/test_32bit_timer_overflow.c, which             *)
(* src/simple/test_thread.c has a copy of: g_timer_0 holds the time each is *)
(* due as a word, and 0 when it is not running.  TestNext is the program   *)
(* itself, test_timer, which starts the clock at three places and measures *)
(* how long a timeout takes.                                               *)
(***************************************************************************)
EXTENDS SimpleClock, Sequences, FiniteSets

CONSTANTS
    Idx,         \* the indices of g_timer_0; the test uses TestIdx
    TestIdx,
    Timeouts,    \* what timers are started with
    Offsets,     \* the values of the clock at the start of the rounds of the test
    TestTimeout

ASSUME SimpleTimerAssumption ==
    /\ TestIdx \in Idx
    /\ Timeouts \subseteq 0 .. Half - 1 /\ TestTimeout \in 1 .. Half - 1
    /\ Offsets \in Seq(Word)
    /\ \A i \in 1 .. Len(Offsets) : Plus(Offsets[i], TestTimeout) # 0

VARIABLES
    now,         \* mypt_thread_sys_tick_get_ms()
    g_timer_0,
    started,     \* the timers that have been started and not stopped
    left,        \* the real time until each of them is due
    round, pc    \* where test_timer is: the number of its round; start, wait, done

timerVars == <<now, g_timer_0, started, left, round, pc>>

timer_is_running(idx) == g_timer_0[idx] # 0

\* Mutant: a timer that is due is due for ever.
TimeoutUnsigned(idx) == now >= g_timer_0[idx]

timer_is_timeout(idx) == Difference(now, g_timer_0[idx]) >= 0

\* 0 means that the timer is not running.
Deadline(word) == IF word = 0 THEN 1 ELSE word

timer_start(idx, timeout) ==
    /\ g_timer_0' = [g_timer_0 EXCEPT ![idx] = Deadline(Plus(now, timeout))]
    /\ started' = started \cup {idx}
    /\ left' = [left EXCEPT ![idx] = timeout]

timer_stop(idx) ==
    /\ g_timer_0' = [g_timer_0 EXCEPT ![idx] = 0]
    /\ started' = started \ {idx}
    /\ left' = [left EXCEPT ![idx] = 0]

\* A millisecond passes.  Half of the clock's range after a timer was due, nothing is
\* said of it any more.
Pass ==
    /\ now' = Plus(now, 1)
    /\ left' = [idx \in Idx |-> IF idx \in started /\ left[idx] > -Half
                                THEN left[idx] - 1 ELSE left[idx]]
    /\ UNCHANGED <<g_timer_0, started>>

AnyStart(start) ==
    /\ now = start
    /\ g_timer_0 = [idx \in Idx |-> 0]
    /\ started = {} /\ left = [idx \in Idx |-> 0]
    /\ round = 1 /\ pc = "start"

TimersInit == \E start \in Word : AnyStart(start)

TimersNext ==
    /\ \/ /\ \E idx \in Idx :
                timer_stop(idx) \/ \E timeout \in Timeouts : timer_start(idx, timeout)
          /\ UNCHANGED now
       \/ Pass
    /\ UNCHANGED <<round, pc>>

TimersSpec == TimersInit /\ [][TimersNext]_timerVars

-----------------------------------------------------------------------------
TestInit == AnyStart(0)

\* g_ms_base and g_ms_offset are set and the timer is started.
TestStart ==
    /\ pc = "start" /\ round <= Len(Offsets)
    /\ now' = Offsets[round]
    /\ g_timer_0' = [g_timer_0 EXCEPT ![TestIdx] = Deadline(Plus(now', TestTimeout))]
    /\ started' = {TestIdx}
    /\ left' = [left EXCEPT ![TestIdx] = TestTimeout]
    /\ pc' = "wait"
    /\ UNCHANGED round

\* while (!timer_is_timeout(0)), many times in a millisecond
TestWait == pc = "wait" /\ ~timer_is_timeout(TestIdx) /\ Pass /\ UNCHANGED <<round, pc>>

TestTimedOut ==
    /\ pc = "wait" /\ timer_is_timeout(TestIdx)
    /\ pc' = "done"
    /\ UNCHANGED <<now, g_timer_0, started, left, round>>

TestNextRound ==
    /\ pc = "done"
    /\ pc' = "start" /\ round' = round + 1
    /\ UNCHANGED <<now, g_timer_0, started, left>>

TestNext == TestStart \/ TestWait \/ TestTimedOut \/ TestNextRound

TestSpec == TestInit /\ [][TestNext]_timerVars

-----------------------------------------------------------------------------
(***************************************************************************)
(* Properties.                                                             *)
(***************************************************************************)

\* A timer is running when it has been started and not stopped, at every deadline.
RunningIsStarted == \A idx \in Idx : timer_is_running(idx) <=> idx \in started

\* What the program prints after each round, diff=OK: the timeout took as long as it
\* was asked to, also when the clock overflows on the way.
DiffOK == pc = "done" => left[TestIdx] = 0

\* A timer is running when it has been started and not stopped, and due when its time is
\* over and not before, wherever the clock is when it starts and whether or not it
\* overflows; one whose deadline would have been the word 0 is one millisecond late.
\* So the overflow test prints diff=OK after each round.
DueInTime ==
    /\ RunningIsStarted /\ DiffOK
    /\ \A idx \in started : left[idx] > -Half =>
        /\ left[idx] > 0 => ~timer_is_timeout(idx)
        /\ left[idx] < 0 => timer_is_timeout(idx)
        /\ left[idx] = 0 => timer_is_timeout(idx) \/ g_timer_0[idx] = 1
=============================================================================
