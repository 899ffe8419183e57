------------------------------- MODULE MyptmCore -------------------------------
(***************************************************************************)
(* The event loop of src/src/myptm_core.c: cooperative threads, counting   *)
(* semaphores, the two-list scheduler of myptm_loop_poll and the call      *)
(* stack of polls, entries and timer callbacks that nest inside it.        *)
(*                                                                         *)
(* Everything runs on one C stack.  Code of the application runs when no   *)
(* poll is active, inside a timer callback, or inside a thread's entry     *)
(* function; from any of these it may call every function of the library,  *)
(* myptm_loop_poll and myptm_thread_join included.  A frame of `stack' is   *)
(* one activation of myptm_loop_poll:                                      *)
(*                                                                         *)
(*   tick      in myptm_tick_increase, between two timers                  *)
(*   callback  in a timer's callback, called by myptm_tick_increase        *)
(*   run       in the while loop over `clip', between two entries          *)
(*   entry     in the entry function of the frame's thread                 *)
(*                                                                         *)
(* Time is abstracted here: `armed' is the set of timers in the ticker,    *)
(* and an active myptm_tick_increase may fire any of them in any order.    *)
(*                                                                         *)
(* There is one loop, so p_owner is a Boolean: the thread is in the loop,  *)
(* or p_owner is NULL.                                                     *)
(***************************************************************************)
EXTENDS MyptmLists

CONSTANTS
    Thread,      \* the myptm_thread_t objects
    Sem,         \* the myptm_sem_t objects (condition variables are the same type)
    Timer,       \* the application's myptm_timer_t objects
    NoThread,    \* NULL
    NoSem,       \* a suspended thread that waits for no semaphore
    Rules,       \* the rules of use the application follows
    Codes,       \* the codes with which the application itself resumes threads
    MaxDepth,    \* bound: activations of myptm_loop_poll on the stack
    MaxCount     \* bound: count of a semaphore, and count given by one call

(***************************************************************************)
(* What the library expects of its caller without checking it.             *)
(*   AddFresh       only a thread in state INIT is added to a loop         *)
(*   BlockOwned     an entry blocks only while its thread is in a loop     *)
(*   JoinOwned      only a thread that is in a loop, or dead, is joined    *)
(*   InitUnjoined   no thread is initialised again while it is joined      *)
(*   ResumeBlocked  a thread that is already ready is not resumed          *)
(*   StartIdle      only a timer that is not running is started            *)
(*   OneLeft        at most one timer of the application runs when the     *)
(*                  loop is destroyed                                      *)
(*   LeftAlone      a timer that ran then is not started, nor removed      *)
(*                  while others run, before it is initialised again       *)
(***************************************************************************)
AllRules == {"AddFresh", "BlockOwned", "JoinOwned", "InitUnjoined",
             "ResumeBlocked", "StartIdle", "OneLeft", "LeftAlone"}

ASSUME CoreAssumption ==
    /\ NoThread \notin Thread
    /\ NoSem \notin Sem
    /\ Thread \cap Timer = {}
    /\ Rules \subseteq AllRules
    /\ Codes \subseteq {"EOK", "ETERMINATED", "ETIMEOUT"}
    /\ MaxDepth \in Nat
    /\ MaxCount \in Nat

VARIABLES
    pending,     \* head_state_pending; its order is never observed
    running,     \* head_state_running
    clip,        \* clip: the ready threads this round has still to run
    waitq,       \* head_pendings of each semaphore, oldest waiter first
    count,       \* count of each semaphore
    state,       \* state of each thread
    owner,       \* p_owner # NULL
    err,         \* err of each thread
    lc,          \* the semaphore the thread's last blocking call took, or NoSem
    ref,         \* ref of each thread
    armed,       \* the timers in the ticker; a thread names its own timer
    stale,       \* timers linked to the head of the ticker, which is not linked to them
    current,     \* p_thread_current
    stack,       \* the active polls, innermost last
    fault        \* "none", or what went wrong for good: see Faults

vars == <<pending, running, clip, waitq, count, state, owner, err, lc, ref,
          armed, stale, current, stack, fault>>

lists   == <<pending, running, clip>>
threads == <<state, owner, err, lc, ref>>

State == {"INIT", "READY", "PENDING", "DEAD"}
Err   == {"EOK", "ETERMINATED", "ETIMEOUT"}

(***************************************************************************)
(*   null     a NULL p_owner is followed                                   *)
(*   assert   an assert of the list macros or of myptm_thread_join fails   *)
(*   hang     the loop of myptm_tick_destroy does not end                  *)
(*   lost     the ticker is empty, but timers run that are linked to it    *)
(***************************************************************************)
Faults == {"null", "assert", "hang", "lost"}

Frame == [phase  : {"tick", "callback", "run", "entry"},
          thread : Thread \cup {NoThread},
          old    : Thread \cup {NoThread},
          join   : Thread \cup {NoThread}]

\* What a delay and the timeout of a take may be: -1 arms no timer, every other
\* value does, and 0 stands for them.
Ticks == {-1, 0}

Top == stack[Len(stack)]

\* The stack with the fields of its top frame that say where it is replaced.
At(phase, t, old) ==
    [stack EXCEPT ![Len(stack)] =
        [phase |-> phase, thread |-> t, old |-> old, join |-> @.join]]

Obeys(rule, condition) == rule \in Rules => condition

\* Code of the application is running, and may call the library.
UserRuns ==
    /\ fault = "none"
    /\ stack # <<>> => Top.phase \in {"callback", "entry"}

InPhase(phase) == fault = "none" /\ stack # <<>> /\ Top.phase = phase

\* The code of t's entry function is running.
InEntry(t) == InPhase("entry") /\ Top.thread = t

-----------------------------------------------------------------------------
\* Mutant: a thread that is made ready or stopped stays in its wait queue.
LeaveWaitqNot(t) == UNCHANGED waitq

\* myptm_queue_remove on node_pending_resource
LeaveWaitq(t) == waitq' = [s \in Sem |-> Unlink(waitq[s], t)]

\* Mutant: the timers of threads that are made ready or stopped keep running.
StopTimersNot(T) == UNCHANGED <<armed, stale>>

\* myptm_tick_remove_timer on the timers of the threads T
StopTimers(T) == armed' = armed \ T /\ UNCHANGED stale

\* Mutant: a thread in the clip is not taken out of it.
LeaveListButClip(t) ==
    /\ pending' = pending \ {t}
    /\ running' = Unlink(running, t)
    /\ UNCHANGED clip

\* myptm_queue_remove on node_state
LeaveList(t) ==
    /\ pending' = pending \ {t}
    /\ running' = Unlink(running, t)
    /\ clip'    = Unlink(clip, t)

\* myptm_loop_make_ready: the thread goes to the tail of the running list.
MakeReady(t) ==
    IF owner[t]
    THEN /\ pending' = pending \ {t}
         /\ running' = Append(Unlink(running, t), t)
         /\ clip'    = Unlink(clip, t)
         /\ LeaveWaitq(t)
         /\ state'   = [state EXCEPT ![t] = "READY"]
    ELSE UNCHANGED <<lists, waitq, state>>

\* Mutant: the newest waiters are woken.
WakeNewest(s, k, code) ==
    LET rest == Len(waitq[s]) - k
        woken == SubSeq(waitq[s], rest + 1, Len(waitq[s]))
        Woken == Range(woken)
    IN  /\ pending' = pending \ Woken
        /\ running' = running \o woken
        /\ waitq'   = [waitq EXCEPT ![s] = SubSeq(@, 1, rest)]
        /\ StopTimers(Woken)
        /\ state'   = [t \in Thread |-> IF t \in Woken THEN "READY" ELSE state[t]]
        /\ err'     = [t \in Thread |-> IF t \in Woken THEN code ELSE err[t]]
        /\ UNCHANGED clip

\* The oldest k waiters of s are resumed with a code, as myptm_thread_resume
\* does one by one.  A waiter is in the pending list (WaitersBlocked), so that
\* is the list it leaves.
Wake(s, k, code) ==
    LET woken == SubSeq(waitq[s], 1, k)
        Woken == Range(woken)
    IN  /\ pending' = pending \ Woken
        /\ running' = running \o woken
        /\ waitq'   = [waitq EXCEPT ![s] = SubSeq(@, k + 1, Len(@))]
        /\ StopTimers(Woken)
        /\ state'   = [t \in Thread |-> IF t \in Woken THEN "READY" ELSE state[t]]
        /\ err'     = [t \in Thread |-> IF t \in Woken THEN code ELSE err[t]]
        /\ UNCHANGED clip

-----------------------------------------------------------------------------
\* myptm_loop_init; no timer is started before the loop
LoopInit ==
    /\ pending = {}
    /\ running = <<>>
    /\ clip = <<>>
    /\ armed = {} /\ stale = {}
    /\ current = NoThread

\* myptm_thread_init of every thread
ThreadsInit ==
    /\ state = [t \in Thread |-> "INIT"]
    /\ owner = [t \in Thread |-> FALSE]
    /\ err = [t \in Thread |-> "EOK"]
    /\ lc = [t \in Thread |-> NoSem]
    /\ ref = [t \in Thread |-> 0]

\* myptm_sem_init
SemsInit ==
    /\ waitq = [s \in Sem |-> <<>>]
    /\ count \in [Sem -> 0 .. MaxCount]

Init == LoopInit /\ ThreadsInit /\ SemsInit /\ stack = <<>> /\ fault = "none"

-----------------------------------------------------------------------------
(***************************************************************************)
(* Threads: what the application calls.                                    *)
(***************************************************************************)

\* myptm_thread_init on an object that is in no list and not executing
ThreadInit(t) ==
    /\ UserRuns
    /\ state[t] = "DEAD" /\ ~owner[t] /\ ref[t] = 0
    /\ Obeys("InitUnjoined", \A i \in DOMAIN stack : stack[i].join # t)
    /\ state' = [state EXCEPT ![t] = "INIT"]
    /\ err' = [err EXCEPT ![t] = "EOK"]
    /\ lc' = [lc EXCEPT ![t] = NoSem]
    /\ UNCHANGED <<lists, waitq, count, owner, ref, armed, stale, current, stack, fault>>

LoopAdd(t) ==
    /\ UserRuns
    /\ ~owner[t]
    /\ Obeys("AddFresh", state[t] = "INIT")
    /\ owner' = [owner EXCEPT ![t] = TRUE]
    /\ pending' = pending \cup {t}
    /\ UNCHANGED <<running, clip, waitq, count, state, err, lc, ref, armed,
                   stale, current, stack, fault>>

Startup(t) ==
    /\ UserRuns
    /\ state[t] = "INIT" /\ owner[t]
    /\ MakeReady(t)
    /\ UNCHANGED <<count, owner, err, lc, ref, armed, stale, current, stack, fault>>

\* myptm_thread_resume, called by the application on a thread of its choice
Resume(t, code) ==
    /\ UserRuns
    /\ Obeys("ResumeBlocked", state[t] # "READY")
    /\ MakeReady(t)
    /\ StopTimers({t})
    /\ err' = [err EXCEPT ![t] = code]
    /\ UNCHANGED <<count, owner, lc, ref, current, stack, fault>>

\* What myptm_loop_remove does to the loop and the thread.
Detach(t) ==
    /\ LeaveList(t)
    /\ LeaveWaitq(t)
    /\ StopTimers({t})
    /\ owner' = [owner EXCEPT ![t] = FALSE]
    /\ state' = [state EXCEPT ![t] = "DEAD"]

\* myptm_thread_stop, which does nothing to a thread without an owner
Stop(t) ==
    /\ UserRuns
    /\ owner[t]
    /\ Detach(t)
    /\ UNCHANGED <<count, err, lc, ref, current, stack, fault>>

AtMostOne(S) == \A x, y \in S : x = y

\* myptm_tick_destroy on the timers of the application, which are all that is
\* left.  After the node at the head is unlinked, myptm_queue_remove evaluates
\* its argument p_this->head.next again and initialises the node that follows:
\* the head itself when there is no other, and the timer stays linked to the
\* head.  When there is one, head.next is linked to itself from then on, and no
\* further round changes anything (RemovedFirst of MyptmQueue).
TickDestroy(left) ==
    /\ Obeys("OneLeft", AtMostOne(left))
    /\ stale' = stale \cup left
    /\ fault' = IF AtMostOne(left) THEN "none" ELSE "hang"

\* myptm_loop_destroy: every thread of the loop is stopped, which stops its
\* timer, and the ticker is emptied.  Only threads of the loop wait
\* (WaitersBlocked).
LoopDestroy ==
    /\ UserRuns
    /\ pending' = {} /\ running' = <<>> /\ clip' = <<>>
    /\ waitq' = [s \in Sem |-> <<>>]
    /\ armed' = {}
    /\ TickDestroy(armed \cap Timer)
    /\ owner' = [t \in Thread |-> FALSE]
    /\ state' = [t \in Thread |-> IF owner[t] THEN "DEAD" ELSE state[t]]
    /\ UNCHANGED <<count, err, lc, ref, current, stack>>

-----------------------------------------------------------------------------
(***************************************************************************)
(* Semaphores.                                                             *)
(***************************************************************************)

\* Mutant: the tokens that waiters received are counted too.
LeftOverAll(n, k) == n

\* What is counted when k of the n tokens given went to waiters.
LeftOver(n, k) == n - k

\* myptm_sem_give: the first waiters get a token each, the rest is counted.
SemGive(s, n) ==
    LET k == IF n < Len(waitq[s]) THEN n ELSE Len(waitq[s])
    IN  /\ UserRuns
        /\ count[s] + LeftOver(n, k) <= MaxCount
        /\ Wake(s, k, "EOK")
        /\ count' = [count EXCEPT ![s] = @ + LeftOver(n, k)]
        /\ UNCHANGED <<owner, lc, ref, current, stack, fault>>

\* myptm_sem_give_all resumes every waiter with EOK, myptm_sem_destroy with
\* ETERMINATED.
WakeAll(s, code) ==
    /\ UserRuns
    /\ waitq[s] # <<>>
    /\ Wake(s, Len(waitq[s]), code)
    /\ UNCHANGED <<count, owner, lc, ref, current, stack, fault>>

SemGiveAll(s) == WakeAll(s, "EOK")

SemDestroy(s) == WakeAll(s, "ETERMINATED")

SemReset(s) ==
    /\ UserRuns
    /\ count[s] > 0
    /\ count' = [count EXCEPT ![s] = 0]
    /\ UNCHANGED <<lists, waitq, threads, armed, stale, current, stack, fault>>

-----------------------------------------------------------------------------
(***************************************************************************)
(* Entry functions: what the code of a thread does to itself.  A blocking  *)
(* call returns from the entry at once (the macros return YIELDED), so the *)
(* frame goes back to the while loop of myptm_loop_poll in the same step.  *)
(***************************************************************************)

LeaveEntry(t) ==
    /\ stack' = At("run", NoThread, Top.old)
    /\ ref' = [ref EXCEPT ![t] = @ - 1]

\* Mutant: the count is not looked at.
HasTokenAlways(s) == TRUE

HasToken(s) == count[s] > 0

\* myptm_sem_take that finds a token: the entry goes on.
TakeNow(t, s) ==
    /\ InEntry(t)
    /\ HasToken(s)
    /\ count' = [count EXCEPT ![s] = @ - 1]
    /\ err' = [err EXCEPT ![t] = "EOK"]
    /\ lc' = [lc EXCEPT ![t] = s]
    /\ UNCHANGED <<lists, waitq, state, owner, ref, armed, stale, current, stack, fault>>

\* myptm_thread_prepare_delay, then the wait queue for a take, then the return.
\* myptm_thread_suspend follows a NULL p_owner, and both insertions assert that
\* the node is in no list.
Block(t, s, timed) ==
    LET linked == \/ timed /\ t \in armed
                  \/ s # NoSem /\ \E q \in Sem : t \in Range(waitq[q])
    IN  /\ Obeys("BlockOwned", owner[t])
        /\ fault' = IF ~owner[t] THEN "null" ELSE IF linked THEN "assert" ELSE "none"
        /\ IF fault' # "none"
           THEN UNCHANGED <<lists, waitq, threads, armed, stack>>
           ELSE /\ pending' = pending \cup {t}
                /\ running' = Unlink(running, t)
                /\ clip' = Unlink(clip, t)
                /\ waitq' = [q \in Sem |-> IF q = s THEN Append(waitq[q], t)
                                                    ELSE waitq[q]]
                /\ armed' = IF timed THEN armed \cup {t} ELSE armed
                /\ state' = [state EXCEPT ![t] = "PENDING"]
                /\ err' = [err EXCEPT ![t] = "EOK"]
                /\ lc' = [lc EXCEPT ![t] = s]
                /\ LeaveEntry(t)
                /\ UNCHANGED owner
        /\ UNCHANGED <<count, stale, current>>

\* myptm_sem_take without a token
TakeBlock(t, s, tick) ==
    /\ InEntry(t)
    /\ ~HasToken(s)
    /\ Block(t, s, tick # -1)

\* myptm_thread_delay
Delay(t, tick) ==
    /\ InEntry(t)
    /\ Block(t, NoSem, tick # -1)

\* The entry returns and its thread stays ready: myptm_YIELD, myptm_WAIT_UNTIL,
\* myptm_RESTART.
EntryYield(t) ==
    /\ InEntry(t)
    /\ LeaveEntry(t)
    /\ UNCHANGED <<lists, waitq, count, state, owner, err, lc, armed, stale, current, fault>>

\* The entry returns myptm_ENDED: the poll stops the thread.
EntryEnd(t) ==
    /\ InEntry(t)
    /\ LeaveEntry(t)
    /\ IF owner[t] THEN Detach(t)
                   ELSE UNCHANGED <<lists, waitq, armed, stale, owner, state>>
    /\ UNCHANGED <<count, err, lc, current, fault>>

-----------------------------------------------------------------------------
(***************************************************************************)
(* Timers of the application.                                              *)
(***************************************************************************)

\* myptm_timer_init, of a timer that was running when the loop was destroyed
TimerInit(x) ==
    /\ UserRuns
    /\ x \in stale
    /\ stale' = stale \ {x}
    /\ UNCHANGED <<lists, waitq, count, threads, armed, current, stack, fault>>

\* myptm_loop_timer_start: the insertion asserts that the timer is linked to none.
TimerStart(x) ==
    /\ UserRuns
    /\ Obeys("StartIdle", x \notin armed)
    /\ Obeys("LeftAlone", x \notin stale)
    /\ IF x \in armed \cup stale
       THEN fault' = "assert" /\ UNCHANGED armed
       ELSE armed' = armed \cup {x} /\ UNCHANGED fault
    /\ UNCHANGED <<lists, waitq, count, threads, stale, current, stack>>

TimerRemove(x) ==
    /\ UserRuns
    /\ x \in armed
    /\ armed' = armed \ {x}
    /\ UNCHANGED <<lists, waitq, count, threads, stale, current, stack, fault>>

\* The same calls, and myptm_timer_destroy, on a timer that is linked to the
\* head alone: they link the head to itself.  The timers that run then, those
\* of threads included, are out of the ticker and do not know.
StaleRemove(x) ==
    /\ UserRuns
    /\ x \in stale
    /\ Obeys("LeftAlone", armed = {})
    /\ stale' = stale \ {x}
    /\ fault' = IF armed = {} THEN "none" ELSE "lost"
    /\ UNCHANGED <<lists, waitq, count, threads, armed, current, stack>>

-----------------------------------------------------------------------------
(***************************************************************************)
(* myptm_loop_poll and myptm_thread_join.                                  *)
(***************************************************************************)

\* Mutant: only the outermost poll fills the clip.
RefillClipOutermost ==
    /\ clip' = IF clip = <<>> /\ stack = <<>> THEN running ELSE clip
    /\ running' = IF clip = <<>> /\ stack = <<>> THEN <<>> ELSE running

\* The start of a poll: an empty clip takes over the running list.
RefillClip ==
    /\ clip' = IF clip = <<>> THEN running ELSE clip
    /\ running' = IF clip = <<>> THEN <<>> ELSE running

NewFrame(t) == [phase |-> "tick", thread |-> NoThread, old |-> NoThread, join |-> t]

Poll ==
    /\ UserRuns
    /\ Len(stack) < MaxDepth
    /\ RefillClip
    /\ stack' = Append(stack, NewFrame(NoThread))
    /\ UNCHANGED <<pending, waitq, count, threads, armed, stale, current, fault>>

\* myptm_thread_join: a dead thread must have no owner (the assert); another
\* thread's loop is polled, and a thread without a loop has none to poll.
Join(t) ==
    /\ UserRuns
    /\ Len(stack) < MaxDepth
    /\ Obeys("JoinOwned", owner[t])
    /\ IF state[t] # "DEAD" /\ owner[t]
       THEN /\ RefillClip
            /\ stack' = Append(stack, NewFrame(t))
            /\ UNCHANGED fault
       ELSE /\ state[t] = "DEAD" <=> owner[t]
            /\ fault' = IF owner[t] THEN "assert" ELSE "null"
            /\ UNCHANGED <<running, clip, stack>>
    /\ UNCHANGED <<pending, waitq, count, threads, armed, stale, current>>

\* A thread's own timer fires: myptm_timeout_cb__.
Timeout(t) ==
    /\ InPhase("tick")
    /\ t \in armed
    /\ armed' = armed \ {t}
    /\ MakeReady(t)
    /\ err' = [err EXCEPT ![t] = "ETIMEOUT"]
    /\ UNCHANGED <<count, owner, lc, ref, stale, current, stack, fault>>

\* A timer of the application fires: it leaves the ticker, then its callback runs.
Expire(x) ==
    /\ InPhase("tick")
    /\ x \in armed
    /\ armed' = armed \ {x}
    /\ stack' = At("callback", NoThread, NoThread)
    /\ UNCHANGED <<lists, waitq, count, threads, stale, current, fault>>

CallbackReturn ==
    /\ InPhase("callback")
    /\ stack' = At("tick", NoThread, NoThread)
    /\ UNCHANGED <<lists, waitq, count, threads, armed, stale, current, fault>>

\* The ticks are used up, or the clock has not moved: ptr_thread_old is read.
TickDone ==
    /\ InPhase("tick")
    /\ stack' = At("run", NoThread, current)
    /\ UNCHANGED <<lists, waitq, count, threads, armed, stale, current, fault>>

\* Mutant: whether the entry is executing is not looked at.
CallableAlways(t) == TRUE

Callable(t) == ref[t] = 0

\* One round of the while loop: the head of clip goes to the tail of running and
\* its entry is called, unless it is executing further down the stack.  (The check
\* of a NULL entry is left out: myptm_thread_init is given the entry.)
Dispatch ==
    /\ InPhase("run")
    /\ clip # <<>>
    /\ LET t == Head(clip)
       IN  /\ clip' = Tail(clip)
           /\ running' = Append(running, t)
           /\ IF Callable(t)
              THEN /\ ref' = [ref EXCEPT ![t] = @ + 1]
                   /\ current' = t
                   /\ stack' = At("entry", t, Top.old)
              ELSE UNCHANGED <<ref, current, stack>>
    /\ UNCHANGED <<pending, waitq, count, state, owner, err, lc, armed, stale, fault>>

\* Mutant: the ready threads are not looked at.
PollIdleTimersOnly == armed = {}

\* The poll returns -1: no thread it could run is ready, and no timer is armed.
PollIdle ==
    /\ \A t \in Range(running) : ~(ref[t] = 0 /\ state[t] = "READY")
    /\ armed = {}

\* myptm_thread_join polls again.
Rejoins == Top.join # NoThread /\ state[Top.join] # "DEAD" /\ ~PollIdle

\* Mutant: the poll leaves p_thread_current as it is.
RestoreCurrentNot == UNCHANGED current

RestoreCurrent == current' = Top.old

PollReturn ==
    /\ InPhase("run")
    /\ clip = <<>>
    /\ ~Rejoins
    /\ RestoreCurrent
    /\ stack' = Front(stack)
    /\ UNCHANGED <<lists, waitq, count, threads, armed, stale, fault>>

\* The loop of the thread is read again for each poll.
PollAgain ==
    /\ InPhase("run")
    /\ clip = <<>>
    /\ Rejoins
    /\ RestoreCurrent
    /\ IF owner[Top.join]
       THEN /\ RefillClip
            /\ stack' = At("tick", NoThread, NoThread)
            /\ UNCHANGED fault
       ELSE /\ fault' = "null"
            /\ UNCHANGED <<running, clip, stack>>
    /\ UNCHANGED <<pending, waitq, count, threads, armed, stale>>

-----------------------------------------------------------------------------
ThreadCalls(t) ==
    \/ ThreadInit(t) \/ LoopAdd(t) \/ Startup(t) \/ Stop(t) \/ Join(t)
    \/ \E code \in Codes : Resume(t, code)

SemCalls(s) ==
    \/ \E n \in 1 .. MaxCount : SemGive(s, n)
    \/ SemGiveAll(s) \/ SemDestroy(s) \/ SemReset(s)

TimerCalls(x) == TimerInit(x) \/ TimerStart(x) \/ TimerRemove(x) \/ StaleRemove(x)

EntrySteps(t) ==
    \/ \E s \in Sem : TakeNow(t, s)
    \/ \E s \in Sem, tick \in Ticks : TakeBlock(t, s, tick)
    \/ \E tick \in Ticks : Delay(t, tick)
    \/ EntryYield(t) \/ EntryEnd(t)

Next ==
    \/ \E t \in Thread : ThreadCalls(t) \/ EntrySteps(t) \/ Timeout(t)
    \/ \E s \in Sem : SemCalls(s)
    \/ \E x \in Timer : TimerCalls(x) \/ Expire(x)
    \/ LoopDestroy
    \/ Poll \/ CallbackReturn \/ TickDone \/ Dispatch \/ PollReturn \/ PollAgain

Spec == Init /\ [][Next]_vars

\* Code of the application, once it runs, returns, blocks or polls.
UserGoesOn ==
    \/ CallbackReturn \/ Poll
    \/ \E t \in Thread : EntryYield(t) \/ EntryEnd(t) \/ Join(t)
    \/ \E t \in Thread, tick \in Ticks : \/ Delay(t, tick)
                                       \/ \E s \in Sem : TakeBlock(t, s, tick)

(***************************************************************************)
(* The program has one flow of control, so it takes every step the library *)
(* is in the middle of.  It is assumed of the application that it polls    *)
(* whenever no poll is active, and that its code does not run for ever     *)
(* between two calls.  A tick may fire timers that callbacks start again:  *)
(* it ends because their delays are positive (TickEnds of MyptmTimer),     *)
(* which strong fairness of TickDone stands for.                           *)
(***************************************************************************)
Fairness ==
    /\ WF_vars(stack = <<>> /\ Poll)
    /\ WF_vars(UserGoesOn)
    /\ WF_vars(Dispatch \/ PollReturn \/ PollAgain)
    /\ SF_vars(TickDone)

FairSpec == Spec /\ Fairness

-----------------------------------------------------------------------------
(***************************************************************************)
(* Properties.                                                             *)
(***************************************************************************)

\* Types of the variables: counts never go below zero, and ref counts the one
\* activation of an entry.
TypeOK ==
    /\ pending \subseteq Thread
    /\ running \in Seq(Thread)
    /\ clip \in Seq(Thread)
    /\ waitq \in [Sem -> Seq(Thread)]
    /\ count \in [Sem -> Nat]
    /\ state \in [Thread -> State]
    /\ owner \in [Thread -> BOOLEAN]
    /\ err \in [Thread -> Err]
    /\ lc \in [Thread -> Sem \cup {NoSem}]
    /\ ref \in [Thread -> Nat]
    /\ armed \subseteq Thread \cup Timer
    /\ stale \subseteq Timer
    /\ current \in Thread \cup {NoThread}
    /\ stack \in Seq(Frame)
    /\ fault \in Faults \cup {"none"}

\* A thread of the loop is linked once: in the running list or the clip when it
\* is ready, in the pending list when it is not; a thread without an owner is
\* new or dead, and in no list.  This is what the moves of node_state in
\* make_ready, suspend, loop_remove and the while loop of the poll preserve.
Placement ==
    /\ IsInjective(running) /\ IsInjective(clip)
    /\ Range(running) \cap Range(clip) = {}
    /\ Range(running) \cup Range(clip) = {t \in Thread : owner[t] /\ state[t] = "READY"}
    /\ pending = {t \in Thread : owner[t] /\ state[t] \in {"INIT", "PENDING"}}
    /\ \A t \in Thread : state[t] = "DEAD" => ~owner[t]
    /\ \A t \in Thread : ~owner[t] => state[t] \in {"INIT", "DEAD"}

\* A thread is in the wait queue of a semaphore exactly when it is suspended in
\* a take of that semaphore, and then once.  A thread that timed out, was resumed
\* or stopped gets no token, and no suspended take is forgotten.
WaitersBlocked ==
    /\ \A s \in Sem : IsInjective(waitq[s])
    /\ \A s \in Sem, t \in Thread :
          t \in Range(waitq[s]) <=> state[t] = "PENDING" /\ lc[t] = s

\* A thread's timer runs only while the thread is suspended in the loop, so
\* myptm_timeout_cb__ never reaches a thread that is ready, new or dead.
ArmedIsBlocked ==
    \A t \in Thread : t \in armed => owner[t] /\ state[t] = "PENDING"

\* A semaphore with a token has no waiter: no token is kept from a thread that
\* waits for it, whatever the order of takes, timeouts, gives and stops.
NoLostWakeup == \A s \in Sem : count[s] > 0 => waitq[s] = <<>>

Activations(t) == {i \in DOMAIN stack : stack[i].phase = "entry" /\ stack[i].thread = t}

\* However polls nest, an entry is never called while it is executing, and ref
\* says whether it is: the local state of a protothread would not survive it.
NoReentrance ==
    \A t \in Thread : /\ \A i, j \in Activations(t) : i = j
                      /\ ref[t] = IF Activations(t) = {} THEN 0 ELSE 1

\* A thread whose entry is executing is suspended only by itself: whatever nested
\* polls and callbacks do to it, it stays ready or is stopped.
ExecutingNotBlocked ==
    \A t \in Thread : ref[t] > 0 => state[t] \in {"READY", "DEAD"}

\* When code of the application runs, p_thread_current is the innermost thread
\* whose entry is executing, also after polls it made itself, and in callbacks.
CurrentIsExecuting ==
    UserRuns =>
        LET E == {i \in DOMAIN stack : stack[i].phase = "entry"}
        IN  IF E = {} THEN current = NoThread
            ELSE \E i \in E : (\A j \in E : j <= i) /\ current = stack[i].thread

\* An application that follows the rules never makes the library follow a NULL
\* p_owner, fail an assert of the list macros, go round for ever in the ticker or
\* cut running timers off from it, also after its loop was destroyed with one of
\* its timers running.
NoFault == fault = "none"

\* When a poll returns -1 the caller may sleep: every thread of the loop is
\* suspended or not started, but for those executing below the poll.
IdleMeansBlocked ==
    [][PollReturn /\ PollIdle =>
          \A t \in Thread : owner[t] /\ ref[t] = 0 => t \in pending]_vars

\* The refinement mapping.  What the scheduler calls the mode of a thread is its state,
\* and whether it is in the loop.
ModeOf(t) ==
    CASE state[t] = "INIT" /\ ~owner[t] -> "idle"
      [] state[t] = "INIT" /\ owner[t]  -> "new"
      [] state[t] = "PENDING"           -> "blocked"
      [] state[t] = "READY"             -> "ready"
      [] state[t] = "DEAD"              -> "dead"

Modes == [t \in Thread |-> ModeOf(t)]

\* The waits with a limit are those whose timer is in the ticker.
Limited == armed \cap Thread

\* The entries executing are those that ref counts.
Executing == {t \in Thread : ref[t] > 0}

\* The loop implements MyptmScheduler.
Scheduler == INSTANCE MyptmScheduler WITH
    mode      <- Modes,
    waiters   <- waitq,
    tokens    <- count,
    timed     <- Limited,
    outcome   <- err,
    executing <- Executing

\* Every step of the loop is a step of the scheduler or changes nothing of it.  So an
\* entry is called only when its thread is ready, never after a stop that came while it
\* waited its turn in the clip, and the result of a wait is final: a give after the
\* timeout, or a timeout after the give, changes nothing.
ImplementsScheduler == Scheduler!Spec

\* And every thread that stays ready is called, even when an entry or a callback polls
\* or joins for ever: each poll goes on with the clip another one left.
ImplementsFairScheduler == Scheduler!FairSpec
=============================================================================
