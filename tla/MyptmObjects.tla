----------------------------- MODULE MyptmObjects -----------------------------
(***************************************************************************)
(* The classes of src/include/myptm/myptm.hpp: thread, timer and loop tie   *)
(* the calls of MyptmCore to the life of C++ objects.  A destructor stops  *)
(* and joins its thread, unlinks its timer, or destroys the loop, and then  *)
(* the memory is gone, whatever still points to it.                        *)
(*                                                                         *)
(* A one-shot timer is the shared object loop::timer_start makes for a     *)
(* function: it holds itself alive in its own callback, until that has run. *)
(***************************************************************************)
EXTENDS MyptmCore

CONSTANTS
    OneShot,     \* the timers that are made by loop::timer_start
    LifeRules    \* the rules of use the application follows

(***************************************************************************)
(* What the classes expect of the application without checking it.         *)
(*   DestroyAdded     a thread that was never in a loop is not destroyed   *)
(*   DestroyIdle      no thread is destroyed while its run() is executing  *)
(*   DestroyUnjoined  no thread is destroyed while it is being joined      *)
(*   LoopIdle         no loop is destroyed while it is being polled        *)
(*   ShotsFired       no loop is stopped or destroyed before the functions  *)
(*                    of its one-shot timers have run                      *)
(*   TimersStopped    no loop is destroyed while a timer runs, or has not  *)
(*                    been removed since it ran when the loop was stopped  *)
(***************************************************************************)
AllLifeRules ==
    {"DestroyAdded", "DestroyIdle", "DestroyUnjoined", "LoopIdle", "ShotsFired",
     "TimersStopped"}

ASSUME ObjectsAssumption == OneShot \subseteq Timer /\ LifeRules \subseteq AllLifeRules

VARIABLES
    objects,     \* the thread and timer objects that exist
    loopExists   \* the loop does

objVars == <<vars, objects, loopExists>>

Needs(rule, condition) == rule \in LifeRules => condition

Joined(t) == \E i \in DOMAIN stack : stack[i].join = t

ObjInit == Init /\ objects = (Thread \cup Timer) \ OneShot /\ loopExists = TRUE

Same == UNCHANGED <<objects, loopExists>>

-----------------------------------------------------------------------------
\* thread(), in memory of an earlier one
NewThread(t) ==
    /\ t \notin objects
    /\ ThreadInit(t)
    /\ objects' = objects \cup {t}
    /\ UNCHANGED loopExists

\* Mutant: the destructor does not stop the thread.
DeleteThreadRunning(t) ==
    /\ UserRuns /\ t \in objects
    /\ Needs("DestroyAdded", state[t] # "INIT" \/ owner[t])
    /\ Needs("DestroyIdle", ref[t] = 0)
    /\ Needs("DestroyUnjoined", ~Joined(t))
    /\ UNCHANGED vars
    /\ objects' = objects \ {t}
    /\ UNCHANGED loopExists

\* ~thread: after the stop the thread is dead and the join returns at once, but a
\* thread that was never added has no loop for the join to poll.
DeleteThread(t) ==
    /\ UserRuns /\ t \in objects
    /\ Needs("DestroyAdded", state[t] # "INIT" \/ owner[t])
    /\ Needs("DestroyIdle", ref[t] = 0)
    /\ Needs("DestroyUnjoined", ~Joined(t))
    /\ CASE owner[t]                          -> Stop(t)
         [] ~owner[t] /\ state[t] = "DEAD"    -> UNCHANGED vars
         [] ~owner[t] /\ state[t] = "INIT"    -> /\ fault' = "null"
                                                 /\ UNCHANGED <<lists, waitq, count, threads,
                                                                armed, stale, current, stack>>
    /\ objects' = objects \ {t}
    /\ UNCHANGED loopExists

NewTimer(x) ==
    /\ UserRuns /\ x \notin objects /\ x \notin OneShot
    /\ objects' = objects \cup {x}
    /\ UNCHANGED <<vars, loopExists>>

\* ~timer, also in its own callback
DeleteTimer(x) ==
    /\ UserRuns /\ x \in objects \ OneShot
    /\ CASE x \in stale              -> StaleRemove(x)
         [] x \in armed \ stale       -> TimerRemove(x)
         [] x \notin armed \cup stale -> UNCHANGED vars
    /\ objects' = objects \ {x}
    /\ UNCHANGED loopExists

\* loop::timer_start
Schedule(x) ==
    /\ x \in OneShot \ objects /\ loopExists
    /\ TimerStart(x)
    /\ objects' = objects \cup {x}
    /\ UNCHANGED loopExists

\* Mutant: the function is not taken out of the timer after it has run.
FreedNot(x) == objects

\* A one-shot timer is freed when its callback returns; nobody can reach it before.
Freed(x) == objects \ (OneShot \cap {x})

Fires(x) == Expire(x) /\ objects' = Freed(x) /\ UNCHANGED loopExists

\* What ~loop needs of the timers.
TimersStopped == Needs("TimersStopped", armed \cap Timer = {} /\ stale = {})

\* loop::stop, ~loop
StopLoop ==
    /\ loopExists
    /\ Needs("ShotsFired", armed \cap OneShot = {})
    /\ LoopDestroy
    /\ UNCHANGED objects
    /\ \/ UNCHANGED loopExists
       \/ Needs("LoopIdle", stack = <<>>) /\ TimersStopped /\ loopExists' = FALSE

\* The other members call the library on objects that exist.  A loop that is gone
\* is replaced by a new one.
ThreadMembers(t) ==
    /\ t \in objects
    /\ Startup(t) \/ Stop(t) \/ (loopExists /\ LoopAdd(t)) \/ Join(t)
    /\ Same

TimerMembers(x) ==
    /\ x \in objects \ OneShot /\ loopExists
    /\ TimerStart(x) \/ TimerRemove(x) \/ StaleRemove(x)
    /\ Same

NewLoop == ~loopExists /\ UserRuns /\ loopExists' = TRUE /\ UNCHANGED <<vars, objects>>

Elsewhere ==
    /\ \/ \E t \in Thread : EntrySteps(t) \/ Timeout(t)
       \/ \E s \in Sem : SemCalls(s)
       \/ loopExists /\ Poll
       \/ CallbackReturn \/ TickDone \/ Dispatch \/ PollReturn \/ PollAgain
    /\ Same

ObjNext ==
    \/ \E t \in Thread : NewThread(t) \/ DeleteThread(t) \/ ThreadMembers(t)
    \/ \E x \in Timer : NewTimer(x) \/ DeleteTimer(x) \/ TimerMembers(x)
                        \/ Schedule(x) \/ Fires(x)
    \/ StopLoop \/ NewLoop \/ Elsewhere

ObjSpec == ObjInit /\ [][ObjNext]_objVars

-----------------------------------------------------------------------------
(***************************************************************************)
(* Properties.                                                             *)
(***************************************************************************)

\* What the loop, the semaphores, the ticker and the active polls point to.
Reached ==
    pending \cup Range(running) \cup Range(clip) \cup armed \cup stale
    \cup (UNION {Range(waitq[s]) : s \in Sem})
    \cup (UNION {{stack[i].thread, stack[i].old, stack[i].join} : i \in DOMAIN stack})
    \cup {current}

\* Whatever is destroyed, in whichever order, and whenever the rules allow it, in
\* callbacks and in other threads' entries included, nothing points to it afterwards:
\* no list, timer or poll to a thread or a timer, no thread or timer to a loop, and no
\* call of the library follows a NULL pointer or fails an assertion.
NoDangling ==
    /\ fault = "none"
    /\ Reached \subseteq objects \cup {NoThread}
    /\ ~loopExists => armed = {} /\ stale = {} /\ stack = <<>> /\ \A t \in Thread : ~owner[t]

\* A one-shot timer that exists will fire, and be freed: none is left over.
NoneLeaked == \A x \in OneShot \cap objects : x \in armed
=============================================================================
