--------------------------- MODULE MyptmObjectsProofs ---------------------------
(***************************************************************************)
(* Objects that are constructed and destroyed in any order, in callbacks   *)
(* and entries too, leave no pointer to an object that is gone, and no     *)
(* one-shot timer is left over, when the application follows the rules.    *)
(*                                                                         *)
(* The lists need no invariant of their own: they hold threads of the loop *)
(* (Placement, WaitersBlocked, ArmedIsBlocked), and a destructor takes its *)
(* thread out of the loop.  What a destructor does not look at are the     *)
(* active polls and p_thread_current.  They name threads that execute or   *)
(* are joined (CInv, NoReentrance), and those are not destroyed.           *)
(***************************************************************************)
EXTENDS MyptmObjects, MyptmCoreProofs

CoreInv == IInv /\ JoinedHasLoop /\ CInv

OwnersExist == \A t \in Thread : owner[t] => t \in objects

\* So do the timers that run, and those that point to the ticker; no function waits in
\* one of the latter.
TimersExist ==
    /\ armed \cap Timer \subseteq objects
    /\ stale \subseteq objects
    /\ stale \cap OneShot = {}

\* A poll names objects that exist, and a thread only while it executes one.
FrameExists(O, f) ==
    /\ {f.thread, f.old, f.join} \subseteq O \cup {NoThread}
    /\ f.phase # "entry" => f.thread = NoThread
    /\ f.phase \in {"tick", "callback"} => f.old = NoThread

PollsExist(O, stk, c) ==
    /\ \A i \in DOMAIN stk : FrameExists(O, stk[i])
    /\ c \in O \cup {NoThread}

LoopOutlives ==
    ~loopExists => armed = {} /\ stale = {} /\ stack = <<>> /\ \A t \in Thread : ~owner[t]

LifeInv ==
    /\ OwnersExist /\ TimersExist /\ PollsExist(objects, stack, current)
    /\ LoopOutlives /\ NoneLeaked

-----------------------------------------------------------------------------
(***************************************************************************)
(* The loop's own invariants: a step of an object is a step of the loop.   *)
(***************************************************************************)

\* A destructor that the rules allow stops its thread, or finds it dead.
LEMMA DeletedStops ==
    ASSUME LifeRules = AllLifeRules, TypeOK, Placement, NEW t \in Thread, DeleteThread(t)
    PROVE  \/ owner[t] /\ Stop(t)
           \/ ~owner[t] /\ UNCHANGED vars
<1>1. state[t] # "INIT" \/ owner[t]
  BY DEF DeleteThread, Needs, AllLifeRules
<1>2. owner[t] \in BOOLEAN
  BY DEF TypeOK
<1>3. CASE owner[t]
  BY <1>3 DEF DeleteThread
<1>4. CASE ~owner[t]
  <2>1. state[t] = "DEAD"
    BY <1>1, <1>4 DEF Placement
  <2> QED BY <1>4, <2>1 DEF DeleteThread
<1> QED BY <1>2, <1>3, <1>4

\* Which step of the loop each step of an object is.
LEMMA ObjectsStep ==
    ASSUME LifeRules = AllLifeRules, TypeOK, Placement, ObjNext
    PROVE  [Next]_vars
<1>1. ASSUME NEW t \in Thread, NewThread(t) \/ DeleteThread(t) \/ ThreadMembers(t)
      PROVE  [Next]_vars
  <2>1. CASE DeleteThread(t)
    BY <2>1, DeletedStops DEF Next, ThreadCalls
  <2> QED BY <1>1, <2>1 DEF NewThread, ThreadMembers, Next, ThreadCalls
<1>2. ASSUME NEW x \in Timer, TimerMembers(x) \/ Schedule(x) \/ Fires(x)
      PROVE  [Next]_vars
  BY <1>2 DEF TimerMembers, Schedule, Fires, Next, TimerCalls
<1>3. ASSUME NEW x \in Timer, NewTimer(x) PROVE [Next]_vars
  BY <1>3 DEF NewTimer
<1>4. ASSUME NEW x \in Timer, DeleteTimer(x) PROVE [Next]_vars
  <2>1. StaleRemove(x) \/ TimerRemove(x) \/ UNCHANGED vars
    BY <1>4 DEF DeleteTimer
  <2> QED BY <2>1 DEF Next, TimerCalls
<1>5. CASE StopLoop
  BY <1>5 DEF StopLoop, Next
<1>6. CASE NewLoop
  BY <1>6 DEF NewLoop
<1>7. CASE Elsewhere
  BY <1>7 DEF Elsewhere, Next
<1> QED BY <1>1, <1>2, <1>3, <1>4, <1>5, <1>6, <1>7 DEF ObjNext

LEMMA CoreKept ==
    ASSUME Rules = AllRules, LifeRules = AllLifeRules, CoreInv, [ObjNext]_objVars
    PROVE  CoreInv'
<1>1. CASE [Next]_vars
  BY <1>1, NextInv, NextCurrent DEF CoreInv, IInv
<1>2. CASE UNCHANGED objVars
  <2>1. UNCHANGED vars
    BY <1>2 DEF objVars
  <2> QED BY <1>1, <2>1
<1> QED BY <1>1, <1>2, ObjectsStep DEF CoreInv, IInv, ListsOK

-----------------------------------------------------------------------------
(***************************************************************************)
(* What the steps of the loop do to owners, timers and polls.              *)
(***************************************************************************)

SameTimers == armed' \cap Timer = armed \cap Timer /\ stale' = stale

OwnersStay == \A t \in Thread : owner'[t] => owner[t]

\* The calls on threads and semaphores, the steps of entries and of polls move no timer
\* of the application.
LEMMA StepsKeepTimers ==
    ASSUME TypeOK,
           \/ \E t \in Thread : \/ ThreadInit(t) \/ LoopAdd(t) \/ Startup(t) \/ Stop(t)
                                \/ Join(t) \/ EntrySteps(t) \/ Timeout(t)
           \/ \E s \in Sem : SemCalls(s)
           \/ Poll \/ CallbackReturn \/ TickDone \/ Dispatch \/ PollReturn \/ PollAgain
    PROVE  SameTimers
<1>0. \A t \in Thread : t \notin Timer
  BY CoreAssumption DEF CoreAssumption
<1>1. ASSUME NEW t \in Thread, armed' \in {armed, armed \ {t}, armed \cup {t}},
             stale' = stale
      PROVE  SameTimers
  BY <1>0, <1>1 DEF SameTimers
<1>2. ASSUME NEW t \in Thread,
             \/ ThreadInit(t) \/ LoopAdd(t) \/ Startup(t) \/ Stop(t) \/ Join(t) \/ Timeout(t)
      PROVE  SameTimers
  BY <1>1, <1>2 DEF ThreadInit, LoopAdd, Startup, Stop, Join, Timeout, Detach, StopTimers
<1>3. ASSUME NEW t \in Thread, EntrySteps(t) PROVE SameTimers
  <2>1. ASSUME NEW s, NEW timed, Block(t, s, timed) PROVE SameTimers
    BY <1>1, <2>1 DEF Block
  <2> QED BY <1>1, <1>3, <2>1 DEF EntrySteps, TakeNow, TakeBlock, Delay, EntryYield, EntryEnd, Detach,
                             StopTimers
<1>4. ASSUME NEW s \in Sem, SemCalls(s) PROVE SameTimers
  <2>1. ASSUME NEW k \in 0 .. Len(waitq[s]), NEW code, Wake(s, k, code) PROVE SameTimers
    <3>1. SubSeq(waitq[s], 1, k) \in Seq(Thread)
      BY <2>1 DEF TypeOK
    <3>2. Range(SubSeq(waitq[s], 1, k)) \subseteq Thread
      BY <3>1 DEF Range
    <3> QED BY <1>0, <2>1, <3>2 DEF Wake, StopTimers, SameTimers
  <2>2. Len(waitq[s]) \in Nat
    BY DEF TypeOK
  <2>3. ASSUME NEW n \in 1 .. MaxCount, SemGive(s, n) PROVE SameTimers
    BY <2>1, <2>2, <2>3 DEF SemGive
  <2> QED BY <1>4, <2>1, <2>2, <2>3 DEF SemCalls, SemGiveAll, SemDestroy, WakeAll, SemReset, SameTimers
<1>5. CASE Poll \/ CallbackReturn \/ TickDone \/ Dispatch \/ PollReturn \/ PollAgain
  BY <1>5 DEF Poll, CallbackReturn, TickDone, Dispatch, PollReturn, PollAgain, SameTimers
<1> QED BY <1>2, <1>3, <1>4, <1>5

-----------------------------------------------------------------------------
(***************************************************************************)
(* The moves of the stack, once more: whom the polls name.                 *)
(***************************************************************************)

\* The top frame is replaced.
LEMMA AtExists ==
    ASSUME stack \in Seq(Frame), stack # <<>>, NEW O, PollsExist(O, stack, current),
           NEW p \in Phase, NEW t \in MaybeThread, NEW o \in MaybeThread,
           stack' = At(p, t, o), {t, o, current'} \subseteq O \cup {NoThread},
           p # "entry" => t = NoThread,
           p \in {"tick", "callback"} => o = NoThread
    PROVE  PollsExist(O, stack', current')
<1>1. /\ Len(stack) \in DOMAIN stack /\ DOMAIN stack' = DOMAIN stack
      /\ stack'[Len(stack)].phase = p /\ stack'[Len(stack)].thread = t
      /\ \A i \in DOMAIN stack : i # Len(stack) => stack'[i] = stack[i]
      /\ \A i \in DOMAIN stack : stack'[i].join = stack[i].join
  BY AtFrames
<1>2. stack'[Len(stack)].old = o
  BY <1>1 DEF At
<1>3. FrameExists(O, stack'[Len(stack)])
  BY <1>1, <1>2 DEF PollsExist, FrameExists
<1>4. \A i \in DOMAIN stack' : FrameExists(O, stack'[i])
  BY <1>1, <1>3 DEF PollsExist
<1> QED BY <1>4 DEF PollsExist

\* A poll is called, or returns.
LEMMA PushExists ==
    ASSUME stack \in Seq(Frame), NEW O, PollsExist(O, stack, current),
           NEW t \in MaybeThread, t \in O \cup {NoThread},
           stack' = Append(stack, NewFrame(t)), current' = current
    PROVE  PollsExist(O, stack', current')
<1>1. NewFrame(t) \in Frame /\ FrameExists(O, NewFrame(t))
  BY DEF NewFrame, Frame, FrameExists, MaybeThread
<1>2. \A i \in DOMAIN stack' : stack'[i] = NewFrame(t) \/ (i \in DOMAIN stack /\ stack'[i] = stack[i])
  BY <1>1
<1> QED BY <1>1, <1>2 DEF PollsExist

LEMMA PopExists ==
    ASSUME stack \in Seq(Frame), stack # <<>>, NEW O, PollsExist(O, stack, current),
           stack' = Front(stack), current' \in O \cup {NoThread}
    PROVE  PollsExist(O, stack', current')
<1>1. \A i \in DOMAIN stack' : i \in DOMAIN stack /\ stack'[i] = stack[i]
  BY DEF Front
<1> QED BY <1>1 DEF PollsExist

\* Whom the top frame names.
LEMMA TopExists ==
    ASSUME stack \in Seq(Frame), stack # <<>>, NEW O, PollsExist(O, stack, current)
    PROVE  Top.old \in O \cup {NoThread} /\ Top.old \in MaybeThread
<1>1. Len(stack) \in DOMAIN stack
  OBVIOUS
<1> QED BY <1>1, TopTyped DEF PollsExist, FrameExists, Top

\* A thread that is called is in the loop, and so is one that is joined.
LEMMA StepsExist ==
    ASSUME Rules = AllRules, CoreInv, OwnersExist, PollsExist(objects, stack, current),
           [Next]_vars
    PROVE  PollsExist(objects, stack', current')
<1>0. /\ TypeOK /\ ListsOK /\ stack \in Seq(Frame)
      /\ current \in MaybeThread /\ current \in objects \cup {NoThread}
      /\ NoThread \in MaybeThread /\ NoThread \in objects \cup {NoThread}
      /\ Phase = {"tick", "callback", "run", "entry"}
  BY DEF CoreInv, IInv, TypeOK, MaybeThread, Phase, PollsExist
<1>1. CASE stack' = stack /\ current' = current
  BY <1>1
<1>2. ASSUME NEW t \in Thread, Join(t) PROVE PollsExist(objects, stack', current')
  <2>1. owner[t]
    BY <1>2 DEF Join, Obeys, AllRules
  <2>2. t \in objects /\ t \in MaybeThread /\ current' = current
    BY <1>2, <2>1 DEF OwnersExist, Join, MaybeThread
  <2>3. stack' = stack \/ stack' = Append(stack, NewFrame(t))
    BY <1>2 DEF Join
  <2> QED BY <1>0, <1>1, <2>2, <2>3, PushExists
<1>3. CASE Poll
  BY <1>0, <1>3, PushExists DEF Poll
<1>4. ASSUME NEW t \in Thread, EntrySteps(t) PROVE PollsExist(objects, stack', current')
  <2>1. stack # <<>> /\ current' = current
    BY <1>4 DEF EntrySteps, TakeNow, TakeBlock, Delay, Block, EntryYield, EntryEnd, InEntry, InPhase
  <2>2. stack' = stack \/ stack' = At("run", NoThread, Top.old)
    BY <1>4 DEF EntrySteps, TakeNow, TakeBlock, Delay, Block, EntryYield, EntryEnd, LeaveEntry
  <2>3. Top.old \in objects \cup {NoThread} /\ Top.old \in MaybeThread
    BY <1>0, <2>1, TopExists
  <2>4. CASE stack' = At("run", NoThread, Top.old)
    BY <1>0, <2>1, <2>3, <2>4, AtExists
  <2> QED BY <1>1, <2>1, <2>2, <2>4
<1>5. ASSUME NEW x \in Timer, Expire(x) PROVE PollsExist(objects, stack', current')
  BY <1>0, <1>5, AtExists DEF Expire, InPhase
<1>6. CASE CallbackReturn
  BY <1>0, <1>6, AtExists DEF CallbackReturn, InPhase
<1>7. CASE TickDone
  BY <1>0, <1>7, AtExists DEF TickDone, InPhase
<1>8. CASE Dispatch
  <2>1. stack # <<>>
    BY <1>8 DEF Dispatch, InPhase
  <2>2. Head(clip) \in Thread /\ owner[Head(clip)]
    BY <1>0, <1>8, DispatchLists DEF Dispatch, threads
  <2>3. Head(clip) \in objects /\ Head(clip) \in MaybeThread
    BY <2>2 DEF OwnersExist, MaybeThread
  <2>4. Top.old \in objects \cup {NoThread} /\ Top.old \in MaybeThread
    BY <1>0, <2>1, TopExists
  <2>5. CASE stack' = At("entry", Head(clip), Top.old) /\ current' = Head(clip)
    BY <1>0, <2>1, <2>3, <2>4, <2>5, AtExists
  <2> QED BY <1>1, <1>8, <2>5 DEF Dispatch
<1>9. CASE PollReturn
  <2>1. stack # <<>> /\ stack' = Front(stack) /\ current' = Top.old
    BY <1>9 DEF PollReturn, RestoreCurrent, InPhase
  <2> QED BY <1>0, <2>1, TopExists, PopExists
<1>10. CASE PollAgain
  <2>1. stack # <<>> /\ current' = Top.old
    BY <1>10 DEF PollAgain, RestoreCurrent, InPhase
  <2>2. current' \in objects \cup {NoThread}
    BY <1>0, <2>1, TopExists
  <2>3. CASE stack' = stack
    BY <2>2, <2>3 DEF PollsExist
  <2>4. CASE stack' = At("tick", NoThread, NoThread)
    BY <1>0, <2>1, <2>2, <2>4, AtExists
  <2> QED BY <1>10, <2>3, <2>4 DEF PollAgain
<1>11. ASSUME NEW t \in Thread, ThreadCalls(t) \/ Timeout(t), ~Join(t)
       PROVE  stack' = stack /\ current' = current
  BY <1>11 DEF ThreadCalls, ThreadInit, LoopAdd, Startup, Stop, Resume, Timeout
<1>12. ASSUME NEW s \in Sem, SemCalls(s) PROVE stack' = stack /\ current' = current
  BY <1>12 DEF SemCalls, SemGive, SemGiveAll, SemDestroy, WakeAll, SemReset
<1>13. ASSUME NEW x \in Timer, TimerCalls(x) PROVE stack' = stack /\ current' = current
  BY <1>13 DEF TimerCalls, TimerInit, TimerStart, TimerRemove, StaleRemove
<1>14. CASE LoopDestroy
  BY <1>1, <1>14 DEF LoopDestroy
<1>15. CASE UNCHANGED vars
  BY <1>1, <1>15 DEF vars
<1> QED BY <1>1, <1>2, <1>3, <1>4, <1>5, <1>6, <1>7, <1>8, <1>9, <1>10, <1>11, <1>12, <1>13,
           <1>14, <1>15 DEF Next

\* A thread that is innermost in a part of the stack is executing.
LEMMA InnermostExecutes ==
    ASSUME TypeOK, NoReentrance, NEW n \in 0 .. Len(stack), NEW u \in Thread,
           Innermost(stack, n, u)
    PROVE  ref[u] # 0
<1>1. u # NoThread /\ DOMAIN stack = 1 .. Len(stack) /\ Len(stack) \in Nat
  BY CoreAssumption DEF CoreAssumption, TypeOK
<1>2. PICK j \in 1 .. n : stack[j].phase = "entry" /\ stack[j].thread = u
  BY <1>1 DEF Innermost
<1>3. j \in Activations(u)
  BY <1>1, <1>2 DEF Activations
<1> QED BY <1>3 DEF NoReentrance

\* A thread that is not executing and not joined is named by no poll when code of the
\* application runs.
LEMMA IdleUnnamed ==
    ASSUME CoreInv, UserRuns, PollsExist(objects, stack, current), NEW t \in Thread, ref[t] = 0,
           ~Joined(t)
    PROVE  PollsExist(objects \ {t}, stack, current)
<1>0. TypeOK /\ NoReentrance /\ stack \in Seq(Frame) /\ current \in MaybeThread
  BY DEF CoreInv, IInv, TypeOK, MaybeThread
<1>1. t # NoThread /\ DOMAIN stack = 1 .. Len(stack) /\ Len(stack) \in Nat
  BY <1>0, CoreAssumption DEF CoreAssumption
<1>2. \A n \in 0 .. Len(stack) : ~Innermost(stack, n, t)
  BY <1>0, InnermostExecutes
<1>3. current # t
  <2>1. Innermost(stack, Len(stack), current)
    BY DEF CoreInv, CInv, CallerKept, CurrentIsBelow, UserRuns, Top
  <2> QED BY <1>1, <1>2, <2>1
<1>4. ASSUME NEW i \in DOMAIN stack PROVE FrameExists(objects \ {t}, stack[i])
  <2>1. FrameExists(objects, stack[i])
    BY DEF PollsExist
  <2>2. stack[i].phase \in {"callback", "entry"}
    BY <1>1 DEF CoreInv, CInv, CallerKept, CalledByUser, UserRuns, Top
  <2>3. stack[i].thread # t
    <3>1. CASE stack[i].phase = "entry"
      BY <1>0, <3>1 DEF NoReentrance, Activations
    <3> QED BY <1>1, <2>1, <3>1 DEF FrameExists
  <2>4. stack[i].old # t
    <3>1. CASE stack[i].phase = "entry"
      <4>1. Innermost(stack, i - 1, stack[i].old) /\ i - 1 \in 0 .. Len(stack)
        BY <1>1, <3>1 DEF CoreInv, CInv, CallerKept, OldIsBelow
      <4> QED BY <1>2, <4>1
    <3> QED BY <1>1, <2>1, <2>2, <3>1 DEF FrameExists
  <2>5. stack[i].join # t
    BY DEF Joined
  <2> QED BY <2>1, <2>3, <2>4, <2>5 DEF FrameExists
<1> QED BY <1>3, <1>4 DEF PollsExist

-----------------------------------------------------------------------------
(***************************************************************************)
(* The steps of the objects, and the theorems.                             *)
(***************************************************************************)

\* What follows when the objects and the loop only become more.
LEMMA LifeGrows ==
    ASSUME Rules = AllRules, CoreInv, LifeInv, CoreInv', [Next]_vars,
           objects \subseteq objects',
           OwnersStay \/ \E t \in objects : LoopAdd(t),
           armed' \cap Timer \subseteq armed \cup objects',
           stale' \subseteq stale,
           OneShot \cap objects' \subseteq armed',
           loopExists => loopExists',
           loopExists' \/ (SameTimers /\ stack' = <<>> /\ OwnersStay)
    PROVE  LifeInv'
<1>1. OwnersExist'
  BY DEF LifeInv, OwnersExist, OwnersStay, LoopAdd, CoreInv, IInv, TypeOK
<1>2. TimersExist'
  BY DEF LifeInv, TimersExist
<1>3. PollsExist(objects', stack', current')
  <2>1. PollsExist(objects, stack', current')
    BY StepsExist DEF LifeInv
  <2> QED BY <2>1 DEF PollsExist, FrameExists
<1>4. LoopOutlives'
  <2> SUFFICES ASSUME ~loopExists'
               PROVE  /\ armed' = {} /\ stale' = {} /\ stack' = <<>>
                      /\ \A t \in Thread : ~owner'[t]
    BY DEF LoopOutlives
  <2>1. ~loopExists /\ SameTimers /\ stack' = <<>> /\ OwnersStay
    OBVIOUS
  <2>2. armed = {} /\ stale' = {} /\ \A t \in Thread : ~owner'[t]
    BY <2>1 DEF LifeInv, LoopOutlives, OwnersStay
  <2>3. armed' \subseteq Thread \cup Timer /\ armed' \cap Thread = {}
    BY <2>2 DEF CoreInv, IInv, TypeOK, ListsOK, ArmedIsBlocked
  <2> QED BY <2>1, <2>2, <2>3 DEF SameTimers
<1>5. NoneLeaked'
  BY DEF NoneLeaked
<1> QED BY <1>1, <1>2, <1>3, <1>4, <1>5 DEF LifeInv

\* A call of the library that moves no timer, by threads that exist.
LEMMA LifeCalls ==
    ASSUME Rules = AllRules, CoreInv, LifeInv, CoreInv', [Next]_vars, SameTimers,
           objects' = objects, loopExists' = loopExists,
           OwnersStay \/ (loopExists /\ \E t \in objects : LoopAdd(t)),
           loopExists \/ stack' = stack
    PROVE  LifeInv'
<1>1. armed' \cap Timer = armed \cap Timer /\ stale' = stale /\ OneShot \subseteq Timer
  BY ObjectsAssumption DEF SameTimers, ObjectsAssumption
<1>2. OneShot \cap objects' \subseteq armed'
  BY <1>1 DEF LifeInv, NoneLeaked
<1>3. (loopExists => loopExists') /\ (loopExists' \/ (stack' = <<>> /\ OwnersStay))
  BY DEF LifeInv, LoopOutlives
<1> QED BY <1>1, <1>2, <1>3, LifeGrows

\* thread() and ~thread
LEMMA NewThreadLife ==
    ASSUME Rules = AllRules, CoreInv, LifeInv, CoreInv', NEW t \in Thread, NewThread(t)
    PROVE  LifeInv'
<1>1. /\ [Next]_vars /\ SameTimers /\ OwnersStay
      /\ stack' = stack /\ armed' = armed /\ stale' = stale
  BY DEF NewThread, ThreadInit, Next, ThreadCalls, SameTimers, OwnersStay
<1>2. t \notin OneShot
  BY CoreAssumption, ObjectsAssumption DEF CoreAssumption, ObjectsAssumption
<1>3. OneShot \cap objects' \subseteq armed' /\ objects \subseteq objects' /\ loopExists' = loopExists
  BY <1>1, <1>2 DEF NewThread, LifeInv, NoneLeaked
<1>4. loopExists' \/ stack' = <<>>
  BY <1>1, <1>3 DEF LifeInv, LoopOutlives
<1>5. armed' \cap Timer \subseteq armed \cup objects' /\ (loopExists => loopExists')
  BY <1>1, <1>3
<1> QED BY <1>1, <1>3, <1>4, <1>5, LifeGrows

LEMMA DeleteThreadLife ==
    ASSUME LifeRules = AllLifeRules, CoreInv, LifeInv, CoreInv', NEW t \in Thread,
           DeleteThread(t)
    PROVE  LifeInv'
<1>0. TypeOK /\ Placement
  BY DEF CoreInv, IInv, ListsOK
<1>1. /\ UserRuns /\ ref[t] = 0 /\ ~Joined(t)
      /\ objects' = objects \ {t} /\ loopExists' = loopExists
  BY DEF DeleteThread, Needs, AllLifeRules
<1>2. t \notin Timer
  BY CoreAssumption DEF CoreAssumption
<1>3. /\ stack' = stack /\ current' = current /\ armed' \subseteq armed
      /\ SameTimers /\ stale' = stale /\ OwnersStay /\ ~owner'[t]
  <2>1. CASE owner[t] /\ Stop(t)
    BY <1>0, <1>2, <2>1 DEF Stop, Detach, StopTimers, SameTimers, OwnersStay, TypeOK
  <2>2. CASE ~owner[t] /\ UNCHANGED vars
    BY <2>2 DEF vars, SameTimers, OwnersStay
  <2> QED BY <1>0, <2>1, <2>2, DeletedStops
<1>4. OwnersExist'
  BY <1>1, <1>3 DEF LifeInv, OwnersExist, OwnersStay
<1>5. TimersExist' /\ NoneLeaked'
  <2>1. stale \subseteq Timer
    BY <1>0 DEF TypeOK
  <2> QED BY <1>1, <1>2, <1>3, <2>1, ObjectsAssumption
          DEF LifeInv, TimersExist, NoneLeaked, SameTimers, ObjectsAssumption
<1>6. PollsExist(objects', stack', current')
  BY <1>1, <1>3, IdleUnnamed DEF LifeInv
<1>7. LoopOutlives'
  BY <1>1, <1>3 DEF LifeInv, LoopOutlives, OwnersStay
<1> QED BY <1>4, <1>5, <1>6, <1>7 DEF LifeInv

\* The members of thread.
LEMMA ThreadMembersLife ==
    ASSUME Rules = AllRules, CoreInv, LifeInv, CoreInv', NEW t \in Thread, ThreadMembers(t)
    PROVE  LifeInv'
<1>0. TypeOK
  BY DEF CoreInv, IInv
<1>1. /\ [Next]_vars /\ SameTimers /\ objects' = objects /\ loopExists' = loopExists
      /\ t \in objects
  BY <1>0, StepsKeepTimers DEF ThreadMembers, Same, Next, ThreadCalls
<1>2. CASE LoopAdd(t)
  <2>1. ~owner[t] /\ stack' = stack
    BY <1>2 DEF LoopAdd
  <2>2. ~Startup(t) /\ ~Stop(t) /\ ~Join(t)
    BY <2>1 DEF Startup, Stop, Join, Obeys, AllRules
  <2>3. loopExists
    BY <2>2 DEF ThreadMembers
  <2> QED BY <1>1, <1>2, <2>1, <2>3, LifeCalls
<1>3. CASE Startup(t) \/ Stop(t)
  <2>1. OwnersStay /\ stack' = stack
    BY <1>0, <1>3 DEF Startup, Stop, Detach, OwnersStay, TypeOK
  <2> QED BY <1>1, <2>1, LifeCalls
<1>4. CASE Join(t)
  <2>1. OwnersStay /\ owner[t]
    BY <1>4 DEF Join, OwnersStay, threads, Obeys, AllRules
  <2>2. loopExists
    BY <2>1 DEF LifeInv, LoopOutlives
  <2> QED BY <1>1, <2>1, <2>2, LifeCalls
<1> QED BY <1>2, <1>3, <1>4 DEF ThreadMembers

\* timer(), ~timer and the members that start and remove timers.
LEMMA TimersLife ==
    ASSUME Rules = AllRules, LifeRules = AllLifeRules, CoreInv, LifeInv, CoreInv',
           NEW x \in Timer,
           NewTimer(x) \/ DeleteTimer(x) \/ TimerMembers(x) \/ Schedule(x) \/ Fires(x)
    PROVE  LifeInv'
<1>0. x \notin Thread /\ OneShot \subseteq Timer
  BY CoreAssumption, ObjectsAssumption DEF CoreAssumption, ObjectsAssumption
<1>1. CASE NewTimer(x)
  <2>1. vars' = vars /\ loopExists' = loopExists /\ objects' = objects \cup {x} /\ x \notin OneShot
    BY <1>1 DEF NewTimer
  <2>2. stack' = stack /\ armed' = armed /\ stale' = stale /\ owner' = owner
    BY <2>1 DEF vars
  <2>3. OwnersStay /\ SameTimers /\ armed' \cap Timer \subseteq armed \cup objects'
    BY <2>2 DEF OwnersStay, SameTimers
  <2>4. OneShot \cap objects' \subseteq armed' /\ (loopExists' \/ stack' = <<>>)
    BY <2>1, <2>2 DEF LifeInv, NoneLeaked, LoopOutlives
  <2> QED BY <2>1, <2>2, <2>3, <2>4, LifeGrows
<1>2. CASE Schedule(x) \/ (TimerMembers(x) /\ TimerStart(x))
  <2>1. /\ TimerStart(x) /\ loopExists /\ loopExists' = loopExists
        /\ objects' = objects \cup {x}
    BY <1>2 DEF Schedule, TimerMembers, Same
  <2>2. /\ armed' = armed \cup {x} /\ stale' = stale
        /\ stack' = stack /\ owner' = owner
    BY <2>1 DEF TimerStart, threads, Obeys, AllRules
  <2>3. [Next]_vars /\ OwnersStay
    BY <2>1, <2>2 DEF Next, TimerCalls, OwnersStay
  <2>4. armed' \cap Timer \subseteq armed \cup objects'
    BY <2>1, <2>2
  <2>5. OneShot \cap objects' \subseteq armed'
    BY <2>1, <2>2 DEF LifeInv, NoneLeaked
  <2> QED BY <2>1, <2>2, <2>3, <2>4, <2>5, LifeGrows
<1>3. CASE TimerMembers(x) /\ (TimerRemove(x) \/ StaleRemove(x))
  <2>1. /\ armed' \subseteq armed /\ armed \ {x} \subseteq armed' /\ stale' \subseteq stale
        /\ objects' = objects /\ loopExists' = loopExists /\ loopExists
        /\ owner' = owner /\ x \notin OneShot
    BY <1>3 DEF TimerMembers, Same, TimerRemove, StaleRemove, threads
  <2>2. [Next]_vars /\ OwnersStay
    BY <1>3, <2>1 DEF Next, TimerCalls, OwnersStay
  <2>3. OneShot \cap objects' \subseteq armed'
    BY <2>1 DEF LifeInv, NoneLeaked
  <2> QED BY <2>1, <2>2, <2>3, LifeGrows
<1>4. CASE DeleteTimer(x) \/ Fires(x)
  <2>1. /\ armed' = armed \ {x} /\ owner' = owner /\ loopExists' = loopExists
        /\ stale' \subseteq stale
        /\ stack' = stack \/ stack # <<>>
        /\ \/ objects' = objects \ {x} /\ x \notin OneShot /\ x \notin stale'
           \/ objects' = objects \ (OneShot \cap {x})
    <3>1. CASE Fires(x)
      BY <3>1 DEF Fires, Freed, Expire, InPhase, threads
    <3>2. CASE DeleteTimer(x)
      <4>1. CASE x \in stale
        BY <3>2, <4>1 DEF DeleteTimer, StaleRemove, Obeys, AllRules, threads
      <4>2. CASE x \in armed \ stale
        BY <3>2, <4>2 DEF DeleteTimer, TimerRemove, threads
      <4>3. CASE x \notin armed \cup stale
        BY <3>2, <4>3 DEF DeleteTimer, vars
      <4> QED BY <4>1, <4>2, <4>3
    <3> QED BY <1>4, <3>1, <3>2
  <2>2. OwnersExist' /\ TimersExist' /\ NoneLeaked'
    BY <1>0, <2>1 DEF LifeInv, OwnersExist, TimersExist, NoneLeaked
  <2>3. PollsExist(objects, stack', current')
    <3>1. [Next]_vars
      BY <1>0, <1>4, ObjectsStep DEF ObjNext, CoreInv, IInv, ListsOK
    <3> QED BY <3>1, StepsExist DEF LifeInv
  <2>4. PollsExist(objects', stack', current')
    <3>1. stack' \in Seq(Frame) /\ current' \in MaybeThread
      BY DEF CoreInv, IInv, TypeOK, MaybeThread
    <3>2. objects \cap Thread \subseteq objects'
      BY <1>0, <2>1
    <3>3. \A i \in DOMAIN stack' : /\ stack'[i].thread \in Thread \cup {NoThread}
                                   /\ stack'[i].old \in Thread \cup {NoThread}
                                   /\ stack'[i].join \in Thread \cup {NoThread}
      <4>1. \A i \in DOMAIN stack' : stack'[i] \in Frame
        BY <3>1
      <4> QED BY <4>1 DEF Frame
    <3> QED BY <2>3, <3>1, <3>2, <3>3 DEF PollsExist, FrameExists, MaybeThread
  <2>5. LoopOutlives'
    <3>1. ~loopExists => /\ armed = {} /\ stale = {} /\ stack = <<>>
                         /\ \A t \in Thread : ~owner[t]
      BY DEF LifeInv, LoopOutlives
    <3> QED BY <2>1, <3>1 DEF LoopOutlives
  <2> QED BY <2>2, <2>4, <2>5 DEF LifeInv
<1> QED BY <1>1, <1>2, <1>3, <1>4 DEF TimerMembers

\* loop(), ~loop and loop::stop
LEMMA LoopLife ==
    ASSUME LifeRules = AllLifeRules, CoreInv, LifeInv, StopLoop \/ NewLoop
    PROVE  LifeInv'
<1>1. CASE NewLoop
  BY <1>1 DEF NewLoop, vars, LifeInv, OwnersExist, TimersExist, PollsExist, LoopOutlives,
              NoneLeaked
<1>2. CASE StopLoop
  <2>1. /\ armed' = {} /\ stale' = stale \cup (armed \cap Timer)
        /\ stack' = stack /\ current' = current /\ objects' = objects
        /\ \A t \in Thread : ~owner'[t]
        /\ armed \cap OneShot = {}
        /\ \/ loopExists' = loopExists /\ loopExists
           \/ stack = <<>> /\ armed \cap Timer = {} /\ stale = {}
    BY <1>2 DEF StopLoop, TimersStopped, LoopDestroy, TickDestroy, Needs, AllLifeRules, threads
  <2>2. NoneLeaked'
    BY <2>1 DEF LifeInv, NoneLeaked
  <2>3. TimersExist' /\ LoopOutlives'
    BY <2>1 DEF LifeInv, TimersExist, LoopOutlives
  <2>4. OwnersExist' /\ PollsExist(objects', stack', current')
    BY <2>1 DEF LifeInv, OwnersExist
  <2> QED BY <2>2, <2>3, <2>4 DEF LifeInv
<1> QED BY <1>1, <1>2

\* Semaphores, the steps of entries and the steps of polls.
LEMMA ElsewhereLife ==
    ASSUME Rules = AllRules, CoreInv, LifeInv, CoreInv', Elsewhere
    PROVE  LifeInv'
<1>0. TypeOK
  BY DEF CoreInv, IInv
<1>1. [Next]_vars /\ SameTimers /\ objects' = objects /\ loopExists' = loopExists
  BY <1>0, StepsKeepTimers DEF Elsewhere, Same, Next
<1>2. OwnersStay
  <2>1. ASSUME NEW t \in Thread, EntrySteps(t) \/ Timeout(t) PROVE OwnersStay
    BY <1>0, <2>1 DEF EntrySteps, TakeNow, TakeBlock, Delay, Block, EntryYield, EntryEnd, Timeout,
                Detach, OwnersStay, TypeOK, threads
  <2>2. ASSUME NEW s \in Sem, SemCalls(s) PROVE OwnersStay
    BY <2>2 DEF SemCalls, SemGive, SemGiveAll, SemDestroy, WakeAll, SemReset, OwnersStay, threads
  <2>3. CASE Poll \/ CallbackReturn \/ TickDone \/ Dispatch \/ PollReturn \/ PollAgain
    BY <2>3 DEF Poll, CallbackReturn, TickDone, Dispatch, PollReturn, PollAgain, OwnersStay,
                threads
  <2> QED BY <2>1, <2>2, <2>3 DEF Elsewhere
<1>3. loopExists \/ stack' = stack
  <2> SUFFICES ASSUME ~loopExists PROVE stack' = stack
    OBVIOUS
  <2>1. stack = <<>>
    BY DEF LifeInv, LoopOutlives
  <2>2. ASSUME NEW t \in Thread, EntrySteps(t) \/ Timeout(t) PROVE FALSE
    BY <2>1, <2>2 DEF EntrySteps, TakeNow, TakeBlock, Delay, EntryYield, EntryEnd, Timeout,
                      InEntry, InPhase
  <2>3. ASSUME NEW s \in Sem, SemCalls(s) PROVE stack' = stack
    BY <2>3 DEF SemCalls, SemGive, SemGiveAll, SemDestroy, WakeAll, SemReset
  <2>4. ~(CallbackReturn \/ TickDone \/ Dispatch \/ PollReturn \/ PollAgain)
    BY <2>1 DEF CallbackReturn, TickDone, Dispatch, PollReturn, PollAgain, InPhase
  <2> QED BY <2>2, <2>3, <2>4 DEF Elsewhere
<1> QED BY <1>0, <1>1, <1>2, <1>3, LifeCalls

\* All objects of the application exist at first, and no one-shot timer does.
LEMMA InitLife == ASSUME ObjInit PROVE CoreInv /\ LifeInv
<1>1. CoreInv
  BY InitInv, InitCurrent DEF ObjInit, CoreInv
<1>2. LifeInv
  BY ObjectsAssumption, CoreAssumption
     DEF ObjInit, Init, LoopInit, ThreadsInit, LifeInv, OwnersExist, TimersExist, PollsExist,
         LoopOutlives, NoneLeaked, ObjectsAssumption, CoreAssumption
<1> QED BY <1>1, <1>2

LEMMA LifeKept ==
    ASSUME Rules = AllRules, LifeRules = AllLifeRules, CoreInv, LifeInv, [ObjNext]_objVars
    PROVE  CoreInv' /\ LifeInv'
<1>1. CoreInv'
  BY CoreKept
<1>2. CASE ObjNext
  BY <1>1, <1>2, NewThreadLife, DeleteThreadLife, ThreadMembersLife, TimersLife, LoopLife,
     ElsewhereLife DEF ObjNext
<1>3. CASE UNCHANGED objVars
  <2>1. LifeInv'
    BY <1>3 DEF objVars, vars, LifeInv, OwnersExist, TimersExist, PollsExist, LoopOutlives,
                NoneLeaked
  <2> QED BY <1>1, <2>1
<1> QED BY <1>1, <1>2, <1>3

\* Every list of the loop holds threads of the loop.
LEMMA LifeShows ==
    ASSUME CoreInv, LifeInv
    PROVE  NoDangling /\ NoneLeaked
<1>0. TypeOK /\ Placement /\ WaitersBlocked /\ ArmedIsBlocked /\ fault = "none"
  BY DEF CoreInv, IInv, ListsOK, NoFault
<1>1. pending \cup Range(running) \cup Range(clip) \subseteq objects
  BY <1>0 DEF Placement, LifeInv, OwnersExist
<1>2. armed \cup stale \subseteq objects
  BY <1>0 DEF TypeOK, ArmedIsBlocked, LifeInv, OwnersExist, TimersExist
<1>3. ASSUME NEW s \in Sem PROVE Range(waitq[s]) \subseteq objects
  <2>1. waitq[s] \in Seq(Thread)
    BY <1>0 DEF TypeOK
  <2>2. Range(waitq[s]) \subseteq Thread
    BY <2>1 DEF Range
  <2>3. \A t \in Range(waitq[s]) : owner[t]
    BY <1>0, <2>2 DEF WaitersBlocked, Placement
  <2> QED BY <2>2, <2>3 DEF LifeInv, OwnersExist
<1>4. /\ \A i \in DOMAIN stack : {stack[i].thread, stack[i].old, stack[i].join}
                                     \subseteq objects \cup {NoThread}
      /\ current \in objects \cup {NoThread}
  BY DEF LifeInv, PollsExist, FrameExists
<1>5. Reached \subseteq objects \cup {NoThread}
  BY <1>1, <1>2, <1>3, <1>4 DEF Reached
<1> QED BY <1>0, <1>5 DEF NoDangling, LifeInv, LoopOutlives

\* Whatever is destroyed, and whenever the rules allow it, nothing points to it afterwards:
\* no list, timer, wait queue or poll, nor p_thread_current.
THEOREM NothingDangles ==
    ASSUME Rules = AllRules, LifeRules = AllLifeRules
    PROVE  ObjSpec => []NoDangling
<1>1. ObjInit => CoreInv /\ LifeInv
  BY InitLife
<1>2. CoreInv /\ LifeInv /\ [ObjNext]_objVars => (CoreInv /\ LifeInv)'
  BY LifeKept
<1>3. CoreInv /\ LifeInv => NoDangling
  BY LifeShows
<1> QED BY <1>1, <1>2, <1>3, PTL DEF ObjSpec

\* A one-shot timer, which holds itself alive, is freed by firing or waits to fire.
THEOREM ShotsAreFreed ==
    ASSUME Rules = AllRules, LifeRules = AllLifeRules
    PROVE  ObjSpec => []NoneLeaked
<1>1. ObjInit => CoreInv /\ LifeInv
  BY InitLife
<1>2. CoreInv /\ LifeInv /\ [ObjNext]_objVars => (CoreInv /\ LifeInv)'
  BY LifeKept
<1>3. CoreInv /\ LifeInv => NoneLeaked
  BY LifeShows
<1> QED BY <1>1, <1>2, <1>3, PTL DEF ObjSpec
=============================================================================
