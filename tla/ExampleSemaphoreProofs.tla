------------------------ MODULE ExampleSemaphoreProofs -------------------------
(***************************************************************************)
(* The safety of ExampleSemaphore and of ExampleDriver, for any number of  *)
(* threads and any depth of polls: no token is lost or had twice, no byte  *)
(* of the driver either, and the library is never made to fault, although  *)
(* both programs start a timer in its own callback and destroy the loop in *)
(* a callback.                                                             *)
(***************************************************************************)
EXTENDS ExampleDriver, MyptmCoreProofs

LEMMA Constants ==
    /\ TheSem \in Sem /\ Sem = {TheSem} /\ TheSem # NoSem /\ NoSem \notin Sem
    /\ Timer = {Period, StopTimer} /\ Period # StopTimer
    /\ \A t \in Thread : t \notin Timer
    /\ MaxCount > 0
    /\ Started \in Seq(Thread) /\ Range(Started) = Thread /\ IsInjective(Started)
BY CoreAssumption, ExampleSemaphoreAssumption
   DEF CoreAssumption, ExampleSemaphoreAssumption

LEMMA ThreadsFinite == IsFiniteSet(Thread)
<1>1. DOMAIN Started = 1 .. Len(Started) /\ Len(Started) \in Nat
  BY Constants
<1>2. IsFiniteSet(1 .. Len(Started))
  BY <1>1, IntervalSize
<1>3. Started \in [1 .. Len(Started) -> Thread]
  BY <1>1, Constants
<1>4. \A t \in Thread : \E k \in 1 .. Len(Started) : Started[k] = t
  BY <1>1, Constants DEF Range
<1>5. Started \in Surjection(1 .. Len(Started), Thread)
  BY <1>3, <1>4 DEF Surjection
<1> QED BY <1>2, <1>5, FS_Surjection

-----------------------------------------------------------------------------
(***************************************************************************)
(* What both programs keep to.                                             *)
(***************************************************************************)
Places == {"take", "look", "read", "test", "delay"}

\* Who waits for a token has come to the code that looks at the result.
WaitPlaces ==
    \A t \in Thread : state[t] = "PENDING" /\ lc[t] = TheSem => pc[t] = "look"

\* A callback that has calls to make is at the top of the stack.  The timer it starts
\* again is its own, which has left the ticker, and so is the one that destroys the loop,
\* which runs in a poll that no entry makes.
CallbackPlaces ==
    /\ callback # "none" => stack # <<>> /\ Top.phase = "callback"
    /\ callback \in {"give", "start"} => Period \notin armed \cup stale
    /\ callback = "stop" => Len(stack) = 1 /\ StopTimer \notin armed

Code == pc \in [Thread -> Places] /\ WaitPlaces /\ CallbackPlaces

\* No entry is executing in a thread that was stopped.
Machine == IInv /\ EntriesOwned

Known == Machine /\ Code

\* A timer that the destroyed loop left linked to the ticker is not in it.
StaleIdle == armed \cap stale = {}

\* The tokens that are counted or in the hands of threads.
Owed == count[TheSem] + Cardinality(Handed)

-----------------------------------------------------------------------------
\* The size of the set of threads with a token, and what one that comes or goes does.
LEMMA Sizes ==
    /\ IsFiniteSet(Handed) /\ Cardinality(Handed) \in Nat
    /\ \A t \in Thread : /\ t \notin Handed => Cardinality(Handed \cup {t}) = Cardinality(Handed) + 1
                         /\ t \in Handed => Cardinality(Handed \ {t}) = Cardinality(Handed) - 1
<1>1. Handed \in SUBSET Thread
  BY DEF Handed
<1>2. IsFiniteSet(Handed)
  BY <1>1, ThreadsFinite, FS_Subset
<1> QED BY <1>1, <1>2, FS_CardinalityType, FS_AddElement, FS_RemoveElement

LEMMA OwedSum ==
    /\ Owed = count[TheSem] + Cardinality(Handed)
    /\ Owed' = count'[TheSem] + Cardinality(Handed')
BY DEF Owed

LEMMA OwedSame ==
    ASSUME UNCHANGED count, Handed' = Handed
    PROVE  Owed' = Owed
BY DEF Owed

\* The types that the steps need.
LEMMA Types ==
    ASSUME Known
    PROVE  /\ count \in [Sem -> Nat] /\ state \in [Thread -> State] /\ err \in [Thread -> Err]
           /\ lc \in [Thread -> Sem \cup {NoSem}] /\ owner \in [Thread -> BOOLEAN]
           /\ pc \in [Thread -> Places] /\ stack \in Seq(Frame) /\ Len(stack) \in Nat
           /\ count[TheSem] \in Nat /\ Owed \in Nat
<1>1. /\ count \in [Sem -> Nat] /\ state \in [Thread -> State] /\ err \in [Thread -> Err]
      /\ lc \in [Thread -> Sem \cup {NoSem}] /\ owner \in [Thread -> BOOLEAN]
      /\ pc \in [Thread -> Places] /\ stack \in Seq(Frame)
  BY DEF Known, Machine, Code, IInv, TypeOK
<1>2. count[TheSem] \in Nat
  BY <1>1, Constants
<1>3. Owed \in Nat
  BY <1>2, Sizes DEF Owed
<1>4. Len(stack) \in Nat
  BY <1>1, SeqElements
<1> QED BY <1>1, <1>2, <1>3, <1>4

\* While a callback has calls to make nothing else runs.
LEMMA CallbackAlone ==
    ASSUME Known, NEW p, InPhase(p), p # "callback"
    PROVE  callback = "none"
BY DEF Known, Code, CallbackPlaces, InPhase

\* The top of the stack, when its frame is replaced.
LEMMA TopReplaced ==
    ASSUME Known, stack # <<>>, NEW p, NEW t, NEW o, stack' = At(p, t, o)
    PROVE  stack' # <<>> /\ Top'.phase = p /\ Len(stack') = Len(stack)
<1>1. stack \in Seq(Frame) /\ Len(stack) \in Nat /\ Len(stack) \in DOMAIN stack
  BY Types
<1>2. Len(stack') = Len(stack)
  BY <1>1, StackSizes
<1>3. stack'[Len(stack)].phase = p
  BY <1>1 DEF At
<1>4. stack' # <<>>
  BY <1>1, <1>2
<1> QED BY <1>2, <1>3, <1>4 DEF Top

\* A step in which no callback goes on.
LEMMA NoCallback ==
    ASSUME callback = "none", callback' = callback
    PROVE  CallbackPlaces'
BY DEF CallbackPlaces
-----------------------------------------------------------------------------
(***************************************************************************)
(* The steps of the threads.                                               *)
(***************************************************************************)
LEMMA TakesSteps ==
    ASSUME Known, NEW t \in Thread, NEW limit \in Ticks, Takes(t, limit)
    PROVE  Known' /\ Owed' = Owed /\ owner' = owner /\ Len(stack') = Len(stack)
<1>1. /\ InEntry(t) /\ pc[t] = "take" /\ pc' = [pc EXCEPT ![t] = "look"]
      /\ callback' = callback
  BY DEF Takes, Goes
<1>2. callback = "none" /\ CallbackPlaces'
  BY <1>1, CallbackAlone, NoCallback DEF InEntry
<1>3. owner[t] /\ state[t] = "READY" /\ stack # <<>>
  BY <1>1, EntryRuns DEF Known, Machine
<1>4. "look" \in Places /\ pc' \in [Thread -> Places]
  BY <1>1, Types DEF Places
<1>5. CASE TakeNow(t, TheSem)
  <2>1. /\ count[TheSem] > 0 /\ count' = [count EXCEPT ![TheSem] = @ - 1]
        /\ err' = [err EXCEPT ![t] = "EOK"] /\ lc' = [lc EXCEPT ![t] = TheSem]
        /\ UNCHANGED <<state, owner, stack>>
    BY <1>5 DEF TakeNow, HasToken
  <2>2. Machine'
    BY <1>3, <1>5, <2>1, Constants, TakeNowInv DEF Known, Machine, EntriesOwned
  <2>3. WaitPlaces'
    BY <1>1, <1>3, <2>1, Types DEF Known, Code, WaitPlaces
  <2>4. t \notin Handed /\ Handed' = Handed \cup {t}
    BY <1>1, <1>3, <2>1, Types DEF Handed, Got
  <2>5. Cardinality(Handed') = Cardinality(Handed) + 1 /\ Cardinality(Handed) \in Nat
    BY <2>4, Sizes
  <2>6. count'[TheSem] = count[TheSem] - 1 /\ count[TheSem] \in Nat
    BY <2>1, Types, Constants
  <2>7. Owed' = Owed
    BY ONLY <2>5, <2>6, OwedSum
  <2> QED BY <1>2, <1>4, <2>1, <2>2, <2>3, <2>7 DEF Known, Code
<1>6. CASE TakeBlock(t, TheSem, limit)
  <2>1. PICK timed \in BOOLEAN : Block(t, TheSem, timed)
    BY <1>6 DEF TakeBlock
  <2>2. count[TheSem] = 0
    BY <1>6, Types DEF TakeBlock, HasToken
  <2>3. /\ IInv' /\ EntriesOwned' /\ Len(stack') = Len(stack)
        /\ state' = [state EXCEPT ![t] = "PENDING"] /\ err' = [err EXCEPT ![t] = "EOK"]
        /\ lc' = [lc EXCEPT ![t] = TheSem] /\ UNCHANGED <<owner, count>>
    BY <1>1, <2>1, <2>2, Constants, BlockSeen DEF Known, Machine
  <2>4. WaitPlaces'
    BY <1>1, <2>3, Types DEF Known, Code, WaitPlaces
  <2>5. Handed' = Handed
    BY <1>1, <2>3, Types DEF Handed, Got
  <2> QED BY <1>2, <1>4, <2>3, <2>4, <2>5, OwedSame DEF Known, Code, Machine
<1> QED BY <1>5, <1>6 DEF Takes

\* A call of nothing.
LEMMA MachineSame ==
    ASSUME Known, UNCHANGED vars
    PROVE  Machine' /\ UNCHANGED <<count, state, owner, err, lc, armed, stale, stack>>
<1>1. IInv'
  BY NobodyJoins, StutterInv DEF Known, Machine, vars
<1>2. UNCHANGED <<count, state, owner, err, lc, armed, stale, stack>>
  BY DEF vars
<1> QED BY <1>1, <1>2 DEF Known, Machine, EntriesOwned

LEMMA LooksSteps ==
    ASSUME Known, NEW t \in Thread, Looks(t)
    PROVE  /\ Known' /\ Owed' = Owed - (IF Got(t) THEN 1 ELSE 0)
           /\ UNCHANGED <<owner, stack>>
<1>1. /\ InEntry(t) /\ pc[t] = "look" /\ pc' = [pc EXCEPT ![t] = "take"]
      /\ callback' = callback
  BY DEF Looks, Goes
<1>2. callback = "none" /\ CallbackPlaces'
  BY <1>1, CallbackAlone, NoCallback DEF InEntry
<1>3. state[t] = "READY"
  BY <1>1, EntryRuns DEF Known, Machine
<1>4. pc' \in [Thread -> Places]
  BY <1>1, Types DEF Places
<1>5. Machine' /\ UNCHANGED <<count, state, owner, err, lc, stack>>
  BY MachineSame DEF Looks
<1>6. WaitPlaces'
  BY <1>1, <1>3, <1>5, Types DEF Known, Code, WaitPlaces
<1>7. CASE Got(t)
  <2>1. t \in Handed /\ Handed' = Handed \ {t}
    BY <1>1, <1>3, <1>5, <1>7, Types DEF Handed, Got
  <2>2. Cardinality(Handed') = Cardinality(Handed) - 1 /\ Cardinality(Handed) \in Nat
    BY <2>1, Sizes
  <2>3. count'[TheSem] = count[TheSem] /\ count[TheSem] \in Nat
    BY <1>5, Types
  <2>4. Owed' = Owed - 1
    BY ONLY <2>2, <2>3, OwedSum
  <2> QED BY <1>2, <1>4, <1>5, <1>6, <1>7, <2>4 DEF Known, Code
<1>8. CASE ~Got(t)
  <2>1. Handed' = Handed
    BY <1>1, <1>3, <1>5, <1>8, Types DEF Handed, Got
  <2>2. Owed' = Owed /\ Owed \in Nat
    BY <1>5, <2>1, OwedSame, Types
  <2> QED BY <1>2, <1>4, <1>5, <1>6, <1>8, <2>2 DEF Known, Code
<1> QED BY <1>7, <1>8
-----------------------------------------------------------------------------
(***************************************************************************)
(* The steps of the callbacks.                                             *)
(***************************************************************************)
LEMMA FiresSteps ==
    ASSUME Known, StaleIdle, NEW x \in Timer, NEW next, Fires(x, next),
           \/ x = Period /\ next = "give"
           \/ x = StopTimer /\ next = "stop" /\ Len(stack) = 1
    PROVE  Known' /\ Owed' = Owed /\ owner' = owner /\ Len(stack') = Len(stack)
<1>1. /\ InPhase("tick") /\ stack # <<>> /\ armed' = armed \ {x} /\ callback' = next /\ pc' = pc
      /\ stack' = At("callback", NoThread, NoThread) /\ Expire(x)
      /\ x \in armed /\ stale' = stale
  BY DEF Fires, Expire, InPhase
<1>2. /\ IInv' /\ EntriesOwned' /\ UNCHANGED <<count, state, owner, err, lc>>
  BY <1>1, PollSeen DEF Known, Machine
<1>3. stack' # <<>> /\ Top'.phase = "callback" /\ Len(stack') = Len(stack)
  BY <1>1, TopReplaced
<1>4. CallbackPlaces'
  BY <1>1, <1>3 DEF CallbackPlaces, StaleIdle
<1>5. WaitPlaces' /\ Handed' = Handed
  BY <1>1, <1>2 DEF Known, Code, WaitPlaces, Handed, Got
<1> QED BY <1>1, <1>2, <1>3, <1>4, <1>5, OwedSame DEF Known, Code, Machine

\* A token is counted, or the first waiter has it.
LEMMA GivesSteps ==
    ASSUME Known, Continues("give", "start"), SemGive(TheSem, 1)
    PROVE  Known' /\ Owed' = Owed + 1 /\ UNCHANGED <<owner, stack>>
<1>1. callback = "give" /\ callback' = "start" /\ pc' = pc
  BY DEF Continues
<1>2. /\ IInv' /\ EntriesOwned' /\ UNCHANGED <<owner, lc, stack>>
      /\ \/ /\ count' = [count EXCEPT ![TheSem] = @ + 1] /\ UNCHANGED <<state, err, armed>>
         \/ \E u \in Thread : /\ state[u] = "PENDING" /\ lc[u] = TheSem
                              /\ state' = [state EXCEPT ![u] = "READY"]
                              /\ err' = [err EXCEPT ![u] = "EOK"]
                              /\ armed' = armed \ {u}
                              /\ count' = count
  BY GiveSeen, Constants DEF Known, Machine
<1>3. CallbackPlaces'
  <2>1. stale' = stale
    BY StaleSame DEF SemGive
  <2> QED BY <1>1, <1>2, <2>1 DEF Known, Code, CallbackPlaces, Top
<1>4. CASE /\ count' = [count EXCEPT ![TheSem] = @ + 1] /\ UNCHANGED <<state, err, armed>>
  <2>1. WaitPlaces' /\ Handed' = Handed
    BY <1>1, <1>2, <1>4 DEF Known, Code, WaitPlaces, Handed, Got
  <2>2. count'[TheSem] = count[TheSem] + 1 /\ count[TheSem] \in Nat
    BY <1>4, Types, Constants
  <2>3. Cardinality(Handed') = Cardinality(Handed) /\ Cardinality(Handed) \in Nat
    BY <2>1, Sizes
  <2>4. Owed' = Owed + 1
    BY ONLY <2>2, <2>3, OwedSum
  <2> QED BY <1>1, <1>2, <1>3, <2>1, <2>4 DEF Known, Code, Machine
<1>5. ASSUME NEW u \in Thread, state[u] = "PENDING", lc[u] = TheSem,
             state' = [state EXCEPT ![u] = "READY"], err' = [err EXCEPT ![u] = "EOK"],
             count' = count
      PROVE  Known' /\ Owed' = Owed + 1
  <2>1. pc[u] = "look"
    BY <1>5 DEF Known, Code, WaitPlaces
  <2>2. WaitPlaces'
    BY <1>1, <1>2, <1>5, Types DEF Known, Code, WaitPlaces
  <2>3. u \notin Handed /\ Handed' = Handed \cup {u}
    BY <1>1, <1>5, <2>1, Types DEF Handed, Got
  <2>4. Cardinality(Handed') = Cardinality(Handed) + 1 /\ Cardinality(Handed) \in Nat
    BY <2>3, Sizes
  <2>5. count'[TheSem] = count[TheSem] /\ count[TheSem] \in Nat
    BY <1>5, Types
  <2>6. Owed' = Owed + 1
    BY ONLY <2>4, <2>5, OwedSum
  <2> QED BY <1>1, <1>2, <1>3, <2>2, <2>6 DEF Known, Code, Machine
<1> QED BY <1>2, <1>4, <1>5

\* The insertion of the timer finds it in no list.
LEMMA StartsSteps ==
    ASSUME Known, Continues("start", "return"), TimerStart(Period)
    PROVE  Known' /\ Owed' = Owed /\ UNCHANGED <<owner, stack>>
<1>1. callback = "start" /\ callback' = "return" /\ pc' = pc
  BY DEF Continues
<1>2. Period \notin armed \cup stale
  BY <1>1 DEF Known, Code, CallbackPlaces
<1>3. UNCHANGED <<count, state, owner, err, lc, stack>>
  BY DEF TimerStart, threads
<1>4. IInv'
  BY <1>2, Constants, TimerStepsInv DEF Known, Machine
<1>5. EntriesOwned' /\ CallbackPlaces'
  BY <1>1, <1>3 DEF Known, Machine, EntriesOwned, Code, CallbackPlaces, Top
<1>6. WaitPlaces' /\ Handed' = Handed
  BY <1>1, <1>3 DEF Known, Code, WaitPlaces, Handed, Got
<1> QED BY <1>1, <1>3, <1>4, <1>5, <1>6, OwedSame DEF Known, Code, Machine

\* The destruction of the loop finds no entry executing.
LEMMA StopsSteps ==
    ASSUME Known, Continues("stop", "return"), LoopDestroy
    PROVE  Known' /\ (\A t \in Thread : ~owner'[t]) /\ UNCHANGED stack
<1>1. callback = "stop" /\ callback' = "return" /\ pc' = pc
  BY DEF Continues
<1>2. Len(stack) = 1 /\ stack # <<>> /\ Top.phase = "callback" /\ StopTimer \notin armed
  BY <1>1 DEF Known, Code, CallbackPlaces
<1>3. \A k \in DOMAIN stack : stack[k] = Top
  BY <1>2, Types DEF Top
<1>4. IInv' /\ EntriesOwned' /\ UNCHANGED <<count, err, lc, stack>>
  <2>1. AtMostOne(armed \cap Timer)
    BY <1>2, Constants DEF AtMostOne
  <2> QED BY <1>2, <1>3, <2>1, StopSeen DEF Known, Machine
<1>5. /\ owner' = [t \in Thread |-> FALSE]
      /\ state' = [t \in Thread |-> IF owner[t] THEN "DEAD" ELSE state[t]]
  BY DEF LoopDestroy
<1>6. \A t \in Thread : state'[t] # "PENDING"
  BY <1>5 DEF Known, Machine, IInv, ListsOK, Placement
<1>7. WaitPlaces' /\ CallbackPlaces'
  BY <1>1, <1>2, <1>4, <1>6 DEF WaitPlaces, CallbackPlaces, Top
<1> QED BY <1>1, <1>4, <1>5, <1>7 DEF Known, Code, Machine

LEMMA ReturnsSteps ==
    ASSUME Known, Returns
    PROVE  Known' /\ Owed' = Owed /\ owner' = owner /\ Len(stack') = Len(stack)
<1>1. callback' = "none" /\ pc' = pc /\ CallbackReturn /\ stack # <<>>
      /\ stack' = At("tick", NoThread, NoThread)
  BY DEF Returns, Continues, CallbackReturn, InPhase
<1>2. /\ IInv' /\ EntriesOwned' /\ UNCHANGED <<count, state, owner, err, lc>>
  BY <1>1, PollSeen DEF Known, Machine
<1>3. Len(stack') = Len(stack)
  BY <1>1, TopReplaced
<1>4. WaitPlaces' /\ Handed' = Handed /\ CallbackPlaces'
  BY <1>1, <1>2 DEF Known, Code, WaitPlaces, Handed, Got, CallbackPlaces
<1> QED BY <1>1, <1>2, <1>3, <1>4, OwedSame DEF Known, Code, Machine

-----------------------------------------------------------------------------
(***************************************************************************)
(* The steps of the loop, and of code that does not come to a take.        *)
(***************************************************************************)
NoLook == pc' \in [Thread -> Places] /\ \A t \in Thread : pc'[t] = "look" <=> pc[t] = "look"

LEMMA PollSteps ==
    ASSUME Known, UNCHANGED callback, NoLook, callback = "none",
           Poll \/ TickDone \/ Dispatch \/ PollReturn
    PROVE  /\ Known' /\ Owed' = Owed /\ owner' = owner
           /\ \/ Poll /\ Len(stack') = Len(stack) + 1
              \/ PollReturn /\ Len(stack') = Len(stack) - 1
              \/ Len(stack') = Len(stack)
<1>1. /\ IInv' /\ EntriesOwned' /\ UNCHANGED <<count, state, owner, err, lc>>
      /\ \/ Poll /\ Len(stack') = Len(stack) + 1
         \/ PollReturn /\ Len(stack') = Len(stack) - 1
         \/ Len(stack') = Len(stack)
  BY PollSeen DEF Known, Machine
<1>2. WaitPlaces' /\ Handed' = Handed
  BY <1>1 DEF Known, Code, WaitPlaces, Handed, Got, NoLook
<1> QED BY <1>1, <1>2, NoCallback, OwedSame DEF Known, Code, Machine, NoLook

LEMMA TimeoutSteps ==
    ASSUME Known, NEW t \in Thread, Timeout(t), UNCHANGED <<pc, callback>>
    PROVE  Known' /\ Owed' = Owed /\ UNCHANGED <<owner, stack>>
<1>1. /\ IInv' /\ EntriesOwned' /\ state[t] = "PENDING"
      /\ state' = [state EXCEPT ![t] = "READY"] /\ err' = [err EXCEPT ![t] = "ETIMEOUT"]
      /\ UNCHANGED <<count, owner, lc, stack>>
  BY TimeoutSeen DEF Known, Machine
<1>2. callback = "none" /\ CallbackPlaces'
  <2>1. InPhase("tick")
    BY DEF Timeout
  <2> QED BY <2>1, CallbackAlone, NoCallback
<1>3. WaitPlaces'
  BY <1>1, Types DEF Known, Code, WaitPlaces
<1>4. Handed' = Handed
  BY <1>1, Types DEF Handed, Got
<1> QED BY <1>1, <1>2, <1>3, <1>4, OwedSame DEF Known, Code, Machine

LEMMA LoopKeeps ==
    ASSUME Known, LoopSteps, UNCHANGED <<pc, callback>>
    PROVE  /\ Known' /\ Owed' = Owed /\ owner' = owner
           /\ stack = <<>> \/ Len(stack') <= Len(stack)
           /\ Len(stack') <= Len(stack) + 1
<1>1. NoLook /\ Len(stack) \in Nat /\ callback' = callback
  BY Types DEF NoLook
<1>2. ASSUME NEW t \in Thread, Timeout(t)
      PROVE  Known' /\ Owed' = Owed /\ owner' = owner /\ Len(stack') = Len(stack)
  BY <1>2, TimeoutSteps
<1>3. CASE MainPolls
  <2>1. callback = "none" /\ Poll /\ stack = <<>>
    BY <1>3 DEF MainPolls, Known, Code, CallbackPlaces
  <2>2. ~PollReturn
    BY <2>1 DEF PollReturn, InPhase
  <2>3. /\ Known' /\ Owed' = Owed /\ owner' = owner
        /\ Len(stack') = Len(stack) + 1 \/ Len(stack') = Len(stack)
    BY <1>1, <2>1, <2>2, PollSteps
  <2>4. Len(stack') <= Len(stack) + 1
    BY ONLY <1>1, <2>3
  <2> QED BY ONLY <2>1, <2>3, <2>4
<1>4. CASE TickDone \/ Dispatch \/ PollReturn
  <2>1. callback = "none" /\ ~Poll
    BY <1>4, CallbackAlone DEF TickDone, Dispatch, PollReturn, Poll, UserRuns, InPhase
  <2> QED BY <1>1, <1>4, <2>1, PollSteps
<1> QED BY <1>1, <1>2, <1>3, <1>4 DEF LoopSteps

-----------------------------------------------------------------------------
(***************************************************************************)
(* ExampleSemaphore.                                                       *)
(***************************************************************************)
\* Only the callback of the periodic timer starts a timer, which is not linked then.
LEMMA TimersStay ==
    ASSUME Known, StaleIdle,
           \/ \E t \in Thread : \/ TakeNow(t, TheSem) \/ Timeout(t)
                              \/ \E limit \in Ticks : TakeBlock(t, TheSem, limit) \/ Delay(t, limit)
           \/ SemGive(TheSem, 1) \/ LoopDestroy
           \/ \E x \in Timer : Expire(x)
           \/ callback = "start" /\ TimerStart(Period)
           \/ CallbackReturn \/ Poll \/ TickDone \/ Dispatch \/ PollReturn
           \/ UNCHANGED vars
    PROVE  StaleIdle'
<1>1. stale \subseteq Timer /\ \A t \in Thread : t \notin stale
  BY Constants DEF Known, Machine, IInv, TypeOK
<1>2. ASSUME NEW t \in Thread, NEW s, NEW timed, Block(t, s, timed)
      PROVE  StaleIdle'
  <2>1. stale' = stale /\ (armed' = armed \/ armed' = armed \cup {t})
    BY <1>2 DEF Block
  <2> QED BY <1>1, <2>1 DEF StaleIdle
<1>3. CASE \E t \in Thread : \E limit \in Ticks : TakeBlock(t, TheSem, limit) \/ Delay(t, limit)
  BY <1>2, <1>3 DEF TakeBlock, Delay
<1>4. CASE SemGive(TheSem, 1)
  <2>1. stale' = stale /\ \E T : armed' = armed \ T
    BY <1>4 DEF SemGive, Wake, StopTimers
  <2> QED BY <2>1 DEF StaleIdle
<1>5. CASE LoopDestroy
  BY <1>5 DEF LoopDestroy, StaleIdle
<1>6. CASE callback = "start" /\ TimerStart(Period)
  <2>1. Period \notin stale
    BY <1>6 DEF Known, Code, CallbackPlaces
  <2> QED BY <1>6, <2>1 DEF TimerStart, StaleIdle
<1>7. CASE \/ \E t \in Thread : TakeNow(t, TheSem) \/ Timeout(t)
           \/ \E x \in Timer : Expire(x)
           \/ CallbackReturn \/ Poll \/ TickDone \/ Dispatch \/ PollReturn
           \/ UNCHANGED vars
  <2>1. stale' = stale /\ armed' \subseteq armed
    BY <1>7 DEF TakeNow, Timeout, Expire, CallbackReturn, Poll, TickDone, Dispatch,
                PollReturn, vars
  <2> QED BY <2>1 DEF StaleIdle
<1> QED BY <1>3, <1>4, <1>5, <1>6, <1>7

LEMMA CallbackStale ==
    ASSUME Known, StaleIdle, PeriodCallback \/ StopFires \/ Stops \/ Returns
    PROVE  StaleIdle'
<1>1. Period \in Timer /\ StopTimer \in Timer
  BY Constants
<1> QED BY <1>1, TimersStay DEF PeriodCallback, StopFires, Stops, Returns, Fires, Continues, StartsAgain

LEMMA LoopStale ==
    ASSUME Known, StaleIdle, LoopSteps
    PROVE  StaleIdle'
BY TimersStay DEF LoopSteps, MainPolls

LEMMA TakesStale ==
    ASSUME Known, StaleIdle, NEW t \in Thread, NEW limit \in Ticks, Takes(t, limit) \/ Looks(t)
    PROVE  StaleIdle'
BY TimersStay DEF Takes, Looks

LEMMA SemaphoreStale ==
    ASSUME Known, StaleIdle, [ExNext]_exVars
    PROVE  StaleIdle'
<1>1. 0 \in Ticks
  BY DEF Ticks
<1>2. CASE \E t \in Thread : ThreadEntry(t)
  BY <1>1, <1>2, TakesStale DEF ThreadEntry
<1>3. CASE UNCHANGED exVars
  BY <1>3, TimersStay DEF exVars
<1> QED BY <1>2, <1>3, CallbackStale, LoopStale DEF ExNext

SemaphoreBooks == Known /\ StaleIdle /\ Len(stack) <= 1 /\ unclaimed \in Int /\ TokensKept

\* What both programs know when main enters its loop.
LEMMA BooksOpen ==
    ASSUME NEW n \in Nat, Opens(n), pc \in [Thread -> Places], \A t \in Thread : pc[t] # "look"
    PROVE  Known /\ StaleIdle /\ Owed = n /\ stack = <<>> /\ unclaimed = n
<1>1. Range(<<>>) = {} /\ IsInjective(<<>>) /\ <<>> \in Seq(Thread) /\ <<>> \in Seq(Frame)
  BY EmptyLemma
<1>2. TypeOK
  BY <1>1, Constants DEF Opens, TypeOK, State, Err
<1>3. ListsOK
  BY <1>1, Constants DEF Opens, ListsOK, Placement, WaitersBlocked, ArmedIsBlocked
<1>4. NoReentrance /\ ExecutingNotBlocked /\ NoLostWakeup /\ NoFault /\ EntriesOwned
  BY DEF Opens, NoReentrance, Activations, ExecutingNotBlocked, NoLostWakeup, NoFault, EntriesOwned
<1>5. WaitPlaces /\ CallbackPlaces
  BY DEF Opens, WaitPlaces, CallbackPlaces
<1>6. Handed = {} /\ count[TheSem] = n
  BY Constants DEF Opens, Handed
<1>7. Owed = n
  BY <1>6, FS_EmptySet DEF Owed
<1> QED BY <1>2, <1>3, <1>4, <1>5, <1>7 DEF Known, Machine, IInv, Code, StaleIdle, Opens

LEMMA SemaphoreOpens == ASSUME ExInit PROVE SemaphoreBooks
<1>1. Opens(1) /\ pc \in [Thread -> Places] /\ (\A t \in Thread : pc[t] # "look")
  BY DEF ExInit, Places
<1>2. Known /\ StaleIdle /\ Owed = 1 /\ stack = <<>> /\ unclaimed = 1
  BY <1>1, BooksOpen
<1> QED BY <1>2 DEF SemaphoreBooks, TokensKept, Owed

LEMMA SemaphoreKeeps ==
    ASSUME SemaphoreBooks, [ExNext]_exVars
    PROVE  SemaphoreBooks'
<1>0. /\ Known /\ StaleIdle /\ Owed \in Nat /\ Len(stack) \in Nat /\ Len(stack) <= 1 /\ unclaimed \in Int
      /\ (\E t \in Thread : owner[t]) => unclaimed = Owed
  BY Types DEF SemaphoreBooks, TokensKept, Owed
<1> StaleIdle'
  BY <1>0, SemaphoreStale
<1> SUFFICES /\ Known' /\ Len(stack') <= 1 /\ unclaimed' \in Int
             /\ (\E t \in Thread : owner'[t]) => unclaimed' = Owed'
  BY DEF SemaphoreBooks, TokensKept, Owed
<1>1. ASSUME NEW t \in Thread, ThreadEntry(t)
      PROVE  /\ Known' /\ Len(stack') <= 1 /\ unclaimed' \in Int
             /\ (\E u \in Thread : owner'[u]) => unclaimed' = Owed'
  <2>1. CASE Takes(t, 0)
    <3>1. 0 \in Ticks /\ unclaimed' = unclaimed
      BY <2>1 DEF Ticks, Takes
    <3> QED BY <1>0, <2>1, <3>1, TakesSteps
  <2>2. CASE Looks(t) /\ unclaimed' = IF Got(t) THEN unclaimed - 1 ELSE unclaimed
    BY <1>0, <2>2, LooksSteps
  <2> QED BY <1>1, <2>1, <2>2 DEF ThreadEntry
<1>2. CASE PeriodCallback
  <2>1. CASE Fires(Period, "give") /\ UNCHANGED unclaimed
    BY <1>0, <2>1, Constants, FiresSteps
  <2>2. CASE Continues("give", "start") /\ SemGive(TheSem, 1) /\ unclaimed' = unclaimed + 1
    BY <1>0, <2>2, GivesSteps
  <2>3. CASE StartsAgain
    BY <1>0, <2>3, StartsSteps DEF StartsAgain
  <2> QED BY <1>2, <2>1, <2>2, <2>3 DEF PeriodCallback
<1>3. CASE StopFires
  <2>1. stack # <<>> /\ stack \in Seq(Frame)
    BY <1>0, <1>3, Types DEF StopFires, Fires, Expire, InPhase
  <2>2. Len(stack) # 0
    BY <2>1, StackSizes
  <2>3. \A n \in Nat : n <= 1 /\ n # 0 => n = 1
    OBVIOUS
  <2>4. Len(stack) = 1
    BY <1>0, <2>2, <2>3
  <2> QED BY <1>0, <1>3, <2>4, Constants, FiresSteps DEF StopFires
<1>4. CASE Stops
  BY <1>0, <1>4, StopsSteps DEF Stops
<1>5. CASE Returns
  BY <1>0, <1>5, ReturnsSteps DEF Returns
<1>6. CASE LoopSteps /\ UNCHANGED program
  <2>1. /\ Known' /\ Owed' = Owed /\ owner' = owner /\ unclaimed' = unclaimed
        /\ stack = <<>> \/ Len(stack') <= Len(stack)
        /\ Len(stack') <= Len(stack) + 1
    BY <1>0, <1>6, LoopKeeps DEF program
  <2>2. Len(stack') \in Nat /\ (stack = <<>> => Len(stack) = 0)
    BY <2>1, Types DEF Known, Machine, IInv, TypeOK
  <2> QED BY <1>0, <2>1, <2>2
<1>7. CASE UNCHANGED exVars
  <2>1. Machine' /\ UNCHANGED <<count, state, owner, err, lc, armed, stale, stack>>
        /\ UNCHANGED <<pc, callback, unclaimed>>
    BY <1>0, <1>7, MachineSame DEF exVars, program
  <2>2. WaitPlaces' /\ CallbackPlaces' /\ Handed' = Handed
    BY <1>0, <2>1 DEF Known, Code, WaitPlaces, CallbackPlaces, Top, Handed, Got
  <2> QED BY <1>0, <2>1, <2>2, OwedSame DEF Known, Code
<1> QED BY <1>1, <1>2, <1>3, <1>4, <1>5, <1>6, <1>7 DEF ExNext

\* The inductive invariant of the programs of ExampleSemaphore.
THEOREM SemaphoreBalances == ExSpec => []SemaphoreBooks
<1>1. ExInit => SemaphoreBooks
  BY SemaphoreOpens
<1>2. SemaphoreBooks /\ [ExNext]_exVars => SemaphoreBooks'
  BY SemaphoreKeeps
<1> QED
  BY <1>1, <1>2, PTL DEF ExSpec

\* A timer that starts itself again, and a timer that destroys the loop, in their
\* callbacks and in the middle of a poll, never make the library fail an assert or follow
\* a NULL p_owner.
THEOREM SemaphoreNeverFaults == ExSpec => []NoFault
<1>1. SemaphoreBooks => NoFault
  BY DEF SemaphoreBooks, Known, Machine, IInv
<1> QED
  BY <1>1, SemaphoreBalances, PTL

\* Until the loop is destroyed no token is lost or had twice, for any number of threads:
\* a take whose limit ends in the tick of a give has the token, or leaves it.
THEOREM SemaphoreKeepsTokens == ExSpec => []TokensKept
<1>1. SemaphoreBooks => TokensKept
  BY DEF SemaphoreBooks
<1> QED
  BY <1>1, SemaphoreBalances, PTL
-----------------------------------------------------------------------------
(***************************************************************************)
(* ExampleDriver, whose entry of the application polls.                    *)
(***************************************************************************)
LEMMA DriverStale ==
    ASSUME Known, StaleIdle, Driver \in Thread, App \in Thread, [DriverNext]_driverVars
    PROVE  StaleIdle'
<1>1. 0 \in Ticks /\ -1 \in Ticks
  BY DEF Ticks
<1>2. CASE DriverEntry
  BY <1>1, <1>2, TakesStale DEF DriverEntry
<1>3. CASE AppEntry
  <2>1. Poll \/ UNCHANGED vars \/ Delay(App, 0)
    BY <1>3 DEF AppEntry, WaitsForByte, Read
  <2> QED BY <1>1, <2>1, TimersStay
<1>4. CASE UNCHANGED driverVars
  BY <1>4, TimersStay DEF driverVars, exVars
<1> QED
  BY <1>2, <1>3, <1>4, CallbackStale, LoopStale DEF DriverNext, Interrupts, StopCallback

DriverBooks == Known /\ StaleIdle /\ unclaimed \in Int /\ buffer \in Int /\ BytesKept

\* The application goes on in its own code, and no take is in it.
LEMMA AppNoLook ==
    ASSUME Known, App \in Thread, NEW from, NEW to, AppGoes(from, to),
           from # "look", to \in Places \ {"look"}
    PROVE  /\ NoLook /\ callback = "none" /\ UNCHANGED callback
           /\ InEntry(App) /\ pc[App] # "look"
<1>1. InEntry(App) /\ pc[App] = from /\ pc' = [pc EXCEPT ![App] = to] /\ callback' = callback
  BY DEF AppGoes, Goes
<1>2. callback = "none"
  BY <1>1, CallbackAlone DEF InEntry
<1>3. NoLook
  BY <1>1, Types DEF NoLook
<1> QED BY <1>1, <1>2, <1>3

LEMMA AppCalls ==
    ASSUME Known, App \in Thread, NoLook, callback = "none", UNCHANGED callback, InEntry(App),
           pc[App] # "look", UNCHANGED vars \/ Delay(App, 0)
    PROVE  Known' /\ Owed' = Owed /\ owner' = owner
<1>1. CallbackPlaces'
  BY NoCallback
<1>2. CASE UNCHANGED vars
  <2>1. Machine' /\ UNCHANGED <<count, state, owner, err, lc>>
    BY <1>2, MachineSame
  <2>2. WaitPlaces' /\ Handed' = Handed
    BY <2>1 DEF Known, Code, WaitPlaces, Handed, Got, NoLook
  <2> QED BY <1>1, <2>1, <2>2, OwedSame DEF Known, Code, NoLook
<1>3. CASE Delay(App, 0)
  <2>1. PICK timed \in BOOLEAN : Block(App, NoSem, timed)
    BY <1>3 DEF Delay
  <2>2. /\ IInv' /\ EntriesOwned'
        /\ state' = [state EXCEPT ![App] = "PENDING"] /\ err' = [err EXCEPT ![App] = "EOK"]
        /\ lc' = [lc EXCEPT ![App] = NoSem] /\ UNCHANGED <<owner, count>>
    BY <2>1, Constants, BlockSeen DEF Known, Machine
  <2>3. WaitPlaces' /\ Handed' = Handed
    BY <2>2, Types, Constants DEF Known, Code, WaitPlaces, NoLook, Handed, Got
  <2> QED BY <1>1, <2>2, <2>3, OwedSame DEF Known, Code, Machine, NoLook
<1> QED BY <1>2, <1>3

LEMMA AppSteps ==
    ASSUME DriverBooks, Driver \in Thread, App \in Thread, AppEntry
    PROVE  DriverBooks'
<1> StaleIdle'
  BY DriverStale DEF DriverBooks, DriverNext
<1>0. /\ Known /\ StaleIdle /\ Owed \in Nat /\ unclaimed \in Int /\ buffer \in Int
      /\ owner[Driver] => unclaimed = Owed + buffer
  BY Types DEF DriverBooks, BytesKept, Owed
<1> SUFFICES /\ Known' /\ unclaimed' \in Int /\ buffer' \in Int
             /\ owner'[Driver] => unclaimed' = Owed' + buffer'
  BY DEF DriverBooks, BytesKept, Owed
<1>1. {"delay", "test", "read"} \subseteq Places \ {"look"}
  BY DEF Places
<1>2. CASE WaitsForByte /\ UNCHANGED <<buffer, unclaimed>>
  <2>1. NoLook /\ callback = "none" /\ UNCHANGED callback /\ Poll
    BY <1>0, <1>1, <1>2, AppNoLook DEF WaitsForByte
  <2> QED BY <1>0, <1>2, <2>1, PollSteps
<1>3. CASE AppGoes("test", "read") /\ UNCHANGED <<vars, buffer, unclaimed>>
  <2>1. /\ NoLook /\ callback = "none" /\ UNCHANGED callback
        /\ InEntry(App) /\ pc[App] # "look" /\ UNCHANGED vars
    BY <1>0, <1>1, <1>3, AppNoLook
  <2> QED BY <1>0, <1>3, <2>1, AppCalls
<1>4. ASSUME NEW from \in {"test", "read"}, Read(from)
      PROVE  /\ Known' /\ unclaimed' \in Int /\ buffer' \in Int
             /\ owner'[Driver] => unclaimed' = Owed' + buffer'
  <2>1. /\ NoLook /\ callback = "none" /\ UNCHANGED callback
        /\ InEntry(App) /\ pc[App] # "look" /\ UNCHANGED vars
    BY <1>0, <1>1, <1>4, AppNoLook DEF Read
  <2>2. Known' /\ Owed' = Owed /\ owner' = owner
    BY <1>0, <2>1, AppCalls
  <2>3. buffer' = 0 /\ unclaimed' = unclaimed - buffer
    BY <1>4 DEF Read
  <2> QED BY <1>0, <2>2, <2>3
<1>5. CASE AppGoes("delay", "read") /\ Delay(App, 0) /\ UNCHANGED <<buffer, unclaimed>>
  <2>1. /\ NoLook /\ callback = "none" /\ UNCHANGED callback
        /\ InEntry(App) /\ pc[App] # "look"
    BY <1>0, <1>1, <1>5, AppNoLook
  <2> QED BY <1>0, <1>5, <2>1, AppCalls
<1> QED BY <1>2, <1>3, <1>4, <1>5 DEF AppEntry

LEMMA DriverOpens ==
    ASSUME DriverInit, Driver \in Thread
    PROVE  DriverBooks
<1>1. Opens(0) /\ pc \in [Thread -> Places] /\ (\A t \in Thread : pc[t] # "look")
  BY DEF DriverInit, Places
<1>2. Known /\ StaleIdle /\ Owed = 0 /\ unclaimed = 0 /\ buffer = 0
  BY <1>1, BooksOpen DEF DriverInit
<1> QED BY <1>2 DEF DriverBooks, BytesKept, Owed

LEMMA DriverKeeps ==
    ASSUME StopsBetweenReads, Driver \in Thread, App \in Thread,
           DriverBooks, [DriverNext]_driverVars
    PROVE  DriverBooks'
<1> StaleIdle'
  BY DriverStale DEF DriverBooks, DriverNext
<1>0. /\ Known /\ StaleIdle /\ Owed \in Nat /\ unclaimed \in Int /\ buffer \in Int
      /\ owner[Driver] => unclaimed = Owed + buffer
  BY Types DEF DriverBooks, BytesKept, Owed
<1>1. CASE AppEntry
  BY <1>1, AppSteps
<1> DEFINE Goal == /\ Known' /\ unclaimed' \in Int /\ buffer' \in Int
                   /\ owner'[Driver] => unclaimed' = Owed' + buffer'
<1>2. SUFFICES ASSUME ~AppEntry PROVE Goal
  BY <1>1 DEF DriverBooks, BytesKept, Owed
<1>3. CASE DriverEntry
  <2>1. CASE Takes(Driver, -1) /\ UNCHANGED buffer
    <3>1. -1 \in Ticks /\ unclaimed' = unclaimed
      BY <2>1 DEF Ticks, Takes
    <3> QED BY <1>0, <2>1, <3>1, TakesSteps
  <2>2. CASE /\ Looks(Driver) /\ UNCHANGED unclaimed
             /\ buffer' = IF Got(Driver) THEN buffer + 1 ELSE buffer
    BY <1>0, <2>2, LooksSteps
  <2> QED BY <1>3, <2>1, <2>2 DEF DriverEntry
<1>4. CASE Interrupts
  <2>1. CASE Fires(Period, "give") /\ UNCHANGED <<unclaimed, buffer>>
    BY <1>0, <2>1, Constants, FiresSteps
  <2>2. CASE /\ Continues("give", "start") /\ SemGive(TheSem, 1)
             /\ unclaimed' = unclaimed + 1 /\ UNCHANGED buffer
    BY <1>0, <2>2, GivesSteps
  <2>3. CASE StartsAgain /\ UNCHANGED buffer
    BY <1>0, <2>3, StartsSteps DEF StartsAgain
  <2> QED BY <1>4, <2>1, <2>2, <2>3 DEF Interrupts, PeriodCallback
<1>5. CASE StopCallback
  <2>1. CASE Len(stack) = 1 /\ StopFires /\ UNCHANGED buffer
    BY <1>0, <2>1, Constants, FiresSteps DEF StopFires
  <2>2. CASE Stops /\ UNCHANGED buffer
    BY <1>0, <2>2, StopsSteps DEF Stops
  <2> QED BY <1>5, <2>1, <2>2 DEF StopCallback
<1>6. CASE Returns /\ UNCHANGED buffer
  BY <1>0, <1>6, ReturnsSteps DEF Returns
<1>7. CASE LoopSteps /\ UNCHANGED <<program, buffer>>
  BY <1>0, <1>7, LoopKeeps DEF program
<1>8. CASE UNCHANGED driverVars
  <2>1. /\ Machine' /\ UNCHANGED <<count, state, owner, err, lc, armed, stale, stack>>
        /\ UNCHANGED <<pc, callback, unclaimed, buffer>>
    BY <1>0, <1>8, MachineSame DEF driverVars, exVars, program
  <2>2. WaitPlaces' /\ CallbackPlaces' /\ Handed' = Handed
    BY <1>0, <2>1 DEF Known, Code, WaitPlaces, CallbackPlaces, Top, Handed, Got
  <2> QED BY <1>0, <2>1, <2>2, OwedSame DEF Known, Code
<1> HIDE DEF Goal
<1> QED BY <1>2, <1>3, <1>4, <1>5, <1>6, <1>7, <1>8 DEF DriverNext

\* The inductive invariant of the program of ExampleDriver.
THEOREM DriverBalances ==
    ASSUME Len(Started) = 2, StopsBetweenReads
    PROVE  DriverSpec => []DriverBooks
<1>1. Driver \in Thread /\ App \in Thread
  BY Constants DEF Driver, App
<1>2. DriverInit => DriverBooks
  BY <1>1, DriverOpens
<1>3. DriverBooks /\ [DriverNext]_driverVars => DriverBooks'
  BY <1>1, DriverKeeps
<1> QED
  BY <1>2, <1>3, PTL DEF DriverSpec

\* A thread that waits by polling the loop it runs in never makes the library fault, however
\* deep its polls nest, when the loop is not destroyed inside a read.
THEOREM DriverNeverFaults ==
    ASSUME Len(Started) = 2, StopsBetweenReads
    PROVE  DriverSpec => []NoFault
<1>1. DriverBooks => NoFault
  BY DEF DriverBooks, Known, Machine, IInv
<1> QED
  BY <1>1, DriverBalances, PTL

\* Every interrupt ends as one byte of the driver, in whichever poll it comes and in
\* whichever the driver's thread runs.
THEOREM DriverKeepsBytes ==
    ASSUME Len(Started) = 2, StopsBetweenReads
    PROVE  DriverSpec => []BytesKept
<1>1. DriverBooks => BytesKept
  BY DEF DriverBooks
<1> QED
  BY <1>1, DriverBalances, PTL
=============================================================================
