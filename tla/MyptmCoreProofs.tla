---------------------------- MODULE MyptmCoreProofs ----------------------------
(***************************************************************************)
(* The safety invariants of the event loop hold for every set of threads,  *)
(* semaphores and timers, every nesting depth and every bound, when the    *)
(* application follows the rules; and it implements MyptmScheduler.        *)
(*                                                                         *)
(* IInv is the inductive invariant.  Its parts depend on each other: the   *)
(* lists are right because a thread that suspends itself is ready          *)
(* (ExecutingNotBlocked), which needs ref to say who is executing          *)
(* (NoReentrance), which needs types; a wait queue only holds suspended    *)
(* threads because waking and stopping look where Placement says they are. *)
(***************************************************************************)
EXTENDS MyptmCore, MyptmListsProofs

ListsOK == Placement /\ WaitersBlocked /\ ArmedIsBlocked

IInv == TypeOK /\ ListsOK /\ NoReentrance /\ ExecutingNotBlocked /\ NoLostWakeup /\ NoFault

\* The types of what the library's lists are made of.
ListTypes ==
    /\ pending \subseteq Thread
    /\ running \in Seq(Thread)
    /\ clip \in Seq(Thread)
    /\ waitq \in [Sem -> Seq(Thread)]
    /\ state \in [Thread -> State]
    /\ armed \subseteq Thread \cup Timer

\* What an action may do to the wait queues without taking a token from anyone.
NoNewWaiter == \A s \in Sem : waitq[s] = <<>> => waitq'[s] = <<>>

-----------------------------------------------------------------------------
\* A thread that is not ready, made ready: myptm_loop_make_ready with its timer
\* removed, as in startup, resume and timeout.
LEMMA MakeReadyStep ==
    ASSUME TypeOK, ListsOK, NEW t \in Thread, state[t] # "READY",
           MakeReady(t), armed' = armed \ {t}, UNCHANGED <<owner, lc>>
    PROVE  ListTypes' /\ ListsOK' /\ NoNewWaiter
<1>1. CASE ~owner[t]
  <2>1. UNCHANGED <<pending, running, clip, waitq, state, owner, lc>>
    BY <1>1 DEF MakeReady, lists
  <2>2. t \notin armed
    BY <1>1 DEF ListsOK, ArmedIsBlocked
  <2>3. armed' = armed
    BY <2>2
  <2> QED
    BY <2>1, <2>3 DEF TypeOK, ListTypes, ListsOK, Placement, WaitersBlocked, ArmedIsBlocked,
                      NoNewWaiter
<1>2. CASE owner[t]
  <2> USE DEF ListsOK
  <2>1. /\ pending' = pending \ {t}
        /\ running' = Append(Unlink(running, t), t)
        /\ clip' = Unlink(clip, t)
        /\ waitq' = [s \in Sem |-> Unlink(waitq[s], t)]
        /\ state' = [state EXCEPT ![t] = "READY"]
        /\ armed' = armed \ {t} /\ owner' = owner /\ lc' = lc
    BY <1>2 DEF MakeReady, LeaveWaitq
  <2>2. /\ running \in Seq(Thread) /\ IsInjective(running)
        /\ clip \in Seq(Thread) /\ IsInjective(clip)
        /\ t \notin Range(running) /\ t \notin Range(clip)
    BY DEF TypeOK, Placement
  <2>3. running' = Append(running, t) /\ clip' = clip
    BY <2>1, <2>2 DEF Unlink
  <2>4. /\ running' \in Seq(Thread) /\ IsInjective(running')
        /\ Range(running') = Range(running) \cup {t}
    BY <2>2, <2>3, AppendLemma
  <2>5. ASSUME NEW s \in Sem
        PROVE  /\ waitq'[s] \in Seq(Thread) /\ IsInjective(waitq'[s])
               /\ Range(waitq'[s]) = Range(waitq[s]) \ {t}
               /\ waitq[s] = <<>> => waitq'[s] = <<>>
    <3>1. waitq[s] \in Seq(Thread) /\ IsInjective(waitq[s]) /\ waitq'[s] = Unlink(waitq[s], t)
      BY <2>1 DEF TypeOK, WaitersBlocked
    <3>2. waitq[s] = <<>> => Unlink(waitq[s], t) = <<>>
      BY EmptyLemma DEF Unlink
    <3> QED BY <3>1, <3>2, UnlinkLemma
  <2>6. state' \in [Thread -> State] /\ \A u \in Thread : state'[u] = IF u = t THEN "READY" ELSE state[u]
    BY <2>1 DEF TypeOK, State
  <2>7. ListTypes'
    BY <2>1, <2>2, <2>3, <2>4, <2>5, <2>6 DEF TypeOK, ListTypes
  <2>8. Placement'
    BY <1>2, <2>1, <2>2, <2>3, <2>4, <2>6 DEF TypeOK, Placement
  <2>9. WaitersBlocked'
    <3>1. ASSUME NEW s \in Sem, NEW u \in Thread
          PROVE  u \in Range(waitq'[s]) <=> state'[u] = "PENDING" /\ lc'[u] = s
      <4>1. Range(waitq'[s]) = Range(waitq[s]) \ {t}
        BY <2>5
      <4>2. u \in Range(waitq[s]) <=> state[u] = "PENDING" /\ lc[u] = s
        BY DEF WaitersBlocked
      <4>3. lc'[u] = lc[u] /\ state'[u] = IF u = t THEN "READY" ELSE state[u]
        BY <2>1, <2>6
      <4> QED BY <4>1, <4>2, <4>3
    <3> QED BY <3>1, <2>5 DEF WaitersBlocked
  <2>10. ArmedIsBlocked'
    BY <2>1, <2>6 DEF ArmedIsBlocked
  <2>11. NoNewWaiter
    BY <2>5 DEF NoNewWaiter
  <2> QED BY <2>7, <2>8, <2>9, <2>10, <2>11
<1> QED BY <1>1, <1>2

\* A thread taken out of the loop: myptm_loop_remove.
LEMMA DetachStep ==
    ASSUME TypeOK, ListsOK, NEW t \in Thread, Detach(t), UNCHANGED lc
    PROVE  ListTypes' /\ owner' \in [Thread -> BOOLEAN] /\ ListsOK' /\ NoNewWaiter
<1> USE DEF ListsOK
<1>1. /\ pending' = pending \ {t}
      /\ running' = Unlink(running, t)
      /\ clip' = Unlink(clip, t)
      /\ waitq' = [s \in Sem |-> Unlink(waitq[s], t)]
      /\ armed' = armed \ {t} /\ lc' = lc
      /\ owner' = [owner EXCEPT ![t] = FALSE]
      /\ state' = [state EXCEPT ![t] = "DEAD"]
  BY DEF Detach, LeaveList, LeaveWaitq, StopTimers
<1>2. /\ running' \in Seq(Thread) /\ IsInjective(running') /\ Range(running') = Range(running) \ {t}
      /\ clip' \in Seq(Thread) /\ IsInjective(clip') /\ Range(clip') = Range(clip) \ {t}
  <2>1. running \in Seq(Thread) /\ IsInjective(running) /\ clip \in Seq(Thread) /\ IsInjective(clip)
    BY DEF TypeOK, Placement
  <2> QED BY <2>1, <1>1, UnlinkLemma
<1>3. ASSUME NEW s \in Sem
      PROVE  /\ waitq'[s] \in Seq(Thread) /\ IsInjective(waitq'[s])
             /\ Range(waitq'[s]) = Range(waitq[s]) \ {t}
             /\ waitq[s] = <<>> => waitq'[s] = <<>>
  <2>1. waitq[s] \in Seq(Thread) /\ IsInjective(waitq[s]) /\ waitq'[s] = Unlink(waitq[s], t)
    BY <1>1 DEF TypeOK, WaitersBlocked
  <2>2. waitq[s] = <<>> => Unlink(waitq[s], t) = <<>>
    BY EmptyLemma DEF Unlink
  <2> QED BY <2>1, <2>2, UnlinkLemma
<1>4. state' \in [Thread -> State] /\ \A u \in Thread : state'[u] = IF u = t THEN "DEAD" ELSE state[u]
  BY <1>1 DEF TypeOK, State
<1>5. owner' \in [Thread -> BOOLEAN] /\ ~owner'[t] /\ \A u \in Thread \ {t} : owner'[u] = owner[u]
  BY <1>1 DEF TypeOK
<1>6. ListTypes'
  BY <1>1, <1>2, <1>3, <1>4 DEF TypeOK, ListTypes
<1>7. Placement'
  <2>1. /\ IsInjective(running') /\ IsInjective(clip') /\ Range(running') \cap Range(clip') = {}
    BY <1>2 DEF Placement
  <2>2. Range(running') \cup Range(clip') = {u \in Thread : owner'[u] /\ state'[u] = "READY"}
    BY <1>2, <1>4, <1>5 DEF Placement
  <2>3. pending' = {u \in Thread : owner'[u] /\ state'[u] \in {"INIT", "PENDING"}}
    BY <1>1, <1>4, <1>5 DEF Placement
  <2>4. /\ \A u \in Thread : state'[u] = "DEAD" => ~owner'[u]
        /\ \A u \in Thread : ~owner'[u] => state'[u] \in {"INIT", "DEAD"}
    BY <1>4, <1>5 DEF Placement
  <2> QED BY <2>1, <2>2, <2>3, <2>4 DEF Placement
<1>8. WaitersBlocked'
  <2>1. ASSUME NEW s \in Sem, NEW u \in Thread
        PROVE  u \in Range(waitq'[s]) <=> state'[u] = "PENDING" /\ lc'[u] = s
    <3>1. Range(waitq'[s]) = Range(waitq[s]) \ {t}
      BY <1>3
    <3>2. u \in Range(waitq[s]) <=> state[u] = "PENDING" /\ lc[u] = s
      BY DEF WaitersBlocked
    <3>3. lc'[u] = lc[u] /\ state'[u] = IF u = t THEN "DEAD" ELSE state[u]
      BY <1>1, <1>4
    <3> QED BY <3>1, <3>2, <3>3
  <2> QED BY <2>1, <1>3 DEF WaitersBlocked
<1>9. ArmedIsBlocked'
  BY <1>1, <1>4, <1>5 DEF ArmedIsBlocked
<1>10. NoNewWaiter
  BY <1>3 DEF NoNewWaiter
<1> QED BY <1>5, <1>6, <1>7, <1>8, <1>9, <1>10

\* The oldest k waiters of a semaphore are woken: give, give_all and destroy.
LEMMA WakeStep ==
    ASSUME TypeOK, ListsOK, NEW s \in Sem, NEW k \in 0 .. Len(waitq[s]), NEW code \in Err,
           Wake(s, k, code), UNCHANGED <<owner, lc>>
    PROVE  /\ ListTypes' /\ err' \in [Thread -> Err] /\ ListsOK' /\ NoNewWaiter
           /\ k = Len(waitq[s]) => waitq'[s] = <<>>
           /\ \A t \in Thread : state'[t] = state[t] \/ state'[t] = "READY"
<1> USE DEF ListsOK
<1> DEFINE woken == SubSeq(waitq[s], 1, k)
           rest == SubSeq(waitq[s], k + 1, Len(waitq[s]))
           Woken == Range(woken)
<1>1. /\ pending' = pending \ Woken
      /\ running' = running \o woken
      /\ clip' = clip
      /\ waitq' = [waitq EXCEPT ![s] = rest]
      /\ armed' = armed \ Woken
      /\ state' = [t \in Thread |-> IF t \in Woken THEN "READY" ELSE state[t]]
      /\ err' = [t \in Thread |-> IF t \in Woken THEN code ELSE err[t]]
      /\ owner' = owner /\ lc' = lc
  BY DEF Wake, StopTimers
<1>2. waitq[s] \in Seq(Thread) /\ IsInjective(waitq[s])
  BY DEF TypeOK, WaitersBlocked
<1>3. /\ woken \in Seq(Thread) /\ IsInjective(woken)
      /\ rest \in Seq(Thread) /\ IsInjective(rest)
      /\ Woken \cup Range(rest) = Range(waitq[s]) /\ Woken \cap Range(rest) = {}
      /\ k = Len(waitq[s]) => rest = <<>>
  BY <1>2, SplitLemma
<1>4. waitq[s] = <<>> => rest = <<>>
  <2>1. waitq[s] = <<>> => k = Len(waitq[s])
    OBVIOUS
  <2> QED BY <2>1, <1>3
<1> HIDE DEF woken, rest
<1>5. Woken \subseteq Thread
  BY <1>3 DEF Range
<1> HIDE DEF Woken
<1>6. \A t \in Woken : state[t] = "PENDING" /\ lc[t] = s /\ owner[t]
  BY <1>3, <1>5 DEF WaitersBlocked, Placement
<1>7. /\ state' \in [Thread -> State] /\ err' \in [Thread -> Err]
      /\ \A t \in Thread : state'[t] = IF t \in Woken THEN "READY" ELSE state[t]
  BY <1>1 DEF TypeOK, State
<1>8. /\ running' \in Seq(Thread) /\ IsInjective(running')
      /\ Range(running') = Range(running) \cup Woken
  <2>1. running \in Seq(Thread) /\ IsInjective(running)
    BY DEF TypeOK, Placement
  <2>2. Range(running) \cap Woken = {}
    BY <1>6 DEF Placement
  <2> QED BY <2>1, <2>2, <1>1, <1>3, ConcatLemma DEF Woken
<1>9. /\ waitq' \in [Sem -> Seq(Thread)]
      /\ \A q \in Sem : waitq'[q] = IF q = s THEN rest ELSE waitq[q]
  BY <1>1, <1>3 DEF TypeOK
<1>10. ListTypes'
  BY <1>1, <1>7, <1>8, <1>9 DEF TypeOK, ListTypes
<1>11. Placement'
  <2>1. IsInjective(running') /\ IsInjective(clip') /\ Range(running') \cap Range(clip') = {}
    BY <1>1, <1>6, <1>8 DEF Placement
  <2>2. Range(running') \cup Range(clip') = {t \in Thread : owner'[t] /\ state'[t] = "READY"}
    BY <1>1, <1>5, <1>6, <1>7, <1>8 DEF Placement
  <2>3. pending' = {t \in Thread : owner'[t] /\ state'[t] \in {"INIT", "PENDING"}}
    BY <1>1, <1>7 DEF Placement
  <2>4. /\ \A t \in Thread : state'[t] = "DEAD" => ~owner'[t]
        /\ \A t \in Thread : ~owner'[t] => state'[t] \in {"INIT", "DEAD"}
    BY <1>1, <1>6, <1>7 DEF Placement
  <2> QED BY <2>1, <2>2, <2>3, <2>4 DEF Placement
<1>12. WaitersBlocked'
  <2>1. ASSUME NEW q \in Sem PROVE IsInjective(waitq'[q])
    BY <1>3, <1>9 DEF WaitersBlocked
  <2>2. ASSUME NEW q \in Sem, NEW t \in Thread
        PROVE  t \in Range(waitq'[q]) <=> state'[t] = "PENDING" /\ lc'[t] = q
    <3>1. t \in Range(waitq[q]) <=> state[t] = "PENDING" /\ lc[t] = q
      BY DEF WaitersBlocked
    <3>2. state'[t] = IF t \in Woken THEN "READY" ELSE state[t]
      BY <1>7
    <3>3. CASE q = s
      BY <3>1, <3>2, <3>3, <1>1, <1>3, <1>9 DEF Woken
    <3>4. CASE q # s
      BY <3>1, <3>2, <3>4, <1>1, <1>6, <1>9
    <3> QED BY <3>3, <3>4
  <2> QED BY <2>1, <2>2 DEF WaitersBlocked
<1>13. ArmedIsBlocked'
  BY <1>1, <1>7 DEF ArmedIsBlocked
<1>14. NoNewWaiter
  BY <1>4, <1>9 DEF NoNewWaiter
<1> QED
  BY <1>3, <1>7, <1>9, <1>10, <1>11, <1>12, <1>13, <1>14

\* A ready thread suspends itself, in the wait queue of q or in none.
LEMMA BlockStep ==
    ASSUME TypeOK, ListsOK, NEW t \in Thread, owner[t], state[t] = "READY",
           NEW q \in Sem \cup {NoSem}, NEW timed \in BOOLEAN,
           Block(t, q, timed), fault' = "none"
    PROVE  /\ ListTypes' /\ err' \in [Thread -> Err] /\ lc' \in [Thread -> Sem \cup {NoSem}]
           /\ ListsOK'
           /\ \A s \in Sem : s # q => waitq'[s] = waitq[s]
           /\ \A u \in Thread : u # t => state'[u] = state[u]
<1> USE DEF ListsOK
<1>1. /\ pending' = pending \cup {t}
      /\ running' = Unlink(running, t)
      /\ clip' = Unlink(clip, t)
      /\ waitq' = [s \in Sem |-> IF s = q THEN Append(waitq[s], t) ELSE waitq[s]]
      /\ armed' = IF timed THEN armed \cup {t} ELSE armed
      /\ state' = [state EXCEPT ![t] = "PENDING"]
      /\ err' = [err EXCEPT ![t] = "EOK"]
      /\ lc' = [lc EXCEPT ![t] = q]
      /\ owner' = owner
  BY DEF Block
<1>2. /\ running' \in Seq(Thread) /\ IsInjective(running') /\ Range(running') = Range(running) \ {t}
      /\ clip' \in Seq(Thread) /\ IsInjective(clip') /\ Range(clip') = Range(clip) \ {t}
  <2>1. running \in Seq(Thread) /\ IsInjective(running) /\ clip \in Seq(Thread) /\ IsInjective(clip)
    BY DEF TypeOK, Placement
  <2> QED BY <2>1, <1>1, UnlinkLemma
<1>3. ASSUME NEW s \in Sem
      PROVE  /\ waitq'[s] \in Seq(Thread) /\ IsInjective(waitq'[s])
             /\ Range(waitq'[s]) = IF s = q THEN Range(waitq[s]) \cup {t} ELSE Range(waitq[s])
             /\ s # q => waitq'[s] = waitq[s]
  <2>1. /\ waitq[s] \in Seq(Thread) /\ IsInjective(waitq[s]) /\ t \notin Range(waitq[s])
        /\ waitq'[s] = IF s = q THEN Append(waitq[s], t) ELSE waitq[s]
    BY <1>1 DEF TypeOK, WaitersBlocked
  <2>2. CASE s = q
    BY <2>1, <2>2, AppendLemma
  <2>3. CASE s # q
    BY <2>1, <2>3
  <2> QED BY <2>2, <2>3
<1>4. /\ state' \in [Thread -> State] /\ err' \in [Thread -> Err]
      /\ lc' \in [Thread -> Sem \cup {NoSem}]
      /\ \A u \in Thread : state'[u] = IF u = t THEN "PENDING" ELSE state[u]
      /\ \A u \in Thread : lc'[u] = IF u = t THEN q ELSE lc[u]
  BY <1>1 DEF TypeOK, State, Err
<1>5. ListTypes'
  BY <1>1, <1>2, <1>3, <1>4 DEF TypeOK, ListTypes
<1>6. Placement'
  <2>1. IsInjective(running') /\ IsInjective(clip') /\ Range(running') \cap Range(clip') = {}
    BY <1>2 DEF Placement
  <2>2. Range(running') \cup Range(clip') = {u \in Thread : owner'[u] /\ state'[u] = "READY"}
    BY <1>1, <1>2, <1>4 DEF Placement
  <2>3. pending' = {u \in Thread : owner'[u] /\ state'[u] \in {"INIT", "PENDING"}}
    BY <1>1, <1>4 DEF Placement
  <2>4. /\ \A u \in Thread : state'[u] = "DEAD" => ~owner'[u]
        /\ \A u \in Thread : ~owner'[u] => state'[u] \in {"INIT", "DEAD"}
    BY <1>1, <1>4 DEF Placement
  <2> QED BY <2>1, <2>2, <2>3, <2>4 DEF Placement
<1>7. WaitersBlocked'
  <2>1. ASSUME NEW s \in Sem, NEW u \in Thread
        PROVE  u \in Range(waitq'[s]) <=> state'[u] = "PENDING" /\ lc'[u] = s
    <3>1. u \in Range(waitq[s]) <=> state[u] = "PENDING" /\ lc[u] = s
      BY DEF WaitersBlocked
    <3>2. /\ state'[u] = IF u = t THEN "PENDING" ELSE state[u]
          /\ lc'[u] = IF u = t THEN q ELSE lc[u]
      BY <1>4
    <3>3. Range(waitq'[s]) = IF s = q THEN Range(waitq[s]) \cup {t} ELSE Range(waitq[s])
      BY <1>3
    <3> QED BY <3>1, <3>2, <3>3
  <2> QED BY <2>1, <1>3 DEF WaitersBlocked
<1>8. ArmedIsBlocked'
  BY <1>1, <1>4 DEF ArmedIsBlocked
<1> QED BY <1>3, <1>4, <1>5, <1>6, <1>7, <1>8

\* A poll starts: the ready threads change lists together.
LEMMA RefillStep ==
    ASSUME TypeOK, ListsOK, RefillClip, UNCHANGED <<pending, waitq, state, owner, lc, armed>>
    PROVE  ListTypes' /\ ListsOK'
<1> USE DEF ListsOK
<1>1. CASE clip = <<>>
  <2>1. clip' = running /\ running' = <<>>
    BY <1>1 DEF RefillClip
  <2>2. Range(clip) = {} /\ IsInjective(clip)
    BY <1>1, EmptyLemma
  <2>3. Range(running') = {} /\ IsInjective(running') /\ running' \in Seq(Thread)
    BY <2>1, EmptyLemma
  <2>4. ListTypes'
    BY <2>1, <2>3 DEF TypeOK, ListTypes
  <2>5. Placement'
    BY <2>1, <2>2, <2>3 DEF Placement
  <2>6. WaitersBlocked' /\ ArmedIsBlocked'
    BY DEF WaitersBlocked, ArmedIsBlocked
  <2> QED BY <2>4, <2>5, <2>6
<1>2. CASE clip # <<>>
  <2>1. clip' = clip /\ running' = running
    BY <1>2 DEF RefillClip
  <2> QED
    BY <2>1 DEF TypeOK, ListTypes, Placement, WaitersBlocked, ArmedIsBlocked
<1> QED BY <1>1, <1>2

\* The head of the clip moves to the tail of the running list.
LEMMA DispatchLists ==
    ASSUME TypeOK, ListsOK, clip # <<>>, clip' = Tail(clip),
           running' = Append(running, Head(clip)),
           UNCHANGED <<pending, waitq, state, owner, lc, armed>>
    PROVE  /\ ListTypes' /\ ListsOK'
           /\ Head(clip) \in Thread /\ owner[Head(clip)] /\ state[Head(clip)] = "READY"
<1> USE DEF ListsOK
<1> DEFINE t == Head(clip)
<1>1. clip \in Seq(Thread) /\ IsInjective(clip) /\ running \in Seq(Thread) /\ IsInjective(running)
  BY DEF TypeOK, Placement
<1>2. /\ t \in Thread /\ t \in Range(clip)
      /\ clip' \in Seq(Thread) /\ Range(clip') = Range(clip) \ {t} /\ IsInjective(clip')
  BY <1>1, TailLemma
<1> HIDE DEF t
<1>3. t \notin Range(running) /\ owner[t] /\ state[t] = "READY"
  BY <1>2 DEF Placement
<1>4. /\ running' \in Seq(Thread) /\ Range(running') = Range(running) \cup {t}
      /\ IsInjective(running')
  BY <1>1, <1>2, <1>3, AppendLemma DEF t
<1>5. ListTypes'
  BY <1>2, <1>4 DEF TypeOK, ListTypes
<1>6. Placement'
  BY <1>2, <1>4 DEF Placement
<1>7. WaitersBlocked' /\ ArmedIsBlocked'
  BY DEF WaitersBlocked, ArmedIsBlocked
<1> QED BY <1>2, <1>3, <1>5, <1>6, <1>7 DEF t

-----------------------------------------------------------------------------
Phase == {"tick", "callback", "run", "entry"}
MaybeThread == Thread \cup {NoThread}

LEMMA TopTyped ==
    ASSUME stack \in Seq(Frame), stack # <<>>
    PROVE  Top \in Frame /\ Top.old \in MaybeThread /\ Top.join \in MaybeThread
<1>1. Top \in Frame
  BY DEF Top
<1> QED BY <1>1 DEF Frame, MaybeThread

\* The top frame changes its phase, the ones below stay.
LEMMA AtFrames ==
    ASSUME stack \in Seq(Frame), stack # <<>>,
           NEW p \in Phase, NEW t \in MaybeThread, NEW o \in MaybeThread
    PROVE  /\ At(p, t, o) \in Seq(Frame)
           /\ Len(stack) \in DOMAIN stack
           /\ DOMAIN At(p, t, o) = DOMAIN stack
           /\ Top \in Frame
           /\ At(p, t, o)[Len(stack)].phase = p /\ At(p, t, o)[Len(stack)].thread = t
           /\ \A i \in DOMAIN stack : i # Len(stack) => At(p, t, o)[i] = stack[i]
           /\ \A i \in DOMAIN stack : At(p, t, o)[i].join = stack[i].join
<1>1. Len(stack) \in DOMAIN stack /\ Top \in Frame
  BY DEF Top
<1>2. Top.join \in MaybeThread
  BY <1>1 DEF Frame, MaybeThread
<1> DEFINE f == [phase |-> p, thread |-> t, old |-> o, join |-> Top.join]
<1>3. f \in Frame
  BY <1>2 DEF Frame, Phase, MaybeThread
<1>4. At(p, t, o) = [stack EXCEPT ![Len(stack)] = f]
  BY DEF At, Top
<1>5. f.phase = p /\ f.thread = t /\ f.join = Top.join
  OBVIOUS
<1> HIDE DEF f
<1>6. /\ At(p, t, o) \in Seq(Frame)
      /\ DOMAIN At(p, t, o) = DOMAIN stack
      /\ \A i \in DOMAIN stack : At(p, t, o)[i] = IF i = Len(stack) THEN f ELSE stack[i]
  BY <1>1, <1>3, <1>4
<1>7. \A i \in DOMAIN stack : At(p, t, o)[i].join = stack[i].join
  BY <1>5, <1>6 DEF Top
<1> QED
  BY <1>1, <1>5, <1>6, <1>7

\* A step between phases that are no entry changes nothing for the entries.
LEMMA PhaseStep ==
    ASSUME TypeOK, NoReentrance, stack # <<>>, Top.phase # "entry",
           NEW p \in {"tick", "callback", "run"}, NEW o \in MaybeThread,
           stack' = At(p, NoThread, o), ref' = ref
    PROVE  stack' \in Seq(Frame) /\ NoReentrance'
<1>1. stack \in Seq(Frame) /\ p \in Phase /\ NoThread \in MaybeThread
  BY DEF TypeOK, Phase, MaybeThread
<1>2. /\ stack' \in Seq(Frame)
      /\ Len(stack) \in DOMAIN stack
      /\ DOMAIN stack' = DOMAIN stack
      /\ stack'[Len(stack)].phase = p
      /\ \A i \in DOMAIN stack : i # Len(stack) => stack'[i] = stack[i]
  BY <1>1, AtFrames
<1>3. \A t \in Thread : Activations(t)' = Activations(t)
  BY <1>2 DEF Activations, Top
<1> QED BY <1>2, <1>3 DEF NoReentrance

\* A poll is called: its frame is no entry.
LEMMA PushStep ==
    ASSUME TypeOK, NoReentrance, NEW j \in MaybeThread,
           stack' = Append(stack, NewFrame(j)), ref' = ref
    PROVE  stack' \in Seq(Frame) /\ NoReentrance'
<1>1. NewFrame(j) \in Frame /\ NewFrame(j).phase = "tick"
  BY DEF NewFrame, Frame, MaybeThread
<1>2. stack \in Seq(Frame)
  BY DEF TypeOK
<1>3. /\ stack' \in Seq(Frame)
      /\ Len(stack) \in Nat
      /\ DOMAIN stack = 1 .. Len(stack)
      /\ DOMAIN stack' = 1 .. Len(stack) + 1
      /\ stack'[Len(stack) + 1] = NewFrame(j)
      /\ \A i \in DOMAIN stack : stack'[i] = stack[i]
  BY <1>1, <1>2
<1>4. \A i \in DOMAIN stack' : i \in DOMAIN stack \/ i = Len(stack) + 1
  BY <1>3
<1>5. \A t \in Thread : Activations(t)' = Activations(t)
  BY <1>1, <1>3, <1>4 DEF Activations
<1> QED BY <1>3, <1>5 DEF NoReentrance

\* A poll returns, from its while loop.
LEMMA PopStep ==
    ASSUME TypeOK, NoReentrance, stack # <<>>, Top.phase # "entry",
           stack' = Front(stack), ref' = ref
    PROVE  stack' \in Seq(Frame) /\ NoReentrance'
<1>1. stack \in Seq(Frame)
  BY DEF TypeOK
<1>2. /\ stack' \in Seq(Frame)
      /\ Len(stack) \in Nat
      /\ DOMAIN stack = 1 .. Len(stack)
      /\ DOMAIN stack' = 1 .. Len(stack) - 1
      /\ \A i \in DOMAIN stack' : stack'[i] = stack[i]
  BY <1>1 DEF Front
<1>3. \A i \in DOMAIN stack : i \in DOMAIN stack' \/ i = Len(stack)
  BY <1>2
<1>4. \A i \in DOMAIN stack' : i \in DOMAIN stack
  BY <1>2
<1>5. \A t \in Thread : Activations(t)' = Activations(t)
  BY <1>2, <1>3, <1>4 DEF Activations, Top
<1> QED BY <1>2, <1>5 DEF NoReentrance

\* An entry returns: it was the only activation of its thread.
LEMMA LeaveStep ==
    ASSUME TypeOK, NoReentrance, NEW t \in Thread, InEntry(t), LeaveEntry(t)
    PROVE  /\ stack' \in Seq(Frame) /\ ref' \in [Thread -> Nat] /\ NoReentrance'
           /\ ref[t] = 1 /\ ref'[t] = 0
           /\ \A u \in Thread : u # t => ref'[u] = ref[u]
<1>1. /\ stack \in Seq(Frame) /\ stack # <<>>
      /\ Top.phase = "entry" /\ Top.thread = t
      /\ ref \in [Thread -> Nat]
  BY DEF TypeOK, InEntry, InPhase
<1>2. "run" \in Phase /\ NoThread \in MaybeThread /\ Top.old \in MaybeThread
  BY <1>1, TopTyped DEF Phase, MaybeThread
<1>3. /\ stack' \in Seq(Frame)
      /\ Len(stack) \in DOMAIN stack
      /\ DOMAIN stack' = DOMAIN stack
      /\ stack'[Len(stack)].phase = "run"
      /\ \A i \in DOMAIN stack : i # Len(stack) => stack'[i] = stack[i]
  BY <1>1, <1>2, AtFrames DEF LeaveEntry
<1>4. Len(stack) \in Activations(t)
  BY <1>1, <1>3 DEF Activations, Top
<1>5. Activations(t) = {Len(stack)} /\ ref[t] = 1
  BY <1>4 DEF NoReentrance
<1>6. Activations(t)' = {}
  BY <1>3, <1>5 DEF Activations
<1>7. \A u \in Thread : u # t => Activations(u)' = Activations(u)
  BY <1>1, <1>3 DEF Activations, Top
<1>8. ref' = [ref EXCEPT ![t] = @ - 1]
  BY DEF LeaveEntry
<1>9. ref' \in [Thread -> Nat] /\ ref'[t] = 0 /\ \A u \in Thread : u # t => ref'[u] = ref[u]
  BY <1>1, <1>5, <1>8
<1>10. NoReentrance'
  <2>1. ASSUME NEW u \in Thread, u # t
        PROVE  /\ (\A i, j \in Activations(u) : i = j)'
               /\ ref'[u] = IF Activations(u)' = {} THEN 0 ELSE 1
    BY <1>7, <1>9, <2>1 DEF NoReentrance
  <2> QED BY <2>1, <1>6, <1>9 DEF NoReentrance
<1> QED BY <1>3, <1>5, <1>9, <1>10

\* An entry is called: its thread has no activation yet.
LEMMA EnterStep ==
    ASSUME TypeOK, NoReentrance, stack # <<>>, Top.phase = "run", NEW t \in Thread, ref[t] = 0,
           ref' = [ref EXCEPT ![t] = @ + 1], stack' = At("entry", t, Top.old)
    PROVE  /\ stack' \in Seq(Frame) /\ ref' \in [Thread -> Nat] /\ NoReentrance'
           /\ \A u \in Thread : u # t => ref'[u] = ref[u]
<1>1. stack \in Seq(Frame) /\ ref \in [Thread -> Nat]
  BY DEF TypeOK
<1>2. "entry" \in Phase /\ t \in MaybeThread /\ Top.old \in MaybeThread
  BY <1>1, TopTyped DEF Phase, MaybeThread
<1>3. /\ stack' \in Seq(Frame)
      /\ Len(stack) \in DOMAIN stack
      /\ DOMAIN stack' = DOMAIN stack
      /\ stack'[Len(stack)].phase = "entry" /\ stack'[Len(stack)].thread = t
      /\ \A i \in DOMAIN stack : i # Len(stack) => stack'[i] = stack[i]
  BY <1>1, <1>2, AtFrames
<1>4. Activations(t) = {}
  BY DEF NoReentrance
<1>5. Activations(t)' = {Len(stack)}
  BY <1>3, <1>4 DEF Activations
<1>6. \A u \in Thread : u # t => Activations(u)' = Activations(u)
  BY <1>3 DEF Activations, Top
<1>7. ref' \in [Thread -> Nat] /\ ref'[t] = 1 /\ \A u \in Thread : u # t => ref'[u] = ref[u]
  BY <1>1
<1>8. NoReentrance'
  <2>1. ASSUME NEW u \in Thread, u # t
        PROVE  /\ (\A i, j \in Activations(u) : i = j)'
               /\ ref'[u] = IF Activations(u)' = {} THEN 0 ELSE 1
    BY <1>6, <1>7, <2>1 DEF NoReentrance
  <2>2. (\A i, j \in Activations(t) : i = j)' /\ ref'[t] = IF Activations(t)' = {} THEN 0 ELSE 1
    BY <1>5, <1>7
  <2> QED BY <2>1, <2>2 DEF NoReentrance
<1> QED BY <1>3, <1>7, <1>8

-----------------------------------------------------------------------------
\* A thread that is being joined keeps its loop until it is dead, so the join has
\* a loop to poll.
JoinedHasLoop ==
    \A i \in DOMAIN stack : stack[i].join \in Thread =>
        owner[stack[i].join] \/ state[stack[i].join] = "DEAD"

OtherTypes ==
    /\ count \in [Sem -> Nat]
    /\ owner \in [Thread -> BOOLEAN]
    /\ err \in [Thread -> Err]
    /\ lc \in [Thread -> Sem \cup {NoSem}]
    /\ ref \in [Thread -> Nat]
    /\ current \in MaybeThread
    /\ stack \in Seq(Frame)
    /\ stale \subseteq Timer
    /\ fault \in Faults \cup {"none"}

LEMMA TypeParts ==
    /\ TypeOK <=> ListTypes /\ OtherTypes
    /\ TypeOK' <=> ListTypes' /\ OtherTypes'
BY DEF TypeOK, ListTypes, OtherTypes, MaybeThread

LEMMA ListsSame ==
    ASSUME TypeOK, ListsOK, UNCHANGED <<lists, waitq, state, owner, lc, armed>>
    PROVE  ListTypes' /\ ListsOK'
BY DEF TypeOK, ListTypes, ListsOK, Placement, WaitersBlocked, ArmedIsBlocked, lists

LEMMA NestingSame ==
    ASSUME NoReentrance, UNCHANGED <<stack, ref>>
    PROVE  NoReentrance'
BY DEF NoReentrance, Activations

\* Stopping the timers of threads leaves those alone that are linked to the head only.
LEMMA StaleSame ==
    /\ \A t : Detach(t) => stale' = stale
    /\ \A s, k, code : Wake(s, k, code) => stale' = stale
BY DEF Detach, Wake, StopTimers

LEMMA TokensSame ==
    ASSUME TypeOK, NoLostWakeup, NoNewWaiter, count' = count
    PROVE  NoLostWakeup'
BY DEF NoLostWakeup, NoNewWaiter

-----------------------------------------------------------------------------
(***************************************************************************)
(* One lemma per group of actions: what the application calls on threads,  *)
(* on semaphores, from an entry, and on timers, and the steps of a poll.   *)
(***************************************************************************)
LEMMA LoopAddInv ==
    ASSUME IInv, NEW t \in Thread, LoopAdd(t), state[t] = "INIT"
    PROVE  IInv'
<1> USE DEF IInv
<1>1. /\ state[t] = "INIT" /\ ~owner[t]
      /\ owner' = [owner EXCEPT ![t] = TRUE]
      /\ pending' = pending \cup {t}
      /\ UNCHANGED <<running, clip, waitq, count, state, err, lc, ref, armed, stale, current, stack,
                     fault>>
  BY DEF LoopAdd
<1>2. /\ owner' \in [Thread -> BOOLEAN]
      /\ \A u \in Thread : owner'[u] = IF u = t THEN TRUE ELSE owner[u]
  BY <1>1 DEF TypeOK
<1>3. TypeOK'
  BY <1>1, <1>2 DEF TypeOK
<1>4. Placement'
  BY <1>1, <1>2 DEF ListsOK, Placement
<1>5. WaitersBlocked' /\ ArmedIsBlocked'
  BY <1>1, <1>2 DEF ListsOK, WaitersBlocked, ArmedIsBlocked
<1>6. NoReentrance' /\ NoLostWakeup' /\ NoFault' /\ ExecutingNotBlocked'
  BY <1>1, NestingSame DEF NoLostWakeup, NoFault, ExecutingNotBlocked
<1> QED BY <1>3, <1>4, <1>5, <1>6 DEF ListsOK

LEMMA StartupInv ==
    ASSUME IInv, NEW t \in Thread, Startup(t)
    PROVE  IInv'
<1> USE DEF IInv
<1>1. /\ state[t] = "INIT" /\ MakeReady(t)
      /\ UNCHANGED <<count, owner, err, lc, ref, armed, stale, current, stack, fault>>
  BY DEF Startup
<1>2. armed' = armed \ {t}
  BY <1>1 DEF ListsOK, ArmedIsBlocked
<1>3. ListTypes' /\ ListsOK' /\ NoNewWaiter
  BY <1>1, <1>2, MakeReadyStep
<1>4. TypeOK'
  BY <1>1, <1>3, TypeParts DEF OtherTypes
<1>5. NoReentrance' /\ NoLostWakeup' /\ NoFault'
  BY <1>1, <1>3, NestingSame, TokensSame DEF NoFault
<1>6. ExecutingNotBlocked'
  BY <1>1 DEF MakeReady, ExecutingNotBlocked, TypeOK
<1> QED BY <1>3, <1>4, <1>5, <1>6

LEMMA StopInv ==
    ASSUME IInv, NEW t \in Thread, Stop(t)
    PROVE  IInv'
<1> USE DEF IInv
<1>1. Detach(t) /\ UNCHANGED <<count, err, lc, ref, stale, current, stack, fault>>
  BY StaleSame DEF Stop
<1>2. ListTypes' /\ owner' \in [Thread -> BOOLEAN] /\ ListsOK' /\ NoNewWaiter
  BY <1>1, DetachStep
<1>3. TypeOK'
  BY <1>1, <1>2, TypeParts DEF OtherTypes
<1>4. NoReentrance' /\ NoLostWakeup' /\ NoFault'
  BY <1>1, <1>2, NestingSame, TokensSame DEF NoFault
<1>5. ExecutingNotBlocked'
  BY <1>1 DEF Detach, ExecutingNotBlocked, TypeOK
<1> QED BY <1>2, <1>3, <1>4, <1>5

LEMMA ThreadCallsInv ==
    ASSUME Rules = AllRules, IInv, NEW t \in Thread, ThreadCalls(t)
    PROVE  IInv'
<1> USE DEF IInv
<1>1. CASE ThreadInit(t)
  <2>1. /\ state[t] = "DEAD" /\ ~owner[t] /\ ref[t] = 0
        /\ state' = [state EXCEPT ![t] = "INIT"]
        /\ err' = [err EXCEPT ![t] = "EOK"]
        /\ lc' = [lc EXCEPT ![t] = NoSem]
        /\ UNCHANGED <<pending, running, clip, waitq, count, owner, ref, armed, stale, current, stack,
                       fault>>
    BY <1>1 DEF ThreadInit, lists
  <2>2. /\ state' \in [Thread -> State] /\ err' \in [Thread -> Err]
        /\ lc' \in [Thread -> Sem \cup {NoSem}]
        /\ \A u \in Thread : state'[u] = IF u = t THEN "INIT" ELSE state[u]
        /\ \A u \in Thread : lc'[u] = IF u = t THEN NoSem ELSE lc[u]
    BY <2>1 DEF TypeOK, State, Err
  <2>3. TypeOK'
    BY <2>1, <2>2 DEF TypeOK
  <2>4. Placement'
    BY <2>1, <2>2 DEF ListsOK, Placement
  <2>5. WaitersBlocked'
    BY <2>1, <2>2 DEF ListsOK, WaitersBlocked
  <2>6. ArmedIsBlocked'
    BY <2>1, <2>2 DEF ListsOK, ArmedIsBlocked
  <2>7. NoReentrance' /\ NoLostWakeup' /\ NoFault'
    BY <2>1, NestingSame DEF NoLostWakeup, NoFault
  <2>8. ExecutingNotBlocked'
    BY <2>1, <2>2 DEF ExecutingNotBlocked
  <2> QED BY <2>3, <2>4, <2>5, <2>6, <2>7, <2>8 DEF ListsOK
<1>2. CASE LoopAdd(t)
  <2>1. state[t] = "INIT"
    BY <1>2 DEF LoopAdd, Obeys, AllRules
  <2> QED BY <1>2, <2>1, LoopAddInv
<1>3. CASE Startup(t)
  BY <1>3, StartupInv
<1>4. CASE Stop(t)
  BY <1>4, StopInv
<1>5. CASE Join(t)
  <2>1. /\ owner[t] /\ UNCHANGED <<pending, waitq, count, threads, armed, stale, current>>
        /\ IF state[t] # "DEAD"
           THEN /\ RefillClip
                /\ stack' = Append(stack, NewFrame(t))
                /\ UNCHANGED fault
           ELSE /\ state[t] = "DEAD" <=> owner[t]
                /\ fault' = IF owner[t] THEN "assert" ELSE "null"
                /\ UNCHANGED <<running, clip, stack>>
    BY <1>5 DEF Join, Obeys, AllRules
  <2>2. state[t] # "DEAD"
    BY <2>1 DEF ListsOK, Placement
  <2>3. /\ RefillClip /\ stack' = Append(stack, NewFrame(t))
        /\ UNCHANGED <<pending, waitq, count, state, owner, err, lc, ref, armed, stale, current, fault>>
    BY <2>1, <2>2 DEF threads
  <2>4. ListTypes' /\ ListsOK'
    BY <2>3, RefillStep
  <2>5. stack' \in Seq(Frame) /\ NoReentrance'
    BY <2>3, PushStep DEF MaybeThread
  <2>6. TypeOK'
    BY <2>3, <2>4, <2>5, TypeParts DEF OtherTypes
  <2>7. NoLostWakeup' /\ NoFault' /\ ExecutingNotBlocked'
    BY <2>3 DEF NoLostWakeup, NoFault, ExecutingNotBlocked
  <2> QED BY <2>4, <2>5, <2>6, <2>7
<1>6. ASSUME NEW code \in Codes, Resume(t, code)
      PROVE  IInv'
  <2>1. /\ state[t] # "READY" /\ MakeReady(t) /\ armed' = armed \ {t}
        /\ err' = [err EXCEPT ![t] = code]
        /\ UNCHANGED <<count, owner, lc, ref, stale, current, stack, fault>>
    BY <1>6 DEF Resume, StopTimers, Obeys, AllRules
  <2>2. ListTypes' /\ ListsOK' /\ NoNewWaiter
    BY <2>1, MakeReadyStep
  <2>3. err' \in [Thread -> Err]
    BY <2>1, CoreAssumption DEF TypeOK, CoreAssumption, Err
  <2>4. TypeOK'
    BY <2>1, <2>2, <2>3, TypeParts DEF OtherTypes
  <2>5. NoReentrance' /\ NoLostWakeup' /\ NoFault'
    BY <2>1, <2>2, NestingSame, TokensSame DEF NoFault
  <2>6. ExecutingNotBlocked'
    BY <2>1 DEF MakeReady, ExecutingNotBlocked, TypeOK
  <2> QED BY <2>2, <2>4, <2>5, <2>6
<1> QED
  BY <1>1, <1>2, <1>3, <1>4, <1>5, <1>6 DEF ThreadCalls

LEMMA LoopDestroyInv ==
    ASSUME IInv, AtMostOne(armed \cap Timer), LoopDestroy
    PROVE  IInv'
<1> USE DEF IInv
<1>1. /\ pending' = {} /\ running' = <<>> /\ clip' = <<>>
      /\ waitq' = [s \in Sem |-> <<>>]
      /\ armed' = {} /\ stale' = stale \cup (armed \cap Timer)
      /\ owner' = [t \in Thread |-> FALSE]
      /\ state' = [t \in Thread |-> IF owner[t] THEN "DEAD" ELSE state[t]]
      /\ UNCHANGED <<count, err, lc, ref, current, stack, fault>>
  BY DEF LoopDestroy, TickDestroy, NoFault
<1>2. Range(<<>>) = {} /\ IsInjective(<<>>) /\ <<>> \in Seq(Thread)
  BY EmptyLemma
<1>3. \A t \in Thread : state'[t] \in {"INIT", "DEAD"} /\ ~owner'[t]
  BY <1>1 DEF ListsOK, Placement
<1>4. TypeOK'
  BY <1>1, <1>2, <1>3 DEF TypeOK, State
<1>5. Placement'
  BY <1>1, <1>2, <1>3 DEF Placement
<1>6. WaitersBlocked' /\ ArmedIsBlocked' /\ NoLostWakeup'
  BY <1>1, <1>2, <1>3 DEF WaitersBlocked, ArmedIsBlocked, NoLostWakeup
<1>7. NoReentrance' /\ NoFault'
  BY <1>1, NestingSame DEF NoFault
<1>8. ExecutingNotBlocked'
  BY <1>1 DEF ExecutingNotBlocked
<1> QED BY <1>4, <1>5, <1>6, <1>7, <1>8 DEF ListsOK

LEMMA SemCallsInv ==
    ASSUME IInv, NEW s \in Sem, SemCalls(s)
    PROVE  IInv'
<1> USE DEF IInv
<1>1. waitq[s] \in Seq(Thread) /\ Len(waitq[s]) \in Nat
  BY DEF TypeOK
<1>2. ASSUME NEW n \in 1 .. MaxCount, SemGive(s, n)
      PROVE  IInv'
  <2> DEFINE k == IF n < Len(waitq[s]) THEN n ELSE Len(waitq[s])
  <2>1. /\ Wake(s, k, "EOK")
        /\ count' = [count EXCEPT ![s] = @ + n - k]
        /\ UNCHANGED <<owner, lc, ref, stale, current, stack, fault>>
    BY <1>2, StaleSame DEF SemGive, LeftOver
  <2>2. k \in 0 .. Len(waitq[s]) /\ k <= n /\ n \in Nat \ {0} /\ k \in Nat
        /\ (k = Len(waitq[s]) \/ (k = n /\ waitq[s] # <<>>))
    BY <1>1, CoreAssumption DEF CoreAssumption
  <2> HIDE DEF k
  <2>3. /\ ListTypes' /\ err' \in [Thread -> Err] /\ ListsOK' /\ NoNewWaiter
        /\ k = Len(waitq[s]) => waitq'[s] = <<>>
        /\ \A t \in Thread : state'[t] = state[t] \/ state'[t] = "READY"
    BY <2>1, <2>2, WakeStep DEF Err
  <2>4. count' \in [Sem -> Nat] /\ \A q \in Sem : count'[q] = IF q = s THEN count[q] + n - k
                                                              ELSE count[q]
    BY <2>1, <2>2 DEF TypeOK
  <2>5. TypeOK'
    BY <2>1, <2>3, <2>4, TypeParts DEF OtherTypes
  <2>6. NoLostWakeup'
    <3>1. ASSUME NEW q \in Sem, count'[q] > 0 PROVE waitq'[q] = <<>>
      <4>1. CASE q # s
        BY <4>1, <3>1, <2>3, <2>4 DEF NoLostWakeup, NoNewWaiter
      <4>2. CASE q = s /\ k = Len(waitq[s])
        BY <4>2, <2>3
      <4>3. CASE q = s /\ k = n /\ waitq[s] # <<>>
        <5>1. count'[s] = count[s]
          BY <4>3, <2>2, <2>4 DEF TypeOK
        <5> QED BY <5>1, <4>3, <3>1 DEF NoLostWakeup
      <4> QED BY <4>1, <4>2, <4>3, <2>2
    <3> QED BY <3>1 DEF NoLostWakeup
  <2>7. NoReentrance' /\ NoFault'
    BY <2>1, NestingSame DEF NoFault
  <2>8. ExecutingNotBlocked'
    BY <2>1, <2>3 DEF ExecutingNotBlocked
  <2> QED BY <2>3, <2>5, <2>6, <2>7, <2>8
<1>3. ASSUME NEW code \in Err, WakeAll(s, code)
      PROVE  IInv'
  <2>1. /\ Wake(s, Len(waitq[s]), code)
        /\ UNCHANGED <<count, owner, lc, ref, stale, current, stack, fault>>
    BY <1>3, StaleSame DEF WakeAll
  <2>2. /\ ListTypes' /\ err' \in [Thread -> Err] /\ ListsOK' /\ NoNewWaiter
        /\ \A t \in Thread : state'[t] = state[t] \/ state'[t] = "READY"
    BY <1>1, <2>1, WakeStep
  <2>3. TypeOK'
    BY <2>1, <2>2, TypeParts DEF OtherTypes
  <2>4. NoReentrance' /\ NoLostWakeup' /\ NoFault'
    BY <2>1, <2>2, NestingSame, TokensSame DEF NoFault
  <2>5. ExecutingNotBlocked'
    BY <2>1, <2>2 DEF ExecutingNotBlocked
  <2> QED BY <2>2, <2>3, <2>4, <2>5
<1>4. CASE SemReset(s)
  <2>1. /\ count' = [count EXCEPT ![s] = 0]
        /\ UNCHANGED <<lists, waitq, state, owner, err, lc, ref, armed, stale, current, stack, fault>>
    BY <1>4 DEF SemReset, threads
  <2>2. ListTypes' /\ ListsOK'
    BY <2>1, ListsSame
  <2>3. TypeOK'
    <3>1. count' \in [Sem -> Nat]
      BY <2>1 DEF TypeOK
    <3> QED BY <3>1, <2>1, <2>2, TypeParts DEF OtherTypes
  <2>4. NoReentrance' /\ NoFault' /\ ExecutingNotBlocked'
    BY <2>1, NestingSame DEF NoFault, ExecutingNotBlocked
  <2>5. NoLostWakeup'
    BY <2>1 DEF NoLostWakeup, TypeOK
  <2> QED BY <2>2, <2>3, <2>4, <2>5
<1> QED
  BY <1>2, <1>3, <1>4 DEF SemCalls, SemGiveAll, SemDestroy, Err

LEMMA TakeNowInv ==
    ASSUME IInv, NEW t \in Thread, NEW s \in Sem, TakeNow(t, s)
    PROVE  IInv'
<1> USE DEF IInv
<1>1. /\ count[s] > 0
      /\ count' = [count EXCEPT ![s] = @ - 1]
      /\ err' = [err EXCEPT ![t] = "EOK"]
      /\ lc' = [lc EXCEPT ![t] = s]
      /\ InEntry(t)
      /\ UNCHANGED <<pending, running, clip, waitq, state, owner, ref, armed, stale, current, stack,
                     fault>>
  BY DEF TakeNow, HasToken, lists
<1>2. /\ count' \in [Sem -> Nat] /\ err' \in [Thread -> Err]
      /\ lc' \in [Thread -> Sem \cup {NoSem}]
      /\ \A u \in Thread : u # t => lc'[u] = lc[u]
      /\ \A q \in Sem : count'[q] > 0 => count[q] > 0
  BY <1>1 DEF TypeOK, Err
<1>3. state[t] # "PENDING"
  <2>1. ref[t] > 0
    <3>1. Len(stack) \in Activations(t)
      BY <1>1 DEF TypeOK, InEntry, InPhase, Top, Activations
    <3> QED BY <3>1 DEF NoReentrance
  <2> QED BY <2>1 DEF ExecutingNotBlocked
<1>4. TypeOK'
  BY <1>1, <1>2 DEF TypeOK
<1>5. Placement' /\ ArmedIsBlocked'
  BY <1>1 DEF ListsOK, Placement, ArmedIsBlocked
<1>6. WaitersBlocked'
  BY <1>1, <1>2, <1>3 DEF ListsOK, WaitersBlocked
<1>7. NoReentrance' /\ NoFault' /\ ExecutingNotBlocked' /\ NoLostWakeup'
  BY <1>1, <1>2, NestingSame DEF NoFault, ExecutingNotBlocked, NoLostWakeup
<1> QED BY <1>4, <1>5, <1>6, <1>7 DEF ListsOK

LEMMA BlockInv ==
    ASSUME IInv, NEW t \in Thread, NEW q \in Sem \cup {NoSem}, NEW timed \in BOOLEAN,
           InEntry(t), Block(t, q, timed), owner[t], q \in Sem => count[q] = 0
    PROVE  IInv' /\ fault' = "none"
<1> USE DEF IInv
<1>1. ref[t] > 0
  <2>1. Len(stack) \in Activations(t)
    BY DEF TypeOK, InEntry, InPhase, Top, Activations
  <2> QED BY <2>1 DEF NoReentrance
<1>2. state[t] = "READY"
  BY <1>1 DEF ExecutingNotBlocked, ListsOK, Placement
<1>3. t \notin armed /\ \A s \in Sem : t \notin Range(waitq[s])
  BY <1>2 DEF ListsOK, ArmedIsBlocked, WaitersBlocked
<1>4. fault' = "none"
  BY <1>1, <1>3 DEF Block
<1>5. LeaveEntry(t) /\ UNCHANGED <<owner, count, stale, current>>
  BY <1>4 DEF Block
<1>6. /\ ListTypes' /\ err' \in [Thread -> Err] /\ lc' \in [Thread -> Sem \cup {NoSem}]
      /\ ListsOK'
      /\ \A s \in Sem : s # q => waitq'[s] = waitq[s]
      /\ \A u \in Thread : u # t => state'[u] = state[u]
  BY <1>1, <1>2, <1>4, BlockStep
<1>7. /\ stack' \in Seq(Frame) /\ ref' \in [Thread -> Nat] /\ NoReentrance'
      /\ ref'[t] = 0
      /\ \A u \in Thread : u # t => ref'[u] = ref[u]
  BY <1>5, LeaveStep
<1>8. TypeOK'
  BY <1>4, <1>5, <1>6, <1>7, TypeParts DEF OtherTypes
<1>9. NoLostWakeup'
  BY <1>5, <1>6 DEF NoLostWakeup
<1>10. ExecutingNotBlocked'
  BY <1>6, <1>7 DEF ExecutingNotBlocked
<1> QED BY <1>4, <1>6, <1>7, <1>8, <1>9, <1>10 DEF NoFault

LEMMA EntryStepsInv ==
    ASSUME Rules = AllRules, IInv, NEW t \in Thread, EntrySteps(t)
    PROVE  IInv'
<1> USE DEF IInv
<1>1. ASSUME NEW s \in Sem, TakeNow(t, s)
      PROVE  IInv'
  BY <1>1, TakeNowInv
<1>2. ASSUME NEW q \in Sem \cup {NoSem}, NEW timed \in BOOLEAN,
             InEntry(t), Block(t, q, timed), q \in Sem => count[q] = 0
      PROVE  IInv'
  <2>1. owner[t]
    BY <1>2 DEF Block, Obeys, AllRules
  <2> QED BY <1>2, <2>1, BlockInv
<1>3. ASSUME NEW s \in Sem, NEW tick \in Ticks, TakeBlock(t, s, tick)
      PROVE  IInv'
  <2>1. count[s] = 0
    BY <1>3 DEF TakeBlock, HasToken, TypeOK
  <2>2. InEntry(t) /\ Block(t, s, tick # -1)
    BY <1>3 DEF TakeBlock
  <2> QED BY <1>2, <2>1, <2>2
<1>4. ASSUME NEW tick \in Ticks, Delay(t, tick)
      PROVE  IInv'
  <2>1. NoSem \notin Sem
    BY CoreAssumption DEF CoreAssumption
  <2> QED BY <1>2, <1>4, <2>1 DEF Delay
<1>5. CASE EntryYield(t)
  <2>1. /\ InEntry(t) /\ LeaveEntry(t)
        /\ UNCHANGED <<lists, waitq, count, state, owner, err, lc, armed, stale, current, fault>>
    BY <1>5 DEF EntryYield
  <2>2. ListTypes' /\ ListsOK'
    BY <2>1, ListsSame
  <2>3. /\ stack' \in Seq(Frame) /\ ref' \in [Thread -> Nat] /\ NoReentrance'
        /\ ref'[t] = 0
        /\ \A u \in Thread : u # t => ref'[u] = ref[u]
    BY <2>1, LeaveStep
  <2>4. TypeOK'
    BY <2>1, <2>2, <2>3, TypeParts DEF OtherTypes
  <2>5. NoLostWakeup' /\ NoFault' /\ ExecutingNotBlocked'
    BY <2>1, <2>3 DEF NoLostWakeup, NoFault, ExecutingNotBlocked
  <2> QED BY <2>2, <2>3, <2>4, <2>5
<1>6. CASE EntryEnd(t)
  <2>1. /\ InEntry(t) /\ LeaveEntry(t) /\ stale' = stale
        /\ IF owner[t] THEN Detach(t) ELSE UNCHANGED <<lists, waitq, armed, stale, owner, state>>
        /\ UNCHANGED <<count, err, lc, current, fault>>
    BY <1>6, StaleSame DEF EntryEnd
  <2>2. /\ stack' \in Seq(Frame) /\ ref' \in [Thread -> Nat] /\ NoReentrance'
        /\ ref'[t] = 0
        /\ \A u \in Thread : u # t => ref'[u] = ref[u]
    BY <2>1, LeaveStep
  <2>3. /\ ListTypes' /\ owner' \in [Thread -> BOOLEAN] /\ ListsOK' /\ NoNewWaiter
        /\ \A u \in Thread : u # t => state'[u] = state[u]
    <3>1. CASE owner[t]
      BY <3>1, <2>1, DetachStep DEF Detach, TypeOK
    <3>2. CASE ~owner[t]
      BY <3>2, <2>1, ListsSame DEF TypeOK, NoNewWaiter
    <3> QED BY <3>1, <3>2
  <2>4. TypeOK'
    BY <2>1, <2>2, <2>3, TypeParts DEF OtherTypes
  <2>5. NoLostWakeup'
    BY <2>1, <2>3, TokensSame
  <2>6. NoFault' /\ ExecutingNotBlocked'
    BY <2>1, <2>2, <2>3 DEF NoFault, ExecutingNotBlocked
  <2> QED BY <2>2, <2>3, <2>4, <2>5, <2>6
<1> QED
  BY <1>1, <1>3, <1>4, <1>5, <1>6 DEF EntrySteps

LEMMA TimerStepsInv ==
    ASSUME IInv, NEW x \in Timer,
           \/ TimerInit(x)
           \/ TimerStart(x) /\ x \notin armed \cup stale
           \/ TimerRemove(x)
           \/ StaleRemove(x) /\ armed = {}
           \/ Expire(x)
    PROVE  IInv'
<1> USE DEF IInv
<1>1. x \notin Thread
  BY CoreAssumption DEF CoreAssumption
<1>2. /\ armed' \in {armed \cup {x}, armed \ {x}, armed}
      /\ stale' \subseteq stale
      /\ UNCHANGED <<lists, waitq, count, threads, current>>
      /\ fault' = "none"
      /\ stack' = stack \/ (InPhase("tick") /\ stack' = At("callback", NoThread, NoThread))
  BY DEF TimerInit, TimerStart, TimerRemove, StaleRemove, Expire, UserRuns, InPhase
<1>3. \A t \in Thread : t \in armed' <=> t \in armed
  BY <1>1, <1>2
<1>4. ListTypes' /\ ListsOK'
  BY <1>2, <1>3 DEF lists, threads, TypeOK, ListTypes, ListsOK, Placement, WaitersBlocked,
                    ArmedIsBlocked
<1>5. stack' \in Seq(Frame) /\ NoReentrance'
  <2>1. CASE stack' = stack
    BY <2>1, <1>2, NestingSame DEF TypeOK, threads
  <2>2. CASE InPhase("tick") /\ stack' = At("callback", NoThread, NoThread)
    BY <2>2, <1>2, PhaseStep DEF InPhase, MaybeThread, threads
  <2> QED BY <2>1, <2>2, <1>2
<1>6. TypeOK'
  BY <1>2, <1>4, <1>5, TypeParts DEF OtherTypes, threads
<1>7. NoLostWakeup' /\ NoFault' /\ ExecutingNotBlocked'
  BY <1>2 DEF NoLostWakeup, NoFault, ExecutingNotBlocked, threads
<1> QED BY <1>4, <1>5, <1>6, <1>7

LEMMA TimeoutInv ==
    ASSUME IInv, NEW t \in Thread, Timeout(t)
    PROVE  IInv'
<1> USE DEF IInv
<1>1. /\ t \in armed /\ armed' = armed \ {t} /\ MakeReady(t)
      /\ err' = [err EXCEPT ![t] = "ETIMEOUT"]
      /\ UNCHANGED <<count, owner, lc, ref, stale, current, stack, fault>>
  BY DEF Timeout
<1>2. state[t] # "READY"
  BY <1>1 DEF ListsOK, ArmedIsBlocked
<1>3. ListTypes' /\ ListsOK' /\ NoNewWaiter
  BY <1>1, <1>2, MakeReadyStep
<1>4. err' \in [Thread -> Err]
  BY <1>1 DEF TypeOK, Err
<1>5. TypeOK'
  BY <1>1, <1>3, <1>4, TypeParts DEF OtherTypes
<1>6. NoReentrance' /\ NoLostWakeup' /\ NoFault'
  BY <1>1, <1>3, NestingSame, TokensSame DEF NoFault
<1>7. ExecutingNotBlocked'
  BY <1>1 DEF MakeReady, ExecutingNotBlocked, TypeOK
<1> QED BY <1>3, <1>5, <1>6, <1>7

LEMMA PollStepsInv ==
    ASSUME IInv, JoinedHasLoop,
           Poll \/ CallbackReturn \/ TickDone \/ Dispatch \/ PollReturn \/ PollAgain
    PROVE  IInv'
<1> USE DEF IInv
<1>0. stack \in Seq(Frame) /\ current \in MaybeThread /\ NoThread \in MaybeThread
  BY DEF TypeOK, MaybeThread
<1>1. CASE Poll
  <2>1. /\ RefillClip /\ stack' = Append(stack, NewFrame(NoThread))
        /\ UNCHANGED <<pending, waitq, count, state, owner, err, lc, ref, armed, stale, current, fault>>
    BY <1>1 DEF Poll, threads
  <2>2. ListTypes' /\ ListsOK'
    BY <2>1, RefillStep
  <2>3. stack' \in Seq(Frame) /\ NoReentrance'
    BY <2>1, <1>0, PushStep
  <2>4. TypeOK'
    BY <2>1, <2>2, <2>3, TypeParts DEF OtherTypes
  <2>5. NoLostWakeup' /\ NoFault' /\ ExecutingNotBlocked'
    BY <2>1 DEF NoLostWakeup, NoFault, ExecutingNotBlocked
  <2> QED BY <2>2, <2>3, <2>4, <2>5
<1>2. CASE CallbackReturn \/ TickDone
  <2>1. /\ stack # <<>> /\ Top.phase # "entry"
        /\ \E p \in {"tick", "run"}, o \in MaybeThread : stack' = At(p, NoThread, o)
        /\ UNCHANGED <<lists, waitq, count, state, owner, err, lc, ref, armed, stale, current, fault>>
    BY <1>0, <1>2 DEF CallbackReturn, TickDone, InPhase, threads
  <2>2. ListTypes' /\ ListsOK'
    BY <2>1, ListsSame
  <2>3. stack' \in Seq(Frame) /\ NoReentrance'
    BY <2>1, PhaseStep
  <2>4. TypeOK'
    BY <2>1, <2>2, <2>3, TypeParts DEF OtherTypes
  <2>5. NoLostWakeup' /\ NoFault' /\ ExecutingNotBlocked'
    BY <2>1 DEF NoLostWakeup, NoFault, ExecutingNotBlocked
  <2> QED BY <2>2, <2>3, <2>4, <2>5
<1>3. CASE Dispatch
  <2> DEFINE t == Head(clip)
  <2>1. /\ stack # <<>> /\ Top.phase = "run" /\ clip # <<>>
        /\ clip' = Tail(clip) /\ running' = Append(running, t)
        /\ IF ref[t] = 0
           THEN /\ ref' = [ref EXCEPT ![t] = @ + 1]
                /\ current' = t
                /\ stack' = At("entry", t, Top.old)
           ELSE UNCHANGED <<ref, stale, current, stack>>
        /\ UNCHANGED <<pending, waitq, count, state, owner, err, lc, armed, stale, fault>>
    BY <1>3 DEF Dispatch, Callable, InPhase
  <2>2. ListTypes' /\ ListsOK' /\ t \in Thread /\ state[t] = "READY"
    BY <2>1, DispatchLists
  <2> HIDE DEF t
  <2>3. /\ stack' \in Seq(Frame) /\ ref' \in [Thread -> Nat] /\ NoReentrance'
        /\ current' \in MaybeThread
        /\ \A u \in Thread : u # t => ref'[u] = ref[u]
    <3>1. CASE ref[t] = 0
      BY <3>1, <2>1, <2>2, EnterStep DEF MaybeThread
    <3>2. CASE ref[t] # 0
      BY <3>2, <2>1, <1>0, NestingSame DEF TypeOK
    <3> QED BY <3>1, <3>2
  <2>4. TypeOK'
    BY <2>1, <2>2, <2>3, TypeParts DEF OtherTypes
  <2>5. NoLostWakeup' /\ NoFault'
    BY <2>1 DEF NoLostWakeup, NoFault
  <2>6. ExecutingNotBlocked'
    BY <2>1, <2>2, <2>3 DEF ExecutingNotBlocked
  <2> QED BY <2>2, <2>3, <2>4, <2>5, <2>6
<1>4. CASE PollReturn
  <2>1. /\ stack # <<>> /\ Top.phase # "entry"
        /\ current' = Top.old /\ stack' = Front(stack)
        /\ UNCHANGED <<lists, waitq, count, state, owner, err, lc, ref, armed, stale, fault>>
    BY <1>4 DEF PollReturn, RestoreCurrent, InPhase, threads
  <2>2. ListTypes' /\ ListsOK'
    BY <2>1, ListsSame
  <2>3. stack' \in Seq(Frame) /\ NoReentrance' /\ current' \in MaybeThread
    BY <2>1, <1>0, PopStep, TopTyped
  <2>4. TypeOK'
    BY <2>1, <2>2, <2>3, TypeParts DEF OtherTypes
  <2>5. NoLostWakeup' /\ NoFault' /\ ExecutingNotBlocked'
    BY <2>1 DEF NoLostWakeup, NoFault, ExecutingNotBlocked
  <2> QED BY <2>2, <2>3, <2>4, <2>5
<1>5. CASE PollAgain
  <2>1. Len(stack) \in DOMAIN stack /\ Top.join \in Thread
    BY <1>0, <1>5, TopTyped DEF PollAgain, InPhase, Rejoins, MaybeThread
  <2>2. owner[Top.join]
    BY <1>5, <2>1 DEF PollAgain, Rejoins, JoinedHasLoop, Top
  <2>3. /\ stack # <<>> /\ Top.phase # "entry"
        /\ current' = Top.old /\ stack' = At("tick", NoThread, NoThread) /\ RefillClip
        /\ UNCHANGED <<pending, waitq, count, state, owner, err, lc, ref, armed, stale, fault>>
    BY <1>5, <2>2 DEF PollAgain, RestoreCurrent, InPhase, threads
  <2>4. ListTypes' /\ ListsOK'
    BY <2>3, RefillStep
  <2>5. stack' \in Seq(Frame) /\ NoReentrance' /\ current' \in MaybeThread
    BY <2>3, <1>0, PhaseStep, TopTyped
  <2>6. TypeOK'
    BY <2>3, <2>4, <2>5, TypeParts DEF OtherTypes
  <2>7. NoLostWakeup' /\ NoFault' /\ ExecutingNotBlocked'
    BY <2>3 DEF NoLostWakeup, NoFault, ExecutingNotBlocked
  <2> QED BY <2>4, <2>5, <2>6, <2>7
<1> QED
  BY <1>1, <1>2, <1>3, <1>4, <1>5

-----------------------------------------------------------------------------
\* Frames keep what they join, and only an initialisation makes a thread new.
SameJoins ==
    \A i \in DOMAIN stack' : stack'[i].join \in Thread =>
        \E j \in DOMAIN stack : stack[j].join = stack'[i].join

NoneRenewed ==
    \A t \in Thread : state'[t] = "INIT" => state[t] = "INIT" /\ (owner[t] => owner'[t])

LEMMA JoinedKept ==
    ASSUME TypeOK, JoinedHasLoop, SameJoins, NoneRenewed, Placement'
    PROVE  JoinedHasLoop'
<1>1. ASSUME NEW t \in Thread, owner[t] \/ state[t] = "DEAD"
      PROVE  owner'[t] \/ state'[t] = "DEAD"
  BY <1>1 DEF NoneRenewed, Placement
<1>2. ASSUME NEW i \in DOMAIN stack', stack'[i].join \in Thread
      PROVE  owner'[stack'[i].join] \/ state'[stack'[i].join] = "DEAD"
  <2>1. PICK j \in DOMAIN stack : stack[j].join = stack'[i].join
    BY <1>2 DEF SameJoins
  <2> QED BY <2>1, <1>1, <1>2 DEF JoinedHasLoop
<1> QED BY <1>2 DEF JoinedHasLoop

LEMMA SameStackJoins ==
    ASSUME stack' = stack
    PROVE  SameJoins
BY DEF SameJoins

LEMMA AtJoins ==
    ASSUME stack \in Seq(Frame), stack # <<>>,
           NEW p \in Phase, NEW t \in MaybeThread, NEW o \in MaybeThread, stack' = At(p, t, o)
    PROVE  SameJoins
<1>1. DOMAIN stack' = DOMAIN stack /\ \A i \in DOMAIN stack : stack'[i].join = stack[i].join
  BY AtFrames
<1> QED BY <1>1 DEF SameJoins

LEMMA JoinedInv ==
    ASSUME Rules = AllRules, IInv, JoinedHasLoop, Next, IInv'
    PROVE  JoinedHasLoop'
<1> USE DEF IInv
<1>0. /\ stack \in Seq(Frame) /\ current \in MaybeThread /\ NoThread \in MaybeThread
      /\ Placement'
      /\ (stack # <<>> => Top.old \in MaybeThread)
  BY TopTyped DEF TypeOK, MaybeThread, ListsOK
<1>1. ASSUME NEW t \in Thread, ThreadInit(t)
      PROVE  JoinedHasLoop'
  <2>1. /\ \A i \in DOMAIN stack : stack[i].join # t
        /\ stack' = stack /\ owner' = owner
        /\ \A u \in Thread : u # t => state'[u] = state[u]
    BY <1>1 DEF ThreadInit, Obeys, AllRules, TypeOK
  <2> QED BY <2>1 DEF JoinedHasLoop
<1>2. ASSUME NEW t \in Thread, Join(t)
      PROVE  JoinedHasLoop'
  <2>1. /\ owner[t] /\ state' = state /\ owner' = owner
        /\ stack' = stack \/ stack' = Append(stack, NewFrame(t))
    BY <1>2 DEF Join, Obeys, AllRules, threads
  <2>2. CASE stack' = stack
    BY <2>1, <2>2 DEF JoinedHasLoop
  <2>3. CASE stack' = Append(stack, NewFrame(t))
    <3>1. NewFrame(t) \in Frame /\ NewFrame(t).join = t
      BY DEF NewFrame, Frame
    <3>2. /\ DOMAIN stack = 1 .. Len(stack) /\ DOMAIN stack' = 1 .. Len(stack) + 1
          /\ Len(stack) \in Nat /\ stack'[Len(stack) + 1] = NewFrame(t)
          /\ \A i \in DOMAIN stack : stack'[i] = stack[i]
      BY <2>3, <3>1, <1>0
    <3>3. \A i \in DOMAIN stack' : i \in DOMAIN stack \/ i = Len(stack) + 1
      BY <3>2
    <3> QED BY <2>1, <3>1, <3>2, <3>3 DEF JoinedHasLoop
  <2> QED BY <2>1, <2>2, <2>3
<1>3. ASSUME NEW t \in Thread,
             \/ LoopAdd(t) \/ Startup(t) \/ Timeout(t) \/ \E code \in Codes : Resume(t, code)
      PROVE  JoinedHasLoop'
  <2>1. stack' = stack /\ NoneRenewed
    BY <1>3 DEF LoopAdd, Startup, Timeout, Resume, MakeReady, NoneRenewed, TypeOK
  <2> QED BY <2>1, <1>0, SameStackJoins, JoinedKept
<1>4. ASSUME NEW t \in Thread, Stop(t)
      PROVE  JoinedHasLoop'
  <2>1. stack' = stack /\ NoneRenewed
    BY <1>4 DEF Stop, Detach, NoneRenewed, TypeOK
  <2> QED BY <2>1, <1>0, SameStackJoins, JoinedKept
<1>5. CASE LoopDestroy
  <2>1. stack' = stack /\ NoneRenewed
    BY <1>5 DEF LoopDestroy, NoneRenewed, TypeOK
  <2> QED BY <2>1, <1>0, SameStackJoins, JoinedKept
<1>6. ASSUME NEW s \in Sem, SemCalls(s)
      PROVE  JoinedHasLoop'
  <2>1. stack' = stack /\ NoneRenewed
    BY <1>6 DEF SemCalls, SemGive, SemGiveAll, SemDestroy, WakeAll, SemReset, Wake, NoneRenewed,
                TypeOK, threads
  <2> QED BY <2>1, <1>0, SameStackJoins, JoinedKept
<1>7. ASSUME NEW t \in Thread, EntrySteps(t)
      PROVE  JoinedHasLoop'
  <2>1. NoneRenewed
    <3>0. state \in [Thread -> State] /\ owner \in [Thread -> BOOLEAN]
      BY DEF TypeOK
    <3>1. ASSUME NEW s, NEW timed, Block(t, s, timed) PROVE NoneRenewed
      <4>1. (state' = state \/ state' = [state EXCEPT ![t] = "PENDING"]) /\ owner' = owner
        BY <3>1 DEF Block, threads
      <4> QED BY <3>0, <4>1 DEF NoneRenewed
    <3>2. ASSUME EntryEnd(t) PROVE NoneRenewed
      <4>1. \/ state' = state /\ owner' = owner
            \/ /\ state' = [state EXCEPT ![t] = "DEAD"]
               /\ owner' = [owner EXCEPT ![t] = FALSE]
        BY <3>2 DEF EntryEnd, Detach
      <4> QED BY <3>0, <4>1 DEF NoneRenewed
    <3>3. ASSUME state' = state, owner' = owner PROVE NoneRenewed
      BY <3>3 DEF NoneRenewed
    <3> QED BY <1>7, <3>1, <3>2, <3>3 DEF EntrySteps, TakeNow, TakeBlock, Delay, EntryYield, threads
  <2>2. stack' = stack \/ (stack # <<>> /\ stack' = At("run", NoThread, Top.old))
    BY <1>7 DEF EntrySteps, TakeNow, TakeBlock, Delay, Block, EntryYield, EntryEnd, LeaveEntry,
                InEntry, InPhase
  <2>3. SameJoins
    BY <2>2, <1>0, SameStackJoins, AtJoins DEF Phase
  <2> QED BY <2>1, <2>3, <1>0, JoinedKept
<1>8. ASSUME NEW x \in Timer, TimerCalls(x) \/ Expire(x)
      PROVE  JoinedHasLoop'
  <2> USE DEF TimerCalls, TimerInit, TimerStart, TimerRemove, StaleRemove, Expire
  <2>1. NoneRenewed
    BY <1>8 DEF NoneRenewed, threads
  <2>2. stack' = stack \/ (stack # <<>> /\ stack' = At("callback", NoThread, NoThread))
    BY <1>8 DEF InPhase
  <2>3. SameJoins
    BY <2>2, <1>0, SameStackJoins, AtJoins DEF Phase
  <2> QED BY <2>1, <2>3, <1>0, JoinedKept
<1>9. CASE CallbackReturn \/ TickDone \/ Dispatch \/ PollAgain
  <2>1. NoneRenewed
    BY <1>9 DEF CallbackReturn, TickDone, Dispatch, PollAgain, NoneRenewed, threads
  <2>2. stack' = stack \/ (stack # <<>> /\ \E p \in Phase, t \in MaybeThread, o \in MaybeThread :
                              stack' = At(p, t, o))
    <3>1. CASE CallbackReturn \/ TickDone \/ PollAgain
      BY <3>1, <1>0 DEF CallbackReturn, TickDone, PollAgain, InPhase, Phase
    <3>2. CASE Dispatch
      <4>1. Head(clip) \in Thread
        BY <3>2 DEF Dispatch, TypeOK
      <4> QED BY <3>2, <4>1, <1>0 DEF Dispatch, InPhase, Phase, MaybeThread
    <3> QED BY <1>9, <3>1, <3>2
  <2>3. SameJoins
    BY <2>2, <1>0, SameStackJoins, AtJoins
  <2> QED BY <2>1, <2>3, <1>0, JoinedKept
<1>10. CASE Poll
  <2>1. NoneRenewed /\ stack' = Append(stack, NewFrame(NoThread))
    BY <1>10 DEF Poll, NoneRenewed, threads
  <2>2. NewFrame(NoThread) \in Frame /\ NewFrame(NoThread).join \notin Thread
    BY CoreAssumption DEF NewFrame, Frame, CoreAssumption
  <2>3. /\ DOMAIN stack = 1 .. Len(stack) /\ DOMAIN stack' = 1 .. Len(stack) + 1
        /\ Len(stack) \in Nat /\ stack'[Len(stack) + 1] = NewFrame(NoThread)
        /\ \A i \in DOMAIN stack : stack'[i] = stack[i]
    BY <2>1, <2>2, <1>0
  <2>4. \A i \in DOMAIN stack' : i \in DOMAIN stack \/ i = Len(stack) + 1
    BY <2>3
  <2>5. SameJoins
    BY <2>2, <2>3, <2>4 DEF SameJoins
  <2> QED BY <2>1, <2>5, <1>0, JoinedKept
<1>11. CASE PollReturn
  <2>1. NoneRenewed /\ stack' = Front(stack) /\ stack # <<>>
    BY <1>11 DEF PollReturn, InPhase, NoneRenewed, threads
  <2>2. \A i \in DOMAIN stack' : i \in DOMAIN stack /\ stack'[i] = stack[i]
    BY <2>1, <1>0 DEF Front
  <2>3. SameJoins
    BY <2>2 DEF SameJoins
  <2> QED BY <2>1, <2>3, <1>0, JoinedKept
<1> QED
  BY <1>1, <1>2, <1>3, <1>4, <1>5, <1>6, <1>7, <1>8, <1>9, <1>10, <1>11 DEF Next, ThreadCalls

-----------------------------------------------------------------------------
LEMMA InitInv == Init => IInv /\ JoinedHasLoop
<1> SUFFICES ASSUME Init PROVE IInv /\ JoinedHasLoop
  OBVIOUS
<1> USE DEF Init, LoopInit, ThreadsInit, SemsInit
<1>1. Range(<<>>) = {} /\ IsInjective(<<>>) /\ <<>> \in Seq(Thread)
  BY EmptyLemma
<1>2. TypeOK
  BY <1>1, CoreAssumption DEF TypeOK, State, Err, CoreAssumption
<1>3. ListsOK
  BY <1>1 DEF ListsOK, Placement, WaitersBlocked, ArmedIsBlocked
<1>4. NoReentrance /\ ExecutingNotBlocked
  BY DEF NoReentrance, Activations, ExecutingNotBlocked
<1>5. NoLostWakeup /\ NoFault /\ JoinedHasLoop
  BY DEF NoLostWakeup, NoFault, JoinedHasLoop
<1> QED BY <1>2, <1>3, <1>4, <1>5 DEF IInv

LEMMA StutterInv ==
    ASSUME IInv, JoinedHasLoop, UNCHANGED vars
    PROVE  IInv' /\ JoinedHasLoop'
<1>1. UNCHANGED <<lists, waitq, state, owner, lc, armed, stale, stack, ref, count, err, current,
                 fault>>
  BY DEF vars, lists
<1>2. ListTypes' /\ ListsOK'
  BY <1>1, ListsSame DEF IInv
<1>3. TypeOK'
  BY <1>1, <1>2, TypeParts DEF OtherTypes, IInv
<1>4. NoReentrance'
  BY <1>1, NestingSame DEF IInv
<1> QED
  BY <1>1, <1>2, <1>3, <1>4 DEF IInv, NoLostWakeup, NoFault, ExecutingNotBlocked, JoinedHasLoop

LEMMA NextInv ==
    ASSUME Rules = AllRules, IInv, JoinedHasLoop, [Next]_vars
    PROVE  IInv' /\ JoinedHasLoop'
<1>1. CASE UNCHANGED vars
  BY <1>1, StutterInv
<1>2. CASE Next
  <2>1. ASSUME NEW x \in Timer, TimerCalls(x) \/ Expire(x) PROVE IInv'
    <3>1. /\ TimerStart(x) => x \notin armed \cup stale
          /\ StaleRemove(x) => armed = {}
      BY DEF TimerStart, StaleRemove, Obeys, AllRules
    <3> QED BY <2>1, <3>1, TimerStepsInv DEF TimerCalls
  <2>0. LoopDestroy => AtMostOne(armed \cap Timer)
    BY DEF LoopDestroy, TickDestroy, Obeys, AllRules
  <2>2. IInv'
    BY <1>2, <2>0, <2>1, ThreadCallsInv, EntryStepsInv, TimeoutInv, SemCallsInv,
       LoopDestroyInv, PollStepsInv DEF Next
  <2> QED BY <1>2, <2>2, JoinedInv
<1> QED BY <1>1, <1>2

\* The inductive invariant holds in every state of the loop.
THEOREM InvariantHolds == ASSUME Rules = AllRules PROVE Spec => [](IInv /\ JoinedHasLoop)
<1>1. Init => IInv /\ JoinedHasLoop
  BY InitInv
<1>2. IInv /\ JoinedHasLoop /\ [Next]_vars => (IInv /\ JoinedHasLoop)'
  BY NextInv
<1> QED
  BY <1>1, <1>2, PTL DEF Spec

\* Types: no count goes below zero, ref is never decremented below zero.
THEOREM TypeCorrect == ASSUME Rules = AllRules PROVE Spec => []TypeOK
<1>1. IInv /\ JoinedHasLoop => TypeOK
  BY DEF IInv
<1> QED
  BY <1>1, InvariantHolds, PTL

\* Every thread of the loop is linked in one list, the one its state names.
THEOREM PlacementHolds == ASSUME Rules = AllRules PROVE Spec => []Placement
<1>1. IInv /\ JoinedHasLoop => Placement
  BY DEF IInv, ListsOK
<1> QED
  BY <1>1, InvariantHolds, PTL

\* Exactly the threads suspended in a take wait for the semaphore, each once.
THEOREM WaitersHold == ASSUME Rules = AllRules PROVE Spec => []WaitersBlocked
<1>1. IInv /\ JoinedHasLoop => WaitersBlocked
  BY DEF IInv, ListsOK
<1> QED
  BY <1>1, InvariantHolds, PTL

\* No timer of a thread runs unless the thread is suspended.
THEOREM ArmedHold == ASSUME Rules = AllRules PROVE Spec => []ArmedIsBlocked
<1>1. IInv /\ JoinedHasLoop => ArmedIsBlocked
  BY DEF IInv, ListsOK
<1> QED
  BY <1>1, InvariantHolds, PTL

\* No semaphore keeps a token from a thread that waits for it.
THEOREM NoWakeupLost == ASSUME Rules = AllRules PROVE Spec => []NoLostWakeup
<1>1. IInv /\ JoinedHasLoop => NoLostWakeup
  BY DEF IInv
<1> QED
  BY <1>1, InvariantHolds, PTL

\* No entry is called while it is executing, however polls nest.
THEOREM NeverReentered == ASSUME Rules = AllRules PROVE Spec => []NoReentrance
<1>1. IInv /\ JoinedHasLoop => NoReentrance
  BY DEF IInv
<1> QED
  BY <1>1, InvariantHolds, PTL

\* Nested polls and callbacks never suspend a thread whose entry is executing.
THEOREM ExecutingStaysReady == ASSUME Rules = AllRules PROVE Spec => []ExecutingNotBlocked
<1>1. IInv /\ JoinedHasLoop => ExecutingNotBlocked
  BY DEF IInv
<1> QED
  BY <1>1, InvariantHolds, PTL

\* An application that follows the rules never meets a NULL owner or a failed
\* assert inside the library.
THEOREM NeverFaults == ASSUME Rules = AllRules PROVE Spec => []NoFault
<1>1. IInv /\ JoinedHasLoop => NoFault
  BY DEF IInv
<1> QED
  BY <1>1, InvariantHolds, PTL

-----------------------------------------------------------------------------
(***************************************************************************)
(* p_thread_current names the innermost thread whose entry is executing    *)
(* whenever code of the application runs, for every nesting of polls,      *)
(* entries and callbacks.                                                  *)
(*                                                                         *)
(* A poll reads p_thread_current into ptr_thread_old once its ticks are    *)
(* used up, and writes it back when it returns.  In between the variable   *)
(* holds whatever ran last, so CurrentIsExecuting is not inductive: what   *)
(* is kept is that the ptr_thread_old of every poll on the stack, and      *)
(* p_thread_current unless the innermost poll is in its while loop, are    *)
(* the thread that was executing below.                                    *)
(***************************************************************************)

\* Of the n outermost frames of stk, u is the thread of the innermost that executes an
\* entry, or NULL when none does.
Innermost(stk, n, u) ==
    \/ u = NoThread /\ \A j \in 1 .. n : stk[j].phase # "entry"
    \/ \E j \in 1 .. n : /\ stk[j].phase = "entry" /\ stk[j].thread = u
                         /\ \A k \in 1 .. n : k > j => stk[k].phase # "entry"

\* Only callbacks and entries call polls.
CalledByUser(stk) ==
    \A i \in 1 .. Len(stk) - 1 : stk[i].phase \in {"callback", "entry"}

\* ptr_thread_old of a poll that has read it.
OldIsBelow(stk) ==
    \A i \in 1 .. Len(stk) :
        stk[i].phase \in {"run", "entry"} => Innermost(stk, i - 1, stk[i].old)

\* p_thread_current, but in the while loop of the innermost poll.
CurrentIsBelow(stk, c) ==
    stk = <<>> \/ stk[Len(stk)].phase # "run" => Innermost(stk, Len(stk), c)

CallerKept(stk, c) == CalledByUser(stk) /\ OldIsBelow(stk) /\ CurrentIsBelow(stk, c)

CInv == CallerKept(stack, current)

-----------------------------------------------------------------------------
\* Who is innermost depends on the phases and threads of the frames alone.
LEMMA InnermostSame ==
    ASSUME NEW a, NEW b, NEW n \in Nat, NEW u,
           \A i \in 1 .. n : a[i].phase = b[i].phase /\ a[i].thread = b[i].thread,
           Innermost(a, n, u)
    PROVE  Innermost(b, n, u)
BY DEF Innermost

\* A frame that executes no entry hides nobody.
LEMMA InnermostSkip ==
    ASSUME NEW a, NEW n \in Nat, NEW u, a[n + 1].phase # "entry"
    PROVE  Innermost(a, n + 1, u) <=> Innermost(a, n, u)
<1>1. 1 .. n + 1 = 1 .. n \cup {n + 1} /\ n + 1 \notin 1 .. n
  OBVIOUS
<1>2. \A j \in 1 .. n : n + 1 > j
  OBVIOUS
<1>3. ASSUME Innermost(a, n + 1, u) PROVE Innermost(a, n, u)
  <2>1. CASE u = NoThread /\ \A j \in 1 .. n + 1 : a[j].phase # "entry"
    BY <1>1, <2>1 DEF Innermost
  <2>2. CASE \E j \in 1 .. n + 1 : /\ a[j].phase = "entry" /\ a[j].thread = u
                                   /\ \A k \in 1 .. n + 1 : k > j => a[k].phase # "entry"
    BY <1>1, <2>2 DEF Innermost
  <2> QED BY <1>3, <2>1, <2>2 DEF Innermost
<1>4. ASSUME Innermost(a, n, u) PROVE Innermost(a, n + 1, u)
  <2>1. CASE u = NoThread /\ \A j \in 1 .. n : a[j].phase # "entry"
    BY <1>1, <2>1 DEF Innermost
  <2>2. CASE \E j \in 1 .. n : /\ a[j].phase = "entry" /\ a[j].thread = u
                               /\ \A k \in 1 .. n : k > j => a[k].phase # "entry"
    BY <1>1, <2>2 DEF Innermost
  <2> QED BY <1>4, <2>1, <2>2 DEF Innermost
<1> QED BY <1>3, <1>4

\* The thread whose entry is called is innermost.
LEMMA InnermostTop ==
    ASSUME NEW a, NEW n \in Nat, a[n + 1].phase = "entry"
    PROVE  Innermost(a, n + 1, a[n + 1].thread)
<1>1. n + 1 \in 1 .. n + 1 /\ \A k \in 1 .. n + 1 : ~(k > n + 1)
  OBVIOUS
<1> QED BY <1>1 DEF Innermost

-----------------------------------------------------------------------------
(***************************************************************************)
(* The moves of the stack.                                                 *)
(***************************************************************************)

\* What CInv says of the n outermost frames.
Base(stk, n) ==
    \A i \in 1 .. n : /\ stk[i].phase \in {"callback", "entry"}
                      /\ stk[i].phase = "entry" => Innermost(stk, i - 1, stk[i].old)

\* Base looks at n frames only.
LEMMA BaseSame ==
    ASSUME NEW a, NEW b, NEW n \in Nat, \A i \in 1 .. n : b[i] = a[i], Base(a, n)
    PROVE  Base(b, n)
<1> SUFFICES ASSUME NEW i \in 1 .. n
             PROVE  /\ b[i].phase \in {"callback", "entry"}
                    /\ b[i].phase = "entry" => Innermost(b, i - 1, b[i].old)
  BY DEF Base
<1>1. i - 1 \in Nat /\ \A j \in 1 .. i - 1 : j \in 1 .. n
  OBVIOUS
<1>2. \A j \in 1 .. i - 1 : a[j].phase = b[j].phase /\ a[j].thread = b[j].thread
  BY <1>1
<1> QED BY <1>1, <1>2, InnermostSame DEF Base

\* A stack of n frames of the application, and one on top that keeps the rule, keeps it.
LEMMA Rebuilt ==
    ASSUME NEW a, NEW b, NEW c, NEW n \in Nat,
           Len(b) = n + 1, b # <<>>, \A i \in 1 .. n : b[i] = a[i], Base(a, n),
           b[n + 1].phase \in Phase,
           b[n + 1].phase \in {"run", "entry"} => Innermost(a, n, b[n + 1].old),
           b[n + 1].phase \in {"tick", "callback"} => Innermost(a, n, c),
           b[n + 1].phase = "entry" => c = b[n + 1].thread
    PROVE  CallerKept(b, c)
<1>1. Base(b, n)
  BY BaseSame
<1>2. \A u : Innermost(a, n, u) => Innermost(b, n, u)
  BY InnermostSame
<1>3. \A i \in 1 .. n + 1 : i \in 1 .. n \/ i = n + 1
  OBVIOUS
<1>4. CalledByUser(b)
  BY <1>1 DEF CalledByUser, Base
<1>5. OldIsBelow(b)
  <2> SUFFICES ASSUME NEW i \in 1 .. n + 1, b[i].phase \in {"run", "entry"}
               PROVE  Innermost(b, i - 1, b[i].old)
    BY DEF OldIsBelow
  <2>1. CASE i \in 1 .. n
    BY <1>1, <2>1 DEF Base
  <2>2. CASE i = n + 1
    BY <1>2, <2>2
  <2> QED BY <1>3, <2>1, <2>2
<1>6. CurrentIsBelow(b, c)
  <2>1. CASE b[n + 1].phase = "entry"
    BY <2>1, InnermostTop DEF CurrentIsBelow
  <2>2. CASE b[n + 1].phase \in {"tick", "callback"}
    BY <1>2, <2>2, InnermostSkip DEF CurrentIsBelow
  <2> QED BY <2>1, <2>2 DEF CurrentIsBelow, Phase
<1> QED BY <1>4, <1>5, <1>6 DEF CallerKept

\* What CInv says of a stack that is not empty, frame by frame.
LEMMA Opened ==
    ASSUME TypeOK, CInv, stack # <<>>
    PROVE  \E n \in Nat :
              /\ Len(stack) = n + 1 /\ Base(stack, n) /\ Top = stack[n + 1]
              /\ Top.phase \in {"run", "entry"} => Innermost(stack, n, Top.old)
              /\ Top.phase \in {"tick", "callback"} => Innermost(stack, n, current)
              /\ Top.phase # "run" => Innermost(stack, n + 1, current)
<1>1. stack \in Seq(Frame)
  BY DEF TypeOK
<1>2. PICK n \in Nat : Len(stack) = n + 1
  <2>1. Len(stack) - 1 \in Nat /\ Len(stack) = (Len(stack) - 1) + 1
    BY <1>1
  <2> QED BY <2>1
<1>3. Top = stack[n + 1] /\ n + 1 \in 1 .. Len(stack) /\ (n + 1) - 1 = n
  BY <1>2 DEF Top
<1>4. Base(stack, n)
  <2> SUFFICES ASSUME NEW i \in 1 .. n
               PROVE  /\ stack[i].phase \in {"callback", "entry"}
                      /\ stack[i].phase = "entry" => Innermost(stack, i - 1, stack[i].old)
    BY DEF Base
  <2>1. i \in 1 .. Len(stack) /\ i \in 1 .. Len(stack) - 1
    BY <1>2
  <2> QED BY <2>1 DEF CInv, CallerKept, CalledByUser, OldIsBelow
<1>5. Top.phase \in {"run", "entry"} => Innermost(stack, n, Top.old)
  BY <1>3 DEF CInv, CallerKept, OldIsBelow
<1>6. Top.phase # "run" => Innermost(stack, n + 1, current)
  BY <1>2, <1>3 DEF CInv, CallerKept, CurrentIsBelow
<1>7. Top.phase \in {"tick", "callback"} => Innermost(stack, n, current)
  BY <1>3, <1>6, InnermostSkip
<1> QED BY <1>2, <1>3, <1>4, <1>5, <1>6, <1>7

\* A poll is called from the application.
LEMMA PushCurrent ==
    ASSUME TypeOK, CInv, UserRuns, NEW t \in MaybeThread,
           stack' = Append(stack, NewFrame(t)), current' = current
    PROVE  CInv'
<1> DEFINE n == Len(stack)
<1>1. /\ n \in Nat /\ Len(stack') = n + 1 /\ stack' # <<>>
      /\ stack'[n + 1].phase = "tick"
      /\ \A i \in 1 .. n : stack'[i] = stack[i]
  <2>1. stack \in Seq(Frame) /\ NewFrame(t) \in Frame /\ NewFrame(t).phase = "tick"
    BY DEF TypeOK, NewFrame, Frame, MaybeThread
  <2> QED BY <2>1
<1>2. Innermost(stack, n, current)
  BY DEF CInv, CallerKept, CurrentIsBelow, UserRuns, Top
<1>3. Base(stack, n)
  <2> SUFFICES ASSUME NEW i \in 1 .. n
               PROVE  /\ stack[i].phase \in {"callback", "entry"}
                      /\ stack[i].phase = "entry" => Innermost(stack, i - 1, stack[i].old)
    BY DEF Base
  <2>1. stack # <<>> /\ (i \in 1 .. n - 1 \/ i = n)
    BY <1>1 DEF TypeOK
  <2>2. stack[i].phase \in {"callback", "entry"}
    BY <2>1 DEF CInv, CallerKept, CalledByUser, UserRuns, Top
  <2> QED BY <2>2 DEF CInv, CallerKept, OldIsBelow
<1> HIDE DEF n
<1>4. CallerKept(stack', current')
  BY <1>1, <1>2, <1>3, Rebuilt DEF Phase
<1> QED BY <1>4 DEF CInv

\* The innermost poll goes on: it keeps what it has read of p_thread_current, reads it, or
\* writes it back.
LEMMA MoveCurrent ==
    ASSUME TypeOK, CInv, stack # <<>>,
           NEW p \in Phase, NEW t \in MaybeThread, NEW o \in MaybeThread,
           stack' = At(p, t, o),
           p = "run" => o = (IF Top.phase = "tick" THEN current ELSE Top.old),
           p = "run" => Top.phase \in {"tick", "run", "entry"},
           p = "entry" => Top.phase = "run" /\ o = Top.old /\ current' = t,
           p \in {"tick", "callback"} =>
               \/ Top.phase \in {"tick", "callback"} /\ current' = current
               \/ Top.phase = "run" /\ current' = Top.old
    PROVE  CInv'
<1>1. PICK n \in Nat :
              /\ Len(stack) = n + 1 /\ Base(stack, n) /\ Top = stack[n + 1]
              /\ Top.phase \in {"run", "entry"} => Innermost(stack, n, Top.old)
              /\ Top.phase \in {"tick", "callback"} => Innermost(stack, n, current)
              /\ Top.phase # "run" => Innermost(stack, n + 1, current)
  BY Opened
<1>2. stack \in Seq(Frame)
  BY DEF TypeOK
<1>3. /\ Len(stack') = n + 1 /\ stack' # <<>>
      /\ \A i \in 1 .. n : stack'[i] = stack[i]
      /\ stack'[n + 1].phase = p /\ stack'[n + 1].thread = t /\ stack'[n + 1].old = o
  BY <1>1, <1>2 DEF At
<1>4. stack'[n + 1].phase \in {"run", "entry"} => Innermost(stack, n, stack'[n + 1].old)
  BY <1>1, <1>3
<1>5. stack'[n + 1].phase \in {"tick", "callback"} => Innermost(stack, n, current')
  BY <1>1, <1>3
<1>6. stack'[n + 1].phase \in Phase
  BY <1>3
<1>7. stack'[n + 1].phase = "entry" => current' = stack'[n + 1].thread
  BY <1>3
<1>8. CallerKept(stack', current')
  BY <1>1, <1>3, <1>4, <1>5, <1>6, <1>7, Rebuilt
<1> QED BY <1>8 DEF CInv

\* A poll returns, and p_thread_current is again what it was when the poll read it.
LEMMA PopCurrent ==
    ASSUME TypeOK, CInv, stack # <<>>, Top.phase = "run",
           stack' = Front(stack), current' = Top.old
    PROVE  CInv'
<1>1. PICK n \in Nat : /\ Len(stack) = n + 1 /\ Base(stack, n)
                       /\ Innermost(stack, n, Top.old)
  BY Opened
<1>2. Len(stack') = n /\ \A i \in 1 .. n : stack'[i] = stack[i]
  BY <1>1 DEF Front, TypeOK
<1>3. Base(stack', n) /\ Innermost(stack', n, current')
  BY <1>1, <1>2, BaseSame, InnermostSame
<1>4. CalledByUser(stack') /\ OldIsBelow(stack') /\ CurrentIsBelow(stack', current')
  BY <1>2, <1>3 DEF Base, CalledByUser, OldIsBelow, CurrentIsBelow
<1> QED BY <1>4 DEF CInv, CallerKept

-----------------------------------------------------------------------------
(***************************************************************************)
(* The steps, and the theorem.                                             *)
(***************************************************************************)

\* The steps of an entry: each leaves p_thread_current, and the stack or the entry.
LEMMA EntryStepsCurrent ==
    ASSUME TypeOK, CInv, NEW t \in Thread, EntrySteps(t)
    PROVE  CInv'
<1>1. stack # <<>> /\ Top.phase = "entry" /\ current' = current
  BY DEF EntrySteps, TakeNow, TakeBlock, Delay, Block, EntryYield, EntryEnd, InEntry, InPhase
<1>2. stack' = stack \/ LeaveEntry(t)
  BY DEF EntrySteps, TakeNow, TakeBlock, Delay, Block, EntryYield, EntryEnd
<1>3. CASE stack' = stack
  BY <1>1, <1>3 DEF CInv
<1>4. CASE LeaveEntry(t)
  <2>1. stack' = At("run", NoThread, Top.old)
    BY <1>4 DEF LeaveEntry
  <2>2. "run" \in Phase /\ NoThread \in MaybeThread /\ Top.old \in MaybeThread
    BY <1>1, TopTyped DEF TypeOK, Phase, MaybeThread
  <2> QED BY <1>1, <2>1, <2>2, MoveCurrent
<1> QED BY <1>2, <1>3, <1>4

\* The steps of a poll.
LEMMA PollStepsCurrent ==
    ASSUME TypeOK, CInv,
           \/ \E x \in Timer : Expire(x)
           \/ CallbackReturn \/ TickDone \/ Dispatch \/ PollReturn \/ PollAgain
    PROVE  CInv'
<1>1. stack # <<>> /\ Phase = {"tick", "callback", "run", "entry"} /\ NoThread \in MaybeThread
  BY DEF Expire, CallbackReturn, TickDone, Dispatch, PollReturn, PollAgain, InPhase, Phase,
         MaybeThread
<1>2. Top.old \in MaybeThread /\ current \in MaybeThread
  BY <1>1, TopTyped DEF TypeOK, MaybeThread
<1>3. ASSUME NEW x \in Timer, Expire(x) PROVE CInv'
  BY <1>1, <1>3, MoveCurrent DEF Expire, InPhase
<1>4. CASE CallbackReturn
  BY <1>1, <1>4, MoveCurrent DEF CallbackReturn, InPhase
<1>5. CASE TickDone
  BY <1>1, <1>2, <1>5, MoveCurrent DEF TickDone, InPhase
<1>6. CASE Dispatch
  <2>1. Head(clip) \in MaybeThread
    BY <1>6 DEF Dispatch, TypeOK, MaybeThread
  <2>2. Top.phase = "run"
    BY <1>6 DEF Dispatch, InPhase
  <2>3. CASE stack' = stack /\ current' = current
    BY <2>3 DEF CInv
  <2>4. CASE stack' = At("entry", Head(clip), Top.old) /\ current' = Head(clip)
    BY <1>1, <1>2, <2>1, <2>2, <2>4, MoveCurrent
  <2> QED BY <1>6, <2>3, <2>4 DEF Dispatch
<1>7. CASE PollReturn
  BY <1>1, <1>7, PopCurrent DEF PollReturn, RestoreCurrent, InPhase
<1>8. CASE PollAgain
  <2>1. Top.phase = "run" /\ current' = Top.old
    BY <1>8 DEF PollAgain, RestoreCurrent, InPhase
  <2>2. CASE stack' = stack
    BY <1>1, <2>1, <2>2 DEF CInv, CallerKept, CurrentIsBelow, Top
  <2>3. CASE stack' = At("tick", NoThread, NoThread)
    BY <1>1, <2>1, <2>3, MoveCurrent
  <2> QED BY <1>8, <2>2, <2>3 DEF PollAgain
<1> QED BY <1>3, <1>4, <1>5, <1>6, <1>7, <1>8

\* A call of the library pushes a poll or leaves the stack alone.
LEMMA CallsCurrent ==
    ASSUME TypeOK, CInv,
           \/ \E t \in Thread : ThreadCalls(t) \/ Timeout(t)
           \/ \E s \in Sem : SemCalls(s)
           \/ \E x \in Timer : TimerCalls(x)
           \/ LoopDestroy \/ Poll
    PROVE  CInv'
<1>1. CASE stack' = stack /\ current' = current
  BY <1>1 DEF CInv
<1>2. ASSUME NEW t \in Thread, Join(t) PROVE CInv'
  <2>1. UserRuns /\ current' = current /\ t \in MaybeThread
    BY <1>2 DEF Join, MaybeThread
  <2>2. stack' = stack \/ stack' = Append(stack, NewFrame(t))
    BY <1>2 DEF Join
  <2> QED BY <1>1, <2>1, <2>2, PushCurrent
<1>3. CASE Poll
  BY <1>3, PushCurrent DEF Poll, MaybeThread
<1>4. ASSUME NEW t \in Thread, ThreadCalls(t) \/ Timeout(t) PROVE CInv'
  <2>1. CASE Join(t)
    BY <1>2, <2>1
  <2>2. CASE ~Join(t)
    BY <1>1, <1>4, <2>2 DEF ThreadCalls, ThreadInit, LoopAdd, Startup, Stop, Resume, Timeout
  <2> QED BY <2>1, <2>2
<1>5. ASSUME NEW s \in Sem, SemCalls(s) PROVE CInv'
  BY <1>1, <1>5 DEF SemCalls, SemGive, SemGiveAll, SemDestroy, WakeAll, SemReset
<1>6. ASSUME NEW x \in Timer, TimerCalls(x) PROVE CInv'
  BY <1>1, <1>6 DEF TimerCalls, TimerInit, TimerStart, TimerRemove, StaleRemove
<1>7. CASE LoopDestroy
  BY <1>1, <1>7 DEF LoopDestroy
<1> QED BY <1>3, <1>4, <1>5, <1>6, <1>7

\* What CInv says when code of the application runs.
LEMMA CInvShows == ASSUME TypeOK, CInv PROVE CurrentIsExecuting
<1> SUFFICES ASSUME UserRuns
             PROVE  LET E == {i \in DOMAIN stack : stack[i].phase = "entry"}
                    IN  IF E = {} THEN current = NoThread
                        ELSE \E i \in E : (\A j \in E : j <= i) /\ current = stack[i].thread
  BY DEF CurrentIsExecuting
<1>1. Innermost(stack, Len(stack), current)
  BY DEF CInv, CallerKept, CurrentIsBelow, UserRuns, Top
<1>2. Len(stack) \in Nat /\ DOMAIN stack = 1 .. Len(stack)
  BY DEF TypeOK
<1> QED BY <1>1, <1>2 DEF Innermost

\* Every step of the loop keeps CInv.
LEMMA NextCurrent ==
    ASSUME TypeOK, CInv, [Next]_vars
    PROVE  CInv'
<1>1. CASE UNCHANGED vars
  BY <1>1 DEF CInv, vars
<1>2. CASE Next
  BY <1>2, EntryStepsCurrent, PollStepsCurrent, CallsCurrent DEF Next
<1> QED BY <1>1, <1>2

\* No poll is active at first.
LEMMA InitCurrent == ASSUME Init PROVE CInv
BY DEF Init, LoopInit, CInv, CallerKept, CalledByUser, OldIsBelow, CurrentIsBelow, Innermost

\* After any nesting of polls, joins, entries and callbacks, code of the application finds
\* in p_thread_current the innermost thread that is executing.
THEOREM CurrentHolds == ASSUME Rules = AllRules PROVE Spec => []CurrentIsExecuting
<1>1. Init => CInv
  BY InitCurrent
<1>2. TypeOK /\ CInv /\ [Next]_vars => CInv'
  BY NextCurrent
<1>3. TypeOK /\ CInv => CurrentIsExecuting
  BY CInvShows
<1> QED BY <1>1, <1>2, <1>3, TypeCorrect, PTL DEF Spec

\* A poll that returns -1 leaves no thread it could have run: the ready ones are in the
\* running list, where the poll looks, since it has emptied the clip.
THEOREM IdleSleeps == ASSUME Rules = AllRules PROVE Spec => IdleMeansBlocked
<1>1. ASSUME TypeOK, Placement, PollReturn, PollIdle, NEW t \in Thread, owner[t], ref[t] = 0
      PROVE  t \in pending
  <2>1. Range(clip) = {}
    BY <1>1, EmptyLemma DEF PollReturn
  <2>2. state[t] # "READY"
    BY <1>1, <2>1 DEF PollIdle, Placement
  <2>3. state[t] # "DEAD" /\ state[t] \in State
    BY <1>1 DEF Placement, TypeOK
  <2> QED BY <1>1, <2>2, <2>3 DEF Placement, State
<1>2. TypeOK /\ Placement /\ [Next]_vars
         => [PollReturn /\ PollIdle =>
                \A t \in Thread : owner[t] /\ ref[t] = 0 => t \in pending]_vars
  BY <1>1
<1> QED BY <1>2, TypeCorrect, PlacementHolds, PTL DEF Spec, IdleMeansBlocked

-----------------------------------------------------------------------------
(***************************************************************************)
(* The event loop implements MyptmScheduler: every step of MyptmCore is,   *)
(* through the refinement mapping, a step of the scheduler or no step.     *)
(*                                                                         *)
(* The mapping is total only in good states: that a thread with a running  *)
(* timer is suspended, that what is in the clip is ready, and that what    *)
(* executes is ready or dead are what make a timeout, a call and the end   *)
(* of an entry steps of the scheduler.  IInv says so.                      *)
(***************************************************************************)

\* What a step that is none of the scheduler's leaves alone.
Views == <<Modes, waitq, count, Limited, err, Executing>>

-----------------------------------------------------------------------------
\* The mode, case by case.
LEMMA ModeIs ==
    ASSUME TypeOK, NEW t \in Thread
    PROVE  /\ Modes[t] = "idle"    <=> state[t] = "INIT" /\ ~owner[t]
           /\ Modes[t] = "new"     <=> state[t] = "INIT" /\ owner[t]
           /\ Modes[t] = "blocked" <=> state[t] = "PENDING"
           /\ Modes[t] = "ready"   <=> state[t] = "READY"
           /\ Modes[t] = "dead"    <=> state[t] = "DEAD"
<1>1. state[t] \in State /\ owner[t] \in BOOLEAN
  BY DEF TypeOK
<1>2. CASE state[t] = "INIT" /\ ~owner[t]
  BY <1>2 DEF Modes, ModeOf
<1>3. CASE state[t] = "INIT" /\ owner[t]
  BY <1>3 DEF Modes, ModeOf
<1>4. CASE state[t] = "PENDING"
  BY <1>4 DEF Modes, ModeOf
<1>5. CASE state[t] = "READY"
  BY <1>5 DEF Modes, ModeOf
<1>6. CASE state[t] = "DEAD"
  BY <1>6 DEF Modes, ModeOf
<1> QED BY <1>1, <1>2, <1>3, <1>4, <1>5, <1>6 DEF State

\* The mode after a step.
LEMMA ModeBecomes ==
    ASSUME NEW t \in Thread
    PROVE  /\ state'[t] = "INIT" /\ ~owner'[t] => Modes'[t] = "idle"
           /\ state'[t] = "INIT" /\ owner'[t]  => Modes'[t] = "new"
           /\ state'[t] = "PENDING"            => Modes'[t] = "blocked"
           /\ state'[t] = "READY"              => Modes'[t] = "ready"
           /\ state'[t] = "DEAD"               => Modes'[t] = "dead"
<1>1. CASE state'[t] = "INIT" /\ ~owner'[t]
  BY <1>1 DEF Modes, ModeOf
<1>2. CASE state'[t] = "INIT" /\ owner'[t]
  BY <1>2 DEF Modes, ModeOf
<1>3. CASE state'[t] = "PENDING"
  BY <1>3 DEF Modes, ModeOf
<1>4. CASE state'[t] = "READY"
  BY <1>4 DEF Modes, ModeOf
<1>5. CASE state'[t] = "DEAD"
  BY <1>5 DEF Modes, ModeOf
<1> QED BY <1>1, <1>2, <1>3, <1>4, <1>5

LEMMA ModesSame == ASSUME UNCHANGED <<state, owner>> PROVE Modes' = Modes
BY DEF Modes, ModeOf

LEMMA OthersKeep ==
    ASSUME TypeOK, NEW t \in Thread, state'[t] = state[t], owner'[t] = owner[t]
    PROVE  Modes'[t] = Modes[t]
<1>1. state[t] \in State /\ owner[t] \in BOOLEAN
  BY DEF TypeOK
<1> QED BY <1>1, ModeIs, ModeBecomes DEF State

\* One thread changes its mode.
LEMMA ModesExcept ==
    ASSUME TypeOK, NEW u \in Thread, NEW m, Modes'[u] = m,
           \A t \in Thread : t # u => state'[t] = state[t] /\ owner'[t] = owner[t]
    PROVE  Modes' = [Modes EXCEPT ![u] = m]
<1>1. ASSUME NEW t \in Thread, t # u PROVE Modes'[t] = Modes[t]
  BY <1>1, OthersKeep
<1>2. Modes' = [t \in Thread |-> Modes'[t]] /\ Modes = [t \in Thread |-> Modes[t]]
  BY DEF Modes
<1> QED BY <1>1, <1>2

-----------------------------------------------------------------------------
(***************************************************************************)
(* The scheduler's steps, read through the mapping.                        *)
(***************************************************************************)
\* The scheduler's lists are the loop's.
LEMMA UnlinkView == \A q, x : Scheduler!Unlink(q, x) = Unlink(q, x)
BY DEF Scheduler!Unlink, Unlink, Scheduler!Range, Range, Scheduler!RemoveAt, RemoveAt

LEMMA RangeView == \A q : Scheduler!Range(q) = Range(q)
BY DEF Scheduler!Range, Range

LEMMA RenewView ==
    ASSUME NEW t \in Thread, Modes[t] = "dead", t \notin Executing,
           Modes' = [Modes EXCEPT ![t] = "idle"], err' = [err EXCEPT ![t] = "EOK"],
           UNCHANGED <<waitq, count, Limited, Executing>>
    PROVE  Scheduler!Renew(t)
BY DEF Scheduler!Renew

LEMMA AdmitView ==
    ASSUME NEW t \in Thread, Modes[t] = "idle",
           Modes' = [Modes EXCEPT ![t] = "new"],
           UNCHANGED <<waitq, count, Limited, err, Executing>>
    PROVE  Scheduler!Admit(t)
BY DEF Scheduler!Admit

LEMMA StartView ==
    ASSUME NEW t \in Thread, Modes[t] = "new",
           Modes' = [Modes EXCEPT ![t] = "ready"],
           UNCHANGED <<waitq, count, Limited, err, Executing>>
    PROVE  Scheduler!Start(t)
BY DEF Scheduler!Start

\* A wait ends with a code.
LEMMA EndWaitView ==
    ASSUME NEW t \in Thread, NEW code,
           Modes' = [Modes EXCEPT ![t] = "ready"],
           waitq' = [s \in Sem |-> Unlink(waitq[s], t)],
           Limited' = Limited \ {t}, err' = [err EXCEPT ![t] = code],
           UNCHANGED <<count, Executing>>
    PROVE  Scheduler!EndWait(t, code)
BY UnlinkView DEF Scheduler!EndWait

\* A code for a thread that is in no loop.
LEMMA ResumeView ==
    ASSUME NEW t \in Thread, NEW code,
           Modes[t] \notin {"new", "blocked", "ready"},
           err' = [err EXCEPT ![t] = code],
           UNCHANGED <<Modes, waitq, count, Limited, Executing>>
    PROVE  Scheduler!Resume(t, code)
BY DEF Scheduler!Resume, Scheduler!InLoop

LEMMA StopView ==
    ASSUME NEW t \in Thread, Modes[t] \in {"new", "blocked", "ready"},
           Modes' = [u \in Thread |-> IF u \in {t} THEN "dead" ELSE Modes[u]],
           waitq' = [s \in Sem |-> Unlink(waitq[s], t)],
           Limited' = Limited \ {t},
           UNCHANGED <<count, err, Executing>>
    PROVE  Scheduler!Stop(t)
BY UnlinkView DEF Scheduler!Stop, Scheduler!Stopped, Scheduler!InLoop

LEMMA StopAllView ==
    ASSUME Modes' = [t \in Thread |->
                        IF t \in {u \in Thread : Modes[u] \in {"new", "blocked", "ready"}}
                        THEN "dead" ELSE Modes[t]],
           waitq' = [s \in Sem |-> <<>>],
           Limited' = Limited \ {u \in Thread : Modes[u] \in {"new", "blocked", "ready"}},
           UNCHANGED <<count, err, Executing>>
    PROVE  Scheduler!StopAll
BY DEF Scheduler!StopAll, Scheduler!Stopped, Scheduler!InLoop

\* The oldest waiters are woken.
LEMMA EndWaitsView ==
    ASSUME NEW s \in Sem, NEW k, NEW code,
           Modes' = [t \in Thread |-> IF t \in Range(SubSeq(waitq[s], 1, k))
                                      THEN "ready" ELSE Modes[t]],
           waitq' = [waitq EXCEPT ![s] = SubSeq(@, k + 1, Len(@))],
           Limited' = Limited \ Range(SubSeq(waitq[s], 1, k)),
           err' = [t \in Thread |-> IF t \in Range(SubSeq(waitq[s], 1, k))
                                    THEN code ELSE err[t]]
    PROVE  Scheduler!EndWaits(s, k, code)
<1> DEFINE Woken == Range(SubSeq(waitq[s], 1, k))
<1>1. Scheduler!Range(SubSeq(waitq[s], 1, k)) = Woken
  BY RangeView
<1>2. /\ Modes' = [t \in Thread |-> IF t \in Woken THEN "ready" ELSE Modes[t]]
      /\ Limited' = Limited \ Woken
      /\ err' = [t \in Thread |-> IF t \in Woken THEN code ELSE err[t]]
  OBVIOUS
<1> HIDE DEF Woken
<1> QED BY <1>1, <1>2 DEF Scheduler!EndWaits

LEMMA CallView ==
    ASSUME NEW t \in Thread, Modes[t] = "ready", t \notin Executing,
           Executing' = Executing \cup {t},
           UNCHANGED <<Modes, waitq, count, Limited, err>>
    PROVE  Scheduler!Call(t)
BY DEF Scheduler!Call

LEMMA TakeView ==
    ASSUME NEW t \in Thread, NEW s \in Sem, t \in Executing, count[s] > 0,
           count' = [count EXCEPT ![s] = @ - 1], err' = [err EXCEPT ![t] = "EOK"],
           UNCHANGED <<Modes, waitq, Limited, Executing>>
    PROVE  Scheduler!Take(t, s)
BY DEF Scheduler!Take

\* An entry returns: for the next round, for good, or into a wait.
LEMMA YieldView ==
    ASSUME NEW t \in Thread, t \in Executing, Executing' = Executing \ {t},
           UNCHANGED <<Modes, waitq, count, Limited, err>>
    PROVE  Scheduler!Yield(t)
BY DEF Scheduler!Yield, Scheduler!Return

LEMMA EndView ==
    ASSUME NEW t \in Thread, t \in Executing, Executing' = Executing \ {t},
           NEW S, S = {t} \cap {u \in Thread : Modes[u] \in {"new", "blocked", "ready"}},
           Modes' = [u \in Thread |-> IF u \in S THEN "dead" ELSE Modes[u]],
           Limited' = Limited \ S,
           waitq' = [s \in Sem |-> Unlink(waitq[s], t)],
           UNCHANGED <<count, err>>
    PROVE  Scheduler!End(t)
<1>1. {t} \cap {u \in Thread : Scheduler!InLoop(u)} = S
  BY DEF Scheduler!InLoop
<1>2. Scheduler!Stopped({t} \cap {u \in Thread : Scheduler!InLoop(u)})
  BY <1>1 DEF Scheduler!Stopped
<1> QED BY <1>2, UnlinkView DEF Scheduler!End, Scheduler!Return

LEMMA BlockView ==
    ASSUME NEW t \in Thread, NEW s, NEW limited,
           t \in Executing, Executing' = Executing \ {t},
           Modes[t] = "ready", s # NoSem => count[s] = 0,
           Modes' = [Modes EXCEPT ![t] = "blocked"],
           waitq' = [q \in Sem |-> IF q = s THEN Append(waitq[q], t) ELSE waitq[q]],
           Limited' = IF limited THEN Limited \cup {t} ELSE Limited,
           err' = [err EXCEPT ![t] = "EOK"],
           count' = count
    PROVE  Scheduler!Block(t, s, limited)
BY DEF Scheduler!Block, Scheduler!Return

LEMMA StutterView == ASSUME UNCHANGED Views PROVE UNCHANGED Scheduler!vars
BY DEF Views, Scheduler!vars

-----------------------------------------------------------------------------
(***************************************************************************)
(* The steps of the loop.                                                  *)
(***************************************************************************)
Simulated == Scheduler!Next \/ UNCHANGED Scheduler!vars

\* A step that changes nothing the scheduler sees.
LEMMA Hidden ==
    ASSUME UNCHANGED <<state, owner, waitq, count, err, ref>>, Limited' = Limited
    PROVE  Simulated
<1>1. UNCHANGED Views
  BY ModesSame DEF Views, Executing
<1> QED BY <1>1, StutterView DEF Simulated

\* Who is suspended in no take is in no queue.
LEMMA NotWaiting ==
    ASSUME TypeOK, WaitersBlocked, NEW t \in Thread, state[t] # "PENDING"
    PROVE  waitq = [s \in Sem |-> Unlink(waitq[s], t)]
BY DEF TypeOK, WaitersBlocked, Unlink

\* A thread of the loop is made ready.
LEMMA MadeReady ==
    ASSUME TypeOK, NEW t \in Thread, owner[t], MakeReady(t), owner' = owner
    PROVE  /\ Modes' = [Modes EXCEPT ![t] = "ready"]
           /\ waitq' = [s \in Sem |-> Unlink(waitq[s], t)]
<1>1. state' = [state EXCEPT ![t] = "READY"] /\ waitq' = [s \in Sem |-> Unlink(waitq[s], t)]
  BY DEF MakeReady, LeaveWaitq
<1>2. state'[t] = "READY" /\ \A u \in Thread : u # t => state'[u] = state[u] /\ owner'[u] = owner[u]
  BY <1>1 DEF TypeOK
<1>3. Modes'[t] = "ready"
  BY <1>2, ModeBecomes
<1> QED BY <1>1, <1>2, <1>3, ModesExcept

\* A thread is stopped.
LEMMA Detached ==
    ASSUME TypeOK, NEW t \in Thread, owner[t], Detach(t)
    PROVE  /\ Modes' = [u \in Thread |-> IF u \in {t} THEN "dead" ELSE Modes[u]]
           /\ waitq' = [s \in Sem |-> Unlink(waitq[s], t)]
           /\ Limited' = Limited \ {t}
<1>1. /\ state' = [state EXCEPT ![t] = "DEAD"] /\ owner' = [owner EXCEPT ![t] = FALSE]
      /\ waitq' = [s \in Sem |-> Unlink(waitq[s], t)] /\ armed' = armed \ {t}
  BY DEF Detach, LeaveWaitq, StopTimers
<1>2. state'[t] = "DEAD" /\ \A u \in Thread : u # t => state'[u] = state[u] /\ owner'[u] = owner[u]
  BY <1>1 DEF TypeOK
<1>3. Modes'[t] = "dead"
  BY <1>2, ModeBecomes
<1>4. Modes' = [Modes EXCEPT ![t] = "dead"] /\ Modes = [u \in Thread |-> Modes[u]]
  BY <1>2, <1>3, ModesExcept DEF Modes
<1>5. Limited' = Limited \ {t}
  BY <1>1 DEF Limited
<1> QED BY <1>1, <1>4, <1>5

\* A thread whose owner is set is new, blocked or ready, and only such a thread is.
LEMMA InLoopIsOwned ==
    ASSUME IInv, NEW t \in Thread
    PROVE  Modes[t] \in {"new", "blocked", "ready"} <=> owner[t]
<1>1. /\ state[t] \in State
      /\ state[t] = "DEAD" => ~owner[t]
      /\ ~owner[t] => state[t] \in {"INIT", "DEAD"}
  BY DEF IInv, ListsOK, TypeOK, Placement
<1>2. TypeOK
  BY DEF IInv
<1> QED BY <1>1, <1>2, ModeIs DEF State

LEMMA ThreadInitSimulated ==
    ASSUME IInv, NEW t \in Thread, ThreadInit(t)
    PROVE  Simulated
<1>1. TypeOK
  BY DEF IInv
<1>2. state[t] = "DEAD" /\ ~owner[t] /\ ref[t] = 0
  BY DEF ThreadInit
<1>3. /\ state' = [state EXCEPT ![t] = "INIT"] /\ err' = [err EXCEPT ![t] = "EOK"]
      /\ UNCHANGED <<owner, waitq, count, ref, armed>>
  BY DEF ThreadInit
<1>4. state'[t] = "INIT" /\ ~owner'[t]
      /\ \A u \in Thread : u # t => state'[u] = state[u] /\ owner'[u] = owner[u]
  BY <1>1, <1>2, <1>3 DEF TypeOK
<1>5. Modes' = [Modes EXCEPT ![t] = "idle"]
  BY <1>1, <1>4, ModeBecomes, ModesExcept
<1>6. Modes[t] = "dead" /\ t \notin Executing /\ UNCHANGED <<Limited, Executing>>
  BY <1>1, <1>2, <1>3, ModeIs DEF Executing, Limited
<1>7. Scheduler!Renew(t)
  BY <1>3, <1>5, <1>6, RenewView
<1> QED BY <1>7 DEF Simulated, Scheduler!Next

LEMMA LoopAddSimulated ==
    ASSUME Rules = AllRules, IInv, NEW t \in Thread, LoopAdd(t)
    PROVE  Simulated
<1>1. TypeOK
  BY DEF IInv
<1>2. state[t] = "INIT" /\ ~owner[t]
  BY DEF LoopAdd, Obeys, AllRules
<1>3. owner' = [owner EXCEPT ![t] = TRUE] /\ UNCHANGED <<state, err, waitq, count, ref, armed>>
  BY DEF LoopAdd
<1>4. state'[t] = "INIT" /\ owner'[t]
      /\ \A u \in Thread : u # t => state'[u] = state[u] /\ owner'[u] = owner[u]
  BY <1>1, <1>2, <1>3 DEF TypeOK
<1>5. Modes' = [Modes EXCEPT ![t] = "new"]
  BY <1>1, <1>4, ModeBecomes, ModesExcept
<1>6. Modes[t] = "idle" /\ UNCHANGED <<Limited, Executing>>
  BY <1>1, <1>2, <1>3, ModeIs DEF Executing, Limited
<1>7. Scheduler!Admit(t)
  BY <1>3, <1>5, <1>6, AdmitView
<1> QED BY <1>7 DEF Simulated, Scheduler!Next

LEMMA StartupSimulated ==
    ASSUME IInv, NEW t \in Thread, Startup(t)
    PROVE  Simulated
<1>1. TypeOK /\ WaitersBlocked
  BY DEF IInv, ListsOK
<1>2. /\ state[t] = "INIT" /\ owner[t] /\ MakeReady(t)
      /\ UNCHANGED <<owner, err, count, ref, armed>>
  BY DEF Startup
<1>3. Modes' = [Modes EXCEPT ![t] = "ready"] /\ waitq' = waitq
  BY <1>1, <1>2, MadeReady, NotWaiting
<1>4. Modes[t] = "new" /\ UNCHANGED <<Limited, Executing>>
  BY <1>1, <1>2, ModeIs DEF Executing, Limited
<1>5. Scheduler!Start(t)
  BY <1>2, <1>3, <1>4, StartView
<1> QED BY <1>5 DEF Simulated, Scheduler!Next

LEMMA ResumeSimulated ==
    ASSUME Rules = AllRules, IInv, NEW t \in Thread, NEW code \in Codes, Resume(t, code)
    PROVE  Simulated
<1>1. TypeOK
  BY DEF IInv
<1>2. /\ state[t] # "READY" /\ MakeReady(t) /\ armed' = armed \ {t}
      /\ err' = [err EXCEPT ![t] = code] /\ UNCHANGED <<owner, count, ref>>
  BY DEF Resume, Obeys, AllRules, StopTimers
<1>3. Limited' = Limited \ {t} /\ Executing' = Executing
  BY <1>2 DEF Limited, Executing
<1>4. CASE owner[t]
  <2>1. Scheduler!EndWait(t, code)
    BY <1>1, <1>2, <1>3, <1>4, MadeReady, EndWaitView
  <2>2. Modes[t] \in {"new", "blocked"}
    BY <1>1, <1>2, <1>4, InLoopIsOwned, ModeIs
  <2>3. Scheduler!Resume(t, code)
    BY <2>1, <2>2 DEF Scheduler!Resume
  <2> QED BY <2>3 DEF Simulated, Scheduler!Next
<1>5. CASE ~owner[t]
  <2>1. UNCHANGED <<waitq, state>>
    BY <1>2, <1>5 DEF MakeReady
  <2>2. t \notin armed
    BY <1>5 DEF IInv, ListsOK, ArmedIsBlocked
  <2>3. Limited' = Limited /\ Modes' = Modes
    BY <1>2, <1>3, <2>1, <2>2, ModesSame DEF Limited
  <2>4. Scheduler!Resume(t, code)
    BY <1>2, <1>3, <1>5, <2>1, <2>3, InLoopIsOwned, ResumeView
  <2> QED BY <2>4 DEF Simulated, Scheduler!Next
<1> QED BY <1>4, <1>5

LEMMA StopSimulated ==
    ASSUME IInv, NEW t \in Thread, Stop(t)
    PROVE  Simulated
<1>1. TypeOK
  BY DEF IInv
<1>2. owner[t] /\ Detach(t) /\ UNCHANGED <<count, err, ref>>
  BY DEF Stop
<1>3. Executing' = Executing
  BY <1>2 DEF Executing
<1>4. Scheduler!Stop(t)
  BY <1>1, <1>2, <1>3, Detached, InLoopIsOwned, StopView
<1> QED BY <1>4 DEF Simulated, Scheduler!Next

LEMMA LoopDestroySimulated ==
    ASSUME IInv, LoopDestroy
    PROVE  Simulated
<1> DEFINE S == {u \in Thread : Modes[u] \in {"new", "blocked", "ready"}}
<1>1. TypeOK
  BY DEF IInv
<1>2. S = {u \in Thread : owner[u]}
  BY InLoopIsOwned
<1>3. /\ waitq' = [s \in Sem |-> <<>>] /\ armed' = {}
      /\ owner' = [t \in Thread |-> FALSE]
      /\ state' = [t \in Thread |-> IF owner[t] THEN "DEAD" ELSE state[t]]
      /\ UNCHANGED <<count, err, ref>>
  BY DEF LoopDestroy
<1>4. \A t \in Thread : /\ t \in S => state'[t] = "DEAD"
                        /\ t \notin S => state'[t] = state[t] /\ owner'[t] = owner[t]
  BY <1>1, <1>2, <1>3 DEF TypeOK
<1>5. Limited' = Limited \ S
  BY <1>2, <1>3 DEF Limited, IInv, ListsOK, ArmedIsBlocked
<1> HIDE DEF S
<1>6. Modes' = [t \in Thread |-> IF t \in S THEN "dead" ELSE Modes[t]]
  <2>1. \A t \in Thread : /\ t \in S => Modes'[t] = "dead"
                          /\ t \notin S => Modes'[t] = Modes[t]
    BY <1>1, <1>4, ModeBecomes, OthersKeep
  <2>2. Modes' = [t \in Thread |-> Modes'[t]]
    BY DEF Modes
  <2> QED BY <2>1, <2>2
<1>7. Executing' = Executing
  BY <1>3 DEF Executing
<1>8. Scheduler!StopAll
  BY <1>3, <1>5, <1>6, <1>7, StopAllView DEF S
<1> QED BY <1>8 DEF Simulated, Scheduler!Next

\* The oldest k waiters of s are woken.
LEMMA WakeView ==
    ASSUME IInv, NEW s \in Sem, NEW k \in 0 .. Len(waitq[s]), NEW code,
           Wake(s, k, code), owner' = owner
    PROVE  Scheduler!EndWaits(s, k, code)
<1> DEFINE S == Range(SubSeq(waitq[s], 1, k))
<1>1. TypeOK
  BY DEF IInv
<1>2. /\ waitq' = [waitq EXCEPT ![s] = SubSeq(@, k + 1, Len(@))]
      /\ armed' = armed \ S
      /\ state' = [t \in Thread |-> IF t \in S THEN "READY" ELSE state[t]]
      /\ err' = [t \in Thread |-> IF t \in S THEN code ELSE err[t]]
  BY DEF Wake, StopTimers
<1>3. \A t \in Thread : /\ t \in S => state'[t] = "READY"
                        /\ t \notin S => state'[t] = state[t] /\ owner'[t] = owner[t]
  BY <1>2
<1>4. Limited' = Limited \ S
  BY <1>2 DEF Limited
<1>5. Modes' = [t \in Thread |-> IF t \in S THEN "ready" ELSE Modes[t]]
  <2>1. \A t \in Thread : /\ t \in S => Modes'[t] = "ready"
                          /\ t \notin S => state'[t] = state[t] /\ owner'[t] = owner[t]
    BY <1>3, ModeBecomes
  <2> HIDE DEF S
  <2>2. \A t \in Thread : t \notin S => Modes'[t] = Modes[t]
    BY <1>1, <2>1, OthersKeep
  <2>3. Modes' = [t \in Thread |-> Modes'[t]]
    BY DEF Modes
  <2> QED BY <2>1, <2>2, <2>3
<1> QED BY <1>2, <1>4, <1>5, EndWaitsView

LEMMA SemCallsSimulated ==
    ASSUME IInv, NEW s \in Sem, SemCalls(s)
    PROVE  Simulated
<1>1. TypeOK /\ Len(waitq[s]) \in Nat
  BY DEF IInv, TypeOK
<1>2. ASSUME NEW n \in 1 .. MaxCount, SemGive(s, n) PROVE Simulated
  <2> DEFINE k == IF n < Len(waitq[s]) THEN n ELSE Len(waitq[s])
  <2>1. /\ k \in 0 .. Len(waitq[s]) /\ k \in 0 .. n /\ k <= Len(waitq[s])
        /\ k = n \/ k = Len(waitq[s])
    BY <1>1, CoreAssumption DEF CoreAssumption
  <2>2. /\ Wake(s, k, "EOK") /\ count' = [count EXCEPT ![s] = @ + (n - k)]
        /\ UNCHANGED <<owner, ref>>
    BY <1>2, StaleSame DEF SemGive, LeftOver
  <2> HIDE DEF k
  <2>3. Scheduler!EndWaits(s, k, "EOK") /\ Executing' = Executing
    BY <2>1, <2>2, WakeView DEF Executing
  <2>4. Scheduler!Give(s, n)
    BY <2>1, <2>2, <2>3 DEF Scheduler!Give
  <2> QED BY <2>4 DEF Simulated, Scheduler!Next
<1>3. ASSUME NEW code \in {"EOK", "ETERMINATED"}, WakeAll(s, code) PROVE Simulated
  <2>1. Wake(s, Len(waitq[s]), code) /\ UNCHANGED <<owner, ref, count>>
    BY <1>3, StaleSame DEF WakeAll
  <2>2. Len(waitq[s]) \in 0 .. Len(waitq[s])
    BY <1>1
  <2>3. Scheduler!EndWaits(s, Len(waitq[s]), code) /\ Executing' = Executing
    BY <2>1, <2>2, WakeView DEF Executing
  <2>4. Scheduler!WakeAll(s, code)
    BY <2>1, <2>3 DEF Scheduler!WakeAll
  <2> QED BY <2>4 DEF Simulated, Scheduler!Next
<1>4. CASE SemReset(s)
  <2>1. count' = [count EXCEPT ![s] = 0] /\ UNCHANGED <<waitq, state, owner, err, ref, armed>>
    BY <1>4 DEF SemReset, threads
  <2>2. UNCHANGED <<Modes, Limited, Executing>>
    BY <2>1, ModesSame DEF Limited, Executing
  <2>3. Scheduler!Reset(s)
    BY <2>1, <2>2 DEF Scheduler!Reset
  <2> QED BY <2>3 DEF Simulated, Scheduler!Next
<1> QED BY <1>2, <1>3, <1>4 DEF SemCalls, SemGiveAll, SemDestroy

-----------------------------------------------------------------------------
\* The entry of t returns.
LEMMA Returned ==
    ASSUME TypeOK, NoReentrance, NEW t \in Thread, InEntry(t), LeaveEntry(t)
    PROVE  t \in Executing /\ Executing' = Executing \ {t}
<1>1. /\ ref \in [Thread -> Nat] /\ ref' \in [Thread -> Nat] /\ ref[t] = 1 /\ ref'[t] = 0
      /\ \A u \in Thread : u # t => ref'[u] = ref[u]
  BY LeaveStep DEF TypeOK
<1> QED BY <1>1 DEF Executing

\* The thread whose entry is running is among those executing.
LEMMA InEntryExecutes ==
    ASSUME TypeOK, NoReentrance, NEW t \in Thread, InEntry(t)
    PROVE  t \in Executing
<1>1. stack \in Seq(Frame) /\ stack # <<>>
  BY DEF TypeOK, InEntry, InPhase
<1>2. Len(stack) \in Activations(t)
  BY <1>1 DEF Activations, InEntry, InPhase, Top
<1> QED BY <1>2 DEF NoReentrance, Executing

LEMMA BlockSimulated ==
    ASSUME Rules = AllRules, IInv, NoFault', NEW t \in Thread, NEW s \in Sem \cup {NoSem},
           NEW timed \in BOOLEAN,
           InEntry(t), s \in Sem => ~HasToken(s), Block(t, s, timed)
    PROVE  Simulated
<1>1. TypeOK /\ NoReentrance /\ ExecutingNotBlocked /\ Placement
  BY DEF IInv, ListsOK
<1>2. /\ owner[t] /\ LeaveEntry(t)
      /\ waitq' = [q \in Sem |-> IF q = s THEN Append(waitq[q], t) ELSE waitq[q]]
      /\ armed' = IF timed THEN armed \cup {t} ELSE armed
      /\ state' = [state EXCEPT ![t] = "PENDING"]
      /\ err' = [err EXCEPT ![t] = "EOK"]
      /\ UNCHANGED <<owner, count>>
  BY DEF Block, Obeys, AllRules, NoFault
<1>3. t \in Executing /\ Executing' = Executing \ {t}
  BY <1>1, <1>2, Returned
<1>4. state[t] = "READY"
  BY <1>1, <1>2, <1>3 DEF ExecutingNotBlocked, Executing, Placement
<1>5. Modes[t] = "ready"
  BY <1>1, <1>4, ModeIs
<1>6. state'[t] = "PENDING"
      /\ \A u \in Thread : u # t => state'[u] = state[u] /\ owner'[u] = owner[u]
  BY <1>1, <1>2 DEF TypeOK
<1>7. Modes' = [Modes EXCEPT ![t] = "blocked"]
  BY <1>1, <1>6, ModeBecomes, ModesExcept
<1>8. Limited' = IF timed THEN Limited \cup {t} ELSE Limited
  BY <1>2 DEF Limited
<1>9. s # NoSem => count[s] = 0
  BY <1>1 DEF HasToken, TypeOK
<1>10. Scheduler!Block(t, s, timed)
  BY <1>2, <1>3, <1>5, <1>7, <1>8, <1>9, BlockView
<1> QED BY <1>10 DEF Simulated, Scheduler!Next

LEMMA EntryEndSimulated ==
    ASSUME IInv, NEW t \in Thread, EntryEnd(t)
    PROVE  Simulated
<1> DEFINE S == {t} \cap {u \in Thread : Modes[u] \in {"new", "blocked", "ready"}}
<1>1. TypeOK /\ NoReentrance /\ ExecutingNotBlocked /\ WaitersBlocked /\ ArmedIsBlocked
  BY DEF IInv, ListsOK
<1>2. InEntry(t) /\ LeaveEntry(t) /\ UNCHANGED <<count, err>>
  BY DEF EntryEnd
<1>3. t \in Executing /\ Executing' = Executing \ {t}
  BY <1>1, <1>2, Returned
<1>4. CASE owner[t]
  <2>1. S = {t}
    BY <1>4, InLoopIsOwned
  <2>2. Detach(t)
    BY <1>4 DEF EntryEnd
  <2> HIDE DEF S
  <2>3. /\ Modes' = [u \in Thread |-> IF u \in S THEN "dead" ELSE Modes[u]]
        /\ Limited' = Limited \ S
        /\ waitq' = [s \in Sem |-> Unlink(waitq[s], t)]
    BY <1>1, <1>4, <2>1, <2>2, Detached
  <2> QED BY <1>2, <1>3, <2>3, EndView DEF S, Simulated, Scheduler!Next
<1>5. CASE ~owner[t]
  <2>1. S = {}
    BY <1>5, InLoopIsOwned
  <2>2. UNCHANGED <<waitq, armed, stale, owner, state>>
    BY <1>5 DEF EntryEnd
  <2>3. state[t] # "PENDING"
    BY <1>1, <1>3 DEF ExecutingNotBlocked, Executing
  <2>4. waitq' = [s \in Sem |-> Unlink(waitq[s], t)]
    BY <1>1, <2>2, <2>3, NotWaiting
  <2> HIDE DEF S
  <2>5. /\ Modes' = [u \in Thread |-> IF u \in S THEN "dead" ELSE Modes[u]]
        /\ Limited' = Limited \ S
    <3>1. Modes' = Modes /\ Modes = [u \in Thread |-> Modes[u]] /\ Limited' = Limited
      BY <2>2, ModesSame DEF Modes, Limited
    <3> QED BY <2>1, <3>1
  <2> QED BY <1>2, <1>3, <2>4, <2>5, EndView DEF S, Simulated, Scheduler!Next
<1> QED BY <1>4, <1>5

LEMMA EntryStepsSimulated ==
    ASSUME Rules = AllRules, IInv, NoFault', NEW t \in Thread, EntrySteps(t)
    PROVE  Simulated
<1>1. TypeOK /\ NoReentrance
  BY DEF IInv
<1>2. ASSUME NEW s \in Sem, TakeNow(t, s) PROVE Simulated
  <2>1. /\ InEntry(t) /\ count[s] > 0
        /\ count' = [count EXCEPT ![s] = @ - 1] /\ err' = [err EXCEPT ![t] = "EOK"]
        /\ UNCHANGED <<waitq, state, owner, ref, armed>>
    BY <1>2 DEF TakeNow, HasToken
  <2>2. t \in Executing /\ UNCHANGED <<Modes, Limited, Executing>>
    BY <1>1, <2>1, InEntryExecutes, ModesSame DEF Limited, Executing
  <2>3. Scheduler!Take(t, s)
    BY <2>1, <2>2, TakeView
  <2> QED BY <2>3 DEF Simulated, Scheduler!Next
<1>3. ASSUME NEW s \in Sem, NEW tick \in Ticks, TakeBlock(t, s, tick) PROVE Simulated
  <2>1. InEntry(t) /\ ~HasToken(s) /\ Block(t, s, tick # -1) /\ (tick # -1) \in BOOLEAN
    BY <1>3 DEF TakeBlock
  <2> QED BY <2>1, BlockSimulated
<1>4. ASSUME NEW tick \in Ticks, Delay(t, tick) PROVE Simulated
  <2>1. InEntry(t) /\ Block(t, NoSem, tick # -1) /\ (tick # -1) \in BOOLEAN
    BY <1>4 DEF Delay
  <2>2. NoSem \notin Sem
    BY CoreAssumption DEF CoreAssumption
  <2> QED BY <2>1, <2>2, BlockSimulated
<1>5. CASE EntryYield(t)
  <2>1. InEntry(t) /\ LeaveEntry(t) /\ UNCHANGED <<waitq, count, state, owner, err, armed>>
    BY <1>5 DEF EntryYield
  <2>2. t \in Executing /\ Executing' = Executing \ {t} /\ UNCHANGED <<Modes, Limited>>
    BY <1>1, <2>1, Returned, ModesSame DEF Limited
  <2>3. Scheduler!Yield(t)
    BY <2>1, <2>2, YieldView
  <2> QED BY <2>3 DEF Simulated, Scheduler!Next
<1>6. CASE EntryEnd(t)
  BY <1>6, EntryEndSimulated
<1> QED BY <1>2, <1>3, <1>4, <1>5, <1>6 DEF EntrySteps

-----------------------------------------------------------------------------
LEMMA TimeoutSimulated ==
    ASSUME IInv, NEW t \in Thread, Timeout(t)
    PROVE  Simulated
<1>1. TypeOK
  BY DEF IInv
<1>2. /\ t \in armed /\ armed' = armed \ {t} /\ MakeReady(t)
      /\ err' = [err EXCEPT ![t] = "ETIMEOUT"] /\ UNCHANGED <<count, owner, ref>>
  BY DEF Timeout
<1>3. owner[t]
  BY <1>2 DEF IInv, ListsOK, ArmedIsBlocked
<1>4. Limited' = Limited \ {t} /\ Executing' = Executing /\ t \in Limited
  BY <1>2 DEF Limited, Executing
<1>5. Scheduler!EndWait(t, "ETIMEOUT")
  BY <1>1, <1>2, <1>3, <1>4, MadeReady, EndWaitView
<1>6. Scheduler!Timeout(t)
  BY <1>4, <1>5 DEF Scheduler!Timeout
<1> QED BY <1>6 DEF Simulated, Scheduler!Next

LEMMA DispatchSimulated ==
    ASSUME IInv, Dispatch
    PROVE  Simulated
<1> DEFINE t == Head(clip)
<1>1. TypeOK /\ Placement
  BY DEF IInv, ListsOK
<1>2. t \in Thread /\ t \in Range(clip)
  BY <1>1, TailLemma DEF Dispatch, TypeOK, Placement
<1>3. UNCHANGED <<waitq, count, state, owner, err, armed>>
  BY DEF Dispatch
<1>4. UNCHANGED <<Modes, Limited>>
  BY <1>3, ModesSame DEF Limited
<1>5. CASE ref[t] = 0
  <2>1. ref' = [ref EXCEPT ![t] = @ + 1]
    BY <1>5 DEF Dispatch, Callable
  <2>2. state[t] = "READY"
    BY <1>1, <1>2 DEF Placement
  <2> HIDE DEF t
  <2>3. Modes[t] = "ready"
    BY <1>1, <1>2, <2>2, ModeIs
  <2>4. t \notin Executing /\ Executing' = Executing \cup {t}
    BY <1>1, <1>2, <1>5, <2>1 DEF Executing, TypeOK
  <2>5. Scheduler!Call(t)
    BY <1>2, <1>3, <1>4, <2>3, <2>4, CallView
  <2> QED BY <1>2, <2>5 DEF Simulated, Scheduler!Next
<1>6. CASE ref[t] # 0
  <2>1. ref' = ref
    BY <1>6 DEF Dispatch, Callable
  <2> QED BY <1>3, <1>4, <2>1, Hidden
<1> QED BY <1>5, <1>6

\* A timer of the application is no thread's.
LEMMA TimersSimulated ==
    ASSUME NEW x \in Timer, TimerCalls(x) \/ Expire(x)
    PROVE  Simulated
<1> USE DEF TimerCalls, TimerInit, TimerStart, TimerRemove, StaleRemove, Expire
<1>1. UNCHANGED <<state, owner, waitq, count, err, ref>>
  BY DEF threads
<1>2. x \notin Thread
  BY CoreAssumption DEF CoreAssumption
<1>3. Limited' = Limited
  BY <1>2 DEF Limited
<1> QED BY <1>1, <1>3, Hidden

LEMMA PollsSimulated ==
    ASSUME Poll \/ CallbackReturn \/ TickDone \/ PollReturn \/ PollAgain
           \/ \E t \in Thread : Join(t)
    PROVE  Simulated
<1>1. UNCHANGED <<state, owner, waitq, count, err, ref, armed>>
  BY DEF Poll, CallbackReturn, TickDone, PollReturn, PollAgain, Join, threads
<1> QED BY <1>1, Hidden DEF Limited

-----------------------------------------------------------------------------
LEMMA NextSimulated ==
    ASSUME Rules = AllRules, IInv, NoFault', [Next]_vars
    PROVE  Simulated
<1>1. CASE UNCHANGED vars
  BY <1>1, Hidden DEF vars, Limited
<1>2. ASSUME NEW t \in Thread, ThreadCalls(t) PROVE Simulated
  BY <1>2, ThreadInitSimulated, LoopAddSimulated, StartupSimulated, ResumeSimulated,
     StopSimulated, PollsSimulated DEF ThreadCalls
<1>3. CASE Next
  BY <1>2, <1>3, EntryStepsSimulated, TimeoutSimulated, SemCallsSimulated, TimersSimulated,
     LoopDestroySimulated, DispatchSimulated, PollsSimulated DEF Next
<1> QED BY <1>1, <1>3

LEMMA InitSimulated == Init => Scheduler!Init
<1> SUFFICES ASSUME Init PROVE Scheduler!Init
  OBVIOUS
<1> USE DEF Init, LoopInit, ThreadsInit, SemsInit
<1>1. Modes = [t \in Thread |-> "idle"]
  BY DEF Modes, ModeOf
<1>2. Limited = {} /\ Executing = {}
  BY DEF Limited, Executing
<1> QED BY <1>1, <1>2 DEF Scheduler!Init

\* The event loop implements the scheduler: whoever reasons about threads may forget the
\* lists, the polls and their nesting, the ticker and ref.
THEOREM LoopImplements == ASSUME Rules = AllRules PROVE Spec => ImplementsScheduler
<1>1. IInv /\ JoinedHasLoop => IInv /\ NoFault
  BY DEF IInv
<1>2. IInv /\ NoFault' /\ [Next]_vars => [Scheduler!Next]_(Scheduler!vars)
  BY NextSimulated DEF Simulated
<1> QED
  BY <1>1, <1>2, InitSimulated, InvariantHolds, PTL DEF Spec, ImplementsScheduler, Scheduler!Spec
-----------------------------------------------------------------------------
(***************************************************************************)
(* Programs that assume no rule of use.  Their proofs show, call by call,  *)
(* what the rules ask for, and then use the lemmas here: what such a step  *)
(* does, and that it keeps IInv.                                           *)
(***************************************************************************)

\* Nobody joins, and the thread of an entry that is executing is in the loop.
EntriesOwned ==
    \A k \in DOMAIN stack :
        stack[k].join = NoThread /\ (stack[k].phase = "entry" => owner[stack[k].thread])

LEMMA NobodyJoins ==
    ASSUME EntriesOwned
    PROVE  JoinedHasLoop
BY CoreAssumption DEF EntriesOwned, JoinedHasLoop, CoreAssumption

\* The frames a step leaves.
LEMMA EntriesMove ==
    ASSUME TypeOK, EntriesOwned,
           \A k \in DOMAIN stack : stack[k].phase = "entry" => owner'[stack[k].thread],
           \/ stack' = stack
           \/ stack # <<>> /\ \E p \in {"tick", "callback", "run"}, o \in MaybeThread :
                                  stack' = At(p, NoThread, o)
           \/ stack # <<>> /\ \E t \in Thread, o \in MaybeThread :
                                  owner'[t] /\ stack' = At("entry", t, o)
           \/ stack' = Append(stack, NewFrame(NoThread))
           \/ stack # <<>> /\ stack' = Front(stack)
    PROVE  EntriesOwned'
<1>0. stack \in Seq(Frame)
  BY DEF TypeOK
<1>1. CASE stack' = stack
  BY <1>1 DEF EntriesOwned
<1>2. ASSUME stack # <<>>, NEW p \in Phase, NEW t \in MaybeThread, NEW o \in MaybeThread,
             stack' = At(p, t, o), p = "entry" => owner'[t]
      PROVE  EntriesOwned'
  <2>1. /\ DOMAIN stack' = DOMAIN stack
        /\ stack'[Len(stack)].phase = p /\ stack'[Len(stack)].thread = t
        /\ \A k \in DOMAIN stack : k # Len(stack) => stack'[k] = stack[k]
        /\ \A k \in DOMAIN stack : stack'[k].join = stack[k].join
    BY <1>0, <1>2, AtFrames
  <2> QED BY <2>1, <1>2 DEF EntriesOwned
<1>3. ASSUME stack' = Append(stack, NewFrame(NoThread))
      PROVE  EntriesOwned'
  <2>1. NewFrame(NoThread) \in Frame /\ NewFrame(NoThread).join = NoThread
        /\ NewFrame(NoThread).phase = "tick"
    BY DEF NewFrame, Frame
  <2>2. /\ DOMAIN stack = 1 .. Len(stack) /\ DOMAIN stack' = 1 .. Len(stack) + 1
        /\ Len(stack) \in Nat /\ stack'[Len(stack) + 1] = NewFrame(NoThread)
        /\ \A k \in DOMAIN stack : stack'[k] = stack[k]
    BY <1>0, <1>3, <2>1
  <2>3. \A k \in DOMAIN stack' : k \in DOMAIN stack \/ k = Len(stack) + 1
    BY <2>2
  <2> QED BY <2>1, <2>2, <2>3 DEF EntriesOwned
<1>4. ASSUME stack # <<>>, stack' = Front(stack)
      PROVE  EntriesOwned'
  <2>1. \A k \in DOMAIN stack' : k \in DOMAIN stack /\ stack'[k] = stack[k]
    BY <1>0, <1>4 DEF Front
  <2> QED BY <2>1 DEF EntriesOwned
<1> QED
  BY <1>1, <1>2, <1>3, <1>4 DEF Phase, MaybeThread

\* The size of the stack they leave.
LEMMA StackSizes ==
    ASSUME stack \in Seq(Frame)
    PROVE  /\ stack' = Append(stack, NewFrame(NoThread)) => Len(stack') = Len(stack) + 1
           /\ stack # <<>> /\ stack' = Front(stack) => Len(stack') = Len(stack) - 1
           /\ \A p, t, o : stack' = At(p, t, o) => Len(stack') = Len(stack)
           /\ Len(stack) \in Nat /\ (Len(stack) = 0 <=> stack = <<>>)
<1>1. ASSUME stack' = Append(stack, NewFrame(NoThread))
      PROVE  Len(stack') = Len(stack) + 1
  <2>1. NewFrame(NoThread) \in Frame
    BY DEF NewFrame, Frame
  <2> QED BY <1>1, <2>1
<1>2. ASSUME stack # <<>>, stack' = Front(stack)
      PROVE  Len(stack') = Len(stack) - 1
  BY <1>2, FrontElements
<1>3. ASSUME NEW p, NEW t, NEW o, stack' = At(p, t, o)
      PROVE  Len(stack') = Len(stack)
  BY <1>3 DEF At
<1>4. Len(stack) \in Nat /\ (Len(stack) = 0 <=> stack = <<>>)
  BY SeqElements
<1> QED BY <1>1, <1>2, <1>3, <1>4

LEMMA EntryRuns ==
    ASSUME IInv, EntriesOwned, NEW t \in Thread, InEntry(t)
    PROVE  owner[t] /\ state[t] = "READY" /\ stack # <<>> /\ Top.thread = t /\ Top.phase = "entry"
<1>1. stack # <<>> /\ Len(stack) \in DOMAIN stack /\ Top.thread = t /\ Top.phase = "entry"
  BY DEF IInv, TypeOK, InEntry, InPhase, Top
<1>2. owner[t]
  BY <1>1 DEF EntriesOwned, Top
<1>3. ref[t] > 0
  <2>1. Len(stack) \in Activations(t)
    BY <1>1 DEF Activations, Top
  <2> QED BY <2>1 DEF IInv, NoReentrance
<1>4. state[t] = "READY"
  BY <1>2, <1>3 DEF IInv, ExecutingNotBlocked, ListsOK, Placement
<1> QED BY <1>1, <1>2, <1>4

\* A call that blocks, in an entry.
LEMMA BlockSeen ==
    ASSUME IInv, EntriesOwned, NEW t \in Thread, NEW q \in Sem \cup {NoSem},
           NEW timed \in BOOLEAN, InEntry(t), Block(t, q, timed), q \in Sem => count[q] = 0
    PROVE  /\ IInv' /\ EntriesOwned' /\ Len(stack') = Len(stack)
           /\ state' = [state EXCEPT ![t] = "PENDING"]
           /\ err' = [err EXCEPT ![t] = "EOK"]
           /\ lc' = [lc EXCEPT ![t] = q]
           /\ waitq' = [r \in Sem |-> IF r = q THEN Append(waitq[r], t) ELSE waitq[r]]
           /\ running' = Unlink(running, t) /\ clip' = Unlink(clip, t)
           /\ armed' = IF timed THEN armed \cup {t} ELSE armed
           /\ stack' = At("run", NoThread, Top.old)
           /\ UNCHANGED <<owner, count>>
<1>1. owner[t] /\ state[t] = "READY" /\ stack # <<>>
  BY EntryRuns
<1>2. IInv' /\ fault' = "none"
  BY <1>1, BlockInv
<1>3. /\ state' = [state EXCEPT ![t] = "PENDING"]
      /\ err' = [err EXCEPT ![t] = "EOK"]
      /\ lc' = [lc EXCEPT ![t] = q]
      /\ waitq' = [r \in Sem |-> IF r = q THEN Append(waitq[r], t) ELSE waitq[r]]
      /\ running' = Unlink(running, t) /\ clip' = Unlink(clip, t)
      /\ armed' = IF timed THEN armed \cup {t} ELSE armed
      /\ stack' = At("run", NoThread, Top.old)
      /\ UNCHANGED <<owner, count>>
  BY <1>2 DEF Block, LeaveEntry
<1>4. stack \in Seq(Frame) /\ Top.old \in MaybeThread
  BY <1>1, TopTyped DEF IInv, TypeOK
<1>5. EntriesOwned'
  BY <1>1, <1>3, <1>4, EntriesMove DEF EntriesOwned, IInv
<1> QED BY <1>2, <1>3, <1>4, <1>5, StackSizes

\* A give of one token: it is counted, or the first waiter has it.
LEMMA GiveSeen ==
    ASSUME IInv, EntriesOwned, NEW s \in Sem, SemGive(s, 1), MaxCount > 0
    PROVE  /\ IInv' /\ EntriesOwned'
           /\ UNCHANGED <<owner, lc, ref, clip, stack>>
           /\ \/ /\ waitq[s] = <<>> /\ count' = [count EXCEPT ![s] = @ + 1]
                 /\ UNCHANGED <<state, err, running, armed, waitq>>
              \/ \E u \in Thread :
                    /\ state[u] = "PENDING" /\ lc[u] = s /\ owner[u]
                    /\ state' = [state EXCEPT ![u] = "READY"]
                    /\ err' = [err EXCEPT ![u] = "EOK"]
                    /\ running' = Append(running, u)
                    /\ armed' = armed \ {u}
                    /\ waitq' = [waitq EXCEPT ![s] = Tail(@)]
                    /\ count' = count
<1> DEFINE k == IF 1 < Len(waitq[s]) THEN 1 ELSE Len(waitq[s])
<1>1. /\ Wake(s, k, "EOK")
      /\ count' = [count EXCEPT ![s] = @ + 1 - k]
      /\ UNCHANGED <<owner, lc, ref, current, stack, fault>>
  BY DEF SemGive, LeftOver
<1>2. waitq[s] \in Seq(Thread) /\ IsInjective(waitq[s]) /\ count \in [Sem -> Nat]
      /\ state \in [Thread -> State] /\ err \in [Thread -> Err] /\ running \in Seq(Thread)
      /\ waitq \in [Sem -> Seq(Thread)]
  BY DEF IInv, TypeOK, ListsOK, WaitersBlocked
<1> DEFINE woken == SubSeq(waitq[s], 1, k)
           rest == SubSeq(waitq[s], k + 1, Len(waitq[s]))
<1>7. /\ running' = running \o woken /\ armed' = armed \ Range(woken) /\ clip' = clip
      /\ waitq' = [waitq EXCEPT ![s] = rest]
      /\ state' = [t \in Thread |-> IF t \in Range(woken) THEN "READY" ELSE state[t]]
      /\ err' = [t \in Thread |-> IF t \in Range(woken) THEN "EOK" ELSE err[t]]
  BY <1>1 DEF Wake, StopTimers
<1>3. IInv'
  <2>1. 1 \in 1 .. MaxCount
    BY CoreAssumption DEF CoreAssumption
  <2> QED BY <2>1, SemCallsInv DEF SemCalls
<1>4. EntriesOwned'
  BY <1>1 DEF EntriesOwned
<1>5. CASE waitq[s] = <<>>
  <2>1. k = 0 /\ SubSeq(waitq[s], 1, 0) = <<>> /\ Len(waitq[s]) = 0
    BY <1>5
  <2>2. SubSeq(waitq[s], 1, Len(waitq[s])) = <<>>
    BY <1>5, <2>1
  <2>3. Range(<<>>) = {} /\ running \o <<>> = running
    BY <1>2, EmptyLemma
  <2>7. woken = <<>> /\ rest = <<>>
    BY ONLY <2>1, <2>2, k = 0
  <2> HIDE DEF k, woken, rest
  <2>4. /\ running' = running /\ armed' = armed /\ clip' = clip
        /\ state' = [t \in Thread |-> state[t]] /\ err' = [t \in Thread |-> err[t]]
        /\ waitq' = [waitq EXCEPT ![s] = <<>>]
    BY ONLY <1>7, <2>3, <2>7
  <2>5. state' = state /\ err' = err /\ waitq' = waitq
    BY <1>2, <1>5, <2>4
  <2>6. count' = [count EXCEPT ![s] = @ + 1]
    BY <1>1, <1>2, <2>1
  <2> QED BY <1>1, <1>3, <1>4, <1>5, <2>4, <2>5, <2>6
<1>6. CASE waitq[s] # <<>>
  <2> DEFINE u == Head(waitq[s])
  <2>0. Len(waitq[s]) \in Nat /\ Len(waitq[s]) >= 1
    <3>1. waitq[s] \in Seq(Thread)
      BY <1>2
    <3> QED BY ONLY <1>6, <3>1
  <2>1. k = 1
    <3>1. \A n \in Nat : n >= 1 => (IF 1 < n THEN 1 ELSE n) = 1
      OBVIOUS
    <3> QED BY ONLY <2>0, <3>1
  <2>2. SubSeq(waitq[s], 1, 1) = <<u>> /\ SubSeq(waitq[s], 2, Len(waitq[s])) = Tail(waitq[s])
    BY <1>2, <1>6, FirstLemma
  <2>3. u \in Thread /\ u \in Range(waitq[s])
    BY <1>2, <1>6, TailLemma
  <2>9. woken = <<u>> /\ rest = Tail(waitq[s])
    <3> HIDE DEF k, u
    <3> QED BY ONLY <2>1, <2>2, 1 + 1 = 2
  <2> HIDE DEF u, k, woken, rest
  <2>4. Range(<<u>>) = {u} /\ running \o <<u>> = Append(running, u)
    BY <1>2, <2>3 DEF Range
  <2>5. state[u] = "PENDING" /\ lc[u] = s /\ owner[u]
    BY <2>3 DEF IInv, ListsOK, WaitersBlocked, Placement
  <2>6. /\ running' = Append(running, u) /\ armed' = armed \ {u} /\ clip' = clip
        /\ state' = [t \in Thread |-> IF t \in {u} THEN "READY" ELSE state[t]]
        /\ err' = [t \in Thread |-> IF t \in {u} THEN "EOK" ELSE err[t]]
        /\ waitq' = [waitq EXCEPT ![s] = Tail(@)]
    BY ONLY <1>7, <2>4, <2>9
  <2>7. state' = [state EXCEPT ![u] = "READY"] /\ err' = [err EXCEPT ![u] = "EOK"]
    BY <1>2, <2>3, <2>6
  <2>8. count' = count
    BY <1>1, <1>2, <2>1
  <2> QED BY <1>1, <1>3, <1>4, <2>3, <2>5, <2>6, <2>7, <2>8
<1> QED BY <1>5, <1>6

\* The end of a wait.
LEMMA TimeoutSeen ==
    ASSUME IInv, EntriesOwned, NEW t \in Thread, Timeout(t)
    PROVE  /\ IInv' /\ EntriesOwned'
           /\ state[t] = "PENDING" /\ owner[t]
           /\ state' = [state EXCEPT ![t] = "READY"]
           /\ err' = [err EXCEPT ![t] = "ETIMEOUT"]
           /\ running' = Append(running, t)
           /\ armed' = armed \ {t}
           /\ waitq' = [s \in Sem |-> Unlink(waitq[s], t)]
           /\ UNCHANGED <<count, owner, lc, ref, clip, stack>>
<1>1. t \in armed /\ armed' = armed \ {t} /\ MakeReady(t)
      /\ err' = [err EXCEPT ![t] = "ETIMEOUT"]
      /\ UNCHANGED <<count, owner, lc, ref, stack>>
  BY DEF Timeout
<1>2. state[t] = "PENDING" /\ owner[t]
  BY <1>1 DEF IInv, ListsOK, ArmedIsBlocked
<1>3. t \notin Range(running) /\ t \notin Range(clip)
  BY <1>2 DEF IInv, ListsOK, Placement
<1>4. /\ running' = Append(running, t) /\ clip' = clip /\ state' = [state EXCEPT ![t] = "READY"]
      /\ waitq' = [s \in Sem |-> Unlink(waitq[s], t)]
  BY <1>1, <1>2, <1>3 DEF MakeReady, LeaveWaitq, Unlink
<1>5. IInv' /\ EntriesOwned'
  BY <1>1, TimeoutInv DEF EntriesOwned
<1> QED BY <1>1, <1>2, <1>4, <1>5

\* The steps of a poll, and a timer of the program that fires.
LEMMA PollSeen ==
    ASSUME IInv, EntriesOwned,
           \/ Poll \/ CallbackReturn \/ TickDone \/ Dispatch \/ PollReturn
           \/ \E x \in Timer : Expire(x)
    PROVE  /\ IInv' /\ EntriesOwned'
           /\ UNCHANGED <<waitq, count, state, owner, err, lc>>
           /\ \/ Poll /\ Len(stack') = Len(stack) + 1
              \/ PollReturn /\ Len(stack') = Len(stack) - 1
              \/ Len(stack') = Len(stack)
<1>0. stack \in Seq(Frame) /\ (stack # <<>> => Top.old \in MaybeThread) /\ current \in MaybeThread
      /\ NoThread \in MaybeThread
  BY TopTyped DEF IInv, TypeOK, MaybeThread
<1>1. UNCHANGED <<waitq, count, state, owner, err, lc>>
  BY DEF Poll, CallbackReturn, TickDone, Dispatch, PollReturn, Expire, threads
<1>2. IInv'
  BY NobodyJoins, PollStepsInv, TimerStepsInv
<1>3. CASE Poll
  <2>1. stack' = Append(stack, NewFrame(NoThread))
    BY <1>3 DEF Poll
  <2> QED BY <1>0, <1>1, <1>2, <1>3, <2>1, EntriesMove, StackSizes DEF IInv, EntriesOwned
<1>4. CASE PollReturn
  <2>1. stack # <<>> /\ stack' = Front(stack)
    BY <1>4 DEF PollReturn, InPhase
  <2> QED BY <1>0, <1>1, <1>2, <1>4, <2>1, EntriesMove, StackSizes DEF IInv, EntriesOwned
<1>5. CASE CallbackReturn \/ TickDone \/ \E x \in Timer : Expire(x)
  <2>1. stack # <<>> /\ \E p \in {"tick", "callback", "run"}, o \in MaybeThread :
                            stack' = At(p, NoThread, o)
    BY <1>0, <1>5 DEF CallbackReturn, TickDone, Expire, InPhase
  <2> QED BY <1>0, <1>1, <1>2, <2>1, EntriesMove, StackSizes DEF IInv, EntriesOwned
<1>6. CASE Dispatch
  <2> DEFINE t == Head(clip)
  <2>1. /\ stack # <<>> /\ clip # <<>> /\ clip' = Tail(clip) /\ running' = Append(running, t)
        /\ stack' = stack \/ stack' = At("entry", t, Top.old)
        /\ UNCHANGED <<pending, armed>>
    BY <1>6 DEF Dispatch, InPhase
  <2>2. t \in Thread /\ owner[t]
    BY <1>1, <2>1, DispatchLists DEF IInv
  <2> HIDE DEF t
  <2>3. EntriesOwned'
    BY <1>0, <1>1, <2>1, <2>2, EntriesMove DEF IInv, EntriesOwned
  <2> QED BY <1>0, <1>1, <1>2, <2>1, <2>3, StackSizes
<1> QED BY <1>3, <1>4, <1>5, <1>6

\* The loop destroyed, or a thread stopped, when no entry that is executing is stopped.
LEMMA StopSeen ==
    ASSUME IInv, EntriesOwned,
           \/ LoopDestroy /\ AtMostOne(armed \cap Timer)
           \/ \E t \in Thread : Stop(t),
           \A k \in DOMAIN stack : stack[k].phase = "entry" => owner'[stack[k].thread]
    PROVE  IInv' /\ EntriesOwned' /\ UNCHANGED <<count, err, lc, stack>>
<1>1. stack' = stack /\ UNCHANGED <<count, err, lc>>
  BY DEF LoopDestroy, Stop
<1>2. IInv'
  BY LoopDestroyInv, StopInv
<1> QED BY <1>1, <1>2 DEF EntriesOwned
=============================================================================
