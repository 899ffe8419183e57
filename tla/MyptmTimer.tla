------------------------------ MODULE MyptmTimer ------------------------------
(***************************************************************************)
(* The ticker of src/src/myptm_timer.c: a ring of timers in the order they  *)
(* are due, each with the difference between its time and the time of its  *)
(* predecessor.  myptm_tick_increase charges time to the ring and calls the *)
(* callbacks; a callback may start, restart and remove every timer, itself *)
(* included, and, by polling, enter myptm_tick_increase again.  A frame of  *)
(* `calls' is one activation of it:                                        *)
(*                                                                         *)
(*   charge     at the head of the outer while loop                        *)
(*   fire       at the head of the inner while loop                        *)
(*   callback   in the callback of a timer                                 *)
(*   stopped    nowhere: an assert has failed, a loop does not end, or      *)
(*              timers that run have been cut off from the ring             *)
(*                                                                         *)
(* The tick of a timer that is in no ring is never read, so ticks are kept *)
(* with the entries of the ring.  Ticks are unsigned words (% Modulus).     *)
(***************************************************************************)
EXTENDS MyptmLists

CONSTANTS
    Timer,       \* the myptm_timer_t objects, those inside threads included
    Off,         \* the remaining time of a timer that is not running
    Modulus,     \* the words of unsigned int are below it
    Delays,      \* what timers are started with: the int argument tick
    Elapsed,     \* what myptm_tick_increase is called with: the int diff of a poll
    Rules,       \* the rules of use the application follows
    MaxDepth     \* bound: activations of myptm_tick_increase on the stack

(***************************************************************************)
(* What the ticker expects of its caller without checking it.              *)
(*   StartIdle      only a timer that is not running is started            *)
(*   DestroyIdle    only a timer that is not running is destroyed          *)
(*   OneLeft        at most one timer runs when the ticker is destroyed    *)
(*   LeftAlone      a timer that ran then is not started, and not          *)
(*                  restarted, removed or destroyed while others run,      *)
(*                  before it is initialised again                         *)
(***************************************************************************)
AllRules == {"StartIdle", "DestroyIdle", "OneLeft", "LeftAlone"}

Word == 0 .. Modulus - 1

ASSUME TimerAssumption ==
    /\ Modulus \in Nat \ {0}
    /\ Off \notin Word
    /\ Delays \subseteq Int
    /\ Elapsed \subseteq Int
    /\ \A diff \in Elapsed : diff % Modulus # 0
    /\ Rules \subseteq AllRules
    /\ MaxDepth \in Nat

VARIABLES
    ring,        \* the entries of head: a timer and its tick
    stale,       \* timers linked to head, which is not linked to them
    life,        \* init: p_ticker is NULL; used: it is set; destroyed: no callback
    origin,      \* tick_origin of each timer
    calls        \* the active calls of myptm_tick_increase, innermost last

vars == <<ring, stale, life, origin, calls>>

Entry == [timer : Timer, tick : Word]
Frame == [left : Word, phase : {"charge", "fire", "callback", "stopped"}]

Linked == {e.timer : e \in Range(ring)}

Top == calls[Len(calls)]

At(left, phase) == [calls EXCEPT ![Len(calls)] = [left |-> left, phase |-> phase]]

Obeys(rule, condition) == rule \in Rules => condition

\* Code of the application is running: outside the ticker, or in a callback.
UserRuns == calls # <<>> => Top.phase = "callback"

InPhase(phase) == calls # <<>> /\ Top.phase = phase

\* No step follows.
Halt == calls' = Append(calls, [left |-> 0, phase |-> "stopped"])

-----------------------------------------------------------------------------
\* The time that is left for the i-th entry of r.
Offset(r, i) == SumTo([j \in DOMAIN r |-> r[j].tick], i)

IndexOf(r, x) == CHOOSE i \in DOMAIN r : r[i].timer = x

\* The timer leaves its ring and the others keep their ticks: myptm_queue_remove.
Without(r, x) ==
    IF \A e \in Range(r) : e.timer # x THEN r ELSE RemoveAt(r, IndexOf(r, x))

\* Mutant: the successor of a timer removed keeps its tick.
RemovedOnly(r, x) == Without(r, x)

\* myptm_tick_remove_timer: the tick is added to that of the successor.
Removed(r, x) ==
    IF \A e \in Range(r) : e.timer # x THEN r
    ELSE LET i == IndexOf(r, x)
         IN  RemoveAt([j \in DOMAIN r |->
                 IF j = i + 1 THEN [r[j] EXCEPT !.tick = (@ + r[i].tick) % Modulus]
                              ELSE r[j]], i)

\* Mutant: the successor of a timer added keeps its tick.
InsertedKeepsNext(r, x, tick) ==
    LET n == tick % Modulus
        earlier == {i \in DOMAIN r : Offset(r, i) < n}
        k == CHOOSE i \in earlier \cup {0} : \A j \in earlier : j <= i
    IN  InsertAt(r, k + 1, [timer |-> x, tick |-> n - Offset(r, k)])

\* myptm_tick_add_timer: the timer goes before the first one that is not due
\* earlier, and its tick is taken from that one's.
Inserted(r, x, tick) ==
    LET n == tick % Modulus
        earlier == {i \in DOMAIN r : Offset(r, i) < n}
        k == CHOOSE i \in earlier \cup {0} : \A j \in earlier : j <= i
        rest == n - Offset(r, k)
    IN  InsertAt([j \in DOMAIN r |->
            IF j = k + 1 THEN [r[j] EXCEPT !.tick = (@ - rest) % Modulus] ELSE r[j]],
            k + 1, [timer |-> x, tick |-> rest])

-----------------------------------------------------------------------------
Init ==
    /\ ring = <<>> /\ stale = {}
    /\ life = [x \in Timer |-> "init"]
    /\ origin = [x \in Timer |-> 0]
    /\ calls = <<>>

\* myptm_timer_init, again after a destroy
TimerInit(x) ==
    /\ UserRuns
    /\ life[x] = "destroyed" \/ x \in stale
    /\ x \notin Linked
    /\ life' = [life EXCEPT ![x] = "init"]
    /\ stale' = stale \ {x}
    /\ UNCHANGED <<ring, origin, calls>>

\* A timer that is linked to the head alone links the head to itself when it is
\* unlinked, and the timers that run are out of the ring.
Cuts(x) == x \in stale /\ ring # <<>>

\* x is unlinked; if that is all it does, r is the ring then.
Unlinking(x, r) ==
    /\ Obeys("LeftAlone", ~Cuts(x))
    /\ IF Cuts(x)
       THEN Halt /\ UNCHANGED <<ring, stale>>
       ELSE ring' = r /\ stale' = stale \ {x} /\ UNCHANGED calls

\* myptm_timer_destroy unlinks the timer, and nothing else.
TimerDestroy(x) ==
    /\ UserRuns
    /\ life[x] # "destroyed"
    /\ Obeys("DestroyIdle", x \notin Linked)
    /\ Unlinking(x, Without(ring, x))
    /\ life' = [life EXCEPT ![x] = "destroyed"]
    /\ UNCHANGED origin

\* myptm_loop_timer_start, and the timer of a delay: the insertion asserts that
\* the timer is linked to nothing.
AddTimer(x, tick) ==
    /\ UserRuns
    /\ life[x] # "destroyed"
    /\ Obeys("StartIdle", x \notin Linked)
    /\ Obeys("LeftAlone", x \notin stale)
    /\ origin' = [origin EXCEPT ![x] = tick % Modulus]
    /\ life' = [life EXCEPT ![x] = "used"]
    /\ IF x \in Linked \cup stale
       THEN Halt /\ UNCHANGED ring
       ELSE ring' = Inserted(ring, x, tick) /\ UNCHANGED calls
    /\ UNCHANGED stale

RemoveTimer(x) ==
    /\ UserRuns
    /\ x \in Linked \cup stale
    /\ Unlinking(x, Removed(ring, x))
    /\ UNCHANGED <<life, origin>>

\* myptm_timer_restart, which does nothing to a timer that was never started
Restart(x) ==
    /\ UserRuns
    /\ life[x] = "used"
    /\ Unlinking(x, Inserted(Removed(ring, x), x, origin[x]))
    /\ UNCHANGED <<life, origin>>

\* What the caller of myptm_tick_destroy sees to.
OneLeft == Obeys("OneLeft", Len(ring) <= 1)

\* myptm_tick_destroy, of myptm_loop_destroy.  After the first timer is unlinked,
\* myptm_queue_remove evaluates its argument p_this->head.next again and
\* initialises the node that follows: the head when there is no other, and the
\* timer stays linked to it.  When there is one, head.next is linked to itself
\* from then on, and the loop does not end (RemovedFirst of MyptmQueue).
TickDestroy ==
    /\ UserRuns
    /\ OneLeft
    /\ IF Len(ring) <= 1
       THEN ring' = <<>> /\ stale' = stale \cup Linked /\ UNCHANGED calls
       ELSE Halt /\ UNCHANGED <<ring, stale>>
    /\ UNCHANGED <<life, origin>>

-----------------------------------------------------------------------------
(***************************************************************************)
(* myptm_tick_increase.                                                    *)
(***************************************************************************)

Increase(diff) ==
    /\ UserRuns
    /\ Len(calls) < MaxDepth
    /\ calls' = Append(calls, [left |-> diff % Modulus, phase |-> "charge"])
    /\ UNCHANGED <<ring, stale, life, origin>>

\* One round of the outer loop, up to the inner one: the first timer is charged
\* the time that is left.  If that does not make it due, the call returns.
Charge ==
    /\ InPhase("charge")
    /\ Top.left > 0 /\ ring # <<>>
    /\ LET tick == Head(ring).tick
       IN  IF tick < Top.left
           THEN /\ ring' = [ring EXCEPT ![1].tick = 0]
                /\ calls' = At(Top.left - tick, "fire")
           ELSE /\ ring' = [ring EXCEPT ![1].tick = tick - Top.left]
                /\ calls' = IF tick = Top.left THEN At(0, "fire") ELSE Front(calls)
    /\ UNCHANGED <<stale, life, origin>>

\* Mutant: a timer stays in the ring while its callback runs.
FireKeepsLinked ==
    /\ InPhase("fire")
    /\ ring # <<>> /\ Head(ring).tick = 0
    /\ calls' = At(Top.left, "callback")
    /\ UNCHANGED <<ring, stale, life, origin>>

\* One round of the inner loop: a timer that is due leaves the ring and its
\* callback is called.
Fire ==
    /\ InPhase("fire")
    /\ ring # <<>> /\ Head(ring).tick = 0
    /\ ring' = Tail(ring)
    /\ calls' = At(Top.left, "callback")
    /\ UNCHANGED <<stale, life, origin>>

CallbackReturn ==
    /\ InPhase("callback")
    /\ calls' = At(Top.left, "fire")
    /\ UNCHANGED <<ring, stale, life, origin>>

\* No further timer is due.
FireDone ==
    /\ InPhase("fire")
    /\ ring # <<>> => Head(ring).tick > 0
    /\ calls' = At(Top.left, "charge")
    /\ UNCHANGED <<ring, stale, life, origin>>

IncreaseReturn ==
    /\ InPhase("charge")
    /\ Top.left = 0 \/ ring = <<>>
    /\ calls' = Front(calls)
    /\ UNCHANGED <<ring, stale, life, origin>>

-----------------------------------------------------------------------------
Next ==
    \/ \E x \in Timer :
          \/ TimerInit(x) \/ TimerDestroy(x) \/ RemoveTimer(x) \/ Restart(x)
          \/ \E tick \in Delays : AddTimer(x, tick)
    \/ \E diff \in Elapsed : Increase(diff)
    \/ TickDestroy
    \/ Charge \/ Fire \/ CallbackReturn \/ FireDone \/ IncreaseReturn

Spec == Init /\ [][Next]_vars

(***************************************************************************)
(* The ticker's own steps are taken, and a callback does not poll for ever: *)
(* at each depth of nesting, one that goes on after its polls returns.      *)
(***************************************************************************)
Fairness ==
    /\ WF_vars(Charge \/ Fire \/ FireDone \/ IncreaseReturn)
    /\ \A depth \in 1 .. MaxDepth : SF_vars(Len(calls) = depth /\ CallbackReturn)

FairSpec == Spec /\ Fairness

-----------------------------------------------------------------------------
(***************************************************************************)
(* Properties.                                                             *)
(***************************************************************************)

\* Types: each timer is linked once, and the times of the timers fit in a word
\* however long the ring is, so neither the sums nor the differences wrap.  A timer
\* that is linked to the head alone is not in the ring.
TypeOK ==
    /\ ring \in Seq(Entry)
    /\ \A i, j \in DOMAIN ring : ring[i].timer = ring[j].timer => i = j
    /\ \A i \in DOMAIN ring : Offset(ring, i) \in Word
    /\ stale \subseteq Timer \ Linked
    /\ life \in [Timer -> {"init", "used", "destroyed"}]
    /\ origin \in [Timer -> Word]
    /\ calls \in Seq(Frame)

\* No call of myptm_tick_increase returns while a timer is due, whatever the
\* callbacks start, remove or poll.
NoneLeftDue ==
    [][Len(calls') < Len(calls) /\ ring' # <<>> => Head(ring').tick > 0]_vars

\* The refinement mapping: the time of a timer is the sum of the ticks up to its own,
\* and the time owed is what the active calls have not used.
Times(r) ==
    [x \in Timer |-> IF \A e \in Range(r) : e.timer # x THEN Off ELSE Offset(r, IndexOf(r, x))]

Remaining == Times(ring)

Owed == SumTo([i \in DOMAIN calls |-> calls[i].left], Len(calls))

\* The ticker implements MyptmAlarm.
Alarm == INSTANCE MyptmAlarm WITH remaining <- Remaining, owed <- Owed

\* Starting, restarting, removing and firing a timer leaves the time of every other
\* timer alone, every tick is charged once, and each timer fires when it is due.
ImplementsAlarm == Alarm!Spec

\* The timers that have been started have positive delays.
PositiveDelays == \A x \in Timer : life[x] = "used" => origin[x] > 0

\* A poll does not stay in myptm_tick_increase for ever, although callbacks start
\* their timers again, if from some time on their delays are positive.  Nor does it
\* end in a failed assert, or in the loop of myptm_tick_destroy.
TickEnds == <>[]PositiveDelays => (calls # <<>> ~> calls = <<>>)
=============================================================================
