------------------------ MODULE ExampleMessagesProofs -------------------------
(***************************************************************************)
(* The safety of the programs of ExampleMessages and of TestProgram, for   *)
(* any number of senders and of slots: the books of messages and of slots  *)
(* balance in every state, with every message announced and every slot     *)
(* given in the semaphores, in the hands of a thread or lost with one that *)
(* was stopped.                                                            *)
(***************************************************************************)
EXTENDS TestProgram, MyptmCoreProofs

LEMMA Constants ==
    /\ Receiver \in Thread /\ Sender \subseteq Thread /\ Receiver \notin Sender
    /\ SemEmpty \in Sem /\ SemRead \in Sem /\ SemEmpty # SemRead /\ Sem = {SemEmpty, SemRead}
    /\ SemEmpty # NoSem /\ SemRead # NoSem
    /\ MaxCount > 0 /\ MaxMsgs \in Nat /\ MaxMsgs > 0 /\ MaxMsgs <= MaxCount
    /\ Timer = {StopTimer} /\ StopTimer \notin Thread
    /\ \A t \in Thread : t = Receiver \/ t \in Sender
BY CoreAssumption, ExampleMessagesAssumption
   DEF CoreAssumption, ExampleMessagesAssumption, Sender

LEMMA SendersFinite == IsFiniteSet(Sender)
<1>1. Started \in Seq(Thread) /\ Thread = Range(Started)
  BY ExampleMessagesAssumption DEF ExampleMessagesAssumption
<1>2. DOMAIN Started = 1 .. Len(Started) /\ Len(Started) \in Nat
  BY <1>1
<1>3. IsFiniteSet(1 .. Len(Started))
  BY <1>2, IntervalSize
<1>4. Started \in Surjection(1 .. Len(Started), Thread)
  <2>1. Started \in [1 .. Len(Started) -> Thread]
    BY <1>1, <1>2
  <2>2. \A t \in Thread : \E k \in 1 .. Len(Started) : Started[k] = t
    BY <1>1, <1>2 DEF Range
  <2> QED BY <2>1, <2>2 DEF Surjection
<1>5. IsFiniteSet(Thread)
  BY <1>3, <1>4, FS_Surjection
<1>6. Sender \in SUBSET Thread
  BY DEF Sender
<1> QED BY <1>5, <1>6, FS_Subset

-----------------------------------------------------------------------------
(***************************************************************************)
(* The inductive invariant.                                                *)
(***************************************************************************)
Places == {"add", "startup", "delay", "take", "get", "count", "put"}

ProgramTypes ==
    /\ pc \in [Thread -> Places]
    /\ box \in Seq(Sender)
    /\ \A t \in Sender : /\ pc[t] \in {"take", "put", "delay"}
                         /\ state[t] = "INIT" => pc[t] = "take"

\* Who waits for a message or a slot has come to the code that looks at the result.
WaitPlaces ==
    \A t \in Thread : state[t] = "PENDING" =>
        /\ lc[t] = SemRead => t = Receiver /\ pc[t] = "get"
        /\ lc[t] = SemEmpty => t \in Sender /\ pc[t] = "put"

\* The receiver has been handed a message and has not run since.
InHand == pc[Receiver] = "get" /\ state[Receiver] = "READY" /\ Got(Receiver)

\* Each message in the queue is announced, or in the receiver's hand.
MessagesKept == owner[Receiver] => Len(box) = count[SemRead] + (IF InHand THEN 1 ELSE 0)

StoppedSenders == {t \in Sender : state[t] = "DEAD"}

\* The slots in the pool, the messages and the slots in senders' hands.
Slots == Len(box) + count[SemEmpty] + Cardinality(Filling)

\* A sender that was stopped took one slot with it, or none.
SlotsKept == owner[Receiver] => MaxMsgs - Slots \in 0 .. Cardinality(StoppedSenders)

Books == ProgramTypes /\ WaitPlaces /\ MessagesKept /\ SlotsKept /\ NoBug

\* One poll at a time, and no entry is executing in a thread that was stopped.
Machine == IInv /\ EntriesOwned /\ Len(stack) <= 1

-----------------------------------------------------------------------------
\* The sizes of the sets in the books, and what a thread that comes or goes does.
LEMMA Sizes ==
    /\ Filling \subseteq Sender /\ IsFiniteSet(Filling) /\ Cardinality(Filling) \in Nat
    /\ IsFiniteSet(StoppedSenders) /\ Cardinality(StoppedSenders) \in Nat
    /\ \A t \in Sender : /\ t \notin Filling => Cardinality(Filling \cup {t}) = Cardinality(Filling) + 1
                         /\ t \in Filling => Cardinality(Filling \ {t}) = Cardinality(Filling) - 1
                         /\ t \notin StoppedSenders =>
                               Cardinality(StoppedSenders \cup {t}) = Cardinality(StoppedSenders) + 1
<1>1. Filling \in SUBSET Sender /\ StoppedSenders \in SUBSET Sender
  BY DEF Filling, StoppedSenders
<1>2. IsFiniteSet(Filling) /\ IsFiniteSet(StoppedSenders)
  BY <1>1, SendersFinite, FS_Subset
<1> QED BY <1>1, <1>2, FS_CardinalityType, FS_AddElement, FS_RemoveElement

LEMMA SlotsSum ==
    /\ Slots = Len(box) + count[SemEmpty] + Cardinality(Filling)
    /\ Slots' = Len(box') + count'[SemEmpty] + Cardinality(Filling')
BY DEF Slots

\* Nothing of the books has changed.
LEMMA BooksSame ==
    ASSUME Books, UNCHANGED <<pc, box, rx, count, state, owner, err, lc>>
    PROVE  Books'
<1>1. Filling' = Filling /\ StoppedSenders' = StoppedSenders /\ (InHand <=> InHand')
  BY DEF Filling, StoppedSenders, InHand, Got
<1>2. ProgramTypes' /\ WaitPlaces' /\ NoBug'
  BY DEF Books, ProgramTypes, WaitPlaces, NoBug
<1>3. MessagesKept' /\ SlotsKept'
  BY <1>1 DEF Books, MessagesKept, SlotsKept, Slots
<1> QED BY <1>2, <1>3 DEF Books

LEMMA MachineSame ==
    ASSUME Machine, UNCHANGED vars
    PROVE  Machine'
<1>1. IInv' /\ stack' = stack /\ owner' = owner
  BY NobodyJoins, StutterInv DEF Machine, vars
<1> QED BY <1>1 DEF Machine, EntriesOwned

\* What is known of a thread whose entry is executing.
LEMMA EntryKnown ==
    ASSUME Machine, Books, NEW t \in Thread, InEntry(t)
    PROVE  /\ owner[t] /\ state[t] = "READY" /\ stack # <<>> /\ Top.thread = t /\ Top.phase = "entry"
           /\ count \in [Sem -> Nat] /\ state \in [Thread -> State] /\ err \in [Thread -> Err]
           /\ lc \in [Thread -> Sem \cup {NoSem}] /\ owner \in [Thread -> BOOLEAN]
           /\ box \in Seq(Sender) /\ Len(box) \in Nat /\ pc \in [Thread -> Places]
<1>1. owner[t] /\ state[t] = "READY" /\ stack # <<>> /\ Top.thread = t /\ Top.phase = "entry"
  BY EntryRuns DEF Machine
<1>2. /\ count \in [Sem -> Nat] /\ state \in [Thread -> State] /\ err \in [Thread -> Err]
      /\ lc \in [Thread -> Sem \cup {NoSem}] /\ owner \in [Thread -> BOOLEAN]
  BY DEF Machine, IInv, TypeOK
<1> QED BY <1>1, <1>2, SeqElements DEF Books, ProgramTypes
-----------------------------------------------------------------------------
(***************************************************************************)
(* The calls of the threads.                                               *)
(***************************************************************************)
LEMMA SenderTakesNow ==
    ASSUME Machine, Books, NEW t \in Sender, Goes(t, "take", "put"), TakeNow(t, SemEmpty),
           UNCHANGED <<box, rx>>
    PROVE  Machine' /\ Books'
<1>1. /\ InEntry(t) /\ pc[t] = "take" /\ pc' = [pc EXCEPT ![t] = "put"]
      /\ count[SemEmpty] > 0 /\ count' = [count EXCEPT ![SemEmpty] = @ - 1]
      /\ err' = [err EXCEPT ![t] = "EOK"] /\ lc' = [lc EXCEPT ![t] = SemEmpty]
      /\ UNCHANGED <<state, owner, stack, box, rx>>
  BY DEF Goes, TakeNow, HasToken
<1>2. /\ owner[t] /\ state[t] = "READY"
      /\ count \in [Sem -> Nat] /\ state \in [Thread -> State] /\ err \in [Thread -> Err]
      /\ lc \in [Thread -> Sem \cup {NoSem}] /\ box \in Seq(Sender) /\ Len(box) \in Nat
      /\ pc \in [Thread -> Places] /\ t \in Thread /\ t # Receiver
  BY <1>1, EntryKnown, Constants
<1>3. Machine'
  BY <1>1, <1>2, Constants, TakeNowInv DEF Machine, EntriesOwned
<1>4. ProgramTypes' /\ WaitPlaces' /\ NoBug'
  BY <1>1, <1>2, Constants DEF Books, ProgramTypes, WaitPlaces, NoBug, Places
<1>5. MessagesKept'
  <2>1. count'[SemRead] = count[SemRead] /\ (InHand' <=> InHand)
    BY <1>1, <1>2, Constants DEF InHand, Got
  <2> QED BY <1>1, <2>1 DEF Books, MessagesKept
<1>6. SlotsKept'
  <2>1. t \notin Filling /\ Filling' = Filling \cup {t}
    BY <1>1, <1>2, Constants DEF Filling, Got
  <2>2. Cardinality(Filling') = Cardinality(Filling) + 1 /\ Cardinality(Filling) \in Nat
    BY <2>1, Sizes
  <2>3. count'[SemEmpty] = count[SemEmpty] - 1 /\ count[SemEmpty] \in Nat
    BY <1>1, <1>2, Constants
  <2>4. StoppedSenders' = StoppedSenders
    BY <1>1 DEF StoppedSenders
  <2>5. Slots' = Slots
    BY ONLY <1>1, <1>2, <2>2, <2>3, SlotsSum
  <2> QED BY <1>1, <2>4, <2>5 DEF Books, SlotsKept
<1> QED BY <1>3, <1>4, <1>5, <1>6 DEF Books

\* A thread that blocks.  It is in neither hand, and may wait only where WaitPlaces says.
LEMMA Blocks ==
    ASSUME Machine, Books, NEW t \in Thread, NEW q \in Sem \cup {NoSem}, NEW timed \in BOOLEAN,
           NEW from, NEW to, Goes(t, from, to), Block(t, q, timed), q \in Sem => count[q] = 0,
           UNCHANGED <<box, rx>>,
           to \in Places, from \notin {"put", "get"}, t \in Sender => to \in {"take", "put", "delay"},
           q = SemRead => t = Receiver /\ to = "get",
           q = SemEmpty => t \in Sender /\ to = "put"
    PROVE  Machine' /\ Books'
<1>1. /\ InEntry(t) /\ pc[t] = from /\ pc' = [pc EXCEPT ![t] = to]
  BY DEF Goes
<1>2. /\ owner[t] /\ state[t] = "READY"
      /\ count \in [Sem -> Nat] /\ state \in [Thread -> State] /\ err \in [Thread -> Err]
      /\ lc \in [Thread -> Sem \cup {NoSem}] /\ box \in Seq(Sender) /\ Len(box) \in Nat
      /\ pc \in [Thread -> Places]
  BY <1>1, EntryKnown
<1>3. /\ IInv' /\ EntriesOwned' /\ Len(stack') = Len(stack)
      /\ state' = [state EXCEPT ![t] = "PENDING"] /\ err' = [err EXCEPT ![t] = "EOK"]
      /\ lc' = [lc EXCEPT ![t] = q] /\ UNCHANGED <<owner, count>>
  BY <1>1, BlockSeen DEF Machine
<1>4. Machine'
  BY <1>3 DEF Machine
<1>5. ProgramTypes' /\ WaitPlaces' /\ NoBug'
  BY <1>1, <1>2, <1>3, Constants DEF Books, ProgramTypes, WaitPlaces, NoBug
<1>6. ~InHand => ~InHand'
  BY <1>1, <1>2, <1>3, Constants DEF InHand, Got
<1>7. InHand => InHand'
  BY <1>1, <1>2, <1>3, Constants DEF InHand, Got
<1>8. Filling' = Filling /\ StoppedSenders' = StoppedSenders
  BY <1>1, <1>2, <1>3, Constants DEF Filling, Got, StoppedSenders
<1>9. MessagesKept' /\ SlotsKept'
  BY <1>3, <1>6, <1>7, <1>8 DEF Books, MessagesKept, SlotsKept, Slots
<1> QED BY <1>4, <1>5, <1>9 DEF Books
\* A message is announced to a receiver that waits, and handed to it, or counted.
LEMMA SenderSends ==
    ASSUME Machine, Books, NEW t \in Sender, Goes(t, "put", "delay"), Got(t),
           SemGive(SemRead, 1), box' = Append(box, t), UNCHANGED rx
    PROVE  Machine' /\ Books'
<1>1. InEntry(t) /\ pc[t] = "put" /\ pc' = [pc EXCEPT ![t] = "delay"]
  BY DEF Goes
<1>2. /\ owner[t] /\ state[t] = "READY" /\ err[t] = "EOK"
      /\ count \in [Sem -> Nat] /\ state \in [Thread -> State] /\ err \in [Thread -> Err]
      /\ box \in Seq(Sender) /\ Len(box) \in Nat
      /\ pc \in [Thread -> Places] /\ t \in Thread /\ t # Receiver
  BY <1>1, EntryKnown, Constants DEF Got
<1>3. /\ IInv' /\ EntriesOwned' /\ UNCHANGED <<owner, lc, stack>>
      /\ \/ count' = [count EXCEPT ![SemRead] = @ + 1] /\ UNCHANGED <<state, err>>
         \/ \E u \in Thread : /\ state[u] = "PENDING" /\ lc[u] = SemRead
                              /\ state' = [state EXCEPT ![u] = "READY"]
                              /\ err' = [err EXCEPT ![u] = "EOK"]
                              /\ count' = count
  BY GiveSeen, Constants DEF Machine
<1>4. \/ count' = [count EXCEPT ![SemRead] = @ + 1] /\ UNCHANGED <<state, err>>
      \/ /\ pc[Receiver] = "get" /\ state[Receiver] = "PENDING"
         /\ state' = [state EXCEPT ![Receiver] = "READY"]
         /\ err' = [err EXCEPT ![Receiver] = "EOK"]
         /\ count' = count
  BY <1>3 DEF Books, WaitPlaces
<1>5. Machine'
  BY <1>3 DEF Machine
<1>6. Len(box') = Len(box) + 1 /\ box' \in Seq(Sender)
  BY <1>2
<1>7. ProgramTypes' /\ WaitPlaces' /\ NoBug'
  BY <1>1, <1>2, <1>3, <1>4, <1>6, Constants DEF Books, ProgramTypes, WaitPlaces, NoBug, Places
<1>8. MessagesKept'
  <2>1. CASE count' = [count EXCEPT ![SemRead] = @ + 1] /\ UNCHANGED <<state, err>>
    <3>1. count'[SemRead] = count[SemRead] + 1 /\ count[SemRead] \in Nat /\ (InHand' <=> InHand)
      BY <2>1, <1>1, <1>2, Constants DEF InHand, Got
    <3> QED BY <3>1, <1>2, <1>3, <1>6 DEF Books, MessagesKept
  <2>2. CASE /\ pc[Receiver] = "get" /\ state[Receiver] = "PENDING"
             /\ state' = [state EXCEPT ![Receiver] = "READY"]
             /\ err' = [err EXCEPT ![Receiver] = "EOK"]
             /\ count' = count
    <3>1. ~InHand /\ InHand' /\ count[SemRead] \in Nat
      BY <2>2, <1>1, <1>2, Constants DEF InHand, Got
    <3> QED BY <2>2, <3>1, <1>2, <1>3, <1>6 DEF Books, MessagesKept
  <2> QED BY <1>4, <2>1, <2>2
<1>9. SlotsKept'
  <2>1. t \in Filling /\ Filling' = Filling \ {t} /\ StoppedSenders' = StoppedSenders
    BY <1>1, <1>2, <1>4, Constants DEF Filling, Got, StoppedSenders
  <2>2. Cardinality(Filling') = Cardinality(Filling) - 1 /\ Cardinality(Filling) \in Nat
    BY <2>1, Sizes
  <2>3. count'[SemEmpty] = count[SemEmpty] /\ count[SemEmpty] \in Nat
    BY <1>2, <1>4, Constants
  <2>4. Slots' = Slots
    BY ONLY <1>2, <1>6, <2>2, <2>3, SlotsSum
  <2> QED BY <1>3, <2>1, <2>4 DEF Books, SlotsKept
<1> QED BY <1>5, <1>7, <1>8, <1>9 DEF Books

\* A thread whose wait was in vain goes on.
LEMMA GoesOn ==
    ASSUME Machine, Books, NEW t \in Thread, NEW from, NEW to, Goes(t, from, to),
           to \in Places \ {"get", "put"}, t \in Sender => to \in {"take", "delay"},
           from \in {"get", "put"} => ~Got(t),
           UNCHANGED <<vars, box>>, NoBug'
    PROVE  Machine' /\ Books'
<1>1. InEntry(t) /\ pc[t] = from /\ pc' = [pc EXCEPT ![t] = to]
  BY DEF Goes
<1>2. UNCHANGED <<count, state, owner, err, lc, stack>>
  BY DEF vars
<1>3. pc \in [Thread -> Places] /\ state[t] = "READY"
  BY <1>1, EntryKnown
<1>4. Machine'
  BY MachineSame
<1>5. ProgramTypes' /\ WaitPlaces'
  BY <1>1, <1>2, <1>3, Constants DEF Books, ProgramTypes, WaitPlaces
<1>6. (InHand' <=> InHand) /\ Filling' = Filling /\ StoppedSenders' = StoppedSenders
  BY <1>1, <1>2, <1>3, Constants DEF InHand, Got, Filling, StoppedSenders
<1>7. MessagesKept' /\ SlotsKept'
  BY <1>2, <1>6 DEF Books, MessagesKept, SlotsKept, Slots
<1> QED BY <1>4, <1>5, <1>7 DEF Books

LEMMA SenderSteps ==
    ASSUME Machine, Books, NEW t \in Sender, SenderEntry(t)
    PROVE  Machine' /\ Books'
<1>0. t \in Thread /\ t # Receiver /\ Places \cap {"put", "delay", "take"} = {"put", "delay", "take"}
  BY Constants DEF Places
<1>1. CASE Goes(t, "take", "put") /\ TakeNow(t, SemEmpty) /\ UNCHANGED <<box, rx>>
  BY <1>1, SenderTakesNow
<1>2. ASSUME Goes(t, "take", "put"), NEW tick \in Ticks, TakeBlock(t, SemEmpty, tick),
             UNCHANGED <<box, rx>>
      PROVE  Machine' /\ Books'
  <2>1. PICK timed \in BOOLEAN : Block(t, SemEmpty, timed)
    BY <1>2 DEF TakeBlock
  <2>2. SemEmpty \in Sem \cup {NoSem} /\ SemEmpty # SemRead /\ count[SemEmpty] = 0
    BY <1>2, Constants DEF TakeBlock, HasToken, Machine, IInv, TypeOK
  <2> QED BY <1>0, <1>2, <2>1, <2>2, Blocks
<1>3. CASE Goes(t, "put", "delay") /\ Got(t) /\ Announces(SemRead) /\ box' = Append(box, t) /\ UNCHANGED rx
  BY <1>3, SenderSends DEF Announces
<1>4. CASE Goes(t, "put", "delay") /\ ~Got(t) /\ UNCHANGED <<vars, box>> /\ UNCHANGED rx
  BY <1>0, <1>4, GoesOn DEF Books, NoBug
<1>5. CASE Goes(t, "delay", "take") /\ Delay(t, 0) /\ UNCHANGED <<box, rx>>
  <2>1. PICK timed \in BOOLEAN : Block(t, NoSem, timed)
    BY <1>5 DEF Delay
  <2>2. NoSem \notin Sem
    BY CoreAssumption DEF CoreAssumption
  <2> QED BY <1>0, <1>5, <2>1, <2>2, Blocks, Constants
<1> QED BY <1>1, <1>2, <1>3, <1>4, <1>5 DEF SenderEntry
LEMMA AsksSteps ==
    ASSUME Machine, Books, Asks(Receiver)
    PROVE  Machine' /\ Books'
<1>1. /\ Goes(Receiver, "take", "get") /\ UNCHANGED <<box, rx>>
      /\ TakeNow(Receiver, SemRead) \/ TakeBlock(Receiver, SemRead, Limit)
  BY DEF Asks
<1>2. InEntry(Receiver) /\ pc[Receiver] = "take" /\ pc' = [pc EXCEPT ![Receiver] = "get"]
  BY <1>1 DEF Goes
<1>3. "get" \in Places /\ "get" \notin {"take", "put", "delay"}
  BY DEF Places
<1>4. CASE TakeNow(Receiver, SemRead)
  <2>1. /\ count[SemRead] > 0 /\ count' = [count EXCEPT ![SemRead] = @ - 1]
        /\ err' = [err EXCEPT ![Receiver] = "EOK"] /\ lc' = [lc EXCEPT ![Receiver] = SemRead]
        /\ UNCHANGED <<state, owner, stack>>
    BY <1>4 DEF TakeNow, HasToken
  <2>2. /\ owner[Receiver] /\ state[Receiver] = "READY"
        /\ count \in [Sem -> Nat] /\ state \in [Thread -> State] /\ err \in [Thread -> Err]
        /\ lc \in [Thread -> Sem \cup {NoSem}] /\ box \in Seq(Sender) /\ Len(box) \in Nat
        /\ pc \in [Thread -> Places]
    BY <1>2, EntryKnown, Constants
  <2>3. Machine'
    BY <1>4, <2>1, Constants, TakeNowInv DEF Machine, EntriesOwned
  <2>4. ProgramTypes' /\ WaitPlaces' /\ NoBug'
    BY <1>1, <1>2, <1>3, <2>1, <2>2, Constants DEF Books, ProgramTypes, WaitPlaces, NoBug
  <2>5. MessagesKept'
    <3>1. ~InHand /\ InHand' /\ count'[SemRead] = count[SemRead] - 1 /\ count[SemRead] \in Nat
      BY <1>2, <2>1, <2>2, Constants DEF InHand, Got
    <3> QED BY <3>1, <1>1, <2>1, <2>2 DEF Books, MessagesKept
  <2>6. Filling' = Filling /\ StoppedSenders' = StoppedSenders
    BY <1>2, <2>1, <2>2, Constants DEF Filling, Got, StoppedSenders
  <2>7. count'[SemEmpty] = count[SemEmpty]
    BY <2>1, <2>2, Constants
  <2>8. SlotsKept'
    BY <1>1, <2>1, <2>6, <2>7 DEF Books, SlotsKept, Slots
  <2> QED BY <2>3, <2>4, <2>5, <2>8 DEF Books
<1>5. CASE TakeBlock(Receiver, SemRead, Limit)
  <2>1. PICK timed \in BOOLEAN : Block(Receiver, SemRead, timed)
    BY <1>5 DEF TakeBlock
  <2>2. SemRead \in Sem \cup {NoSem} /\ SemEmpty # SemRead /\ count[SemRead] = 0
    BY <1>5, Constants DEF TakeBlock, HasToken, Machine, IInv, TypeOK
  <2> QED BY <1>1, <1>3, <2>1, <2>2, Blocks, Constants
<1> QED BY <1>1, <1>4, <1>5

\* A receive that ends with EOK has a message.
LEMMA MessageThere ==
    ASSUME Machine, Books, NEW to, Goes(Receiver, "get", to), Got(Receiver)
    PROVE  InHand /\ box # <<>> /\ Len(box) = count[SemRead] + 1
<1>1. InEntry(Receiver) /\ pc[Receiver] = "get"
  BY DEF Goes
<1>2. /\ owner[Receiver] /\ state[Receiver] = "READY" /\ count \in [Sem -> Nat]
      /\ box \in Seq(Sender)
  BY <1>1, EntryKnown, Constants
<1>3. InHand
  BY <1>1, <1>2 DEF InHand
<1>4. Len(box) = count[SemRead] + 1 /\ count[SemRead] \in Nat
  BY <1>2, <1>3, Constants DEF Books, MessagesKept
<1> QED BY <1>2, <1>3, <1>4

LEMMA ReceivesSteps ==
    ASSUME Machine, Books, NEW to \in {"take", "count"}, Receives(Receiver, to)
    PROVE  Machine' /\ Books'
<1>1. Goes(Receiver, "get", to) /\ to \in Places /\ to \notin {"get", "put"}
  BY DEF Receives, Places
<1>2. CASE ~Got(Receiver)
  <2>1. rx' = "none" /\ UNCHANGED <<vars, box>>
    BY <1>2 DEF Receives
  <2> QED BY <1>1, <1>2, <2>1, GoesOn, Constants DEF NoBug
<1>3. CASE Got(Receiver)
  <2>1. InHand /\ box # <<>> /\ Len(box) = count[SemRead] + 1
    BY <1>1, <1>3, MessageThere
  <2>2. rx' = "message" /\ box' = Tail(box) /\ SemGive(SemEmpty, 1)
    BY <1>3, <2>1 DEF Receives, Announces
  <2>3. InEntry(Receiver) /\ pc[Receiver] = "get" /\ pc' = [pc EXCEPT ![Receiver] = to]
    BY <1>1 DEF Goes
  <2>4. /\ owner[Receiver] /\ state[Receiver] = "READY"
        /\ count \in [Sem -> Nat] /\ state \in [Thread -> State] /\ err \in [Thread -> Err]
        /\ box \in Seq(Sender) /\ Len(box) \in Nat /\ pc \in [Thread -> Places]
    BY <2>3, EntryKnown, Constants
  <2>5. Len(box') = Len(box) - 1 /\ box' \in Seq(Sender)
    BY <2>1, <2>2, <2>4
  <2>6. /\ IInv' /\ EntriesOwned' /\ UNCHANGED <<owner, lc, stack>>
        /\ \/ count' = [count EXCEPT ![SemEmpty] = @ + 1] /\ UNCHANGED <<state, err>>
           \/ \E u \in Thread : /\ state[u] = "PENDING" /\ lc[u] = SemEmpty
                                /\ state' = [state EXCEPT ![u] = "READY"]
                                /\ err' = [err EXCEPT ![u] = "EOK"]
                                /\ count' = count
    BY <2>2, GiveSeen, Constants DEF Machine
  <2>7. \/ count' = [count EXCEPT ![SemEmpty] = @ + 1] /\ UNCHANGED <<state, err>>
        \/ \E u \in Sender : /\ state[u] = "PENDING" /\ pc[u] = "put"
                             /\ state' = [state EXCEPT ![u] = "READY"]
                             /\ err' = [err EXCEPT ![u] = "EOK"]
                             /\ count' = count
    BY <2>6 DEF Books, WaitPlaces
  <2>8. Machine'
    BY <2>6 DEF Machine
  <2>9. ProgramTypes' /\ WaitPlaces' /\ NoBug'
    BY <1>1, <2>2, <2>3, <2>4, <2>5, <2>6, <2>7, Constants
       DEF Books, ProgramTypes, WaitPlaces, NoBug
  <2>10. MessagesKept'
    <3>1. ~InHand' /\ count'[SemRead] = count[SemRead] /\ count[SemRead] \in Nat
      BY <1>1, <2>3, <2>4, <2>7, Constants DEF InHand
    <3> QED BY <3>1, <2>1, <2>4, <2>5 DEF Books, MessagesKept
  <2>11. Slots' = Slots /\ StoppedSenders' = StoppedSenders
    <3>1. CASE count' = [count EXCEPT ![SemEmpty] = @ + 1] /\ UNCHANGED <<state, err>>
      <4>1. Filling' = Filling /\ StoppedSenders' = StoppedSenders
        BY <3>1, <2>3, <2>4, Constants DEF Filling, Got, StoppedSenders
      <4>2. count'[SemEmpty] = count[SemEmpty] + 1 /\ count[SemEmpty] \in Nat
        BY <3>1, <2>4, Constants
      <4>3. Cardinality(Filling') = Cardinality(Filling) /\ Cardinality(Filling) \in Nat
        BY <4>1, Sizes
      <4> QED BY ONLY <4>1, <4>2, <4>3, <2>4, <2>5, SlotsSum
    <3>2. ASSUME NEW u \in Sender, state[u] = "PENDING", pc[u] = "put",
                 state' = [state EXCEPT ![u] = "READY"], err' = [err EXCEPT ![u] = "EOK"],
                 count' = count
          PROVE  Slots' = Slots /\ StoppedSenders' = StoppedSenders
      <4>1. u \notin Filling /\ Filling' = Filling \cup {u} /\ StoppedSenders' = StoppedSenders
        BY <3>2, <2>3, <2>4, Constants DEF Filling, Got, StoppedSenders
      <4>2. Cardinality(Filling') = Cardinality(Filling) + 1 /\ Cardinality(Filling) \in Nat
        BY <4>1, Sizes
      <4>3. count'[SemEmpty] = count[SemEmpty] /\ count[SemEmpty] \in Nat
        BY <3>2, <2>4, Constants
      <4> QED BY ONLY <4>1, <4>2, <4>3, <2>4, <2>5, SlotsSum
    <3> QED BY <2>7, <3>1, <3>2
  <2>12. SlotsKept'
    BY <2>6, <2>11 DEF Books, SlotsKept
  <2> QED BY <2>8, <2>9, <2>10, <2>12 DEF Books
<1> QED BY <1>2, <1>3

-----------------------------------------------------------------------------
(***************************************************************************)
(* The steps of the loop.                                                  *)
(***************************************************************************)
LEMMA TimeoutSteps ==
    ASSUME Machine, Books, NEW t \in Thread, Timeout(t), UNCHANGED program
    PROVE  Machine' /\ Books'
<1>1. /\ IInv' /\ EntriesOwned' /\ state[t] = "PENDING"
      /\ state' = [state EXCEPT ![t] = "READY"] /\ err' = [err EXCEPT ![t] = "ETIMEOUT"]
      /\ UNCHANGED <<count, owner, lc, stack>>
  BY TimeoutSeen DEF Machine
<1>2. UNCHANGED <<pc, box, rx>>
  BY DEF program
<1>3. state \in [Thread -> State] /\ err \in [Thread -> Err]
  BY DEF Machine, IInv, TypeOK
<1>4. Machine'
  BY <1>1 DEF Machine
<1>5. ProgramTypes' /\ WaitPlaces' /\ NoBug'
  BY <1>1, <1>2, <1>3 DEF Books, ProgramTypes, WaitPlaces, NoBug
<1>6. (InHand' <=> InHand) /\ Filling' = Filling /\ StoppedSenders' = StoppedSenders
  BY <1>1, <1>2, <1>3, Constants DEF InHand, Got, Filling, StoppedSenders
<1>7. MessagesKept' /\ SlotsKept'
  BY <1>1, <1>2, <1>6 DEF Books, MessagesKept, SlotsKept, Slots
<1> QED BY <1>4, <1>5, <1>7 DEF Books

\* The timer that stops everything finds no entry executing.
LEMMA DestroySteps ==
    ASSUME Machine, Books, InPhase("callback"), LoopDestroy, UNCHANGED program
    PROVE  Machine' /\ Books' /\ \A t \in Thread : ~owner'[t]
<1>1. stack \in Seq(Frame) /\ stack # <<>> /\ Top.phase = "callback"
  BY DEF Machine, IInv, TypeOK, InPhase
<1>2. \A k \in DOMAIN stack : stack[k] = Top
  BY <1>1 DEF Machine, Top
<1>2a. AtMostOne(armed \cap Timer)
  BY Constants DEF AtMostOne
<1>3. IInv' /\ EntriesOwned' /\ UNCHANGED <<count, err, lc, stack>>
  BY <1>1, <1>2, <1>2a, StopSeen DEF Machine
<1>4. /\ owner' = [t \in Thread |-> FALSE]
      /\ state' = [t \in Thread |-> IF owner[t] THEN "DEAD" ELSE state[t]]
  BY DEF LoopDestroy
<1>5. UNCHANGED <<pc, box, rx>>
  BY DEF program
<1>6. Machine'
  BY <1>3 DEF Machine
<1>7. \A t \in Thread : state'[t] # "PENDING" /\ (state'[t] = "INIT" => state[t] = "INIT")
  BY <1>4 DEF Machine, IInv, ListsOK, Placement
<1>8. ProgramTypes' /\ WaitPlaces' /\ NoBug'
  BY <1>5, <1>7, Constants DEF Books, ProgramTypes, WaitPlaces, NoBug
<1>9. MessagesKept' /\ SlotsKept'
  BY <1>4, Constants DEF MessagesKept, SlotsKept
<1> QED BY <1>4, <1>6, <1>8, <1>9 DEF Books

LEMMA PollSteps ==
    ASSUME Machine, Books, UNCHANGED program,
           \/ stack = <<>> /\ Poll
           \/ CallbackReturn \/ TickDone \/ Dispatch \/ PollReturn \/ Expire(StopTimer)
    PROVE  Machine' /\ Books'
<1>1. /\ IInv' /\ EntriesOwned' /\ UNCHANGED <<waitq, count, state, owner, err, lc>>
      /\ \/ Poll /\ Len(stack') = Len(stack) + 1
         \/ PollReturn /\ Len(stack') = Len(stack) - 1
         \/ Len(stack') = Len(stack)
  BY PollSeen, Constants DEF Machine
<1>2. Books'
  BY <1>1, BooksSame DEF program
<1>3. Len(stack) \in Nat /\ (stack = <<>> => Len(stack) = 0) /\ stack \in Seq(Frame)
  BY DEF Machine, IInv, TypeOK
<1>4. CASE stack = <<>> \/ ~Poll
  BY <1>1, <1>2, <1>3, <1>4 DEF Machine
<1>5. CASE stack # <<>> /\ Poll
  <2>1. CallbackReturn
    BY <1>5 DEF Poll, UserRuns, TickDone, Dispatch, PollReturn, Expire, InPhase
  <2>2. Len(stack') = Len(stack)
    BY <1>3, <2>1, StackSizes DEF CallbackReturn
  <2> QED BY <1>1, <1>2, <2>2 DEF Machine
<1> QED BY <1>4, <1>5
LEMMA LoopKeepsBooks ==
    ASSUME Machine, Books, LoopSteps, UNCHANGED program
    PROVE  Machine' /\ Books'
<1>1. CASE Fires \/ MainPolls \/ TickDone \/ Dispatch \/ PollReturn
  BY <1>1, TimeoutSteps, PollSteps DEF Fires, MainPolls
<1>2. CASE StopsAll
  BY <1>2, DestroySteps, PollSteps DEF StopsAll
<1> QED BY <1>1, <1>2 DEF LoopSteps

\* The books when main enters its loop.
LEMMA BooksOpen ==
    ASSUME pending = {}, clip = <<>>, running \in Seq(Thread), IsInjective(running),
           waitq = [s \in Sem |-> <<>>],
           count = [s \in Sem |-> IF s = SemEmpty THEN MaxMsgs ELSE 0],
           state \in [Thread -> {"INIT", "READY"}], owner = [t \in Thread |-> state[t] = "READY"],
           Range(running) = {t \in Thread : state[t] = "READY"},
           err = [t \in Thread |-> "EOK"], lc = [t \in Thread |-> NoSem],
           ref = [t \in Thread |-> 0],
           armed = {StopTimer}, stale = {}, current = NoThread, stack = <<>>, fault = "none",
           pc \in [Thread -> Places], \A t \in Sender : pc[t] = "take",
           pc[Receiver] \notin {"get", "put"}, box = <<>>, rx = "none"
    PROVE  Machine /\ Books
<1>1. Range(<<>>) = {} /\ IsInjective(<<>>) /\ <<>> \in Seq(Thread) /\ <<>> \in Seq(Sender)
  BY EmptyLemma
<1>2. TypeOK
  BY <1>1, Constants, CoreAssumption DEF TypeOK, State, Err, CoreAssumption
<1>3. ListsOK
  BY <1>1, Constants DEF ListsOK, Placement, WaitersBlocked, ArmedIsBlocked
<1>4. NoReentrance /\ ExecutingNotBlocked /\ NoLostWakeup /\ NoFault /\ EntriesOwned
  BY DEF NoReentrance, Activations, ExecutingNotBlocked, NoLostWakeup, NoFault, EntriesOwned
<1>5. Machine
  BY <1>2, <1>3, <1>4 DEF Machine, IInv
<1>6. ProgramTypes /\ WaitPlaces /\ NoBug
  BY <1>1, Constants DEF ProgramTypes, WaitPlaces, NoBug
<1>7. ~InHand /\ Filling = {} /\ StoppedSenders = {}
  BY Constants DEF InHand, Filling, StoppedSenders
<1>8. Len(box) = 0 /\ count[SemRead] = 0 /\ count[SemEmpty] = MaxMsgs
  BY Constants
<1>9. Cardinality({}) = 0
  BY FS_EmptySet
<1>10. Slots = MaxMsgs
  BY <1>7, <1>8, <1>9, Constants DEF Slots
<1>11. MessagesKept /\ SlotsKept
  BY <1>7, <1>8, <1>9, <1>10, Constants DEF MessagesKept, SlotsKept
<1> QED BY <1>5, <1>6, <1>11 DEF Books

-----------------------------------------------------------------------------
(***************************************************************************)
(* The programs of ExampleMessages.                                        *)
(***************************************************************************)
LEMMA ExampleOpens == ASSUME ExInit PROVE Machine /\ Books
<1>1. /\ Started \in Seq(Thread) /\ Thread = Range(Started) /\ IsInjective(Started)
  BY ExampleMessagesAssumption DEF ExampleMessagesAssumption
<1>2. state \in [Thread -> {"INIT", "READY"}] /\ owner = [t \in Thread |-> state[t] = "READY"]
      /\ Range(running) = {t \in Thread : state[t] = "READY"}
  BY <1>1 DEF ExInit
<1>3. pc \in [Thread -> Places] /\ \A t \in Thread : pc[t] = "take"
  BY DEF ExInit, Places
<1> QED BY <1>1, <1>2, <1>3, Constants, BooksOpen DEF ExInit

LEMMA ExampleKeepsBooks ==
    ASSUME Machine, Books, [ExNext]_exVars
    PROVE  Machine' /\ Books'
<1>1. ASSUME NEW t \in Sender, SenderEntry(t) PROVE Machine' /\ Books'
  BY <1>1, SenderSteps
<1>2. CASE ReceiverEntry(Receiver)
  BY <1>2, AsksSteps, ReceivesSteps DEF ReceiverEntry
<1>3. CASE LoopSteps /\ UNCHANGED program
  BY <1>3, LoopKeepsBooks
<1>4. CASE UNCHANGED exVars
  BY <1>4, MachineSame, BooksSame DEF exVars, vars, program
<1> QED BY <1>1, <1>2, <1>3, <1>4 DEF ExNext

\* The books of messages and slots balance in every state of the examples: the inductive
\* invariant of the programs.
THEOREM ExampleBalances == ExSpec => [](Machine /\ Books)
<1>1. ExInit => Machine /\ Books
  BY ExampleOpens
<1>2. Machine /\ Books /\ [ExNext]_exVars => (Machine /\ Books)'
  BY ExampleKeepsBooks
<1> QED
  BY <1>1, <1>2, PTL DEF ExSpec

\* The examples never make the library follow a NULL p_owner or fail an assert, although
\* they assume no rule of use: whatever the order of sends, receives, limits and delays.
THEOREM ExampleNeverFaults == ExSpec => []NoFault
<1>1. Machine /\ Books => NoFault
  BY DEF Machine, IInv
<1> QED
  BY <1>1, ExampleBalances, PTL

\* The line `BUG! invalid message queue size' of example2 is never printed: a receive that
\* ends with EOK finds a message, although its limit races with the senders.
THEOREM ExampleNeverPrintsBug == ExSpec => []NoBug
<1>1. Machine /\ Books => NoBug
  BY DEF Books
<1> QED
  BY <1>1, ExampleBalances, PTL
-----------------------------------------------------------------------------
\* In the examples every thread stays in the loop until it is destroyed, and the receiver
\* waits for nothing but messages.
AllInLoop ==
    /\ \A t \in Thread : state[t] # "INIT"
    /\ \A t, u \in Thread : owner[t] = owner[u]
    /\ state[Receiver] = "PENDING" => lc[Receiver] = SemRead

LEMMA SenderKeepsAll ==
    ASSUME Machine, Books, AllInLoop, NEW t \in Sender, SenderEntry(t)
    PROVE  AllInLoop' /\ owner' = owner
<1>0. /\ state \in [Thread -> State] /\ lc \in [Thread -> Sem \cup {NoSem}]
      /\ t \in Thread /\ t # Receiver /\ Receiver \in Thread
  BY Constants DEF Machine, IInv, TypeOK
<1> SUFFICES /\ owner' = owner
             /\ \A u \in Thread : state'[u] = "INIT" => state[u] = "INIT"
             /\ state'[Receiver] = "PENDING" =>
                   state[Receiver] = "PENDING" /\ lc'[Receiver] = lc[Receiver]
  BY DEF AllInLoop
<1>1. CASE TakeNow(t, SemEmpty) \/ UNCHANGED vars
  BY <1>0, <1>1 DEF TakeNow, vars
<1>2. ASSUME NEW q \in {SemEmpty, NoSem}, NEW timed \in BOOLEAN, InEntry(t), Block(t, q, timed),
             q = SemEmpty => count[q] = 0
      PROVE  /\ owner' = owner
             /\ \A u \in Thread : state'[u] = "INIT" => state[u] = "INIT"
             /\ state'[Receiver] = "PENDING" =>
                   state[Receiver] = "PENDING" /\ lc'[Receiver] = lc[Receiver]
  <2>1. q \in Sem \cup {NoSem} /\ (q \in Sem => count[q] = 0)
    BY <1>2, Constants, CoreAssumption DEF CoreAssumption
  <2>2. /\ state' = [state EXCEPT ![t] = "PENDING"] /\ lc' = [lc EXCEPT ![t] = q]
        /\ owner' = owner
    BY <1>0, <1>2, <2>1, BlockSeen DEF Machine
  <2> QED BY <1>0, <2>2
<1>3. CASE SemGive(SemRead, 1)
  <2>1. /\ UNCHANGED <<owner, lc>>
        /\ \/ UNCHANGED state
           \/ \E u \in Thread : state' = [state EXCEPT ![u] = "READY"]
    BY <1>3, GiveSeen, Constants DEF Machine
  <2> QED BY <1>0, <2>1
<1>4. ASSUME NEW tick \in Ticks, TakeBlock(t, SemEmpty, tick)
      PROVE  \E timed \in BOOLEAN : InEntry(t) /\ Block(t, SemEmpty, timed) /\ count[SemEmpty] = 0
  <2>1. count[SemEmpty] = 0
    BY <1>4, Constants DEF TakeBlock, HasToken, Machine, IInv, TypeOK
  <2>2. InEntry(t) /\ Block(t, SemEmpty, tick # -1) /\ (tick # -1) \in BOOLEAN
    BY <1>4 DEF TakeBlock
  <2> QED BY <2>1, <2>2
<1>5. Delay(t, 0) => \E timed \in BOOLEAN : InEntry(t) /\ Block(t, NoSem, timed)
  BY DEF Delay
<1>6. NoSem # SemEmpty
  BY Constants
<1> QED BY <1>1, <1>2, <1>3, <1>4, <1>5, <1>6 DEF SenderEntry, Announces

LEMMA ReceiverKeepsAll ==
    ASSUME Machine, Books, AllInLoop, ReceiverEntry(Receiver)
    PROVE  AllInLoop' /\ owner' = owner
<1>0. /\ state \in [Thread -> State] /\ lc \in [Thread -> Sem \cup {NoSem}]
      /\ Receiver \in Thread
  BY Constants DEF Machine, IInv, TypeOK
<1>1. CASE TakeNow(Receiver, SemRead)
  <2>1. UNCHANGED <<owner, state>> /\ lc' = [lc EXCEPT ![Receiver] = SemRead]
    BY <1>1 DEF TakeNow
  <2> QED BY <1>0, <2>1 DEF AllInLoop
<1>2. CASE TakeBlock(Receiver, SemRead, Limit)
  <2>1. PICK timed \in BOOLEAN : InEntry(Receiver) /\ Block(Receiver, SemRead, timed)
    BY <1>2 DEF TakeBlock
  <2>2. SemRead \in Sem \cup {NoSem} /\ count[SemRead] = 0
    BY <1>2, Constants DEF TakeBlock, HasToken, Machine, IInv, TypeOK
  <2>3. /\ state' = [state EXCEPT ![Receiver] = "PENDING"] /\ lc' = [lc EXCEPT ![Receiver] = SemRead]
        /\ owner' = owner
    BY <1>0, <2>1, <2>2, BlockSeen DEF Machine
  <2> QED BY <1>0, <2>3 DEF AllInLoop
<1>3. CASE UNCHANGED vars
  BY <1>3 DEF AllInLoop, vars
<1>4. CASE SemGive(SemEmpty, 1)
  <2>1. /\ UNCHANGED <<owner, lc>>
        /\ \/ UNCHANGED state
           \/ \E u \in Thread : state' = [state EXCEPT ![u] = "READY"]
    BY <1>4, GiveSeen, Constants DEF Machine
  <2> QED BY <1>0, <2>1 DEF AllInLoop
<1> QED BY <1>1, <1>2, <1>3, <1>4 DEF ReceiverEntry, Asks, Receives, Announces

LEMMA LoopKeepsAll ==
    ASSUME Machine, Books, AllInLoop, LoopSteps
    PROVE  AllInLoop'
<1>1. state \in [Thread -> State] /\ lc \in [Thread -> Sem \cup {NoSem}] /\ Receiver \in Thread
  BY Constants DEF Machine, IInv, TypeOK
<1>2. ASSUME NEW t \in Thread, Timeout(t) PROVE AllInLoop'
  BY <1>1, <1>2, TimeoutSeen DEF Machine, AllInLoop
<1>3. CASE LoopDestroy
  BY <1>1, <1>3 DEF LoopDestroy, AllInLoop
<1>4. CASE Poll \/ CallbackReturn \/ TickDone \/ Dispatch \/ PollReturn \/ Expire(StopTimer)
  BY <1>4, PollSeen, Constants DEF Machine, AllInLoop
<1> QED BY <1>2, <1>3, <1>4 DEF LoopSteps, Fires, StopsAll, MainPolls

\* In the examples nothing but the destruction of the loop takes a thread out of it.
THEOREM ExampleStaysTogether == ExSpec => [](Machine /\ Books /\ AllInLoop)
<1>1. ExInit => Machine /\ Books /\ AllInLoop
  BY ExampleOpens, Constants DEF ExInit, AllInLoop
<1>2. ASSUME Machine, Books, AllInLoop, [ExNext]_exVars PROVE AllInLoop'
  <2>1. CASE UNCHANGED exVars
    BY <1>2, <2>1 DEF exVars, vars, AllInLoop
  <2> QED BY <1>2, <2>1, SenderKeepsAll, ReceiverKeepsAll, LoopKeepsAll DEF ExNext
<1>3. Machine /\ Books /\ AllInLoop /\ [ExNext]_exVars => (Machine /\ Books /\ AllInLoop)'
  BY <1>2, ExampleKeepsBooks
<1> QED
  BY <1>1, <1>3, PTL DEF ExSpec

LEMMA EmptyWhenWaiting ==
    ASSUME Machine, Books, AllInLoop, state[Receiver] = "PENDING"
    PROVE  box = <<>>
<1>1. owner[Receiver] /\ lc[Receiver] = SemRead
  BY Constants DEF AllInLoop, Machine, IInv, ListsOK, Placement
<1>2. waitq[SemRead] # <<>>
  <2>1. Receiver \in Range(waitq[SemRead]) /\ Range(<<>>) = {}
    BY <1>1, Constants, EmptyLemma DEF Machine, IInv, ListsOK, WaitersBlocked
  <2> QED BY <2>1
<1>3. count[SemRead] = 0
  BY <1>2, Constants DEF Machine, IInv, NoLostWakeup, TypeOK
<1>4. ~InHand
  BY DEF InHand
<1>5. box \in Seq(Sender) /\ Len(box) = 0
  BY <1>1, <1>3, <1>4 DEF Books, ProgramTypes, MessagesKept
<1> QED BY <1>5

\* A receiver that waits is not in vain: there is no message, even when its limit ends its
\* wait again and again.
THEOREM ExampleWaitsForNothing == ExSpec => []NoneWaitsInVain
<1>1. Machine /\ Books /\ AllInLoop => NoneWaitsInVain
  BY EmptyWhenWaiting DEF NoneWaitsInVain
<1> QED
  BY <1>1, ExampleStaysTogether, PTL

-----------------------------------------------------------------------------
(***************************************************************************)
(* No sender waits for a slot.  A sender that has sent delays, and a delay *)
(* ends in a tick, when the receiver is in the clip if there are messages: *)
(* so the receiver runs before the sender does, and takes them all.        *)
(***************************************************************************)
ClipInPoll == stack = <<>> => clip = <<>>

NoSlotAwaited == waitq[SemEmpty] = <<>>

\* No sender has two messages in the queue, or a message and a slot.
OneEach ==
    /\ IsInjective(box)
    /\ owner[Receiver] => \A t \in Range(box) : pc[t] # "put"

\* A sender whose message has not been received may be ready to send again, but the
\* receiver comes first.
ReceiverFirst ==
    owner[Receiver] =>
        \A t \in Range(box) : state[t] = "READY" /\ pc[t] = "take" =>
            /\ t \in Range(running) /\ ~InEntry(t)
            /\ Receiver \in Range(clip) \/ InEntry(Receiver)

ReceiverInClip ==
    owner[Receiver] /\ box # <<>> /\ (InPhase("tick") \/ InPhase("callback"))
        => Receiver \in Range(clip)

Turns == ClipInPoll /\ NoSlotAwaited /\ OneEach /\ ReceiverFirst /\ ReceiverInClip

Together == Machine /\ Books /\ AllInLoop /\ Turns

LEMMA TopAfter ==
    ASSUME stack \in Seq(Frame), stack # <<>>, NEW p \in Phase, NEW t \in MaybeThread,
           NEW o \in MaybeThread, stack' = At(p, t, o)
    PROVE  stack' # <<>> /\ Top'.phase = p /\ Top'.thread = t
<1>1. /\ At(p, t, o) \in Seq(Frame) /\ Len(stack) \in DOMAIN stack
      /\ DOMAIN At(p, t, o) = DOMAIN stack
      /\ At(p, t, o)[Len(stack)].phase = p /\ At(p, t, o)[Len(stack)].thread = t
  BY AtFrames
<1>2. Len(stack') = Len(stack)
  BY StackSizes
<1> QED BY <1>1, <1>2 DEF Top

\* With a slot for each sender a sender that asks for one finds it: the slots that are not
\* there are with messages and other senders, and none of them has two.
LEMMA SlotFree ==
    ASSUME Together, Cardinality(Sender) <= MaxMsgs,
           NEW t \in Sender, InEntry(t), pc[t] = "take"
    PROVE  count[SemEmpty] > 0 /\ t \notin Range(box) /\ owner[Receiver]
<1>1. /\ owner[t] /\ state[t] = "READY" /\ count \in [Sem -> Nat]
      /\ box \in Seq(Sender) /\ Len(box) \in Nat
  BY EntryKnown, Constants DEF Together
<1>2. owner[Receiver] /\ \A u \in Thread : owner[u]
  BY <1>1, Constants DEF Together, AllInLoop
<1>3. t \notin Range(box) /\ t \notin Filling
  BY <1>1, <1>2 DEF Together, Turns, ReceiverFirst, Filling
<1>4. StoppedSenders = {}
  BY <1>2, Constants DEF StoppedSenders, Together, Machine, IInv, ListsOK, Placement
<1>5. Len(box) + count[SemEmpty] + Cardinality(Filling) = MaxMsgs
  <2>1. MaxMsgs - Slots \in 0 .. 0
    BY <1>2, <1>4, FS_EmptySet DEF Together, Books, SlotsKept
  <2>2. Cardinality(Filling) \in Nat /\ count[SemEmpty] \in Nat /\ MaxMsgs \in Nat
    BY <1>1, Sizes, Constants
  <2> QED BY ONLY <1>1, <2>1, <2>2, SlotsSum
<1> DEFINE Others == Sender \ (Filling \cup {t})
<1>6. Cardinality(Others) = Cardinality(Sender) - (Cardinality(Filling) + 1) /\ IsFiniteSet(Others)
  <2>1. Filling \cup {t} \subseteq Sender /\ IsFiniteSet(Filling \cup {t})
        /\ Cardinality(Filling \cup {t}) = Cardinality(Filling) + 1
    BY <1>3, Sizes, FS_AddElement
  <2>2. PICK gone : gone = Filling \cup {t}
    OBVIOUS
  <2>3. Sender \cap gone = gone /\ Others = Sender \ gone
    BY <2>1, <2>2
  <2>4. IsFiniteSet(Sender \ gone)
        /\ Cardinality(Sender \ gone) = Cardinality(Sender) - Cardinality(Sender \cap gone)
    BY SendersFinite, FS_Difference
  <2> HIDE DEF Others
  <2> QED BY <2>1, <2>2, <2>3, <2>4
<1>7. Len(box) <= Cardinality(Others)
  <2>1. \A k \in 1 .. Len(box) : box[k] \in Others
    <3> SUFFICES ASSUME NEW k \in 1 .. Len(box) PROVE box[k] \in Others
      OBVIOUS
    <3>1. box[k] \in Sender /\ box[k] \in Range(box)
      BY <1>1, SeqElements
    <3>2. pc[box[k]] # "put"
      BY <1>2, <3>1 DEF Together, Turns, OneEach
    <3>3. box[k] \notin Filling
      BY <3>2 DEF Filling
    <3> QED BY <1>3, <3>1, <3>3
  <2> HIDE DEF Others
  <2>2. box \in Seq(Others)
    BY <1>1, <2>1
  <2>3. IsInjective(box)
    BY DEF Together, Turns, OneEach
  <2> QED BY <1>6, <2>2, <2>3, ListFits
<1>8. Cardinality(Sender) \in Nat /\ Cardinality(Filling) \in Nat /\ MaxMsgs \in Nat
      /\ count[SemEmpty] \in Nat
  BY <1>1, SendersFinite, Sizes, FS_CardinalityType, Constants
<1>9. count[SemEmpty] > 0
  <2> HIDE DEF Others
  <2> QED BY <1>1, <1>5, <1>6, <1>7, <1>8
<1> QED BY <1>2, <1>3, <1>9
\* What the lists are made of, and where the threads of a program in its loop are.
LEMMA ListsKnown ==
    ASSUME Together
    PROVE  /\ running \in Seq(Thread) /\ clip \in Seq(Thread) /\ IsInjective(running)
           /\ IsInjective(clip) /\ Range(running) \cap Range(clip) = {}
           /\ \A t \in Thread : t \in Range(running) \cup Range(clip) <=> owner[t] /\ state[t] = "READY"
           /\ box \in Seq(Sender) /\ Range(box) \subseteq Sender
           /\ (box = <<>> => Range(box) = {}) /\ (clip = <<>> => Range(clip) = {})
           /\ waitq \in [Sem -> Seq(Thread)] /\ state \in [Thread -> State] /\ pc \in [Thread -> Places]
           /\ stack \in Seq(Frame) /\ fault = "none"
<1>1. box \in Seq(Sender) /\ pc \in [Thread -> Places]
  BY DEF Together, Books, ProgramTypes
<1>2. Range(box) \subseteq Sender
  BY <1>1, SeqElements
<1>3. (box = <<>> => Range(box) = {}) /\ (clip = <<>> => Range(clip) = {})
  BY EmptyLemma
<1> QED BY <1>1, <1>2, <1>3 DEF Together, Machine, IInv, TypeOK, ListsOK, Placement, NoFault

\* The lists and the queue as they were, and a thread that has moved in its code.
LEMMA TurnsSame ==
    ASSUME Together, NEW t \in Thread, NEW to \in Places, pc' = [pc EXCEPT ![t] = to],
           UNCHANGED <<box, running, clip, waitq, state, owner, stack, fault>>,
           t \in Range(box) => to \notin {"put", "take"}
    PROVE  Turns'
<1>1. pc \in [Thread -> Places] /\ Range(box) \subseteq Sender /\ Sender \subseteq Thread
  BY ListsKnown, Constants
<1>2. \A u : InEntry(u)' <=> InEntry(u)
  BY DEF InEntry, InPhase, Top
<1>3. (InPhase("tick") \/ InPhase("callback"))' <=> InPhase("tick") \/ InPhase("callback")
  BY DEF InPhase, Top
<1>4. ClipInPoll' /\ NoSlotAwaited' /\ OneEach'
  BY <1>1 DEF Together, Turns, ClipInPoll, NoSlotAwaited, OneEach
<1>5. ReceiverFirst'
  BY <1>1, <1>2 DEF Together, Turns, ReceiverFirst
<1>6. ReceiverInClip'
  BY <1>3 DEF Together, Turns, ReceiverInClip
<1> QED BY <1>4, <1>5, <1>6 DEF Turns

LEMMA SendTurns ==
    ASSUME Together, Machine', NEW t \in Sender, Goes(t, "put", "delay"), SemGive(SemRead, 1),
           box' = Append(box, t)
    PROVE  Turns'
<1>1. InEntry(t) /\ pc[t] = "put" /\ pc' = [pc EXCEPT ![t] = "delay"] /\ t # Receiver /\ t \in Thread
  BY Constants DEF Goes
<1>2. owner[t] /\ owner[Receiver]
  BY <1>1, EntryKnown, Constants DEF Together, AllInLoop
<1>3. t \notin Range(box)
  BY <1>1, <1>2 DEF Together, Turns, OneEach
<1>4. /\ UNCHANGED <<owner, clip, stack>>
      /\ \/ UNCHANGED <<state, running, waitq>>
         \/ \E u \in Thread : /\ state[u] = "PENDING" /\ lc[u] = SemRead
                              /\ state' = [state EXCEPT ![u] = "READY"]
                              /\ running' = Append(running, u)
                              /\ waitq' = [waitq EXCEPT ![SemRead] = Tail(@)]
  BY GiveSeen, Constants DEF Together, Machine
<1>5. /\ box' \in Seq(Sender) /\ Range(box') = Range(box) \cup {t} /\ IsInjective(box')
  BY <1>3, ListsKnown, AppendLemma DEF Together, Turns, OneEach
<1>6. /\ NoSlotAwaited' /\ Range(running) \subseteq Range(running')
      /\ \A x \in Sender : state'[x] = state[x]
  <2>1. ASSUME NEW u \in Thread, state[u] = "PENDING", lc[u] = SemRead,
               state' = [state EXCEPT ![u] = "READY"], running' = Append(running, u),
               waitq' = [waitq EXCEPT ![SemRead] = Tail(@)]
        PROVE  /\ NoSlotAwaited' /\ Range(running) \subseteq Range(running')
               /\ \A x \in Sender : state'[x] = state[x]
    <3>1. u = Receiver
      BY <2>1 DEF Together, Books, WaitPlaces
    <3>2. Range(running') = Range(running) \cup {u}
      BY <2>1, ListsKnown, AppendLemma
    <3> QED BY <2>1, <3>1, <3>2, ListsKnown, Constants DEF Together, Turns, NoSlotAwaited
  <2> QED BY <1>4, <2>1 DEF Together, Turns, NoSlotAwaited
<1>7. fault = "none" /\ fault' = "none"
  BY DEF Together, Machine, IInv, NoFault
<1>8. \A u : InEntry(u)' <=> InEntry(u)
  BY <1>4, <1>7 DEF InEntry, InPhase, Top
<1>9. Receiver \in Range(clip) \/ Range(box) \cap {x \in Sender : state[x] = "READY" /\ pc[x] = "take"} = {}
  <2>1. ~InEntry(Receiver)
    BY <1>1 DEF InEntry
  <2> QED BY <1>2, <2>1, ListsKnown DEF Together, Turns, ReceiverFirst
<1>10. ReceiverFirst'
  <2> SUFFICES ASSUME NEW x \in Range(box'), state'[x] = "READY", pc'[x] = "take"
               PROVE  /\ x \in Range(running') /\ ~InEntry(x)'
                      /\ (Receiver \in Range(clip'))
    BY DEF ReceiverFirst
  <2>1. x # t /\ x \in Range(box) /\ x \in Sender /\ pc[x] = "take" /\ state[x] = "READY"
    BY <1>1, <1>5, <1>6, ListsKnown
  <2>2. x \in Range(running) /\ ~InEntry(x)
    BY <1>2, <2>1 DEF Together, Turns, ReceiverFirst
  <2> QED BY <1>4, <1>6, <1>8, <1>9, <2>1, <2>2
<1>11. OneEach'
  BY <1>1, <1>2, <1>5, ListsKnown DEF Together, Turns, OneEach
<1>12. ClipInPoll' /\ ReceiverInClip'
  BY <1>1, <1>4, <1>7 DEF ClipInPoll, ReceiverInClip, InEntry, InPhase, Top
<1> QED BY <1>6, <1>10, <1>11, <1>12 DEF Turns
\* A thread that blocks leaves the lists: a sender that delays, or the receiver when there
\* are no messages.
LEMMA BlockTurns ==
    ASSUME Together, Machine', NEW t \in Thread, NEW q \in {SemRead, NoSem}, NEW timed \in BOOLEAN,
           NEW from, NEW to \in Places \ {"put"}, Goes(t, from, to), Block(t, q, timed),
           q \in Sem => count[q] = 0, UNCHANGED box, t = Receiver => box = <<>>
    PROVE  Turns'
<1>0. q \in Sem \cup {NoSem} /\ q # SemEmpty
  BY Constants
<1>1. InEntry(t) /\ pc' = [pc EXCEPT ![t] = to]
  BY DEF Goes
<1>2. /\ state' = [state EXCEPT ![t] = "PENDING"]
      /\ waitq' = [r \in Sem |-> IF r = q THEN Append(waitq[r], t) ELSE waitq[r]]
      /\ running' = Unlink(running, t) /\ clip' = Unlink(clip, t)
      /\ stack' = At("run", NoThread, Top.old) /\ UNCHANGED owner
  BY <1>0, <1>1, BlockSeen DEF Together, Machine
<1>3. stack # <<>> /\ stack \in Seq(Frame) /\ Top.old \in MaybeThread
  BY <1>1, ListsKnown, TopTyped DEF InEntry, InPhase
<1>4. stack' # <<>> /\ Top'.phase = "run"
  BY <1>2, <1>3, TopAfter DEF Phase, MaybeThread
<1>5. Range(running') = Range(running) \ {t} /\ Range(clip') = Range(clip) \ {t}
  BY <1>2, ListsKnown, UnlinkLemma
<1>6. NoSlotAwaited' /\ ClipInPoll' /\ ReceiverInClip'
  BY <1>0, <1>2, <1>4, Constants
     DEF Together, Turns, NoSlotAwaited, ClipInPoll, ReceiverInClip, InPhase
<1>7. OneEach'
  BY <1>1, <1>2, ListsKnown, Constants DEF Together, Turns, OneEach
<1>8. ReceiverFirst'
  <2> SUFFICES ASSUME owner'[Receiver], NEW x \in Range(box'), state'[x] = "READY", pc'[x] = "take"
               PROVE  x \in Range(running') /\ ~InEntry(x)' /\ Receiver \in Range(clip')
    BY DEF ReceiverFirst
  <2>1. x # t /\ x \in Range(box) /\ pc[x] = "take" /\ state[x] = "READY" /\ t # Receiver
    BY <1>1, <1>2, ListsKnown, Constants
  <2>2. x \in Range(running) /\ (Receiver \in Range(clip) \/ InEntry(Receiver))
    BY <1>2, <2>1 DEF Together, Turns, ReceiverFirst
  <2>3. ~InEntry(Receiver) /\ ~InEntry(x)'
    BY <1>1, <1>4, <2>1 DEF InEntry, InPhase
  <2> QED BY <1>5, <2>1, <2>2, <2>3
<1> QED BY <1>6, <1>7, <1>8 DEF Turns

LEMMA ReceiveTurns ==
    ASSUME Together, Machine', NEW to \in {"take", "count"}, Goes(Receiver, "get", to),
           SemGive(SemEmpty, 1), box # <<>>, box' = Tail(box)
    PROVE  Turns'
<1>1. InEntry(Receiver) /\ pc' = [pc EXCEPT ![Receiver] = to] /\ Receiver \notin Sender
  BY Constants DEF Goes
<1>2. ASSUME NEW u \in Thread, state[u] = "PENDING", lc[u] = SemEmpty PROVE FALSE
  <2>1. u \in Range(waitq[SemEmpty])
    BY <1>2, Constants DEF Together, Machine, IInv, ListsOK, WaitersBlocked
  <2> QED BY <2>1, EmptyLemma DEF Together, Turns, NoSlotAwaited
<1>3. UNCHANGED <<owner, clip, stack, state, running, waitq>>
  BY <1>2, GiveSeen, Constants DEF Together, Machine
<1>4. Range(box') \subseteq Range(box) /\ IsInjective(box')
  BY ListsKnown, TailLemma DEF Together, Turns, OneEach
<1>5. fault = "none" /\ fault' = "none"
  BY DEF Together, Machine, IInv, NoFault
<1>6. \A u : InEntry(u)' <=> InEntry(u)
  BY <1>3, <1>5 DEF InEntry, InPhase, Top
<1>7. OneEach'
  BY <1>1, <1>3, <1>4, ListsKnown DEF Together, Turns, OneEach
<1>8. ReceiverFirst'
  BY <1>1, <1>3, <1>4, <1>6, ListsKnown DEF Together, Turns, ReceiverFirst
<1>9. ClipInPoll' /\ NoSlotAwaited' /\ ReceiverInClip'
  BY <1>1, <1>3 DEF Together, Turns, ClipInPoll, NoSlotAwaited, ReceiverInClip, InEntry, InPhase, Top
<1> QED BY <1>7, <1>8, <1>9 DEF Turns

LEMMA TimeoutTurns ==
    ASSUME Together, Machine', NEW t \in Thread, Timeout(t), UNCHANGED program
    PROVE  Turns'
<1>1. /\ state' = [state EXCEPT ![t] = "READY"] /\ running' = Append(running, t)
      /\ waitq' = [s \in Sem |-> Unlink(waitq[s], t)] /\ UNCHANGED <<owner, clip, stack>>
  BY TimeoutSeen DEF Together, Machine
<1>2. UNCHANGED <<pc, box>> /\ InPhase("tick")
  BY DEF program, Timeout
<1>3. Range(running') = Range(running) \cup {t}
  BY <1>1, ListsKnown, AppendLemma
<1>4. waitq'[SemEmpty] = <<>>
  <2>1. Unlink(<<>>, t) = <<>>
    BY EmptyLemma DEF Unlink
  <2> QED BY <1>1, <2>1, Constants DEF Together, Turns, NoSlotAwaited
<1>5. ReceiverFirst'
  <2> SUFFICES ASSUME owner'[Receiver], NEW x \in Range(box'), state'[x] = "READY", pc'[x] = "take"
               PROVE  x \in Range(running') /\ ~InEntry(x)' /\ Receiver \in Range(clip')
    BY DEF ReceiverFirst
  <2>1. Receiver \in Range(clip)
    BY <1>1, <1>2, ListsKnown DEF Together, Turns, ReceiverInClip
  <2>2. x \in Range(running')
    BY <1>1, <1>2, <1>3, ListsKnown, Constants DEF Together, Turns, ReceiverFirst
  <2> QED BY <1>1, <1>2, <2>1, <2>2 DEF InEntry, InPhase, Top
<1>6. ClipInPoll' /\ NoSlotAwaited' /\ OneEach'
  BY <1>1, <1>2, <1>4 DEF Together, Turns, ClipInPoll, NoSlotAwaited, OneEach
<1>7. ReceiverInClip'
  BY <1>1, <1>2 DEF Together, Turns, ReceiverInClip, InPhase, Top
<1> QED BY <1>5, <1>6, <1>7 DEF Turns

LEMMA DestroyTurns ==
    ASSUME Together, LoopDestroy, UNCHANGED program
    PROVE  Turns'
<1>1. /\ clip' = <<>> /\ waitq' = [s \in Sem |-> <<>>] /\ owner' = [t \in Thread |-> FALSE]
  BY DEF LoopDestroy
<1> QED
  BY <1>1, Constants DEF program, Together, Turns, ClipInPoll, NoSlotAwaited, OneEach, ReceiverFirst,
                         ReceiverInClip

LEMMA PollTurns ==
    ASSUME Together, Machine', stack = <<>>, Poll, UNCHANGED program
    PROVE  Turns'
<1>1. clip = <<>> /\ Range(clip) = {}
  BY ListsKnown DEF Together, Turns, ClipInPoll
<1>2. clip' = running /\ stack' # <<>> /\ UNCHANGED <<waitq, state, owner, pc, box>>
  <2>1. stack' = Append(stack, NewFrame(NoThread)) /\ RefillClip
        /\ UNCHANGED <<waitq, state, owner>>
    BY DEF Poll, threads
  <2>2. Len(stack') = Len(stack) + 1 /\ Len(stack) \in Nat
    BY <2>1, ListsKnown, StackSizes
  <2> QED BY <1>1, <2>1, <2>2 DEF RefillClip, program
<1>3. ReceiverInClip'
  <2> SUFFICES ASSUME owner[Receiver], box # <<>> PROVE Receiver \in Range(running)
    BY <1>2 DEF ReceiverInClip
  <2>1. state[Receiver] \in {"READY", "PENDING"}
    BY Constants DEF Together, AllInLoop, Machine, IInv, TypeOK, State, ListsOK, Placement
  <2>2. state[Receiver] = "READY"
    BY <2>1, EmptyWhenWaiting DEF Together
  <2> QED BY <1>1, <2>2, ListsKnown, Constants
<1>4. ReceiverFirst'
  <2>1. ~InEntry(Receiver)
    BY DEF InEntry, InPhase
  <2> QED BY <1>1, <1>2, <2>1 DEF Together, Turns, ReceiverFirst
<1>5. ClipInPoll' /\ NoSlotAwaited' /\ OneEach'
  BY <1>2 DEF Together, Turns, ClipInPoll, NoSlotAwaited, OneEach
<1> QED BY <1>3, <1>4, <1>5 DEF Turns

LEMMA TickTurns ==
    ASSUME Together, Machine', UNCHANGED program,
           CallbackReturn \/ TickDone \/ Expire(StopTimer)
    PROVE  Turns'
<1>1. UNCHANGED <<running, clip, waitq, state, owner, pc, box>>
  BY DEF CallbackReturn, TickDone, Expire, lists, threads, program
<1>2. stack # <<>> /\ (InPhase("tick") \/ InPhase("callback"))
  BY DEF CallbackReturn, TickDone, Expire, InPhase
<1>3. \E p \in {"tick", "callback", "run"}, o \in MaybeThread : stack' = At(p, NoThread, o)
  <2>1. current \in MaybeThread /\ NoThread \in MaybeThread
    BY DEF Together, Machine, IInv, TypeOK, MaybeThread
  <2> QED BY <2>1 DEF CallbackReturn, TickDone, Expire
<1>4. stack' # <<>> /\ Top'.phase # "entry"
  <2>1. stack \in Seq(Frame) /\ NoThread \in MaybeThread
        /\ {"tick", "callback", "run"} \subseteq Phase
    BY ListsKnown DEF MaybeThread, Phase
  <2> QED BY <1>2, <1>3, <2>1, TopAfter
<1>5. \A u : ~InEntry(u)' /\ ~InEntry(u)
  BY <1>2, <1>4 DEF InEntry, InPhase
<1>6. ClipInPoll' /\ NoSlotAwaited' /\ OneEach'
  BY <1>1, <1>4 DEF Together, Turns, ClipInPoll, NoSlotAwaited, OneEach
<1>7. ReceiverFirst'
  BY <1>1, <1>5 DEF Together, Turns, ReceiverFirst
<1>8. ReceiverInClip'
  BY <1>1, <1>2 DEF Together, Turns, ReceiverInClip
<1> QED BY <1>6, <1>7, <1>8 DEF Turns

LEMMA PollReturnTurns ==
    ASSUME Together, Machine', UNCHANGED program, PollReturn
    PROVE  Turns'
<1>1. /\ clip = <<>> /\ stack # <<>> /\ Top.phase = "run" /\ stack' = Front(stack)
      /\ UNCHANGED <<running, clip, waitq, state, owner, pc, box>>
  BY DEF PollReturn, InPhase, lists, threads, program
<1>2. stack' = <<>>
  <2>1. Len(stack') = Len(stack) - 1 /\ Len(stack) \in Nat /\ Len(stack) <= 1
        /\ Len(stack) # 0
    BY <1>1, ListsKnown, StackSizes DEF Together, Machine
  <2>2. Len(stack') = 0 /\ stack' \in Seq(Frame)
    BY <2>1 DEF Machine, IInv, TypeOK
  <2> QED BY <2>2
<1>3. \A u : ~InEntry(u)' /\ ~InEntry(u)
  BY <1>1, <1>2 DEF InEntry, InPhase
<1>4. ReceiverFirst'
  BY <1>1, <1>3 DEF Together, Turns, ReceiverFirst
<1>5. ReceiverInClip'
  BY <1>2 DEF ReceiverInClip, InPhase
<1>6. ClipInPoll' /\ NoSlotAwaited' /\ OneEach'
  BY <1>1 DEF Together, Turns, ClipInPoll, NoSlotAwaited, OneEach
<1> QED BY <1>4, <1>5, <1>6 DEF Turns

\* The receiver is called when its turn comes: no entry is executing below the poll.
LEMMA DispatchTurns ==
    ASSUME Together, Machine', UNCHANGED program, Dispatch
    PROVE  Turns'
<1>0. PICK h : h = Head(clip)
  OBVIOUS
<1>1. /\ clip # <<>> /\ clip' = Tail(clip) /\ running' = Append(running, h)
      /\ stack # <<>> /\ Top.phase = "run"
      /\ UNCHANGED <<waitq, state, owner, pc, box>>
      /\ IF Callable(h) THEN stack' = At("entry", h, Top.old) ELSE stack' = stack
  BY <1>0 DEF Dispatch, InPhase, program
<1>2. /\ h \in Thread /\ h \in Range(clip) /\ Range(clip') = Range(clip) \ {h}
  BY <1>0, <1>1, ListsKnown, TailLemma
<1>3. Range(running') = Range(running) \cup {h}
  BY <1>1, <1>2, ListsKnown, AppendLemma
<1>4. Callable(h)
  <2>1. \A k \in DOMAIN stack : stack[k] = Top
    BY ListsKnown DEF Together, Machine, Top
  <2>2. Activations(h) = {}
    BY <1>1, <2>1 DEF Activations
  <2> QED BY <1>2, <2>2 DEF Callable, Together, Machine, IInv, NoReentrance
<1>5. stack' # <<>> /\ Top'.phase = "entry" /\ Top'.thread = h
  <2>1. Top.old \in MaybeThread /\ h \in MaybeThread /\ stack \in Seq(Frame) /\ "entry" \in Phase
    BY <1>1, <1>2, ListsKnown, TopTyped DEF MaybeThread, Phase
  <2> QED BY <1>1, <1>4, <2>1, TopAfter
<1>6. /\ fault' = "none" /\ InEntry(h)' /\ \A u : u # h => ~InEntry(u)'
      /\ \A u : ~InEntry(u)
  <2>1. fault' = "none"
    BY DEF Machine, IInv, NoFault
  <2>2. InEntry(h)' /\ \A u : u # h => ~InEntry(u)'
    BY <1>5, <2>1 DEF InEntry, InPhase
  <2>3. \A u : ~InEntry(u)
    BY <1>1 DEF InEntry, InPhase
  <2> QED BY <2>1, <2>2, <2>3
<1>7. ReceiverFirst'
  <2> SUFFICES ASSUME owner'[Receiver], NEW x \in Range(box'), state'[x] = "READY", pc'[x] = "take"
               PROVE  /\ x \in Range(running') /\ ~InEntry(x)'
                      /\ Receiver \in Range(clip') \/ InEntry(Receiver)'
    BY DEF ReceiverFirst
  <2>1. x \in Range(running) /\ Receiver \in Range(clip)
    BY <1>1, <1>6 DEF Together, Turns, ReceiverFirst
  <2>2. x # h
    BY <1>2, <2>1, ListsKnown
  <2> QED BY <1>2, <1>3, <1>6, <2>1, <2>2
<1>8. ClipInPoll' /\ NoSlotAwaited' /\ OneEach' /\ ReceiverInClip'
  BY <1>1, <1>5 DEF Together, Turns, ClipInPoll, NoSlotAwaited, OneEach, ReceiverInClip, InPhase
<1> QED BY <1>7, <1>8 DEF Turns
LEMMA LoopKeepsTurns ==
    ASSUME Together, Machine', LoopSteps, UNCHANGED program
    PROVE  Turns'
BY TimeoutTurns, DestroyTurns, PollTurns, TickTurns, PollReturnTurns, DispatchTurns
   DEF LoopSteps, Fires, StopsAll, MainPolls

LEMMA SenderKeepsTurns ==
    ASSUME Together, Machine', Cardinality(Sender) <= MaxMsgs, NEW t \in Sender, SenderEntry(t)
    PROVE  Turns'
<1>0. t \in Thread /\ t # Receiver /\ {"put", "delay", "take"} \subseteq Places
  BY Constants DEF Places
<1>1. CASE Goes(t, "take", "put") /\ TakeNow(t, SemEmpty) /\ UNCHANGED <<box, rx>>
  <2>1. t \notin Range(box) /\ pc' = [pc EXCEPT ![t] = "put"]
    BY <1>1, SlotFree DEF Goes
  <2>2. UNCHANGED <<box, running, clip, waitq, state, owner, stack, fault>>
    BY <1>1 DEF TakeNow, lists
  <2> QED BY <1>0, <2>1, <2>2, TurnsSame
<1>2. CASE Goes(t, "take", "put") /\ \E tick \in Ticks : TakeBlock(t, SemEmpty, tick)
  <2>1. count[SemEmpty] > 0
    BY <1>2, SlotFree DEF Goes
  <2> QED BY <1>2, <2>1 DEF TakeBlock, HasToken
<1>3. CASE Goes(t, "put", "delay") /\ Announces(SemRead) /\ box' = Append(box, t)
  BY <1>3, SendTurns DEF Announces
<1>4. CASE Goes(t, "put", "delay") /\ UNCHANGED <<vars, box>>
  BY <1>0, <1>4, TurnsSame DEF Goes, vars
<1>5. CASE Goes(t, "delay", "take") /\ Delay(t, 0) /\ UNCHANGED <<box, rx>>
  <2>1. Block(t, NoSem, 0 # -1) /\ (0 # -1) \in BOOLEAN
    BY <1>5 DEF Delay
  <2>2. NoSem \notin Sem /\ "take" \in Places \ {"put"}
    BY <1>0, CoreAssumption DEF CoreAssumption
  <2> QED BY <1>0, <1>5, <2>1, <2>2, BlockTurns
<1> QED BY <1>1, <1>2, <1>3, <1>4, <1>5 DEF SenderEntry

LEMMA ReceiverKeepsTurns ==
    ASSUME Together, Machine', ReceiverEntry(Receiver)
    PROVE  Turns'
<1>0. Receiver \in Thread /\ Receiver \notin Sender /\ {"get", "take"} \subseteq Places
  BY Constants DEF Places
<1>1. Receiver \notin Range(box)
  BY <1>0, ListsKnown
<1>2. CASE Goes(Receiver, "take", "get") /\ TakeNow(Receiver, SemRead) /\ UNCHANGED <<box, rx>>
  <2>1. pc' = [pc EXCEPT ![Receiver] = "get"]
        /\ UNCHANGED <<box, running, clip, waitq, state, owner, stack, fault>>
    BY <1>2 DEF Goes, TakeNow, lists
  <2> QED BY <1>0, <1>1, <2>1, TurnsSame
<1>3. CASE Goes(Receiver, "take", "get") /\ TakeBlock(Receiver, SemRead, Limit) /\ UNCHANGED <<box, rx>>
  <2>1. PICK timed \in BOOLEAN : Block(Receiver, SemRead, timed)
    BY <1>3 DEF TakeBlock
  <2>2. count[SemRead] = 0 /\ InEntry(Receiver) /\ pc[Receiver] = "take"
    BY <1>3, Constants DEF TakeBlock, HasToken, Goes, Together, Machine, IInv, TypeOK
  <2>3. owner[Receiver] /\ ~InHand
    BY <1>0, <2>2, EntryKnown DEF Together, InHand
  <2>4. box \in Seq(Sender) /\ Len(box) = 0
    BY <2>2, <2>3, ListsKnown DEF Together, Books, MessagesKept
  <2>5. box = <<>> /\ "get" \in Places \ {"put"}
    BY <1>0, <2>4
  <2> QED BY <1>0, <1>3, <2>1, <2>2, <2>5, BlockTurns
<1>4. CASE Receives(Receiver, "take") /\ Got(Receiver)
  <2>1. Goes(Receiver, "get", "take") /\ box # <<>>
    BY <1>4, MessageThere DEF Receives, Together
  <2>2. box' = Tail(box) /\ SemGive(SemEmpty, 1)
    BY <1>4, <2>1 DEF Receives, Announces
  <2> QED BY <2>1, <2>2, ReceiveTurns
<1>5. CASE Receives(Receiver, "take") /\ ~Got(Receiver)
  <2>1. UNCHANGED <<vars, box>> /\ pc' = [pc EXCEPT ![Receiver] = "take"]
    BY <1>5 DEF Receives, Goes
  <2> QED BY <1>0, <1>1, <2>1, TurnsSame DEF vars
<1> QED BY <1>2, <1>3, <1>4, <1>5 DEF ReceiverEntry, Asks

\* The inductive invariant behind it: who has sent is delayed, with a timer that only fires when
\* the receiver is in the clip or waits, and the receiver is called first.
THEOREM ExampleTakesTurns ==
    ASSUME Cardinality(Sender) <= MaxMsgs
    PROVE  ExSpec => []Together
<1>1. ExInit => Turns
  <2>1. ASSUME ExInit PROVE Turns
    <3>1. clip = <<>> /\ waitq[SemEmpty] = <<>> /\ box = <<>> /\ stack = <<>>
      BY <2>1, Constants DEF ExInit
    <3> QED BY <3>1, EmptyLemma
            DEF Turns, ClipInPoll, NoSlotAwaited, OneEach, ReceiverFirst, ReceiverInClip
  <2> QED BY <2>1
<1>2. ASSUME Together, Machine', [ExNext]_exVars PROVE Turns'
  <2>1. CASE UNCHANGED exVars
    <3>1. pc' = [pc EXCEPT ![Receiver] = pc[Receiver]] /\ pc[Receiver] \in Places /\ Receiver \in Thread
          /\ Receiver \notin Range(box)
      BY <1>2, <2>1, ListsKnown, Constants DEF exVars, program
    <3> QED BY <1>2, <2>1, <3>1, TurnsSame DEF exVars, vars, program
  <2> QED
    BY <1>2, <2>1, SenderKeepsTurns, ReceiverKeepsTurns, LoopKeepsTurns DEF ExNext
<1>3. Machine /\ Books /\ AllInLoop /\ Turns /\ Machine' /\ [ExNext]_exVars => Turns'
  BY <1>2 DEF Together
<1>4. Machine /\ Books /\ AllInLoop /\ Turns => Together
  BY DEF Together
<1> QED
  BY <1>1, <1>3, <1>4, ExampleStaysTogether, PTL DEF ExSpec

\* With a slot for each sender no sender ever waits for one, however late the receiver is: so
\* the local msg of a sender, which would not survive the wait, and its limit, which is an
\* uninitialised tx_size, do no harm.
THEOREM ExampleSendersNeverWait ==
    ASSUME Cardinality(Sender) <= MaxMsgs
    PROVE  ExSpec => []SendersNeverWait
<1>1. Together => SendersNeverWait
  BY DEF Together, Turns, NoSlotAwaited, SendersNeverWait
<1> QED
  BY <1>1, ExampleTakesTurns, PTL
-----------------------------------------------------------------------------
(***************************************************************************)
(* The manual test: threads that are added, started and stopped while the  *)
(* others run.                                                             *)
(***************************************************************************)
LEMMA ChildrenKnown ==
    /\ Children \in Seq(Sender) /\ IsInjective(Children) /\ Len(Children) \in Nat
    /\ Len(Children) >= 1 /\ DOMAIN Children = 1 .. Len(Children)
    /\ Child \subseteq Sender /\ \A k \in DOMAIN Children : Children[k] \in Child
    /\ StopEvery \in Nat /\ StopEvery >= 2 /\ 1 \in DOMAIN Children
    /\ \E mains \in Seq(Thread) :
          /\ mains = SubSeq(Started, 1, Len(Started) - Len(Children))
          /\ IsInjective(mains) /\ Range(mains) = Thread \ Child
<1>1. /\ Children \in Seq(Sender) /\ Children # <<>> /\ Len(Children) <= Len(Started)
      /\ StopEvery \in Nat /\ StopEvery >= 2
      /\ Children = SubSeq(Started, Len(Started) - Len(Children) + 1, Len(Started))
  BY TestProgramAssumption DEF TestProgramAssumption
<1>2. Started \in Seq(Thread) /\ Thread = Range(Started) /\ IsInjective(Started)
  BY ExampleMessagesAssumption DEF ExampleMessagesAssumption
<1>3. /\ Len(Children) \in Nat /\ Len(Children) >= 1 /\ DOMAIN Children = 1 .. Len(Children)
      /\ Range(Children) \subseteq Sender /\ \A k \in 1 .. Len(Children) : Children[k] \in Range(Children)
      /\ Len(Started) \in Nat
  BY <1>1, <1>2, SeqElements
<1>4. PICK k \in 0 .. Len(Started) : k = Len(Started) - Len(Children)
  <2>1. \A a, b \in Nat : b <= a => a - b \in 0 .. a
    OBVIOUS
  <2>2. Len(Started) - Len(Children) \in 0 .. Len(Started)
    BY ONLY <1>1, <1>3, <2>1
  <2> QED BY <2>2
<1>5. LET a == SubSeq(Started, 1, k)
          b == SubSeq(Started, k + 1, Len(Started))
      IN  /\ a \in Seq(Thread) /\ IsInjective(a) /\ IsInjective(b)
          /\ Range(a) \cup Range(b) = Range(Started) /\ Range(a) \cap Range(b) = {}
  BY <1>2, SplitLemma
<1>6. SubSeq(Started, k + 1, Len(Started)) = Children
      /\ SubSeq(Started, 1, k) = SubSeq(Started, 1, Len(Started) - Len(Children))
  BY <1>1, <1>4
<1>7. PICK mains \in Seq(Thread) : mains = SubSeq(Started, 1, Len(Started) - Len(Children))
  BY <1>5, <1>6
<1>8. /\ IsInjective(mains) /\ IsInjective(Children)
      /\ Range(mains) \cup Range(Children) = Thread /\ Range(mains) \cap Range(Children) = {}
  BY ONLY <1>2, <1>5, <1>6, <1>7
<1>9. Range(mains) = Thread \ Child
  BY <1>8 DEF Child
<1>10. 1 \in DOMAIN Children
  BY <1>3
<1> QED BY ONLY <1>1, <1>3, <1>7, <1>8, <1>9, <1>10 DEF Child

\* The children that are still to be added are new; every other thread stays in the loop
\* until it is destroyed, or is stopped by its parent.
Family ==
    /\ owner[Receiver] => \A t \in Thread \ Child : owner[t]
    /\ pc[Receiver] \in {"add", "startup"} => i \in DOMAIN Children
    /\ pc[Receiver] = "add" =>
          \A k \in DOMAIN Children : k >= i => state[Children[k]] = "INIT" /\ ~owner[Children[k]]
    /\ n \in 1 .. StopEvery * Len(Children)

LEMMA TestOpens == ASSUME TestInit PROVE Machine /\ Books /\ Family
<1>1. running \in Seq(Thread) /\ IsInjective(running) /\ Range(running) = Thread \ Child
  BY ChildrenKnown DEF TestInit
<1>2. state \in [Thread -> {"INIT", "READY"}] /\ owner = [t \in Thread |-> state[t] = "READY"]
      /\ Range(running) = {t \in Thread : state[t] = "READY"}
  BY <1>1 DEF TestInit
<1>3. /\ pc \in [Thread -> Places] /\ \A t \in Sender : pc[t] = "take"
      /\ pc[Receiver] = "add"
  BY Constants DEF TestInit, Places
<1>4. Machine /\ Books
  BY <1>1, <1>2, <1>3, BooksOpen DEF TestInit
<1>5. 1 \in 1 .. StopEvery * Len(Children)
  <2>1. PICK m \in Nat : m = Len(Children)
    BY ChildrenKnown
  <2>2. PICK e \in Nat : e = StopEvery
    BY ChildrenKnown
  <2>3. e >= 1 /\ m >= 1
    BY <2>1, <2>2, ChildrenKnown
  <2>4. e * m >= 1 /\ e * m \in Int
    BY ONLY <2>3, e \in Nat, m \in Nat
  <2> QED BY <2>1, <2>2, <2>4
<1>6. Family
  <2>1. /\ i = 1 /\ n = 1 /\ state = [t \in Thread |-> IF t \in Child THEN "INIT" ELSE "READY"]
        /\ owner = [t \in Thread |-> t \notin Child]
    BY DEF TestInit
  <2>2. 1 \in DOMAIN Children /\ Child \subseteq Thread
        /\ \A k \in DOMAIN Children : Children[k] \in Child
    BY ChildrenKnown, Constants
  <2> QED BY ONLY <1>3, <1>5, <2>1, <2>2 DEF Family
<1> QED BY <1>4, <1>6

LEMMA AddsChild ==
    ASSUME Machine, Books, Family, Counts("add", Len(Children), "startup", 1), LoopAdd(Children[i])
    PROVE  Machine' /\ Books' /\ Family'
<1>1. /\ InEntry(Receiver) /\ pc[Receiver] = "add"
      /\ pc' = [pc EXCEPT ![Receiver] = IF i = Len(Children) THEN "startup" ELSE "add"]
      /\ i' = IF i = Len(Children) THEN 1 ELSE i + 1
      /\ UNCHANGED <<box, rx, n>>
  BY DEF Counts, Goes
<1>2. PICK c \in Child : c = Children[i]
  BY <1>1, ChildrenKnown DEF Family
<1>3. c \in Sender /\ c \in Thread /\ c # Receiver
  BY <1>2, ChildrenKnown, Constants
<1>4. state[c] = "INIT" /\ i \in 1 .. Len(Children)
  BY <1>1, <1>2, ChildrenKnown DEF Family
<1>5. /\ owner' = [owner EXCEPT ![c] = TRUE]
      /\ UNCHANGED <<count, state, err, lc, stack>>
  BY <1>2 DEF LoopAdd
<1>6. owner \in [Thread -> BOOLEAN] /\ pc \in [Thread -> Places]
  BY DEF Machine, IInv, TypeOK, Books, ProgramTypes
<1>7. IInv'
  BY <1>2, <1>3, <1>4, LoopAddInv DEF Machine
<1>8. EntriesOwned'
  <2>1. \A t : owner[t] => owner'[t]
    BY <1>3, <1>5, <1>6
  <2> QED BY <1>5, <2>1 DEF Machine, EntriesOwned
<1>9. Machine'
  BY <1>5, <1>7, <1>8 DEF Machine
<1>10. ProgramTypes' /\ WaitPlaces' /\ NoBug'
  BY <1>1, <1>3, <1>5, <1>6, Constants DEF Books, ProgramTypes, WaitPlaces, NoBug, Places
<1>11. /\ (InHand' <=> InHand) /\ Filling' = Filling /\ StoppedSenders' = StoppedSenders
       /\ owner'[Receiver] = owner[Receiver]
  BY <1>1, <1>3, <1>5, <1>6, Constants DEF InHand, Got, Filling, StoppedSenders
<1>12. MessagesKept' /\ SlotsKept'
  BY <1>1, <1>5, <1>11 DEF Books, MessagesKept, SlotsKept, Slots
<1>13. Family'
  <2>1. owner'[Receiver] => \A t \in Thread \ Child : owner'[t]
    BY <1>3, <1>5, <1>6, <1>11 DEF Family
  <2>2. i' \in DOMAIN Children
    <3>1. \A m \in Nat : \A j \in 1 .. m : 1 \in 1 .. m /\ (j # m => j + 1 \in 1 .. m)
      OBVIOUS
    <3>2. Len(Children) \in Nat /\ DOMAIN Children = 1 .. Len(Children)
      BY ChildrenKnown
    <3> QED BY ONLY <1>1, <1>4, <3>1, <3>2
  <2>3. ASSUME pc'[Receiver] = "add", NEW k \in DOMAIN Children, k >= i'
        PROVE  state'[Children[k]] = "INIT" /\ ~owner'[Children[k]]
    <3>1. i' = i + 1
      BY <1>1, <1>6, <2>3, Constants
    <3>2. k >= i /\ k # i /\ k \in Nat
      BY <1>4, <2>3, <3>1, ChildrenKnown
    <3>3. Children[k] # c /\ Children[k] \in Thread
      BY <1>2, <1>4, <2>3, <3>2, ChildrenKnown, Constants DEF IsInjective
    <3>4. state[Children[k]] = "INIT" /\ ~owner[Children[k]]
      BY <1>1, <3>2 DEF Family
    <3> QED BY <1>5, <1>6, <3>3, <3>4
  <2> QED BY <1>1, <2>1, <2>2, <2>3 DEF Family
<1> QED BY <1>9, <1>10, <1>12, <1>13 DEF Books

LEMMA StartsChild ==
    ASSUME Machine, Books, Family, Counts("startup", Len(Children), "delay", 0),
           Startup(Children[i])
    PROVE  Machine' /\ Books' /\ Family'
<1>1. /\ InEntry(Receiver) /\ pc[Receiver] = "startup"
      /\ pc' = [pc EXCEPT ![Receiver] = IF i = Len(Children) THEN "delay" ELSE "startup"]
      /\ i' = IF i = Len(Children) THEN 0 ELSE i + 1
      /\ UNCHANGED <<box, rx, n>>
  BY DEF Counts, Goes
<1>2. PICK c \in Child : c = Children[i]
  BY <1>1, ChildrenKnown DEF Family
<1>3. c \in Sender /\ c \in Thread /\ c # Receiver /\ i \in 1 .. Len(Children)
  BY <1>1, <1>2, ChildrenKnown, Constants DEF Family
<1>4. /\ state[c] = "INIT" /\ state' = [state EXCEPT ![c] = "READY"]
      /\ UNCHANGED <<count, owner, err, lc, stack>>
  BY <1>2 DEF Startup, MakeReady
<1>5. state \in [Thread -> State] /\ pc \in [Thread -> Places] /\ pc[c] = "take"
  BY <1>3, <1>4 DEF Machine, IInv, TypeOK, Books, ProgramTypes
<1>6. IInv'
  BY <1>2, <1>3, StartupInv DEF Machine
<1>7. Machine'
  BY <1>4, <1>6 DEF Machine, EntriesOwned
<1>8. ProgramTypes' /\ WaitPlaces' /\ NoBug'
  BY <1>1, <1>3, <1>4, <1>5, Constants DEF Books, ProgramTypes, WaitPlaces, NoBug, Places
<1>9. /\ (InHand' <=> InHand) /\ Filling' = Filling /\ StoppedSenders' = StoppedSenders
  BY <1>1, <1>3, <1>4, <1>5, Constants DEF InHand, Got, Filling, StoppedSenders
<1>10. MessagesKept' /\ SlotsKept'
  BY <1>1, <1>4, <1>9 DEF Books, MessagesKept, SlotsKept, Slots
<1>11. Family'
  <2>1. pc'[Receiver] = "startup" => i' \in DOMAIN Children
    <3>1. \A m \in Nat : \A j \in 1 .. m : j # m => j + 1 \in 1 .. m
      OBVIOUS
    <3>2. Len(Children) \in Nat /\ DOMAIN Children = 1 .. Len(Children)
      BY ChildrenKnown
    <3>3. i = Len(Children) => pc'[Receiver] = "delay"
      BY <1>1, <1>5, Constants
    <3> QED BY ONLY <1>1, <1>3, <3>1, <3>2, <3>3
  <2>2. pc'[Receiver] # "add"
    BY <1>1, <1>5, Constants
  <2> QED BY <1>1, <1>4, <2>1, <2>2 DEF Family
<1> QED BY <1>7, <1>8, <1>10, <1>11 DEF Books
\* A multiple of s up to m times s is one of the first m.
LEMMA Quotient ==
    ASSUME NEW a \in Nat, NEW s \in Nat, NEW m \in Nat, s >= 2, a >= 1, a <= s * m, a % s = 0
    PROVE  a \div s \in 1 .. m
<1>1. PICK q \in Int : q = a \div s
  OBVIOUS
<1>2. a = s * q
  BY <1>1
<1>3. q >= 1
  <2>1. q <= 0 => s * q <= 0
    BY q \in Int, s \in Nat
  <2> QED BY <1>2, <2>1
<1>4. q <= m
  <2>1. ASSUME q >= m + 1 PROVE s * q >= s * (m + 1)
    BY <2>1, q \in Int, s \in Nat, m \in Nat
  <2>2. s * (m + 1) = s * m + s /\ s * m \in Nat
    OBVIOUS
  <2> QED BY <1>2, <2>1, <2>2
<1> QED BY <1>1, <1>3, <1>4

\* A child that is stopped leaves the books, with a slot or without.
LEMMA ChildLeaves ==
    ASSUME Machine, Books, NEW c \in Child, Stop(c), Goes(Receiver, "count", "take"),
           UNCHANGED <<box, rx>>
    PROVE  Machine' /\ Books' /\ owner' = [owner EXCEPT ![c] = FALSE]
<1>1. InEntry(Receiver) /\ pc[Receiver] = "count" /\ pc' = [pc EXCEPT ![Receiver] = "take"]
  BY DEF Goes
<1>2. c \in Sender /\ c \in Thread /\ c # Receiver
  BY ChildrenKnown, Constants
<1>3. /\ owner[c] /\ owner' = [owner EXCEPT ![c] = FALSE] /\ state' = [state EXCEPT ![c] = "DEAD"]
      /\ UNCHANGED <<count, err, lc, stack>>
  BY DEF Stop, Detach
<1>4. /\ owner[Receiver] /\ stack # <<>> /\ Top.thread = Receiver
      /\ count \in [Sem -> Nat] /\ state \in [Thread -> State] /\ err \in [Thread -> Err]
      /\ owner \in [Thread -> BOOLEAN] /\ pc \in [Thread -> Places] /\ stack \in Seq(Frame)
      /\ box \in Seq(Sender) /\ Len(box) \in Nat
  BY <1>1, EntryKnown, Constants DEF Machine, IInv, TypeOK
<1>5. IInv' /\ EntriesOwned'
  <2>1. \A k \in DOMAIN stack : stack[k] = Top
    BY <1>4 DEF Machine, Top
  <2>2. \A k \in DOMAIN stack : stack[k].phase = "entry" => owner'[stack[k].thread]
    BY <1>2, <1>3, <1>4, <2>1
  <2> QED BY <1>2, <2>2, StopSeen DEF Machine
<1>6. Machine'
  BY <1>3, <1>5 DEF Machine
<1>7. ProgramTypes' /\ WaitPlaces' /\ NoBug'
  BY <1>1, <1>2, <1>3, <1>4, Constants DEF Books, ProgramTypes, WaitPlaces, NoBug, Places
<1>8. MessagesKept'
  <2>1. (InHand' <=> InHand) /\ owner'[Receiver] = owner[Receiver]
    BY <1>1, <1>2, <1>3, <1>4, Constants DEF InHand, Got
  <2> QED BY <1>3, <2>1 DEF Books, MessagesKept
<1>9. c \notin StoppedSenders /\ StoppedSenders' = StoppedSenders \cup {c}
      /\ Filling' = Filling \ {c}
  BY <1>1, <1>2, <1>3, <1>4, Constants
     DEF StoppedSenders, Filling, Got, Machine, IInv, ListsOK, Placement
<1>10. /\ Cardinality(StoppedSenders') = Cardinality(StoppedSenders) + 1
       /\ Cardinality(Filling') \in {Cardinality(Filling), Cardinality(Filling) - 1}
       /\ Cardinality(Filling) \in Nat /\ Cardinality(StoppedSenders) \in Nat
  <2>1. c \notin Filling => Filling' = Filling
    BY <1>9
  <2> QED BY <1>2, <1>9, <2>1, Sizes
<1>11. count'[SemEmpty] = count[SemEmpty] /\ count[SemEmpty] \in Nat /\ MaxMsgs \in Nat
  BY <1>3, <1>4, Constants
<1>12. MaxMsgs - Slots \in 0 .. Cardinality(StoppedSenders)
  BY <1>4 DEF Books, SlotsKept
<1>13. MaxMsgs - Slots' \in 0 .. Cardinality(StoppedSenders')
  <2>1. Slots' = Slots \/ Slots' = Slots - 1
    <3>1. Len(box') = Len(box)
      OBVIOUS
    <3> QED BY ONLY <1>4, <1>10, <1>11, <3>1, SlotsSum
  <2>2. Slots \in Int
    BY ONLY <1>4, <1>10, <1>11, SlotsSum
  <2> QED BY ONLY <1>10, <1>11, <1>12, <2>1, <2>2
<1>14. SlotsKept'
  BY <1>13 DEF SlotsKept
<1> QED BY <1>3, <1>6, <1>7, <1>8, <1>14 DEF Books

LEMMA StopsChildSteps ==
    ASSUME Machine, Books, Family, StopsChild
    PROVE  Machine' /\ Books' /\ Family'
<1>1. /\ InEntry(Receiver) /\ pc[Receiver] = "count" /\ pc' = [pc EXCEPT ![Receiver] = "take"]
      /\ n' = IF n < StopEvery * Len(Children) THEN n + 1 ELSE n
      /\ UNCHANGED <<box, rx, i>>
  BY DEF StopsChild, Goes
<1>2. pc \in [Thread -> Places] /\ Receiver \in Thread /\ owner \in [Thread -> BOOLEAN]
  BY Constants DEF Machine, IInv, TypeOK, Books, ProgramTypes
<1>3. PICK all \in Nat : all = StopEvery * Len(Children)
  BY ChildrenKnown
<1>4. n' \in 1 .. StopEvery * Len(Children)
  <2>1. n \in 1 .. all /\ n' = IF n < all THEN n + 1 ELSE n
    BY <1>1, <1>3 DEF Family
  <2> QED BY ONLY <1>3, <2>1
<1>5. CASE n' # n /\ n' % StopEvery = 0
  <2>1. n' \div StopEvery \in 1 .. Len(Children)
    <3>1. PICK a \in Nat : a = n'
      BY ONLY <1>3, <1>4
    <3>2. a >= 1 /\ a <= StopEvery * Len(Children) /\ a % StopEvery = 0
      BY <1>3, <1>4, <1>5, <3>1
    <3>3. a \div StopEvery \in 1 .. Len(Children)
      BY <3>2, ChildrenKnown, Quotient
    <3> QED BY <3>1, <3>3
  <2>2. PICK c \in Child : c = Children[n' \div StopEvery]
    BY <2>1, ChildrenKnown
  <2>3. Stop(c) /\ Goes(Receiver, "count", "take")
    BY <1>5, <2>2 DEF StopsChild
  <2>4. Machine' /\ Books' /\ owner' = [owner EXCEPT ![c] = FALSE]
    BY <1>1, <2>3, ChildLeaves
  <2>5. Family'
    <3>1. c # Receiver /\ c \in Thread
      BY ChildrenKnown, Constants
    <3> QED BY <1>1, <1>2, <1>4, <2>4, <3>1 DEF Family
  <2> QED BY <2>4, <2>5
<1>6. CASE ~(n' # n /\ n' % StopEvery = 0)
  <2>1. UNCHANGED vars
    BY <1>6 DEF StopsChild
  <2>2. Goes(Receiver, "count", "take") /\ "take" \in Places \ {"get", "put"} /\ NoBug'
    BY <1>1 DEF StopsChild, Places, Books, NoBug
  <2>3. Machine' /\ Books'
    BY <1>1, <2>1, <2>2, GoesOn, Constants
  <2>4. Family'
    BY <1>1, <1>2, <1>4, <2>1 DEF Family, vars
  <2> QED BY <2>3, <2>4
<1> QED BY <1>5, <1>6
\* What the code of an entry calls leaves the threads alone that are in no loop.
LEMMA CallLeavesNew ==
    ASSUME Machine, Books, NEW t \in Thread, InEntry(t),
           \/ \E s \in Sem : TakeNow(t, s) \/ SemGive(s, 1) \/ \E tick \in Ticks : TakeBlock(t, s, tick)
           \/ Delay(t, 0)
           \/ UNCHANGED vars
    PROVE  owner' = owner /\ \A u \in Thread : ~owner[u] => state'[u] = state[u]
<1>0. state \in [Thread -> State] /\ owner[t]
  BY EntryKnown
<1>1. CASE UNCHANGED vars \/ \E s \in Sem : TakeNow(t, s)
  BY <1>1 DEF vars, TakeNow
<1>2. ASSUME NEW s \in Sem, SemGive(s, 1)
      PROVE  owner' = owner /\ \A u \in Thread : ~owner[u] => state'[u] = state[u]
  BY <1>0, <1>2, GiveSeen, Constants DEF Machine
<1>3. ASSUME NEW q \in Sem \cup {NoSem}, NEW timed \in BOOLEAN, Block(t, q, timed),
             q \in Sem => count[q] = 0
      PROVE  owner' = owner /\ \A u \in Thread : ~owner[u] => state'[u] = state[u]
  <2>1. state' = [state EXCEPT ![t] = "PENDING"] /\ owner' = owner
    BY <1>3, BlockSeen DEF Machine
  <2> QED BY <1>0, <2>1
<1>4. ASSUME NEW s \in Sem, NEW tick \in Ticks, TakeBlock(t, s, tick)
      PROVE  owner' = owner /\ \A u \in Thread : ~owner[u] => state'[u] = state[u]
  <2>1. Block(t, s, tick # -1) /\ (tick # -1) \in BOOLEAN
    BY <1>4 DEF TakeBlock
  <2>2. count[s] = 0 /\ s \in Sem \cup {NoSem}
    BY <1>4 DEF TakeBlock, HasToken, Machine, IInv, TypeOK
  <2> QED BY <1>3, <2>1, <2>2
<1>5. CASE Delay(t, 0)
  <2>1. Block(t, NoSem, 0 # -1) /\ (0 # -1) \in BOOLEAN /\ NoSem \in Sem \cup {NoSem} /\ NoSem \notin Sem
    BY <1>5, CoreAssumption DEF Delay, CoreAssumption
  <2> QED BY <1>3, <2>1
<1> QED BY <1>1, <1>2, <1>4, <1>5

LEMMA FamilySame ==
    ASSUME Family, owner' = owner, \A u \in Thread : ~owner[u] => state'[u] = state[u],
           UNCHANGED n, pc'[Receiver] \in {"add", "startup"} => pc'[Receiver] = pc[Receiver] /\ i' = i
    PROVE  Family'
<1>1. \A k \in DOMAIN Children : Children[k] \in Thread
  BY ChildrenKnown, Constants
<1> QED BY <1>1 DEF Family

LEMMA SenderKeepsFamily ==
    ASSUME Machine, Books, Family, NEW t \in Sender, SenderEntry(t), UNCHANGED <<i, n>>
    PROVE  Family'
<1>1. t \in Thread /\ t # Receiver /\ InEntry(t) /\ \E to : pc' = [pc EXCEPT ![t] = to]
  BY Constants DEF SenderEntry, Goes
<1>2. pc'[Receiver] = pc[Receiver]
  BY <1>1, Constants DEF Books, ProgramTypes
<1>3. owner' = owner /\ \A u \in Thread : ~owner[u] => state'[u] = state[u]
  BY <1>1, CallLeavesNew, Constants DEF SenderEntry, Announces
<1> QED BY <1>2, <1>3, FamilySame

LEMMA ReceiverKeepsFamily ==
    ASSUME Machine, Books, Family, Asks(Receiver) \/ Receives(Receiver, "count"), UNCHANGED <<i, n>>
    PROVE  Family'
<1>1. InEntry(Receiver) /\ \E to \in {"get", "count"} : pc' = [pc EXCEPT ![Receiver] = to]
  BY DEF Asks, Receives, Goes
<1>2. pc'[Receiver] \in {"get", "count"}
  BY <1>1, Constants DEF Books, ProgramTypes
<1>3. Limit \in Ticks
  BY ExampleMessagesAssumption DEF ExampleMessagesAssumption
<1>4. owner' = owner /\ \A u \in Thread : ~owner[u] => state'[u] = state[u]
  <2>1. CASE Asks(Receiver)
    BY <1>1, <1>3, <2>1, CallLeavesNew, Constants DEF Asks
  <2>2. CASE Receives(Receiver, "count")
    BY <1>1, <2>2, CallLeavesNew, Constants DEF Receives, Announces
  <2> QED BY <2>1, <2>2
<1> QED BY <1>2, <1>4, FamilySame

LEMMA DelaySteps ==
    ASSUME Machine, Books, Family, Delay(Receiver, 0), Counts("delay", Rounds, "take", 0)
    PROVE  Machine' /\ Books' /\ Family'
<1>1. PICK to \in {"take", "delay"} : Goes(Receiver, "delay", to)
  BY DEF Counts
<1>2. InEntry(Receiver) /\ pc' = [pc EXCEPT ![Receiver] = to] /\ UNCHANGED <<box, rx, n>>
  BY <1>1 DEF Goes, Counts
<1>3. Block(Receiver, NoSem, 0 # -1) /\ (0 # -1) \in BOOLEAN /\ NoSem \in Sem \cup {NoSem}
      /\ NoSem \notin Sem /\ to \in Places
  BY CoreAssumption DEF Delay, CoreAssumption, Places
<1>4. Machine' /\ Books'
  BY <1>1, <1>2, <1>3, Blocks, Constants
<1>5. owner' = owner /\ \A u \in Thread : ~owner[u] => state'[u] = state[u]
  BY <1>2, CallLeavesNew, Constants
<1>6. pc'[Receiver] \in {"take", "delay"}
  BY <1>2, Constants DEF Books, ProgramTypes
<1> QED BY <1>2, <1>4, <1>5, <1>6, FamilySame

LEMMA LoopKeepsFamily ==
    ASSUME Machine, Books, Family, LoopSteps, UNCHANGED <<program, i, n>>
    PROVE  Family'
<1>0. state \in [Thread -> State] /\ pc' = pc
  BY DEF Machine, IInv, TypeOK, program
<1>1. ASSUME NEW t \in Thread, Timeout(t) PROVE Family'
  <2>1. owner' = owner /\ \A u \in Thread : ~owner[u] => state'[u] = state[u]
    BY <1>0, <1>1, TimeoutSeen DEF Machine
  <2> QED BY <1>0, <2>1, FamilySame
<1>2. CASE LoopDestroy
  <2>1. /\ owner' = [t \in Thread |-> FALSE]
        /\ state' = [t \in Thread |-> IF owner[t] THEN "DEAD" ELSE state[t]]
    BY <1>2 DEF LoopDestroy
  <2>2. \A k \in DOMAIN Children : Children[k] \in Thread
    BY ChildrenKnown, Constants
  <2> QED BY <1>0, <2>1, <2>2, Constants DEF Family
<1>3. CASE Poll \/ CallbackReturn \/ TickDone \/ Dispatch \/ PollReturn \/ Expire(StopTimer)
  <2>1. UNCHANGED <<owner, state>>
    BY <1>3, PollSeen, Constants DEF Machine
  <2> QED BY <1>0, <2>1, FamilySame
<1> QED BY <1>1, <1>2, <1>3 DEF LoopSteps, Fires, StopsAll, MainPolls

LEMMA TestKeepsBooks ==
    ASSUME Machine, Books, Family, [TestNext]_testVars
    PROVE  Machine' /\ Books' /\ Family'
<1>1. ASSUME NEW t \in Sender, SenderEntry(t), UNCHANGED <<i, n>>
      PROVE  Machine' /\ Books' /\ Family'
  BY <1>1, SenderSteps, SenderKeepsFamily
<1>2. CASE (Asks(Receiver) \/ Receives(Receiver, "count")) /\ UNCHANGED <<i, n>>
  BY <1>2, AsksSteps, ReceivesSteps, ReceiverKeepsFamily
<1>3. CASE LoopSteps /\ UNCHANGED <<program, i, n>>
  BY <1>3, LoopKeepsBooks, LoopKeepsFamily
<1>4. CASE UNCHANGED testVars
  <2>1. UNCHANGED <<vars, pc, box, rx, i, n>>
    BY <1>4 DEF testVars, exVars, program
  <2>2. UNCHANGED <<count, state, owner, err, lc>>
    BY <2>1 DEF vars
  <2> QED BY <2>1, <2>2, MachineSame, BooksSame, FamilySame
<1> QED
  BY <1>1, <1>2, <1>3, <1>4, AddsChild, StartsChild, DelaySteps, StopsChildSteps
     DEF TestNext, ParentEntry

\* The books balance in the manual test too, where threads are started and stopped at any
\* moment: each one that is stopped takes at most one slot with it.
THEOREM TestBalances == TestSpec => [](Machine /\ Books /\ Family)
<1>1. TestInit => Machine /\ Books /\ Family
  BY TestOpens
<1>2. Machine /\ Books /\ Family /\ [TestNext]_testVars => (Machine /\ Books /\ Family)'
  BY TestKeepsBooks
<1> QED
  BY <1>1, <1>2, PTL DEF TestSpec

\* A parent that adds, starts and stops its children inside its own entry never makes the
\* library follow a NULL p_owner or fail an assert.
THEOREM TestNeverFaults == TestSpec => []NoFault
<1>1. Machine /\ Books /\ Family => NoFault
  BY DEF Machine, IInv
<1> QED
  BY <1>1, TestBalances, PTL

\* A child that is stopped takes at most one slot with it, whatever it is doing, and no slot
\* is lost in any other way.
THEOREM TestStopsLoseOne == TestSpec => []StopLosesOne
<1>1. ASSUME Machine, Books, Family PROVE StopLosesOne
  <2> SUFFICES ASSUME owner[Receiver]
               PROVE  MaxMsgs - (Len(box) + count[SemEmpty] + Cardinality(Filling)) \in
                          0 .. Cardinality({t \in Child : state[t] = "DEAD"})
    BY DEF StopLosesOne
  <2>1. MaxMsgs - (Len(box) + count[SemEmpty] + Cardinality(Filling)) \in 0 .. Cardinality(StoppedSenders)
    BY <1>1 DEF Books, SlotsKept, Slots
  <2>2. \A t \in Thread : state[t] = "DEAD" => t \in Child
    BY <1>1 DEF Family, Machine, IInv, ListsOK, Placement
  <2>3. StoppedSenders = {t \in Child : state[t] = "DEAD"}
    BY <2>2, ChildrenKnown, Constants DEF StoppedSenders
  <2> QED BY <2>1, <2>3
<1>2. Machine /\ Books /\ Family => StopLosesOne
  BY <1>1
<1> QED
  BY <1>2, TestBalances, PTL
=============================================================================
