------------------------------ MODULE TestProgram ------------------------------
(***************************************************************************)
(* The threads of src/example/testmyptm.c.  The receiver starts two senders *)
(* of its own inside itself, delays for a while and receives; after some   *)
(* messages it stops the one, then the other, in whatever they are doing.  *)
(* The main of this file, and its callback, are written for a loop the     *)
(* library no longer has: those of ExampleMessages take their place.       *)
(***************************************************************************)
EXTENDS ExampleMessages

CONSTANTS
    Children,    \* p_this->a1, p_this->a2: the last ones of Started
    Rounds,      \* the delays before the long one: 10
    StopEvery    \* the messages after which a child is stopped: 10

ASSUME TestProgramAssumption ==
    /\ Children \in Seq(Sender) /\ Children # <<>> /\ Len(Children) <= Len(Started)
    /\ Children = SubSeq(Started, Len(Started) - Len(Children) + 1, Len(Started))
    /\ Rounds \in Nat /\ StopEvery \in Nat \ {0, 1}

VARIABLES
    i,           \* p_this->i, and which child is started next
    n            \* p_this->n, up to where it is last looked at

testVars == <<exVars, i, n>>

Child == Range(Children)

\* Main adds and starts the threads it knows: the children have been initialised.
TestInit ==
    /\ pending = {} /\ clip = <<>>
    /\ running = SubSeq(Started, 1, Len(Started) - Len(Children))
    /\ waitq = [s \in Sem |-> <<>>]
    /\ count = [s \in Sem |-> IF s = SemEmpty THEN MaxMsgs ELSE 0]
    /\ state = [t \in Thread |-> IF t \in Child THEN "INIT" ELSE "READY"]
    /\ owner = [t \in Thread |-> t \notin Child]
    /\ err = [t \in Thread |-> "EOK"] /\ lc = [t \in Thread |-> NoSem]
    /\ ref = [t \in Thread |-> 0]
    /\ armed = {StopTimer} /\ stale = {} /\ current = NoThread /\ stack = <<>> /\ fault = "none"
    /\ pc = [t \in Thread |-> IF t = Receiver THEN "add" ELSE "take"]
    /\ box = <<>> /\ rx = "none" /\ i = 1 /\ n = 1

\* Goes from one place of my_thread_entry_b to the next when i has reached its end.
Counts(from, last, to, first) ==
    /\ Goes(Receiver, from, IF i = last THEN to ELSE from)
    /\ i' = IF i = last THEN first ELSE i + 1
    /\ UNCHANGED <<box, rx, n>>

\* p_this->n was incremented once before the first receive.
\* After a receive: the first child is stopped, later the second one.
StopsChild ==
    /\ Goes(Receiver, "count", "take")
    /\ n' = IF n < StopEvery * Len(Children) THEN n + 1 ELSE n
    /\ IF n' # n /\ n' % StopEvery = 0 THEN Stop(Children[n' \div StopEvery])
                                       ELSE UNCHANGED vars
    /\ UNCHANGED <<box, rx, i>>

ParentEntry ==
    \/ Counts("add", Len(Children), "startup", 1) /\ LoopAdd(Children[i])
    \/ Counts("startup", Len(Children), "delay", 0) /\ Startup(Children[i])
    \/ Delay(Receiver, 0) /\ Counts("delay", Rounds, "take", 0)
    \/ (Asks(Receiver) \/ Receives(Receiver, "count")) /\ UNCHANGED <<i, n>>
    \/ StopsChild

TestNext ==
    \/ \E t \in Sender : SenderEntry(t) /\ UNCHANGED <<i, n>>
    \/ ParentEntry
    \/ LoopSteps /\ UNCHANGED <<program, i, n>>
    \/ Left /\ UNCHANGED testVars

TestSpec == TestInit /\ [][TestNext]_testVars

\* As in ExampleMessages
TestDue(t) == Due(t) /\ UNCHANGED <<i, n>>

TestFairSpec ==
    TestSpec /\ WF_testVars(TestNext) /\ \A t \in Thread : SF_testVars(TestDue(t))

-----------------------------------------------------------------------------
(***************************************************************************)
(* Properties.                                                             *)
(***************************************************************************)

\* Senders that have been given a slot and have not filled it yet.
Filling == {t \in Sender : state[t] = "READY" /\ pc[t] = "put" /\ Got(t)}

\* A child that is stopped takes at most one slot with it, and no slot is lost in
\* any other way.
StopLosesOne ==
    owner[Receiver] =>
        MaxMsgs - (Len(box) + count[SemEmpty] + Cardinality(Filling)) \in
            0 .. Cardinality({t \in Child : state[t] = "DEAD"})

\* t waits for a slot.
WaitsForSlot(t) == t \in Range(waitq[SemEmpty])

\* A child that waits for a slot gets it, or is stopped, also after the other one was
\* stopped with a slot of its own.
SlotsCome == \A t \in Child : WaitsForSlot(t) ~> ~WaitsForSlot(t)
=============================================================================
