---------------------------- MODULE ExampleMessages ----------------------------
(***************************************************************************)
(* src/example/examples/example1.cpp and example2.cpp: two threads send to *)
(* a third one through a message queue, and a timer destroys the loop after *)
(* 15 seconds.  The threads' code runs on MyptmCore, one call of the       *)
(* library to a step; the queue is a mailbox, as MyptmMessageQueue         *)
(* implements one, with its two semaphores.  No rule of use is assumed:    *)
(* what the programs do is all in here.                                    *)
(***************************************************************************)
EXTENDS MyptmCore

CONSTANTS
    Started,     \* the threads in the order main adds and starts them
    Receiver,    \* b1; the others are senders
    SemEmpty, SemRead,
    MaxMsgs,     \* the slots in the queue's pool
    StopTimer,   \* timer
    Limit        \* of a receive: -1 in example1, in example2 a second (0 here)

ASSUME ExampleMessagesAssumption ==
    /\ Started \in Seq(Thread) /\ Thread = Range(Started) /\ IsInjective(Started)
    /\ Receiver \in Thread
    /\ Sem = {SemEmpty, SemRead} /\ SemEmpty # SemRead
    /\ Timer = {StopTimer}
    /\ MaxMsgs \in 1 .. MaxCount
    /\ Limit \in Ticks

VARIABLES
    pc,          \* where each thread's code is
    box,         \* the messages in the queue: who sent them
    rx           \* what the last receive was: of a message, of none, or a bug

program == <<pc, box, rx>>
exVars == <<vars, program>>

Sender == Thread \ {Receiver}

\* main, up to its loop
ExInit ==
    /\ pending = {} /\ running = Started /\ clip = <<>>
    /\ waitq = [s \in Sem |-> <<>>]
    /\ count = [s \in Sem |-> IF s = SemEmpty THEN MaxMsgs ELSE 0]
    /\ state = [t \in Thread |-> "READY"] /\ owner = [t \in Thread |-> TRUE]
    /\ err = [t \in Thread |-> "EOK"] /\ lc = [t \in Thread |-> NoSem]
    /\ ref = [t \in Thread |-> 0]
    /\ armed = {StopTimer} /\ stale = {} /\ current = NoThread /\ stack = <<>> /\ fault = "none"
    /\ pc = [t \in Thread |-> "take"] /\ box = <<>> /\ rx = "none"

-----------------------------------------------------------------------------
Goes(t, from, to) == InEntry(t) /\ pc[t] = from /\ pc' = [pc EXCEPT ![t] = to]

\* The test of err in message_queue_send and message_queue_recv
Got(t) == err[t] = "EOK"

\* Mutant: nobody is told of the message or the slot.
AnnouncesNot(s) == UNCHANGED vars

\* The myptm_sem_give of _message_queue_send and _message_queue_recv
Announces(s) == SemGive(s, 1)

\* my_thread_entry_a: it sends, prints and delays, again and again.  The limit of a
\* send is tx_size, which no one has set.
SenderEntry(t) ==
    \/ /\ Goes(t, "take", "put")
       /\ \/ TakeNow(t, SemEmpty)
          \/ \E tick \in Ticks : TakeBlock(t, SemEmpty, tick)
       /\ UNCHANGED <<box, rx>>
    \/ /\ Goes(t, "put", "delay")
       /\ IF Got(t) THEN Announces(SemRead) /\ box' = Append(box, t)
                    ELSE UNCHANGED <<vars, box>>
       /\ UNCHANGED rx
    \/ /\ Goes(t, "delay", "take")
       /\ Delay(t, 0)
       /\ UNCHANGED <<box, rx>>

\* The myptm_sem_take of message_queue_recv
Asks(t) ==
    /\ Goes(t, "take", "get")
    /\ TakeNow(t, SemRead) \/ TakeBlock(t, SemRead, Limit)
    /\ UNCHANGED <<box, rx>>

\* The call of _message_queue_recv, and the code after it
Receives(t, to) ==
    /\ Goes(t, "get", to)
    /\ CASE ~Got(t)               -> rx' = "none" /\ UNCHANGED <<vars, box>>
         [] Got(t) /\ box = <<>>  -> rx' = "bug" /\ UNCHANGED <<vars, box>>
         [] Got(t) /\ box # <<>>  -> rx' = "message" /\ box' = Tail(box) /\ Announces(SemEmpty)

\* my_thread_entry_b: it receives without a pause.
ReceiverEntry(t) ==
    \/ Asks(t)
    \/ Receives(t, "take")

\* Mutant: the callback does not stop the loop.
StopsNothing == InPhase("callback") /\ CallbackReturn

\* __timer_callback_15seconds, __stop_everything
StopsAll ==
    /\ InPhase("callback")
    /\ \/ (\E t \in Thread : owner[t]) /\ LoopDestroy
       \/ (\A t \in Thread : ~owner[t]) /\ CallbackReturn

\* myptm_loop_empty
LoopEmpty == armed = {} /\ pending = {} /\ running = <<>> /\ clip = <<>>

\* The loop of main, whose sleep is in MyptmSystem.  It has ended when the stack is
\* empty and the loop too.
MainPolls == stack = <<>> /\ ~LoopEmpty /\ Poll

Fires == Expire(StopTimer) \/ \E t \in Thread : Timeout(t)

LoopSteps == Fires \/ StopsAll \/ MainPolls \/ TickDone \/ Dispatch \/ PollReturn

\* Main has left its loop.
Left == stack = <<>> /\ LoopEmpty

ExNext ==
    \/ \E t \in Sender : SenderEntry(t)
    \/ ReceiverEntry(Receiver)
    \/ LoopSteps /\ UNCHANGED program
    \/ Left /\ UNCHANGED exVars

ExSpec == ExInit /\ [][ExNext]_exVars

(***************************************************************************)
(* The program goes on by itself, and a wait with a limit, once it has     *)
(* begun, ends some time (ThreadsGoOn of MyptmSystem).  Nothing is assumed *)
(* of the 15 seconds: they may leave time for everything else.             *)
(***************************************************************************)
Due(t) == Timeout(t) /\ UNCHANGED program

ExFairSpec == ExSpec /\ WF_exVars(ExNext) /\ \A t \in Thread : SF_exVars(Due(t))

-----------------------------------------------------------------------------
(***************************************************************************)
(* Properties.                                                             *)
(***************************************************************************)

\* The line `BUG! invalid message queue size' of example2 is never printed: a receive
\* that ends with EOK has a message, although its limit races with the senders.
NoBug == rx # "bug"

\* Although the receiver's limit ends its wait again and again, it never waits while
\* there is a message.
NoneWaitsInVain == state[Receiver] = "PENDING" => box = <<>>

\* With a slot for each sender no sender ever waits for one, however late the
\* receiver is in each round: so the local msg, which would not survive a wait, and
\* the limit, which is an uninitialised tx_size, do no harm here.
SendersNeverWait == waitq[SemEmpty] = <<>>

\* A message is still to be received, unless the loop is destroyed first.
Unreceived == box # <<>> /\ owner[Receiver]

\* All messages are received, unless the loop is destroyed first.
AllReceived == Unreceived ~> ~Unreceived

\* Main has left its loop, with every thread stopped.
Ended == Left /\ \A t \in Thread : state[t] = "DEAD"

\* The destruction of the loop in a callback, in the middle of a poll, ends the
\* program: main leaves its loop with every thread stopped.
StopEnds == StopTimer \notin armed ~> []Ended
=============================================================================
