-------------------------- MODULE MyptmMessageQueue --------------------------
(***************************************************************************)
(* The message queue of src/src/myptm_message_queue.c on top of the        *)
(* scheduler.  Threads take a token of one semaphore, move a slot from one *)
(* list to the other, and give a token of the other semaphore.  Waiting,   *)
(* waking, timeouts and stops are the actions of MyptmScheduler, which     *)
(* MyptmCore implements.                                                   *)
(*                                                                         *)
(* A call that blocks returns from the entry function; when the entry is   *)
(* called again it goes on after the take and looks at its outcome.  The   *)
(* code from there to the end of the call is never interrupted (Quiet).    *)
(* Slots are the numbers of the messages in the pool, 0 is NULL.  All       *)
(* messages have the size the queue was initialised with.                  *)
(***************************************************************************)
EXTENDS MyptmScheduler

CONSTANTS
    SemEmpty,    \* sem_empty_buffer: the tokens are free slots
    SemRead,     \* sem_read: the tokens are messages
    MaxMsgs,     \* max_msgs, the slots of the pool
    Msg, NoMsg,
    Garbage,     \* what a local buffer holds after its function has returned
    Rules        \* the rules of use the application follows

(***************************************************************************)
(* What the queue expects of the application without checking it.          *)
(*   BufferKept     the buffer of a send is still there after a wait, not  *)
(*                  a local variable of the entry function                 *)
(*   ResumeNotOK    no waiting thread is resumed with EOK from outside     *)
(***************************************************************************)
AllRules == {"BufferKept", "ResumeNotOK"}

ASSUME MessageQueueAssumption ==
    /\ Sem = {SemEmpty, SemRead} /\ SemEmpty # SemRead
    /\ MaxMsgs \in Nat
    /\ NoMsg \notin Msg /\ Garbage \notin Msg
    /\ NoSem \notin Sem /\ IsFiniteSet(Thread)
    /\ Rules \subseteq AllRules

Slot == 1 .. MaxMsgs
Null == 0

VARIABLES
    next,        \* the next pointer of each slot
    head, tail, free, entry,
    body,        \* what each slot holds after its header
    call,        \* the queue call each thread is in
    buffer,      \* what each thread sends or has received
    lost         \* history: the tokens that threads were stopped with, per operation

queue == <<next, head, tail, free, entry, body>>

mqVars == <<vars, queue, call, buffer, lost>>

Obeys(rule, condition) == rule \in Rules => condition

Op == {"send", "recv"}

SemOf(op) == IF op = "send" THEN SemEmpty ELSE SemRead

\* No thread is between its take and the end of its call.
Quiet == \A t \in executing : call[t] = "none"

\* t has a token, taken by itself or handed to it, and has not used it yet.
Granted(t, op) ==
    call[t] = op /\ outcome[t] = "EOK" /\ (mode[t] = "ready" \/ t \in executing)

-----------------------------------------------------------------------------
\* _message_queue_init: the slots are pushed one after the other.  The threads
\* have been added and started.
QueueInit ==
    /\ next = [i \in Slot |-> i - 1]
    /\ head = Null /\ tail = Null /\ free = MaxMsgs /\ entry = 0
    /\ body = [i \in Slot |-> NoMsg]
    /\ tokens = [s \in Sem |-> IF s = SemEmpty THEN MaxMsgs ELSE 0]

MQInit ==
    /\ QueueInit
    /\ mode = [t \in Thread |-> "ready"]
    /\ waiters = [s \in Sem |-> <<>>]
    /\ timed = {} /\ executing = {}
    /\ outcome = [t \in Thread |-> "EOK"]
    /\ call = [t \in Thread |-> "none"]
    /\ buffer = [t \in Thread |-> NoMsg]
    /\ lost = [op \in Op |-> 0]

\* A receive clears its buffer, so that what it holds afterwards was received.
Enter(t, op, content) ==
    /\ Quiet /\ call[t] = "none"
    /\ call' = [call EXCEPT ![t] = op]
    /\ buffer' = [buffer EXCEPT ![t] = content]
    /\ UNCHANGED <<queue, lost>>

\* The take of message_queue_send finds a free slot, or waits for one.
SendNow(t, m) == Enter(t, "send", m) /\ Take(t, SemEmpty)

SendBlock(t, m, limited) ==
    \E content \in {m, Garbage} :
        /\ Obeys("BufferKept", content = m)
        /\ Enter(t, "send", content)
        /\ Block(t, SemEmpty, limited)

\* The same for message_queue_recv and a message.
RecvNow(t) == Enter(t, "recv", NoMsg) /\ Take(t, SemRead)

RecvBlock(t, limited) == Enter(t, "recv", NoMsg) /\ Block(t, SemRead, limited)

-----------------------------------------------------------------------------
\* Mutant: the result of the take is not looked at.
SucceededAlways(t) == TRUE

\* __p_super_this->err after the take
Succeeded(t) == outcome[t] = "EOK"

Leave(t) == t \in executing /\ call' = [call EXCEPT ![t] = "none"]

TailAfter(msg) == IF tail = msg THEN Null ELSE tail

\* Mutant: the message goes in front of the others.
LinkFirst(msg) ==
    /\ next' = [next EXCEPT ![msg] = head]
    /\ head' = msg
    /\ tail' = IF tail = Null THEN msg ELSE tail

\* The slot becomes the last of the queue.
LinkLast(msg) ==
    /\ next' = [i \in Slot |-> IF i = msg THEN Null
                               ELSE IF i = tail THEN msg ELSE next[i]]
    /\ tail' = msg
    /\ head' = IF head = Null THEN msg ELSE head

\* _message_queue_send, when the take ended with EOK
Send(t) ==
    /\ Leave(t) /\ call[t] = "send" /\ Succeeded(t)
    /\ IF free = Null
       THEN UNCHANGED <<vars, queue>>
       ELSE /\ free' = next[free]
            /\ body' = [body EXCEPT ![free] = buffer[t]]
            /\ LinkLast(free)
            /\ entry' = entry + 1
            /\ Give(SemRead, 1)
    /\ UNCHANGED <<buffer, lost>>

\* _message_queue_recv, when the take ended with EOK
Recv(t) ==
    /\ Leave(t) /\ call[t] = "recv" /\ Succeeded(t)
    /\ IF entry = 0
       THEN UNCHANGED <<vars, queue, buffer>>
       ELSE /\ head' = next[head]
            /\ tail' = TailAfter(head)
            /\ entry' = entry - 1
            /\ buffer' = [buffer EXCEPT ![t] = body[head]]
            /\ next' = [next EXCEPT ![head] = free]
            /\ free' = head
            /\ Give(SemEmpty, 1)
            /\ UNCHANGED body
    /\ UNCHANGED lost

\* The take ended without a token: the call has no effect.
GiveUp(t) ==
    /\ Leave(t) /\ call[t] # "none" /\ ~Succeeded(t)
    /\ UNCHANGED <<vars, queue, buffer, lost>>

-----------------------------------------------------------------------------
\* What else happens to the threads.
Outside == Quiet /\ UNCHANGED <<queue, call, buffer>>
Elsewhere == Outside /\ UNCHANGED lost

CallEntry(t) == Elsewhere /\ Call(t)

WaitEnds(t) ==
    /\ Elsewhere
    /\ \/ Timeout(t)
       \/ \E code \in Codes : /\ Obeys("ResumeNotOK", code # "EOK")
                              /\ Resume(t, code)

\* A thread that was handed a token and has not run yet takes it with it.
StopThread(t) ==
    /\ Outside
    /\ Stop(t)
    /\ lost' = [op \in Op |-> lost[op] + IF Granted(t, op) THEN 1 ELSE 0]

\* Between its calls a thread delays, yields or ends.
Other(t) ==
    /\ Elsewhere
    /\ \E limited \in BOOLEAN : Block(t, NoSem, limited) \/ Yield(t) \/ End(t)

MQNext ==
    \E t \in Thread :
        \/ \E m \in Msg : SendNow(t, m) \/ \E limited \in BOOLEAN : SendBlock(t, m, limited)
        \/ RecvNow(t) \/ \E limited \in BOOLEAN : RecvBlock(t, limited)
        \/ Send(t) \/ Recv(t) \/ GiveUp(t)
        \/ CallEntry(t) \/ WaitEnds(t) \/ StopThread(t) \/ Other(t)

MQSpec == MQInit /\ [][MQNext]_mqVars

-----------------------------------------------------------------------------
(***************************************************************************)
(* Properties.                                                             *)
(***************************************************************************)

\* The slots that are reached from p by the next pointers `to', in order.
Chain(to, p) ==
    LET at[i \in 0 .. MaxMsgs] ==
            IF i = 0 THEN p ELSE IF at[i - 1] = Null THEN Null ELSE to[at[i - 1]]
        Steps == {i \in 0 .. MaxMsgs : at[i] # Null}
    IN  [i \in 1 .. Cardinality(Steps) |-> at[i - 1]]

Free   == Chain(next, free)
Queued == Chain(next, head)

\* Every slot is in one of the two lists, once; entry and msg_queue_tail agree
\* with the list of messages.  Each send and receive relinks three pointers.
ListsPartition ==
    /\ IsInjective(Free \o Queued)
    /\ Range(Free) \cup Range(Queued) = Slot
    /\ entry = Len(Queued)
    /\ tail = IF Queued = <<>> THEN Null ELSE Last(Queued)

Promised(op) == tokens[SemOf(op)] + Cardinality({t \in Thread : Granted(t, op)})

\* There is a token of sem_empty_buffer for every free slot and one of sem_read for
\* every message, those handed to threads that have not run yet included, but for
\* those that threads were stopped with: so a take that ends with EOK is never
\* followed by a -1 or -2 of the queue, and no slot is lost in any other way.
NoSlotLost ==
    /\ Promised("send") + lost["send"] = Len(Free)
    /\ Promised("recv") + lost["recv"] = entry

\* The refinement mapping: the messages in the list, and those that are being sent.
Box    == [i \in 1 .. entry |-> body[Queued[i]]]
Offers == [t \in Thread |-> IF call[t] = "send" THEN buffer[t] ELSE NoMsg]

\* The queue implements a bounded mailbox: whatever waits time out, are resumed or
\* stopped, each message is put once, as offered, and the messages leave in order.
Mailbox == INSTANCE MyptmMailbox WITH
    box <- Box, offer <- Offers, Capacity <- MaxMsgs

ImplementsMailbox == Mailbox!Spec
=============================================================================
