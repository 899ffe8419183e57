----------------------------- MODULE MyptmMailbox -----------------------------
(***************************************************************************)
(* What src/src/myptm_message_queue.c promises: a mailbox of bounded size.  *)
(* A message that a thread offers is put into the box once, as it was       *)
(* offered, or withdrawn; messages leave in the order they were put.        *)
(* Slots, lists, semaphores and waits are hidden.                           *)
(***************************************************************************)
EXTENDS Naturals, Sequences

CONSTANTS Thread, Msg, NoMsg, Capacity

VARIABLES
    box,         \* the messages in the box, oldest first
    offer        \* the message each thread is about to put, or NoMsg

vars == <<box, offer>>

Init == box = <<>> /\ offer = [t \in Thread |-> NoMsg]

Offer(t, m) ==
    /\ offer[t] = NoMsg
    /\ offer' = [offer EXCEPT ![t] = m]
    /\ UNCHANGED box

\* The wait for a free slot ended without one.
Withdraw(t) ==
    /\ offer[t] # NoMsg
    /\ offer' = [offer EXCEPT ![t] = NoMsg]
    /\ UNCHANGED box

Put(t) ==
    /\ offer[t] # NoMsg
    /\ Len(box) < Capacity
    /\ box' = Append(box, offer[t])
    /\ offer' = [offer EXCEPT ![t] = NoMsg]

Get ==
    /\ box # <<>>
    /\ box' = Tail(box)
    /\ UNCHANGED offer

Next ==
    \/ \E t \in Thread : Withdraw(t) \/ Put(t) \/ \E m \in Msg : Offer(t, m)
    \/ Get

Spec == Init /\ [][Next]_vars
=============================================================================
