------------------------------- MODULE LossyFifo -------------------------------
(***************************************************************************)
(* What the ring buffer of src/example/simple_cmdline promises: bytes are  *)
(* delivered in the order they were put, and only when the buffer is full  *)
(* is one lost, the oldest.                                                *)
(***************************************************************************)
EXTENDS Naturals, Sequences

CONSTANTS Byte, Capacity, None

VARIABLES
    contents,
    delivered    \* the byte that was delivered last

vars == <<contents, delivered>>

Init == contents = <<>> /\ delivered = None

Put(b) ==
    /\ Len(contents) < Capacity
    /\ contents' = Append(contents, b)
    /\ UNCHANGED delivered

Lose ==
    /\ Len(contents) = Capacity
    /\ contents' = Tail(contents)
    /\ UNCHANGED delivered

Get ==
    /\ contents # <<>>
    /\ contents' = Tail(contents) /\ delivered' = Head(contents)

Reset == contents' = <<>> /\ UNCHANGED delivered

Next == Lose \/ Get \/ Reset \/ \E b \in Byte : Put(b)

Spec == Init /\ [][Next]_vars
=============================================================================
