------------------------------ MODULE MyptmRings ------------------------------
(***************************************************************************)
(* What the macros of src/include/myptm/myptm_queue.h promise: each head   *)
(* has a list of elements, and an element is in at most one of them.  The  *)
(* pointers are hidden; MyptmQueue is shown to implement this module.      *)
(***************************************************************************)
EXTENDS MyptmLists

CONSTANTS ListHead, Elem

VARIABLE rings

Init == rings = [h \in ListHead |-> <<>>]

Free(x) == \A h \in ListHead : x \notin Range(rings[h])

PushBack(h, x) == Free(x) /\ rings' = [rings EXCEPT ![h] = Append(@, x)]

PushFront(h, x) == Free(x) /\ rings' = [rings EXCEPT ![h] = <<x>> \o @]

RemoveNode(x) == ~Free(x) /\ rings' = [h \in ListHead |-> Unlink(rings[h], x)]

\* The list of h goes to new, which has none.
Move(h, new) ==
    /\ h # new /\ rings[new] = <<>>
    /\ rings' = [rings EXCEPT ![h] = <<>>, ![new] = rings[h]]

\* The list of h keeps what comes before its i-th element; new gets the rest.
Split(h, i, new) ==
    /\ h # new /\ rings[new] = <<>> /\ i \in DOMAIN rings[h]
    /\ rings' = [rings EXCEPT ![h] = SubSeq(@, 1, i - 1),
                              ![new] = SubSeq(rings[h], i, Len(rings[h]))]

Concat(h, other) ==
    /\ h # other
    /\ rings' = [rings EXCEPT ![h] = @ \o rings[other], ![other] = <<>>]

Next ==
    \/ \E h \in ListHead, x \in Elem : PushBack(h, x) \/ PushFront(h, x)
    \/ \E x \in Elem : RemoveNode(x)
    \/ \E h, other \in ListHead :
          \/ Move(h, other) \/ Concat(h, other)
          \/ \E i \in 1 .. Len(rings[h]) : Split(h, i, other)

Spec == Init /\ [][Next]_rings
=============================================================================
