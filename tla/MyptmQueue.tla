------------------------------ MODULE MyptmQueue ------------------------------
(***************************************************************************)
(* The intrusive rings of src/include/myptm/myptm_queue.h, pointer by      *)
(* pointer.  A list is a ring of nodes through its head; a node in no list *)
(* is linked to itself.  Every macro is an operator on the memory of all   *)
(* nodes, with its assignments in their order, and an action that uses it. *)
(***************************************************************************)
EXTENDS MyptmLists

CONSTANTS
    ListHead,    \* the nodes that are used as heads
    Elem         \* the nodes inside objects

Node == ListHead \cup Elem

ASSUME QueueAssumption == ListHead \cap Elem = {} /\ IsFiniteSet(Elem)

VARIABLES
    node,        \* the prev and next of each node
    stale,       \* heads that myptm_queue_add has left pointing into another ring
    walk         \* the cursors of a loop myptm_queue_for_each_container_safe, or none

vars == <<node, stale, walk>>

Self(x) == [prev |-> x, next |-> x]

\* myptm_queue_remove of an argument that the macro does not change
Removed(n, x) ==
    [n EXCEPT ![n[x].next].prev = n[x].prev, ![n[x].prev].next = n[x].next,
              ![x] = Self(x)]

\* myptm_queue_remove(h->next), as myptm_tick_destroy writes it.  The macro evaluates
\* its argument again after it has linked h to the second node, so it is that node
\* which is initialised.
RemovedFirst(n, h) ==
    LET first == n[h].next
        unlinked == [n EXCEPT ![n[first].next].prev = n[first].prev,
                              ![n[first].prev].next = n[first].next]
        second == unlinked[h].next
    IN  [unlinked EXCEPT ![second] = Self(second)]

\* Mutant: the head's prev is set before it is read.
InsertedTailLate(n, h, x) ==
    [n EXCEPT ![h].prev = x, ![x] = [prev |-> x, next |-> h]]

\* myptm_queue_insert_tail
InsertedTail(n, h, x) ==
    [n EXCEPT ![n[h].prev].next = x, ![x] = [prev |-> n[h].prev, next |-> h],
              ![h].prev = x]

\* myptm_queue_insert_head
InsertedHead(n, h, x) ==
    [n EXCEPT ![n[h].next].prev = x, ![x] = [prev |-> h, next |-> n[h].next],
              ![h].next = x]

\* myptm_queue_move
Moved(n, h, new) == Removed(InsertedTail(n, h, new), h)

\* myptm_queue_split
SplitAt(n, h, q, new) ==
    [n EXCEPT ![new] = [prev |-> n[h].prev, next |-> q],
              ![n[h].prev].next = new,
              ![h].prev = n[q].prev,
              ![n[q].prev].next = h,
              ![q].prev = new]

\* myptm_queue_add
Added(n, h, other) ==
    [n EXCEPT ![n[h].prev].next = n[other].next,
              ![n[other].next].prev = n[h].prev,
              ![h].prev = IF n[other].next = other THEN n[h].prev ELSE n[other].prev,
              ![IF n[other].next = other THEN n[h].prev ELSE n[other].prev].next = h]

\* myptm_queue_empty of a head, and the assertion of myptm_queue_insert_tail
Alone(x) == x \notin stale /\ node[x].prev = x

-----------------------------------------------------------------------------
Init ==
    /\ node = [x \in Node |-> Self(x)]
    /\ stale = {}
    /\ walk = <<>>

\* In the body of a walk the object it is at is removed, and perhaps put into
\* another list; everything else is done outside.
NoWalk == walk = <<>> /\ UNCHANGED walk

\* myptm_queue_init of a head that was emptied by myptm_queue_add
Reinit(h) ==
    /\ NoWalk /\ h \in stale
    /\ node' = [node EXCEPT ![h] = Self(h)]
    /\ stale' = stale \ {h}

InsertTail(h, x) ==
    /\ walk # <<>> => walk.head # h
    /\ h \notin stale /\ Alone(x)
    /\ node' = InsertedTail(node, h, x)
    /\ UNCHANGED <<stale, walk>>

InsertHead(h, x) ==
    /\ NoWalk
    /\ h \notin stale /\ Alone(x)
    /\ node' = InsertedHead(node, h, x)
    /\ UNCHANGED stale

RemoveNode(x) ==
    /\ walk # <<>> => x = walk.pos
    /\ ~Alone(x)
    /\ node' = Removed(node, x)
    /\ UNCHANGED <<stale, walk>>

Move(h, new) ==
    /\ NoWalk
    /\ h # new /\ h \notin stale /\ Alone(new)
    /\ node' = Moved(node, h, new)
    /\ UNCHANGED stale

\* The nodes reached from x by next pointers, up to the first head.
After(n, x) ==
    LET at[i \in 0 .. Cardinality(Elem)] ==
            IF i = 0 THEN n[x].next
            ELSE IF at[i - 1] \in Elem THEN n[at[i - 1]].next ELSE at[i - 1]
    IN  [i \in 1 .. Cardinality({k \in DOMAIN at : at[k] \in Elem}) |-> at[i - 1]]

\* q is an element of the list of h.
Split(h, q, new) ==
    /\ NoWalk
    /\ h # new /\ h \notin stale /\ Alone(new)
    /\ q \in Range(After(node, h))
    /\ node' = SplitAt(node, h, q, new)
    /\ UNCHANGED stale

\* The other head is left as it is, and must be initialised before it is used again.
Add(h, other) ==
    /\ NoWalk
    /\ h # other /\ {h, other} \cap stale = {}
    /\ node' = Added(node, h, other)
    /\ stale' = stale \cup {other}

-----------------------------------------------------------------------------
WalkStart(h) ==
    /\ walk = <<>> /\ h \notin stale
    /\ walk' = [head |-> h, pos |-> node[h].next, n |-> node[node[h].next].next]
    /\ UNCHANGED <<node, stale>>

\* Mutant: the next object is looked up after the body, as in the loop that is not
\* called safe.
WalkFollows ==
    walk' = [walk EXCEPT !.pos = node[walk.pos].next, !.n = node[node[walk.pos].next].next]

WalkAdvances == walk' = [walk EXCEPT !.pos = walk.n, !.n = node[walk.n].next]

WalkStep ==
    /\ walk # <<>> /\ walk.pos # walk.head
    /\ WalkAdvances
    /\ UNCHANGED <<node, stale>>

WalkEnd ==
    /\ walk # <<>> /\ walk.pos = walk.head
    /\ walk' = <<>>
    /\ UNCHANGED <<node, stale>>

-----------------------------------------------------------------------------
Next ==
    \/ \E h \in ListHead, x \in Elem : InsertTail(h, x) \/ InsertHead(h, x)
    \/ \E x \in Elem : RemoveNode(x)
    \/ \E h, other \in ListHead :
          \/ Move(h, other) \/ Add(h, other)
          \/ \E q \in Elem : Split(h, q, other)
    \/ \E h \in ListHead : Reinit(h) \/ WalkStart(h)
    \/ WalkStep \/ WalkEnd

Spec == Init /\ [][Next]_vars

FairSpec == Spec /\ WF_vars(WalkStep \/ WalkEnd)

-----------------------------------------------------------------------------
(***************************************************************************)
(* Properties.                                                             *)
(***************************************************************************)

\* Memory m, but for the heads in S, is made of rings: next and prev are inverse.
PointBack(m, S) ==
    \A x \in Node \ S :
        /\ m[x].prev \notin S /\ m[m[x].prev].next = x
        /\ m[x].next \notin S /\ m[m[x].next].prev = x

\* Types of the memory, and that no macro ever leaves a pointer that does not agree
\* with the one that points back: each sets up to six of them.
RingsOK ==
    /\ node \in [Node -> [prev : Node, next : Node]]
    /\ stale \subseteq ListHead
    /\ PointBack(node, stale)

\* The macros implement lists: what a node is linked to is what the sequence of its
\* list says, and no operation on one list disturbs another.
Lists == [h \in ListHead |-> IF h \in stale THEN <<>> ELSE After(node, h)]

Rings == INSTANCE MyptmRings WITH rings <- Lists

ImplementsRings == Rings!Spec

\* A loop that is safe stays in its list, although its body removes objects
\* from it: its cursor never goes to a node that has left.
WalkStays ==
    walk # <<>> =>
        walk.n \in {walk.head} \cup Range(After(node, walk.head))

\* And it ends.
WalkEnds == walk # <<>> ~> walk = <<>>
=============================================================================
