--------------------------- MODULE StandaloneProofs ---------------------------
(***************************************************************************)
(* Proofs about the parts that need no scheduler: the rings of             *)
(* myptm_queue.h, whose pointers agree, whose macros implement lists and   *)
(* whose safe loop stays in its list; the protothreads of myptm_core.h and *)
(* src/simple/mypt.h; the byte ring of the command line demo; and the      *)
(* timers of src/simple.                                                   *)
(***************************************************************************)
EXTENDS MyptmQueue, Protothread, RingBuffer, SimpleTimer, MyptmListsProofs

(***************************************************************************)
(* The rings of MyptmQueue stay rings, for every set of heads and elements.*)
(* PointBack says that next and prev are inverse functions; each macro is  *)
(* shown to keep it from what it assigns, and the invariant follows.       *)
(***************************************************************************)
Memory == [Node -> [prev : Node, next : Node]]

\* In rings a node is alone as soon as its prev says so, which is all that
\* myptm_queue_empty looks at; the assertion of myptm_queue_insert_tail, which also
\* looks at next, asks for nothing more.
LEMMA EmptyByPrev ==
    ASSUME NEW m \in Memory, NEW S \in SUBSET ListHead, PointBack(m, S),
           NEW x \in Node \ S, m[x].prev = x
    PROVE  m[x].next = x
BY DEF PointBack

\* What myptm_queue_remove does to the next pointers.
LEMMA RemovedNext ==
    ASSUME NEW m \in Memory, NEW S \in SUBSET ListHead, PointBack(m, S),
           NEW x \in Node \ S
    PROVE  \A y \in Node : Removed(m, x)[y].next =
               IF y = x THEN x ELSE IF y = m[x].prev THEN m[x].next ELSE m[y].next
<1>1. m[x].prev \in Node /\ m[x].next \in Node
  BY DEF Memory
<1> QED
  BY <1>1 DEF Removed, Self, Memory

\* myptm_queue_remove takes a node out of its ring, and leaves it alone.
LEMMA RemovedKeepsRings ==
    ASSUME NEW m \in Memory, NEW S \in SUBSET ListHead, PointBack(m, S),
           NEW x \in Node \ S
    PROVE  /\ Removed(m, x) \in Memory
           /\ PointBack(Removed(m, x), S)
           /\ Removed(m, x)[x] = Self(x)
<1> DEFINE f == Removed(m, x)
           before == m[x].prev
           after == m[x].next
<1>1. /\ before \in Node \ S /\ m[before].next = x
      /\ after \in Node \ S /\ m[after].prev = x
  BY DEF PointBack, Memory
<1>2. f \in Memory
  BY <1>1 DEF Removed, Self, Memory
<1>3. f[x] = Self(x)
  BY <1>1 DEF Removed, Memory
<1>4. \A y \in Node : f[y].prev = IF y = x THEN x ELSE IF y = after THEN before ELSE m[y].prev
  BY <1>1 DEF Removed, Self, Memory
<1>5. \A y \in Node : f[y].next = IF y = x THEN x ELSE IF y = before THEN after ELSE m[y].next
  BY <1>1, RemovedNext
<1>6. \A y \in Node \ S : f[y].prev \in Node \ S /\ f[f[y].prev].next = y
  BY <1>1, <1>4, <1>5 DEF PointBack, Memory
<1>7. \A y \in Node \ S : f[y].next \in Node \ S /\ f[f[y].next].prev = y
  BY <1>1, <1>4, <1>5 DEF PointBack, Memory
<1> QED
  BY <1>2, <1>3, <1>6, <1>7 DEF PointBack

\* What myptm_queue_insert_tail does to the next pointers.
LEMMA InsertedTailNext ==
    ASSUME NEW m \in Memory, NEW S \in SUBSET ListHead, PointBack(m, S),
           NEW h \in Node \ S, NEW x \in Node \ S, h # x, m[x].prev = x
    PROVE  \A y \in Node : InsertedTail(m, h, x)[y].next =
               IF y = x THEN h ELSE IF y = m[h].prev THEN x ELSE m[y].next
<1>1. /\ m[h].prev \in Node \ S /\ m[m[h].prev].next = h /\ m[x].next = x
      /\ m[h].prev # x
  BY EmptyByPrev DEF PointBack, Memory
<1> QED
  BY <1>1 DEF InsertedTail, Memory

\* myptm_queue_insert_tail puts a node that is alone into the ring of h.
LEMMA InsertedTailKeepsRings ==
    ASSUME NEW m \in Memory, NEW S \in SUBSET ListHead, PointBack(m, S),
           NEW h \in Node \ S, NEW x \in Node \ S, h # x, m[x].prev = x
    PROVE  /\ InsertedTail(m, h, x) \in Memory
           /\ PointBack(InsertedTail(m, h, x), S)
<1> DEFINE f == InsertedTail(m, h, x)
           last == m[h].prev
<1>1. last \in Node \ S /\ m[last].next = h /\ m[x].next = x
  BY EmptyByPrev DEF PointBack, Memory
<1>2. last # x
  BY <1>1
<1>3. f \in Memory
  BY <1>1 DEF InsertedTail, Memory
<1>4. \A y \in Node : f[y].prev = IF y = h THEN x ELSE IF y = x THEN last ELSE m[y].prev
  BY <1>1, <1>2 DEF InsertedTail, Memory
<1>5. \A y \in Node : f[y].next = IF y = x THEN h ELSE IF y = last THEN x ELSE m[y].next
  BY <1>1, InsertedTailNext
<1>6. \A y \in Node \ S : f[y].prev \in Node \ S /\ f[f[y].prev].next = y
  BY <1>1, <1>2, <1>4, <1>5 DEF PointBack, Memory
<1>7. \A y \in Node \ S : f[y].next \in Node \ S /\ f[f[y].next].prev = y
  BY <1>1, <1>2, <1>4, <1>5 DEF PointBack, Memory
<1> QED
  BY <1>3, <1>6, <1>7 DEF PointBack

\* What myptm_queue_insert_head does to the next pointers.
LEMMA InsertedHeadNext ==
    ASSUME NEW m \in Memory, NEW S \in SUBSET ListHead, PointBack(m, S),
           NEW h \in Node \ S, NEW x \in Node \ S, h # x, m[x].prev = x
    PROVE  \A y \in Node : InsertedHead(m, h, x)[y].next =
               IF y = h THEN x ELSE IF y = x THEN m[h].next ELSE m[y].next
<1>1. /\ m[h].next \in Node \ S /\ m[m[h].next].prev = h /\ m[x].next = x
      /\ m[h].next # x
  BY EmptyByPrev DEF PointBack, Memory
<1> QED
  BY <1>1 DEF InsertedHead, Memory

\* The same for myptm_queue_insert_head.
LEMMA InsertedHeadKeepsRings ==
    ASSUME NEW m \in Memory, NEW S \in SUBSET ListHead, PointBack(m, S),
           NEW h \in Node \ S, NEW x \in Node \ S, h # x, m[x].prev = x
    PROVE  /\ InsertedHead(m, h, x) \in Memory
           /\ PointBack(InsertedHead(m, h, x), S)
<1> DEFINE f == InsertedHead(m, h, x)
           first == m[h].next
<1>1. first \in Node \ S /\ m[first].prev = h /\ m[x].next = x
  BY EmptyByPrev DEF PointBack, Memory
<1>2. first # x
  BY <1>1
<1>3. f \in Memory
  BY <1>1 DEF InsertedHead, Memory
<1>4. \A y \in Node : f[y].prev = IF y = x THEN h ELSE IF y = first THEN x ELSE m[y].prev
  BY <1>1, <1>2 DEF InsertedHead, Memory
<1>5. \A y \in Node : f[y].next = IF y = h THEN x ELSE IF y = x THEN first ELSE m[y].next
  BY <1>1, InsertedHeadNext
<1>6. \A y \in Node \ S : f[y].prev \in Node \ S /\ f[f[y].prev].next = y
  BY <1>1, <1>2, <1>4, <1>5 DEF PointBack, Memory
<1>7. \A y \in Node \ S : f[y].next \in Node \ S /\ f[f[y].next].prev = y
  BY <1>1, <1>2, <1>4, <1>5 DEF PointBack, Memory
<1> QED
  BY <1>3, <1>6, <1>7 DEF PointBack

\* myptm_queue_move leaves the old head alone.
LEMMA MovedKeepsRings ==
    ASSUME NEW m \in Memory, NEW S \in SUBSET ListHead, PointBack(m, S),
           NEW h \in Node \ S, NEW x \in Node \ S, h # x, m[x].prev = x
    PROVE  /\ Moved(m, h, x) \in Memory
           /\ PointBack(Moved(m, h, x), S)
           /\ Moved(m, h, x)[h] = Self(h)
BY InsertedTailKeepsRings, RemovedKeepsRings DEF Moved

\* An assignment to one pointer.
LEMMA AssignMemory ==
    ASSUME NEW m \in Memory, NEW x \in Node, NEW y \in Node
    PROVE  [m EXCEPT ![x].prev = y] \in Memory /\ [m EXCEPT ![x].next = y] \in Memory
BY DEF Memory

\* What myptm_queue_split does to the next pointers.
LEMMA SplitNext ==
    ASSUME NEW m \in Memory, NEW S \in SUBSET ListHead, PointBack(m, S),
           NEW h \in Node \ S, NEW q \in Node \ S, NEW x \in Node \ S,
           h # q, h # x, q # x, m[x].prev = x
    PROVE  \A y \in Node : SplitAt(m, h, q, x)[y].next =
               IF y = m[q].prev THEN h ELSE IF y = m[h].prev THEN x
               ELSE IF y = x THEN q ELSE m[y].next
<1>1. /\ m[h].prev \in Node \ S /\ m[m[h].prev].next = h
      /\ m[q].prev \in Node \ S /\ m[m[q].prev].next = q /\ m[x].next = x
  BY EmptyByPrev DEF PointBack, Memory
<1> QED
  BY <1>1 DEF SplitAt, Memory

\* myptm_queue_split makes two rings of one.
LEMMA SplitKeepsRings ==
    ASSUME NEW m \in Memory, NEW S \in SUBSET ListHead, PointBack(m, S),
           NEW h \in Node \ S, NEW q \in Node \ S, NEW x \in Node \ S,
           h # q, h # x, q # x, m[x].prev = x
    PROVE  /\ SplitAt(m, h, q, x) \in Memory
           /\ PointBack(SplitAt(m, h, q, x), S)
<1> DEFINE f == SplitAt(m, h, q, x)
           a == m[h].prev
           b == m[q].prev
<1>1. a \in Node \ S /\ b \in Node \ S /\ m[a].next = h /\ m[b].next = q /\ m[x].next = x
  BY EmptyByPrev DEF PointBack, Memory
<1>2. f \in Memory
  <2>1. [m EXCEPT ![x] = [prev |-> a, next |-> q]] \in Memory
    BY <1>1 DEF Memory
  <2> QED
    BY <2>1, <1>1, AssignMemory DEF SplitAt
<1>3. \A y \in Node : f[y].prev = IF y = q THEN x ELSE IF y = h THEN b
                                  ELSE IF y = x THEN a ELSE m[y].prev
  BY <1>1 DEF SplitAt, Memory
<1>4. \A y \in Node : f[y].next = IF y = b THEN h ELSE IF y = a THEN x
                                  ELSE IF y = x THEN q ELSE m[y].next
  BY <1>1, SplitNext
<1>5. \A y \in Node \ S : f[y].prev \in Node \ S /\ f[f[y].prev].next = y
  BY <1>1, <1>3, <1>4 DEF PointBack, Memory
<1>6. \A y \in Node \ S : f[y].next \in Node \ S /\ f[f[y].next].prev = y
  BY <1>1, <1>3, <1>4 DEF PointBack, Memory
<1> QED
  BY <1>2, <1>5, <1>6 DEF PointBack

\* What myptm_queue_add does to the next pointers.
LEMMA AddedNext ==
    ASSUME NEW m \in Memory, NEW S \in SUBSET ListHead, PointBack(m, S),
           NEW h \in Node \ S, NEW x \in Node \ S, h # x
    PROVE  \A y \in Node : Added(m, h, x)[y].next =
               IF y = IF m[x].next = x THEN m[h].prev ELSE m[x].prev THEN h
               ELSE IF y = m[h].prev THEN m[x].next ELSE m[y].next
<1>1. /\ m[h].prev \in Node \ S /\ m[m[h].prev].next = h
      /\ m[x].next \in Node \ S /\ m[m[x].next].prev = x
      /\ m[x].prev \in Node \ S /\ m[m[x].prev].next = x
  BY DEF PointBack, Memory
<1> QED
  BY <1>1 DEF Added, Memory

\* myptm_queue_add makes one ring of two, and only the head it has emptied is left
\* with pointers that nothing points back to.
LEMMA AddedKeepsRings ==
    ASSUME NEW m \in Memory, NEW S \in SUBSET ListHead, PointBack(m, S),
           NEW h \in Node \ S, NEW x \in Node \ S, h # x
    PROVE  /\ Added(m, h, x) \in Memory
           /\ PointBack(Added(m, h, x), S \cup {x})
<1> DEFINE f == Added(m, h, x)
           a == m[h].prev
           first == m[x].next
           last == IF first = x THEN a ELSE m[x].prev
<1>1. /\ a \in Node \ S /\ m[a].next = h
      /\ first \in Node \ S /\ m[first].prev = x
      /\ m[x].prev \in Node \ S /\ m[m[x].prev].next = x
      /\ last \in Node \ S
  BY DEF PointBack, Memory
<1>2. f \in Memory
  BY <1>1, AssignMemory DEF Added
<1>3. \A y \in Node : f[y].prev = IF y = h THEN last ELSE IF y = first THEN a ELSE m[y].prev
  BY <1>1 DEF Added, Memory
<1>4. \A y \in Node : f[y].next = IF y = last THEN h ELSE IF y = a THEN first ELSE m[y].next
  BY <1>1, AddedNext
<1>5. \A y \in Node \ (S \cup {x}) :
         f[y].prev \in Node \ (S \cup {x}) /\ f[f[y].prev].next = y
  BY <1>1, <1>3, <1>4 DEF PointBack, Memory
<1>6. \A y \in Node \ (S \cup {x}) :
         f[y].next \in Node \ (S \cup {x}) /\ f[f[y].next].prev = y
  BY <1>1, <1>3, <1>4 DEF PointBack, Memory
<1> QED
  BY <1>2, <1>5, <1>6 DEF PointBack

LEMMA ReinitKeepsRings ==
    ASSUME NEW m \in Memory, NEW S \in SUBSET ListHead, PointBack(m, S), NEW h \in S
    PROVE  /\ [m EXCEPT ![h] = Self(h)] \in Memory
           /\ PointBack([m EXCEPT ![h] = Self(h)], S \ {h})
BY DEF PointBack, Self, Memory, Node

-----------------------------------------------------------------------------
LEMMA RingsInit == Init => RingsOK
BY DEF Init, RingsOK, PointBack, Self

\* Each action is one macro on nodes that are not stale.
LEMMA RingsStep == RingsOK /\ [Next]_vars => RingsOK'
<1> SUFFICES ASSUME RingsOK, [Next]_vars
             PROVE  RingsOK'
  OBVIOUS
<1> USE DEF RingsOK, Memory
<1> stale \in SUBSET ListHead /\ Elem \subseteq Node \ stale /\ ListHead \subseteq Node
  BY QueueAssumption DEF Node
<1>1. ASSUME NEW h \in ListHead, NEW x \in Elem, InsertTail(h, x)
      PROVE  RingsOK'
  BY <1>1, InsertedTailKeepsRings, QueueAssumption DEF InsertTail, Alone
<1>2. ASSUME NEW h \in ListHead, NEW x \in Elem, InsertHead(h, x)
      PROVE  RingsOK'
  BY <1>2, InsertedHeadKeepsRings, QueueAssumption DEF InsertHead, Alone
<1>3. ASSUME NEW x \in Elem, RemoveNode(x)
      PROVE  RingsOK'
  BY <1>3, RemovedKeepsRings DEF RemoveNode
<1>4. ASSUME NEW h \in ListHead, NEW x \in ListHead, Move(h, x)
      PROVE  RingsOK'
  BY <1>4, MovedKeepsRings DEF Move, Alone
<1>5. ASSUME NEW h \in ListHead, NEW x \in ListHead, Add(h, x)
      PROVE  RingsOK'
  BY <1>5, AddedKeepsRings DEF Add
<1>6. ASSUME NEW h \in ListHead, NEW x \in ListHead, NEW q \in Elem, Split(h, q, x)
      PROVE  RingsOK'
  BY <1>6, SplitKeepsRings, QueueAssumption DEF Split, Alone
<1>7. ASSUME NEW h \in ListHead, Reinit(h)
      PROVE  RingsOK'
  BY <1>7, ReinitKeepsRings DEF Reinit
<1>8. CASE (\E h \in ListHead : WalkStart(h)) \/ WalkStep \/ WalkEnd \/ UNCHANGED vars
  BY <1>8 DEF WalkStart, WalkStep, WalkEnd, vars
<1> QED
  BY <1>1, <1>2, <1>3, <1>4, <1>5, <1>6, <1>7, <1>8 DEF Next

\* However the macros follow one another, every node that is not a head emptied by
\* myptm_queue_add is in a ring whose next and prev pointers agree: no list is cut
\* or crossed, whatever the number of lists and objects.
THEOREM RingsAreRings == Spec => []RingsOK
<1>1. Init => RingsOK
  BY RingsInit
<1>2. RingsOK /\ [Next]_vars => RingsOK'
  BY RingsStep
<1> QED
  BY <1>1, <1>2, PTL DEF Spec

\* After myptm_queue_remove, and only for nodes in no list, the assertion of
\* myptm_queue_insert_tail holds.
THEOREM AssertionOfInsert ==
    Spec => [](\A x \in Node \ stale : Alone(x) <=> node[x] = Self(x))
<1>1. RingsOK => \A x \in Node \ stale : Alone(x) <=> node[x] = Self(x)
  BY EmptyByPrev DEF RingsOK, Alone, Self, Memory
<1> QED
  BY <1>1, RingsAreRings, PTL

-----------------------------------------------------------------------------
(***************************************************************************)
(* The loop of myptm_tick_destroy, whose condition is h->prev # h and whose *)
(* body is RemovedFirst.  These are the facts that TickDestroy and the     *)
(* timers in `stale' of MyptmCore and MyptmTimer stand for.                *)
(***************************************************************************)

\* Destroying the ticker with one timer in it empties the ring in one round, and
\* the timer stays linked to the head, so the assertion of a later insertion fails.
THEOREM LastStaysLinked ==
    ASSUME NEW m \in Memory, NEW S \in SUBSET ListHead, PointBack(m, S),
           NEW h \in Node \ S, NEW x \in Node \ {h}, m[h].next = x, m[x].next = h
    PROVE  /\ RemovedFirst(m, h) = [m EXCEPT ![h] = Self(h)]
           /\ RemovedFirst(m, h)[x] = [prev |-> h, next |-> h]
<1> DEFINE unlinked == [m EXCEPT ![h].prev = h, ![h].next = h]
<1>1. m[x].prev = h /\ m[x] = [prev |-> h, next |-> h]
  BY DEF PointBack, Memory
<1>2. RemovedFirst(m, h) = [unlinked EXCEPT ![unlinked[h].next] = Self(unlinked[h].next)]
  BY <1>1 DEF RemovedFirst
<1>3. unlinked[h] = Self(h)
  <2>1. m[h] \in [prev : Node, next : Node]
    BY DEF Memory
  <2>2. unlinked[h] = [m[h] EXCEPT !.prev = h, !.next = h]
    BY DEF Memory
  <2> QED
    BY <2>1, <2>2 DEF Self
<1>4. unlinked[h].next = h
  BY <1>3 DEF Self
<1>5. RemovedFirst(m, h) = [unlinked EXCEPT ![h] = Self(h)]
  BY <1>2, <1>4
<1>6. RemovedFirst(m, h) = [m EXCEPT ![h] = Self(h)]
  BY <1>5 DEF Memory
<1>7. RemovedFirst(m, h)[x] = m[x]
  BY <1>6 DEF Memory
<1> QED
  BY <1>1, <1>6, <1>7

\* Destroying the ticker with more timers in it never ends: after the first round
\* the ring is not empty, and a further round changes nothing.
THEOREM DestroyNeverEnds ==
    ASSUME NEW m \in Memory, NEW S \in SUBSET ListHead, PointBack(m, S),
           NEW h \in Node \ S, m[h].next # h, m[m[h].next].next # h
    PROVE  /\ RemovedFirst(m, h)[h].prev # h
           /\ RemovedFirst(RemovedFirst(m, h), h) = RemovedFirst(m, h)
<1> DEFINE x == m[h].next
           y == m[x].next
           unlinked == [m EXCEPT ![y].prev = h, ![h].next = y]
           f == RemovedFirst(m, h)
<1>1. x \in Node \ S /\ y \in Node \ S /\ m[x].prev = h /\ x # h /\ y # h
  BY DEF PointBack, Memory
<1>2. m[h].prev \in Node /\ m[h].prev # h
  BY DEF PointBack, Memory
<1>3. unlinked[h].next = y
  BY <1>1 DEF Memory
<1>4. f = [unlinked EXCEPT ![y] = Self(y)]
  BY <1>1, <1>3 DEF RemovedFirst
<1>5. f[h].next = y /\ f[h].prev = m[h].prev /\ f[y] = Self(y)
  BY <1>1, <1>4 DEF Memory
<1>6. f \in Memory
  <2>1. unlinked \in Memory
    BY <1>1 DEF Memory
  <2>2. Self(y) \in [prev : Node, next : Node]
    BY <1>1 DEF Self
  <2> HIDE DEF unlinked
  <2> QED
    BY <1>1, <1>4, <2>1, <2>2 DEF Memory
<1>7. f[y].prev = y /\ f[y].next = y
  BY <1>5 DEF Self
<1>8. [f EXCEPT ![y].prev = y, ![y].next = y] = f
  BY <1>1, <1>6, <1>7 DEF Memory
<1>9. [f EXCEPT ![y] = Self(y)] = f
  BY <1>1, <1>5, <1>6 DEF Memory
<1>10. RemovedFirst(f, h) = f
  <2> DEFINE g == [f EXCEPT ![f[f[h].next].next].prev = f[f[h].next].prev,
                            ![f[f[h].next].prev].next = f[f[h].next].next]
  <2>1. RemovedFirst(f, h) = [g EXCEPT ![g[h].next] = Self(g[h].next)]
    BY DEF RemovedFirst
  <2>2. g = f
    <3> HIDE DEF f
    <3> QED BY <1>5, <1>7, <1>8
  <2> HIDE DEF f, g
  <2> QED
    BY <1>5, <1>9, <2>1, <2>2
<1> QED
  BY <1>2, <1>5, <1>10

\* Unlinking a timer that is linked to the head alone makes the head a ring of its
\* own, whatever is in the ring then.
THEOREM StaleEmptiesRing ==
    ASSUME NEW m \in Memory, NEW h \in Node, NEW x \in Node \ {h},
           m[x] = [prev |-> h, next |-> h]
    PROVE  Removed(m, x) = [m EXCEPT ![h] = Self(h), ![x] = Self(x)]
<1>1. m[x].prev = h /\ m[x].next = h
  OBVIOUS
<1>2. Removed(m, x) = [m EXCEPT ![h].prev = h, ![h].next = h, ![x] = Self(x)]
  BY <1>1 DEF Removed
<1>3. [m EXCEPT ![h].prev = h, ![h].next = h] = [m EXCEPT ![h] = Self(h)]
  BY DEF Memory, Self
<1> QED
  BY <1>2, <1>3 DEF Memory

-----------------------------------------------------------------------------
(***************************************************************************)
(* The rings are lists.  IsRing says that s lists the elements linked from *)
(* h on, and AreRings that the lists L are those of all heads.  After is a *)
(* recursive function; AfterIsRing shows which list it finds.              *)
(***************************************************************************)
IsRing(m, h, s) ==
    /\ s \in Seq(Elem) /\ IsInjective(s)
    /\ m[h].next = IF s = <<>> THEN h ELSE s[1]
    /\ \A i \in 1 .. Len(s) : m[s[i]].next = IF i < Len(s) THEN s[i + 1] ELSE h

AreRings(m, S, L) ==
    /\ L \in [ListHead -> Seq(Elem)]
    /\ \A h \in S : L[h] = <<>>
    /\ \A h \in ListHead \ S : IsRing(m, h, L[h])
    /\ \A g, h \in ListHead : g # h => Range(L[g]) \cap Range(L[h]) = {}
    /\ \A x \in Elem : m[x].next = x \/ \E h \in ListHead : x \in Range(L[h])

\* Following the next pointers from a head gives the list they link, and no other.
LEMMA AfterIsRing ==
    ASSUME NEW m, NEW h \in ListHead, NEW s, IsRing(m, h, s)
    PROVE  After(m, h) = s
<1> DEFINE n == Len(s)
           max == Cardinality(Elem)
           Follow(f) == [i \in 0 .. max |->
                           IF i = 0 THEN m[h].next
                           ELSE IF f[i - 1] \in Elem THEN m[f[i - 1]].next ELSE f[i - 1]]
           hops == CHOOSE f : f = Follow(f)
           listed == [i \in 0 .. max |-> IF i < n THEN s[i + 1] ELSE h]
<1>1. /\ max \in Nat /\ n \in Nat /\ n <= max
      /\ s \in Seq(Elem) /\ s = [i \in 1 .. n |-> s[i]]
      /\ \A i \in 1 .. n : s[i] \in Elem
      /\ h \notin Elem
  <2>1. s \in Seq(Elem) /\ IsInjective(s) /\ IsFiniteSet(Elem) /\ h \notin Elem
    BY QueueAssumption DEF IsRing
  <2>2. max \in Nat /\ n <= max
    BY <2>1, ListFits
  <2> QED BY <2>1, <2>2
<1>2. listed = Follow(listed)
  <2> SUFFICES ASSUME NEW i \in 0 .. max
               PROVE  listed[i] = Follow(listed)[i]
    OBVIOUS
  <2>1. CASE i = 0
    <3>1. listed[i] = IF 0 < n THEN s[1] ELSE h
      BY <2>1, <1>1
    <3>2. m[h].next = IF n = 0 THEN h ELSE s[1]
      BY <1>1, SeqElements DEF IsRing
    <3> QED BY <2>1, <3>1, <3>2, <1>1
  <2>2. CASE i # 0
    <3>1. i - 1 \in 0 .. max /\ (i - 1) + 1 = i
      BY <2>2, <1>1
    <3>2. CASE i - 1 < n
      <4>1. i \in 1 .. n /\ listed[i - 1] = s[i] /\ s[i] \in Elem
        BY <3>1, <3>2, <2>2, <1>1
      <4>2. m[s[i]].next = IF i < n THEN s[i + 1] ELSE h
        BY <4>1 DEF IsRing
      <4> QED BY <4>1, <4>2, <2>2, <1>1
    <3>3. CASE ~(i - 1 < n)
      BY <3>1, <3>3, <2>2, <1>1
    <3> QED BY <3>2, <3>3
  <2> QED BY <2>1, <2>2
<1>3. hops = Follow(hops)
  BY <1>2
<1> HIDE DEF hops
<1>4. hops = listed
  <2> DEFINE Differ == {i \in 0 .. max : hops[i] # listed[i]}
  <2>1. SUFFICES Differ = {}
    BY <1>3
  <2>2. SUFFICES ASSUME Differ # {} PROVE FALSE
    OBVIOUS
  <2>3. PICK i \in Differ : \A j \in Differ : i <= j
    <3>1. Differ \subseteq Nat
      BY <1>1
    <3> HIDE DEF Differ
    <3> QED BY <3>1, <2>2, LeastElement
  <2>4. i \in 0 .. max
    OBVIOUS
  <2>5. i # 0
    BY <1>2, <1>3, <2>3
  <2>6. i - 1 \in 0 .. max /\ ~(i <= i - 1)
    BY <2>4, <2>5, <1>1
  <2>7. hops[i - 1] = listed[i - 1]
    BY <2>3, <2>6
  <2>8. hops[i] = listed[i]
    <3> HIDE DEF listed, Differ
    <3>1. hops[i] = IF hops[i - 1] \in Elem THEN m[hops[i - 1]].next ELSE hops[i - 1]
      BY <1>3, <2>4, <2>5
    <3>2. listed[i] = IF listed[i - 1] \in Elem THEN m[listed[i - 1]].next ELSE listed[i - 1]
      BY <1>2, <2>4, <2>5
    <3> QED BY <2>7, <3>1, <3>2
  <2> QED BY <2>3, <2>8
<1>5. DOMAIN hops = 0 .. max /\ {k \in DOMAIN hops : hops[k] \in Elem} = 0 .. n - 1
  BY <1>1, <1>4
<1>6. Cardinality(0 .. n - 1) = n
  BY <1>1, IntervalSize
<1>7. After(m, h) = [i \in 1 .. n |-> hops[i - 1]]
  BY <1>5, <1>6 DEF After, hops
<1>8. \A i \in 1 .. n : hops[i - 1] = s[i]
  BY <1>1, <1>4
<1> QED
  BY <1>1, <1>7, <1>8

LEMMA ListsKnown == ASSUME NEW L, AreRings(node, stale, L) PROVE Lists = L
BY AfterIsRing DEF AreRings, Lists

LEMMA ListsKnownNext == ASSUME NEW L, AreRings(node', stale', L) PROVE Lists' = L
<1>1. Lists' = [h \in ListHead |-> IF h \in stale' THEN <<>> ELSE After(node', h)]
  BY DEF Lists
<1>2. \A h \in ListHead : Lists'[h] = L[h]
  BY <1>1, AfterIsRing DEF AreRings
<1> QED
  BY <1>1, <1>2 DEF AreRings

\* What the elements of a ring are linked to.
LEMMA RingNext ==
    ASSUME NEW m, NEW h, NEW s, IsRing(m, h, s), NEW y \in {h} \cup Range(s)
    PROVE  m[y].next \in {h} \cup Range(s)
<1>1. /\ Len(s) \in Nat /\ (Len(s) = 0 <=> s = <<>>)
      /\ \A i \in 1 .. Len(s) : s[i] \in Range(s)
      /\ DOMAIN s = 1 .. Len(s)
  BY SeqElements DEF IsRing
<1>2. CASE y = h
  BY <1>1, <1>2 DEF IsRing
<1>3. CASE y \in Range(s)
  <2>1. PICK i \in 1 .. Len(s) : y = s[i]
    BY <1>1, <1>3 DEF Range
  <2>2. i < Len(s) => i + 1 \in 1 .. Len(s)
    BY <1>1
  <2> QED BY <2>1, <2>2, <1>1 DEF IsRing
<1> QED
  BY <1>2, <1>3

LEMMA RingPrev ==
    ASSUME NEW m \in Memory, NEW S \in SUBSET ListHead, PointBack(m, S),
           NEW h \in ListHead \ S, NEW s, IsRing(m, h, s)
    PROVE  /\ m[h].prev = IF s = <<>> THEN h ELSE s[Len(s)]
           /\ \A i \in 1 .. Len(s) : m[s[i]].prev = IF i = 1 THEN h ELSE s[i - 1]
<1>1. /\ Len(s) \in Nat /\ (Len(s) = 0 <=> s = <<>>)
      /\ \A i \in 1 .. Len(s) : s[i] \in Elem
      /\ h \in Node \ S /\ Elem \subseteq Node \ S
  BY SeqElements, QueueAssumption DEF IsRing, Node
<1>2. \A y \in Node \ S : m[m[y].next].prev = y
  BY DEF PointBack
<1>3. CASE s = <<>>
  BY <1>1, <1>2, <1>3 DEF IsRing
<1>4. CASE s # <<>>
  <2>1. Len(s) \in 1 .. Len(s) /\ 1 \in 1 .. Len(s)
    BY <1>1, <1>4
  <2>2. m[s[Len(s)]].next = h
    BY <2>1, <1>1 DEF IsRing
  <2>3. m[h].prev = s[Len(s)]
    BY <2>1, <2>2, <1>1, <1>2
  <2>4. m[s[1]].prev = h
    BY <2>1, <1>1, <1>2, <1>4 DEF IsRing
  <2>5. ASSUME NEW i \in 1 .. Len(s), i # 1 PROVE m[s[i]].prev = s[i - 1]
    <3>1. i - 1 \in 1 .. Len(s) /\ i - 1 < Len(s) /\ (i - 1) + 1 = i
      BY <1>1, <2>5
    <3>2. m[s[i - 1]].next = s[i]
      BY <3>1 DEF IsRing
    <3> QED BY <3>1, <3>2, <1>1, <1>2
  <2> QED BY <2>3, <2>4, <2>5, <1>4
<1> QED
  BY <1>3, <1>4

\* A ring that a macro does not touch.
LEMMA RingSame ==
    ASSUME NEW m, NEW f, NEW h, NEW s, IsRing(m, h, s),
           \A y \in {h} \cup Range(s) : f[y].next = m[y].next
    PROVE  IsRing(f, h, s)
<1>1. \A i \in 1 .. Len(s) : s[i] \in Range(s)
  BY SeqElements DEF IsRing
<1> QED
  BY <1>1 DEF IsRing

\* myptm_queue_insert_tail in its own list
LEMMA AppendRing ==
    ASSUME NEW m \in Memory, NEW S \in SUBSET ListHead, PointBack(m, S),
           NEW h \in ListHead \ S, NEW s, IsRing(m, h, s),
           NEW x \in Elem, x \notin Range(s), m[x].prev = x
    PROVE  IsRing(InsertedTail(m, h, x), h, Append(s, x))
<1> DEFINE f == InsertedTail(m, h, x)
           r == Append(s, x)
           n == Len(s)
           last == IF s = <<>> THEN h ELSE s[n]
<1>1. /\ s \in Seq(Elem) /\ n \in Nat /\ (n = 0 <=> s = <<>>)
      /\ \A i \in 1 .. n : s[i] \in Elem /\ s[i] # x /\ s[i] \in Node
      /\ \A i, j \in 1 .. n : s[i] = s[j] => i = j
      /\ h \in Node \ S /\ x \in Node \ S /\ h \notin Elem /\ h # x
  BY SeqElements, QueueAssumption DEF IsRing, IsInjective, Node
<1>2. /\ r \in Seq(Elem) /\ IsInjective(r) /\ Len(r) = n + 1
      /\ r[n + 1] = x /\ \A i \in 1 .. n : r[i] = s[i]
  BY <1>1, AppendLemma DEF IsRing
<1>3. m[h].prev = last
  BY RingPrev
<1>4. \A y \in Node : f[y].next = IF y = x THEN h ELSE IF y = last THEN x ELSE m[y].next
  BY <1>1, <1>3, InsertedTailNext
<1> HIDE DEF f, r
<1>5. f[h].next = r[1] /\ r # <<>>
  <2>1. CASE n = 0
    BY <2>1, <1>1, <1>2, <1>4
  <2>2. CASE n # 0
    <3>1. n \in 1 .. n /\ 1 \in 1 .. n
      BY <2>2, <1>1
    <3>2. h # last /\ f[h].next = m[h].next
      BY <3>1, <2>2, <1>1, <1>4
    <3>3. m[h].next = s[1] /\ s[1] = r[1]
      BY <3>1, <2>2, <1>1, <1>2 DEF IsRing
    <3> QED BY <3>2, <3>3, <1>2
  <2> QED BY <2>1, <2>2
<1>6. ASSUME NEW i \in 1 .. n PROVE f[r[i]].next = r[i + 1]
  <2>1. r[i] = s[i] /\ s[i] # x /\ s[i] \in Node /\ n \in 1 .. n /\ last = s[n]
    BY <1>1, <1>2
  <2>2. CASE i = n
    BY <2>1, <2>2, <1>2, <1>4
  <2>3. CASE i # n
    <3>1. i + 1 \in 1 .. n /\ i < n /\ s[i] # s[n]
      BY <2>1, <2>3, <1>1
    <3>2. m[s[i]].next = s[i + 1] /\ r[i + 1] = s[i + 1]
      BY <3>1, <1>2 DEF IsRing
    <3> QED BY <2>1, <3>1, <3>2, <1>4
  <2> QED BY <2>2, <2>3
<1>7. f[r[n + 1]].next = h
  BY <1>1, <1>2, <1>4
<1>8. \A i \in 1 .. Len(r) : f[r[i]].next = IF i < Len(r) THEN r[i + 1] ELSE h
  <2> TAKE i \in 1 .. Len(r)
  <2>1. i \in 1 .. n \/ i = n + 1
    BY <1>1, <1>2
  <2> QED BY <2>1, <1>1, <1>2, <1>6, <1>7
<1> QED
  BY <1>2, <1>5, <1>8 DEF IsRing, f, r

\* and myptm_queue_insert_head.
LEMMA PushRing ==
    ASSUME NEW m \in Memory, NEW S \in SUBSET ListHead, PointBack(m, S),
           NEW h \in ListHead \ S, NEW s, IsRing(m, h, s),
           NEW x \in Elem, x \notin Range(s), m[x].prev = x
    PROVE  IsRing(InsertedHead(m, h, x), h, <<x>> \o s)
<1> DEFINE f == InsertedHead(m, h, x)
           a == <<x>>
           r == <<x>> \o s
           n == Len(s)
<1>1. /\ s \in Seq(Elem) /\ n \in Nat /\ (n = 0 <=> s = <<>>)
      /\ \A i \in 1 .. n : s[i] \in Elem /\ s[i] # x /\ s[i] \in Node /\ s[i] # h
      /\ h \in Node \ S /\ x \in Node \ S /\ h \notin Elem /\ h # x
  BY SeqElements, QueueAssumption DEF IsRing, Node
<1>2. /\ r \in Seq(Elem) /\ IsInjective(r) /\ Len(r) = n + 1
      /\ r[1] = x /\ \A i \in 1 .. n : r[i + 1] = s[i]
  <2>1. a \in Seq(Elem) /\ Len(a) = 1 /\ a[1] = x /\ DOMAIN a = 1 .. 1
    OBVIOUS
  <2>2. IsInjective(a) /\ Range(a) = {x}
    BY <2>1 DEF IsInjective, Range
  <2> HIDE DEF a
  <2>3. IsInjective(a \o s)
    BY <2>1, <2>2, <1>1, ConcatLemma DEF IsRing
  <2>a. /\ a \o s \in Seq(Elem) /\ Len(a \o s) = Len(a) + Len(s)
        /\ \A i \in 1 .. Len(a \o s) : (a \o s)[i] = IF i <= Len(a) THEN a[i] ELSE s[i - Len(a)]
    <3>1. a \in Seq(Elem) /\ s \in Seq(Elem)
      BY <2>1, <1>1
    <3> QED BY ONLY <3>1, ConcatElements
  <2>4. /\ a \o s \in Seq(Elem) /\ Len(a \o s) = n + 1
        /\ \A i \in 1 .. n + 1 : (a \o s)[i] = IF i <= 1 THEN a[i] ELSE s[i - 1]
    <3>1. Len(a) = 1 /\ Len(s) = n /\ Len(a) + Len(s) = n + 1
      BY <2>1, <1>1
    <3> QED BY ONLY <2>a, <3>1
  <2>5. \A i \in 1 .. n : i + 1 \in 1 .. n + 1 /\ ~(i + 1 <= 1) /\ (i + 1) - 1 = i
    BY <1>1
  <2>6. 1 \in 1 .. n + 1
    BY <1>1
  <2>7. (a \o s)[1] = x /\ \A i \in 1 .. n : (a \o s)[i + 1] = s[i]
    BY <2>1, <2>4, <2>5, <2>6
  <2> QED BY <2>3, <2>4, <2>7 DEF a
<1>3. \A y \in Node : f[y].next = IF y = h THEN x ELSE IF y = x THEN m[h].next ELSE m[y].next
  BY <1>1, InsertedHeadNext
<1> HIDE DEF f, r
<1>4. f[h].next = r[1] /\ r # <<>>
  BY <1>1, <1>2, <1>3
<1>5. f[r[1]].next = IF n = 0 THEN h ELSE r[2]
  <2>1. f[r[1]].next = m[h].next
    BY <1>1, <1>2, <1>3
  <2>2. CASE n = 0
    BY <2>1, <2>2, <1>1 DEF IsRing
  <2>3. CASE n # 0
    <3>1. 1 \in 1 .. n /\ 1 + 1 = 2
      BY <2>3, <1>1
    <3>2. m[h].next = s[1] /\ r[1 + 1] = s[1]
      BY <3>1, <2>3, <1>1, <1>2 DEF IsRing
    <3> QED BY <2>1, <2>3, <3>1, <3>2
  <2> QED BY <2>2, <2>3
<1>6. ASSUME NEW i \in 1 .. n PROVE f[r[i + 1]].next = IF i < n THEN r[(i + 1) + 1] ELSE h
  <2>1. r[i + 1] = s[i] /\ f[s[i]].next = m[s[i]].next
    BY <1>1, <1>2, <1>3
  <2>2. i < n => r[(i + 1) + 1] = s[i + 1]
    BY <1>1, <1>2
  <2> QED BY <2>1, <2>2 DEF IsRing
<1>7. \A i \in 1 .. Len(r) : f[r[i]].next = IF i < Len(r) THEN r[i + 1] ELSE h
  <2> TAKE i \in 1 .. Len(r)
  <2>1. CASE i = 1
    BY <2>1, <1>1, <1>2, <1>5
  <2>2. CASE i # 1
    <3>1. i - 1 \in 1 .. n /\ (i - 1) + 1 = i /\ (i - 1 < n <=> i < Len(r))
      BY <2>2, <1>1, <1>2
    <3> QED BY <3>1, <1>6
  <2> QED BY <2>1, <2>2
<1> QED
  BY <1>2, <1>4, <1>7 DEF IsRing, f, r

\* myptm_queue_remove of the k-th element
LEMMA UnlinkRing ==
    ASSUME NEW m \in Memory, NEW S \in SUBSET ListHead, PointBack(m, S),
           NEW h \in ListHead \ S, NEW s, IsRing(m, h, s),
           NEW x \in Elem, x \in Range(s)
    PROVE  IsRing(Removed(m, x), h, Unlink(s, x))
<1> DEFINE f == Removed(m, x)
           k == CHOOSE i \in DOMAIN s : s[i] = x
           r == RemoveAt(s, k)
           n == Len(s)
<1>1. /\ s \in Seq(Elem) /\ IsInjective(s) /\ n \in Nat /\ (n = 0 <=> s = <<>>)
      /\ DOMAIN s = 1 .. n
      /\ \A i \in 1 .. n : s[i] \in Elem /\ s[i] \in Node /\ s[i] # h
      /\ \A i, j \in 1 .. n : s[i] = s[j] => i = j
      /\ h \in Node \ S /\ x \in Node \ S /\ h \notin Elem /\ h # x
  BY SeqElements, QueueAssumption DEF IsRing, IsInjective, Node
<1>2. k \in 1 .. n /\ s[k] = x
  BY <1>1 DEF Range
<1>3. Unlink(s, x) = r
  BY DEF Unlink
<1> HIDE DEF k
<1>4. /\ r \in Seq(Elem) /\ IsInjective(r) /\ Len(r) = n - 1
      /\ \A i \in 1 .. n - 1 : r[i] = IF i < k THEN s[i] ELSE s[i + 1]
  <2>1. r \in Seq(Elem) /\ IsInjective(r)
    BY <1>1, <1>3, UnlinkLemma
  <2>2. k \in DOMAIN s
    BY <1>1, <1>2
  <2> HIDE DEF r
  <2> QED BY <2>1, <2>2, <1>1, RemoveAtElements DEF r
<1>5. /\ m[x].prev = IF k = 1 THEN h ELSE s[k - 1]
      /\ m[x].next = IF k < n THEN s[k + 1] ELSE h
  <2>1. m[s[k]].prev = IF k = 1 THEN h ELSE s[k - 1]
    BY <1>2, RingPrev
  <2> QED BY <2>1, <1>2 DEF IsRing
<1>6. \A y \in Node : f[y].next =
          IF y = x THEN x ELSE IF y = m[x].prev THEN m[x].next ELSE m[y].next
  BY <1>1, RemovedNext
<1> HIDE DEF f, r
<1>7. f[h].next = IF n = 1 THEN h ELSE r[1]
  <2>1. CASE k = 1
    <3>1. f[h].next = IF 1 < n THEN s[2] ELSE h
      BY <2>1, <1>1, <1>5, <1>6
    <3>2. n # 1 => 1 \in 1 .. n - 1 /\ 1 < n /\ r[1] = s[2]
      BY <2>1, <1>2, <1>1, <1>4
    <3> QED BY <3>1, <3>2
  <2>2. CASE k # 1
    <3>1. k - 1 \in 1 .. n /\ n # 1 /\ 1 \in 1 .. n - 1 /\ 1 < k /\ 1 \in 1 .. n /\ n # 0
      BY <2>2, <1>1, <1>2
    <3>2. h # s[k - 1] /\ f[h].next = m[h].next
      BY <2>2, <3>1, <1>1, <1>5, <1>6
    <3>3. m[h].next = s[1] /\ r[1] = s[1]
      BY <3>1, <1>1, <1>4 DEF IsRing
    <3> QED BY <3>1, <3>2, <3>3
  <2> QED BY <2>1, <2>2
<1>8. ASSUME NEW i \in 1 .. n - 1
      PROVE  f[r[i]].next = IF i < n - 1 THEN r[i + 1] ELSE h
  <2>0. i \in Int /\ i \in 1 .. n /\ i + 1 \in 1 .. n /\ i < n /\ k \in Int
    BY <1>1, <1>2
  <2>1. CASE i < k - 1
    <3>1. i < k /\ i + 1 < k /\ i < n - 1 /\ i # k /\ i + 1 \in 1 .. n - 1
          /\ k # 1 /\ i # k - 1 /\ k - 1 \in 1 .. n
      BY <2>0, <2>1, <1>1, <1>2
    <3>2. r[i] = s[i] /\ r[i + 1] = s[i + 1]
      BY <3>1, <1>4
    <3>3. s[i] # x /\ s[i] # s[k - 1]
      BY <2>0, <3>1, <1>1, <1>2
    <3>4. f[s[i]].next = m[s[i]].next
      BY <2>0, <3>1, <3>3, <1>1, <1>5, <1>6
    <3>5. m[s[i]].next = s[i + 1]
      BY <2>0 DEF IsRing
    <3> QED BY <3>1, <3>2, <3>4, <3>5
  <2>2. CASE i = k - 1
    <3>1. i < k /\ i # k /\ k # 1 /\ i + 1 = k /\ (k < n <=> i < n - 1)
          /\ (i < n - 1 => i + 1 \in 1 .. n - 1)
      BY <2>0, <2>2, <1>1, <1>2
    <3>2. r[i] = s[i] /\ (i < n - 1 => r[i + 1] = s[k + 1])
      BY <3>1, <1>4
    <3>3. s[i] # x /\ s[i] \in Node
      BY <2>0, <3>1, <1>1, <1>2
    <3>4. f[s[i]].next = m[x].next
      BY <2>2, <3>1, <3>3, <1>5, <1>6
    <3> QED BY <3>1, <3>2, <3>4, <1>5
  <2>3. CASE i > k - 1
    <3>1. ~(i < k) /\ i + 1 # k /\ (i < n - 1 => i + 1 \in 1 .. n - 1 /\ ~(i + 1 < k))
          /\ (i < n - 1 <=> i + 1 < n) /\ (k # 1 => k - 1 \in 1 .. n /\ i + 1 # k - 1)
      BY <2>0, <2>3, <1>1, <1>2
    <3>2. r[i] = s[i + 1] /\ (i < n - 1 => r[i + 1] = s[(i + 1) + 1])
      BY <3>1, <1>4
    <3>3. s[i + 1] # x /\ (k # 1 => s[i + 1] # s[k - 1]) /\ s[i + 1] # h /\ s[i + 1] \in Node
      BY <2>0, <3>1, <1>1, <1>2
    <3>4. f[s[i + 1]].next = m[s[i + 1]].next
      BY <3>3, <1>5, <1>6
    <3>5. m[s[i + 1]].next = IF i + 1 < n THEN s[(i + 1) + 1] ELSE h
      BY <2>0 DEF IsRing
    <3> QED BY <3>1, <3>2, <3>4, <3>5
  <2> QED BY <2>0, <2>1, <2>2, <2>3
<1>9. r = <<>> <=> n = 1
  BY <1>1, <1>2, <1>4, SeqElements
<1> QED
  BY <1>3, <1>4, <1>7, <1>8, <1>9 DEF IsRing, f

\* What myptm_queue_move does to the next pointers.
LEMMA MovedNext ==
    ASSUME NEW m \in Memory, NEW S \in SUBSET ListHead, PointBack(m, S),
           NEW h \in Node \ S, NEW x \in Node \ S, h # x, m[x].prev = x
    PROVE  \A y \in Node : Moved(m, h, x)[y].next =
               IF y = h THEN h
               ELSE IF y = x THEN IF m[h].next = h THEN x ELSE m[h].next
               ELSE IF y = m[h].prev THEN x ELSE m[y].next
<1> DEFINE f == InsertedTail(m, h, x)
<1>1. /\ m[h].prev \in Node \ S /\ m[m[h].prev].next = h /\ m[x].next = x
      /\ m[h].prev # x /\ (m[h].prev = h <=> m[h].next = h)
  BY EmptyByPrev DEF PointBack, Memory
<1>2. \A y \in Node : f[y].next = IF y = x THEN h ELSE IF y = m[h].prev THEN x ELSE m[y].next
  BY InsertedTailNext
<1>3. f \in Memory /\ PointBack(f, S)
  BY InsertedTailKeepsRings
<1>4. f[h].prev = x
  BY <1>1 DEF InsertedTail, Memory
<1> HIDE DEF f
<1>5. \A y \in Node : Removed(f, h)[y].next =
          IF y = h THEN h ELSE IF y = x THEN f[h].next ELSE f[y].next
  BY <1>3, <1>4, RemovedNext
<1>6. f[h].next = IF m[h].next = h THEN x ELSE m[h].next
  BY <1>1, <1>2
<1> QED
  BY <1>2, <1>5, <1>6 DEF Moved, f

\* myptm_queue_move to a head whose list is empty
LEMMA MoveRing ==
    ASSUME NEW m \in Memory, NEW S \in SUBSET ListHead, PointBack(m, S),
           NEW h \in ListHead \ S, NEW s, IsRing(m, h, s),
           NEW x \in ListHead \ S, h # x, m[x].prev = x
    PROVE  IsRing(Moved(m, h, x), h, <<>>) /\ IsRing(Moved(m, h, x), x, s)
<1> DEFINE f == Moved(m, h, x)
           n == Len(s)
           last == IF s = <<>> THEN h ELSE s[n]
<1>1. /\ s \in Seq(Elem) /\ n \in Nat /\ (n = 0 <=> s = <<>>)
      /\ \A i \in 1 .. n : s[i] \in Node /\ s[i] # h /\ s[i] # x
      /\ \A i, j \in 1 .. n : s[i] = s[j] => i = j
      /\ h \in Node \ S /\ x \in Node \ S
  BY SeqElements, QueueAssumption DEF IsRing, IsInjective, Node
<1>2. m[h].prev = last
  BY RingPrev
<1>3. \A y \in Node : f[y].next =
          IF y = h THEN h
          ELSE IF y = x THEN IF m[h].next = h THEN x ELSE m[h].next
          ELSE IF y = last THEN x ELSE m[y].next
  BY <1>1, <1>2, MovedNext
<1> HIDE DEF f
<1>4. IsRing(f, h, <<>>)
  <2>1. Len(<<>>) = 0 /\ f[h].next = h
    BY <1>1, <1>3
  <2> QED BY <2>1, EmptyLemma DEF IsRing
<1>5. f[x].next = IF s = <<>> THEN x ELSE s[1]
  <2>1. CASE n = 0
    BY <2>1, <1>1, <1>3 DEF IsRing
  <2>2. CASE n # 0
    <3>1. 1 \in 1 .. n
      BY <2>2, <1>1
    <3> QED BY <3>1, <2>2, <1>1, <1>3 DEF IsRing
  <2> QED BY <2>1, <2>2
<1>6. ASSUME NEW i \in 1 .. n PROVE f[s[i]].next = IF i < n THEN s[i + 1] ELSE x
  <2>1. n \in 1 .. n /\ last = s[n] /\ i \in Int
    BY <1>1
  <2>2. CASE i = n
    BY <2>1, <2>2, <1>1, <1>3
  <2>3. CASE i # n
    <3>1. s[i] # s[n] /\ i < n
      BY <2>1, <2>3, <1>1
    <3>2. f[s[i]].next = m[s[i]].next
      BY <2>1, <3>1, <1>1, <1>3
    <3> QED BY <3>1, <3>2 DEF IsRing
  <2> QED BY <2>2, <2>3
<1> QED
  BY <1>4, <1>5, <1>6 DEF IsRing, f

\* myptm_queue_split before the i-th element
LEMMA SplitRing ==
    ASSUME NEW m \in Memory, NEW S \in SUBSET ListHead, PointBack(m, S),
           NEW h \in ListHead \ S, NEW s, IsRing(m, h, s), NEW k \in 1 .. Len(s),
           NEW x \in ListHead \ S, h # x, m[x].prev = x
    PROVE  /\ IsRing(SplitAt(m, h, s[k], x), h, SubSeq(s, 1, k - 1))
           /\ IsRing(SplitAt(m, h, s[k], x), x, SubSeq(s, k, Len(s)))
<1> DEFINE f == SplitAt(m, h, s[k], x)
           n == Len(s)
           a == SubSeq(s, 1, k - 1)
           b == SubSeq(s, k, n)
           before == IF k = 1 THEN h ELSE s[k - 1]
<1>1. /\ s \in Seq(Elem) /\ n \in Nat /\ s # <<>> /\ n \in 1 .. n
      /\ \A i \in 1 .. n : s[i] \in Node \ S /\ s[i] # h /\ s[i] # x
      /\ \A i, j \in 1 .. n : s[i] = s[j] => i = j
      /\ h \in Node \ S /\ x \in Node \ S
  <2>1. s \in Seq(Elem) /\ IsInjective(s)
    BY DEF IsRing
  <2>2. n \in Nat /\ n \in 1 .. n
    BY <2>1
  <2> QED BY <2>1, <2>2, SeqElements, QueueAssumption DEF IsInjective, Node
<1>2. m[h].prev = s[n] /\ m[s[k]].prev = before
  BY <1>1, RingPrev
<1>3. \A y \in Node : f[y].next = IF y = before THEN h ELSE IF y = s[n] THEN x
                                  ELSE IF y = x THEN s[k] ELSE m[y].next
  BY <1>1, <1>2, SplitNext
<1>4. /\ a \in Seq(Elem) /\ Len(a) = k - 1 /\ \A i \in 1 .. k - 1 : a[i] = s[i]
      /\ b \in Seq(Elem) /\ Len(b) = n - k + 1 /\ \A i \in 1 .. n - k + 1 : b[i] = s[i + k - 1]
      /\ IsInjective(a) /\ IsInjective(b)
  <2>1. k - 1 \in 0 .. n /\ (k - 1) + 1 = k
    BY <1>1
  <2>2. IsInjective(a) /\ IsInjective(b)
    BY <2>1, <1>1, SplitLemma DEF IsRing
  <2>3. a \in Seq(Elem) /\ Len(a) = k - 1 /\ \A i \in 1 .. k - 1 : a[i] = s[i]
    BY <1>1
  <2>4. b \in Seq(Elem) /\ Len(b) = n - k + 1 /\ \A i \in 1 .. n - k + 1 : b[i] = s[i + k - 1]
    BY <1>1
  <2> QED BY <2>2, <2>3, <2>4
<1> HIDE DEF f, a, b
<1>5. (a = <<>> <=> k = 1) /\ b # <<>>
  <2>1. (Len(a) = 0 <=> a = <<>>) /\ (Len(b) = 0 <=> b = <<>>)
    BY <1>4, SeqElements
  <2>2. Len(b) # 0 /\ (Len(a) = 0 <=> k = 1)
    BY <1>1, <1>4
  <2> QED BY <2>1, <2>2
<1>6. f[h].next = IF a = <<>> THEN h ELSE a[1]
  <2>1. CASE k = 1
    BY <2>1, <1>1, <1>3, <1>5
  <2>2. CASE k # 1
    <3>1. k - 1 \in 1 .. n /\ 1 \in 1 .. k - 1
      BY <2>2, <1>1
    <3>2. f[h].next = m[h].next /\ m[h].next = s[1]
      BY <3>1, <2>2, <1>1, <1>3 DEF IsRing
    <3> QED BY <3>1, <3>2, <2>2, <1>4, <1>5
  <2> QED BY <2>1, <2>2
<1>7. ASSUME NEW i \in 1 .. k - 1 PROVE f[a[i]].next = IF i < k - 1 THEN a[i + 1] ELSE h
  <2>1. /\ i \in 1 .. n /\ i < n /\ i # n /\ a[i] = s[i] /\ k # 1 /\ k - 1 \in 1 .. n
        /\ i \in Int /\ k \in Int /\ s[i] # s[n] /\ (i < k - 1 => i + 1 \in 1 .. k - 1)
    BY <1>1, <1>4
  <2>2. m[s[i]].next = s[i + 1]
    BY <2>1 DEF IsRing
  <2>3. CASE i = k - 1
    BY <2>1, <2>3, <1>1, <1>3
  <2>4. CASE i # k - 1
    <3>1. s[i] # s[k - 1] /\ i < k - 1
      BY <2>1, <2>4, <1>1
    <3>2. f[s[i]].next = s[i + 1]
      BY <2>1, <2>2, <3>1, <1>1, <1>3
    <3> QED BY <3>1, <3>2, <2>1, <1>4
  <2> QED BY <2>3, <2>4
<1>8. f[x].next = b[1]
  <2>1. before # x /\ s[n] # x
    <3>1. k # 1 => k - 1 \in 1 .. n
      BY <1>1
    <3> QED BY <3>1, <1>1
  <2>2. 1 \in 1 .. n - k + 1 /\ 1 + k - 1 = k
    BY <1>1
  <2> QED BY <2>1, <2>2, <1>1, <1>3, <1>4
<1>9. ASSUME NEW i \in 1 .. n - k + 1
      PROVE  f[b[i]].next = IF i < n - k + 1 THEN b[i + 1] ELSE x
  <2> DEFINE j == i + k - 1
  <2>1. /\ j \in 1 .. n /\ b[i] = s[j] /\ j >= k /\ (i < n - k + 1 <=> j < n)
        /\ (i < n - k + 1 => i + 1 \in 1 .. n - k + 1 /\ (i + 1) + k - 1 = j + 1)
        /\ (k # 1 => k - 1 \in 1 .. n /\ j # k - 1) /\ i \in Int
    BY <1>1, <1>4
  <2> HIDE DEF j
  <2>2. s[j] # before
    BY <2>1, <1>1
  <2>3. CASE j = n
    BY <2>1, <2>2, <2>3, <1>1, <1>3
  <2>4. CASE j # n
    <3>1. s[j] # s[n] /\ j < n
      BY <2>1, <2>4, <1>1
    <3>2. f[s[j]].next = m[s[j]].next
      BY <2>1, <2>2, <3>1, <1>1, <1>3
    <3>3. m[s[j]].next = s[j + 1]
      BY <2>1, <3>1 DEF IsRing
    <3>4. b[i + 1] = s[j + 1]
      BY <2>1, <3>1, <1>4
    <3> QED BY <2>1, <3>1, <3>2, <3>3, <3>4
  <2> QED BY <2>3, <2>4
<1>10. IsRing(f, h, a)
  BY <1>4, <1>6, <1>7 DEF IsRing
<1>11. IsRing(f, x, b)
  BY <1>4, <1>5, <1>8, <1>9 DEF IsRing
<1> QED
  BY <1>10, <1>11 DEF f, a, b

\* myptm_queue_add
LEMMA ConcatRing ==
    ASSUME NEW m \in Memory, NEW S \in SUBSET ListHead, PointBack(m, S),
           NEW h \in ListHead \ S, NEW s, IsRing(m, h, s),
           NEW x \in ListHead \ S, NEW t, IsRing(m, x, t),
           h # x, Range(s) \cap Range(t) = {}
    PROVE  IsRing(Added(m, h, x), h, s \o t)
<1> DEFINE f == Added(m, h, x)
           r == s \o t
           n == Len(s)
           l == Len(t)
           last == IF n = 0 THEN h ELSE s[n]
           end == IF l = 0 THEN last ELSE t[l]
<1>1. /\ s \in Seq(Elem) /\ n \in Nat /\ (n = 0 <=> s = <<>>)
      /\ t \in Seq(Elem) /\ l \in Nat /\ (l = 0 <=> t = <<>>)
      /\ \A i \in 1 .. n : s[i] \in Node /\ s[i] # h /\ s[i] # x
      /\ \A i \in 1 .. l : t[i] \in Node /\ t[i] # h /\ t[i] # x
      /\ \A i, j \in 1 .. n : s[i] = s[j] => i = j
      /\ \A i, j \in 1 .. l : t[i] = t[j] => i = j
      /\ h \in Node \ S /\ x \in Node \ S
  BY SeqElements, QueueAssumption DEF IsRing, IsInjective, Node
<1>2. \A i \in 1 .. n, j \in 1 .. l : s[i] # t[j]
  BY <1>1, SeqElements
<1>3. /\ r \in Seq(Elem) /\ IsInjective(r) /\ Len(r) = n + l
      /\ \A i \in 1 .. n + l : r[i] = IF i <= n THEN s[i] ELSE t[i - n]
  <2>1. r \in Seq(Elem) /\ IsInjective(r)
    BY <1>1, ConcatLemma DEF IsRing
  <2>2. /\ Len(s \o t) = Len(s) + Len(t)
        /\ \A i \in 1 .. Len(s \o t) : (s \o t)[i] = IF i <= Len(s) THEN s[i] ELSE t[i - Len(s)]
    BY <1>1, ConcatElements
  <2> QED BY <2>1, <2>2
<1> HIDE DEF r
<1>4. /\ m[h].prev = last
      /\ m[x].prev = IF l = 0 THEN x ELSE t[l]
      /\ m[x].next = IF l = 0 THEN x ELSE t[1]
      /\ m[x].next = x <=> l = 0
  <2>1. m[h].prev = last
    BY <1>1, RingPrev
  <2>2. m[x].prev = IF l = 0 THEN x ELSE t[l]
    BY <1>1, RingPrev
  <2>3. m[x].next = IF l = 0 THEN x ELSE t[1]
    BY <1>1 DEF IsRing
  <2>4. l # 0 => 1 \in 1 .. l
    BY <1>1
  <2> QED BY <2>1, <2>2, <2>3, <2>4, <1>1
<1>5. \A y \in Node : f[y].next =
          IF y = end THEN h ELSE IF y = last THEN m[x].next ELSE m[y].next
  <2>1. \A y \in Node : f[y].next =
            IF y = IF m[x].next = x THEN m[h].prev ELSE m[x].prev THEN h
            ELSE IF y = m[h].prev THEN m[x].next ELSE m[y].next
    BY <1>1, AddedNext
  <2>2. (IF m[x].next = x THEN m[h].prev ELSE m[x].prev) = end
    BY <1>4
  <2> QED BY <2>1, <2>2, <1>4
<1> HIDE DEF f
<1>6. r = <<>> <=> n + l = 0
  BY <1>3, SeqElements
<1>7. f[h].next = IF r = <<>> THEN h ELSE r[1]
  <2>1. CASE n = 0 /\ l = 0
    BY <2>1, <1>1, <1>5, <1>6
  <2>2. CASE n = 0 /\ l # 0
    <3>1. 1 \in 1 .. l /\ l \in 1 .. l /\ 1 \in 1 .. n + l /\ ~(1 <= n) /\ 1 - n = 1 /\ n + l # 0
      BY <2>2, <1>1
    <3>2. h # end /\ last = h
      BY <2>2, <3>1, <1>1
    <3>3. f[h].next = t[1]
      BY <2>2, <3>2, <1>1, <1>4, <1>5
    <3> QED BY <3>1, <3>3, <1>3, <1>6
  <2>3. CASE n # 0
    <3>1. 1 \in 1 .. n /\ n \in 1 .. n /\ 1 \in 1 .. n + l /\ 1 <= n /\ n + l # 0
          /\ (l # 0 => l \in 1 .. l)
      BY <2>3, <1>1
    <3>2. h # end /\ h # last
      BY <2>3, <3>1, <1>1
    <3>3. f[h].next = s[1]
      BY <2>3, <3>2, <1>1, <1>5 DEF IsRing
    <3> QED BY <3>1, <3>3, <1>3, <1>6
  <2> QED BY <2>1, <2>2, <2>3
<1>8. ASSUME NEW i \in 1 .. n + l PROVE f[r[i]].next = IF i < n + l THEN r[i + 1] ELSE h
  <2>0. i \in Int /\ n \in Int /\ l \in Int /\ (i < n + l => i + 1 \in 1 .. n + l)
    BY <1>1
  <2>1. CASE i < n
    <3>1. i \in 1 .. n /\ n \in 1 .. n /\ n # 0 /\ i < n + l /\ i <= n /\ i + 1 <= n /\ i # n
          /\ (l # 0 => l \in 1 .. l)
      BY <2>0, <2>1, <1>1
    <3>2. r[i] = s[i] /\ r[i + 1] = s[i + 1]
      BY <2>0, <3>1, <1>3
    <3>3. s[i] # last /\ s[i] # end
      BY <3>1, <1>1, <1>2
    <3>4. f[s[i]].next = m[s[i]].next
      BY <3>1, <3>3, <1>1, <1>5
    <3>5. m[s[i]].next = s[i + 1]
      BY <2>1, <3>1 DEF IsRing
    <3> QED BY <3>1, <3>2, <3>4, <3>5
  <2>2. CASE i = n
    <3>1. i \in 1 .. n /\ n # 0 /\ i <= n /\ (i < n + l <=> l # 0) /\ ~(i + 1 <= n) /\ (i + 1) - n = 1
          /\ (l # 0 => l \in 1 .. l /\ 1 \in 1 .. l)
      BY <2>0, <2>2, <1>1
    <3>2. r[i] = s[n] /\ last = s[n] /\ (l # 0 => r[i + 1] = t[1])
      BY <2>0, <2>2, <3>1, <1>3
    <3>3. CASE l = 0
      BY <2>2, <3>1, <3>2, <3>3, <1>1, <1>5
    <3>4. CASE l # 0
      <4>1. s[n] # end
        BY <2>2, <3>1, <3>4, <1>2
      <4>2. f[s[n]].next = m[x].next
        BY <2>2, <3>1, <3>2, <4>1, <1>1, <1>5
      <4> QED BY <3>1, <3>2, <3>4, <4>2, <1>4
    <3> QED BY <3>3, <3>4
  <2>3. CASE i > n
    <3> DEFINE j == i - n
    <3>1. j \in 1 .. l /\ ~(i <= n) /\ (i < n + l <=> j < l) /\ ~(i + 1 <= n) /\ (i + 1) - n = j + 1
          /\ l # 0 /\ l \in 1 .. l /\ (n # 0 => n \in 1 .. n)
      BY <2>0, <2>3, <1>1
    <3>2. r[i] = t[j] /\ (i < n + l => r[i + 1] = t[j + 1])
      <4>1. r[i] = t[i - n]
        BY <3>1, <1>3
      <4>2. ASSUME i < n + l PROVE r[i + 1] = t[(i + 1) - n]
        <5>1. i + 1 \in 1 .. n + l
          BY <2>0, <4>2
        <5> QED BY <5>1, <3>1, <1>3
      <4> QED BY <4>1, <4>2, <3>1
    <3> HIDE DEF j
    <3>3. t[j] # last
      BY <3>1, <1>1, <1>2
    <3>4. CASE j = l
      BY <3>1, <3>2, <3>4, <1>1, <1>5
    <3>5. CASE j # l
      <4>1. j < l /\ t[j] # t[l]
        BY <3>1, <3>5, <1>1
      <4>2. f[t[j]].next = m[t[j]].next
        BY <3>1, <3>3, <4>1, <1>1, <1>5
      <4>3. m[t[j]].next = t[j + 1]
        BY <3>1, <4>1 DEF IsRing
      <4> QED BY <3>1, <3>2, <4>1, <4>2, <4>3
    <3> QED BY <3>4, <3>5
  <2> QED BY <2>0, <2>1, <2>2, <2>3
<1> QED
  BY <1>3, <1>7, <1>8 DEF IsRing, f, r

-----------------------------------------------------------------------------
\* The rings have no element in common, and no head but their own.
LEMMA RingsApart ==
    ASSUME NEW m, NEW S, NEW L, AreRings(m, S, L),
           NEW g \in ListHead, NEW h \in ListHead, g # h,
           NEW y \in {h} \cup Range(L[h])
    PROVE  y \notin {g} \cup Range(L[g])
<1>1. \A i \in ListHead : L[i] \in Seq(Elem)
  BY DEF AreRings
<1>2. Range(L[g]) \subseteq Elem /\ Range(L[h]) \subseteq Elem
  BY <1>1, SeqElements
<1> QED
  BY <1>2, QueueAssumption DEF AreRings

\* An element is in a list if, and only if, its prev says so;
LEMMA FreeIsAlone ==
    ASSUME NEW m \in Memory, NEW S \in SUBSET ListHead, PointBack(m, S),
           NEW L, AreRings(m, S, L), NEW x \in Elem
    PROVE  m[x].prev = x <=> \A h \in ListHead : x \notin Range(L[h])
<1>1. x \in Node \ S
  BY QueueAssumption DEF Node
<1>2. ASSUME m[x].prev = x, NEW h \in ListHead, x \in Range(L[h])
      PROVE  FALSE
  <2>1. m[x].next = x
    BY <1>1, <1>2, EmptyByPrev
  <2>2. L[h] \in Seq(Elem) /\ L[h] # <<>>
    BY <1>2, EmptyLemma DEF AreRings
  <2>3. h \notin S /\ IsRing(m, h, L[h]) /\ h # x
    BY <2>2, QueueAssumption DEF AreRings
  <2>4. PICK i \in 1 .. Len(L[h]) : L[h][i] = x
    BY <1>2, <2>2, SeqElements DEF Range
  <2>5. \A j \in 1 .. Len(L[h]) : L[h][j] = x => j = i
    BY <2>2, <2>3, <2>4, SeqElements DEF IsRing, IsInjective
  <2>6. i < Len(L[h]) => i + 1 \in 1 .. Len(L[h]) /\ i + 1 # i
    BY <2>2, SeqElements
  <2>7. m[x].next = IF i < Len(L[h]) THEN L[h][i + 1] ELSE h
    BY <2>3, <2>4 DEF IsRing
  <2> QED BY <2>1, <2>3, <2>5, <2>6, <2>7
<1>3. ASSUME \A h \in ListHead : x \notin Range(L[h])
      PROVE  m[x].prev = x
  BY <1>1, <1>3 DEF AreRings, PointBack
<1> QED
  BY <1>2, <1>3

\* and so the list of a head is empty.
LEMMA HeadIsAlone ==
    ASSUME NEW m \in Memory, NEW S \in SUBSET ListHead, PointBack(m, S),
           NEW L, AreRings(m, S, L), NEW h \in ListHead \ S
    PROVE  m[h].prev = h <=> L[h] = <<>>
<1>1. IsRing(m, h, L[h]) /\ L[h] \in Seq(Elem)
  BY DEF AreRings
<1>2. L[h] # <<>> => L[h][Len(L[h])] \in Elem
  <2>1. L[h] # <<>> => Len(L[h]) \in 1 .. Len(L[h])
    BY <1>1, LastPlace
  <2> QED BY <1>1, <2>1, SeqElements
<1> QED
  BY <1>1, <1>2, RingPrev, QueueAssumption

\* One list becomes r, which x may have joined or left.
LEMMA OneChanges ==
    ASSUME NEW m, NEW f, NEW S \in SUBSET ListHead, NEW L, AreRings(m, S, L),
           NEW h \in ListHead \ S, NEW r, IsRing(f, h, r),
           NEW x \in Elem, Range(r) \subseteq Range(L[h]) \cup {x},
           \A g \in ListHead : g # h => x \notin Range(L[g]),
           \A y \in Node : y \notin {h, x} \cup Range(L[h]) => f[y].next = m[y].next,
           \A y \in {x} \cup Range(L[h]) : y \in Range(r) \/ f[y].next = y
    PROVE  AreRings(f, S, [L EXCEPT ![h] = r])
<1> DEFINE K == [L EXCEPT ![h] = r]
<1>1. /\ K \in [ListHead -> Seq(Elem)] /\ K[h] = r
      /\ \A g \in ListHead : g # h => K[g] = L[g]
  BY DEF AreRings, IsRing
<1> HIDE DEF K
<1>2. \A g \in S : K[g] = <<>>
  BY <1>1 DEF AreRings
<1>3. ASSUME NEW g \in ListHead \ S, g # h PROVE IsRing(f, g, K[g])
  <2>1. \A y \in {g} \cup Range(L[g]) : y \notin {h} \cup Range(L[h])
    BY <1>3, RingsApart
  <2>2. x \notin {g} \cup Range(L[g])
    BY <1>3, QueueAssumption
  <2>3. Range(L[g]) \subseteq Elem
    BY SeqElements DEF AreRings
  <2>4. \A y \in {g} \cup Range(L[g]) : f[y].next = m[y].next
    BY <2>1, <2>2, <2>3 DEF Node
  <2>5. IsRing(m, g, L[g])
    BY DEF AreRings
  <2>6. IsRing(f, g, L[g])
    BY <2>4, <2>5, RingSame
  <2> QED BY <2>6, <1>1, <1>3
<1>4. \A g \in ListHead \ S : IsRing(f, g, K[g])
  BY <1>1, <1>3
<1>5. \A g, i \in ListHead : g # i => Range(K[g]) \cap Range(K[i]) = {}
  <2>1. \A g \in ListHead : g # h => Range(r) \cap Range(L[g]) = {}
    BY DEF AreRings
  <2>2. \A g, i \in ListHead : g # i => Range(L[g]) \cap Range(L[i]) = {}
    BY DEF AreRings
  <2> QED BY <2>1, <2>2, <1>1
<1>6. ASSUME NEW y \in Elem PROVE f[y].next = y \/ \E g \in ListHead : y \in Range(K[g])
  <2>1. CASE y \in {x} \cup Range(L[h])
    BY <2>1, <1>1
  <2>2. CASE y \notin {x} \cup Range(L[h])
    <3>1. f[y].next = m[y].next
      BY <2>2, QueueAssumption DEF Node
    <3>2. m[y].next = y \/ \E g \in ListHead : y \in Range(L[g])
      BY DEF AreRings
    <3> QED BY <2>2, <3>1, <3>2, <1>1
  <2> QED BY <2>1, <2>2
<1> QED
  BY <1>1, <1>2, <1>4, <1>5, <1>6 DEF AreRings, K

\* The list of h becomes a, and the empty one of x becomes b.
LEMMA TwoChange ==
    ASSUME NEW m, NEW f, NEW S \in SUBSET ListHead, NEW L, AreRings(m, S, L),
           NEW h \in ListHead \ S, NEW x \in ListHead \ S, h # x, L[x] = <<>>,
           NEW a, NEW b, IsRing(f, h, a), IsRing(f, x, b),
           Range(a) \cup Range(b) = Range(L[h]), Range(a) \cap Range(b) = {},
           \A y \in Node : y \notin {h, x} \cup Range(L[h]) => f[y].next = m[y].next
    PROVE  AreRings(f, S, [L EXCEPT ![h] = a, ![x] = b])
<1> DEFINE K == [L EXCEPT ![h] = a, ![x] = b]
<1>1. /\ K \in [ListHead -> Seq(Elem)] /\ K[h] = a /\ K[x] = b
      /\ \A g \in ListHead : g # h /\ g # x => K[g] = L[g]
  BY DEF AreRings, IsRing
<1> HIDE DEF K
<1>2. \A g \in S : K[g] = <<>>
  BY <1>1 DEF AreRings
<1>3. ASSUME NEW g \in ListHead \ S, g # h, g # x PROVE IsRing(f, g, K[g])
  <2>1. \A y \in {g} \cup Range(L[g]) : y \notin {h} \cup Range(L[h])
    BY <1>3, RingsApart
  <2>2. Range(L[g]) \subseteq Elem
    BY SeqElements DEF AreRings
  <2>3. x \notin {g} \cup Range(L[g])
    BY <1>3, <2>2, QueueAssumption
  <2>4. \A y \in {g} \cup Range(L[g]) : f[y].next = m[y].next
    BY <2>1, <2>2, <2>3 DEF Node
  <2>5. IsRing(m, g, L[g])
    BY DEF AreRings
  <2>6. IsRing(f, g, L[g])
    BY <2>4, <2>5, RingSame
  <2> QED BY <2>6, <1>1, <1>3
<1>4. \A g \in ListHead \ S : IsRing(f, g, K[g])
  BY <1>1, <1>3
<1>5. \A g, i \in ListHead : g # i => Range(K[g]) \cap Range(K[i]) = {}
  <2>1. \A g \in ListHead : g # h => (Range(a) \cup Range(b)) \cap Range(L[g]) = {}
    BY DEF AreRings
  <2>2. \A g, i \in ListHead : g # i => Range(L[g]) \cap Range(L[i]) = {}
    BY DEF AreRings
  <2>3. ASSUME NEW g \in ListHead, g # h, g # x
        PROVE  /\ Range(K[g]) \cap Range(a) = {} /\ Range(K[g]) \cap Range(b) = {}
               /\ K[g] = L[g]
    BY <2>1, <2>3, <1>1
  <2> TAKE g, i \in ListHead
  <2> HAVE g # i
  <2>4. CASE g \in {h, x} /\ i \in {h, x}
    BY <2>4, <1>1
  <2>5. CASE g \in {h, x} /\ i \notin {h, x}
    BY <2>3, <2>5, <1>1
  <2>6. CASE g \notin {h, x} /\ i \in {h, x}
    BY <2>3, <2>6, <1>1
  <2>7. CASE g \notin {h, x} /\ i \notin {h, x}
    BY <2>2, <2>3, <2>7
  <2> QED BY <2>4, <2>5, <2>6, <2>7
<1>6. ASSUME NEW y \in Elem PROVE f[y].next = y \/ \E g \in ListHead : y \in Range(K[g])
  <2>1. CASE y \in Range(L[h])
    BY <2>1, <1>1
  <2>2. CASE y \notin Range(L[h])
    <3>1. f[y].next = m[y].next
      BY <2>2, QueueAssumption DEF Node
    <3>2. m[y].next = y \/ \E g \in ListHead : y \in Range(L[g])
      BY DEF AreRings
    <3>3. Range(L[x]) = {}
      BY EmptyLemma
    <3> QED BY <2>2, <3>1, <3>2, <3>3, <1>1
  <2> QED BY <2>1, <2>2
<1> QED
  BY <1>1, <1>2, <1>4, <1>5, <1>6 DEF AreRings, K

\* The list of x joins that of h, and x is not a head any more.
LEMMA TwoJoin ==
    ASSUME NEW m, NEW f, NEW S \in SUBSET ListHead, NEW L, AreRings(m, S, L),
           NEW h \in ListHead \ S, NEW x \in ListHead \ S, h # x,
           IsRing(f, h, L[h] \o L[x]),
           \A y \in Node : y \notin {h} \cup Range(L[h]) \cup Range(L[x])
                               => f[y].next = m[y].next
    PROVE  AreRings(f, S \cup {x}, [L EXCEPT ![h] = L[h] \o L[x], ![x] = <<>>])
<1> DEFINE r == L[h] \o L[x]
           K == [L EXCEPT ![h] = r, ![x] = <<>>]
<1>0. r \in Seq(Elem) /\ Range(r) = Range(L[h]) \cup Range(L[x])
  BY ConcatLemma DEF AreRings
<1> HIDE DEF r
<1>1. /\ K \in [ListHead -> Seq(Elem)] /\ K[h] = r /\ K[x] = <<>>
      /\ \A g \in ListHead : g # h /\ g # x => K[g] = L[g]
  BY <1>0, EmptyLemma DEF AreRings
<1> HIDE DEF K
<1>2. \A g \in S \cup {x} : K[g] = <<>>
  BY <1>1 DEF AreRings
<1>3. ASSUME NEW g \in ListHead \ S, g # h, g # x PROVE IsRing(f, g, K[g])
  <2>1. \A y \in {g} \cup Range(L[g]) : y \notin {h} \cup Range(L[h])
    BY <1>3, RingsApart
  <2>2. \A y \in {g} \cup Range(L[g]) : y \notin {x} \cup Range(L[x])
    BY <1>3, RingsApart
  <2>3. Range(L[g]) \subseteq Elem
    BY SeqElements DEF AreRings
  <2>4. \A y \in {g} \cup Range(L[g]) : f[y].next = m[y].next
    BY <2>1, <2>2, <2>3 DEF Node
  <2>5. IsRing(m, g, L[g])
    BY DEF AreRings
  <2>6. IsRing(f, g, L[g])
    BY <2>4, <2>5, RingSame
  <2> QED BY <2>6, <1>1, <1>3
<1>4. \A g \in ListHead \ (S \cup {x}) : IsRing(f, g, K[g])
  BY <1>1, <1>3 DEF r
<1>5. \A g, i \in ListHead : g # i => Range(K[g]) \cap Range(K[i]) = {}
  <2>1. \A g, i \in ListHead : g # i => Range(L[g]) \cap Range(L[i]) = {}
    BY DEF AreRings
  <2>2. ASSUME NEW g \in ListHead, g # h
        PROVE  Range(K[g]) \cap Range(K[h]) = {}
    <3>1. CASE g = x
      BY <3>1, <1>1, EmptyLemma
    <3>2. CASE g # x
      BY <3>2, <2>1, <2>2, <1>0, <1>1
    <3> QED BY <3>1, <3>2
  <2> TAKE g, i \in ListHead
  <2> HAVE g # i
  <2>3. CASE g = x \/ i = x
    BY <2>3, <1>1, EmptyLemma
  <2>4. CASE g = h \/ i = h
    BY <2>2, <2>4
  <2>5. CASE g \notin {h, x} /\ i \notin {h, x}
    BY <2>1, <2>5, <1>1
  <2> QED BY <2>3, <2>4, <2>5
<1>6. ASSUME NEW y \in Elem PROVE f[y].next = y \/ \E g \in ListHead : y \in Range(K[g])
  <2>1. CASE y \in Range(L[h]) \cup Range(L[x])
    BY <2>1, <1>0, <1>1
  <2>2. CASE y \notin Range(L[h]) \cup Range(L[x])
    <3>1. f[y].next = m[y].next
      BY <2>2, QueueAssumption DEF Node
    <3>2. m[y].next = y \/ \E g \in ListHead : y \in Range(L[g])
      BY DEF AreRings
    <3> QED BY <2>2, <3>1, <3>2, <1>1
  <2> QED BY <2>1, <2>2
<1> QED
  BY <1>1, <1>2, <1>4, <1>5, <1>6 DEF AreRings, K, r

\* A head gets an empty list again.
LEMMA HeadIsBack ==
    ASSUME NEW m \in Memory, NEW S \in SUBSET ListHead, NEW L, AreRings(m, S, L), NEW h \in S
    PROVE  AreRings([m EXCEPT ![h] = Self(h)], S \ {h}, L)
<1> DEFINE f == [m EXCEPT ![h] = Self(h)]
<1>1. h \in Node /\ f[h].next = h /\ \A y \in Node : y # h => f[y] = m[y]
  BY DEF Memory, Self, Node
<1> HIDE DEF f
<1>2. IsRing(f, h, <<>>)
  <2>1. Len(<<>>) = 0
    OBVIOUS
  <2> QED BY <2>1, <1>1, EmptyLemma DEF IsRing
<1>3. ASSUME NEW g \in ListHead \ S PROVE IsRing(f, g, L[g])
  <2>1. IsRing(m, g, L[g]) /\ Range(L[g]) \subseteq Elem
    BY SeqElements DEF AreRings
  <2>2. \A y \in {g} \cup Range(L[g]) : f[y].next = m[y].next
    BY <2>1, <1>1, QueueAssumption DEF Node
  <2> QED BY <2>1, <2>2, RingSame
<1>4. L[h] = <<>>
  BY DEF AreRings
<1>5. \A g \in ListHead \ (S \ {h}) : IsRing(f, g, L[g])
  BY <1>2, <1>3, <1>4
<1>6. \A y \in Elem : f[y].next = m[y].next
  BY <1>1, QueueAssumption DEF Node
<1> QED
  BY <1>5, <1>6 DEF AreRings, f

-----------------------------------------------------------------------------
(***************************************************************************)
(* The invariant, and what each action does to the lists.                  *)
(***************************************************************************)
RingsInv == RingsOK /\ AreRings(node, stale, Lists)

LEMMA RingsFacts ==
    ASSUME RingsInv
    PROVE  /\ node \in Memory /\ stale \in SUBSET ListHead /\ PointBack(node, stale)
           /\ AreRings(node, stale, Lists) /\ Lists \in [ListHead -> Seq(Elem)]
           /\ \A h \in ListHead \ stale : IsRing(node, h, Lists[h]) /\ Lists[h] = After(node, h)
           /\ ListHead \subseteq Node /\ Elem \subseteq Node /\ Elem \cap stale = {}
BY QueueAssumption DEF RingsInv, RingsOK, Memory, AreRings, Lists, Node

\* What node' and Lists' are when the macro is done.
Becomes(L) == AreRings(node', stale', L) /\ Lists' = L

LEMMA InsertTailDoes ==
    ASSUME RingsInv, NEW h \in ListHead, NEW x \in Elem, InsertTail(h, x)
    PROVE  /\ \A g \in ListHead : x \notin Range(Lists[g])
           /\ Becomes([Lists EXCEPT ![h] = Append(@, x)])
<1> USE RingsFacts
<1>1. node' = InsertedTail(node, h, x) /\ stale' = stale /\ h \notin stale /\ node[x].prev = x
  BY DEF InsertTail, Alone
<1> DEFINE s == Lists[h]
           f == InsertedTail(node, h, x)
<1>2. \A g \in ListHead : x \notin Range(Lists[g])
  BY <1>1, FreeIsAlone
<1>3. IsRing(f, h, Append(s, x))
  BY <1>1, <1>2, AppendRing
<1>4. \A y \in Node : f[y].next =
          IF y = x THEN h ELSE IF y = node[h].prev THEN x ELSE node[y].next
  BY <1>1, QueueAssumption, InsertedTailNext
<1>5. node[h].prev \in {h} \cup Range(s)
  <2>1. s # <<>> => s[Len(s)] \in Range(s)
    BY LastPlace, SeqElements
  <2> QED BY <2>1, <1>1, RingPrev
<1>6. Range(Append(s, x)) = Range(s) \cup {x}
  BY AppendLemma
<1> HIDE DEF f
<1>7. AreRings(f, stale, [Lists EXCEPT ![h] = Append(s, x)])
  <2> DEFINE r == Append(s, x)
  <2>1. \A y \in Node : y \notin {h, x} \cup Range(s) => f[y].next = node[y].next
    BY <1>4, <1>5
  <2>2. /\ IsRing(f, h, r) /\ Range(r) \subseteq Range(s) \cup {x}
        /\ \A y \in {x} \cup Range(s) : y \in Range(r)
    BY <1>3, <1>6
  <2> HIDE DEF r
  <2>3. AreRings(f, stale, [Lists EXCEPT ![h] = r])
    BY <2>1, <2>2, <1>1, <1>2, OneChanges
  <2> QED BY <2>3 DEF r
<1>8. AreRings(node', stale', [Lists EXCEPT ![h] = Append(@, x)])
  BY <1>1, <1>7 DEF f
<1> QED
  BY <1>2, <1>8, ListsKnownNext DEF Becomes

LEMMA InsertHeadDoes ==
    ASSUME RingsInv, NEW h \in ListHead, NEW x \in Elem, InsertHead(h, x)
    PROVE  /\ \A g \in ListHead : x \notin Range(Lists[g])
           /\ Becomes([Lists EXCEPT ![h] = <<x>> \o @])
<1> USE RingsFacts
<1>1. node' = InsertedHead(node, h, x) /\ stale' = stale /\ h \notin stale /\ node[x].prev = x
  BY DEF InsertHead, Alone
<1> DEFINE s == Lists[h]
           f == InsertedHead(node, h, x)
<1>2. \A g \in ListHead : x \notin Range(Lists[g])
  BY <1>1, FreeIsAlone
<1>3. IsRing(f, h, <<x>> \o s)
  BY <1>1, <1>2, PushRing
<1>4. \A y \in Node : f[y].next =
          IF y = h THEN x ELSE IF y = x THEN node[h].next ELSE node[y].next
  BY <1>1, QueueAssumption, InsertedHeadNext
<1>5. Range(<<x>> \o s) = Range(s) \cup {x}
  BY PushLemma
<1> HIDE DEF f
<1>6. AreRings(f, stale, [Lists EXCEPT ![h] = <<x>> \o s])
  <2> DEFINE r == <<x>> \o s
  <2>1. \A y \in Node : y \notin {h, x} \cup Range(s) => f[y].next = node[y].next
    BY <1>4
  <2>2. /\ IsRing(f, h, r) /\ Range(r) \subseteq Range(s) \cup {x}
        /\ \A y \in {x} \cup Range(s) : y \in Range(r)
    BY <1>3, <1>5
  <2> HIDE DEF r
  <2>3. AreRings(f, stale, [Lists EXCEPT ![h] = r])
    BY <2>1, <2>2, <1>1, <1>2, OneChanges
  <2> QED BY <2>3 DEF r
<1>7. AreRings(node', stale', [Lists EXCEPT ![h] = <<x>> \o @])
  BY <1>1, <1>6 DEF f
<1> QED
  BY <1>2, <1>7, ListsKnownNext DEF Becomes

LEMMA RemoveNodeDoes ==
    ASSUME RingsInv, NEW x \in Elem, RemoveNode(x)
    PROVE  /\ \E g \in ListHead : x \in Range(Lists[g])
           /\ Becomes([g \in ListHead |-> Unlink(Lists[g], x)])
<1> USE RingsFacts
<1>1. node' = Removed(node, x) /\ stale' = stale /\ node[x].prev # x
  BY DEF RemoveNode, Alone
<1>2. PICK h \in ListHead : x \in Range(Lists[h])
  BY <1>1, FreeIsAlone
<1> DEFINE s == Lists[h]
           f == Removed(node, x)
           r == Unlink(s, x)
<1>3. h \notin stale
  BY <1>2, EmptyLemma DEF AreRings
<1>4. IsRing(f, h, r)
  BY <1>2, <1>3, UnlinkRing
<1>5. \A y \in Node : f[y].next =
          IF y = x THEN x ELSE IF y = node[x].prev THEN node[x].next ELSE node[y].next
  BY RemovedNext
<1>6. node[x].prev \in {h} \cup Range(s)
  <2>1. PICK i \in 1 .. Len(s) : s[i] = x
    BY <1>2, SeqElements DEF Range
  <2>2. i # 1 => i - 1 \in 1 .. Len(s)
    BY SeqElements
  <2>3. node[x].prev = IF i = 1 THEN h ELSE s[i - 1]
    BY <2>1, <1>3, RingPrev
  <2> QED BY <2>2, <2>3, SeqElements
<1>7. Range(r) = Range(s) \ {x}
  BY <1>3, UnlinkLemma DEF IsRing
<1>8. \A g \in ListHead : g # h => x \notin Range(Lists[g])
  BY <1>2 DEF AreRings
<1> HIDE DEF f, r
<1>9. AreRings(f, stale, [Lists EXCEPT ![h] = r])
  <2>1. \A y \in Node : y \notin {h, x} \cup Range(s) => f[y].next = node[y].next
    BY <1>5, <1>6
  <2>2. \A y \in {x} \cup Range(s) : y \in Range(r) \/ f[y].next = y
    BY <1>5, <1>7
  <2> QED BY <2>1, <2>2, <1>3, <1>4, <1>7, <1>8, OneChanges
<1>10. [Lists EXCEPT ![h] = r] = [g \in ListHead |-> Unlink(Lists[g], x)]
  <2>1. \A g \in ListHead : g # h => Unlink(Lists[g], x) = Lists[g]
    BY <1>8 DEF Unlink
  <2>2. [Lists EXCEPT ![h] = r] = [g \in ListHead |-> IF g = h THEN r ELSE Lists[g]]
    OBVIOUS
  <2>3. \A g \in ListHead : Unlink(Lists[g], x) = IF g = h THEN r ELSE Lists[g]
    BY <2>1 DEF r
  <2> QED BY <2>2, <2>3
<1> QED
  BY <1>1, <1>2, <1>9, <1>10, ListsKnownNext DEF Becomes, f

LEMMA MoveDoes ==
    ASSUME RingsInv, NEW h \in ListHead, NEW x \in ListHead, Move(h, x)
    PROVE  /\ h # x /\ Lists[x] = <<>>
           /\ Becomes([Lists EXCEPT ![h] = <<>>, ![x] = Lists[h]])
<1> USE RingsFacts
<1>1. /\ node' = Moved(node, h, x) /\ stale' = stale
      /\ h \notin stale /\ x \notin stale /\ node[x].prev = x /\ h # x
  BY DEF Move, Alone
<1> DEFINE s == Lists[h]
           f == Moved(node, h, x)
<1>2. Lists[x] = <<>>
  BY <1>1, HeadIsAlone
<1>3. IsRing(f, h, <<>>) /\ IsRing(f, x, s)
  BY <1>1, MoveRing
<1>4. node[h].prev \in {h} \cup Range(s)
  <2>1. s # <<>> => s[Len(s)] \in Range(s)
    BY LastPlace, SeqElements
  <2> QED BY <2>1, <1>1, RingPrev
<1>5. \A y \in Node : y \notin {h, x} \cup Range(s) => f[y].next = node[y].next
  <2>1. \A y \in Node : f[y].next =
            IF y = h THEN h
            ELSE IF y = x THEN IF node[h].next = h THEN x ELSE node[h].next
            ELSE IF y = node[h].prev THEN x ELSE node[y].next
    BY <1>1, MovedNext
  <2> QED BY <2>1, <1>4
<1>6. Range(<<>>) \cup Range(s) = Range(s) /\ Range(<<>>) \cap Range(s) = {}
  BY EmptyLemma
<1> HIDE DEF f
<1>7. AreRings(f, stale, [Lists EXCEPT ![h] = <<>>, ![x] = s])
  <2> DEFINE a == <<>>
  <2>1. IsRing(f, h, a) /\ Range(a) \cup Range(s) = Range(s) /\ Range(a) \cap Range(s) = {}
    BY <1>3, <1>6
  <2> HIDE DEF a
  <2>2. AreRings(f, stale, [Lists EXCEPT ![h] = a, ![x] = s])
    BY <2>1, <1>1, <1>2, <1>3, <1>5, TwoChange
  <2> QED BY <2>2 DEF a
<1> QED
  BY <1>1, <1>2, <1>7, ListsKnownNext DEF Becomes, f

LEMMA SplitDoes ==
    ASSUME RingsInv, NEW h \in ListHead, NEW x \in ListHead, NEW q \in Elem, Split(h, q, x)
    PROVE  /\ h # x /\ Lists[x] = <<>>
           /\ \E k \in 1 .. Len(Lists[h]) :
                 Becomes([Lists EXCEPT ![h] = SubSeq(@, 1, k - 1),
                                       ![x] = SubSeq(Lists[h], k, Len(Lists[h]))])
<1> USE RingsFacts
<1>1. /\ node' = SplitAt(node, h, q, x) /\ stale' = stale
      /\ h \notin stale /\ x \notin stale /\ node[x].prev = x /\ h # x
      /\ q \in Range(Lists[h])
  BY DEF Split, Alone
<1> DEFINE s == Lists[h]
           f == SplitAt(node, h, q, x)
<1>2. Lists[x] = <<>>
  BY <1>1, HeadIsAlone
<1>3. PICK k \in 1 .. Len(s) : s[k] = q
  BY <1>1, SeqElements DEF Range
<1> DEFINE a == SubSeq(s, 1, k - 1)
           b == SubSeq(s, k, Len(s))
<1>4. IsRing(f, h, a) /\ IsRing(f, x, b)
  BY <1>1, <1>3, SplitRing
<1>5. Range(a) \cup Range(b) = Range(s) /\ Range(a) \cap Range(b) = {}
  <2>1. k - 1 \in 0 .. Len(s) /\ (k - 1) + 1 = k
    BY SeqElements
  <2>2. s \in Seq(Elem) /\ IsInjective(s)
    BY <1>1 DEF IsRing
  <2> QED BY <2>1, <2>2, SplitLemma
<1>6. node[h].prev \in Range(s) /\ node[q].prev \in {h} \cup Range(s) /\ h # q /\ q # x
  <2>1. s # <<>>
    BY <1>1, EmptyLemma
  <2>2. node[h].prev \in Range(s)
    <3>1. Len(s) \in 1 .. Len(s)
      BY <2>1, LastPlace
    <3>2. node[h].prev = s[Len(s)]
      BY <2>1, <1>1, RingPrev
    <3> QED BY <3>1, <3>2, SeqElements
  <2>3. k # 1 => k - 1 \in 1 .. Len(s)
    BY SeqElements
  <2>4. node[q].prev = IF k = 1 THEN h ELSE s[k - 1]
    BY <1>1, <1>3, RingPrev
  <2> QED BY <2>2, <2>3, <2>4, SeqElements, QueueAssumption
<1>7. \A y \in Node : y \notin {h, x} \cup Range(s) => f[y].next = node[y].next
  <2>1. \A y \in Node : f[y].next =
            IF y = node[q].prev THEN h ELSE IF y = node[h].prev THEN x
            ELSE IF y = x THEN q ELSE node[y].next
    BY <1>1, <1>6, SplitNext
  <2> QED BY <2>1, <1>6
<1> HIDE DEF a, b, f
<1>8. AreRings(f, stale, [Lists EXCEPT ![h] = a, ![x] = b])
  BY <1>1, <1>2, <1>4, <1>5, <1>7, TwoChange
<1>9. Becomes([Lists EXCEPT ![h] = a, ![x] = b])
  BY <1>1, <1>8, ListsKnownNext DEF Becomes, f
<1> QED
  BY <1>1, <1>2, <1>9 DEF a, b

LEMMA AddDoes ==
    ASSUME RingsInv, NEW h \in ListHead, NEW x \in ListHead, Add(h, x)
    PROVE  h # x /\ Becomes([Lists EXCEPT ![h] = @ \o Lists[x], ![x] = <<>>])
<1> USE RingsFacts
<1>1. /\ node' = Added(node, h, x) /\ stale' = stale \cup {x}
      /\ h \notin stale /\ x \notin stale /\ h # x
  BY DEF Add
<1> DEFINE s == Lists[h]
           t == Lists[x]
           f == Added(node, h, x)
<1>2. IsRing(f, h, s \o t)
  <2>1. Range(s) \cap Range(t) = {}
    BY <1>1 DEF AreRings
  <2> QED BY <2>1, <1>1, ConcatRing
<1>3. node[h].prev \in {h} \cup Range(s) /\ node[x].prev \in {x} \cup Range(t)
  <2>1. /\ s # <<>> => s[Len(s)] \in Range(s)
        /\ t # <<>> => t[Len(t)] \in Range(t)
    BY LastPlace, SeqElements
  <2>2. node[h].prev = (IF s = <<>> THEN h ELSE s[Len(s)])
    BY <1>1, RingPrev
  <2>3. node[x].prev = (IF t = <<>> THEN x ELSE t[Len(t)])
    BY <1>1, RingPrev
  <2> QED BY <2>1, <2>2, <2>3
<1>4. node[x].next # x => node[x].prev # x
  BY <1>1 DEF PointBack, Memory
<1>5. \A y \in Node : y \notin {h} \cup Range(s) \cup Range(t) => f[y].next = node[y].next
  <2>1. \A y \in Node : f[y].next =
            IF y = IF node[x].next = x THEN node[h].prev ELSE node[x].prev THEN h
            ELSE IF y = node[h].prev THEN node[x].next ELSE node[y].next
    BY <1>1, AddedNext
  <2> QED BY <2>1, <1>3, <1>4
<1> HIDE DEF f
<1>6. AreRings(f, stale \cup {x}, [Lists EXCEPT ![h] = Lists[h] \o Lists[x], ![x] = <<>>])
  BY <1>1, <1>2, <1>5, TwoJoin
<1> QED
  BY <1>1, <1>6, ListsKnownNext DEF Becomes, f

LEMMA ReinitDoes ==
    ASSUME RingsInv, NEW h \in ListHead, Reinit(h)
    PROVE  Becomes(Lists)
<1>1. node' = [node EXCEPT ![h] = Self(h)] /\ stale' = stale \ {h} /\ h \in stale
  BY DEF Reinit
<1>2. AreRings(node', stale', Lists)
  BY <1>1, RingsFacts, HeadIsBack
<1> QED
  BY <1>2, ListsKnownNext DEF Becomes

LEMMA OthersDo ==
    ASSUME RingsInv, UNCHANGED <<node, stale>>
    PROVE  Becomes(Lists)
BY RingsFacts DEF Becomes, Lists

LEMMA RingsInvInit == Init => RingsInv /\ Lists = [h \in ListHead |-> <<>>]
<1> SUFFICES ASSUME Init PROVE RingsInv /\ Lists = [h \in ListHead |-> <<>>]
  OBVIOUS
<1> DEFINE L == [h \in ListHead |-> <<>>]
<1>1. /\ stale = {} /\ \A x \in Node : node[x].next = x
      /\ ListHead \subseteq Node /\ Elem \subseteq Node
  BY DEF Init, Self, Node
<1>2. \A h \in ListHead : IsRing(node, h, <<>>)
  <2>1. Len(<<>>) = 0
    OBVIOUS
  <2> QED BY <2>1, <1>1, EmptyLemma DEF IsRing
<1>3. L \in [ListHead -> Seq(Elem)] /\ \A h \in ListHead : L[h] = <<>>
  BY EmptyLemma
<1> HIDE DEF L
<1>4. AreRings(node, stale, L)
  <2>1. \A g, h \in ListHead : Range(L[g]) \cap Range(L[h]) = {}
    BY <1>3, EmptyLemma
  <2> QED BY <2>1, <1>1, <1>2, <1>3 DEF AreRings
<1>5. Lists = L
  BY <1>4, ListsKnown
<1> QED
  BY <1>4, <1>5, RingsInit DEF RingsInv, L

\* Each step keeps the invariant, and does to the lists what a step of MyptmRings does.
LEMMA ListsStep ==
    ASSUME RingsInv, [Next]_vars
    PROVE  RingsInv' /\ [Rings!Next]_Lists
<1>1. RingsOK'
  BY RingsStep DEF RingsInv
<1>2. ASSUME NEW L, Becomes(L) PROVE RingsInv'
  BY <1>1, <1>2 DEF Becomes, RingsInv
<1>3. ASSUME NEW h \in ListHead, NEW x \in Elem, InsertTail(h, x)
      PROVE  RingsInv' /\ Rings!Next
  <2>1. Becomes([Lists EXCEPT ![h] = Append(@, x)])
    BY <1>3, InsertTailDoes
  <2>2. Rings!Free(x)
    BY <1>3, InsertTailDoes DEF Rings!Free, Rings!Range, Range
  <2>3. Rings!PushBack(h, x)
    BY <2>1, <2>2 DEF Becomes, Rings!PushBack
  <2> QED BY <2>1, <2>3, <1>2 DEF Rings!Next
<1>4. ASSUME NEW h \in ListHead, NEW x \in Elem, InsertHead(h, x)
      PROVE  RingsInv' /\ Rings!Next
  <2>1. Becomes([Lists EXCEPT ![h] = <<x>> \o @])
    BY <1>4, InsertHeadDoes
  <2>2. Rings!Free(x)
    BY <1>4, InsertHeadDoes DEF Rings!Free, Rings!Range, Range
  <2>3. Rings!PushFront(h, x)
    BY <2>1, <2>2 DEF Becomes, Rings!PushFront
  <2> QED BY <2>1, <2>3, <1>2 DEF Rings!Next
<1>5. ASSUME NEW x \in Elem, RemoveNode(x)
      PROVE  RingsInv' /\ Rings!Next
  <2>1. Becomes([g \in ListHead |-> Unlink(Lists[g], x)])
    BY <1>5, RemoveNodeDoes
  <2>2. ~Rings!Free(x)
    BY <1>5, RemoveNodeDoes DEF Rings!Free, Rings!Range, Range
  <2>3. Rings!RemoveNode(x)
    BY <2>1, <2>2 DEF Becomes, Rings!RemoveNode, Rings!Unlink, Unlink,
          Rings!RemoveAt, RemoveAt, Rings!Range, Range
  <2> QED BY <2>1, <2>3, <1>2 DEF Rings!Next
<1>6. ASSUME NEW h \in ListHead, NEW x \in ListHead, Move(h, x)
      PROVE  RingsInv' /\ Rings!Next
  <2>1. Rings!Move(h, x)
    BY <1>6, MoveDoes DEF Becomes, Rings!Move
  <2> QED BY <2>1, <1>2, <1>6, MoveDoes DEF Rings!Next
<1>7. ASSUME NEW h \in ListHead, NEW x \in ListHead, NEW q \in Elem, Split(h, q, x)
      PROVE  RingsInv' /\ Rings!Next
  <2>1. PICK k \in 1 .. Len(Lists[h]) :
            Becomes([Lists EXCEPT ![h] = SubSeq(@, 1, k - 1),
                                  ![x] = SubSeq(Lists[h], k, Len(Lists[h]))])
    BY <1>7, SplitDoes
  <2>2. Lists[h] \in Seq(Elem)
    BY RingsFacts
  <2>3. k \in DOMAIN Lists[h]
    BY <2>2, SeqElements
  <2>4. Rings!Split(h, k, x)
    BY <1>7, <2>1, <2>3, SplitDoes DEF Becomes, Rings!Split
  <2> QED BY <2>1, <2>4, <1>2 DEF Rings!Next
<1>8. ASSUME NEW h \in ListHead, NEW x \in ListHead, Add(h, x)
      PROVE  RingsInv' /\ Rings!Next
  <2>1. Rings!Concat(h, x)
    BY <1>8, AddDoes DEF Becomes, Rings!Concat
  <2> QED BY <2>1, <1>2, <1>8, AddDoes DEF Rings!Next
<1>9. ASSUME NEW h \in ListHead, Reinit(h)
      PROVE  RingsInv' /\ UNCHANGED Lists
  <2>1. Becomes(Lists)
    BY <1>9, ReinitDoes
  <2> QED BY <2>1, <1>2 DEF Becomes
<1>10. CASE (\E h \in ListHead : WalkStart(h)) \/ WalkStep \/ WalkEnd \/ UNCHANGED vars
  <2>1. UNCHANGED <<node, stale>>
    BY <1>10 DEF WalkStart, WalkStep, WalkEnd, vars
  <2>2. Becomes(Lists)
    BY <2>1, OthersDo
  <2> QED BY <2>2, <1>2 DEF Becomes
<1> QED
  BY <1>3, <1>4, <1>5, <1>6, <1>7, <1>8, <1>9, <1>10 DEF Next

\* The macros implement lists, for every set of heads and elements.
THEOREM MacrosAreLists == Spec => ImplementsRings
<1>1. Init => RingsInv /\ Rings!Init
  BY RingsInvInit DEF Rings!Init
<1>2. RingsInv /\ [Next]_vars => RingsInv' /\ [Rings!Next]_Lists
  BY ListsStep
<1> QED
  BY <1>1, <1>2, PTL DEF Spec, ImplementsRings, Rings!Spec

-----------------------------------------------------------------------------
(***************************************************************************)
(* A loop that is safe.  The object it is at is never the next one, unless *)
(* that is the head: so its body can remove it.                            *)
(***************************************************************************)
WalkInv ==
    walk # <<>> =>
        /\ walk \in [head : ListHead \ stale, pos : Node, n : Node]
        /\ walk.n \in {walk.head} \cup Range(Lists[walk.head])
        /\ walk.pos # walk.n \/ walk.pos = walk.head

LEMMA WalkAhead ==
    ASSUME RingsInv, NEW h \in ListHead \ stale, NEW y \in {h} \cup Range(Lists[h])
    PROVE  /\ y \in Node /\ node[y].next \in {h} \cup Range(Lists[h])
           /\ node[y].next \in Node
           /\ y # node[y].next \/ y = h
<1> USE RingsFacts
<1>1. node[y].next \in {h} \cup Range(Lists[h])
  BY RingNext
<1>2. Range(Lists[h]) \subseteq Elem
  BY SeqElements
<1>3. ASSUME y # h PROVE node[y].next # y
  <2>1. node[y].prev # y
    BY <1>2, <1>3, FreeIsAlone
  <2>2. y \in Node \ stale
    BY <1>2, <1>3
  <2> QED BY <2>1, <2>2 DEF PointBack
<1> QED
  BY <1>1, <1>2, <1>3

LEMMA WalkInvStep ==
    ASSUME RingsInv, WalkInv, [Next]_vars
    PROVE  WalkInv'
<1> USE RingsFacts
<1>1. ASSUME NEW h \in ListHead, WalkStart(h)
      PROVE  WalkInv'
  <2> DEFINE p == node[h].next
  <2>1. h \notin stale /\ walk' = [head |-> h, pos |-> p, n |-> node[p].next]
        /\ UNCHANGED <<node, stale>> /\ Lists' = Lists
    BY <1>1, OthersDo DEF WalkStart, Becomes
  <2>2. p \in {h} \cup Range(Lists[h]) /\ p \in Node
    BY <2>1, WalkAhead
  <2>3. /\ node[p].next \in {h} \cup Range(Lists[h]) /\ node[p].next \in Node
        /\ p # node[p].next \/ p = h
    BY <2>1, <2>2, WalkAhead
  <2> HIDE DEF p
  <2> QED BY <2>1, <2>2, <2>3 DEF WalkInv
<1>2. CASE WalkStep
  <2> DEFINE q == walk.n
             h == walk.head
  <2>1. /\ walk # <<>> /\ walk' = [walk EXCEPT !.pos = q, !.n = node[q].next]
        /\ UNCHANGED <<node, stale>> /\ Lists' = Lists
    BY <1>2, OthersDo DEF WalkStep, WalkAdvances, Becomes
  <2>2. h \in ListHead \ stale /\ q \in {h} \cup Range(Lists[h]) /\ q \in Node
        /\ walk \in [head : ListHead \ stale, pos : Node, n : Node]
    BY <2>1 DEF WalkInv
  <2>3. /\ node[q].next \in {h} \cup Range(Lists[h]) /\ node[q].next \in Node
        /\ q # node[q].next \/ q = h
    BY <2>2, WalkAhead
  <2>4. walk'.head = h /\ walk'.pos = q /\ walk'.n = node[q].next
        /\ walk' \in [head : ListHead \ stale, pos : Node, n : Node]
    BY <2>1, <2>2, <2>3
  <2> QED BY <2>1, <2>2, <2>3, <2>4 DEF WalkInv
<1>3. CASE WalkEnd
  BY <1>3 DEF WalkEnd, WalkInv
<1>4. ASSUME NEW x \in Elem, RemoveNode(x)
      PROVE  WalkInv'
  <2> SUFFICES ASSUME walk # <<>> PROVE WalkInv'
    BY <1>4 DEF RemoveNode, WalkInv
  <2> DEFINE h == walk.head
  <2>1. UNCHANGED <<stale, walk>> /\ x = walk.pos
    BY <1>4 DEF RemoveNode
  <2>2. /\ h \in ListHead \ stale /\ walk.n \in {h} \cup Range(Lists[h])
        /\ walk.pos # walk.n \/ walk.pos = h
        /\ walk \in [head : ListHead \ stale, pos : Node, n : Node]
    BY DEF WalkInv
  <2>3. x # walk.n
    BY <2>1, <2>2, QueueAssumption
  <2>4. Lists'[h] = Unlink(Lists[h], x)
    BY <2>2, <1>4, RemoveNodeDoes DEF Becomes
  <2>5. Range(Unlink(Lists[h], x)) = Range(Lists[h]) \ {x}
    BY <2>2, UnlinkLemma DEF IsRing
  <2> QED BY <2>1, <2>2, <2>3, <2>4, <2>5 DEF WalkInv
<1>5. ASSUME NEW h \in ListHead, NEW x \in Elem, InsertTail(h, x)
      PROVE  WalkInv'
  <2>1. UNCHANGED <<stale, walk>> /\ (walk # <<>> => walk.head # h)
    BY <1>5 DEF InsertTail
  <2>2. \A g \in ListHead : g # h => Lists'[g] = Lists[g]
    BY <1>5, InsertTailDoes DEF Becomes
  <2> QED BY <2>1, <2>2 DEF WalkInv
<1>6. CASE walk' = <<>>
  BY <1>6 DEF WalkInv
<1>7. CASE UNCHANGED vars
  <2>1. Lists' = Lists /\ UNCHANGED <<walk, stale>>
    BY <1>7, OthersDo DEF vars, Becomes
  <2> QED BY <2>1 DEF WalkInv
<1>8. ASSUME NoWalk PROVE walk' = <<>>
  BY <1>8 DEF NoWalk
<1> QED
  BY <1>1, <1>2, <1>3, <1>4, <1>5, <1>6, <1>7, <1>8
     DEF Next, InsertHead, Move, Add, Split, Reinit

\* A loop that is safe stays in its list, whatever the lists and the objects, and
\* although its body takes the object it is at out of the list.
THEOREM LoopStays == Spec => []WalkStays
<1>1. Init => RingsInv /\ WalkInv
  BY RingsInvInit DEF Init, WalkInv
<1>2. RingsInv /\ WalkInv /\ [Next]_vars => RingsInv' /\ WalkInv'
  BY ListsStep, WalkInvStep
<1>3. RingsInv /\ WalkInv => WalkStays
  BY RingsFacts DEF WalkInv, WalkStays
<1> QED
  BY <1>1, <1>2, <1>3, PTL DEF Spec

-----------------------------------------------------------------------------
(***************************************************************************)
(* Every body behaves like a coroutine: Protothread implements Coroutine   *)
(* for every Program.  The invariant says what the switch relies on: the   *)
(* label in lc is that of a statement that can give up control, and the    *)
(* entry is at a label only when it is the one in lc.                      *)
(***************************************************************************)
Suspending == {"yield", "wait", "yield_until", "take", "delay"}

LabelsOK ==
    /\ lc \in 0 .. EndPoint /\ flag \in {0, 1} /\ ready \in BOOLEAN
    /\ prepared \in {0, 1}
    /\ at \in [i : 0 .. EndPoint, part : {"start", "label"}]
    /\ at = Outside \/ at.i \in 1 .. EndPoint
    /\ lc \in DOMAIN Program => Program[lc] \in Suspending
    /\ at # Outside /\ at.part = "label" => lc = at.i
    /\ at # Outside /\ at.part = "start" => prepared = 0
    /\ at # Outside /\ at.part = "label" /\ Kind = "delay" => prepared = 1
    /\ at # Outside /\ at.part = "label" /\ Kind = "take" => prepared = flag
    /\ at = Outside /\ lc = 0 => prepared = 0
    /\ at = Outside /\ lc \in DOMAIN Program /\ Program[lc] \in {"take", "delay"} =>
           prepared = 1

\* A program has statements of the kinds listed, and a first one.
LEMMA ProgramFacts ==
    /\ Len(Program) \in Nat \ {0}
    /\ DOMAIN Program = 1 .. Len(Program)
    /\ EndPoint = Len(Program) + 1
    /\ \A i \in 1 .. Len(Program) : Program[i] \in Kinds
BY ProgramAssumption DEF EndPoint

LEMMA LabelsInit == BodyInit => LabelsOK
<1> SUFFICES ASSUME BodyInit PROVE LabelsOK
  OBVIOUS
<1>1. ready \in BOOLEAN
  BY DEF BodyInit
<1>2. at = [i |-> 0, part |-> "label"] /\ lc = 0 /\ flag = 1 /\ prepared = 0
  BY DEF BodyInit, Outside
<1> QED
  BY <1>1, <1>2, ProgramFacts DEF LabelsOK, Outside

LEMMA LabelsStep == LabelsOK /\ [BodyNext]_bodyVars => LabelsOK'
<1> SUFFICES ASSUME LabelsOK, [BodyNext]_bodyVars PROVE LabelsOK'
  OBVIOUS
<1> USE ProgramFacts DEF LabelsOK, Outside, Kind, Suspending, Kinds
<1>1. CASE Call
  <2>1. CASE lc = 0
    BY <1>1, <2>1 DEF Call
  <2>2. CASE lc = EndPoint
    BY <1>1, <2>2 DEF Call
  <2>3. CASE lc \in DOMAIN Program
    BY <1>1, <2>3 DEF Call
  <2> QED
    BY <2>1, <2>2, <2>3
<1>2. CASE Work
  BY <1>2 DEF Work, Before, Onward, Goto
<1>3. CASE Loop
  BY <1>3 DEF Loop, Before, Goto
<1>4. CASE Yield
  BY <1>4 DEF Yield, Before, SetLabel
<1>5. CASE Delay
  BY <1>5 DEF Delay, Before, SetLabel
<1>6. CASE Yielded
  BY <1>6 DEF Yielded, AtLabel, Onward, Goto, Return
<1>7. CASE Wait
  BY <1>7 DEF Wait, Before, SetLabel
<1>8. CASE Waited
  BY <1>8 DEF Waited, AtLabel, Onward, Goto, Return
<1>9. CASE Take
  BY <1>9 DEF Take, Before, SetLabel
<1>10. CASE Taken
  BY <1>10 DEF Taken, AtLabel, Onward, Goto, Return
<1>11. CASE Restart
  BY <1>11 DEF Restart, Before, Onward, Goto, Return
<1>12. CASE Exit
  BY <1>12 DEF Exit, Before, Onward, Goto
<1>13. CASE End
  BY <1>13 DEF End, Return
<1>14. CASE Change
  BY <1>14 DEF Change
<1>15. CASE UNCHANGED bodyVars
  BY <1>15 DEF bodyVars
<1> QED
  BY <1>1, <1>2, <1>3, <1>4, <1>5, <1>6, <1>7, <1>8, <1>9, <1>10, <1>11, <1>12, <1>13,
     <1>14, <1>15 DEF BodyNext

\* What the switch relies on holds for every body.
THEOREM SwitchIsSafe == BodySpec => []LabelsOK
<1>1. LabelsOK /\ [BodyNext]_bodyVars => LabelsOK'
  BY LabelsStep
<1> QED
  BY <1>1, LabelsInit, PTL DEF BodySpec

\* Whatever the body, a wait of the loop is prepared once for each time its statement
\* is executed.
THEOREM WaitsPreparedOnce == BodySpec => []PreparedOnce
<1>1. LabelsOK => PreparedOnce
  BY DEF LabelsOK, PreparedOnce
<1> QED
  BY <1>1, SwitchIsSafe, PTL

-----------------------------------------------------------------------------
LEMMA CoroutineInit == BodyInit => Body!Init
BY ProgramFacts DEF BodyInit, Body!Init, Point, GivenUp, Outside

LEMMA CoroutineStep == LabelsOK /\ [BodyNext]_bodyVars => [Body!Next]_(Body!vars)
<1> SUFFICES ASSUME LabelsOK, [BodyNext]_bodyVars PROVE [Body!Next]_(Body!vars)
  OBVIOUS
<1> USE ProgramFacts DEF LabelsOK, Outside, Kind, Suspending, Kinds, Point, GivenUp,
        Body!Kind, Body!EndPoint, EndPoint, Body!Over, Body!Successor
<1>1. CASE Call
  BY <1>1 DEF Call, Body!Enter, Body!Next
<1>2. CASE Work
  BY <1>2 DEF Work, Before, Onward, Goto, Body!Proceed, Body!Next
<1>3. CASE Loop
  BY <1>3 DEF Loop, Before, Goto, Body!Proceed, Body!Next
<1>4. CASE Yield \/ Delay \/ Wait \/ Take
  BY <1>4 DEF Yield, Delay, Wait, Take, Before, SetLabel, Body!vars
<1>6. CASE Yielded
  <2>1. CASE flag = 0 \/ (Kind = "yield_until" /\ ~ready)
    <3>1. at # Outside /\ ~Body!Over /\ at' = Outside /\ lc' = lc /\ UNCHANGED ready
      BY <1>6, <2>1 DEF Yielded, AtLabel, Return
    <3>2. /\ GivenUp' /\ UNCHANGED Point
          /\ Body!Kind \in {"yield", "delay", "yield_until", "take"}
      BY <1>6, <3>1 DEF Yielded, AtLabel
    <3> HIDE DEF GivenUp, Point, Body!Over, Body!Kind, LabelsOK
    <3>3. Body!Suspend
      BY <3>1, <3>2 DEF Body!Suspend
    <3> QED
      BY <3>3 DEF Body!Next
  <2>2. CASE ~(flag = 0 \/ (Kind = "yield_until" /\ ~ready))
    <3>1. /\ at # Outside /\ Body!Over /\ UNCHANGED ready
          /\ at' = [i |-> at.i + 1, part |-> "start"]
      BY <1>6, <2>2 DEF Yielded, AtLabel, Onward, Goto
    <3> QED
      BY <1>6, <3>1 DEF Yielded, AtLabel, Body!Proceed, Body!Next
  <2> QED
    BY <2>1, <2>2
<1>8. CASE Waited
  <2>1. CASE ~ready
    <3>1. at # Outside /\ ~Body!Over /\ at' = Outside /\ lc' = lc /\ UNCHANGED ready
      BY <1>8, <2>1 DEF Waited, AtLabel, Return
    <3> QED
      BY <1>8, <3>1 DEF Waited, AtLabel, Body!Suspend, Body!Next
  <2>2. CASE ~(~ready)
    <3>1. /\ at # Outside /\ Body!Over /\ UNCHANGED ready
          /\ at' = [i |-> at.i + 1, part |-> "start"]
      BY <1>8, <2>2 DEF Waited, AtLabel, Onward, Goto
    <3> QED
      BY <1>8, <3>1 DEF Waited, AtLabel, Body!Proceed, Body!Next
  <2> QED
    BY <2>1, <2>2
<1>10. CASE Taken
  <2>1. CASE ~(flag = 1 \/ ready)
    <3>1. at # Outside /\ ~Body!Over /\ at' = Outside /\ lc' = lc /\ UNCHANGED ready
      BY <1>10, <2>1 DEF Taken, AtLabel, Return
    <3>2. /\ GivenUp' /\ UNCHANGED Point
          /\ Body!Kind \in {"yield", "delay", "yield_until", "take"}
      BY <1>10, <3>1 DEF Taken, AtLabel
    <3> HIDE DEF GivenUp, Point, Body!Over, Body!Kind, LabelsOK
    <3>3. Body!Suspend
      BY <3>1, <3>2 DEF Body!Suspend
    <3> QED
      BY <3>3 DEF Body!Next
  <2>2. CASE ~(~(flag = 1 \/ ready))
    <3>1. /\ at # Outside /\ Body!Over /\ UNCHANGED ready
          /\ at' = [i |-> at.i + 1, part |-> "start"]
      BY <1>10, <2>2 DEF Taken, AtLabel, Onward, Goto
    <3> QED
      BY <1>10, <3>1 DEF Taken, AtLabel, Body!Proceed, Body!Next
  <2> QED
    BY <2>1, <2>2
<1>11. CASE Restart
  BY <1>11 DEF Restart, Before, Onward, Goto, Return, Body!Restart, Body!Proceed, Body!Next
<1>12. CASE Exit
  BY <1>12 DEF Exit, Before, Onward, Goto, Body!Proceed, Body!Next
<1>13. CASE End
  BY <1>13 DEF End, Return, Body!End, Body!Next
<1>14. CASE Change
  BY <1>14 DEF Change, Body!Change, Body!Next
<1>15. CASE UNCHANGED bodyVars
  BY <1>15 DEF bodyVars, Body!vars
<1> QED
  BY <1>1, <1>2, <1>3, <1>4, <1>6, <1>8, <1>10, <1>11, <1>12, <1>13, <1>14, <1>15 DEF BodyNext

\* Whatever the body, what its author sees is a coroutine.
THEOREM BodiesAreCoroutines == BodySpec => ImplementsCoroutine
<1>1. LabelsOK /\ [BodyNext]_bodyVars => [Body!Next]_(Body!vars)
  BY CoroutineStep
<1> QED
  BY <1>1, CoroutineInit, SwitchIsSafe, PTL DEF BodySpec, ImplementsCoroutine, Body!Spec

-----------------------------------------------------------------------------
(***************************************************************************)
(* The byte ring: RingBuffer implements LossyFifo for every Size.  Held    *)
(* lists the bytes between two indices; what each assignment does to it    *)
(* follows from the places that different indices mask to.                 *)
(***************************************************************************)
Place == 0 .. Size - 1
Cell == Byte \cup {None}
Bytes == [Place -> Cell]

\* RING_BUFFER_MASK wraps an index once.
LEMMA IndexWraps ==
    ASSUME NEW i \in Int, 0 <= i, i < 2 * Size
    PROVE  Index(i) = IF i < Size THEN i ELSE i - Size
<1>1. Size \in Nat /\ Size > 1
  BY RingBufferAssumption
<1>2. CASE i < Size
  <2>1. i % Size = i
    BY <1>1, <1>2
  <2> QED BY <2>1, <1>2 DEF Index
<1>3. CASE ~(i < Size)
  <2>1. i % Size = i - Size
    BY <1>1, <1>3
  <2> QED BY <2>1, <1>3 DEF Index
<1> QED
  BY <1>2, <1>3

\* num_items of any indices, and the bytes between them
Count(h, t) == Index(h + Size - t)

Held(m, h, t) == [i \in 1 .. Count(h, t) |-> m[Index(t + (i - 1))]]

LEMMA CountIs ==
    ASSUME NEW h \in Place, NEW t \in Place
    PROVE  /\ Count(h, t) = IF t <= h THEN h - t ELSE h - t + Size
           /\ Count(h, t) \in Place /\ Count(h, t) \in Nat
           /\ Count(h, t) = 0 <=> h = t
<1>1. Size \in Nat /\ Size > 1 /\ h \in Int /\ t \in Int /\ 0 <= h /\ h < Size /\ 0 <= t /\ t < Size
  BY RingBufferAssumption DEF Place
<1>2. h + Size - t \in Int /\ 0 <= h + Size - t /\ h + Size - t < 2 * Size
  BY <1>1
<1>3. Count(h, t) = IF h + Size - t < Size THEN h + Size - t ELSE h + Size - t - Size
  <2>1. PICK k \in Int : k = h + Size - t
    BY <1>2
  <2>2. 0 <= k /\ k < 2 * Size
    BY <1>2, <2>1
  <2>3. Index(k) = IF k < Size THEN k ELSE k - Size
    BY <2>2, IndexWraps
  <2> QED BY <2>1, <2>3, <1>1 DEF Count
<1> QED
  BY <1>1, <1>3 DEF Place

\* The next place
LEMMA NextPlace ==
    ASSUME NEW t \in Place
    PROVE  Index(t + 1) = (IF t = Size - 1 THEN 0 ELSE t + 1) /\ Index(t + 1) \in Place
<1>1. Size \in Nat /\ Size > 1 /\ t \in Int /\ 0 <= t /\ t < Size
  BY RingBufferAssumption DEF Place
<1>2. t + 1 \in Int /\ 0 <= t + 1 /\ t + 1 < 2 * Size
  BY <1>1
<1>3. Index(t + 1) = IF t + 1 < Size THEN t + 1 ELSE t + 1 - Size
  <2>1. PICK k \in Int : k = t + 1
    BY <1>2
  <2>2. 0 <= k /\ k < 2 * Size
    BY <1>2, <2>1
  <2>3. Index(k) = IF k < Size THEN k ELSE k - Size
    BY <2>2, IndexWraps
  <2> QED BY <2>1, <2>3, <1>1
<1> QED
  BY <1>1, <1>3 DEF Place

\* Where the bytes between two indices are: none is at the head, and one more would be.
LEMMA HeldPlaces ==
    ASSUME NEW h \in Place, NEW t \in Place, NEW i \in 1 .. Count(h, t)
    PROVE  /\ Index(t + (i - 1)) \in Place /\ Index(t + (i - 1)) # h
           /\ i = 1 => Index(t + (i - 1)) = t
<1>1. Size \in Nat /\ Size > 1 /\ h \in Int /\ t \in Int /\ 0 <= h /\ h < Size /\ 0 <= t /\ t < Size
  BY RingBufferAssumption DEF Place
<1>2. i \in Int /\ 1 <= i /\ i <= (IF t <= h THEN h - t ELSE h - t + Size)
  BY CountIs
<1>3. t + (i - 1) \in Int /\ 0 <= t + (i - 1) /\ t + (i - 1) < 2 * Size
  BY <1>1, <1>2
<1>4. Index(t + (i - 1)) = IF t + (i - 1) < Size THEN t + (i - 1) ELSE t + (i - 1) - Size
  <2>1. PICK k \in Int : k = t + (i - 1)
    BY <1>3
  <2>2. 0 <= k /\ k < 2 * Size
    BY <1>3, <2>1
  <2>3. Index(k) = IF k < Size THEN k ELSE k - Size
    BY <2>2, IndexWraps
  <2> QED BY <2>1, <2>3, <1>1, <1>2
<1> QED
  BY <1>1, <1>2, <1>4 DEF Place

LEMMA HeadPlace ==
    ASSUME NEW h \in Place, NEW t \in Place
    PROVE  Index(t + Count(h, t)) = h
<1>1. Size \in Nat /\ Size > 1 /\ h \in Int /\ t \in Int /\ 0 <= h /\ h < Size /\ 0 <= t /\ t < Size
  BY RingBufferAssumption DEF Place
<1>2. Count(h, t) = IF t <= h THEN h - t ELSE h - t + Size
  BY CountIs
<1>3. t + Count(h, t) \in Int /\ 0 <= t + Count(h, t) /\ t + Count(h, t) < 2 * Size
  BY <1>1, <1>2
<1>4. Index(t + Count(h, t)) = IF t + Count(h, t) < Size THEN t + Count(h, t) ELSE t + Count(h, t) - Size
  <2>1. PICK k \in Int : k = t + Count(h, t)
    BY <1>3
  <2>2. 0 <= k /\ k < 2 * Size
    BY <1>3, <2>1
  <2>3. Index(k) = IF k < Size THEN k ELSE k - Size
    BY <2>2, IndexWraps
  <2> QED BY <2>1, <2>3, <1>1, <1>2
<1> QED
  BY <1>1, <1>2, <1>4

\* The bytes are a sequence of what the memory holds.
LEMMA HeldIs ==
    ASSUME NEW m \in Bytes, NEW h \in Place, NEW t \in Place
    PROVE  /\ Held(m, h, t) \in Seq(Cell) /\ Len(Held(m, h, t)) = Count(h, t)
           /\ Held(m, h, t) = <<>> <=> h = t
<1>1. \A i \in 1 .. Count(h, t) : m[Index(t + (i - 1))] \in Cell
  BY HeldPlaces DEF Bytes
<1>2. Count(h, t) \in Nat /\ (Count(h, t) = 0 <=> h = t)
  BY CountIs
<1>3. Held(m, h, t) \in Seq(Cell) /\ Len(Held(m, h, t)) = Count(h, t)
  BY <1>1, <1>2 DEF Held
<1> QED
  BY <1>2, <1>3

\* A byte that is written at the head is not among them,
LEMMA HeldKept ==
    ASSUME NEW m \in Bytes, NEW h \in Place, NEW t \in Place, NEW b
    PROVE  Held([m EXCEPT ![h] = b], h, t) = Held(m, h, t)
BY HeldPlaces DEF Held, Bytes

\* until the head moves: then it is the last.
LEMMA HeldGrows ==
    ASSUME NEW m \in Bytes, NEW h \in Place, NEW t \in Place,
           Count(h, t) < Size - 1
    PROVE  Held(m, Index(h + 1), t) = Append(Held(m, h, t), m[h])
<1> DEFINE n == Count(h, t)
           g == Index(h + 1)
           r == Append(Held(m, h, t), m[h])
<1>1. Count(g, t) = n + 1 /\ n \in Nat
  <2>1. Size \in Nat /\ Size > 1 /\ h \in Int /\ t \in Int /\ 0 <= h /\ h < Size /\ 0 <= t /\ t < Size
    BY RingBufferAssumption DEF Place
  <2>2. g = (IF h = Size - 1 THEN 0 ELSE h + 1) /\ g \in Place
    BY NextPlace
  <2>3. n = (IF t <= h THEN h - t ELSE h - t + Size) /\ n \in Nat
    BY CountIs
  <2> HIDE DEF g, n
  <2>4. Count(g, t) = IF t <= g THEN g - t ELSE g - t + Size
    BY <2>2, CountIs
  <2> QED BY <2>1, <2>2, <2>3, <2>4 DEF n
<1>2. /\ r \in Seq(Cell) /\ Len(r) = n + 1 /\ r[n + 1] = m[h]
      /\ \A i \in 1 .. n : r[i] = m[Index(t + (i - 1))]
  <2>1. Held(m, h, t) \in Seq(Cell) /\ Len(Held(m, h, t)) = n
        /\ \A i \in 1 .. n : Held(m, h, t)[i] = m[Index(t + (i - 1))]
    <3>1. \A i \in 1 .. n : Held(m, h, t)[i] = m[Index(t + (i - 1))]
      BY DEF Held
    <3>2. Held(m, h, t) \in Seq(Cell) /\ Len(Held(m, h, t)) = n
      BY HeldIs
    <3> QED BY <3>1, <3>2
  <2> DEFINE s == Held(m, h, t)
  <2> HIDE DEF s
  <2>2. s \in Seq(Cell) /\ Len(s) = n /\ m[h] \in Cell
    BY <2>1 DEF s, Bytes
  <2>3. Append(s, m[h]) \in Seq(Cell) /\ Len(Append(s, m[h])) = n + 1
        /\ Append(s, m[h])[n + 1] = m[h] /\ \A i \in 1 .. n : Append(s, m[h])[i] = s[i]
    BY <2>2, <1>1
  <2> QED BY <2>1, <2>3 DEF s
<1>3. Held(m, g, t) = [i \in 1 .. n + 1 |-> m[Index(t + (i - 1))]]
  BY <1>1 DEF Held
<1> HIDE DEF g, r
<1>4. \A i \in 1 .. n + 1 : r[i] = m[Index(t + (i - 1))]
  <2>1. m[Index(t + ((n + 1) - 1))] = m[h]
    <3>1. (n + 1) - 1 = n
      BY <1>1
    <3> QED BY <3>1, HeadPlace
  <2>2. \A i \in 1 .. n + 1 : i \in 1 .. n \/ i = n + 1
    BY <1>1
  <2> QED BY <2>1, <2>2, <1>2
<1>5. r = [i \in 1 .. n + 1 |-> r[i]]
  BY <1>1, <1>2
<1> QED
  BY <1>3, <1>4, <1>5 DEF g, r

\* When the tail moves, the first is gone.
LEMMA HeldShrinks ==
    ASSUME NEW m \in Bytes, NEW h \in Place, NEW t \in Place, h # t
    PROVE  /\ Held(m, h, Index(t + 1)) = Tail(Held(m, h, t))
           /\ Head(Held(m, h, t)) = m[t]
           /\ Count(h, Index(t + 1)) = Count(h, t) - 1
<1> DEFINE n == Count(h, t)
           u == Index(t + 1)
           s == Held(m, h, t)
<1>a. Size \in Nat /\ Size > 1 /\ h \in Int /\ t \in Int /\ 0 <= h /\ h < Size /\ 0 <= t /\ t < Size
  BY RingBufferAssumption DEF Place
<1>b. u = (IF t = Size - 1 THEN 0 ELSE t + 1) /\ u \in Place
  BY NextPlace
<1>c. n = (IF t <= h THEN h - t ELSE h - t + Size) /\ n \in Nat /\ n # 0
  BY CountIs
<1>1. Count(h, u) = n - 1 /\ n - 1 \in Nat
  <2> HIDE DEF u, n
  <2>1. Count(h, u) = IF u <= h THEN h - u ELSE h - u + Size
    BY <1>b, CountIs
  <2> QED BY <2>1, <1>a, <1>b, <1>c DEF n
<1>2. /\ s \in Seq(Cell) /\ Len(s) = n /\ s # <<>>
      /\ \A i \in 1 .. n : s[i] = m[Index(t + (i - 1))]
  <2>1. \A i \in 1 .. n : s[i] = m[Index(t + (i - 1))]
    BY DEF Held
  <2>2. s \in Seq(Cell) /\ Len(s) = n /\ (s = <<>> <=> h = t)
    BY HeldIs
  <2> QED BY <2>1, <2>2
<1>3. Index(t + (1 - 1)) = t
  <2>1. 1 \in 1 .. Count(h, t)
    BY <1>c
  <2> QED BY <2>1, HeldPlaces
<1> HIDE DEF s, u
<1>4. ASSUME NEW i \in 1 .. n - 1
      PROVE  s[i + 1] = m[Index(u + (i - 1))]
  <2>1. i \in Int /\ 1 <= i /\ i <= n - 1 /\ i + 1 \in 1 .. n
    BY <1>c
  <2>2. s[i + 1] = m[Index(t + ((i + 1) - 1))]
    BY <2>1, <1>2
  <2>3. t + ((i + 1) - 1) \in Int /\ 0 <= t + ((i + 1) - 1) /\ t + ((i + 1) - 1) < 2 * Size
    BY <2>1, <1>a, <1>c
  <2>4. Index(t + ((i + 1) - 1)) = IF t + ((i + 1) - 1) < Size THEN t + ((i + 1) - 1) ELSE t + ((i + 1) - 1) - Size
    <3>1. PICK k \in Int : k = t + ((i + 1) - 1)
      BY <2>3
    <3>2. 0 <= k /\ k < 2 * Size
      BY <2>3, <3>1
    <3>3. Index(k) = IF k < Size THEN k ELSE k - Size
      BY <3>2, IndexWraps
    <3> QED BY <3>1, <3>3, <2>1, <1>a, <1>b, <1>c
  <2>5. u + (i - 1) \in Int /\ 0 <= u + (i - 1) /\ u + (i - 1) < 2 * Size
    BY <2>1, <1>a, <1>b, <1>c
  <2>6. Index(u + (i - 1)) = IF u + (i - 1) < Size THEN u + (i - 1) ELSE u + (i - 1) - Size
    <3>1. PICK k \in Int : k = u + (i - 1)
      BY <2>5
    <3>2. 0 <= k /\ k < 2 * Size
      BY <2>5, <3>1
    <3>3. Index(k) = IF k < Size THEN k ELSE k - Size
      BY <3>2, IndexWraps
    <3> QED BY <3>1, <3>3, <2>1, <1>a, <1>b, <1>c
  <2>7. Index(t + ((i + 1) - 1)) = Index(u + (i - 1))
    BY <2>1, <2>4, <2>6, <1>a, <1>b, <1>c
  <2> QED BY <2>2, <2>7
<1>5. Tail(s) = [i \in 1 .. n - 1 |-> s[i + 1]]
  BY <1>2, TailElements
<1>6. Held(m, h, u) = [i \in 1 .. n - 1 |-> m[Index(u + (i - 1))]]
  BY <1>1 DEF Held
<1>7. Tail(s) = Held(m, h, u)
  BY <1>4, <1>5, <1>6
<1>8. Head(s) = m[t]
  <2>1. Head(s) = s[1] /\ 1 \in 1 .. n
    BY <1>2, <1>c
  <2> QED BY <2>1, <1>2, <1>3
<1> QED
  BY <1>1, <1>7, <1>8 DEF s, u

-----------------------------------------------------------------------------
\* Who is in a call holds the lock, so that what it has read still holds when it goes on:
\* that there is room for the byte, that the byte is written, and which byte was at the
\* tail.
BytesInv ==
    /\ buffer \in Bytes /\ head_index \in Place /\ tail_index \in Place
    /\ lock \in {"free", "isr", "main"}
    /\ isr \in [pc : {"idle", "check", "place", "advance", "leave"}, data : Seq(Byte)]
    /\ main \in [pc : {"idle", "check", "advance", "leave"}, len : Int]
    /\ isr.pc # "idle" <=> lock = "isr"
    /\ main.pc # "idle" <=> lock = "main"
    /\ isr.pc \in {"check", "place", "advance"} => isr.data # <<>>
    /\ isr.pc \in {"place", "advance"} => Count(head_index, tail_index) < Size - 1
    /\ isr.pc = "advance" => buffer[head_index] = Head(isr.data)
    /\ main.pc = "advance" => head_index # tail_index /\ chr = buffer[tail_index]

Contents == Held(buffer, head_index, tail_index)

\* The mapping of RingBuffer, and the steps of the fifo, in terms of Held
LEMMA ContentsAre ==
    /\ Contents = [i \in 1 .. num_items |-> Peek(i - 1)]
    /\ Contents' = [i \in 1 .. num_items |-> Peek(i - 1)]'
    /\ num_items = Count(head_index, tail_index)
BY DEF Contents, Held, Count, Peek, num_items

FifoStep(c, d, e, f) ==
    \/ Len(c) = Size - 1 /\ d = Tail(c) /\ f = e
    \/ c # <<>> /\ d = Tail(c) /\ f = Head(c)
    \/ d = <<>> /\ f = e
    \/ \E b \in Byte : Len(c) < Size - 1 /\ d = Append(c, b) /\ f = e
    \/ d = c /\ f = e

LEMMA FifoSteps ==
    ASSUME FifoStep(Contents, Contents', delivered, delivered')
    PROVE  [Fifo!Next]_(Fifo!vars)
BY ContentsAre DEF FifoStep, Fifo!Next, Fifo!Lose, Fifo!Get, Fifo!Reset, Fifo!Put, Fifo!vars

Kept == BytesInv' /\ FifoStep(Contents, Contents', delivered, delivered')

LEMMA InvTypes ==
    ASSUME BytesInv
    PROVE  /\ Contents \in Seq(Cell) /\ Len(Contents) = Count(head_index, tail_index)
           /\ Contents = <<>> <=> head_index = tail_index
           /\ Count(head_index, tail_index) \in Nat
           /\ Count(head_index, tail_index) \in Place
           /\ Index(head_index + 1) \in Place /\ Index(tail_index + 1) \in Place
           /\ Size \in Nat /\ Size > 1
<1>1. buffer \in Bytes /\ head_index \in Place /\ tail_index \in Place
  BY DEF BytesInv
<1>2. /\ Contents \in Seq(Cell) /\ Len(Contents) = Count(head_index, tail_index)
      /\ Contents = <<>> <=> head_index = tail_index
  BY <1>1, HeldIs DEF Contents
<1>3. Count(head_index, tail_index) \in Nat /\ Count(head_index, tail_index) \in Place
  BY <1>1, CountIs
<1>4. Index(head_index + 1) \in Place /\ Index(tail_index + 1) \in Place
  BY <1>1, NextPlace
<1> QED
  BY <1>2, <1>3, <1>4, RingBufferAssumption

LEMMA IsrEntersKeeps ==
    ASSUME BytesInv, NEW data \in Batches, IsrEnters(data)
    PROVE  Kept
<1>1. data \in Seq(Byte) /\ data # <<>>
  <2>1. PICK k \in 1 .. MaxBatch : data \in [1 .. k -> Byte]
    BY DEF Batches
  <2>2. k \in Nat /\ k > 0
    BY <2>1, RingBufferAssumption
  <2>3. data \in Seq(Byte) /\ Len(data) = k
    BY <2>1, <2>2
  <2> QED BY <2>2, <2>3, SeqElements
<1>2. UNCHANGED <<buffer, head_index, tail_index, delivered>>
  BY DEF IsrEnters, ring
<1>3. Contents' = Contents
  BY <1>2 DEF Contents
<1>4. BytesInv'
  BY <1>1 DEF IsrEnters, ring, BytesInv
<1> QED
  BY <1>2, <1>3, <1>4 DEF Kept, FifoStep

LEMMA IsrChecksKeeps ==
    ASSUME BytesInv, IsrChecks
    PROVE  Kept
<1> DEFINE h == head_index
           t == tail_index
<1>1. /\ isr.pc = "check" /\ isr' = [isr EXCEPT !.pc = "place"]
      /\ UNCHANGED <<buffer, head_index, lock, main, chr, delivered>>
      /\ tail_index' = IF Count(h, t) = Size - 1 THEN Index(t + 1) ELSE t
  BY ContentsAre DEF IsrChecks, is_full
<1>2. /\ lock = "isr" /\ main.pc = "idle" /\ buffer \in Bytes /\ h \in Place /\ t \in Place
      /\ isr \in [pc : {"idle", "check", "place", "advance", "leave"}, data : Seq(Byte)]
  BY <1>1 DEF BytesInv
<1>3. tail_index' \in Place /\ Count(h, tail_index') < Size - 1
      /\ FifoStep(Contents, Contents', delivered, delivered')
  <2>1. CASE Count(h, t) = Size - 1
    <3>1. h # t
      BY <2>1, <1>2, CountIs, InvTypes
    <3>2. Held(buffer, h, Index(t + 1)) = Tail(Held(buffer, h, t))
          /\ Count(h, Index(t + 1)) = Count(h, t) - 1
      BY <3>1, <1>2, HeldShrinks
    <3>3. Contents' = Tail(Contents) /\ Len(Contents) = Size - 1
      BY <3>2, <2>1, <1>1, InvTypes DEF Contents
    <3>4. Count(h, tail_index') < Size - 1 /\ tail_index' \in Place
      BY <3>2, <2>1, <1>1, InvTypes
    <3> QED BY <3>3, <3>4, <1>1 DEF FifoStep
  <2>2. CASE Count(h, t) # Size - 1
    <3>1. Contents' = Contents
      BY <2>2, <1>1 DEF Contents
    <3>2. Count(h, t) < Size - 1
      BY <2>2, InvTypes DEF Place
    <3> QED BY <3>1, <3>2, <2>2, <1>1, <1>2 DEF FifoStep
  <2> QED BY <2>1, <2>2
<1>4. BytesInv'
  BY <1>1, <1>2, <1>3 DEF BytesInv
<1> QED
  BY <1>3, <1>4 DEF Kept

LEMMA IsrPlacesKeeps ==
    ASSUME BytesInv, IsrPlaces
    PROVE  Kept
<1> DEFINE h == head_index
           t == tail_index
           b == Head(isr.data)
<1>1. /\ isr.pc = "place" /\ isr' = [isr EXCEPT !.pc = "advance"]
      /\ UNCHANGED <<head_index, tail_index, lock, main, chr, delivered>>
      /\ buffer' = [buffer EXCEPT ![h] = b]
  BY DEF IsrPlaces
<1>2. /\ lock = "isr" /\ main.pc = "idle" /\ buffer \in Bytes /\ h \in Place /\ t \in Place
      /\ isr \in [pc : {"idle", "check", "place", "advance", "leave"}, data : Seq(Byte)]
      /\ isr.data # <<>> /\ Count(h, t) < Size - 1
  BY <1>1 DEF BytesInv
<1>3. b \in Byte
  BY <1>2
<1>4. Contents' = Contents
  BY <1>1, <1>2, HeldKept DEF Contents
<1>5. buffer' \in Bytes /\ buffer'[h] = b
  BY <1>1, <1>2, <1>3 DEF Bytes, Cell
<1>6. BytesInv'
  BY <1>1, <1>2, <1>5 DEF BytesInv
<1> QED
  BY <1>1, <1>4, <1>6 DEF Kept, FifoStep

LEMMA IsrAdvancesKeeps ==
    ASSUME BytesInv, IsrAdvances
    PROVE  Kept
<1> DEFINE h == head_index
           t == tail_index
           b == Head(isr.data)
<1>1. /\ isr.pc = "advance" /\ head_index' = Index(h + 1)
      /\ isr' = [pc |-> IF Len(isr.data) > 1 THEN "check" ELSE "leave", data |-> Tail(isr.data)]
      /\ UNCHANGED <<buffer, tail_index, lock, main, chr, delivered>>
  BY DEF IsrAdvances
<1>2. /\ lock = "isr" /\ main.pc = "idle" /\ buffer \in Bytes /\ h \in Place /\ t \in Place
      /\ isr.data \in Seq(Byte) /\ isr.data # <<>>
      /\ Count(h, t) < Size - 1 /\ buffer[h] = b
  BY <1>1 DEF BytesInv
<1>3. /\ b \in Byte /\ Tail(isr.data) \in Seq(Byte)
      /\ Len(isr.data) > 1 => Tail(isr.data) # <<>>
  <2> DEFINE d == isr.data
  <2>1. d \in Seq(Byte) /\ d # <<>>
    BY <1>2
  <2> HIDE DEF d
  <2>2. Head(d) \in Byte /\ Tail(d) \in Seq(Byte) /\ Len(Tail(d)) = Len(d) - 1 /\ Len(d) \in Nat
    BY <2>1
  <2>3. Len(d) > 1 => Len(Tail(d)) # 0
    BY <2>2
  <2>4. Len(d) > 1 => Tail(d) # <<>>
    BY <2>2, <2>3, SeqElements
  <2> QED BY <2>2, <2>4 DEF d
<1>4. Contents' = Append(Contents, b)
  <2>1. Held(buffer, Index(h + 1), t) = Append(Held(buffer, h, t), buffer[h])
    BY <1>2, HeldGrows
  <2> QED BY <2>1, <1>1, <1>2 DEF Contents
<1>5. Len(Contents) < Size - 1
  BY <1>2, InvTypes
<1>6. /\ head_index' \in Place
      /\ isr' \in [pc : {"idle", "check", "place", "advance", "leave"}, data : Seq(Byte)]
      /\ isr'.pc \in {"check", "leave"} /\ (isr'.pc = "check" => isr'.data # <<>>)
  BY <1>1, <1>2, <1>3, NextPlace
<1>7. BytesInv'
  BY <1>1, <1>2, <1>6 DEF BytesInv
<1> QED
  BY <1>1, <1>3, <1>4, <1>5, <1>7 DEF Kept, FifoStep

LEMMA MainChecksKeeps ==
    ASSUME BytesInv, MainChecks
    PROVE  Kept
<1>1. /\ main.pc = "check" /\ UNCHANGED <<buffer, head_index, tail_index, lock, isr, delivered>>
      /\ main' \in [pc : {"idle", "check", "advance", "leave"}, len : Int]
      /\ main'.pc \in {"advance", "leave"}
      /\ main'.pc = "advance" => head_index # tail_index /\ chr' = buffer[tail_index]
  BY DEF MainChecks, is_empty, ring, BytesInv
<1>2. Contents' = Contents
  BY <1>1 DEF Contents
<1>3. BytesInv'
  BY <1>1 DEF BytesInv
<1> QED
  BY <1>1, <1>2, <1>3 DEF Kept, FifoStep

LEMMA MainAdvancesKeeps ==
    ASSUME BytesInv, MainAdvances
    PROVE  Kept
<1> DEFINE h == head_index
           t == tail_index
<1>1. /\ main.pc = "advance" /\ tail_index' = Index(t + 1) /\ delivered' = chr
      /\ main' = [pc |-> "check", len |-> main.len - 1]
      /\ UNCHANGED <<buffer, head_index, lock, isr, chr>>
  BY DEF MainAdvances
<1>2. /\ lock = "main" /\ isr.pc = "idle" /\ buffer \in Bytes /\ h \in Place /\ t \in Place
      /\ h # t /\ chr = buffer[t] /\ main.len \in Int
  BY <1>1 DEF BytesInv
<1>3. Held(buffer, h, Index(t + 1)) = Tail(Held(buffer, h, t))
      /\ Head(Held(buffer, h, t)) = buffer[t]
  BY <1>2, HeldShrinks
<1>4. Contents' = Tail(Contents) /\ delivered' = Head(Contents) /\ Contents # <<>>
  BY <1>1, <1>2, <1>3, InvTypes DEF Contents
<1>5. tail_index' \in Place /\ main' \in [pc : {"idle", "check", "advance", "leave"}, len : Int]
  BY <1>1, <1>2, NextPlace
<1>6. BytesInv'
  BY <1>1, <1>2, <1>5 DEF BytesInv
<1> QED
  BY <1>4, <1>6 DEF Kept, FifoStep

LEMMA ResetKeeps ==
    ASSUME BytesInv, Reset
    PROVE  Kept
<1>1. /\ lock = "free" /\ head_index' = 0 /\ tail_index' = 0 /\ 0 \in Place
      /\ UNCHANGED <<buffer, lock, isr, main, chr, delivered>>
  BY RingBufferAssumption DEF Reset, Place
<1>2. BytesInv'
  BY <1>1 DEF BytesInv
<1>3. Contents' = <<>>
  <2>1. Held(buffer', head_index', tail_index') = <<>>
    BY <1>1, HeldIs DEF BytesInv
  <2> QED BY <2>1 DEF Contents
<1> QED
  BY <1>1, <1>2, <1>3 DEF Kept, FifoStep

LEMMA OthersKeep ==
    ASSUME BytesInv,
           IsrLeaves \/ MainLeaves \/ (\E len \in 1 .. MaxBatch : MainEnters(len)) \/ UNCHANGED byteVars
    PROVE  Kept
<1>1. UNCHANGED <<buffer, head_index, tail_index, delivered>>
  BY DEF IsrLeaves, MainLeaves, MainEnters, byteVars, ring
<1>2. Contents' = Contents
  BY <1>1 DEF Contents
<1>3. BytesInv'
  <2>1. CASE IsrLeaves
    BY <2>1 DEF IsrLeaves, ring, BytesInv
  <2>2. CASE MainLeaves
    BY <2>2 DEF MainLeaves, ring, BytesInv
  <2>3. ASSUME NEW len \in 1 .. MaxBatch, MainEnters(len) PROVE BytesInv'
    <3>1. len \in Int
      OBVIOUS
    <3> QED BY <2>3, <3>1 DEF MainEnters, ring, BytesInv
  <2>4. CASE UNCHANGED byteVars
    BY <2>4 DEF byteVars, ring, BytesInv
  <2> QED BY <2>1, <2>2, <2>3, <2>4
<1> QED
  BY <1>1, <1>2, <1>3 DEF Kept, FifoStep

LEMMA BytesStart == BytesInit => BytesInv /\ Fifo!Init
<1> SUFFICES ASSUME BytesInit PROVE BytesInv /\ Fifo!Init
  OBVIOUS
<1>1. /\ buffer \in Bytes /\ head_index = 0 /\ tail_index = 0 /\ 0 \in Place
      /\ <<>> \in Seq(Byte)
  BY RingBufferAssumption DEF BytesInit, Bytes, Cell, Place
<1>2. BytesInv
  BY <1>1 DEF BytesInit, BytesInv
<1>3. Contents = <<>>
  BY <1>1, HeldIs DEF Contents
<1> QED
  BY <1>2, <1>3, ContentsAre DEF BytesInit, Fifo!Init

LEMMA BytesStep == BytesInv /\ [BytesNext]_byteVars => BytesInv' /\ [Fifo!Next]_(Fifo!vars)
<1> SUFFICES ASSUME BytesInv, [BytesNext]_byteVars PROVE Kept
  BY FifoSteps DEF Kept
<1> QED
  BY IsrEntersKeeps, IsrChecksKeeps, IsrPlacesKeeps, IsrAdvancesKeeps, MainChecksKeeps,
     MainAdvancesKeeps, ResetKeeps, OthersKeep DEF BytesNext

\* The byte ring delivers the bytes in the order they were put, and loses one only when
\* it is full, and then the oldest, for any size and bytes, although the interrupt may
\* come at any moment that main does not hold it off.
THEOREM BytesAreFifo == BytesSpec => ImplementsFifo
BY BytesStart, BytesStep, PTL DEF BytesSpec, ImplementsFifo, Fifo!Spec

-----------------------------------------------------------------------------
(***************************************************************************)
(* The 32-bit timers of src/simple, in a build that wraps: a deadline that *)
(* is less than half the clock's range away is told from one that has      *)
(* passed by the sign of a difference of words, wherever the clock is.     *)
(***************************************************************************)

LEMMA ClockFacts ==
    /\ Half \in Int /\ Half > 0 /\ Modulus \in Nat /\ Modulus > 0 /\ Modulus = 2 * Half
    /\ \A v : v \in Word <=> v \in Int /\ 0 <= v /\ v < Modulus
BY ClockAssumption DEF Word

\* What a number that is at most one round off is as a word
LEMMA WordOf ==
    ASSUME NEW v \in Int, -Modulus <= v, v < 2 * Modulus
    PROVE  v % Modulus = IF v < 0 THEN v + Modulus ELSE IF v < Modulus THEN v ELSE v - Modulus
<1> USE ClockFacts
<1>1. CASE v < 0
  <2>1. v % Modulus = v + Modulus
    BY <1>1
  <2> QED BY <2>1, <1>1
<1>2. CASE 0 <= v /\ v < Modulus
  <2>1. v % Modulus = v
    BY <1>2
  <2> QED BY <2>1, <1>2
<1>3. CASE Modulus <= v
  <2>1. v % Modulus = v - Modulus
    BY <1>3
  <2> QED BY <2>1, <1>3
<1> QED
  BY <1>1, <1>2, <1>3

LEMMA PlusIs ==
    ASSUME NEW n \in Word, NEW k \in Int, -Half <= k, k <= Half
    PROVE  /\ Plus(n, k) = IF n + k < 0 THEN n + k + Modulus
                           ELSE IF n + k < Modulus THEN n + k ELSE n + k - Modulus
           /\ Plus(n, k) \in Word
<1>1. n \in Int /\ 0 <= n /\ n < Modulus /\ Half \in Int /\ Modulus \in Int /\ Modulus = 2 * Half /\ Half > 0
  BY ClockFacts
<1>2. PICK v \in Int : v = n + k
  BY <1>1
<1>3. -Modulus <= v /\ v < 2 * Modulus
  BY <1>1, <1>2
<1>4. v % Modulus = IF v < 0 THEN v + Modulus ELSE IF v < Modulus THEN v ELSE v - Modulus
  BY <1>3, WordOf
<1>5. Plus(n, k) = v % Modulus
  BY <1>2 DEF Plus
<1>6. Plus(n, k) \in Int /\ 0 <= Plus(n, k) /\ Plus(n, k) < Modulus
  BY <1>1, <1>3, <1>4, <1>5
<1> QED
  BY <1>1, <1>2, <1>4, <1>5, <1>6, ClockFacts

\* A millisecond takes one from the time left of a deadline, which stays where it is.

\* A millisecond later a deadline is a millisecond nearer.
LEMMA PlusPasses ==
    ASSUME NEW n \in Word, NEW k \in Int, -Half < k, k <= Half
    PROVE  Plus(n, 1) \in Word /\ Plus(Plus(n, 1), k - 1) = Plus(n, k)
<1>1. n \in Int /\ 0 <= n /\ n < Modulus /\ Half \in Int /\ Modulus \in Int /\ Modulus = 2 * Half /\ Half > 0
  BY ClockFacts
<1>2. Plus(n, k) = IF n + k < 0 THEN n + k + Modulus
                   ELSE IF n + k < Modulus THEN n + k ELSE n + k - Modulus
  <2>1. -Half <= k
    BY <1>1
  <2> QED BY <2>1, PlusIs
<1>3. PICK m \in Word : m = Plus(n, 1) /\ m = IF n + 1 < Modulus THEN n + 1 ELSE n + 1 - Modulus
  <2>1. 1 \in Int /\ -Half <= 1 /\ 1 <= Half
    BY <1>1
  <2>2. /\ Plus(n, 1) \in Word
        /\ Plus(n, 1) = IF n + 1 < 0 THEN n + 1 + Modulus
                        ELSE IF n + 1 < Modulus THEN n + 1 ELSE n + 1 - Modulus
    BY <2>1, PlusIs
  <2> QED BY <2>2, <1>1
<1>4. PICK j \in Int : j = k - 1
  OBVIOUS
<1>5. Plus(m, j) = IF m + j < 0 THEN m + j + Modulus
                   ELSE IF m + j < Modulus THEN m + j ELSE m + j - Modulus
  <2>1. -Half <= j /\ j <= Half
    BY <1>1, <1>4
  <2> QED BY <2>1, PlusIs
<1>6. m \in Int
  BY ClockFacts
<1>7. Plus(m, j) = Plus(n, k)
  BY <1>1, <1>2, <1>3, <1>4, <1>5, <1>6
<1> QED
  BY <1>3, <1>4, <1>7

\* The sign of a difference of words: a deadline that is less than half a round away
\* is due when nothing is left, but for the word 0, which is put off to 1.
Due(n, g) == Difference(n, g) >= 0

LEMMA DueIs ==
    ASSUME Build = "wraps", NEW n \in Word, NEW k \in Int, -Half < k, k < Half
    PROVE  LET g == Deadline(Plus(n, k))
           IN  /\ g \in Word /\ g # 0
               /\ k > 0 => ~Due(n, g)
               /\ k < 0 => Due(n, g)
               /\ k = 0 => Due(n, g) \/ g = 1
               /\ k = 0 /\ Plus(n, k) # 0 => Due(n, g)
<1> DEFINE w == Plus(n, k)
<1>1. n \in Int /\ 0 <= n /\ n < Modulus /\ Half \in Int /\ Modulus \in Int /\ Modulus = 2 * Half /\ Half > 0
  BY ClockFacts
<1>2. /\ w = IF n + k < 0 THEN n + k + Modulus
             ELSE IF n + k < Modulus THEN n + k ELSE n + k - Modulus
      /\ w \in Word
  <2>1. -Half <= k /\ k <= Half
    BY <1>1
  <2> QED BY <2>1, PlusIs
<1>3. w \in Int /\ 0 <= w /\ w < Modulus
  BY <1>2, ClockFacts
<1> HIDE DEF w
<1>4. PICK g \in Word : g = Deadline(w) /\ g = IF w = 0 THEN 1 ELSE w
  <2>1. Deadline(w) = IF w = 0 THEN 1 ELSE w
    BY DEF Deadline
  <2>2. 1 \in Word
    BY <1>1, ClockFacts
  <2>3. Deadline(w) \in Word
    BY <1>2, <2>1, <2>2
  <2> QED BY <2>1, <2>3
<1>5. g \in Int /\ 0 <= g /\ g < Modulus
  BY ClockFacts
<1>6. PICK v \in Int : v = n - g
  BY <1>1, <1>5
<1>7. -Modulus <= v /\ v < 2 * Modulus
  BY <1>1, <1>5, <1>6
<1>8. v % Modulus = IF v < 0 THEN v + Modulus ELSE IF v < Modulus THEN v ELSE v - Modulus
  BY <1>7, WordOf
<1>9. Difference(n, g) = LET d == v % Modulus IN IF d >= Half THEN d - Modulus ELSE d
  BY <1>6 DEF Difference, AsInt
<1>10. PICK d \in Int : d = v % Modulus /\ d = IF v < 0 THEN v + Modulus ELSE v
  BY <1>1, <1>5, <1>6, <1>8
<1>11. Due(n, g) <=> (IF d >= Half THEN d - Modulus ELSE d) >= 0
  BY <1>9, <1>10 DEF Due
<1>12. Due(n, g) <=> d < Half
  BY <1>1, <1>5, <1>6, <1>10, <1>11
<1>13. /\ k > 0 => ~(d < Half)
       /\ k < 0 => d < Half
       /\ k = 0 => d < Half \/ g = 1
       /\ k = 0 /\ w # 0 => d < Half
  BY <1>1, <1>2, <1>3, <1>4, <1>5, <1>6, <1>10
<1> QED
  BY <1>1, <1>4, <1>12, <1>13 DEF w

-----------------------------------------------------------------------------
\* A timer whose time is followed is due when its deadline says.  In the test the timer
\* has not been put off, and main does not let a due one pass.
TimersInv ==
    /\ now \in Word /\ g_timer_0 \in [Idx -> Word] /\ started \subseteq Idx
    /\ left \in [Idx -> -Half .. Half - 1]
    /\ RunningIsStarted
    /\ \A idx \in started : left[idx] > -Half => g_timer_0[idx] = Deadline(Plus(now, left[idx]))

TestInv ==
    /\ pc \in {"start", "wait", "done"} /\ started \subseteq {TestIdx}
    /\ pc = "start" => round \in Nat \ {0}
    /\ pc # "start" => round \in Nat \ {0} /\ TestIdx \in started
    /\ pc = "wait" => left[TestIdx] >= 0 /\ Plus(now, left[TestIdx]) # 0
    /\ pc = "done" => left[TestIdx] = 0

LEMMA DueFollows ==
    ASSUME Build = "wraps", TimersInv, NEW idx \in started, left[idx] > -Half
    PROVE  /\ left[idx] > 0 => ~timer_is_timeout(idx)
           /\ left[idx] < 0 => timer_is_timeout(idx)
           /\ left[idx] = 0 => timer_is_timeout(idx) \/ g_timer_0[idx] = 1
           /\ left[idx] = 0 /\ Plus(now, left[idx]) # 0 => timer_is_timeout(idx)
<1> DEFINE k == left[idx]
<1>1. /\ now \in Word /\ k \in Int /\ -Half < k /\ k < Half
      /\ g_timer_0[idx] = Deadline(Plus(now, k))
  BY ClockFacts DEF TimersInv
<1> HIDE DEF k
<1>2. LET g == Deadline(Plus(now, k))
      IN  /\ k > 0 => ~Due(now, g)
          /\ k < 0 => Due(now, g)
          /\ k = 0 => Due(now, g) \/ g = 1
          /\ k = 0 /\ Plus(now, k) # 0 => Due(now, g)
  BY <1>1, DueIs
<1>3. timer_is_timeout(idx) <=> Due(now, g_timer_0[idx])
  BY DEF timer_is_timeout, Due
<1> QED
  BY <1>1, <1>2, <1>3 DEF k

\* The deadline a timer is started with
LEMMA DeadlineIs ==
    ASSUME NEW n \in Word, NEW k \in Int, -Half <= k, k <= Half
    PROVE  Deadline(Plus(n, k)) \in Word /\ Deadline(Plus(n, k)) # 0
<1>1. Plus(n, k) \in Word
  BY PlusIs
<1>2. 1 \in Word
  BY ClockFacts
<1> QED
  BY <1>1, <1>2 DEF Deadline

LEMMA StartKeeps ==
    ASSUME TimersInv, NEW idx \in Idx, NEW timeout \in 0 .. Half - 1,
           timer_start(idx, timeout), UNCHANGED now
    PROVE  TimersInv'
<1>1. /\ now \in Word /\ timeout \in Int /\ -Half <= timeout /\ timeout <= Half
      /\ timeout \in -Half .. Half - 1
  BY ClockFacts DEF TimersInv
<1>2. Deadline(Plus(now, timeout)) \in Word /\ Deadline(Plus(now, timeout)) # 0
  BY <1>1, DeadlineIs
<1> DEFINE d == Deadline(Plus(now, timeout))
<1> HIDE DEF d
<1>3. /\ g_timer_0' = [g_timer_0 EXCEPT ![idx] = d] /\ started' = started \cup {idx}
      /\ left' = [left EXCEPT ![idx] = timeout] /\ now' = now
      /\ d \in Word /\ d # 0
  BY <1>2 DEF timer_start, d
<1>4. /\ g_timer_0' \in [Idx -> Word] /\ started' \subseteq Idx
      /\ left' \in [Idx -> -Half .. Half - 1]
  BY <1>1, <1>3 DEF TimersInv
<1>5. RunningIsStarted'
  BY <1>3 DEF TimersInv, RunningIsStarted, timer_is_running
<1>6. ASSUME NEW x \in started', left'[x] > -Half
      PROVE  g_timer_0'[x] = Deadline(Plus(now, left'[x]))
  <2>1. CASE x = idx
    BY <2>1, <1>3 DEF TimersInv, d
  <2>2. CASE x # idx
    BY <2>2, <1>3, <1>6 DEF TimersInv
  <2> QED BY <2>1, <2>2
<1> QED
  BY <1>1, <1>3, <1>4, <1>5, <1>6 DEF TimersInv

LEMMA StopKeeps ==
    ASSUME TimersInv, NEW idx \in Idx, timer_stop(idx), UNCHANGED now
    PROVE  TimersInv'
<1>1. 0 \in Word /\ 0 \in -Half .. Half - 1
  BY ClockFacts
<1>2. /\ g_timer_0' = [g_timer_0 EXCEPT ![idx] = 0] /\ started' = started \ {idx}
      /\ left' = [left EXCEPT ![idx] = 0] /\ now' = now
  BY DEF timer_stop
<1>3. /\ g_timer_0' \in [Idx -> Word] /\ started' \subseteq Idx
      /\ left' \in [Idx -> -Half .. Half - 1]
  BY <1>1, <1>2 DEF TimersInv
<1>4. RunningIsStarted'
  BY <1>2 DEF TimersInv, RunningIsStarted, timer_is_running
<1> QED
  BY <1>2, <1>3, <1>4 DEF TimersInv

LEMMA PassKeeps ==
    ASSUME TimersInv, Pass
    PROVE  /\ TimersInv'
           /\ \A idx \in started : left[idx] > -Half =>
                 left'[idx] = left[idx] - 1 /\ Plus(now', left'[idx]) = Plus(now, left[idx])
<1>1. /\ now' = Plus(now, 1) /\ UNCHANGED <<g_timer_0, started>>
      /\ left' = [idx \in Idx |-> IF idx \in started /\ left[idx] > -Half
                                  THEN left[idx] - 1 ELSE left[idx]]
  BY DEF Pass
<1>2. now \in Word /\ Half \in Int /\ Half > 0
  BY ClockFacts DEF TimersInv
<1>3. now' \in Word
  <2>1. 1 \in Int /\ -Half <= 1 /\ 1 <= Half
    BY <1>2
  <2> QED BY <2>1, <1>1, <1>2, PlusIs
<1>4. ASSUME NEW idx \in Idx
      PROVE  left[idx] \in Int /\ -Half <= left[idx] /\ left[idx] < Half
             /\ left'[idx] \in -Half .. Half - 1
  <2>1. left[idx] \in -Half .. Half - 1
    BY DEF TimersInv
  <2> QED BY <2>1, <1>1, <1>2
<1>5. ASSUME NEW idx \in started, left[idx] > -Half
      PROVE  left'[idx] = left[idx] - 1 /\ Plus(now', left'[idx]) = Plus(now, left[idx])
  <2>1. idx \in Idx /\ left'[idx] = left[idx] - 1
    BY <1>1, <1>5 DEF TimersInv
  <2>2. PICK k \in Int : k = left[idx] /\ -Half < k /\ k <= Half
    BY <2>1, <1>2, <1>4, <1>5
  <2>3. Plus(Plus(now, 1), k - 1) = Plus(now, k)
    BY <1>2, <2>2, PlusPasses
  <2> QED BY <2>1, <2>2, <2>3, <1>1
<1>6. left' \in [Idx -> -Half .. Half - 1]
  BY <1>1, <1>4
<1>7. ASSUME NEW idx \in started, left'[idx] > -Half
      PROVE  g_timer_0[idx] = Deadline(Plus(now', left'[idx]))
  <2>1. idx \in Idx /\ left[idx] > -Half
    BY <1>1, <1>2, <1>4, <1>7 DEF TimersInv
  <2> QED BY <2>1, <1>5 DEF TimersInv
<1>8. RunningIsStarted'
  BY <1>1 DEF TimersInv, RunningIsStarted, timer_is_running
<1>9. TimersInv'
  BY <1>1, <1>3, <1>6, <1>7, <1>8 DEF TimersInv
<1> QED
  BY <1>5, <1>9

LEMMA AnyStartKeeps ==
    ASSUME NEW start \in Word, AnyStart(start)
    PROVE  TimersInv /\ TestInv
<1>1. 0 \in Word /\ 0 \in -Half .. Half - 1
  BY ClockFacts
<1> QED
  BY <1>1 DEF AnyStart, TimersInv, TestInv, RunningIsStarted, timer_is_running

LEMMA TimersStep ==
    ASSUME TimersInv, pc = "start", [TimersNext]_timerVars
    PROVE  TimersInv' /\ pc' = "start"
<1>1. ASSUME NEW idx \in Idx, timer_stop(idx), UNCHANGED now PROVE TimersInv'
  BY <1>1, StopKeeps
<1>2. ASSUME NEW idx \in Idx, NEW timeout \in Timeouts, timer_start(idx, timeout), UNCHANGED now
      PROVE  TimersInv'
  <2>1. timeout \in 0 .. Half - 1
    BY SimpleTimerAssumption
  <2> QED BY <1>2, <2>1, StartKeeps
<1>3. ASSUME Pass PROVE TimersInv'
  BY <1>3, PassKeeps
<1>4. ASSUME UNCHANGED timerVars PROVE TimersInv'
  BY <1>4 DEF timerVars, TimersInv, RunningIsStarted, timer_is_running
<1> QED
  BY <1>1, <1>2, <1>3, <1>4 DEF TimersNext, timerVars

LEMMA DueAlways ==
    ASSUME Build = "wraps", TimersInv, pc = "done" => left[TestIdx] = 0
    PROVE  DueInTime
BY DueFollows DEF DueInTime, DiffOK, TimersInv

\* In a build that wraps, a timer is due when its time is over and not before, wherever
\* the clock is and however often it overflows, for words of any width.
THEOREM TimersAreDueInTime ==
    ASSUME Build = "wraps"
    PROVE  TimersSpec => []DueInTime
<1>1. TimersInit => TimersInv /\ pc = "start"
  BY AnyStartKeeps DEF TimersInit, AnyStart
<1>2. TimersInv /\ pc = "start" /\ [TimersNext]_timerVars => TimersInv' /\ (pc = "start")'
  BY TimersStep
<1>3. TimersInv /\ pc = "start" => DueInTime
  BY DueAlways
<1> QED
  BY <1>1, <1>2, <1>3, PTL DEF TimersSpec

-----------------------------------------------------------------------------
LEMMA TestStartKeeps ==
    ASSUME TimersInv, TestInv, TestStart
    PROVE  TimersInv' /\ TestInv'
<1> DEFINE n == Offsets[round]
           d == Deadline(Plus(n, TestTimeout))
<1>1. /\ pc = "start" /\ round \in 1 .. Len(Offsets) /\ Len(Offsets) \in Nat
      /\ now' = n /\ g_timer_0' = [g_timer_0 EXCEPT ![TestIdx] = d]
      /\ started' = {TestIdx} /\ left' = [left EXCEPT ![TestIdx] = TestTimeout]
      /\ pc' = "wait" /\ round' = round
  BY SimpleTimerAssumption DEF TestStart, TestInv
<1>2. n \in Word /\ Plus(n, TestTimeout) # 0
  BY <1>1, SimpleTimerAssumption
<1>3. /\ TestTimeout \in Int /\ -Half <= TestTimeout /\ TestTimeout <= Half
      /\ TestTimeout \in -Half .. Half - 1 /\ TestTimeout >= 0 /\ TestIdx \in Idx
  BY ClockFacts, SimpleTimerAssumption
<1>4. d \in Word /\ d # 0
  BY <1>2, <1>3, DeadlineIs
<1> HIDE DEF n
<1>5. g_timer_0' \in [Idx -> Word] /\ left' \in [Idx -> -Half .. Half - 1]
  BY <1>1, <1>3, <1>4 DEF TimersInv
<1>6. RunningIsStarted'
  BY <1>1, <1>3, <1>4 DEF TimersInv, TestInv, RunningIsStarted, timer_is_running
<1>7. left'[TestIdx] = TestTimeout /\ g_timer_0'[TestIdx] = d
  BY <1>1, <1>3 DEF TimersInv
<1>8. TimersInv'
  BY <1>1, <1>2, <1>3, <1>5, <1>6, <1>7 DEF TimersInv
<1> QED
  BY <1>1, <1>2, <1>3, <1>7, <1>8 DEF TestInv

LEMMA TestStep ==
    ASSUME Build = "wraps", TimersInv, TestInv, [TestNext]_timerVars
    PROVE  TimersInv' /\ TestInv'
<1>1. CASE TestWait
  <2> DEFINE k == left[TestIdx]
  <2>1. /\ pc = "wait" /\ ~timer_is_timeout(TestIdx) /\ Pass /\ UNCHANGED <<round, pc, started>>
        /\ TestIdx \in started /\ TestIdx \in Idx /\ k >= 0 /\ Plus(now, k) # 0
    BY <1>1 DEF TestWait, TestInv, Pass, TimersInv
  <2>2. k \in Int /\ k > -Half
    BY <2>1, ClockFacts DEF TimersInv
  <2>3. k # 0
    BY <2>1, <2>2, DueFollows
  <2>4. TimersInv' /\ left'[TestIdx] = k - 1 /\ Plus(now', left'[TestIdx]) = Plus(now, k)
    BY <2>1, <2>2, PassKeeps
  <2> HIDE DEF k
  <2>5. k - 1 >= 0
    BY <2>1, <2>2, <2>3
  <2> QED BY <2>1, <2>4, <2>5 DEF TestInv
<1>2. CASE TestTimedOut
  <2> DEFINE k == left[TestIdx]
  <2>1. /\ pc = "wait" /\ timer_is_timeout(TestIdx) /\ pc' = "done"
        /\ UNCHANGED <<now, g_timer_0, started, left, round>>
        /\ TestIdx \in started /\ TestIdx \in Idx /\ k >= 0
    BY <1>2 DEF TestTimedOut, TestInv, TimersInv
  <2>2. k \in Int /\ k > -Half
    BY <2>1, ClockFacts DEF TimersInv
  <2>3. ~(k > 0)
    BY <2>1, <2>2, DueFollows
  <2>4. k = 0
    BY <2>1, <2>2, <2>3
  <2>5. TimersInv'
    BY <2>1 DEF TimersInv, RunningIsStarted, timer_is_running
  <2> QED BY <2>1, <2>4, <2>5 DEF TestInv
<1>3. CASE TestNextRound
  <2>1. /\ pc = "done" /\ pc' = "start" /\ round' = round + 1
        /\ UNCHANGED <<now, g_timer_0, started, left>>
    BY <1>3 DEF TestNextRound
  <2>2. TimersInv'
    BY <2>1 DEF TimersInv, RunningIsStarted, timer_is_running
  <2> QED BY <2>1, <2>2 DEF TestInv
<1>4. CASE UNCHANGED timerVars
  BY <1>4 DEF timerVars, TimersInv, RunningIsStarted, timer_is_running, TestInv
<1> QED
  BY <1>1, <1>2, <1>3, <1>4, TestStartKeeps DEF TestNext

\* In a build that wraps, the overflow test prints diff=OK after each round, for any clock
\* values it starts from whose deadline is not 0.
THEOREM TestSucceeds ==
    ASSUME Build = "wraps"
    PROVE  TestSpec => []DueInTime
<1>1. TestInit => TimersInv /\ TestInv
  <2>1. 0 \in Word
    BY ClockFacts
  <2> QED BY <2>1, AnyStartKeeps DEF TestInit
<1>2. TimersInv /\ TestInv /\ [TestNext]_timerVars => TimersInv' /\ TestInv'
  BY TestStep
<1>3. TimersInv /\ TestInv => DueInTime
  BY DueAlways DEF TestInv
<1> QED
  BY <1>1, <1>2, <1>3, PTL DEF TestSpec
=============================================================================
