----------------------- MODULE MyptmMessageQueueProofs -----------------------
(***************************************************************************)
(* The two lists of slots of the message queue.                            *)
(***************************************************************************)
EXTENDS MyptmMessageQueue, MyptmListsProofs

\* s lists the slots from p on, to the one whose next pointer is NULL.
Links(to, p, s) ==
    /\ s \in Seq(Slot) /\ IsInjective(s)
    /\ p = IF s = <<>> THEN Null ELSE s[1]
    /\ \A i \in 1 .. Len(s) : to[s[i]] = IF i < Len(s) THEN s[i + 1] ELSE Null

\* A list that holds no slot twice is not longer than the pool.
LEMMA SlotsFit ==
    ASSUME NEW s \in Seq(Slot), IsInjective(s)
    PROVE  Len(s) <= MaxMsgs
<1>1. MaxMsgs \in Nat
  BY MessageQueueAssumption
<1>2. IsFiniteSet(Slot) /\ Cardinality(Slot) = MaxMsgs
  BY <1>1, IntervalSize DEF Slot
<1> QED
  BY <1>2, ListFits

\* Following the next pointers gives the list they link, and no other.
LEMMA ChainIsList ==
    ASSUME NEW to, NEW p, NEW s, Links(to, p, s)
    PROVE  Chain(to, p) = s
<1> DEFINE n == Len(s)
           Walk(f) == [i \in 0 .. MaxMsgs |->
                          IF i = 0 THEN p ELSE IF f[i - 1] = Null THEN Null ELSE to[f[i - 1]]]
           at == CHOOSE f : f = Walk(f)
           listed == [i \in 0 .. MaxMsgs |-> IF i < n THEN s[i + 1] ELSE Null]
<1>1. /\ MaxMsgs \in Nat /\ n \in Nat /\ n <= MaxMsgs
      /\ s \in Seq(Slot) /\ s = [i \in 1 .. n |-> s[i]]
      /\ \A i \in 1 .. n : s[i] # Null
  <2>1. s \in Seq(Slot) /\ IsInjective(s) /\ MaxMsgs \in Nat
    BY MessageQueueAssumption DEF Links
  <2>2. n <= MaxMsgs
    BY <2>1, SlotsFit
  <2> QED BY <2>1, <2>2 DEF Slot, Null
<1>2. listed = Walk(listed)
  <2> SUFFICES ASSUME NEW i \in 0 .. MaxMsgs
               PROVE  listed[i] = Walk(listed)[i]
    OBVIOUS
  <2>1. CASE i = 0
    BY <2>1, <1>1 DEF Links
  <2>2. CASE i # 0
    <3>1. i - 1 \in 0 .. MaxMsgs /\ (i - 1) + 1 = i
      BY <2>2, <1>1
    <3>2. CASE i - 1 < n
      <4>1. i \in 1 .. n /\ listed[i - 1] = s[i] /\ s[i] # Null
        BY <3>1, <3>2, <2>2, <1>1
      <4>2. to[s[i]] = IF i < n THEN s[i + 1] ELSE Null
        BY <4>1 DEF Links
      <4> QED BY <4>1, <4>2, <2>2, <1>1
    <3>3. CASE ~(i - 1 < n)
      BY <3>1, <3>3, <2>2, <1>1
    <3> QED BY <3>2, <3>3
  <2> QED BY <2>1, <2>2
<1>3. at = Walk(at)
  BY <1>2
<1> HIDE DEF at
<1>4. at = listed
  <2> DEFINE Differ == {i \in 0 .. MaxMsgs : at[i] # listed[i]}
  <2>1. SUFFICES Differ = {}
    BY <1>3
  <2>2. SUFFICES ASSUME Differ # {} PROVE FALSE
    OBVIOUS
  <2>3. PICK i \in Differ : \A j \in Differ : i <= j
    <3>1. Differ \subseteq Nat
      BY <1>1
    <3> HIDE DEF Differ
    <3> QED BY <3>1, <2>2, LeastElement
  <2>4. i \in 0 .. MaxMsgs
    OBVIOUS
  <2>5. i # 0
    BY <1>2, <1>3, <2>3
  <2>6. i - 1 \in 0 .. MaxMsgs /\ ~(i <= i - 1)
    BY <2>4, <2>5, <1>1
  <2>7. at[i - 1] = listed[i - 1]
    BY <2>3, <2>6
  <2>8. at[i] = listed[i]
    <3> HIDE DEF listed, Differ
    <3>1. at[i] = IF at[i - 1] = Null THEN Null ELSE to[at[i - 1]]
      BY <1>3, <2>4, <2>5
    <3>2. listed[i] = IF listed[i - 1] = Null THEN Null ELSE to[listed[i - 1]]
      BY <1>2, <2>4, <2>5
    <3> QED BY <2>7, <3>1, <3>2
  <2> QED BY <2>3, <2>8
<1>5. {i \in 0 .. MaxMsgs : at[i] # Null} = 0 .. n - 1
  BY <1>1, <1>4
<1>6. Cardinality(0 .. n - 1) = n
  BY <1>1, IntervalSize
<1>7. Chain(to, p) = [i \in 1 .. n |-> at[i - 1]]
  BY <1>5, <1>6 DEF Chain, at
<1>8. \A i \in 1 .. n : at[i - 1] = s[i]
  BY <1>1, <1>4
<1> QED
  BY <1>1, <1>7, <1>8
-----------------------------------------------------------------------------
\* What the pointers say does not change when those of other slots do.
LEMMA LinksFrame ==
    ASSUME NEW to, NEW p, NEW s, Links(to, p, s),
           NEW new, \A x \in Range(s) : new[x] = to[x]
    PROVE  Links(new, p, s)
<1>1. s \in Seq(Slot)
  BY DEF Links
<1>2. \A i \in 1 .. Len(s) : s[i] \in Range(s)
  BY <1>1 DEF Range
<1> QED
  BY <1>2 DEF Links

\* The first slot is taken off the list.
LEMMA LinksTail ==
    ASSUME NEW to, NEW p, NEW s, Links(to, p, s), s # <<>>
    PROVE  p = Head(s) /\ p \in Slot /\ Links(to, to[p], Tail(s))
<1>1. s \in Seq(Slot) /\ IsInjective(s) /\ p = s[1]
  BY DEF Links
<1>2. p = Head(s) /\ p \in Slot /\ Tail(s) \in Seq(Slot) /\ IsInjective(Tail(s))
  BY <1>1, TailLemma
<1>3. /\ Len(s) \in Nat /\ Len(s) > 0 /\ Len(Tail(s)) = Len(s) - 1
      /\ \A i \in 1 .. Len(s) - 1 : Tail(s)[i] = s[i + 1]
  BY <1>1
<1>4. \A i \in 1 .. Len(s) : to[s[i]] = IF i < Len(s) THEN s[i + 1] ELSE Null
  BY DEF Links
<1>5. to[p] = IF Tail(s) = <<>> THEN Null ELSE Tail(s)[1]
  <2>1. to[p] = IF 1 < Len(s) THEN s[2] ELSE Null
    BY <1>1, <1>3, <1>4
  <2>2. CASE 1 < Len(s)
    <3>1. Tail(s) # <<>> /\ Tail(s)[1] = s[2]
      BY <2>2, <1>2, <1>3, SeqElements
    <3> QED BY <2>1, <2>2, <3>1
  <2>3. CASE ~(1 < Len(s))
    <3>1. Tail(s) = <<>>
      BY <2>3, <1>2, <1>3, SeqElements
    <3> QED BY <2>1, <2>3, <3>1
  <2> QED BY <2>2, <2>3
<1>6. ASSUME NEW i \in 1 .. Len(Tail(s))
      PROVE  to[Tail(s)[i]] = IF i < Len(Tail(s)) THEN Tail(s)[i + 1] ELSE Null
  BY <1>3, <1>4
<1> QED
  BY <1>2, <1>5, <1>6 DEF Links

\* A slot is put in front of the list.
LEMMA LinksPush ==
    ASSUME NEW to, NEW p, NEW s, Links(to, p, s), NEW x \in Slot \ Range(s),
           NEW new, new[x] = p, \A y \in Range(s) : new[y] = to[y]
    PROVE  Links(new, x, <<x>> \o s)
<1> DEFINE r == <<x>> \o s
<1>1. s \in Seq(Slot) /\ IsInjective(s) /\ p = IF s = <<>> THEN Null ELSE s[1]
  BY DEF Links
<1>2. /\ <<x>> \in Seq(Slot) /\ Range(<<x>>) = {x} /\ IsInjective(<<x>>)
  BY DEF Range, IsInjective
<1>3. r \in Seq(Slot) /\ IsInjective(r)
  BY <1>1, <1>2, ConcatLemma
<1>4. /\ Len(s) \in Nat /\ Len(r) = Len(s) + 1 /\ r[1] = x
      /\ \A i \in 1 .. Len(s) : r[i + 1] = s[i]
  BY <1>1, <1>2
<1>5. \A i \in 1 .. Len(s) :
         s[i] \in Range(s) /\ new[s[i]] = IF i < Len(s) THEN s[i + 1] ELSE Null
  BY <1>1 DEF Links, Range
<1> HIDE DEF r
<1>6. ASSUME NEW i \in 1 .. Len(r)
      PROVE  new[r[i]] = IF i < Len(r) THEN r[i + 1] ELSE Null
  <2>1. CASE i = 1
    BY <2>1, <1>1, <1>4
  <2>2. CASE i # 1
    <3>1. i - 1 \in 1 .. Len(s) /\ (i - 1) + 1 = i /\ r[i] = s[i - 1]
      BY <2>2, <1>4
    <3>2. CASE i < Len(r)
      <4>1. i \in 1 .. Len(s) /\ i - 1 < Len(s) /\ r[i + 1] = s[i]
        BY <3>1, <3>2, <1>4
      <4> QED BY <3>1, <3>2, <4>1, <1>5
    <3>3. CASE ~(i < Len(r))
      <4>1. ~(i - 1 < Len(s))
        BY <3>1, <3>3, <1>4
      <4> QED BY <3>1, <3>3, <4>1, <1>5
    <3> QED BY <3>2, <3>3
  <2> QED BY <2>1, <2>2
<1>7. r # <<>> /\ r[1] = x
  BY <1>4, <1>1
<1> QED
  BY <1>3, <1>6, <1>7 DEF Links, r

\* A slot is put after the last of the list.
LEMMA LinksAppend ==
    ASSUME NEW to, NEW p, NEW s, Links(to, p, s), NEW x \in Slot \ Range(s),
           NEW new, new[x] = Null,
           \A y \in Range(s) : new[y] = IF y = s[Len(s)] THEN x ELSE to[y]
    PROVE  Links(new, IF s = <<>> THEN x ELSE p, Append(s, x))
<1> DEFINE r == Append(s, x)
<1>1. s \in Seq(Slot) /\ IsInjective(s) /\ p = IF s = <<>> THEN Null ELSE s[1]
  BY DEF Links
<1>2. r \in Seq(Slot) /\ IsInjective(r)
  BY <1>1, AppendLemma
<1>3. /\ Len(s) \in Nat /\ Len(r) = Len(s) + 1 /\ r[Len(s) + 1] = x
      /\ \A i \in 1 .. Len(s) : r[i] = s[i] /\ s[i] \in Range(s)
  BY <1>1 DEF Range
<1>4. \A i \in 1 .. Len(s) : to[s[i]] = IF i < Len(s) THEN s[i + 1] ELSE Null
  BY DEF Links
<1>5. \A i \in 1 .. Len(s) : s[i] = s[Len(s)] => i = Len(s)
  BY <1>1, <1>3 DEF IsInjective
<1> HIDE DEF r
<1>6. ASSUME NEW i \in 1 .. Len(r)
      PROVE  new[r[i]] = IF i < Len(r) THEN r[i + 1] ELSE Null
  <2>1. CASE i < Len(s)
    <3>1. /\ i \in 1 .. Len(s) /\ i + 1 \in 1 .. Len(s) /\ i < Len(r)
          /\ i # Len(s)
      BY <2>1, <1>3
    <3>2. new[s[i]] = to[s[i]]
      BY <3>1, <1>3, <1>5
    <3> QED BY <2>1, <3>1, <3>2, <1>3, <1>4
  <2>2. CASE i = Len(s)
    BY <2>2, <1>3
  <2>3. CASE i = Len(s) + 1
    BY <2>3, <1>3
  <2> QED BY <2>1, <2>2, <2>3, <1>3
<1>7. r # <<>> /\ r[1] = IF s = <<>> THEN x ELSE p
  BY <1>1, <1>3
<1> QED
  BY <1>2, <1>6, <1>7 DEF Links, r

-----------------------------------------------------------------------------
(***************************************************************************)
(* The two lists.  The slots they hold are named by sequences f and q,      *)
(* which ChainIsList shows to be Free and Queued.                          *)
(***************************************************************************)
ListsAre(f, q) ==
    /\ Links(next, free, f) /\ Links(next, head, q)
    /\ Range(f) \cap Range(q) = {} /\ Range(f) \cup Range(q) = Slot
    /\ entry = Len(q)
    /\ tail = IF q = <<>> THEN Null ELSE q[Len(q)]

ListsInv == next \in [Slot -> 0 .. MaxMsgs] /\ ListsAre(Free, Queued)

LEMMA ListsKnown ==
    ASSUME NEW f, NEW q, ListsAre(f, q)
    PROVE  Free = f /\ Queued = q
BY ChainIsList DEF ListsAre, Free, Queued

LEMMA ListsKnownNext ==
    ASSUME NEW f, NEW q, ListsAre(f, q)'
    PROVE  Free' = f /\ Queued' = q
BY ChainIsList DEF ListsAre, Free, Queued

LEMMA ListsInvImplies == ListsInv => ListsPartition
<1> SUFFICES ASSUME ListsInv PROVE ListsPartition
  OBVIOUS
<1>1. Free \in Seq(Slot) /\ IsInjective(Free) /\ Queued \in Seq(Slot) /\ IsInjective(Queued)
  BY DEF ListsInv, ListsAre, Links
<1>2. IsInjective(Free \o Queued)
  BY <1>1, ConcatLemma DEF ListsInv, ListsAre
<1> QED
  BY <1>1, <1>2 DEF ListsPartition, ListsInv, ListsAre, Last

LEMMA ListsInit == QueueInit => ListsInv /\ Len(Free) = MaxMsgs
<1> SUFFICES ASSUME QueueInit PROVE ListsInv /\ Len(Free) = MaxMsgs
  OBVIOUS
<1> DEFINE f == [i \in 1 .. MaxMsgs |-> MaxMsgs + 1 - i]
<1>1. MaxMsgs \in Nat
  BY MessageQueueAssumption
<1>2. f \in Seq(Slot) /\ Len(f) = MaxMsgs /\ DOMAIN f = 1 .. MaxMsgs
  BY <1>1 DEF Slot
<1>3. Range(f) = Slot /\ IsInjective(f)
  <2>1. \A x \in Slot : MaxMsgs + 1 - x \in 1 .. MaxMsgs /\ f[MaxMsgs + 1 - x] = x
    BY <1>1 DEF Slot
  <2>2. \A i \in 1 .. MaxMsgs : f[i] \in Slot
    BY <1>1 DEF Slot
  <2>3. Range(f) = Slot
    BY <2>1, <2>2, <1>2 DEF Range
  <2>4. IsInjective(f)
    BY <1>1, <1>2 DEF IsInjective
  <2> QED BY <2>3, <2>4
<1>4. next \in [Slot -> 0 .. MaxMsgs]
  BY <1>1 DEF QueueInit, Slot
<1>5. Links(next, free, f)
  <2>1. free = IF f = <<>> THEN Null ELSE f[1]
    <3>1. CASE MaxMsgs = 0
      BY <3>1, <1>2, SeqElements DEF QueueInit, Null
    <3>2. CASE MaxMsgs # 0
      <4>1. f[1] = MaxMsgs /\ f # <<>>
        BY <3>2, <1>1, <1>2, SeqElements
      <4> QED BY <4>1 DEF QueueInit
    <3> QED BY <3>1, <3>2
  <2>2. ASSUME NEW i \in 1 .. Len(f)
        PROVE  next[f[i]] = IF i < Len(f) THEN f[i + 1] ELSE Null
    <3>1. next[f[i]] = MaxMsgs + 1 - i - 1
      BY <1>1, <1>2 DEF QueueInit, Slot
    <3> QED BY <3>1, <1>1, <1>2 DEF Null
  <2> QED BY <2>1, <2>2, <1>2, <1>3 DEF Links
<1>6. Links(next, head, <<>>)
  BY EmptyLemma DEF Links, QueueInit
<1>7. ListsAre(f, <<>>)
  BY <1>3, <1>5, <1>6, EmptyLemma DEF ListsAre, QueueInit
<1> QED
  BY <1>2, <1>4, <1>7, ListsKnown DEF ListsInv

\* A send moves the first free slot to the end of the messages.
LEMMA SendMoves ==
    ASSUME ListsInv, free # Null,
           free' = next[free], LinkLast(free), entry' = entry + 1
    PROVE  /\ ListsInv'
           /\ Free # <<>> /\ free \in Slot \ Range(Queued)
           /\ Free' = Tail(Free) /\ Queued' = Append(Queued, free)
<1>0. PICK f, q, r : f = Free /\ q = Queued /\ r = Append(Queued, free)
  OBVIOUS
<1>1. /\ Links(next, free, f) /\ Links(next, head, q)
      /\ Range(f) \cap Range(q) = {} /\ Range(f) \cup Range(q) = Slot
      /\ entry = Len(q) /\ tail = IF q = <<>> THEN Null ELSE q[Len(q)]
      /\ next \in [Slot -> 0 .. MaxMsgs] /\ MaxMsgs \in Nat
      /\ f \in Seq(Slot) /\ IsInjective(f) /\ q \in Seq(Slot) /\ IsInjective(q)
  BY <1>0, MessageQueueAssumption DEF ListsInv, ListsAre, Links
<1>2. f # <<>>
  BY <1>1 DEF Links
<1>3. /\ free = Head(f) /\ free \in Slot /\ Links(next, next[free], Tail(f))
      /\ free \in Range(f) /\ Range(Tail(f)) = Range(f) \ {free}
  BY <1>1, <1>2, LinksTail, TailLemma
<1>4. free \notin Range(q)
  BY <1>1, <1>3
<1>5. q # <<>> => tail = q[Len(q)] /\ tail \in Range(q)
  BY <1>1 DEF Range
<1>6. /\ next' = [i \in Slot |-> IF i = free THEN Null ELSE IF i = tail THEN free ELSE next[i]]
      /\ tail' = free /\ head' = IF head = Null THEN free ELSE head
  BY DEF LinkLast
<1>7. next' \in [Slot -> 0 .. MaxMsgs]
  <2>1. Null \in 0 .. MaxMsgs /\ free \in 0 .. MaxMsgs
    BY <1>1, <1>3 DEF Slot, Null
  <2>2. \A i \in Slot : next[i] \in 0 .. MaxMsgs
    BY <1>1
  <2> QED BY <1>6, <2>1, <2>2
<1>8. Links(next', free', Tail(f))
  <2>1. tail = Null \/ tail \in Range(q)
    BY <1>1, <1>5
  <2>2. \A x \in Range(Tail(f)) : x \in Slot /\ x # free /\ x # tail
    BY <2>1, <1>1, <1>3 DEF Slot, Null
  <2>3. \A x \in Range(Tail(f)) : next'[x] = next[x]
    BY <2>2, <1>6
  <2> QED BY <2>3, <1>3, LinksFrame
<1>9. Links(next', head', r)
  <2>1. next'[free] = Null /\ r = Append(q, free)
    BY <1>0, <1>3, <1>6
  <2>2. ASSUME NEW y \in Range(q)
        PROVE  next'[y] = IF y = q[Len(q)] THEN free ELSE next[y]
    <3>1. q # <<>> /\ y \in Slot /\ y # free
      BY <1>1, <1>4 DEF Range
    <3> QED BY <3>1, <1>5, <1>6
  <2>3. head = Null <=> q = <<>>
    BY <1>1, TailLemma DEF Links, Slot, Null
  <2>4. head' = IF q = <<>> THEN free ELSE head
    BY <2>3, <1>6
  <2> QED BY <2>1, <2>2, <2>4, <1>1, <1>3, <1>4, LinksAppend
<1>10. /\ r \in Seq(Slot) /\ Range(r) = Range(q) \cup {free}
       /\ Len(r) = Len(q) + 1 /\ r # <<>>
       /\ r[Len(q) + 1] = free
  BY <1>0, <1>1, <1>3, AppendLemma
<1>11. ListsAre(Tail(f), r)'
  <2>1. /\ Range(Tail(f)) \cap Range(r) = {}
        /\ Range(Tail(f)) \cup Range(r) = Slot
    BY <1>1, <1>3, <1>4, <1>10
  <2> QED BY <2>1, <1>1, <1>6, <1>8, <1>9, <1>10 DEF ListsAre
<1>12. Free' = Tail(f) /\ Queued' = r
  BY <1>11, ListsKnownNext
<1> QED
  BY <1>0, <1>2, <1>3, <1>4, <1>7, <1>11, <1>12 DEF ListsInv

\* A receive moves the first message to the front of the free slots.
LEMMA RecvMoves ==
    ASSUME ListsInv, entry # 0,
           head' = next[head], tail' = TailAfter(head), entry' = entry - 1,
           next' = [next EXCEPT ![head] = free], free' = head
    PROVE  /\ ListsInv'
           /\ Queued # <<>> /\ head = Head(Queued) /\ head \in Slot
           /\ Free' = <<head>> \o Free /\ Queued' = Tail(Queued)
<1>0. PICK f, q, g : f = Free /\ q = Queued /\ g = <<head>> \o Free
  OBVIOUS
<1>1. /\ Links(next, free, f) /\ Links(next, head, q)
      /\ Range(f) \cap Range(q) = {} /\ Range(f) \cup Range(q) = Slot
      /\ entry = Len(q) /\ tail = IF q = <<>> THEN Null ELSE q[Len(q)]
      /\ next \in [Slot -> 0 .. MaxMsgs] /\ MaxMsgs \in Nat
      /\ f \in Seq(Slot) /\ IsInjective(f) /\ q \in Seq(Slot) /\ IsInjective(q)
  BY <1>0, MessageQueueAssumption DEF ListsInv, ListsAre, Links
<1>2. q # <<>>
  BY <1>1, SeqElements
<1>3. /\ head = Head(q) /\ head = q[1] /\ head \in Slot /\ Links(next, next[head], Tail(q))
      /\ head \in Range(q) /\ Range(Tail(q)) = Range(q) \ {head}
  <2>1. head = Head(q) /\ head \in Slot /\ Links(next, next[head], Tail(q))
    BY <1>1, <1>2, LinksTail
  <2>2. head = q[1]
    BY <1>1, <1>2 DEF Links
  <2>3. Head(q) \in Range(q) /\ Range(Tail(q)) = Range(q) \ {Head(q)}
    BY <1>1, <1>2, TailLemma
  <2> QED BY <2>1, <2>2, <2>3
<1>4. head \notin Range(f)
  BY <1>1, <1>3
<1>5. free \in 0 .. MaxMsgs
  <2>1. f = <<>> => free = Null
    BY <1>1 DEF Links
  <2>2. f # <<>> => free \in Slot
    BY <1>1, LinksTail
  <2> QED BY <2>1, <2>2, <1>1 DEF Slot, Null
<1>6. next'[head] = free /\ \A x \in Slot : x # head => next'[x] = next[x]
  <2>1. DOMAIN next = Slot /\ head \in Slot /\ next' = [next EXCEPT ![head] = free]
    BY <1>1, <1>3
  <2> QED BY <2>1
<1>7. next' \in [Slot -> 0 .. MaxMsgs]
  BY <1>1, <1>3, <1>5
<1>8. Links(next', head', Tail(q))
  <2>1. \A x \in Range(Tail(q)) : next'[x] = next[x]
    BY <1>1, <1>3, <1>6
  <2> QED BY <2>1, <1>3, LinksFrame
<1>9. Links(next', free', g)
  <2>1. \A x \in Range(f) : next'[x] = next[x]
    BY <1>1, <1>4, <1>6
  <2>2. head \in Slot \ Range(f)
    BY <1>3, <1>4
  <2>3. Links(next', head, <<head>> \o f)
    BY <2>1, <2>2, <1>1, <1>6, LinksPush
  <2> QED BY <2>3, <1>0
<1>10. Range(g) = Range(f) \cup {head}
  BY <1>0, <1>1, <1>3, PushLemma
<1>11. /\ Len(Tail(q)) = Len(q) - 1
       /\ Len(q) = 1 => Tail(q) = <<>>
       /\ Len(q) # 1 => Tail(q) # <<>> /\ Tail(q)[Len(Tail(q))] = q[Len(q)]
  BY <1>1, <1>2, TailLast
<1>12. tail' = IF Tail(q) = <<>> THEN Null ELSE Tail(q)[Len(Tail(q))]
  <2>1. tail = q[Len(q)] /\ tail' = IF tail = head THEN Null ELSE tail
    BY <1>1, <1>2 DEF TailAfter
  <2>2. CASE Len(q) = 1
    BY <2>1, <2>2, <1>3, <1>11
  <2>3. CASE Len(q) # 1
    <3>1. q[Len(q)] # q[1]
      <4>1. Len(q) \in Nat /\ Len(q) # 0 /\ DOMAIN q = 1 .. Len(q)
        BY <1>1, <1>2, SeqElements
      <4> QED BY <4>1, <2>3, <1>1 DEF IsInjective
    <3> QED BY <3>1, <2>1, <2>3, <1>3, <1>11
  <2> QED BY <2>2, <2>3
<1>13. ListsAre(g, Tail(q))'
  <2>1. Range(g) \cap Range(Tail(q)) = {} /\ Range(g) \cup Range(Tail(q)) = Slot
    BY <1>1, <1>3, <1>4, <1>10
  <2> QED BY <2>1, <1>1, <1>8, <1>9, <1>11, <1>12 DEF ListsAre
<1>14. Free' = g /\ Queued' = Tail(q)
  BY <1>13, ListsKnownNext
<1> QED
  BY <1>0, <1>2, <1>3, <1>7, <1>13, <1>14 DEF ListsInv

\* What does not touch the queue leaves both lists.
LEMMA ListsStay ==
    ASSUME UNCHANGED queue
    PROVE  Free' = Free /\ Queued' = Queued /\ (ListsInv => ListsInv')
BY DEF queue, Free, Queued, ListsInv, ListsAre

\* Only sends and receives with a token move a slot.
LEMMA QueueStep ==
    ASSUME [MQNext]_mqVars
    PROVE  \/ UNCHANGED queue
           \/ \E t \in Thread : Send(t) /\ free # Null
           \/ \E t \in Thread : Recv(t) /\ entry # 0
<1>1. CASE UNCHANGED mqVars
  BY <1>1 DEF mqVars
<1>2. ASSUME NEW t \in Thread, NEW m \in Msg, SendNow(t, m)
      PROVE  UNCHANGED queue
  BY <1>2 DEF SendNow, Enter
<1>3. ASSUME NEW t \in Thread, NEW m \in Msg, NEW limited \in BOOLEAN, SendBlock(t, m, limited)
      PROVE  UNCHANGED queue
  BY <1>3 DEF SendBlock, Enter
<1>4. ASSUME NEW t \in Thread, RecvNow(t) \/ \E limited \in BOOLEAN : RecvBlock(t, limited)
      PROVE  UNCHANGED queue
  BY <1>4 DEF RecvNow, RecvBlock, Enter
<1>5. ASSUME NEW t \in Thread, Send(t), free = Null
      PROVE  UNCHANGED queue
  BY <1>5 DEF Send
<1>6. ASSUME NEW t \in Thread, Recv(t), entry = 0
      PROVE  UNCHANGED queue
  BY <1>6 DEF Recv
<1>7. ASSUME NEW t \in Thread, GiveUp(t)
      PROVE  UNCHANGED queue
  BY <1>7 DEF GiveUp
<1>8. ASSUME NEW t \in Thread, CallEntry(t) \/ WaitEnds(t) \/ StopThread(t) \/ Other(t)
      PROVE  UNCHANGED queue
  BY <1>8 DEF CallEntry, WaitEnds, StopThread, Other, Elsewhere, Outside
<1> QED
  BY <1>1, <1>2, <1>3, <1>4, <1>5, <1>6, <1>7, <1>8 DEF MQNext

LEMMA ListsNext == ListsInv /\ [MQNext]_mqVars => ListsInv'
<1> SUFFICES ASSUME ListsInv, [MQNext]_mqVars PROVE ListsInv'
  OBVIOUS
<1>1. CASE UNCHANGED queue
  BY <1>1, ListsStay
<1>2. ASSUME NEW t \in Thread, Send(t), free # Null
      PROVE  ListsInv'
  BY <1>2, SendMoves DEF Send
<1>3. ASSUME NEW t \in Thread, Recv(t), entry # 0
      PROVE  ListsInv'
  BY <1>3, RecvMoves DEF Recv
<1> QED
  BY <1>1, <1>2, <1>3, QueueStep

\* Whatever the threads do, every slot of the pool is in one of the two lists of
\* the queue, once, and the entry count and the tail pointer agree with the list
\* of messages (_message_queue_send and _message_queue_recv).
THEOREM ListsAgree == MQSpec => []ListsPartition
<1>1. MQInit => ListsInv
  BY ListsInit DEF MQInit
<1>2. ListsInv /\ [MQNext]_mqVars => ListsInv'
  BY ListsNext
<1> QED
  BY <1>1, <1>2, ListsInvImplies, PTL DEF MQSpec

-----------------------------------------------------------------------------
(***************************************************************************)
(* The tokens.                                                             *)
(***************************************************************************)
Typed ==
    /\ mode \in [Thread -> {"ready", "blocked", "dead"}]
    /\ waiters \in [Sem -> Seq(Thread)]
    /\ tokens \in [Sem -> Nat]
    /\ outcome \in [Thread -> Codes \cup {"EOK", "ETIMEOUT"}]
    /\ timed \subseteq Thread /\ executing \subseteq Thread
    /\ call \in [Thread -> Op \cup {"none"}]
    /\ lost \in [Op -> Nat]

\* A thread is blocked only when its entry is not executing.  The waiters of a semaphore
\* are blocked in a call that takes from it.
Waiting ==
    /\ \A t \in executing : mode[t] # "blocked"
    /\ \A t \in timed : mode[t] = "blocked"
    /\ \A s \in Sem :
          /\ IsInjective(waiters[s])
          /\ \A t \in Range(waiters[s]) :
                mode[t] = "blocked" /\ call[t] \in Op /\ SemOf(call[t]) = s

Holders(op) == {t \in Thread : Granted(t, op)}

Supply(op) == IF op = "send" THEN Len(Free) ELSE entry

\* Every token that a slot or a message stands for is kept, held, or lost with a
\* thread that was stopped.
Balanced(op) == tokens[SemOf(op)] + Cardinality(Holders(op)) + lost[op] = Supply(op)

TokenInv == Typed /\ Waiting /\ \A op \in Op : Balanced(op)

\* A give of one token wakes the oldest waiter, or keeps the token.
LEMMA GiveOne ==
    ASSUME Typed, Waiting, NEW s \in Sem, Give(s, 1)
    PROVE  /\ UNCHANGED executing
           /\ \/ /\ UNCHANGED <<mode, waiters, timed, outcome>>
                 /\ tokens' = [tokens EXCEPT ![s] = @ + 1]
              \/ \E u \in Range(waiters[s]) :
                    /\ mode' = [mode EXCEPT ![u] = "ready"]
                    /\ waiters' = [waiters EXCEPT ![s] = Tail(@)] /\ u = Head(waiters[s])
                    /\ waiters[s] # <<>>
                    /\ timed' = timed \ {u}
                    /\ outcome' = [outcome EXCEPT ![u] = "EOK"]
                    /\ UNCHANGED tokens
<1> DEFINE w == waiters[s]
<1>1. w \in Seq(Thread) /\ Len(w) \in Nat /\ (Len(w) = 0 <=> w = <<>>)
  BY SeqElements DEF Typed
<1>2. PICK k \in 0 .. 1 :
         /\ k <= Len(w) /\ EndWaits(s, k, "EOK")
         /\ tokens' = [tokens EXCEPT ![s] = @ + (1 - k)] /\ UNCHANGED executing
  BY DEF Give
<1> HIDE DEF w
<1> DEFINE Woken == Range(SubSeq(w, 1, k))
<1>3. /\ mode' = [t \in Thread |-> IF t \in Woken THEN "ready" ELSE mode[t]]
      /\ waiters' = [waiters EXCEPT ![s] = SubSeq(@, k + 1, Len(@))]
      /\ timed' = timed \ Woken
      /\ outcome' = [t \in Thread |-> IF t \in Woken THEN "EOK" ELSE outcome[t]]
  BY <1>2 DEF EndWaits, w
<1>4. waiters[s] = w
  BY DEF w
<1>5. ASSUME k = 0
      PROVE  /\ UNCHANGED <<mode, waiters, timed, outcome>>
             /\ tokens' = [tokens EXCEPT ![s] = @ + 1]
  <2>1. SubSeq(w, 1, k) = <<>> /\ SubSeq(w, k + 1, Len(w)) = w
    BY <1>1, <1>5
  <2>2. Woken = {}
    BY <2>1, EmptyLemma
  <2> HIDE DEF Woken
  <2> QED BY <1>2, <1>3, <1>4, <1>5, <2>1, <2>2 DEF Typed
<1>6. ASSUME k = 1
      PROVE  \E u \in Range(w) :
                /\ mode' = [mode EXCEPT ![u] = "ready"]
                /\ waiters' = [waiters EXCEPT ![s] = Tail(@)] /\ u = Head(w)
                /\ w # <<>>
                /\ timed' = timed \ {u}
                /\ outcome' = [outcome EXCEPT ![u] = "EOK"]
                /\ UNCHANGED tokens
  <2>1. w # <<>>
    BY <1>1, <1>2, <1>6
  <2>2. SubSeq(w, 1, k) = <<Head(w)>> /\ SubSeq(w, k + 1, Len(w)) = Tail(w)
    BY <1>1, <1>6, <2>1, FirstLemma
  <2>3. Woken = {Head(w)}
    BY <2>2 DEF Range
  <2>4. Head(w) \in Range(w) /\ Head(w) \in Thread
    BY <1>1, <1>4, <2>1, TailLemma DEF Waiting
  <2> HIDE DEF Woken
  <2>5. mode' = [mode EXCEPT ![Head(w)] = "ready"] /\ outcome' = [outcome EXCEPT ![Head(w)] = "EOK"]
    BY <1>3, <2>3, <2>4 DEF Typed
  <2>6. tokens' = tokens
    BY <1>2, <1>6 DEF Typed
  <2> QED BY <1>3, <1>4, <2>1, <2>2, <2>3, <2>4, <2>5, <2>6
<1> QED
  BY <1>2, <1>4, <1>5, <1>6

LEMMA SemOfOp ==
    /\ \A op \in Op : SemOf(op) \in Sem /\ op # "none"
    /\ SemOf("send") # SemOf("recv")
    /\ \A op, o \in Op : SemOf(op) = SemOf(o) => op = o
    /\ "send" \in Op /\ "recv" \in Op
BY MessageQueueAssumption DEF Op, SemOf

\* The size of a set that gains or loses an element.
LEMMA Counted ==
    ASSUME NEW S \in SUBSET Thread, NEW T, NEW t
    PROVE  /\ Cardinality(S) \in Nat
           /\ T = S \cup {t} /\ t \notin S => Cardinality(T) = Cardinality(S) + 1
           /\ T = S \ {t} /\ t \in S => Cardinality(S) = Cardinality(T) + 1
<1>1. IsFiniteSet(S)
  BY MessageQueueAssumption, FS_Subset
<1>2. Cardinality(S) \in Nat
  BY <1>1, FS_CardinalityType
<1>3. t \notin S => Cardinality(S \cup {t}) = Cardinality(S) + 1
  BY <1>1, FS_AddElement
<1>4. t \in S => Cardinality(S \ {t}) = Cardinality(S) - 1
  BY <1>1, FS_RemoveElement
<1>5. ASSUME T = S \cup {t}, t \notin S PROVE Cardinality(T) = Cardinality(S) + 1
  BY <1>3, <1>5, Zenon
<1>6. ASSUME T = S \ {t}, t \in S PROVE Cardinality(S) = Cardinality(T) + 1
  <2>1. Cardinality(T) = Cardinality(S) - 1
    BY <1>4, <1>6, Zenon
  <2> QED BY <1>2, <2>1
<1> QED
  BY <1>2, <1>5, <1>6

\* The entry of t takes a token and goes on.
LEMMA EnterTakes ==
    ASSUME Typed, Waiting, NEW op \in Op, NEW t \in Thread, NEW content,
           Enter(t, op, content), Take(t, SemOf(op)),
           \A o \in Op : Balanced(o)
    PROVE  Typed' /\ Waiting' /\ \A o \in Op : Balanced(o)'
<1>1. /\ t \in executing /\ call[t] = "none"
      /\ call' = [call EXCEPT ![t] = op] /\ UNCHANGED lost /\ UNCHANGED queue
      /\ tokens[SemOf(op)] > 0 /\ tokens' = [tokens EXCEPT ![SemOf(op)] = @ - 1]
      /\ outcome' = [outcome EXCEPT ![t] = "EOK"]
      /\ UNCHANGED <<mode, waiters, timed, executing>>
      /\ SemOf(op) \in Sem
  BY SemOfOp DEF Enter, Take
<1>2. Typed'
  BY <1>1 DEF Typed
<1>3. Waiting'
  <2>1. ASSUME NEW s \in Sem, NEW u \in Range(waiters[s]) PROVE u # t
    BY <1>1, <2>1 DEF Waiting
  <2> QED BY <1>1, <2>1 DEF Waiting, Typed
<1>4. ASSUME NEW o \in Op PROVE Balanced(o)'
  <2>1. Supply(o)' = Supply(o)
    BY <1>1, ListsStay DEF Supply, queue
  <2>2. \A u \in Thread \ {t} : Granted(u, o)' <=> Granted(u, o)
    BY <1>1 DEF Granted, Typed
  <2>3. ~Granted(t, o) /\ (Granted(t, o)' <=> o = op)
    BY <1>1, SemOfOp DEF Granted, Typed
  <2>4. Holders(o) \subseteq Thread /\ t \notin Holders(o)
    BY <2>3 DEF Holders
  <2>5. tokens[SemOf(o)] \in Nat /\ lost[o] \in Nat /\ Supply(o) = tokens[SemOf(o)] + Cardinality(Holders(o)) + lost[o]
    BY SemOfOp DEF Typed, Balanced
  <2>6. CASE o = op
    <3>1. Holders(o)' = Holders(o) \cup {t}
      BY <2>2, <2>3, <2>6 DEF Holders
    <3>2. Cardinality(Holders(o)') = Cardinality(Holders(o)) + 1 /\ Cardinality(Holders(o)) \in Nat
      BY <2>4, <3>1, Counted
    <3>3. tokens'[SemOf(o)] = tokens[SemOf(o)] - 1
      BY <1>1, <2>6 DEF Typed
    <3> QED BY <1>1, <2>1, <2>5, <3>2, <3>3 DEF Balanced
  <2>7. CASE o # op
    <3>1. Holders(o)' = Holders(o)
      BY <2>2, <2>3, <2>7 DEF Holders
    <3>2. tokens'[SemOf(o)] = tokens[SemOf(o)]
      BY <1>1, <2>7, SemOfOp DEF Typed
    <3> QED BY <1>1, <2>1, <2>5, <3>1, <3>2 DEF Balanced
  <2> QED BY <2>6, <2>7
<1> QED
  BY <1>2, <1>3, <1>4

\* The tokens of an operation stay balanced when nothing of it changes.
LEMMA BalanceKept ==
    ASSUME NEW o \in Op, Balanced(o),
           \A u \in Thread : Granted(u, o)' <=> Granted(u, o),
           tokens'[SemOf(o)] = tokens[SemOf(o)], lost'[o] = lost[o], Supply(o)' = Supply(o)
    PROVE  Balanced(o)'
<1>1. Holders(o)' = Holders(o)
  BY DEF Holders
<1> QED
  BY <1>1 DEF Balanced

\* The entry of t returns and t waits.
LEMMA EnterBlocks ==
    ASSUME Typed, Waiting, NEW op \in Op, NEW t \in Thread, NEW content, NEW limited \in BOOLEAN,
           Enter(t, op, content), Block(t, SemOf(op), limited),
           \A o \in Op : Balanced(o)
    PROVE  Typed' /\ Waiting' /\ \A o \in Op : Balanced(o)'
<1> DEFINE s == SemOf(op)
<1>1. /\ t \in executing /\ executing' = executing \ {t} /\ call[t] = "none" /\ mode[t] = "ready"
      /\ call' = [call EXCEPT ![t] = op] /\ UNCHANGED lost /\ UNCHANGED queue
      /\ mode' = [mode EXCEPT ![t] = "blocked"]
      /\ waiters' = [q \in Sem |-> IF q = s THEN Append(waiters[q], t) ELSE waiters[q]]
      /\ timed' = IF limited THEN timed \cup {t} ELSE timed
      /\ outcome' = [outcome EXCEPT ![t] = "EOK"]
      /\ UNCHANGED tokens
      /\ s \in Sem
  BY SemOfOp DEF Enter, Block, Return
<1> HIDE DEF s
<1>2. ASSUME NEW q \in Sem
      PROVE  /\ waiters[q] \in Seq(Thread) /\ IsInjective(waiters[q])
             /\ t \notin Range(waiters[q])
             /\ \A u \in Range(waiters[q]) : u \in Thread /\ u # t /\ mode[u] = "blocked"
                                            /\ call[u] \in Op /\ SemOf(call[u]) = q
  BY <1>1, SeqElements DEF Typed, Waiting
<1>3. /\ Append(waiters[s], t) \in Seq(Thread) /\ IsInjective(Append(waiters[s], t))
      /\ Range(Append(waiters[s], t)) = Range(waiters[s]) \cup {t}
  BY <1>1, <1>2, AppendLemma
<1>4. Typed'
  <2>1. waiters' \in [Sem -> Seq(Thread)]
    BY <1>1, <1>2, <1>3
  <2> QED BY <1>1, <2>1 DEF Typed
<1>5. Waiting'
  <2>1. mode'[t] = "blocked" /\ call'[t] = op
    BY <1>1 DEF Typed
  <2>2. \A u \in Thread \ {t} : mode'[u] = mode[u] /\ call'[u] = call[u]
    BY <1>1 DEF Typed
  <2>3. /\ \A u \in executing' : mode'[u] # "blocked"
        /\ \A u \in timed' : mode'[u] = "blocked"
    BY <1>1, <2>1, <2>2 DEF Waiting, Typed
  <2>4. ASSUME NEW q \in Sem
        PROVE  /\ IsInjective(waiters'[q])
               /\ \A u \in Range(waiters'[q]) :
                     mode'[u] = "blocked" /\ call'[u] \in Op /\ SemOf(call'[u]) = q
    <3>1. CASE q = s
      <4>1. waiters'[q] = Append(waiters[s], t)
        BY <1>1, <3>1
      <4> QED BY <4>1, <3>1, <1>1, <1>2, <1>3, <2>1, <2>2 DEF s
    <3>2. CASE q # s
      <4>1. waiters'[q] = waiters[q]
        BY <1>1, <3>2
      <4> QED BY <4>1, <1>2, <2>2
    <3> QED BY <3>1, <3>2
  <2> QED BY <2>3, <2>4 DEF Waiting, SemOf
<1>6. ASSUME NEW o \in Op PROVE Balanced(o)'
  <2>1. Supply(o)' = Supply(o)
    BY <1>1, ListsStay DEF Supply, queue
  <2>2. \A u \in Thread \ {t} : Granted(u, o)' <=> Granted(u, o)
    BY <1>1 DEF Granted, Typed
  <2>3. ~Granted(t, o) /\ ~Granted(t, o)'
    BY <1>1, SemOfOp DEF Granted, Typed
  <2> QED BY <1>1, <2>1, <2>2, <2>3, BalanceKept
<1> QED
  BY <1>4, <1>5, <1>6

\* The call of t ends with the token of op used up, and gives one of the other operation.
LEMMA Exchanges ==
    ASSUME Typed, Waiting, NEW op \in Op, NEW other \in Op, op # other, NEW t \in Thread,
           Leave(t), call[t] = op, Succeeded(t), Give(SemOf(other), 1), UNCHANGED lost,
           Balanced(op), Balanced(other),
           Supply(op)' = Supply(op) - 1, Supply(other)' = Supply(other) + 1
    PROVE  Typed' /\ Waiting' /\ \A o \in Op : Balanced(o)'
<1> DEFINE s == SemOf(other)
<1>1. /\ t \in executing /\ outcome[t] = "EOK" /\ mode[t] # "blocked"
      /\ call' = [call EXCEPT ![t] = "none"]
      /\ s \in Sem /\ SemOf(op) \in Sem /\ s # SemOf(op) /\ UNCHANGED executing
      /\ \A o \in Op : o = op \/ o = other
      /\ op # "none" /\ other # "none"
      /\ tokens[s] \in Nat /\ tokens[SemOf(op)] \in Nat /\ lost[op] \in Nat /\ lost[other] \in Nat
  BY SemOfOp, GiveOne DEF Leave, Succeeded, Waiting, Op, Typed
<1>2. /\ ~Granted(t, op)' /\ Granted(t, op) /\ ~Granted(t, other)' /\ ~Granted(t, other)
  BY <1>1 DEF Granted, Typed
<1>3. Holders(op) \in SUBSET Thread /\ Holders(other) \in SUBSET Thread
  BY DEF Holders
<1>4. CASE /\ UNCHANGED <<mode, waiters, timed, outcome>>
           /\ tokens' = [tokens EXCEPT ![s] = @ + 1]
  <2>1. Typed'
    BY <1>1, <1>4 DEF Typed
  <2>2. Waiting'
    <3>1. ASSUME NEW q \in Sem, NEW u \in Range(waiters[q])
          PROVE  u # t
      BY <1>1 DEF Waiting
    <3> QED BY <1>1, <1>4, <3>1 DEF Waiting, Typed
  <2>3. \A o \in Op, u \in Thread \ {t} : Granted(u, o)' <=> Granted(u, o)
    BY <1>1, <1>4 DEF Granted, Typed
  <2>4. Balanced(op)'
    <3>1. Holders(op)' = Holders(op) \ {t} /\ t \in Holders(op)
      BY <1>2, <2>3 DEF Holders
    <3>2. Cardinality(Holders(op)) = Cardinality(Holders(op)') + 1 /\ Cardinality(Holders(op)) \in Nat
      BY <1>3, <3>1, Counted
    <3>3. Cardinality(Holders(op)') \in Nat
      BY <1>3, <3>1, Counted
    <3>4. tokens'[SemOf(op)] = tokens[SemOf(op)]
      BY <1>1, <1>4 DEF Typed
    <3> QED BY <1>1, <3>2, <3>3, <3>4 DEF Balanced
  <2>5. Balanced(other)'
    <3>1. Holders(other)' = Holders(other) /\ Cardinality(Holders(other)) \in Nat
      BY <1>2, <1>3, <2>3, Counted DEF Holders
    <3>2. tokens'[s] = tokens[s] + 1
      BY <1>1, <1>4 DEF Typed
    <3> QED BY <1>1, <3>1, <3>2 DEF Balanced
  <2> QED BY <1>1, <2>1, <2>2, <2>4, <2>5
<1>5. ASSUME NEW v \in Range(waiters[s]),
             /\ mode' = [mode EXCEPT ![v] = "ready"]
             /\ waiters' = [waiters EXCEPT ![s] = Tail(@)] /\ v = Head(waiters[s])
             /\ waiters[s] # <<>>
             /\ timed' = timed \ {v}
             /\ outcome' = [outcome EXCEPT ![v] = "EOK"]
             /\ UNCHANGED tokens
      PROVE  Typed' /\ Waiting' /\ \A o \in Op : Balanced(o)'
  <2>1. /\ waiters[s] \in Seq(Thread) /\ IsInjective(waiters[s])
        /\ v \in Thread /\ mode[v] = "blocked" /\ call[v] = other /\ v # t /\ v \notin executing
    BY <1>1, <1>5, SeqElements, SemOfOp DEF Typed, Waiting
  <2>2. /\ Tail(waiters[s]) \in Seq(Thread) /\ IsInjective(Tail(waiters[s]))
        /\ Range(Tail(waiters[s])) = Range(waiters[s]) \ {v}
    BY <1>5, <2>1, TailLemma
  <2>3. Typed'
    <3>1. waiters' \in [Sem -> Seq(Thread)]
      BY <1>1, <1>5, <2>2 DEF Typed
    <3> QED BY <1>1, <1>5, <2>1, <3>1 DEF Typed
  <2>4. \A u \in Thread \ {v} : mode'[u] = mode[u] /\ outcome'[u] = outcome[u]
    BY <1>5 DEF Typed
  <2>5. \A u \in Thread \ {t} : call'[u] = call[u]
    BY <1>1 DEF Typed
  <2>6. mode'[v] = "ready" /\ outcome'[v] = "EOK"
    BY <1>5, <2>1 DEF Typed
  <2>7. Waiting'
    <3>1. /\ \A u \in executing' : mode'[u] # "blocked"
          /\ \A u \in timed' : mode'[u] = "blocked"
      BY <1>1, <1>5, <2>4, <2>6 DEF Waiting, Typed
    <3>2. ASSUME NEW q \in Sem
          PROVE  /\ IsInjective(waiters'[q])
                 /\ \A u \in Range(waiters'[q]) :
                       u \in Thread /\ u # v /\ u # t /\ mode[u] = "blocked"
                       /\ call[u] \in Op /\ SemOf(call[u]) = q
      <4>1. \A u \in Range(waiters[q]) :
                       u \in Thread /\ u # t /\ mode[u] = "blocked"
                       /\ call[u] \in Op /\ SemOf(call[u]) = q
        BY <1>1, SeqElements DEF Waiting, Typed
      <4>2. CASE q = s
        <5>1. waiters'[q] = Tail(waiters[s])
          BY <1>1, <1>5, <4>2 DEF Typed
        <5> QED BY <5>1, <4>1, <4>2, <2>2
      <4>3. CASE q # s
        <5>1. waiters'[q] = waiters[q]
          BY <1>1, <1>5, <4>3 DEF Typed
        <5>2. \A u \in Range(waiters[q]) : u # v
          BY <4>1, <4>3, <2>1
        <5> QED BY <5>1, <5>2, <4>1 DEF Waiting
      <4> QED BY <4>2, <4>3
    <3> QED BY <3>1, <3>2, <2>4, <2>5 DEF Waiting, SemOf
  <2>8. \A o \in Op, u \in Thread \ {t, v} : Granted(u, o)' <=> Granted(u, o)
    BY <1>1, <2>4, <2>5 DEF Granted
  <2>9. /\ Granted(v, other)' /\ ~Granted(v, other) /\ ~Granted(v, op)' /\ ~Granted(v, op)
    BY <1>1, <2>1, <2>5, <2>6 DEF Granted
  <2>10. Balanced(op)'
    <3>1. Holders(op)' = Holders(op) \ {t} /\ t \in Holders(op)
      BY <1>2, <2>8, <2>9, <2>1 DEF Holders
    <3>2. Cardinality(Holders(op)) = Cardinality(Holders(op)') + 1 /\ Cardinality(Holders(op)) \in Nat
      BY <1>3, <3>1, Counted
    <3>3. Cardinality(Holders(op)') \in Nat
      BY <1>3, <3>1, Counted
    <3>4. tokens'[SemOf(op)] = tokens[SemOf(op)]
      BY <1>5
    <3> QED BY <1>1, <3>2, <3>3, <3>4 DEF Balanced
  <2>11. Balanced(other)'
    <3>1. Holders(other)' = Holders(other) \cup {v} /\ v \notin Holders(other)
      BY <1>2, <2>8, <2>9, <2>1 DEF Holders
    <3>2. Cardinality(Holders(other)') = Cardinality(Holders(other)) + 1 /\ Cardinality(Holders(other)) \in Nat
      BY <1>3, <3>1, Counted
    <3>3. tokens'[s] = tokens[s]
      BY <1>5
    <3> QED BY <1>1, <3>2, <3>3 DEF Balanced
  <2> QED BY <1>1, <2>3, <2>7, <2>10, <2>11
<1> QED
  BY <1>1, <1>4, <1>5, GiveOne

\* The call of t ends without a token.
LEMMA GivesUp ==
    ASSUME Typed, Waiting, NEW t \in Thread, GiveUp(t), \A o \in Op : Balanced(o)
    PROVE  Typed' /\ Waiting' /\ \A o \in Op : Balanced(o)'
<1>1. /\ t \in executing /\ outcome[t] # "EOK"
      /\ call' = [call EXCEPT ![t] = "none"]
      /\ UNCHANGED <<mode, waiters, tokens, timed, outcome, executing, lost>> /\ UNCHANGED queue
  BY DEF GiveUp, Leave, Succeeded, vars
<1>2. Typed'
  BY <1>1 DEF Typed
<1>3. Waiting'
  <2>1. ASSUME NEW q \in Sem, NEW u \in Range(waiters[q])
        PROVE  u # t
    BY <1>1 DEF Waiting
  <2> QED BY <1>1, <2>1 DEF Waiting, Typed
<1>4. ASSUME NEW o \in Op PROVE Balanced(o)'
  <2>1. Supply(o)' = Supply(o)
    BY <1>1, ListsStay DEF Supply, queue
  <2>2. \A u \in Thread : Granted(u, o)' <=> Granted(u, o)
    BY <1>1, SemOfOp DEF Granted, Typed
  <2> QED BY <1>1, <2>1, <2>2, BalanceKept
<1> QED
  BY <1>2, <1>3, <1>4

\* A thread leaves the wait queues, and nobody else's state changes.
LEMMA LeavesWaits ==
    ASSUME Typed, Waiting, NEW t \in Thread,
           waiters' = [s \in Sem |-> Unlink(waiters[s], t)],
           timed' = timed \ {t},
           executing' \subseteq executing, UNCHANGED call,
           t \in executing' => mode'[t] # "blocked",
           \A u \in Thread \ {t} : mode'[u] = mode[u]
    PROVE  waiters' \in [Sem -> Seq(Thread)] /\ Waiting'
<1>1. ASSUME NEW s \in Sem
      PROVE  /\ waiters'[s] \in Seq(Thread) /\ IsInjective(waiters'[s])
             /\ Range(waiters'[s]) = Range(waiters[s]) \ {t}
             /\ \A u \in Range(waiters[s]) : u \in Thread
  <2>1. waiters[s] \in Seq(Thread) /\ IsInjective(waiters[s])
    BY DEF Typed, Waiting
  <2> QED BY <2>1, UnlinkLemma, SeqElements
<1>2. waiters' \in [Sem -> Seq(Thread)]
  BY <1>1
<1>3. /\ \A u \in executing' : mode'[u] # "blocked"
      /\ \A u \in timed' : mode'[u] = "blocked"
  BY DEF Waiting, Typed
<1>4. ASSUME NEW s \in Sem
      PROVE  /\ IsInjective(waiters'[s])
             /\ \A u \in Range(waiters'[s]) :
                   mode'[u] = "blocked" /\ call'[u] \in Op /\ SemOf(call'[u]) = s
  BY <1>1 DEF Waiting
<1> QED
  BY <1>2, <1>3, <1>4 DEF Waiting, SemOf

\* The wait of a blocked thread ends without a token.
LEMMA WaitFails ==
    ASSUME Typed, Waiting, NEW t \in Thread, Elsewhere, mode[t] = "blocked",
           NEW code \in Codes \cup {"ETIMEOUT"}, code # "EOK", EndWait(t, code),
           \A o \in Op : Balanced(o)
    PROVE  Typed' /\ Waiting' /\ \A o \in Op : Balanced(o)'
<1>1. /\ mode' = [mode EXCEPT ![t] = "ready"]
      /\ waiters' = [s \in Sem |-> Unlink(waiters[s], t)]
      /\ timed' = timed \ {t}
      /\ outcome' = [outcome EXCEPT ![t] = code]
      /\ UNCHANGED <<tokens, executing, call, lost>> /\ UNCHANGED queue
      /\ t \notin executing
  BY DEF EndWait, Elsewhere, Outside, Waiting
<1>2. mode'[t] = "ready" /\ outcome'[t] = code /\ \A u \in Thread \ {t} : mode'[u] = mode[u] /\ outcome'[u] = outcome[u]
  BY <1>1 DEF Typed
<1>3. waiters' \in [Sem -> Seq(Thread)] /\ Waiting'
  BY <1>1, <1>2, LeavesWaits
<1>4. Typed'
  BY <1>1, <1>3 DEF Typed
<1>5. ASSUME NEW o \in Op PROVE Balanced(o)'
  <2>1. Supply(o)' = Supply(o)
    BY <1>1, ListsStay DEF Supply, queue
  <2>2. \A u \in Thread : Granted(u, o)' <=> Granted(u, o)
    BY <1>1, <1>2 DEF Granted
  <2> QED BY <1>1, <2>1, <2>2, BalanceKept
<1> QED
  BY <1>3, <1>4, <1>5

\* The end of a wait that WaitEnds stands for; a dead thread's outcome is of no matter.
LEMMA WaitEndsKeeps ==
    ASSUME Typed, Waiting, "ResumeNotOK" \in Rules, NEW t \in Thread, WaitEnds(t),
           \A o \in Op : Balanced(o)
    PROVE  Typed' /\ Waiting' /\ \A o \in Op : Balanced(o)'
<1>1. Elsewhere
  BY DEF WaitEnds
<1>2. CASE Timeout(t)
  <2>1. mode[t] = "blocked" /\ EndWait(t, "ETIMEOUT")
    BY <1>2 DEF Timeout, Waiting
  <2> QED BY <1>1, <2>1, WaitFails
<1>3. ASSUME NEW code \in Codes, code # "EOK", mode[t] \in {"new", "blocked"}, EndWait(t, code)
      PROVE  Typed' /\ Waiting' /\ \A o \in Op : Balanced(o)'
  <2>1. mode[t] = "blocked"
    BY <1>3 DEF Typed
  <2> QED BY <1>1, <1>3, <2>1, WaitFails
<1>4. ASSUME NEW code \in Codes, code # "EOK", ~InLoop(t),
             outcome' = [outcome EXCEPT ![t] = code],
             UNCHANGED <<mode, waiters, tokens, timed, executing>>
      PROVE  Typed' /\ Waiting' /\ \A o \in Op : Balanced(o)'
  <2>1. UNCHANGED <<call, lost>> /\ UNCHANGED queue /\ Quiet
    BY <1>1 DEF Elsewhere, Outside
  <2>2. Typed' /\ Waiting'
    BY <1>4, <2>1 DEF Typed, Waiting, SemOf
  <2>3. ASSUME NEW o \in Op PROVE Balanced(o)'
    <3>1. Supply(o)' = Supply(o)
      BY <2>1, ListsStay DEF Supply, queue
    <3>2. ~Granted(t, o) /\ ~Granted(t, o)'
      BY <1>4, <2>1, SemOfOp DEF Granted, InLoop, Quiet
    <3>3. \A u \in Thread \ {t} : Granted(u, o)' <=> Granted(u, o)
      BY <1>4, <2>1 DEF Granted, Typed
    <3> QED BY <1>4, <2>1, <3>1, <3>2, <3>3, BalanceKept
  <2> QED BY <2>2, <2>3
<1>5. Timeout(t) \/ \E code \in Codes : code # "EOK" /\ Resume(t, code)
  BY DEF WaitEnds, Obeys
<1> QED
  BY <1>2, <1>3, <1>4, <1>5 DEF Resume

\* The entry of a ready thread is called.
LEMMA CallKeeps ==
    ASSUME Typed, Waiting, NEW t \in Thread, CallEntry(t), \A o \in Op : Balanced(o)
    PROVE  Typed' /\ Waiting' /\ \A o \in Op : Balanced(o)'
<1>1. /\ mode[t] = "ready" /\ executing' = executing \cup {t}
      /\ UNCHANGED <<mode, waiters, tokens, timed, outcome, call, lost>> /\ UNCHANGED queue
  BY DEF CallEntry, Call, Elsewhere, Outside
<1>2. Typed' /\ Waiting'
  BY <1>1 DEF Typed, Waiting, SemOf
<1>3. ASSUME NEW o \in Op PROVE Balanced(o)'
  <2>1. Supply(o)' = Supply(o)
    BY <1>1, ListsStay DEF Supply, queue
  <2>2. \A u \in Thread : Granted(u, o)' <=> Granted(u, o)
    BY <1>1 DEF Granted
  <2> QED BY <1>1, <2>1, <2>2, BalanceKept
<1> QED
  BY <1>2, <1>3

\* Between its calls a thread delays, yields or ends.
LEMMA OtherKeeps ==
    ASSUME Typed, Waiting, NEW t \in Thread, Other(t), \A o \in Op : Balanced(o)
    PROVE  Typed' /\ Waiting' /\ \A o \in Op : Balanced(o)'
<1>1. /\ UNCHANGED <<call, lost>> /\ UNCHANGED queue
      /\ t \in executing /\ call[t] = "none" /\ executing' = executing \ {t}
      /\ UNCHANGED <<tokens>>
  BY DEF Other, Elsewhere, Outside, Quiet, Block, Yield, End, Return
<1>2. ASSUME NEW o \in Op, \A u \in Thread \ {t} : mode'[u] = mode[u] /\ outcome'[u] = outcome[u]
      PROVE  Balanced(o)'
  <2>1. Supply(o)' = Supply(o)
    BY <1>1, ListsStay DEF Supply, queue
  <2>2. ~Granted(t, o) /\ ~Granted(t, o)'
    BY <1>1, SemOfOp DEF Granted
  <2>3. \A u \in Thread \ {t} : Granted(u, o)' <=> Granted(u, o)
    BY <1>1, <1>2 DEF Granted
  <2> QED BY <1>1, <2>1, <2>2, <2>3, BalanceKept
<1>3. ASSUME NEW limited \in BOOLEAN, Block(t, NoSem, limited)
      PROVE  Typed' /\ Waiting' /\ \A o \in Op : Balanced(o)'
  <2>1. /\ mode[t] = "ready" /\ mode' = [mode EXCEPT ![t] = "blocked"]
        /\ waiters' = [q \in Sem |-> IF q = NoSem THEN Append(waiters[q], t) ELSE waiters[q]]
        /\ timed' = IF limited THEN timed \cup {t} ELSE timed
        /\ outcome' = [outcome EXCEPT ![t] = "EOK"]
    BY <1>3 DEF Block
  <2>2. waiters' = waiters
    BY <2>1, MessageQueueAssumption DEF Typed
  <2>3. Typed'
    BY <1>1, <2>1, <2>2 DEF Typed
  <2>4. \A u \in Thread \ {t} : mode'[u] = mode[u] /\ outcome'[u] = outcome[u]
    BY <2>1 DEF Typed
  <2>5. ASSUME NEW s \in Sem, NEW u \in Range(waiters[s]) PROVE u \in Thread /\ u # t
    BY <2>1, SeqElements DEF Typed, Waiting
  <2>6. Waiting'
    BY <1>1, <2>1, <2>2, <2>4, <2>5 DEF Waiting, Typed, SemOf
  <2> QED BY <1>2, <2>3, <2>4, <2>6
<1>4. ASSUME Yield(t)
      PROVE  Typed' /\ Waiting' /\ \A o \in Op : Balanced(o)'
  <2>1. UNCHANGED <<mode, waiters, timed, outcome>>
    BY <1>4 DEF Yield
  <2>2. Typed' /\ Waiting'
    BY <1>1, <2>1 DEF Typed, Waiting, SemOf
  <2> QED BY <1>2, <2>1, <2>2
<1>5. ASSUME End(t)
      PROVE  Typed' /\ Waiting' /\ \A o \in Op : Balanced(o)'
  <2> DEFINE S == {t} \cap {u \in Thread : InLoop(u)}
  <2>1. /\ mode' = [u \in Thread |-> IF u \in S THEN "dead" ELSE mode[u]]
        /\ timed' = timed \ S
        /\ waiters' = [s \in Sem |-> Unlink(waiters[s], t)]
        /\ outcome' = outcome
    BY <1>5 DEF End, Stopped
  <2>2. timed' = timed \ {t}
    BY <1>1, <2>1 DEF Waiting, InLoop
  <2>3. \A u \in Thread \ {t} : mode'[u] = mode[u] /\ outcome'[u] = outcome[u]
    BY <2>1
  <2>4. waiters' \in [Sem -> Seq(Thread)] /\ Waiting'
    BY <1>1, <2>1, <2>2, <2>3, LeavesWaits
  <2>5. Typed'
    BY <1>1, <2>1, <2>2, <2>4 DEF Typed
  <2> QED BY <1>2, <2>3, <2>4, <2>5
<1> QED
  BY <1>3, <1>4, <1>5 DEF Other

\* A thread is stopped, with the token it may have been handed.
LEMMA StopKeeps ==
    ASSUME Typed, Waiting, NEW t \in Thread, StopThread(t), \A o \in Op : Balanced(o)
    PROVE  Typed' /\ Waiting' /\ \A o \in Op : Balanced(o)'
<1>1. /\ UNCHANGED <<tokens, outcome, executing, call>> /\ UNCHANGED queue /\ Quiet
      /\ mode' = [u \in Thread |-> IF u \in {t} THEN "dead" ELSE mode[u]]
      /\ timed' = timed \ {t}
      /\ waiters' = [s \in Sem |-> Unlink(waiters[s], t)]
      /\ lost' = [op \in Op |-> lost[op] + IF Granted(t, op) THEN 1 ELSE 0]
  BY DEF StopThread, Outside, Stop, Stopped
<1>2. mode'[t] = "dead" /\ \A u \in Thread \ {t} : mode'[u] = mode[u]
  BY <1>1
<1>3. waiters' \in [Sem -> Seq(Thread)] /\ Waiting'
  BY <1>1, <1>2, LeavesWaits
<1>4. Typed'
  <2>1. lost' \in [Op -> Nat]
    BY <1>1 DEF Typed
  <2> QED BY <1>1, <1>3, <2>1 DEF Typed
<1>5. ASSUME NEW o \in Op PROVE Balanced(o)'
  <2>1. Supply(o)' = Supply(o)
    BY <1>1, ListsStay DEF Supply, queue
  <2>2. ~Granted(t, o)'
    BY <1>1, <1>2, SemOfOp DEF Granted, Quiet
  <2>3. \A u \in Thread \ {t} : Granted(u, o)' <=> Granted(u, o)
    BY <1>1, <1>2 DEF Granted
  <2>4. CASE ~Granted(t, o)
    <3>1. lost'[o] = lost[o]
      BY <1>1, <2>4 DEF Typed
    <3> QED BY <1>1, <2>1, <2>2, <2>3, <2>4, <3>1, BalanceKept
  <2>5. CASE Granted(t, o)
    <3>1. Holders(o)' = Holders(o) \ {t} /\ t \in Holders(o) /\ Holders(o) \in SUBSET Thread
      BY <2>2, <2>3, <2>5 DEF Holders
    <3>2. Cardinality(Holders(o)) = Cardinality(Holders(o)') + 1
      BY <3>1, Counted
    <3>3. Cardinality(Holders(o)') \in Nat
      BY <3>1, Counted
    <3>4. lost'[o] = lost[o] + 1 /\ lost[o] \in Nat /\ tokens[SemOf(o)] \in Nat
      BY <1>1, <2>5, SemOfOp DEF Typed
    <3> QED BY <1>1, <2>1, <3>2, <3>3, <3>4 DEF Balanced
  <2> QED BY <2>4, <2>5
<1> QED
  BY <1>3, <1>4, <1>5

LEMMA TokenInit == MQInit => TokenInv
<1> SUFFICES ASSUME MQInit PROVE TokenInv
  OBVIOUS
<1>1. MaxMsgs \in Nat
  BY MessageQueueAssumption
<1>2. <<>> \in Seq(Thread) /\ Range(<<>>) = {} /\ IsInjective(<<>>)
  BY EmptyLemma
<1>3. Typed
  BY <1>1, <1>2 DEF MQInit, QueueInit, Typed, Op
<1>4. Waiting
  BY <1>2 DEF MQInit, Waiting
<1>5. Holders("send") = {} /\ Holders("recv") = {}
  BY DEF MQInit, Holders, Granted
<1>6. Supply("send") = MaxMsgs /\ Supply("recv") = 0
  BY ListsInit DEF MQInit, QueueInit, Supply
<1>7. /\ tokens[SemOf("send")] = MaxMsgs /\ tokens[SemOf("recv")] = 0
      /\ lost["send"] = 0 /\ lost["recv"] = 0
  BY MessageQueueAssumption DEF MQInit, QueueInit, SemOf, Op
<1>8. Balanced("send") /\ Balanced("recv")
  BY <1>1, <1>5, <1>6, <1>7, FS_EmptySet DEF Balanced
<1> QED
  BY <1>3, <1>4, <1>8 DEF TokenInv, Op

\* A thread that has a token finds a slot, or a message.
LEMMA GrantServed ==
    ASSUME Typed, NEW op \in Op, Balanced(op), Supply(op) \in Nat,
           NEW t \in Thread, Granted(t, op)
    PROVE  Supply(op) > 0
<1>1. t \in Holders(op) /\ Holders(op) \in SUBSET Thread
  BY DEF Holders
<1>2. PICK T : T = Holders(op) \ {t}
  OBVIOUS
<1>3. Cardinality(Holders(op)) = Cardinality(T) + 1
  BY <1>1, <1>2, Counted
<1>4. Cardinality(T) \in Nat
  BY <1>1, <1>2, Counted
<1>5. tokens[SemOf(op)] \in Nat /\ lost[op] \in Nat
  BY SemOfOp DEF Typed
<1> QED
  BY <1>3, <1>4, <1>5 DEF Balanced

LEMMA TokenNext ==
    "ResumeNotOK" \in Rules /\ ListsInv /\ TokenInv /\ [MQNext]_mqVars => TokenInv'
<1> SUFFICES ASSUME "ResumeNotOK" \in Rules, ListsInv, TokenInv, [MQNext]_mqVars
             PROVE  TokenInv'
  OBVIOUS
<1> DEFINE Kept == Typed' /\ Waiting' /\ \A o \in Op : Balanced(o)'
<1>1. Typed /\ Waiting /\ \A o \in Op : Balanced(o)
  BY DEF TokenInv
<1>2. /\ Free \in Seq(Slot) /\ Len(Free) \in Nat /\ entry \in Nat /\ entry = Len(Queued)
      /\ Queued \in Seq(Slot) /\ \A o \in Op : Supply(o) \in Nat
  BY SeqElements DEF ListsInv, ListsAre, Links, Supply
<1>3. SemOf("send") = SemEmpty /\ SemOf("recv") = SemRead /\ "send" \in Op /\ "recv" \in Op
  BY SemOfOp DEF SemOf
<1>4. ASSUME UNCHANGED mqVars PROVE Kept
  <2>1. UNCHANGED <<mode, waiters, tokens, timed, outcome, executing, call, lost>> /\ UNCHANGED queue
    BY <1>4 DEF mqVars, vars
  <2>2. Typed' /\ Waiting'
    BY <1>1, <2>1 DEF Typed, Waiting, SemOf
  <2>3. ASSUME NEW o \in Op PROVE Balanced(o)'
    <3>1. \A u \in Thread : Granted(u, o)' <=> Granted(u, o)
      BY <2>1 DEF Granted
    <3>2. Supply(o)' = Supply(o)
      BY <2>1, ListsStay DEF Supply, queue
    <3> QED BY <1>1, <2>1, <3>1, <3>2, BalanceKept
  <2> QED BY <2>2, <2>3
<1>5. ASSUME NEW t \in Thread, NEW m \in Msg, SendNow(t, m)
      PROVE  Kept
  BY <1>1, <1>3, <1>5, EnterTakes DEF SendNow
<1>6. ASSUME NEW t \in Thread, NEW m \in Msg, NEW limited \in BOOLEAN, SendBlock(t, m, limited)
      PROVE  Kept
  BY <1>1, <1>3, <1>6, EnterBlocks DEF SendBlock
<1>7. ASSUME NEW t \in Thread, RecvNow(t)
      PROVE  Kept
  BY <1>1, <1>3, <1>7, EnterTakes DEF RecvNow
<1>8. ASSUME NEW t \in Thread, NEW limited \in BOOLEAN, RecvBlock(t, limited)
      PROVE  Kept
  BY <1>1, <1>3, <1>8, EnterBlocks DEF RecvBlock
<1>9. ASSUME NEW t \in Thread, Send(t)
      PROVE  Kept
  <2>1. Leave(t) /\ call[t] = "send" /\ Succeeded(t) /\ UNCHANGED lost /\ Granted(t, "send")
    BY <1>9 DEF Send, Leave, Succeeded, Granted
  <2>2. Len(Free) > 0
    BY <1>1, <1>2, <1>3, <2>1, GrantServed DEF Supply
  <2>3. free # Null
    <3>1. Free # <<>> /\ Links(next, free, Free)
      BY <1>2, <2>2, SeqElements DEF ListsInv, ListsAre
    <3> QED BY <3>1, LinksTail DEF Slot, Null
  <2>4. /\ free' = next[free] /\ LinkLast(free) /\ entry' = entry + 1 /\ Give(SemRead, 1)
    BY <1>9, <2>3 DEF Send
  <2>5. Free # <<>> /\ Free' = Tail(Free)
    BY <2>3, <2>4, SendMoves
  <2>6. Len(Free)' = Len(Free) - 1
    <3>1. Len(Tail(Free)) = Len(Free) - 1
      BY <1>2, <2>5, TailLast
    <3> QED BY <2>5, <3>1
  <2>7. Supply("send")' = Supply("send") - 1 /\ Supply("recv")' = Supply("recv") + 1
    BY <2>4, <2>6 DEF Supply
  <2> QED BY <1>1, <1>3, <2>1, <2>4, <2>7, Exchanges
<1>10. ASSUME NEW t \in Thread, Recv(t)
       PROVE  Kept
  <2>1. Leave(t) /\ call[t] = "recv" /\ Succeeded(t) /\ UNCHANGED lost /\ Granted(t, "recv")
    BY <1>10 DEF Recv, Leave, Succeeded, Granted
  <2>2. entry # 0
    BY <1>1, <1>2, <1>3, <2>1, GrantServed DEF Supply
  <2>3. /\ head' = next[head] /\ tail' = TailAfter(head) /\ entry' = entry - 1
        /\ next' = [next EXCEPT ![head] = free] /\ free' = head /\ Give(SemEmpty, 1)
    BY <1>10, <2>2 DEF Recv
  <2>4. Free' = <<head>> \o Free /\ head \in Slot
    BY <2>2, <2>3, RecvMoves
  <2>5. Len(Free)' = Len(Free) + 1
    <3>1. Len(<<head>> \o Free) = Len(Free) + 1
      BY <1>2, <2>4, PushLemma
    <3> QED BY <2>4, <3>1
  <2>6. Supply("recv")' = Supply("recv") - 1 /\ Supply("send")' = Supply("send") + 1
    BY <2>3, <2>5 DEF Supply
  <2> QED BY <1>1, <1>3, <2>1, <2>3, <2>6, Exchanges
<1>11. ASSUME NEW t \in Thread, GiveUp(t)
       PROVE  Kept
  BY <1>1, <1>11, GivesUp
<1>12. ASSUME NEW t \in Thread, CallEntry(t)
       PROVE  Kept
  BY <1>1, <1>12, CallKeeps
<1>13. ASSUME NEW t \in Thread, WaitEnds(t)
       PROVE  Kept
  BY <1>1, <1>13, WaitEndsKeeps
<1>14. ASSUME NEW t \in Thread, StopThread(t)
       PROVE  Kept
  BY <1>1, <1>14, StopKeeps
<1>15. ASSUME NEW t \in Thread, Other(t)
       PROVE  Kept
  BY <1>1, <1>15, OtherKeeps
<1> HIDE DEF Kept
<1>16. Kept
  BY <1>4, <1>5, <1>6, <1>7, <1>8, <1>9, <1>10, <1>11, <1>12, <1>13, <1>14, <1>15 DEF MQNext
<1> QED
  BY <1>16 DEF TokenInv, Kept

\* Where no waiting thread is resumed with EOK from outside, the tokens of the two
\* semaphores, those that threads hold, and those lost with threads that were stopped
\* account for every slot and every message (the takes and gives of
\* message_queue_send and message_queue_recv).
THEOREM TokensAccountForSlots == "ResumeNotOK" \in Rules => (MQSpec => []NoSlotLost)
<1> SUFFICES ASSUME "ResumeNotOK" \in Rules PROVE MQSpec => []NoSlotLost
  OBVIOUS
<1>1. MQInit => ListsInv /\ TokenInv
  BY ListsInit, TokenInit DEF MQInit
<1>2. ListsInv /\ TokenInv /\ [MQNext]_mqVars => (ListsInv /\ TokenInv)'
  BY ListsNext, TokenNext
<1>3. TokenInv => NoSlotLost
  BY SemOfOp DEF TokenInv, Balanced, Holders, Supply, NoSlotLost, Promised
<1> QED
  BY <1>1, <1>2, <1>3, PTL DEF MQSpec

-----------------------------------------------------------------------------
(***************************************************************************)
(* The mailbox.                                                            *)
(***************************************************************************)
Content == Msg \cup {NoMsg}

\* What is being sent is a message.
BuffersHold ==
    /\ body \in [Slot -> Content]
    /\ call \in [Thread -> Op \cup {"none"}]
    /\ buffer \in [Thread -> Content]
    /\ \A t \in Thread : call[t] = "send" => buffer[t] \in Msg

\* The contents of the list, in order.
LEMMA BoxIs ==
    ASSUME ListsInv, BuffersHold
    PROVE  /\ Box \in Seq(Content) /\ Len(Box) = entry /\ entry \in Nat
           /\ Queued \in Seq(Slot) /\ Len(Queued) = entry
           /\ \A i \in 1 .. entry : Queued[i] \in Slot /\ Box[i] = body[Queued[i]]
<1>1. Queued \in Seq(Slot) /\ Len(Queued) = entry /\ entry \in Nat
  BY SeqElements DEF ListsInv, ListsAre, Links
<1>2. \A i \in 1 .. entry : Queued[i] \in Slot /\ body[Queued[i]] \in Content
  BY <1>1, SeqElements DEF BuffersHold
<1>3. Box \in Seq(Content) /\ Len(Box) = entry /\ \A i \in 1 .. entry : Box[i] = body[Queued[i]]
  BY <1>1, <1>2 DEF Box
<1> QED
  BY <1>1, <1>2, <1>3

\* Steps that leave the queue, the calls and the buffers alone
LEMMA MailStutters ==
    ASSUME UNCHANGED queue, UNCHANGED <<call, buffer>>
    PROVE  UNCHANGED Mailbox!vars /\ (BuffersHold => BuffersHold')
<1>1. Box' = Box
  BY ListsStay DEF Box, queue
<1>2. Offers' = Offers
  BY DEF Offers
<1>3. BuffersHold => BuffersHold'
  BY DEF BuffersHold, queue
<1> QED
  BY <1>1, <1>2, <1>3 DEF Mailbox!vars

\* A send begins: its message is offered.
LEMMA MailOffers ==
    ASSUME BuffersHold, NEW t \in Thread, NEW m \in Msg, Enter(t, "send", m)
    PROVE  Mailbox!Offer(t, m) /\ BuffersHold'
<1>1. /\ call[t] = "none" /\ call' = [call EXCEPT ![t] = "send"]
      /\ buffer' = [buffer EXCEPT ![t] = m] /\ UNCHANGED queue
  BY DEF Enter
<1>2. Offers[t] = NoMsg /\ Offers' = [Offers EXCEPT ![t] = m]
  BY <1>1 DEF Offers, BuffersHold
<1>3. Box' = Box
  BY <1>1, ListsStay DEF Box, queue
<1>4. BuffersHold'
  BY <1>1 DEF BuffersHold, queue, Op, Content
<1> QED
  BY <1>2, <1>3, <1>4 DEF Mailbox!Offer

\* A receive begins.
LEMMA MailAsks ==
    ASSUME BuffersHold, NEW t \in Thread, Enter(t, "recv", NoMsg)
    PROVE  UNCHANGED Mailbox!vars /\ BuffersHold'
<1>1. /\ call[t] = "none" /\ call' = [call EXCEPT ![t] = "recv"]
      /\ buffer' = [buffer EXCEPT ![t] = NoMsg] /\ UNCHANGED queue
  BY DEF Enter
<1>2. Offers' = Offers
  BY <1>1 DEF Offers, BuffersHold
<1>3. Box' = Box
  BY <1>1, ListsStay DEF Box, queue
<1>4. BuffersHold'
  BY <1>1 DEF BuffersHold, queue, Op, Content
<1> QED
  BY <1>2, <1>3, <1>4 DEF Mailbox!vars

\* The call of t ends without a message.
LEMMA MailWithdraws ==
    ASSUME BuffersHold, NEW t \in Thread, call[t] # "none",
           call' = [call EXCEPT ![t] = "none"], UNCHANGED queue, UNCHANGED buffer
    PROVE  [Mailbox!Next]_Mailbox!vars /\ BuffersHold'
<1>1. Box' = Box
  BY ListsStay DEF Box, queue
<1>2. Offers' = [Offers EXCEPT ![t] = NoMsg]
  BY DEF Offers, BuffersHold
<1>3. BuffersHold'
  BY DEF BuffersHold, queue
<1>4. CASE call[t] = "send"
  <2>1. Offers[t] # NoMsg
    BY <1>4, MessageQueueAssumption DEF Offers, BuffersHold
  <2>2. Mailbox!Withdraw(t)
    BY <1>1, <1>2, <2>1 DEF Mailbox!Withdraw
  <2> QED BY <1>3, <2>2 DEF Mailbox!Next
<1>5. CASE call[t] # "send"
  <2>1. Offers' = Offers
    BY <1>5 DEF Offers, BuffersHold
  <2> QED BY <1>1, <1>3, <2>1 DEF Mailbox!vars
<1> QED
  BY <1>4, <1>5

\* A send with a slot puts its message behind the others.
LEMMA MailPuts ==
    ASSUME ListsInv, BuffersHold, NEW t \in Thread, Send(t), free # Null
    PROVE  Mailbox!Put(t) /\ BuffersHold'
<1>1. /\ call[t] = "send" /\ call' = [call EXCEPT ![t] = "none"] /\ UNCHANGED buffer
      /\ free' = next[free] /\ LinkLast(free) /\ entry' = entry + 1
      /\ body' = [body EXCEPT ![free] = buffer[t]]
  BY DEF Send, Leave
<1>2. /\ free \in Slot \ Range(Queued) /\ Queued' = Append(Queued, free) /\ ListsInv'
  BY <1>1, SendMoves
<1>3. BuffersHold'
  BY <1>1, <1>2 DEF BuffersHold, Content
<1>4. Offers[t] = buffer[t] /\ Offers[t] # NoMsg /\ Offers' = [Offers EXCEPT ![t] = NoMsg]
  BY <1>1, MessageQueueAssumption DEF Offers, BuffersHold
<1>5. /\ Queued \in Seq(Slot) /\ entry \in Nat /\ Len(Queued) = entry
      /\ Box \in Seq(Content) /\ Len(Box) = entry
      /\ \A i \in 1 .. entry : Queued[i] \in Slot /\ Box[i] = body[Queued[i]]
  BY BoxIs
<1>6. Len(Box) < MaxMsgs
  <2>1. Queued' \in Seq(Slot) /\ IsInjective(Queued') /\ Len(Queued') = entry + 1
    <3>1. Queued' \in Seq(Slot) /\ IsInjective(Queued')
      BY <1>2 DEF ListsInv, ListsAre, Links
    <3> QED BY <1>2, <1>5, <3>1
  <2>2. entry + 1 <= MaxMsgs
    BY <2>1, SlotsFit
  <2> QED BY <2>2, <1>5, MessageQueueAssumption
<1>7. Box' = Append(Box, Offers[t])
  <2>1. Box' = [i \in 1 .. entry + 1 |-> body'[Queued'[i]]]
    BY <1>1 DEF Box
  <2>2. Append(Box, Offers[t]) = [i \in 1 .. entry + 1 |-> IF i = entry + 1 THEN Offers[t] ELSE Box[i]]
    <3>1. Offers[t] \in Content
      BY <1>4 DEF BuffersHold
    <3> QED BY <1>5, <3>1
  <2>3. ASSUME NEW i \in 1 .. entry + 1
        PROVE  body'[Queued'[i]] = IF i = entry + 1 THEN Offers[t] ELSE Box[i]
    <3>1. CASE i = entry + 1
      <4>1. Queued'[i] = free
        BY <1>2, <1>5, <3>1
      <4> QED BY <1>1, <1>2, <1>4, <3>1, <4>1 DEF BuffersHold
    <3>2. CASE i # entry + 1
      <4>1. i \in 1 .. entry
        BY <1>5, <3>2
      <4>2. Queued'[i] = Queued[i] /\ Queued[i] \in Range(Queued)
        BY <1>2, <1>5, <4>1, SeqElements
      <4> QED BY <1>1, <1>2, <1>5, <3>2, <4>1, <4>2 DEF BuffersHold
    <3> QED BY <3>1, <3>2
  <2> QED BY <2>1, <2>2, <2>3
<1> QED
  BY <1>3, <1>4, <1>6, <1>7 DEF Mailbox!Put

\* A receive with a message takes the first.
LEMMA MailGets ==
    ASSUME ListsInv, BuffersHold, NEW t \in Thread, Recv(t), entry # 0
    PROVE  Mailbox!Get /\ BuffersHold'
<1>1. /\ call[t] = "recv" /\ call' = [call EXCEPT ![t] = "none"]
      /\ buffer' = [buffer EXCEPT ![t] = body[head]] /\ UNCHANGED body
      /\ head' = next[head] /\ tail' = TailAfter(head) /\ entry' = entry - 1
      /\ next' = [next EXCEPT ![head] = free] /\ free' = head
  BY DEF Recv, Leave
<1>2. Queued # <<>> /\ head \in Slot /\ Queued' = Tail(Queued)
  BY <1>1, RecvMoves
<1>3. BuffersHold'
  BY <1>1, <1>2 DEF BuffersHold
<1>4. Offers' = Offers
  BY <1>1 DEF Offers, BuffersHold
<1>5. /\ Queued \in Seq(Slot) /\ entry \in Nat /\ Len(Queued) = entry
      /\ Box \in Seq(Content) /\ Len(Box) = entry
      /\ \A i \in 1 .. entry : Queued[i] \in Slot /\ Box[i] = body[Queued[i]]
  BY BoxIs
<1>6. Box # <<>>
  BY <1>5, SeqElements
<1>7. Box' = Tail(Box)
  <2>1. Box' = [i \in 1 .. entry - 1 |-> body[Queued'[i]]]
    BY <1>1 DEF Box
  <2>2. Tail(Box) = [i \in 1 .. entry - 1 |-> Box[i + 1]]
    BY <1>5, <1>6, TailElements
  <2>3. ASSUME NEW i \in 1 .. entry - 1
        PROVE  body[Queued'[i]] = Box[i + 1]
    <3>1. i + 1 \in 1 .. entry /\ i \in 1 .. Len(Queued) - 1
      BY <1>5
    <3>2. Queued'[i] = Queued[i + 1]
      BY <1>2, <1>5, <3>1
    <3> QED BY <1>5, <3>1, <3>2
  <2> QED BY <2>1, <2>2, <2>3
<1> QED
  BY <1>3, <1>4, <1>6, <1>7 DEF Mailbox!Get

LEMMA MailInit == MQInit => Mailbox!Init /\ BuffersHold
<1> SUFFICES ASSUME MQInit PROVE Mailbox!Init /\ BuffersHold
  OBVIOUS
<1>1. BuffersHold
  BY DEF MQInit, QueueInit, BuffersHold, Content
<1>2. Box = <<>>
  <2>1. Box \in Seq(Content) /\ Len(Box) = 0
    BY <1>1, ListsInit, BoxIs DEF MQInit, QueueInit
  <2> QED BY <2>1, SeqElements
<1>3. Offers = [t \in Thread |-> NoMsg]
  BY DEF Offers, MQInit
<1> QED
  BY <1>1, <1>2, <1>3 DEF Mailbox!Init

LEMMA MailNext ==
    ASSUME "BufferKept" \in Rules, ListsInv, BuffersHold, [MQNext]_mqVars
    PROVE  [Mailbox!Next]_Mailbox!vars /\ BuffersHold'
<1> DEFINE Goal == [Mailbox!Next]_Mailbox!vars /\ BuffersHold'
<1>1. ASSUME UNCHANGED mqVars PROVE Goal
  BY <1>1, MailStutters DEF mqVars
<1>2. ASSUME NEW t \in Thread, NEW m \in Msg, Enter(t, "send", m)
      PROVE  Goal
  BY <1>2, MailOffers DEF Mailbox!Next
<1>3. ASSUME NEW t \in Thread, NEW m \in Msg, SendNow(t, m)
      PROVE  Goal
  BY <1>2, <1>3 DEF SendNow
<1>4. ASSUME NEW t \in Thread, NEW m \in Msg, NEW limited \in BOOLEAN, SendBlock(t, m, limited)
      PROVE  Goal
  <2>1. Enter(t, "send", m)
    BY <1>4 DEF SendBlock, Obeys
  <2> QED BY <1>2, <2>1
<1>5. ASSUME NEW t \in Thread, RecvNow(t) \/ \E limited \in BOOLEAN : RecvBlock(t, limited)
      PROVE  Goal
  <2>1. Enter(t, "recv", NoMsg)
    BY <1>5 DEF RecvNow, RecvBlock
  <2> QED BY <2>1, MailAsks
<1>6. ASSUME NEW t \in Thread, Send(t)
      PROVE  Goal
  <2>1. CASE free = Null
    <3>1. /\ call[t] # "none" /\ call' = [call EXCEPT ![t] = "none"]
          /\ UNCHANGED queue /\ UNCHANGED buffer
      BY <1>6, <2>1 DEF Send, Leave
    <3> QED BY <3>1, MailWithdraws
  <2>2. CASE free # Null
    BY <1>6, <2>2, MailPuts DEF Mailbox!Next
  <2> QED BY <2>1, <2>2
<1>7. ASSUME NEW t \in Thread, Recv(t)
      PROVE  Goal
  <2>1. CASE entry = 0
    <3>1. /\ call[t] # "none" /\ call' = [call EXCEPT ![t] = "none"]
          /\ UNCHANGED queue /\ UNCHANGED buffer
      BY <1>7, <2>1 DEF Recv, Leave
    <3> QED BY <3>1, MailWithdraws
  <2>2. CASE entry # 0
    BY <1>7, <2>2, MailGets DEF Mailbox!Next
  <2> QED BY <2>1, <2>2
<1>8. ASSUME NEW t \in Thread, GiveUp(t)
      PROVE  Goal
  <2>1. /\ call[t] # "none" /\ call' = [call EXCEPT ![t] = "none"]
        /\ UNCHANGED queue /\ UNCHANGED buffer
    BY <1>8 DEF GiveUp, Leave
  <2> QED BY <2>1, MailWithdraws
<1>9. ASSUME NEW t \in Thread, CallEntry(t) \/ WaitEnds(t) \/ StopThread(t) \/ Other(t)
      PROVE  Goal
  <2>1. UNCHANGED queue /\ UNCHANGED <<call, buffer>>
    BY <1>9 DEF CallEntry, WaitEnds, StopThread, Other, Elsewhere, Outside
  <2> QED BY <2>1, MailStutters
<1> HIDE DEF Goal
<1>10. Goal
  BY <1>1, <1>3, <1>4, <1>5, <1>6, <1>7, <1>8, <1>9 DEF MQNext
<1> QED
  BY <1>10 DEF Goal

\* Where the buffer of a send is still there after a wait, the queue is a bounded
\* mailbox: a message is put once, as it was offered, or withdrawn, and messages leave in
\* the order they were put (message_queue_send and message_queue_recv).
THEOREM QueueIsMailbox == "BufferKept" \in Rules => (MQSpec => ImplementsMailbox)
<1> SUFFICES ASSUME "BufferKept" \in Rules PROVE MQSpec => ImplementsMailbox
  OBVIOUS
<1>1. MQInit => ListsInv /\ BuffersHold /\ Mailbox!Init
  BY ListsInit, MailInit DEF MQInit
<1>2. ListsInv /\ BuffersHold /\ [MQNext]_mqVars
         => (ListsInv /\ BuffersHold)' /\ [Mailbox!Next]_Mailbox!vars
  BY ListsNext, MailNext
<1> QED
  BY <1>1, <1>2, PTL DEF MQSpec, ImplementsMailbox, Mailbox!Spec

=============================================================================
