--------------------------- MODULE MyptmListsProofs ---------------------------
(***************************************************************************)
(* What the operations on the rings of myptm_queue.h do to the set of      *)
(* objects linked, and that they keep every object linked once.            *)
(***************************************************************************)
EXTENDS MyptmLists, FiniteSetTheorems, WellFoundedInduction, TLAPS

\* A set of natural numbers that is not empty has a least element.
LEMMA LeastElement ==
    ASSUME NEW T, T \subseteq Nat, T # {}
    PROVE  \E n \in T : \A m \in T : n <= m
<1>1. PICK n \in T : \A m \in T : <<m, n>> \notin OpToRel(<, Nat)
  BY NatLessThanWellFounded, WFMin
<1>2. \A m \in T : ~(m < n)
  BY <1>1 DEF OpToRel
<1> QED
  BY <1>2

\* and so has a bounded one a greatest.
LEMMA GreatestElement ==
    ASSUME NEW n \in Nat, NEW T, T \subseteq 0 .. n, T # {}
    PROVE  \E i \in T : \A j \in T : j <= i
<1> DEFINE behind == {m \in 0 .. n : n - m \in T}
<1>1. behind \subseteq Nat /\ behind # {}
  <2>1. PICK j \in T : TRUE
    OBVIOUS
  <2>2. n - j \in 0 .. n /\ n - (n - j) = j
    BY <2>1
  <2>3. n - j \in behind
    BY <2>1, <2>2
  <2> QED BY <2>3
<1>2. PICK m \in behind : \A l \in behind : m <= l
  <2> HIDE DEF behind
  <2> QED BY <1>1, LeastElement
<1>3. ASSUME NEW j \in T PROVE j <= n - m
  <2>1. n - j \in 0 .. n /\ n - (n - j) = j
    BY <1>3
  <2>2. m <= n - j /\ m \in Int /\ j \in Int
    BY <1>2, <1>3, <2>1
  <2> QED BY <2>2
<1> QED
  BY <1>2, <1>3

\* Induction over the natural numbers, for a set of them.
LEMMA InductionOnNat ==
    ASSUME NEW T, 0 \in T, \A n \in Nat : n \in T => n + 1 \in T
    PROVE  Nat \subseteq T
<1> SUFFICES ASSUME Nat \ T # {} PROVE FALSE
  OBVIOUS
<1>1. PICK n \in Nat \ T : \A m \in Nat \ T : n <= m
  <2> DEFINE U == Nat \ T
  <2> HIDE DEF U
  <2>1. U \subseteq Nat /\ U # {}
    BY DEF U
  <2>2. \E n \in U : \A m \in U : n <= m
    BY <2>1, LeastElement
  <2> QED BY <2>2 DEF U
<1>2. n # 0 /\ n - 1 \in Nat /\ ~(n <= n - 1)
  BY <1>1
<1>3. n - 1 \in T
  BY <1>1, <1>2
<1>4. (n - 1) + 1 = n
  BY <1>1
<1> QED
  BY <1>1, <1>2, <1>3, <1>4

\* The elements of a sequence.
LEMMA SeqElements ==
    ASSUME NEW S, NEW s \in Seq(S)
    PROVE  /\ Len(s) \in Nat /\ DOMAIN s = 1 .. Len(s)
           /\ \A i \in 1 .. Len(s) : s[i] \in S /\ s[i] \in Range(s)
           /\ Range(s) \subseteq S
           /\ Len(s) = 0 <=> s = <<>>
<1>1. Len(s) \in Nat /\ DOMAIN s = 1 .. Len(s) /\ (Len(s) = 0 <=> s = <<>>)
  OBVIOUS
<1>2. \A i \in 1 .. Len(s) : s[i] \in S
  OBVIOUS
<1> QED
  BY <1>1, <1>2 DEF Range

\* How many numbers there are from 1 to n, and from 0 to n - 1.
LEMMA IntervalSize ==
    ASSUME NEW n \in Nat
    PROVE  /\ IsFiniteSet(1 .. n) /\ Cardinality(1 .. n) = n
           /\ Cardinality(0 .. n - 1) = n
<1>1. 0 \in Int /\ 1 \in Int /\ n \in Int /\ n - 1 \in Int
  OBVIOUS
<1>2. IsFiniteSet(1 .. n) /\ Cardinality(1 .. n) = IF 1 > n THEN 0 ELSE n - 1 + 1
  BY <1>1, FS_Interval
<1>3. Cardinality(0 .. n - 1) = IF 0 > n - 1 THEN 0 ELSE n - 1 - 0 + 1
  BY <1>1, FS_Interval
<1> QED
  BY <1>2, <1>3

\* A list that holds nothing twice is not longer than there are things.
LEMMA ListFits ==
    ASSUME NEW S, IsFiniteSet(S), NEW s \in Seq(S), IsInjective(s)
    PROVE  Len(s) <= Cardinality(S) /\ Cardinality(S) \in Nat
<1>1. Len(s) \in Nat /\ Cardinality(S) \in Nat
  BY FS_CardinalityType
<1>2. s \in Injection(1 .. Len(s), S)
  <2>1. DOMAIN s = 1 .. Len(s) /\ \A i \in 1 .. Len(s) : s[i] \in S
    BY SeqElements
  <2>2. s \in [1 .. Len(s) -> S]
    BY <2>1
  <2> QED BY <2>2 DEF Injection
<1>3. Cardinality(1 .. Len(s)) = Len(s)
  BY <1>1, IntervalSize
<1>4. Cardinality(1 .. Len(s)) <= Cardinality(S)
  BY <1>2, FS_Injection
<1> QED
  BY <1>1, <1>3, <1>4

\* Removing the k-th element of a sequence, element by element.
LEMMA RemoveAtElements ==
    ASSUME NEW S, NEW s \in Seq(S), NEW k \in DOMAIN s
    PROVE  /\ RemoveAt(s, k) \in Seq(S)
           /\ Len(RemoveAt(s, k)) = Len(s) - 1
           /\ \A i \in 1 .. Len(s) - 1 :
                 RemoveAt(s, k)[i] = IF i < k THEN s[i] ELSE s[i + 1]
<1>1. k \in 1 .. Len(s) /\ Len(s) \in Nat
  OBVIOUS
<1> DEFINE a == SubSeq(s, 1, k - 1)
           b == SubSeq(s, k + 1, Len(s))
<1>2. a \in Seq(S) /\ Len(a) = k - 1 /\ \A i \in 1 .. k - 1 : a[i] = s[i]
  BY <1>1
<1>3. b \in Seq(S) /\ Len(b) = Len(s) - k /\ \A i \in 1 .. Len(s) - k : b[i] = s[i + k]
  BY <1>1
<1>4. RemoveAt(s, k) = a \o b
  BY DEF RemoveAt
<1> HIDE DEF a, b
<1> QED
  BY <1>1, <1>2, <1>3, <1>4

\* Two sequences one after the other, element by element.
LEMMA ConcatElements ==
    ASSUME NEW S, NEW s \in Seq(S), NEW r \in Seq(S)
    PROVE  /\ s \o r \in Seq(S) /\ Len(s \o r) = Len(s) + Len(r)
           /\ \A i \in 1 .. Len(s \o r) :
                 (s \o r)[i] = IF i <= Len(s) THEN s[i] ELSE r[i - Len(s)]
OBVIOUS

\* Inserting an element before the k-th one, element by element.
GainsElement(q, s, k, x) ==
    /\ Len(q) = Len(s) + 1
    /\ \A i \in 1 .. Len(s) + 1 : q[i] = IF i < k THEN s[i] ELSE IF i = k THEN x ELSE s[i - 1]

LEMMA InsertAtElements ==
    ASSUME NEW S, NEW s \in Seq(S), NEW k \in 1 .. Len(s) + 1, NEW x \in S
    PROVE  InsertAt(s, k, x) \in Seq(S) /\ GainsElement(InsertAt(s, k, x), s, k, x)
<1>1. k \in 1 .. Len(s) + 1 /\ Len(s) \in Nat
  OBVIOUS
<1> DEFINE a == SubSeq(s, 1, k - 1)
           b == SubSeq(s, k, Len(s))
           c == <<x>>
<1>2. a \in Seq(S) /\ Len(a) = k - 1 /\ \A i \in 1 .. k - 1 : a[i] = s[i]
  BY <1>1
<1>3. b \in Seq(S) /\ Len(b) = Len(s) - k + 1 /\ \A i \in 1 .. Len(s) - k + 1 : b[i] = s[i + k - 1]
  BY <1>1
<1>4. c \in Seq(S) /\ Len(c) = 1 /\ c[1] = x
  OBVIOUS
<1>5. InsertAt(s, k, x) = (a \o c) \o b
  BY DEF InsertAt
<1> HIDE DEF a, b, c
<1> DEFINE d == a \o c
<1>6. /\ d \in Seq(S) /\ Len(d) = (k - 1) + 1
      /\ \A i \in 1 .. Len(d) : d[i] = IF i <= k - 1 THEN a[i] ELSE c[i - (k - 1)]
  <2>1. /\ d \in Seq(S) /\ Len(d) = Len(a) + Len(c)
        /\ \A i \in 1 .. Len(d) : d[i] = IF i <= Len(a) THEN a[i] ELSE c[i - Len(a)]
    BY <1>2, <1>4, ConcatElements
  <2> HIDE DEF d
  <2> QED BY <1>2, <1>4, <2>1
<1>7. Len(d) = k /\ d[k] = x /\ \A i \in 1 .. k - 1 : d[i] = s[i]
  BY <1>1, <1>2, <1>4, <1>6
<1> HIDE DEF d
<1>8. /\ d \o b \in Seq(S) /\ Len(d \o b) = Len(s) + 1
      /\ \A i \in 1 .. Len(s) + 1 : (d \o b)[i] = IF i <= k THEN d[i] ELSE b[i - k]
  <2>1. PICK e : e = d \o b
    OBVIOUS
  <2>2. /\ e \in Seq(S) /\ Len(e) = k + (Len(s) - k + 1)
        /\ \A i \in 1 .. Len(e) : e[i] = IF i <= k THEN d[i] ELSE b[i - k]
    BY <1>3, <1>6, <1>7, <2>1, ConcatElements
  <2>3. k + (Len(s) - k + 1) = Len(s) + 1
    BY <1>1
  <2>4. Len(e) = Len(s) + 1
    BY <2>2, <2>3
  <2> QED BY <2>1, <2>2, <2>4
<1>9. ASSUME NEW i \in 1 .. Len(s) + 1
      PROVE  /\ i < k => (d \o b)[i] = s[i]
             /\ i = k => (d \o b)[i] = x
             /\ ~(i < k) /\ i # k => (d \o b)[i] = s[i - 1]
  <2>1. (d \o b)[i] = IF i <= k THEN d[i] ELSE b[i - k]
    BY <1>8, <1>9
  <2>2. ASSUME i > k PROVE (d \o b)[i] = s[i - 1]
    <3>1. b[i - k] = s[(i - k) + k - 1] /\ (i - k) + k - 1 = i - 1
      BY <1>1, <1>3, <2>2
    <3> QED BY <1>1, <2>1, <2>2, <3>1
  <2>3. i <= k => (d \o b)[i] = d[i]
    BY <2>1
  <2>4. i \in Int /\ k \in Int /\ i >= 1
    BY <1>1
  <2>5. ASSUME i < k PROVE (d \o b)[i] = s[i]
    <3>1. i \in 1 .. k - 1 /\ i <= k
      BY <2>4, <2>5
    <3> QED BY <1>7, <2>3, <3>1
  <2>6. ASSUME i = k PROVE (d \o b)[i] = x
    BY <1>7, <2>3, <2>4, <2>6
  <2>7. ~(i < k) /\ i # k => i > k
    BY <2>4
  <2> QED BY <2>2, <2>5, <2>6, <2>7
<1> DEFINE q == d \o b
<1>10. q = InsertAt(s, k, x)
  BY <1>5 DEF d
<1> HIDE DEF q
<1> QED
  BY <1>8, <1>9, <1>10 DEF q, GainsElement

\* myptm_queue_remove takes the object out of the ring, wherever it is, leaves the
\* others, and links no object twice.
LEMMA UnlinkLemma ==
    ASSUME NEW S, NEW s \in Seq(S), IsInjective(s), NEW x
    PROVE  /\ Unlink(s, x) \in Seq(S)
           /\ Range(Unlink(s, x)) = Range(s) \ {x}
           /\ IsInjective(Unlink(s, x))
<1>1. CASE x \notin Range(s)
  BY <1>1 DEF Unlink
<1>2. CASE x \in Range(s)
  <2> DEFINE k == CHOOSE i \in DOMAIN s : s[i] = x
             r == RemoveAt(s, k)
  <2>1. k \in DOMAIN s /\ s[k] = x
    BY <1>2 DEF Range
  <2>2. Unlink(s, x) = r
    BY <1>2 DEF Unlink
  <2> HIDE DEF k
  <2>3. /\ r \in Seq(S)
        /\ Len(r) = Len(s) - 1
        /\ \A i \in 1 .. Len(s) - 1 : r[i] = IF i < k THEN s[i] ELSE s[i + 1]
    BY <2>1, RemoveAtElements
  <2> HIDE DEF r
  <2>4. Len(s) \in Nat /\ k \in 1 .. Len(s) /\ DOMAIN s = 1 .. Len(s) /\ DOMAIN r = 1 .. Len(s) - 1
    BY <2>1, <2>3
  <2>5. \A i, j \in DOMAIN s : s[i] = s[j] => i = j
    BY DEF IsInjective
  <2>6. ASSUME NEW i \in DOMAIN r
        PROVE  r[i] \in Range(s) \ {x}
    BY <2>1, <2>3, <2>4, <2>5 DEF Range
  <2>7. ASSUME NEW j \in DOMAIN s, s[j] # x
        PROVE  \E i \in DOMAIN r : r[i] = s[j]
    <3>1. CASE j < k
      BY <3>1, <2>3, <2>4
    <3>2. CASE j > k
      <4>1. j - 1 \in DOMAIN r /\ r[j - 1] = s[j]
        BY <3>2, <2>3, <2>4
      <4> QED BY <4>1
    <3>3. j # k
      BY <2>1, <2>7
    <3> QED BY <3>1, <3>2, <3>3, <2>4
  <2>8. Range(r) = Range(s) \ {x}
    BY <2>6, <2>7 DEF Range
  <2>9. IsInjective(r)
    BY <2>3, <2>4, <2>5 DEF IsInjective
  <2> QED
    BY <2>2, <2>3, <2>8, <2>9
<1> QED
  BY <1>1, <1>2

\* myptm_queue_insert_tail of an object that is in no ring
LEMMA AppendLemma ==
    ASSUME NEW S, NEW s \in Seq(S), NEW x \in S
    PROVE  /\ Append(s, x) \in Seq(S)
           /\ Range(Append(s, x)) = Range(s) \cup {x}
           /\ IsInjective(s) /\ x \notin Range(s) => IsInjective(Append(s, x))
<1> DEFINE r == Append(s, x)
<1>1. /\ r \in Seq(S) /\ Len(s) \in Nat /\ Len(r) = Len(s) + 1
      /\ r[Len(s) + 1] = x
      /\ \A i \in 1 .. Len(s) : r[i] = s[i]
  OBVIOUS
<1> HIDE DEF r
<1>2. DOMAIN s = 1 .. Len(s) /\ DOMAIN r = 1 .. Len(s) + 1
  BY <1>1
<1>3. Range(r) = Range(s) \cup {x}
  <2>1. \A i \in DOMAIN r : r[i] \in Range(s) \cup {x}
    BY <1>1, <1>2 DEF Range
  <2>2. \A i \in DOMAIN s : \E j \in DOMAIN r : r[j] = s[i]
    BY <1>1, <1>2
  <2>3. \E j \in DOMAIN r : r[j] = x
    BY <1>1, <1>2
  <2> QED BY <2>1, <2>2, <2>3 DEF Range
<1>4. IsInjective(s) /\ x \notin Range(s) => IsInjective(r)
  BY <1>1, <1>2 DEF IsInjective, Range
<1> QED
  BY <1>1, <1>3, <1>4 DEF r

\* Taking the first object off a ring
LEMMA TailLemma ==
    ASSUME NEW S, NEW s \in Seq(S), IsInjective(s), s # <<>>
    PROVE  /\ Head(s) \in S /\ Head(s) \in Range(s)
           /\ Tail(s) \in Seq(S)
           /\ Range(Tail(s)) = Range(s) \ {Head(s)}
           /\ IsInjective(Tail(s))
<1> DEFINE r == Tail(s)
<1>1. /\ Head(s) = s[1] /\ Head(s) \in S /\ Len(s) \in Nat \ {0} /\ DOMAIN s = 1 .. Len(s)
      /\ r \in Seq(S) /\ DOMAIN r = 1 .. Len(s) - 1
      /\ \A i \in 1 .. Len(s) - 1 : r[i] = s[i + 1]
  OBVIOUS
<1> HIDE DEF r
<1>2. \A i, j \in DOMAIN s : s[i] = s[j] => i = j
  BY DEF IsInjective
<1>3. ASSUME NEW i \in DOMAIN r PROVE r[i] \in Range(s) \ {s[1]}
  BY <1>1, <1>2 DEF Range
<1>4. ASSUME NEW j \in DOMAIN s, s[j] # s[1] PROVE \E i \in DOMAIN r : r[i] = s[j]
  <2>1. j - 1 \in DOMAIN r /\ r[j - 1] = s[j]
    BY <1>1, <1>4
  <2> QED BY <2>1
<1>5. Range(r) = Range(s) \ {s[1]}
  BY <1>3, <1>4 DEF Range
<1>6. IsInjective(r)
  BY <1>1, <1>2 DEF IsInjective
<1> QED
  BY <1>1, <1>5, <1>6 DEF r, Range

\* A ring cut after its k-th object
LEMMA SplitLemma ==
    ASSUME NEW S, NEW s \in Seq(S), IsInjective(s), NEW k \in 0 .. Len(s)
    PROVE  LET a == SubSeq(s, 1, k)
               b == SubSeq(s, k + 1, Len(s))
           IN  /\ a \in Seq(S) /\ IsInjective(a)
               /\ b \in Seq(S) /\ IsInjective(b)
               /\ Range(a) \cup Range(b) = Range(s)
               /\ Range(a) \cap Range(b) = {}
               /\ k = Len(s) => b = <<>>
<1> DEFINE a == SubSeq(s, 1, k)
           b == SubSeq(s, k + 1, Len(s))
<1>1. /\ Len(s) \in Nat /\ DOMAIN s = 1 .. Len(s)
      /\ a \in Seq(S) /\ DOMAIN a = 1 .. k /\ \A i \in 1 .. k : a[i] = s[i]
      /\ b \in Seq(S) /\ DOMAIN b = 1 .. Len(s) - k /\ Len(b) = Len(s) - k
      /\ \A i \in 1 .. Len(s) - k : b[i] = s[i + k]
      /\ k \in Nat /\ k <= Len(s)
  OBVIOUS
<1> HIDE DEF a, b
<1>2. \A i, j \in DOMAIN s : s[i] = s[j] => i = j
  BY DEF IsInjective
<1>11. \A i \in DOMAIN b : i \in Nat /\ i + k \in DOMAIN s /\ b[i] = s[i + k]
  BY <1>1
<1>12. \A i \in DOMAIN a : i \in Nat /\ i <= k /\ i \in DOMAIN s /\ a[i] = s[i]
  BY <1>1
<1>13. IsInjective(a)
  BY <1>12, <1>2 DEF IsInjective
<1>14. ASSUME NEW i \in DOMAIN b, NEW j \in DOMAIN b, b[i] = b[j] PROVE i = j
  <2>1. i + k = j + k
    BY <1>14, <1>11, <1>2
  <2> QED BY <2>1, <1>11, <1>1
<1>3. IsInjective(a) /\ IsInjective(b)
  BY <1>13, <1>14 DEF IsInjective
<1>4. ASSUME NEW i \in DOMAIN a, NEW j \in DOMAIN b PROVE a[i] # b[j]
  <2>1. j \in Nat \ {0} /\ i # j + k
    BY <1>1, <1>11, <1>12
  <2> QED BY <2>1, <1>11, <1>12, <1>2
<1>5. Range(a) \cap Range(b) = {}
  BY <1>4 DEF Range
<1>6. ASSUME NEW i \in DOMAIN s PROVE s[i] \in Range(a) \cup Range(b)
  <2>1. CASE i <= k
    BY <2>1, <1>1 DEF Range
  <2>2. CASE i > k
    <3>1. i - k \in DOMAIN b /\ b[i - k] = s[i]
      BY <2>2, <1>1
    <3> QED BY <3>1 DEF Range
  <2> QED BY <2>1, <2>2, <1>1
<1>7. \A i \in DOMAIN a : a[i] \in Range(s)
  BY <1>1 DEF Range
<1>8. \A i \in DOMAIN b : b[i] \in Range(s)
  BY <1>11 DEF Range
<1>9. Range(a) \cup Range(b) = Range(s)
  BY <1>6, <1>7, <1>8 DEF Range
<1>10. k = Len(s) => b = <<>>
  BY <1>1
<1> QED
  BY <1>1, <1>3, <1>5, <1>9, <1>10 DEF a, b

\* Inserting one ring after another that shares no object with it
LEMMA ConcatLemma ==
    ASSUME NEW S, NEW s \in Seq(S), NEW r \in Seq(S)
    PROVE  /\ s \o r \in Seq(S)
           /\ Range(s \o r) = Range(s) \cup Range(r)
           /\ IsInjective(s) /\ IsInjective(r) /\ Range(s) \cap Range(r) = {}
                 => IsInjective(s \o r)
<1> DEFINE c == s \o r
<1>1. /\ Len(s) \in Nat /\ Len(r) \in Nat /\ DOMAIN s = 1 .. Len(s) /\ DOMAIN r = 1 .. Len(r)
      /\ c \in Seq(S) /\ DOMAIN c = 1 .. Len(s) + Len(r)
      /\ \A i \in 1 .. Len(s) : c[i] = s[i]
      /\ \A i \in 1 .. Len(r) : c[i + Len(s)] = r[i]
  OBVIOUS
<1> HIDE DEF c
<1>2. ASSUME NEW i \in DOMAIN c, i > Len(s)
      PROVE  i - Len(s) \in DOMAIN r /\ c[i] = r[i - Len(s)]
  <2>1. i - Len(s) \in 1 .. Len(r) /\ (i - Len(s)) + Len(s) = i
    BY <1>1, <1>2
  <2> QED BY <2>1, <1>1
<1>3. Range(c) = Range(s) \cup Range(r)
  <2>1. ASSUME NEW i \in DOMAIN c PROVE c[i] \in Range(s) \cup Range(r)
    BY <1>1, <1>2 DEF Range
  <2>2. ASSUME NEW i \in DOMAIN s PROVE s[i] \in Range(c)
    BY <1>1 DEF Range
  <2>3. ASSUME NEW i \in DOMAIN r PROVE r[i] \in Range(c)
    <3>1. i + Len(s) \in DOMAIN c /\ c[i + Len(s)] = r[i]
      BY <1>1
    <3> QED BY <3>1 DEF Range
  <2> QED BY <2>1, <2>2, <2>3 DEF Range
<1>4. ASSUME IsInjective(s), IsInjective(r), Range(s) \cap Range(r) = {},
             NEW i \in DOMAIN c, NEW j \in DOMAIN c, c[i] = c[j]
      PROVE  i = j
  <2>5. i \in Nat /\ j \in Nat
    BY <1>1
  <2>6. \A p, q \in DOMAIN s : s[p] = s[q] => p = q
    BY <1>4 DEF IsInjective
  <2>7. \A p, q \in DOMAIN r : r[p] = r[q] => p = q
    BY <1>4 DEF IsInjective
  <2>8. \A p \in DOMAIN s, q \in DOMAIN r : s[p] # r[q]
    BY <1>4 DEF Range
  <2>9. ASSUME NEW n \in DOMAIN c, n <= Len(s) PROVE n \in DOMAIN s /\ c[n] = s[n]
    BY <2>9, <1>1
  <2>1. CASE i <= Len(s) /\ j <= Len(s)
    BY <2>1, <2>9, <2>5, <2>6, <2>7, <2>8, <1>4
  <2>2. CASE i > Len(s) /\ j > Len(s)
    <3>1. i - Len(s) = j - Len(s)
      BY <2>2, <1>2, <1>4, <2>5, <2>6, <2>7, <2>8
    <3> QED BY <3>1, <1>1, <2>5, <2>6, <2>7, <2>8
  <2>3. CASE i <= Len(s) /\ j > Len(s)
    BY <2>3, <2>9, <1>2, <1>4, <2>5, <2>6, <2>7, <2>8
  <2>4. CASE i > Len(s) /\ j <= Len(s)
    BY <2>4, <2>9, <1>2, <1>4, <2>5, <2>6, <2>7, <2>8
  <2> QED BY <2>1, <2>2, <2>3, <2>4, <2>5, <2>6, <2>7, <2>8, <1>1
<1> QED
  BY <1>1, <1>3, <1>4 DEF c, IsInjective

\* Inserting an object before the first
LEMMA PushLemma ==
    ASSUME NEW S, NEW s \in Seq(S), NEW x \in S
    PROVE  <<x>> \o s \in Seq(S) /\ Range(<<x>> \o s) = Range(s) \cup {x}
<1> DEFINE r == <<x>>
<1>1. r \in Seq(S) /\ Range(r) = {x}
  BY DEF Range
<1> HIDE DEF r
<1>2. r \o s \in Seq(S) /\ Range(r \o s) = Range(s) \cup {x}
  BY <1>1, ConcatLemma
<1> QED
  BY <1>2 DEF r

\* The positions before the last
LEMMA LastPlace ==
    ASSUME NEW S, NEW s \in Seq(S), s # <<>>
    PROVE  /\ Len(s) \in 1 .. Len(s) /\ Len(s) \in Nat /\ Len(s) - 1 \in Nat
           /\ Len(s) - 1 <= Len(s) /\ Len(s) - 1 \in 0 .. Len(s) /\ Len(s) - 1 + 1 = Len(s)
           /\ \A i \in 1 .. Len(s) - 1 : i \in 1 .. Len(s) /\ i # Len(s)
           /\ \A i \in 1 .. Len(s) : i # Len(s) => i \in 1 .. Len(s) - 1
<1>1. Len(s) \in Nat /\ Len(s) > 0
  BY SeqElements
<1> DEFINE n == Len(s)
<1>2. n \in Nat /\ n > 0
  BY <1>1
<1> HIDE DEF n
<1>3. /\ n \in 1 .. n /\ n - 1 \in Nat /\ n - 1 <= n /\ n - 1 \in 0 .. n /\ n - 1 + 1 = n
      /\ \A i \in 1 .. n - 1 : i \in 1 .. n /\ i # n
      /\ \A i \in 1 .. n : i # n => i \in 1 .. n - 1
  BY <1>2
<1> QED
  BY <1>2, <1>3 DEF n

\* A sequence without its last element, element by element,
LEMMA FrontElements ==
    ASSUME NEW S, NEW s \in Seq(S), s # <<>>
    PROVE  /\ Front(s) \in Seq(S) /\ Len(Front(s)) = Len(s) - 1
           /\ \A i \in 1 .. Len(s) - 1 : Front(s)[i] = s[i]
<1>1. PICK n \in 0 .. Len(s) : n = Len(s) - 1
  BY LastPlace
<1>2. Front(s) = SubSeq(s, 1, n)
  BY <1>1 DEF Front
<1>3. SubSeq(s, 1, n) \in Seq(S) /\ Len(SubSeq(s, 1, n)) = n /\ \A i \in 1 .. n : SubSeq(s, 1, n)[i] = s[i]
  BY <1>1
<1> QED
  BY <1>1, <1>2, <1>3

\* and with another last element.
LEMMA ReplaceLast ==
    ASSUME NEW S, NEW s \in Seq(S), s # <<>>, NEW x \in S
    PROVE  /\ [s EXCEPT ![Len(s)] = x] \in Seq(S) /\ Len([s EXCEPT ![Len(s)] = x]) = Len(s)
           /\ [s EXCEPT ![Len(s)] = x][Len(s)] = x
           /\ \A i \in 1 .. Len(s) - 1 : [s EXCEPT ![Len(s)] = x][i] = s[i]
<1> DEFINE d == [s EXCEPT ![Len(s)] = x]
<1>1. DOMAIN s = 1 .. Len(s) /\ \A i \in 1 .. Len(s) : s[i] \in S
  BY SeqElements
<1>2. /\ DOMAIN d = 1 .. Len(s) /\ d[Len(s)] = x
      /\ \A i \in 1 .. Len(s) : i # Len(s) => d[i] = s[i]
      /\ d = [i \in 1 .. Len(s) |-> d[i]]
  BY <1>1, LastPlace
<1> HIDE DEF d
<1>3. \A i \in 1 .. Len(s) : d[i] \in S
  BY <1>1, <1>2
<1>4. d \in Seq(S) /\ Len(d) = Len(s)
  BY <1>2, <1>3, LastPlace
<1> QED
  BY <1>2, <1>4, LastPlace DEF d

\* The last of a ring stays the last when the first leaves, but if it is the first.
LEMMA TailLast ==
    ASSUME NEW S, NEW s \in Seq(S), s # <<>>
    PROVE  /\ Len(Tail(s)) = Len(s) - 1
           /\ Len(s) = 1 => Tail(s) = <<>>
           /\ Len(s) # 1 => Tail(s) # <<>> /\ Tail(s)[Len(Tail(s))] = s[Len(s)]
<1>1. Len(s) \in Nat /\ Len(s) > 0 /\ Tail(s) \in Seq(S) /\ Len(Tail(s)) = Len(s) - 1
  OBVIOUS
<1>2. ASSUME Len(s) = 1 PROVE Tail(s) = <<>>
  <2>1. Len(Tail(s)) = 0 /\ Tail(s) \in Seq(S)
    BY <1>1, <1>2
  <2> QED BY <2>1, SeqElements
<1>3. ASSUME Len(s) # 1
      PROVE  Tail(s) # <<>> /\ Tail(s)[Len(Tail(s))] = s[Len(s)]
  <2>1. Len(Tail(s)) # 0
    BY <1>1, <1>3
  <2>2. Tail(s)[Len(s) - 1] = s[Len(s)]
    BY <1>1, <1>3
  <2>3. Tail(s) # <<>>
    BY <1>1, <2>1, SeqElements
  <2> QED BY <1>1, <2>2, <2>3
<1> QED
  BY <1>1, <1>2, <1>3

\* The first of a ring and the others, as a ring is cut
LEMMA FirstLemma ==
    ASSUME NEW S, NEW s \in Seq(S), s # <<>>
    PROVE  SubSeq(s, 1, 1) = <<Head(s)>> /\ SubSeq(s, 2, Len(s)) = Tail(s)
<1> DEFINE a == SubSeq(s, 1, 1)
           b == SubSeq(s, 2, Len(s))
<1>1. Len(s) \in Nat /\ Len(s) > 0 /\ Head(s) = s[1]
  OBVIOUS
<1>2. a \in Seq(S) /\ Len(a) = 1 /\ a[1] = s[1]
  BY <1>1
<1>3. /\ b \in Seq(S) /\ Len(b) = Len(s) - 1
      /\ \A i \in 1 .. Len(s) - 1 : b[i] = s[i + 1]
  <2>1. b \in Seq(S)
    BY <1>1
  <2>2. Len(b) = Len(s) - 1
    <3>1. PICK n \in Nat : n = Len(s) /\ n >= 1
      BY <1>1
    <3>2. CASE n >= 2
      BY <3>1, <3>2
    <3>3. CASE n = 1
      BY <3>1, <3>3
    <3> QED BY <3>1, <3>2, <3>3
  <2>3. ASSUME NEW i \in 1 .. Len(s) - 1 PROVE b[i] = s[i + 1]
    BY <1>1
  <2> QED BY <2>1, <2>2, <2>3
<1>4. /\ Tail(s) \in Seq(S) /\ Len(Tail(s)) = Len(s) - 1
      /\ \A i \in 1 .. Len(s) - 1 : Tail(s)[i] = s[i + 1]
  BY <1>1
<1> HIDE DEF a, b
<1>5. a = <<Head(s)>>
  BY <1>1, <1>2
<1>6. b = Tail(s)
  <2> DEFINE r == Tail(s)
  <2>1. r \in Seq(S) /\ Len(r) = Len(b) /\ \A i \in 1 .. Len(b) : r[i] = b[i]
    BY <1>3, <1>4
  <2> HIDE DEF r
  <2>2. r = b
    BY <1>3, <2>1
  <2> QED BY <2>2 DEF r
<1> QED
  BY <1>5, <1>6 DEF a, b

LEMMA TailElements ==
    ASSUME NEW S, NEW s \in Seq(S), s # <<>>
    PROVE  Tail(s) = [i \in 1 .. Len(s) - 1 |-> s[i + 1]]
<1> DEFINE r == Tail(s)
<1>1. r \in Seq(S) /\ DOMAIN r = 1 .. Len(s) - 1 /\ \A i \in 1 .. Len(s) - 1 : r[i] = s[i + 1]
  OBVIOUS
<1> HIDE DEF r
<1>2. r = [i \in DOMAIN r |-> r[i]]
  BY <1>1
<1>3. r = [i \in 1 .. Len(s) - 1 |-> s[i + 1]]
  BY <1>1, <1>2
<1> QED
  BY <1>3 DEF r

\* The empty ring
LEMMA EmptyLemma ==
    ASSUME NEW S
    PROVE  <<>> \in Seq(S) /\ Range(<<>>) = {} /\ IsInjective(<<>>)
BY DEF Range, IsInjective
=============================================================================
