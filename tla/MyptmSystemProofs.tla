--------------------------- MODULE MyptmSystemProofs ---------------------------
(***************************************************************************)
(* The ticker first, for any number of timers, any width of the words, any *)
(* delays and any depth of nesting: the list of differences keeps the time *)
(* of every timer.  Whatever is started, removed and restarted, in         *)
(* callbacks of nested calls too, the sums of the ticks change as          *)
(* MyptmAlarm says.  These proofs use TimerAssumption alone.               *)
(*                                                                         *)
(* A sum of ticks is a recursive function.  Its value is found by giving   *)
(* the function that satisfies the recursion: a lemma shows by induction   *)
(* that there is one, and another that no two differ.  What an operation   *)
(* does to the sums is then proved by writing down the sums afterwards.    *)
(*                                                                         *)
(* Then the program in time, which has SystemAssumption too: what a ring   *)
(* of differences says of its timers is what the clock says, so main       *)
(* sleeps over nothing and fires each timer in time.  A step of the        *)
(* program is read as a step of MyptmAlarm, where each timer has a time of *)
(* its own.                                                                *)
(***************************************************************************)
EXTENDS MyptmSystem, MyptmListsProofs

\* f has the sums of s.
Sums(s, f) == f[0] = 0 /\ \A i \in 1 .. Len(s) : f[i] = f[i - 1] + s[i]

\* A function that has the sums is the one that SumTo chooses.
LEMMA SummedIs ==
    ASSUME NEW s \in Seq(Int), NEW f \in [0 .. Len(s) -> Int], Sums(s, f)
    PROVE  \A n \in 0 .. Len(s) : SumTo(s, n) = f[n]
<1> DEFINE Step(g) == [i \in 0 .. Len(s) |-> IF i = 0 THEN 0 ELSE g[i - 1] + s[i]]
           sum == CHOOSE g : g = Step(g)
<1>1. Len(s) \in Nat /\ \A i \in 1 .. Len(s) : s[i] \in Int
  OBVIOUS
<1>2. f = Step(f)
  <2>1. \A i \in 0 .. Len(s) : f[i] = Step(f)[i]
    BY <1>1 DEF Sums
  <2> QED BY <2>1
<1>3. sum = Step(sum)
  BY <1>2
<1>4. \A n \in 0 .. Len(s) : SumTo(s, n) = sum[n]
  BY DEF SumTo
<1> HIDE DEF sum
<1>5. \A n \in 0 .. Len(s) : sum[n] = f[n]
  <2> DEFINE Differ == {n \in 0 .. Len(s) : sum[n] # f[n]}
  <2> SUFFICES ASSUME Differ # {} PROVE FALSE
    OBVIOUS
  <2>1. PICK n \in Differ : \A m \in Differ : n <= m
    <3>1. Differ \subseteq Nat
      OBVIOUS
    <3> HIDE DEF Differ
    <3> QED BY <3>1, LeastElement
  <2>2. n \in 0 .. Len(s) /\ n # 0
    BY <1>2, <1>3, <2>1
  <2>3. n - 1 \in 0 .. Len(s) /\ ~(n <= n - 1)
    BY <1>1, <2>2
  <2>4. sum[n - 1] = f[n - 1]
    BY <2>1, <2>3
  <2>5. sum[n] = f[n]
    BY <1>2, <1>3, <2>2, <2>4
  <2> QED BY <2>1, <2>5
<1> QED BY <1>4, <1>5

\* Every sequence of integers has sums.
LEMMA SumsExist ==
    ASSUME NEW s \in Seq(Int)
    PROVE  \E f \in [0 .. Len(s) -> Int] : Sums(s, f)
<1> DEFINE Upto(n, f) == f[0] = 0 /\ \A i \in 1 .. n : f[i] = f[i - 1] + s[i]
           Has(n) == \E f \in [0 .. n -> Int] : Upto(n, f)
           T == {n \in Nat : n <= Len(s) => Has(n)}
<1>1. Len(s) \in Nat /\ \A i \in 1 .. Len(s) : s[i] \in Int
  OBVIOUS
<1>2. Has(0)
  <2>1. [i \in 0 .. 0 |-> 0] \in [0 .. 0 -> Int] /\ Upto(0, [i \in 0 .. 0 |-> 0])
    OBVIOUS
  <2> QED BY <2>1
<1>3. ASSUME NEW n \in Nat, n + 1 <= Len(s), Has(n) PROVE Has(n + 1)
  <2>1. PICK f \in [0 .. n -> Int] : Upto(n, f)
    BY <1>3
  <2> DEFINE g == [i \in 0 .. n + 1 |-> IF i = n + 1 THEN f[n] + s[n + 1] ELSE f[i]]
  <2>2. g \in [0 .. n + 1 -> Int]
    BY <1>1, <1>3
  <2>3. g[0] = 0
    BY <2>1
  <2>4. ASSUME NEW i \in 1 .. n + 1 PROVE g[i] = g[i - 1] + s[i]
    <3>1. CASE i = n + 1
      BY <3>1
    <3>2. CASE i # n + 1
      <4>1. i \in 1 .. n /\ i - 1 \in 0 .. n /\ i - 1 # n + 1
        BY <3>2
      <4> QED BY <2>1, <4>1
    <3> QED BY <3>1, <3>2
  <2>5. Upto(n + 1, g)
    BY <2>3, <2>4
  <2> QED BY <2>2, <2>5
<1>4. Has(Len(s))
  <2> HIDE DEF Has
  <2>1. 0 \in T
    BY <1>2
  <2>2. ASSUME NEW n \in Nat, n \in T PROVE n + 1 \in T
    BY <1>1, <1>3, <2>2
  <2> HIDE DEF T
  <2>3. Len(s) \in T
    BY <1>1, <2>1, <2>2, InductionOnNat
  <2> QED BY <2>3, <1>1 DEF T
<1> QED BY <1>1, <1>4 DEF Sums

\* So the sums satisfy the recursion.
LEMMA SumToIs ==
    ASSUME NEW s \in Seq(Int)
    PROVE  /\ SumTo(s, 0) = 0
           /\ \A i \in 1 .. Len(s) : SumTo(s, i) = SumTo(s, i - 1) + s[i]
           /\ \A i \in 0 .. Len(s) : SumTo(s, i) \in Int
<1>1. PICK f \in [0 .. Len(s) -> Int] : Sums(s, f)
  BY SumsExist
<1>2. \A i \in 0 .. Len(s) : SumTo(s, i) = f[i]
  BY <1>1, SummedIs
<1>3. /\ Len(s) \in Nat /\ 0 \in 0 .. Len(s)
      /\ \A i \in 1 .. Len(s) : i - 1 \in 0 .. Len(s) /\ i \in 0 .. Len(s)
  OBVIOUS
<1>4. SumTo(s, 0) = 0 /\ \A i \in 0 .. Len(s) : SumTo(s, i) \in Int
  BY <1>1, <1>2, <1>3 DEF Sums
<1>5. ASSUME NEW i \in 1 .. Len(s) PROVE SumTo(s, i) = SumTo(s, i - 1) + s[i]
  <2>1. f[i] = f[i - 1] + s[i]
    BY <1>1 DEF Sums
  <2> QED BY <1>2, <1>3, <2>1
<1> QED BY <1>4, <1>5

\* A sum depends on the numbers it adds and on no others,
LEMMA SumsAgree ==
    ASSUME NEW s \in Seq(Int), NEW t \in Seq(Int), NEW n \in Nat, n <= Len(s), n <= Len(t),
           \A i \in 1 .. n : s[i] = t[i]
    PROVE  SumTo(s, n) = SumTo(t, n)
<1> DEFINE T == {m \in Nat : m <= n => SumTo(s, m) = SumTo(t, m)}
<1>1. 0 \in T
  BY SumToIs
<1>2. ASSUME NEW m \in Nat, m \in T PROVE m + 1 \in T
  <2> SUFFICES ASSUME m + 1 <= n PROVE SumTo(s, m + 1) = SumTo(t, m + 1)
    OBVIOUS
  <2>1. /\ Len(s) \in Nat /\ Len(t) \in Nat /\ m <= n /\ m + 1 \in 1 .. n /\ (m + 1) - 1 = m
        /\ m + 1 \in 1 .. Len(s) /\ m + 1 \in 1 .. Len(t)
    OBVIOUS
  <2>2. SumTo(s, m + 1) = SumTo(s, m) + s[m + 1] /\ SumTo(t, m + 1) = SumTo(t, m) + t[m + 1]
    BY <2>1, SumToIs
  <2> QED BY <1>2, <2>1, <2>2
<1>3. Nat \subseteq T
  <2> HIDE DEF T
  <2> QED BY <1>1, <1>2, InductionOnNat
<1> QED BY <1>3

\* and is no less than zero when they are not.
LEMMA SumsOfNats ==
    ASSUME NEW s \in Seq(Int), \A i \in 1 .. Len(s) : s[i] \in Nat
    PROVE  \A n \in 0 .. Len(s) : SumTo(s, n) \in Nat
<1> DEFINE T == {n \in Nat : n <= Len(s) => SumTo(s, n) \in Nat}
<1>1. 0 \in T
  BY SumToIs
<1>2. ASSUME NEW n \in Nat, n \in T PROVE n + 1 \in T
  <2> SUFFICES ASSUME n + 1 <= Len(s) PROVE SumTo(s, n + 1) \in Nat
    OBVIOUS
  <2>1. Len(s) \in Nat /\ n <= Len(s) /\ n + 1 \in 1 .. Len(s) /\ (n + 1) - 1 = n
    OBVIOUS
  <2>2. SumTo(s, n + 1) = SumTo(s, n) + s[n + 1]
    BY <2>1, SumToIs
  <2> QED BY <1>2, <2>1, <2>2
<1>3. Nat \subseteq T
  <2> HIDE DEF T
  <2> QED BY <1>1, <1>2, InductionOnNat
<1> QED BY <1>3

-----------------------------------------------------------------------------
(***************************************************************************)
(* The offsets of a ring.                                                  *)
(***************************************************************************)

\* The entries of a ring, each timer once.
Once(r) == \A i, j \in DOMAIN r : r[i].timer = r[j].timer => i = j

\* The state of a ring that TypeOK promises.
GoodRing(r) ==
    /\ r \in Seq(Entry) /\ Once(r)
    /\ \A i \in DOMAIN r : Offset(r, i) \in Word

LEMMA EntryTicks ==
    ASSUME NEW r \in Seq(Entry)
    PROVE  /\ [j \in DOMAIN r |-> r[j].tick] \in Seq(Int)
           /\ Len([j \in DOMAIN r |-> r[j].tick]) = Len(r)
           /\ Len(r) \in Nat /\ DOMAIN r = 1 .. Len(r)
           /\ \A i \in 1 .. Len(r) : r[i] \in Entry /\ r[i].tick \in Nat /\ r[i].tick \in Word
                                     /\ r[i].timer \in Timer
<1>1. Len(r) \in Nat /\ DOMAIN r = 1 .. Len(r)
  OBVIOUS
<1>2. \A i \in 1 .. Len(r) : r[i] \in Entry
  OBVIOUS
<1>3. \A e \in Entry : e.tick \in Nat /\ e.tick \in Word /\ e.timer \in Timer
  BY TimerAssumption DEF Entry, Word, TimerAssumption
<1>4. \A i \in 1 .. Len(r) : r[i].tick \in Int
  BY <1>2, <1>3
<1> DEFINE t == [j \in 1 .. Len(r) |-> r[j].tick]
<1>5. t \in Seq(Int) /\ Len(t) = Len(r)
  BY <1>1, <1>4
<1> QED BY <1>1, <1>2, <1>3, <1>5

LEMMA OffsetsAre ==
    ASSUME NEW r \in Seq(Entry), NEW g \in [0 .. Len(r) -> Int],
           g[0] = 0, \A i \in 1 .. Len(r) : g[i] = g[i - 1] + r[i].tick
    PROVE  \A i \in 0 .. Len(r) : Offset(r, i) = g[i]
<1> DEFINE t == [j \in DOMAIN r |-> r[j].tick]
<1>1. /\ t \in Seq(Int) /\ Len(t) = Len(r)
      /\ \A i \in 1 .. Len(r) : t[i] = r[i].tick
  BY EntryTicks
<1>2. \A i \in 0 .. Len(r) : Offset(r, i) = SumTo(t, i)
  BY DEF Offset
<1> HIDE DEF t
<1>3. Sums(t, g)
  BY <1>1 DEF Sums
<1> QED BY <1>1, <1>2, <1>3, SummedIs

LEMMA OffsetIs ==
    ASSUME NEW r \in Seq(Entry)
    PROVE  /\ Offset(r, 0) = 0
           /\ \A i \in 1 .. Len(r) : Offset(r, i) = Offset(r, i - 1) + r[i].tick
           /\ \A i \in 0 .. Len(r) : Offset(r, i) \in Int
<1> DEFINE t == [j \in DOMAIN r |-> r[j].tick]
<1>1. /\ t \in Seq(Int) /\ Len(t) = Len(r)
      /\ \A i \in 1 .. Len(r) : t[i] = r[i].tick
  BY EntryTicks
<1>2. \A i : Offset(r, i) = SumTo(t, i)
  BY DEF Offset
<1> HIDE DEF t
<1> QED BY <1>1, <1>2, SumToIs

\* A timer that is later in the ring is not due earlier.
LEMMA OffsetsGrow ==
    ASSUME NEW r \in Seq(Entry)
    PROVE  \A j \in 0 .. Len(r) : \A i \in 0 .. j : Offset(r, i) <= Offset(r, j)
<1> DEFINE T == {j \in Nat : j <= Len(r) => \A i \in 0 .. j : Offset(r, i) <= Offset(r, j)}
<1>1. /\ Len(r) \in Nat /\ \A i \in 1 .. Len(r) : r[i].tick \in Nat
      /\ \A i \in 1 .. Len(r) : Offset(r, i) = Offset(r, i - 1) + r[i].tick
      /\ \A i \in 0 .. Len(r) : Offset(r, i) \in Int
  BY EntryTicks, OffsetIs
<1>2. 0 \in T
  BY <1>1
<1>3. ASSUME NEW j \in Nat, j \in T PROVE j + 1 \in T
  <2> SUFFICES ASSUME j + 1 <= Len(r), NEW i \in 0 .. j + 1
               PROVE  Offset(r, i) <= Offset(r, j + 1)
    OBVIOUS
  <2>1. j + 1 \in 1 .. Len(r) /\ (j + 1) - 1 = j /\ j \in 0 .. Len(r) /\ j <= Len(r)
    BY <1>1
  <2>2. Offset(r, j + 1) = Offset(r, j) + r[j + 1].tick /\ r[j + 1].tick \in Nat
    BY <1>1, <2>1
  <2>3. CASE i = j + 1
    BY <1>1, <2>1, <2>3
  <2>4. CASE i # j + 1
    <3>1. i \in 0 .. j
      BY <2>4
    <3>2. Offset(r, i) <= Offset(r, j)
      BY <1>3, <2>1, <3>1
    <3>3. Offset(r, i) \in Int /\ Offset(r, j) \in Int
      BY <1>1, <2>1, <3>1
    <3> QED BY <2>2, <3>2, <3>3
  <2> QED BY <2>3, <2>4
<1>4. Nat \subseteq T
  <2> HIDE DEF T
  <2> QED BY <1>2, <1>3, InductionOnNat
<1> QED BY <1>1, <1>4

\* What GoodRing says, in sums.
LEMMA RingFacts ==
    ASSUME NEW r, GoodRing(r)
    PROVE  /\ r \in Seq(Entry) /\ Len(r) \in Nat /\ DOMAIN r = 1 .. Len(r)
           /\ \A i \in 1 .. Len(r) :
                 /\ r[i] \in Entry /\ r[i].timer \in Timer /\ r[i].tick \in Nat
                 /\ r[i].tick < Modulus
                 /\ Offset(r, i) \in Nat /\ Offset(r, i) < Modulus
                 /\ Offset(r, i) = Offset(r, i - 1) + r[i].tick
           /\ Offset(r, 0) = 0
           /\ \A i \in 0 .. Len(r) : Offset(r, i) \in Nat
           /\ Modulus \in Nat /\ Modulus > 0
<1>1. Modulus \in Nat /\ Modulus > 0
  BY TimerAssumption DEF TimerAssumption
<1>2. r \in Seq(Entry) /\ \A i \in DOMAIN r : Offset(r, i) \in Word
  BY DEF GoodRing
<1>3. \A w \in Word : w \in Nat /\ w < Modulus
  BY <1>1 DEF Word
<1>4. /\ Len(r) \in Nat /\ DOMAIN r = 1 .. Len(r) /\ Offset(r, 0) = 0
      /\ \A i \in 1 .. Len(r) : Offset(r, i) = Offset(r, i - 1) + r[i].tick
      /\ \A i \in 1 .. Len(r) : /\ r[i] \in Entry /\ r[i].timer \in Timer
                                /\ r[i].tick \in Nat /\ r[i].tick \in Word
  BY <1>2, EntryTicks, OffsetIs
<1>5. \A i \in 1 .. Len(r) : /\ Offset(r, i) \in Nat /\ Offset(r, i) < Modulus
                             /\ r[i].tick < Modulus
  BY <1>2, <1>3, <1>4
<1>6. ASSUME NEW i \in 0 .. Len(r) PROVE Offset(r, i) \in Nat
  <2>1. i = 0 \/ i \in 1 .. Len(r)
    BY <1>4
  <2> QED BY <1>4, <1>5, <2>1
<1> QED BY <1>1, <1>2, <1>4, <1>5, <1>6

\* A word is not changed by the width of words.
LEMMA WordSame == ASSUME NEW m \in Nat, m > 0, NEW v \in Nat, v < m PROVE v % m = v
OBVIOUS

\* The time of a linked timer is the offset of its entry.
LEMMA TimesAre ==
    ASSUME NEW r \in Seq(Entry), Once(r)
    PROVE  /\ \A i \in 1 .. Len(r) : Times(r)[r[i].timer] = Offset(r, i)
           /\ \A x \in Timer : (\A i \in 1 .. Len(r) : r[i].timer # x) => Times(r)[x] = Off
<1>1. DOMAIN r = 1 .. Len(r) /\ \A i \in 1 .. Len(r) : r[i].timer \in Timer
  BY EntryTicks
<1>2. ASSUME NEW i \in 1 .. Len(r) PROVE Times(r)[r[i].timer] = Offset(r, i)
  <2>1. IndexOf(r, r[i].timer) = i
    BY <1>1 DEF Once, IndexOf
  <2>2. r[i] \in Range(r)
    BY <1>1 DEF Range
  <2> QED BY <1>1, <2>1, <2>2 DEF Times
<1>3. ASSUME NEW x \in Timer, \A i \in 1 .. Len(r) : r[i].timer # x PROVE Times(r)[x] = Off
  <2>1. \A e \in Range(r) : e.timer # x
    BY <1>1, <1>3 DEF Range
  <2> QED BY <2>1 DEF Times
<1> QED BY <1>2, <1>3

\* The timers of a ring; the others have no time.
TimersIn(r) == {e.timer : e \in Range(r)}

LEMMA OffIs ==
    ASSUME NEW r, GoodRing(r)
    PROVE  \A x \in Timer : Times(r)[x] = Off <=> x \notin TimersIn(r)
<1>1. /\ r \in Seq(Entry) /\ Once(r) /\ DOMAIN r = 1 .. Len(r)
      /\ \A i \in 1 .. Len(r) : Offset(r, i) \in Word /\ Offset(r, i) # Off
  BY RingFacts, TimerAssumption DEF GoodRing, TimerAssumption
<1>2. \A x : x \in TimersIn(r) <=> \E i \in 1 .. Len(r) : r[i].timer = x
  BY <1>1 DEF TimersIn, Range
<1> QED BY <1>1, <1>2, TimesAre

\* A ring is known by its offsets.
LEMMA TimesFrom ==
    ASSUME NEW r \in Seq(Entry), Once(r), NEW T, T = [x \in Timer |-> T[x]],
           \A i \in 1 .. Len(r) : T[r[i].timer] = Offset(r, i),
           \A x \in Timer : (\A i \in 1 .. Len(r) : r[i].timer # x) => T[x] = Off
    PROVE  Times(r) = T
<1>1. \A x \in Timer : Times(r)[x] = T[x]
  BY TimesAre
<1>2. Times(r) = [x \in Timer |-> Times(r)[x]]
  BY DEF Times
<1> QED BY <1>1, <1>2

-----------------------------------------------------------------------------
(***************************************************************************)
(* The operations on the ring.                                             *)
(***************************************************************************)

\* The successor of the i-th entry has its tick too.
Bumped(r, i) ==
    [j \in DOMAIN r |->
        IF j = i + 1 THEN [r[j] EXCEPT !.tick = (@ + r[i].tick) % Modulus] ELSE r[j]]

\* Where the j-th entry was before the i-th was removed.
Was(i, j) == IF j < i THEN j ELSE j + 1

\* q is r without its i-th entry, whose tick its successor has too.
LacksEntry(q, r, i) ==
    /\ q \in Seq(Entry) /\ Len(q) = Len(r) - 1 /\ DOMAIN q = 1 .. Len(r) - 1
    /\ \A j \in 1 .. Len(r) - 1 :
          /\ Was(i, j) \in 1 .. Len(r)
          /\ q[j].timer = r[Was(i, j)].timer
          /\ q[j].tick = IF j = i THEN r[i].tick + r[i + 1].tick ELSE r[Was(i, j)].tick

LEMMA RemovedEntries ==
    ASSUME NEW r, GoodRing(r), NEW i \in 1 .. Len(r)
    PROVE  LacksEntry(RemoveAt(Bumped(r, i), i), r, i)
<1> DEFINE m == Bumped(r, i)
<1> SUFFICES ASSUME NEW q, q = RemoveAt(m, i) PROVE LacksEntry(q, r, i)
  OBVIOUS
<1>1. /\ r \in Seq(Entry) /\ Len(r) \in Nat /\ DOMAIN r = 1 .. Len(r)
      /\ Modulus \in Nat /\ Modulus > 0
  BY RingFacts
<1>2. ASSUME NEW j \in 1 .. Len(r), j = i + 1
      PROVE  /\ (r[j].tick + r[i].tick) % Modulus = r[i].tick + r[j].tick
             /\ r[i].tick + r[j].tick \in Word
  <2>1. /\ Offset(r, i) = Offset(r, i - 1) + r[i].tick /\ j - 1 = i
        /\ Offset(r, j) = Offset(r, i) + r[j].tick
        /\ Offset(r, j) < Modulus /\ Offset(r, i - 1) \in Nat
        /\ Offset(r, i) \in Nat /\ Offset(r, j) \in Nat
        /\ r[i].tick \in Nat /\ r[j].tick \in Nat
    <3>1. i - 1 \in 0 .. Len(r) /\ i \in 1 .. Len(r) /\ j - 1 = i
      BY <1>2
    <3> QED BY <3>1, RingFacts
  <2>2. r[j].tick + r[i].tick \in Nat /\ r[j].tick + r[i].tick < Modulus
    BY <1>1, <2>1
  <2>3. (r[j].tick + r[i].tick) % Modulus = r[j].tick + r[i].tick
    BY <1>1, <2>2, WordSame
  <2>4. r[j].tick + r[i].tick = r[i].tick + r[j].tick
    BY <2>1
  <2>5. r[j].tick + r[i].tick \in Word
    BY <1>1, <2>2 DEF Word
  <2> QED BY <2>3, <2>4, <2>5
<1>3. \A j \in 1 .. Len(r) : r[j] \in Entry
  BY RingFacts
<1>4. ASSUME NEW j \in 1 .. Len(r)
      PROVE  /\ m[j] \in Entry /\ m[j].timer = r[j].timer
             /\ m[j].tick = IF j = i + 1 THEN r[i].tick + r[j].tick ELSE r[j].tick
  <2>1. CASE j = i + 1
    <3>1. m[j] = [r[j] EXCEPT !.tick = r[i].tick + r[j].tick]
      BY <1>1, <1>2, <2>1 DEF Bumped
    <3> QED BY <1>2, <1>3, <2>1, <3>1 DEF Entry
  <2>2. CASE j # i + 1
    BY <1>1, <1>3, <2>2 DEF Bumped
  <2> QED BY <2>1, <2>2
<1>5. m \in Seq(Entry) /\ Len(m) = Len(r) /\ DOMAIN m = 1 .. Len(r)
  <2>1. m = [j \in 1 .. Len(r) |-> m[j]]
    BY <1>1 DEF Bumped
  <2> QED BY <1>1, <1>4, <2>1
<1> HIDE DEF m
<1>6. /\ q \in Seq(Entry) /\ Len(q) = Len(r) - 1
      /\ \A j \in 1 .. Len(r) - 1 : q[j] = IF j < i THEN m[j] ELSE m[j + 1]
  <2>1. i \in DOMAIN m /\ m \in Seq(Entry) /\ q = RemoveAt(m, i)
    BY <1>5 DEF m
  <2> QED BY <1>5, <2>1, RemoveAtElements
<1>7. ASSUME NEW j \in 1 .. Len(r) - 1
      PROVE  /\ Was(i, j) \in 1 .. Len(r)
             /\ q[j].timer = r[Was(i, j)].timer
             /\ q[j].tick = IF j = i THEN r[i].tick + r[i + 1].tick ELSE r[Was(i, j)].tick
  <2>1. j \in 1 .. Len(r) /\ j + 1 \in 1 .. Len(r) /\ (j + 1 = i + 1 <=> j = i)
    BY <1>1
  <2>2. CASE j < i
    <3>1. q[j] = m[j] /\ j # i /\ j # i + 1 /\ Was(i, j) = j
      BY <1>1, <1>6, <2>1, <2>2 DEF Was
    <3> QED BY <1>4, <2>1, <3>1
  <2>3. CASE ~(j < i)
    <3>1. q[j] = m[j + 1] /\ Was(i, j) = j + 1
      BY <1>6, <2>1, <2>3 DEF Was
    <3>2. /\ m[j + 1].timer = r[j + 1].timer
          /\ m[j + 1].tick = IF j = i THEN r[i].tick + r[j + 1].tick ELSE r[j + 1].tick
      BY <1>4, <2>1
    <3> QED BY <2>1, <3>1, <3>2
  <2> QED BY <2>2, <2>3
<1>8. DOMAIN q = 1 .. Len(r) - 1
  BY <1>6
<1> QED BY <1>6, <1>7, <1>8 DEF LacksEntry

\* When an entry leaves its tick to its successor, its timer has no time any more and
\* the time of every other timer is what it was.
LEMMA LackingTimes ==
    ASSUME NEW r, GoodRing(r), NEW i \in 1 .. Len(r), NEW x, x = r[i].timer,
           NEW q, LacksEntry(q, r, i)
    PROVE  /\ GoodRing(q) /\ \A e \in Range(q) : e.timer # x
           /\ Times(q) = [Times(r) EXCEPT ![x] = Off]
<1>1. /\ r \in Seq(Entry) /\ Len(r) \in Nat /\ DOMAIN r = 1 .. Len(r) /\ Once(r)
  BY RingFacts DEF GoodRing
<1>2. Times(r) = [y \in Timer |-> Times(r)[y]]
  BY DEF Times
<1>3. i \in 1 .. Len(r) /\ r[i].timer = x
  OBVIOUS
<1>4. /\ q \in Seq(Entry) /\ Len(q) = Len(r) - 1 /\ DOMAIN q = 1 .. Len(r) - 1
      /\ \A j \in 1 .. Len(r) - 1 :
            /\ Was(i, j) \in 1 .. Len(r)
            /\ q[j].timer = r[Was(i, j)].timer
            /\ q[j].tick = IF j = i THEN r[i].tick + r[i + 1].tick ELSE r[Was(i, j)].tick
  BY DEF LacksEntry
<1> DEFINE g == [j \in 0 .. Len(r) - 1 |-> IF j < i THEN Offset(r, j) ELSE Offset(r, j + 1)]
<1>5. Once(q)
  <2> SUFFICES ASSUME NEW j \in 1 .. Len(r) - 1, NEW k \in 1 .. Len(r) - 1,
                      q[j].timer = q[k].timer
               PROVE  j = k
    BY <1>4 DEF Once
  <2>1. Was(i, j) \in 1 .. Len(r) /\ Was(i, k) \in 1 .. Len(r)
    BY <1>1, <1>3 DEF Was
  <2>2. Was(i, j) = Was(i, k)
    BY <1>1, <1>4, <2>1 DEF Once
  <2> QED BY <1>1, <1>3, <2>2 DEF Was
<1>6. /\ g \in [0 .. Len(q) -> Int] /\ g[0] = 0
      /\ \A j \in 1 .. Len(q) : g[j] = Offset(r, Was(i, j)) /\ Was(i, j) \in 1 .. Len(r)
  <2>1. \A j \in 0 .. Len(r) : Offset(r, j) \in Int
    BY RingFacts
  <2>2. \A j \in 0 .. Len(r) - 1 : j \in 0 .. Len(r) /\ j + 1 \in 0 .. Len(r)
    BY <1>1
  <2>3. 0 < i /\ 0 \in 0 .. Len(r) - 1 /\ 0 .. Len(q) = 0 .. Len(r) - 1
    BY <1>1, <1>3, <1>4
  <2>4. g[0] = 0
    BY <2>3, RingFacts
  <2>5. \A j \in 1 .. Len(q) : g[j] = Offset(r, Was(i, j)) /\ Was(i, j) \in 1 .. Len(r)
    BY <1>1, <1>3, <1>4 DEF Was
  <2> QED BY <2>1, <2>2, <2>3, <2>4, <2>5
<1>7. ASSUME NEW j \in 1 .. Len(q) PROVE g[j] = g[j - 1] + q[j].tick
  <2>1. j \in 1 .. Len(r) - 1 /\ j - 1 \in 0 .. Len(r) - 1 /\ (j + 1) - 1 = j
        /\ j \in 1 .. Len(r) /\ j + 1 \in 1 .. Len(r) /\ (j - 1) + 1 = j
    BY <1>1, <1>4
  <2>2. /\ Offset(r, j) = Offset(r, j - 1) + r[j].tick
        /\ Offset(r, j + 1) = Offset(r, j) + r[j + 1].tick
        /\ Offset(r, j) \in Nat /\ Offset(r, j + 1) \in Nat /\ Offset(r, j - 1) \in Nat
        /\ r[j].tick \in Nat /\ r[j + 1].tick \in Nat
    <3>1. j - 1 \in 0 .. Len(r)
      BY <2>1
    <3> QED BY <2>1, <3>1, RingFacts
  <2>3. CASE j < i
    <3>1. g[j] = Offset(r, j) /\ g[j - 1] = Offset(r, j - 1) /\ q[j].tick = r[j].tick
      BY <1>3, <1>4, <2>1, <2>3 DEF Was
    <3> QED BY <2>2, <3>1
  <2>4. CASE j = i
    <3>1. q[j].tick = r[j].tick + r[j + 1].tick
      BY <1>4, <2>1, <2>4
    <3>2. g[j] = Offset(r, j + 1)
      BY <2>1, <2>4
    <3>3. g[j - 1] = Offset(r, j - 1)
      BY <2>1, <2>4
    <3> QED BY <2>2, <3>1, <3>2, <3>3
  <2>5. CASE j > i
    <3>1. ~(j < i) /\ ~(j - 1 < i) /\ j # i
      BY <1>3, <2>1, <2>5
    <3>2. q[j].tick = r[j + 1].tick
      BY <1>4, <2>1, <3>1 DEF Was
    <3>3. g[j] = Offset(r, j + 1)
      BY <2>1, <3>1
    <3>4. g[j - 1] = Offset(r, j)
      <4>1. g[j - 1] = Offset(r, (j - 1) + 1)
        BY <2>1, <3>1
      <4> QED BY <2>1, <4>1
    <3> QED BY <2>2, <3>2, <3>3, <3>4
  <2> QED BY <1>3, <2>1, <2>3, <2>4, <2>5
<1>8. \A j \in 1 .. Len(q) : Offset(q, j) = Offset(r, Was(i, j)) /\ Was(i, j) \in 1 .. Len(r)
  <2> HIDE DEF g
  <2>1. \A j \in 0 .. Len(q) : Offset(q, j) = g[j]
    BY <1>4, <1>6, <1>7, OffsetsAre
  <2>2. \A j \in 1 .. Len(q) : j \in 0 .. Len(q)
    BY <1>4
  <2> QED BY <1>6, <2>1, <2>2
<1> HIDE DEF g
<1>9. GoodRing(q)
  <2>1. \A k \in 1 .. Len(r) : Offset(r, k) \in Word
    BY <1>1 DEF GoodRing
  <2>2. \A j \in 1 .. Len(q) : Offset(q, j) \in Word
    BY <1>8, <2>1
  <2> QED BY <1>4, <1>5, <2>2 DEF GoodRing
<1>10. \A j \in 1 .. Len(q) : q[j].timer # x
  <2> SUFFICES ASSUME NEW j \in 1 .. Len(q), q[j].timer = x PROVE FALSE
    OBVIOUS
  <2>1. Was(i, j) \in 1 .. Len(r) /\ r[Was(i, j)].timer = r[i].timer
    BY <1>3, <1>4, <1>8
  <2>2. Was(i, j) = i
    BY <1>1, <1>3, <2>1 DEF Once
  <2> QED BY <1>3, <1>4, <2>2 DEF Was
<1> DEFINE T == [Times(r) EXCEPT ![x] = Off]
<1>11. \A j \in 1 .. Len(q) : T[q[j].timer] = Offset(q, j)
  <2> SUFFICES ASSUME NEW j \in 1 .. Len(q) PROVE T[q[j].timer] = Offset(q, j)
    OBVIOUS
  <2>1. q[j].timer = r[Was(i, j)].timer /\ Was(i, j) \in 1 .. Len(r) /\ q[j].timer # x
    BY <1>4, <1>8, <1>10
  <2>2. Times(r)[q[j].timer] = Offset(r, Was(i, j)) /\ q[j].timer \in Timer
    BY <1>1, <2>1, TimesAre, EntryTicks
  <2> QED BY <1>2, <1>8, <2>1, <2>2
<1>12. ASSUME NEW y \in Timer, \A j \in 1 .. Len(q) : q[j].timer # y PROVE T[y] = Off
  <2>1. CASE y = x
    BY <1>2, <2>1
  <2>2. CASE y # x
    <3>1. ASSUME NEW k \in 1 .. Len(r), r[k].timer = y PROVE FALSE
      <4>1. k # i
        BY <1>3, <2>2, <3>1
      <4> DEFINE j == IF k < i THEN k ELSE k - 1
      <4>2. j \in 1 .. Len(q) /\ Was(i, j) = k
        BY <1>1, <1>3, <1>4, <4>1 DEF Was
      <4> QED BY <1>4, <1>12, <3>1, <4>2
    <3> QED BY <1>1, <1>2, <2>2, <3>1, TimesAre
  <2> QED BY <2>1, <2>2
<1>13. T = [y \in Timer |-> T[y]]
  BY <1>2
<1> HIDE DEF T
<1>14. Times(q) = T
  BY <1>4, <1>5, <1>11, <1>12, <1>13, TimesFrom
<1>15. \A e \in Range(q) : e.timer # x
  BY <1>4, <1>10 DEF Range
<1> QED BY <1>9, <1>14, <1>15 DEF T

\* myptm_tick_remove_timer does so,
LEMMA RemovedTimes ==
    ASSUME NEW r, GoodRing(r), NEW x \in Timer
    PROVE  /\ GoodRing(Removed(r, x)) /\ \A e \in Range(Removed(r, x)) : e.timer # x
           /\ Times(Removed(r, x)) = [Times(r) EXCEPT ![x] = Off]
<1>1. CASE \A e \in Range(r) : e.timer # x
  <2>1. Removed(r, x) = r /\ Times(r)[x] = Off
    BY <1>1 DEF Removed, Times
  <2>2. Times(r) = [y \in Timer |-> Times(r)[y]]
    BY DEF Times
  <2> QED BY <1>1, <2>1, <2>2
<1>2. CASE \E e \in Range(r) : e.timer = x
  <2>1. PICK i \in 1 .. Len(r) : i = IndexOf(r, x) /\ r[i].timer = x
    <3>1. \E j \in DOMAIN r : r[j].timer = x
      BY <1>2 DEF Range
    <3> QED BY <3>1, RingFacts DEF IndexOf
  <2>2. Removed(r, x) = RemoveAt(Bumped(r, i), i)
    BY <1>2, <2>1 DEF Removed, Bumped
  <2>3. LacksEntry(Removed(r, x), r, i)
    BY <2>2, RemovedEntries
  <2> QED BY <2>1, <2>3, LackingTimes
<1> QED BY <1>1, <1>2

\* and the first timer, when it is due, leaves no tick.
LEMMA FiredTimes ==
    ASSUME NEW r, GoodRing(r), r # <<>>, Head(r).tick = 0
    PROVE  /\ Head(r).timer \in Timer /\ Times(r)[Head(r).timer] = 0
           /\ GoodRing(Tail(r))
           /\ Times(Tail(r)) = [Times(r) EXCEPT ![Head(r).timer] = Off]
<1>1. /\ r \in Seq(Entry) /\ Len(r) \in Nat /\ Len(r) > 0 /\ Once(r)
  BY RingFacts, SeqElements DEF GoodRing
<1>2. 1 \in 1 .. Len(r) /\ Head(r) = r[1]
  BY <1>1
<1>3. /\ \A j \in 1 .. Len(r) : r[j].timer \in Timer /\ r[j].tick \in Nat
      /\ Offset(r, 1) = Offset(r, 1 - 1) + r[1].tick /\ Offset(r, 0) = 0
  BY <1>2, RingFacts
<1>4. Times(r)[r[1].timer] = 0
  <2>1. 1 - 1 = 0 /\ r[1].tick = 0
    BY <1>2
  <2>2. Offset(r, 1) = 0
    BY <1>3, <2>1
  <2>3. Times(r)[r[1].timer] = Offset(r, 1)
    BY <1>1, <1>2, TimesAre
  <2> QED BY <2>2, <2>3
<1>5. PICK q : q = Tail(r)
  OBVIOUS
<1>6. q \in Seq(Entry) /\ Len(q) = Len(r) - 1 /\ \A j \in 1 .. Len(r) - 1 : q[j] = r[j + 1]
  BY <1>1, <1>5
<1>7. LacksEntry(q, r, 1)
  <2>1. DOMAIN q = 1 .. Len(r) - 1
    BY <1>6
  <2>2. ASSUME NEW j \in 1 .. Len(r) - 1
        PROVE  /\ Was(1, j) \in 1 .. Len(r) /\ q[j].timer = r[Was(1, j)].timer
               /\ q[j].tick = IF j = 1 THEN r[1].tick + r[1 + 1].tick ELSE r[Was(1, j)].tick
    <3>1. Was(1, j) = j + 1 /\ j + 1 \in 1 .. Len(r) /\ q[j] = r[j + 1]
      BY <1>1, <1>6 DEF Was
    <3>2. r[j + 1].tick \in Nat /\ r[1].tick = 0
      BY <1>2, <1>3, <3>1
    <3>3. j = 1 => r[1].tick + r[1 + 1].tick = r[j + 1].tick
      BY <3>2
    <3> QED BY <3>1, <3>3
  <2> QED BY <1>6, <2>1, <2>2 DEF LacksEntry
<1>8. GoodRing(q) /\ Times(q) = [Times(r) EXCEPT ![r[1].timer] = Off]
  BY <1>2, <1>7, LackingTimes
<1> QED
  BY <1>2, <1>3, <1>4, <1>5, <1>8

\* The place of a timer that is due in n: after the k entries that are due earlier.
Place(r, n, k) ==
    /\ k \in 0 .. Len(r) /\ Offset(r, k) <= n
    /\ \A j \in k + 1 .. Len(r) : n <= Offset(r, j)

\* The first of the others has its tick shortened by rest.
Shortened(r, k, rest) ==
    [j \in DOMAIN r |->
        IF j = k + 1 THEN [r[j] EXCEPT !.tick = (@ - rest) % Modulus] ELSE r[j]]

\* The place that myptm_tick_add_timer finds
LEMMA PlaceFound ==
    ASSUME NEW r, GoodRing(r), NEW x, NEW tick \in Int
    PROVE  \E k \in 0 .. Len(r) :
              /\ Place(r, tick % Modulus, k)
              /\ Inserted(r, x, tick)
                    = InsertAt(Shortened(r, k, (tick % Modulus) - Offset(r, k)), k + 1,
                               [timer |-> x, tick |-> (tick % Modulus) - Offset(r, k)])
<1> DEFINE n == tick % Modulus
           earlier == {i \in DOMAIN r : Offset(r, i) < n}
           k == CHOOSE i \in earlier \cup {0} : \A j \in earlier : j <= i
<1>1. /\ Len(r) \in Nat /\ DOMAIN r = 1 .. Len(r) /\ Offset(r, 0) = 0
      /\ \A i \in 0 .. Len(r) : Offset(r, i) \in Nat
      /\ Modulus \in Nat /\ Modulus > 0
  BY RingFacts
<1>2. n \in Nat
  BY <1>1
<1>3. \E i \in earlier \cup {0} : \A j \in earlier : j <= i
  <2>1. earlier \cup {0} \subseteq 0 .. Len(r)
    BY <1>1
  <2>2. \E i \in earlier \cup {0} : \A j \in earlier \cup {0} : j <= i
    <3> DEFINE T == earlier \cup {0}
    <3>1. T \subseteq 0 .. Len(r) /\ T # {}
      BY <2>1
    <3> HIDE DEF T
    <3>2. \E i \in T : \A j \in T : j <= i
      BY <1>1, <3>1, GreatestElement
    <3> QED BY <3>2 DEF T
  <2> HIDE DEF earlier
  <2> QED BY <2>2
<1>4. k \in earlier \cup {0} /\ \A j \in earlier : j <= k
  BY <1>3
<1>5. Inserted(r, x, tick)
        = InsertAt(Shortened(r, k, n - Offset(r, k)), k + 1, [timer |-> x, tick |-> n - Offset(r, k)])
  BY DEF Inserted, Shortened
<1> HIDE DEF k, n
<1>6. k \in 0 .. Len(r) /\ Offset(r, k) <= n
  <2>1. k \in earlier => k \in 0 .. Len(r) /\ Offset(r, k) <= n
    BY <1>1, <1>2
  <2>2. k = 0 => k \in 0 .. Len(r) /\ Offset(r, k) <= n
    BY <1>1, <1>2
  <2> QED BY <1>4, <2>1, <2>2
<1>7. ASSUME NEW j \in k + 1 .. Len(r) PROVE n <= Offset(r, j)
  <2>1. j \in 1 .. Len(r) /\ j \in 0 .. Len(r) /\ ~(j <= k)
    BY <1>1, <1>6
  <2>2. ~(Offset(r, j) < n)
    BY <1>1, <1>4, <2>1
  <2> QED BY <1>1, <1>2, <2>1, <2>2
<1> QED
  BY <1>5, <1>6, <1>7 DEF Place, n

\* q is r with x, due in n, after the k-th entry.
HasEntry(q, r, x, n, k) ==
    /\ q \in Seq(Entry) /\ Len(q) = Len(r) + 1 /\ DOMAIN q = 1 .. Len(r) + 1
    /\ \A j \in 1 .. Len(r) + 1 :
          /\ j <= k => q[j] = r[j]
          /\ j = k + 1 => q[j] = [timer |-> x, tick |-> n - Offset(r, k)]
          /\ j > k + 1 =>
                /\ q[j].timer = r[j - 1].timer
                /\ q[j].tick = IF j = k + 2 THEN r[j - 1].tick - (n - Offset(r, k))
                                            ELSE r[j - 1].tick

LEMMA InsertedEntries ==
    ASSUME NEW r, GoodRing(r), NEW x \in Timer, NEW n \in Word, NEW k \in 0 .. Len(r),
           Place(r, n, k)
    PROVE  HasEntry(InsertAt(Shortened(r, k, n - Offset(r, k)), k + 1,
                             [timer |-> x, tick |-> n - Offset(r, k)]), r, x, n, k)
<1> DEFINE rest == n - Offset(r, k)
           m == Shortened(r, k, rest)
           e == [timer |-> x, tick |-> rest]
<1> SUFFICES ASSUME NEW q, q = InsertAt(m, k + 1, e) PROVE HasEntry(q, r, x, n, k)
  OBVIOUS
<1>1. /\ r \in Seq(Entry) /\ Len(r) \in Nat /\ DOMAIN r = 1 .. Len(r)
      /\ Modulus \in Nat /\ Modulus > 0
      /\ \A i \in 0 .. Len(r) : Offset(r, i) \in Nat
      /\ \A j \in 1 .. Len(r) : r[j] \in Entry
  BY RingFacts
<1>2. n \in Nat /\ n < Modulus /\ Offset(r, k) \in Nat /\ Offset(r, k) <= n
  BY <1>1 DEF Word, Place
<1>3. rest \in Word /\ rest \in Nat
  BY <1>1, <1>2 DEF Word
<1>4. e \in Entry
  BY <1>3 DEF Entry
<1>5. rest = n - Offset(r, k)
  OBVIOUS
<1> HIDE DEF rest
<1>6. ASSUME NEW j \in 1 .. Len(r), j = k + 1
      PROVE  (r[j].tick - rest) % Modulus = r[j].tick - rest /\ r[j].tick - rest \in Word
  <2>1. /\ Offset(r, j) = Offset(r, k) + r[j].tick /\ Offset(r, j) \in Nat
        /\ r[j].tick \in Nat /\ r[j].tick < Modulus
    <3>1. j - 1 = k
      BY <1>6
    <3> QED BY <3>1, RingFacts
  <2>2. n <= Offset(r, j)
    BY <1>1, <1>6 DEF Place
  <2>3. r[j].tick - rest \in Nat /\ r[j].tick - rest < Modulus
    BY <1>1, <1>2, <1>3, <1>5, <2>1, <2>2
  <2>4. (r[j].tick - rest) % Modulus = r[j].tick - rest
    BY <1>1, <2>3, WordSame
  <2> QED BY <1>1, <2>3, <2>4 DEF Word
<1>7. ASSUME NEW j \in 1 .. Len(r)
      PROVE  /\ m[j] \in Entry /\ m[j].timer = r[j].timer
             /\ m[j].tick = IF j = k + 1 THEN r[j].tick - rest ELSE r[j].tick
             /\ j # k + 1 => m[j] = r[j]
  <2>1. CASE j = k + 1
    <3>1. m[j] = [r[j] EXCEPT !.tick = r[j].tick - rest]
      BY <1>1, <1>6, <2>1 DEF Shortened
    <3> QED BY <1>1, <1>6, <2>1, <3>1 DEF Entry
  <2>2. CASE j # k + 1
    BY <1>1, <2>2 DEF Shortened
  <2> QED BY <2>1, <2>2
<1>8. m \in Seq(Entry) /\ Len(m) = Len(r)
  <2>1. m = [j \in 1 .. Len(r) |-> m[j]]
    BY <1>1 DEF Shortened
  <2> QED BY <1>1, <1>7, <2>1
<1> HIDE DEF m, e
<1>9. /\ q \in Seq(Entry) /\ Len(q) = Len(r) + 1
      /\ \A j \in 1 .. Len(r) + 1 :
            q[j] = IF j < k + 1 THEN m[j] ELSE IF j = k + 1 THEN e ELSE m[j - 1]
  <2>1. PICK i \in 1 .. Len(m) + 1 : i = k + 1
    BY <1>1, <1>8
  <2>2. /\ q \in Seq(Entry) /\ Len(q) = Len(m) + 1
        /\ \A j \in 1 .. Len(m) + 1 :
              q[j] = IF j < i THEN m[j] ELSE IF j = i THEN e ELSE m[j - 1]
    <3>1. q = InsertAt(m, i, e)
      BY <2>1
    <3>2. q \in Seq(Entry) /\ GainsElement(q, m, i, e)
      BY <1>4, <1>8, <3>1, InsertAtElements
    <3> QED BY <3>2 DEF GainsElement
  <2> QED BY <1>8, <2>1, <2>2
<1>10. ASSUME NEW j \in 1 .. Len(r) + 1
       PROVE  /\ j <= k => q[j] = r[j]
              /\ j = k + 1 => q[j] = e
              /\ j > k + 1 =>
                    /\ q[j].timer = r[j - 1].timer
                    /\ q[j].tick = IF j = k + 2 THEN r[j - 1].tick - rest ELSE r[j - 1].tick
  <2>1. ASSUME j <= k PROVE q[j] = r[j]
    <3>1. j \in 1 .. Len(r) /\ j < k + 1 /\ j # k + 1
      BY <1>1, <2>1
    <3> QED BY <1>7, <1>9, <3>1
  <2>2. ASSUME j = k + 1 PROVE q[j] = e
    BY <1>9, <2>2
  <2>3. ASSUME j > k + 1
        PROVE  /\ q[j].timer = r[j - 1].timer
               /\ q[j].tick = IF j = k + 2 THEN r[j - 1].tick - rest ELSE r[j - 1].tick
    <3>1. j - 1 \in 1 .. Len(r) /\ ~(j < k + 1) /\ j # k + 1 /\ (j - 1 = k + 1 <=> j = k + 2)
      BY <1>1, <2>3
    <3>2. q[j] = m[j - 1]
      BY <1>9, <3>1
    <3> QED BY <1>7, <3>1, <3>2
  <2> QED BY <2>1, <2>2, <2>3
<1>11. DOMAIN q = 1 .. Len(r) + 1
  BY <1>1, <1>9
<1> QED
  BY <1>9, <1>10, <1>11 DEF HasEntry, e, rest

\* myptm_tick_add_timer leaves the time of every other timer alone.
LEMMA InsertedTimes ==
    ASSUME NEW r, GoodRing(r), NEW x \in Timer, \A e \in Range(r) : e.timer # x,
           NEW tick \in Int
    PROVE  /\ GoodRing(Inserted(r, x, tick))
           /\ Times(Inserted(r, x, tick)) = [Times(r) EXCEPT ![x] = tick % Modulus]
<1>1. /\ r \in Seq(Entry) /\ Len(r) \in Nat /\ DOMAIN r = 1 .. Len(r) /\ Once(r)
      /\ Modulus \in Nat /\ Modulus > 0
  BY RingFacts DEF GoodRing
<1>2. PICK n \in Word : n = tick % Modulus
  BY <1>1 DEF Word
<1>3. PICK k \in 0 .. Len(r) :
         /\ Place(r, n, k)
         /\ Inserted(r, x, tick) = InsertAt(Shortened(r, k, n - Offset(r, k)), k + 1,
                                            [timer |-> x, tick |-> n - Offset(r, k)])
  BY <1>2, PlaceFound
<1>4. PICK q : q = Inserted(r, x, tick)
  OBVIOUS
<1>5. HasEntry(q, r, x, n, k)
  BY <1>3, <1>4, InsertedEntries
<1>6. /\ q \in Seq(Entry) /\ Len(q) = Len(r) + 1 /\ DOMAIN q = 1 .. Len(r) + 1
      /\ \A j \in 1 .. Len(r) + 1 :
            /\ j <= k => q[j] = r[j]
            /\ j = k + 1 => q[j].timer = x /\ q[j].tick = n - Offset(r, k)
            /\ j > k + 1 =>
                  /\ q[j].timer = r[j - 1].timer
                  /\ q[j].tick = IF j = k + 2 THEN r[j - 1].tick - (n - Offset(r, k))
                                              ELSE r[j - 1].tick
  BY <1>5 DEF HasEntry
<1>7. \A j \in 1 .. Len(r) : r[j].timer # x
  BY <1>1 DEF Range
<1>8. /\ \A j \in 0 .. Len(r) : Offset(r, j) \in Nat
      /\ Offset(r, 0) = 0 /\ n \in Nat /\ n < Modulus
  BY <1>1, RingFacts DEF Word
<1> DEFINE g == [j \in 0 .. Len(r) + 1 |->
                    IF j <= k THEN Offset(r, j) ELSE IF j = k + 1 THEN n ELSE Offset(r, j - 1)]
<1>9. /\ g \in [0 .. Len(r) + 1 -> Int] /\ g[0] = 0
      /\ \A j \in 0 .. Len(r) + 1 :
            /\ j <= k => g[j] = Offset(r, j)
            /\ j = k + 1 => g[j] = n
            /\ j > k + 1 => g[j] = Offset(r, j - 1)
  <2>1. ASSUME NEW j \in 0 .. Len(r) + 1 PROVE g[j] \in Int
    <3>1. /\ j <= k => j \in 0 .. Len(r)
          /\ ~(j <= k) /\ j # k + 1 => j - 1 \in 0 .. Len(r)
      BY <1>1, <2>1
    <3> QED BY <1>8, <3>1
  <2>2. g[0] = 0
    BY <1>1, <1>8
  <2>3. ASSUME NEW j \in 0 .. Len(r) + 1
        PROVE  /\ j <= k => g[j] = Offset(r, j)
               /\ j = k + 1 => g[j] = n
               /\ j > k + 1 => g[j] = Offset(r, j - 1)
    <3>1. j \in Int /\ k \in Int
      BY <1>1
    <3> QED BY <3>1
  <2> QED BY <2>1, <2>2, <2>3
<1> HIDE DEF g
<1>10. ASSUME NEW j \in 1 .. Len(r) + 1 PROVE g[j] = g[j - 1] + q[j].tick
  <2>1. /\ j \in Int /\ k \in Int /\ j \in 0 .. Len(r) + 1 /\ j - 1 \in 0 .. Len(r) + 1
        /\ j - 1 \in 0 .. Len(r) /\ Offset(r, j - 1) \in Nat
    BY <1>1, <1>8
  <2>2. CASE j <= k
    <3>1. j - 1 <= k /\ j \in 1 .. Len(r)
      BY <1>1, <2>1, <2>2
    <3>2. Offset(r, j) = Offset(r, j - 1) + r[j].tick
      BY <3>1, RingFacts
    <3> QED BY <1>6, <1>9, <2>1, <2>2, <3>1, <3>2
  <2>3. CASE j = k + 1
    <3>1. j - 1 = k
      BY <2>1, <2>3
    <3>2. g[j] = n /\ g[j - 1] = Offset(r, k)
      BY <1>9, <2>1, <2>3, <3>1
    <3>3. q[j].tick = n - Offset(r, k)
      BY <1>6, <2>3
    <3>4. Offset(r, k) \in Nat
      BY <1>8
    <3> QED BY <1>8, <3>2, <3>3, <3>4
  <2>4. CASE j > k + 1
    <3>1. /\ j - 1 \in 1 .. Len(r) /\ j - 1 > k /\ (j = k + 2 <=> j - 1 = k + 1)
          /\ (j - 1 # k + 1 => j - 1 > k + 1) /\ (j - 1) - 1 \in 0 .. Len(r)
      BY <1>1, <2>1, <2>4
    <3>2. /\ Offset(r, j - 1) = Offset(r, (j - 1) - 1) + r[j - 1].tick
          /\ r[j - 1].tick \in Nat /\ Offset(r, (j - 1) - 1) \in Nat
      BY <1>8, <3>1, RingFacts
    <3>3. g[j] = Offset(r, j - 1)
      BY <1>9, <2>1, <2>4
    <3>4. CASE j = k + 2
      <4>1. g[j - 1] = n /\ q[j].tick = r[j - 1].tick - (n - Offset(r, k))
        BY <1>6, <1>9, <2>1, <2>4, <3>1, <3>4
      <4>2. (j - 1) - 1 = k
        BY <2>1, <3>4
      <4> QED BY <1>8, <3>2, <3>3, <4>1, <4>2
    <3>5. CASE j # k + 2
      <4>1. g[j - 1] = Offset(r, (j - 1) - 1)
        BY <1>9, <2>1, <3>1, <3>5
      <4>2. q[j].tick = r[j - 1].tick
        BY <1>6, <2>4, <3>5
      <4> QED BY <3>2, <3>3, <4>1, <4>2
    <3> QED BY <3>4, <3>5
  <2> QED BY <2>1, <2>2, <2>3, <2>4
<1>11. \A j \in 0 .. Len(r) + 1 : Offset(q, j) = g[j]
  BY <1>6, <1>9, <1>10, OffsetsAre
<1> DEFINE at(j) == IF j <= k THEN j ELSE j - 1
<1>12. ASSUME NEW j \in 1 .. Len(r) + 1
       PROVE  /\ j = k + 1 => q[j].timer = x /\ Offset(q, j) = n
              /\ j # k + 1 => /\ at(j) \in 1 .. Len(r)
                              /\ q[j].timer = r[at(j)].timer
                              /\ Offset(q, j) = Offset(r, at(j))
  <2>1. j \in 0 .. Len(r) + 1 /\ Offset(q, j) = g[j] /\ j \in Int /\ k \in Int
    BY <1>1, <1>11
  <2>2. j = k + 1 => q[j].timer = x /\ Offset(q, j) = n
    BY <1>6, <1>9, <2>1
  <2>3. ASSUME j <= k
        PROVE  /\ at(j) = j /\ j \in 1 .. Len(r)
               /\ q[j].timer = r[j].timer /\ Offset(q, j) = Offset(r, j)
    BY <1>1, <1>6, <1>9, <2>1, <2>3
  <2>4. ASSUME j > k + 1
        PROVE  /\ at(j) = j - 1 /\ j - 1 \in 1 .. Len(r)
               /\ q[j].timer = r[j - 1].timer /\ Offset(q, j) = Offset(r, j - 1)
    BY <1>1, <1>6, <1>9, <2>1, <2>4
  <2>5. j # k + 1 => j <= k \/ j > k + 1
    BY <2>1
  <2> QED BY <2>2, <2>3, <2>4, <2>5
<1>13. ASSUME NEW j \in 1 .. Len(r)
       PROVE  \E i \in 1 .. Len(r) + 1 : i # k + 1 /\ at(i) = j
  <2>1. CASE j <= k
    <3>1. j \in 1 .. Len(r) + 1 /\ j # k + 1 /\ at(j) = j
      BY <1>1, <2>1
    <3> QED BY <3>1
  <2>2. CASE ~(j <= k)
    <3>1. j + 1 \in 1 .. Len(r) + 1 /\ j + 1 # k + 1 /\ at(j + 1) = j
      BY <1>1, <2>2
    <3> QED BY <3>1
  <2> QED BY <2>1, <2>2
<1>14. \A i, j \in 1 .. Len(r) + 1 : i # k + 1 /\ j # k + 1 /\ at(i) = at(j) => i = j
  BY <1>1
<1> HIDE DEF at
<1>15. Once(q)
  <2> SUFFICES ASSUME NEW i \in 1 .. Len(r) + 1, NEW j \in 1 .. Len(r) + 1,
                      q[i].timer = q[j].timer
               PROVE  i = j
    BY <1>6 DEF Once
  <2>1. CASE i = k + 1 \/ j = k + 1
    BY <1>7, <1>12, <2>1
  <2>2. CASE i # k + 1 /\ j # k + 1
    <3>1. at(i) = at(j)
      BY <1>1, <1>12, <2>2 DEF Once
    <3> QED BY <1>14, <2>2, <3>1
  <2> QED BY <2>1, <2>2
<1>16. GoodRing(q)
  <2>1. \A j \in 1 .. Len(r) : Offset(r, j) \in Word
    BY <1>1 DEF GoodRing
  <2>2. \A j \in 1 .. Len(r) + 1 : Offset(q, j) \in Word
    BY <1>12, <2>1
  <2> QED BY <1>6, <1>15, <2>2 DEF GoodRing
<1> DEFINE T == [Times(r) EXCEPT ![x] = n]
<1>17. Times(r) = [y \in Timer |-> Times(r)[y]]
  BY DEF Times
<1>18. /\ T = [y \in Timer |-> T[y]] /\ T[x] = n
       /\ \A y \in Timer : y # x => T[y] = Times(r)[y]
  BY <1>17
<1> HIDE DEF T
<1>19. \A j \in 1 .. Len(q) : T[q[j].timer] = Offset(q, j)
  <2> SUFFICES ASSUME NEW j \in 1 .. Len(r) + 1 PROVE T[q[j].timer] = Offset(q, j)
    BY <1>6
  <2>1. CASE j = k + 1
    BY <1>12, <1>18, <2>1
  <2>2. CASE j # k + 1
    <3>1. /\ at(j) \in 1 .. Len(r) /\ q[j].timer = r[at(j)].timer
          /\ Offset(q, j) = Offset(r, at(j))
      BY <1>12, <2>2
    <3>2. r[at(j)].timer \in Timer /\ r[at(j)].timer # x
      BY <1>7, <3>1, RingFacts
    <3>3. Times(r)[r[at(j)].timer] = Offset(r, at(j))
      BY <1>1, <3>1, TimesAre
    <3> QED BY <1>18, <3>1, <3>2, <3>3
  <2> QED BY <2>1, <2>2
<1>20. ASSUME NEW y \in Timer, \A j \in 1 .. Len(q) : q[j].timer # y PROVE T[y] = Off
  <2>1. \A j \in 1 .. Len(r) + 1 : q[j].timer # y
    BY <1>6, <1>20
  <2>2. y # x
    <3>1. k + 1 \in 1 .. Len(r) + 1
      BY <1>1
    <3> QED BY <1>12, <2>1, <3>1
  <2>3. \A j \in 1 .. Len(r) : r[j].timer # y
    BY <1>12, <1>13, <2>1
  <2> QED BY <1>1, <1>18, <2>2, <2>3, TimesAre
<1>21. Times(q) = T
  BY <1>6, <1>15, <1>18, <1>19, <1>20, TimesFrom
<1> QED
  BY <1>2, <1>4, <1>16, <1>21 DEF T

\* Charging the first timer charges them all.
HeadCharged(r, d) == [r EXCEPT ![1].tick = Head(r).tick - d]

LEMMA ChargedTimes ==
    ASSUME NEW r, GoodRing(r), r # <<>>, NEW d \in Nat, d <= Head(r).tick,
           NEW q, q = HeadCharged(r, d)
    PROVE  /\ GoodRing(q) /\ q # <<>> /\ Head(q).tick = Head(r).tick - d
           /\ \E x \in Timer : Times(r)[x] # Off
           /\ \A x \in Timer : Times(r)[x] # Off => d <= Times(r)[x]
           /\ Times(q) = [x \in Timer |-> IF Times(r)[x] # Off THEN Times(r)[x] - d ELSE Off]
<1>1. /\ r \in Seq(Entry) /\ Len(r) \in Nat /\ Len(r) > 0 /\ DOMAIN r = 1 .. Len(r) /\ Once(r)
      /\ \A j \in 1 .. Len(r) : r[j] \in Entry
  BY RingFacts, SeqElements DEF GoodRing
<1>2. 1 \in 1 .. Len(r) /\ Head(r) = r[1]
  BY <1>1
<1>3. /\ Modulus \in Nat /\ Modulus > 0 /\ r[1].tick \in Nat /\ r[1].tick < Modulus
      /\ r[1] \in Entry
  BY <1>2, RingFacts
<1>4. r[1].tick - d \in Nat /\ r[1].tick - d \in Word
  BY <1>2, <1>3 DEF Word
<1>5. /\ DOMAIN q = 1 .. Len(r) /\ q[1] = [r[1] EXCEPT !.tick = r[1].tick - d]
      /\ \A j \in 1 .. Len(r) : j # 1 => q[j] = r[j]
  BY <1>1, <1>2 DEF HeadCharged
<1>6. q[1] \in Entry /\ q[1].timer = r[1].timer /\ q[1].tick = r[1].tick - d
  BY <1>3, <1>4, <1>5 DEF Entry
<1>7. \A j \in 1 .. Len(r) : q[j] \in Entry /\ q[j].timer = r[j].timer
  BY <1>1, <1>5, <1>6
<1>8. q = [j \in 1 .. Len(r) |-> q[j]]
  BY <1>1 DEF HeadCharged
<1>9. q \in Seq(Entry) /\ Len(q) = Len(r)
  BY <1>1, <1>7, <1>8
<1>10. q # <<>> /\ Head(q) = q[1]
  BY <1>1, <1>9
<1> DEFINE g == [j \in 0 .. Len(r) |-> IF j = 0 THEN 0 ELSE Offset(r, j) - d]
<1>11. \A j \in 0 .. Len(r) : Offset(r, j) \in Nat
  BY RingFacts
<1>12. g \in [0 .. Len(r) -> Int] /\ g[0] = 0 /\ \A j \in 1 .. Len(r) : g[j] = Offset(r, j) - d
  BY <1>1, <1>11
<1> HIDE DEF g
<1>13. ASSUME NEW j \in 1 .. Len(r) PROVE g[j] = g[j - 1] + q[j].tick
  <2>1. /\ Offset(r, j) = Offset(r, j - 1) + r[j].tick /\ r[j].tick \in Nat
        /\ Offset(r, 0) = 0
    BY RingFacts
  <2>2. CASE j = 1
    <3>1. j - 1 = 0
      BY <2>2
    <3> QED BY <1>4, <1>6, <1>12, <2>1, <2>2, <3>1
  <2>3. CASE j # 1
    <3>1. j - 1 \in 1 .. Len(r) /\ j - 1 \in 0 .. Len(r)
      BY <1>1, <2>3
    <3>2. g[j] = Offset(r, j) - d /\ g[j - 1] = Offset(r, j - 1) - d /\ q[j].tick = r[j].tick
      BY <1>5, <1>12, <2>3, <3>1
    <3> QED BY <1>11, <2>1, <3>1, <3>2
  <2> QED BY <2>2, <2>3
<1>14. \A j \in 1 .. Len(r) : Offset(q, j) = Offset(r, j) - d
  <2>1. \A j \in 0 .. Len(r) : Offset(q, j) = g[j]
    <3>1. /\ g \in [0 .. Len(q) -> Int] /\ g[0] = 0
          /\ \A j \in 1 .. Len(q) : g[j] = g[j - 1] + q[j].tick
      BY <1>9, <1>12, <1>13
    <3>2. \A j \in 0 .. Len(q) : Offset(q, j) = g[j]
      BY <1>9, <3>1, OffsetsAre
    <3> QED BY <1>9, <3>2
  <2>2. \A j \in 1 .. Len(r) : j \in 0 .. Len(r)
    BY <1>1
  <2> QED BY <1>12, <2>1, <2>2
<1>15. ASSUME NEW j \in 1 .. Len(r)
       PROVE  /\ d <= Offset(r, j) /\ Offset(r, j) - d \in Word
              /\ Offset(r, j) # Off
  <2>1. 1 \in 0 .. j /\ j \in 0 .. Len(r)
    BY <1>1
  <2>2. Offset(r, 1) <= Offset(r, j)
    BY <1>1, <2>1, OffsetsGrow
  <2>3. Offset(r, 1) = r[1].tick
    <3>1. Offset(r, 1) = Offset(r, 1 - 1) + r[1].tick /\ Offset(r, 0) = 0 /\ 1 - 1 = 0
      BY <1>2, RingFacts
    <3> QED BY <1>3, <3>1
  <2>4. Offset(r, j) \in Nat /\ Offset(r, j) < Modulus /\ Offset(r, j) \in Word
    BY <1>1, RingFacts DEF GoodRing
  <2>5. d <= Offset(r, j)
    BY <1>2, <1>3, <2>2, <2>3, <2>4
  <2>6. Offset(r, j) - d \in Nat /\ Offset(r, j) - d < Modulus
    BY <1>3, <2>4, <2>5
  <2> QED BY <1>3, <2>4, <2>5, <2>6, TimerAssumption DEF Word, TimerAssumption
<1>16. Once(q)
  BY <1>1, <1>5, <1>7 DEF Once
<1>17. GoodRing(q)
  <2>1. \A j \in 1 .. Len(r) : Offset(q, j) \in Word
    BY <1>14, <1>15
  <2> QED BY <1>5, <1>9, <1>16, <2>1 DEF GoodRing
<1> DEFINE T == [x \in Timer |-> IF Times(r)[x] # Off THEN Times(r)[x] - d ELSE Off]
<1>18. \A j \in 1 .. Len(r) : r[j].timer \in Timer /\ Times(r)[r[j].timer] = Offset(r, j)
  BY <1>1, RingFacts, TimesAre
<1>19. \A x \in Timer : (\A j \in 1 .. Len(r) : r[j].timer # x) => Times(r)[x] = Off
  BY <1>1, TimesAre
<1>20. T = [x \in Timer |-> T[x]]
  OBVIOUS
<1>21. \A j \in 1 .. Len(q) : T[q[j].timer] = Offset(q, j)
  BY <1>7, <1>9, <1>14, <1>15, <1>18
<1>22. ASSUME NEW x \in Timer, \A j \in 1 .. Len(q) : q[j].timer # x PROVE T[x] = Off
  <2>1. Times(r)[x] = Off
    BY <1>7, <1>9, <1>19, <1>22
  <2> QED BY <2>1
<1> HIDE DEF T
<1>23. Times(q) = T
  BY <1>9, <1>16, <1>20, <1>21, <1>22, TimesFrom
<1>24. \E x \in Timer : Times(r)[x] # Off
  BY <1>2, <1>15, <1>18
<1>25. ASSUME NEW x \in Timer, Times(r)[x] # Off PROVE d <= Times(r)[x]
  BY <1>15, <1>18, <1>19, <1>25
<1> QED
  BY <1>2, <1>6, <1>10, <1>17, <1>23, <1>24, <1>25 DEF T

-----------------------------------------------------------------------------
(***************************************************************************)
(* What the active calls have not used of the time they were given.        *)
(***************************************************************************)

Lefts(c) == [i \in DOMAIN c |-> c[i].left]

OwedOf(c) == SumTo(Lefts(c), Len(c))

LEMMA LeftsAre ==
    ASSUME NEW c \in Seq(Frame)
    PROVE  /\ Lefts(c) \in Seq(Int) /\ Len(Lefts(c)) = Len(c) /\ Len(c) \in Nat
           /\ DOMAIN c = 1 .. Len(c)
           /\ \A i \in 1 .. Len(c) : c[i] \in Frame /\ Lefts(c)[i] = c[i].left /\ c[i].left \in Nat
<1>1. Len(c) \in Nat /\ DOMAIN c = 1 .. Len(c) /\ \A i \in 1 .. Len(c) : c[i] \in Frame
  OBVIOUS
<1>2. \A e \in Frame : e.left \in Nat
  BY TimerAssumption DEF Frame, Word, TimerAssumption
<1>3. Lefts(c) = [i \in 1 .. Len(c) |-> c[i].left]
  BY <1>1 DEF Lefts
<1>4. \A i \in 1 .. Len(c) : c[i].left \in Int /\ c[i].left \in Nat
  BY <1>1, <1>2
<1>5. Lefts(c) \in Seq(Int) /\ Len(Lefts(c)) = Len(c)
  BY <1>1, <1>3, <1>4
<1> QED BY <1>1, <1>3, <1>4, <1>5

\* What is owed to the frames of c, the last of them apart.
LEMMA OwedSplits ==
    ASSUME NEW c \in Seq(Frame), c # <<>>
    PROVE  /\ OwedOf(c) = SumTo(Lefts(c), Len(c) - 1) + c[Len(c)].left
           /\ SumTo(Lefts(c), Len(c) - 1) \in Nat /\ OwedOf(c) \in Nat
           /\ c[Len(c)].left \in Nat
<1>1. Len(c) \in 1 .. Len(c) /\ Len(c) - 1 \in 0 .. Len(c) /\ Len(c) \in 0 .. Len(c)
  BY LeftsAre, SeqElements
<1>2. OwedOf(c) = SumTo(Lefts(c), Len(c) - 1) + Lefts(c)[Len(c)]
  BY <1>1, LeftsAre, SumToIs DEF OwedOf
<1>3. \A n \in 0 .. Len(c) : SumTo(Lefts(c), n) \in Nat
  <2>1. \A i \in 1 .. Len(Lefts(c)) : Lefts(c)[i] \in Nat
    BY LeftsAre
  <2> QED BY <2>1, LeftsAre, SumsOfNats
<1> QED BY <1>1, <1>2, <1>3, LeftsAre DEF OwedOf

\* A call that returns forgets what it has not used,
LEMMA OwedFront ==
    ASSUME NEW c \in Seq(Frame), c # <<>>
    PROVE  /\ Front(c) \in Seq(Frame) /\ Len(Front(c)) = Len(c) - 1
           /\ \A i \in 1 .. Len(c) - 1 : Front(c)[i] = c[i]
           /\ OwedOf(Front(c)) = SumTo(Lefts(c), Len(c) - 1)
<1>1. Len(c) \in Nat /\ Len(c) > 0
  BY SeqElements
<1> DEFINE d == Front(c)
<1>2. d \in Seq(Frame) /\ Len(d) = Len(c) - 1 /\ \A i \in 1 .. Len(c) - 1 : d[i] = c[i]
  BY FrontElements
<1> HIDE DEF d
<1>3. /\ \A i \in 1 .. Len(c) - 1 : Lefts(d)[i] = Lefts(c)[i]
      /\ Len(Lefts(d)) = Len(c) - 1 /\ Len(Lefts(c)) = Len(c)
      /\ Lefts(c) \in Seq(Int) /\ Lefts(d) \in Seq(Int)
  <2>1. \A i \in 1 .. Len(c) - 1 : i \in 1 .. Len(c) /\ i \in 1 .. Len(d)
    BY <1>1, <1>2
  <2> QED BY <1>2, <2>1, LeftsAre
<1>4. SumTo(Lefts(d), Len(c) - 1) = SumTo(Lefts(c), Len(c) - 1)
  <2>1. PICK n \in Nat : n = Len(c) - 1 /\ n <= Len(c)
    BY LastPlace
  <2>2. n <= Len(Lefts(d)) /\ n <= Len(Lefts(c)) /\ \A i \in 1 .. n : Lefts(d)[i] = Lefts(c)[i]
    BY <1>3, <2>1
  <2>3. SumTo(Lefts(d), n) = SumTo(Lefts(c), n)
    BY <1>3, <2>2, SumsAgree
  <2> QED BY <2>1, <2>3
<1> QED BY <1>2, <1>4 DEF OwedOf, d

\* one that begins adds what it is given,
LEMMA OwedAppend ==
    ASSUME NEW c \in Seq(Frame), NEW e \in Frame
    PROVE  /\ Append(c, e) \in Seq(Frame) /\ Len(Append(c, e)) = Len(c) + 1
           /\ \A i \in 1 .. Len(c) : Append(c, e)[i] = c[i]
           /\ Append(c, e)[Len(c) + 1] = e
           /\ OwedOf(Append(c, e)) = OwedOf(c) + e.left
<1> DEFINE d == Append(c, e)
<1>1. /\ Len(c) \in Nat /\ d \in Seq(Frame) /\ Len(d) = Len(c) + 1
      /\ \A i \in 1 .. Len(c) : d[i] = c[i]
      /\ d[Len(c) + 1] = e
  OBVIOUS
<1> HIDE DEF d
<1>2. /\ \A i \in 1 .. Len(c) : Lefts(d)[i] = Lefts(c)[i]
      /\ Len(Lefts(d)) = Len(c) + 1 /\ Len(Lefts(c)) = Len(c)
      /\ Lefts(c) \in Seq(Int) /\ Lefts(d) \in Seq(Int)
  <2>1. \A i \in 1 .. Len(c) : i \in 1 .. Len(d)
    BY <1>1
  <2> QED BY <1>1, <2>1, LeftsAre
<1>3. SumTo(Lefts(d), Len(c)) = SumTo(Lefts(c), Len(c))
  <2>1. PICK n \in Nat : n = Len(c)
    BY <1>1
  <2>2. n <= Len(Lefts(d)) /\ n <= Len(Lefts(c)) /\ \A i \in 1 .. n : Lefts(d)[i] = Lefts(c)[i]
    BY <1>2, <2>1
  <2>3. SumTo(Lefts(d), n) = SumTo(Lefts(c), n)
    BY <1>2, <2>2, SumsAgree
  <2> QED BY <2>1, <2>3
<1>4. d # <<>> /\ Len(d) - 1 = Len(c)
  BY <1>1, SeqElements
<1>5. OwedOf(d) = SumTo(Lefts(d), Len(c)) + e.left
  BY <1>1, <1>4, OwedSplits
<1> QED BY <1>1, <1>3, <1>5 DEF OwedOf, d

\* and one that charges takes from its own.
WithLast(c, e) == [c EXCEPT ![Len(c)] = e]

LEMMA OwedReplace ==
    ASSUME NEW c \in Seq(Frame), c # <<>>, NEW e \in Frame
    PROVE  /\ WithLast(c, e) \in Seq(Frame) /\ Len(WithLast(c, e)) = Len(c)
           /\ \A i \in 1 .. Len(c) - 1 : WithLast(c, e)[i] = c[i]
           /\ WithLast(c, e)[Len(c)] = e
           /\ OwedOf(WithLast(c, e)) = SumTo(Lefts(c), Len(c) - 1) + e.left
<1> DEFINE d == WithLast(c, e)
<1>1. Len(c) \in Nat /\ Len(c) > 0 /\ DOMAIN c = 1 .. Len(c)
  BY SeqElements
<1>2. /\ d \in Seq(Frame) /\ Len(d) = Len(c)
      /\ \A i \in 1 .. Len(c) - 1 : d[i] = c[i]
      /\ d[Len(c)] = e
  BY ReplaceLast DEF WithLast
<1> HIDE DEF d
<1>3. /\ \A i \in 1 .. Len(c) - 1 : Lefts(d)[i] = Lefts(c)[i]
      /\ Len(Lefts(d)) = Len(c) /\ Len(Lefts(c)) = Len(c)
      /\ Lefts(c) \in Seq(Int) /\ Lefts(d) \in Seq(Int)
  <2>1. \A i \in 1 .. Len(c) - 1 : i \in 1 .. Len(c)
    BY <1>1
  <2> QED BY <1>2, <2>1, LeftsAre
<1>4. SumTo(Lefts(d), Len(c) - 1) = SumTo(Lefts(c), Len(c) - 1)
  <2>1. PICK n \in Nat : n = Len(c) - 1 /\ n <= Len(c)
    BY LastPlace
  <2>2. n <= Len(Lefts(d)) /\ n <= Len(Lefts(c)) /\ \A i \in 1 .. n : Lefts(d)[i] = Lefts(c)[i]
    BY <1>3, <2>1
  <2>3. SumTo(Lefts(d), n) = SumTo(Lefts(c), n)
    BY <1>3, <2>2, SumsAgree
  <2> QED BY <2>1, <2>3
<1>5. d # <<>>
  BY <1>1, <1>2, SeqElements
<1>6. OwedOf(d) = SumTo(Lefts(d), Len(c) - 1) + e.left
  BY <1>2, <1>5, OwedSplits
<1> QED BY <1>2, <1>4, <1>6 DEF d

-----------------------------------------------------------------------------
(***************************************************************************)
(* The inductive invariant: below the innermost call every call is in a    *)
(* callback, and a call that has nothing left to charge leaves no timer    *)
(* that is due.                                                            *)
(***************************************************************************)

CallersInCallbacks == \A i \in 1 .. Len(calls) - 1 : calls[i].phase = "callback"

Settled ==
    /\ InPhase("charge") /\ Top.left = 0 /\ ring # <<>> => Head(ring).tick > 0
    /\ ~InPhase("stopped")

\* A timer that is linked to the head alone is not in the ring.
Apart == stale \subseteq Timer \ Linked

IInv == TypeOK /\ CallersInCallbacks /\ Settled

LEMMA TypeParts ==
    TypeOK <=> /\ GoodRing(ring) /\ Apart
               /\ life \in [Timer -> {"init", "used", "destroyed"}]
               /\ origin \in [Timer -> Word]
               /\ calls \in Seq(Frame)
BY DEF TypeOK, GoodRing, Once, Apart

LEMMA ApartStays ==
    ASSUME TypeOK, GoodRing(ring'), stale' \subseteq stale,
           \A x \in stale' : Times(ring)[x] = Off => Times(ring')[x] = Off
    PROVE  Apart'
<1>1. GoodRing(ring) /\ stale \subseteq Timer /\ Linked = TimersIn(ring)
      /\ \A x \in stale : x \notin Linked
  BY TypeParts DEF Apart, Linked, TimersIn
<1>2. Linked' = TimersIn(ring')
  BY DEF Linked, TimersIn
<1>3. \A x \in stale' : x \in Timer /\ Times(ring)[x] = Off
  BY <1>1, OffIs
<1>4. \A x \in stale' : x \notin Linked'
  BY <1>2, <1>3, OffIs
<1> QED BY <1>3, <1>4 DEF Apart

LEMMA InitInv == Init => IInv
<1> SUFFICES ASSUME Init PROVE IInv
  OBVIOUS
<1>1. ring = <<>> /\ calls = <<>> /\ Len(calls) = 0 /\ DOMAIN ring = {}
  BY DEF Init
<1>2. 0 \in Word
  BY TimerAssumption DEF Word, TimerAssumption
<1>3. TypeOK
  BY <1>1, <1>2 DEF TypeOK, Init
<1>4. CallersInCallbacks /\ Settled
  BY <1>1 DEF CallersInCallbacks, Settled, InPhase
<1> QED
  BY <1>3, <1>4 DEF IInv

\* The innermost call
LEMMA TopFacts ==
    ASSUME TypeOK, calls # <<>>
    PROVE  /\ calls \in Seq(Frame) /\ Top \in Frame /\ Top.left \in Nat /\ Top.left < Modulus
           /\ Top.left \in Word /\ Len(calls) \in Nat /\ Len(calls) > 0
           /\ Top.phase \in {"charge", "fire", "callback", "stopped"}
<1>1. calls \in Seq(Frame) /\ Len(calls) \in 1 .. Len(calls) /\ Len(calls) \in Nat
  BY LastPlace DEF TypeOK
<1>2. Top \in Frame
  BY <1>1, SeqElements DEF Top
<1> QED
  BY <1>1, <1>2, TimerAssumption DEF Frame, Word, TimerAssumption

\* A call goes on in another phase.
LEMMA AtFacts ==
    ASSUME TypeOK, CallersInCallbacks, calls # <<>>, NEW left \in Word,
           NEW at \in {"charge", "fire", "callback"}, calls' = At(left, at)
    PROVE  /\ calls' \in Seq(Frame) /\ CallersInCallbacks' /\ Len(calls') = Len(calls)
           /\ calls' # <<>> /\ Top'.left = left /\ Top'.phase = at
           /\ OwedOf(calls') = OwedOf(calls) - Top.left + left
           /\ OwedOf(calls) \in Nat /\ Top.left <= OwedOf(calls)
<1> DEFINE e == [left |-> left, phase |-> at]
<1>1. e \in Frame
  BY DEF Frame
<1>2. calls \in Seq(Frame)
  BY DEF TypeOK
<1>3. calls' = WithLast(calls, e)
  BY DEF At, WithLast
<1>4. e.left = left /\ e.phase = at
  OBVIOUS
<1> HIDE DEF e
<1>5. /\ calls' \in Seq(Frame) /\ Len(calls') = Len(calls) /\ calls'[Len(calls)] = e
      /\ \A i \in 1 .. Len(calls) - 1 : calls'[i] = calls[i]
      /\ OwedOf(calls') = SumTo(Lefts(calls), Len(calls) - 1) + left
  <2>1. PICK c \in Seq(Frame) : c = calls
    BY <1>2
  <2>2. PICK d : d = WithLast(c, e)
    OBVIOUS
  <2>3. /\ d \in Seq(Frame) /\ Len(d) = Len(c) /\ d[Len(c)] = e
        /\ \A i \in 1 .. Len(c) - 1 : d[i] = c[i]
        /\ OwedOf(d) = SumTo(Lefts(c), Len(c) - 1) + e.left
    BY <1>1, <2>1, <2>2, OwedReplace
  <2>4. calls' = d
    BY <1>3, <2>1, <2>2
  <2> QED BY <1>4, <2>1, <2>3, <2>4
<1>6. /\ OwedOf(calls) = SumTo(Lefts(calls), Len(calls) - 1) + Top.left
      /\ SumTo(Lefts(calls), Len(calls) - 1) \in Nat /\ OwedOf(calls) \in Nat /\ Top.left \in Nat
  BY <1>2, OwedSplits DEF Top
<1>7. left \in Nat
  BY TimerAssumption DEF Word, TimerAssumption
<1>8. OwedOf(calls') = OwedOf(calls) - Top.left + left /\ Top.left <= OwedOf(calls)
  BY <1>5, <1>6, <1>7
<1>9. Top'.left = left /\ Top'.phase = at /\ CallersInCallbacks'
  BY <1>4, <1>5 DEF Top, CallersInCallbacks
<1>10. calls' # <<>>
  BY <1>2, <1>5, SeqElements
<1> QED
  BY <1>5, <1>6, <1>8, <1>9, <1>10

\* A call returns to the callback that polled, or to the poll of the loop.
LEMMA FrontFacts ==
    ASSUME TypeOK, CallersInCallbacks, calls # <<>>, calls' = Front(calls)
    PROVE  /\ calls' \in Seq(Frame) /\ CallersInCallbacks'
           /\ ~InPhase("charge")' /\ ~InPhase("stopped")'
           /\ Len(calls') = Len(calls) - 1
           /\ OwedOf(calls') = OwedOf(calls) - Top.left
           /\ OwedOf(calls) \in Nat /\ OwedOf(calls') \in Nat /\ Top.left <= OwedOf(calls)
<1>1. calls \in Seq(Frame)
  BY DEF TypeOK
<1>2. /\ calls' \in Seq(Frame) /\ Len(calls') = Len(calls) - 1
      /\ \A i \in 1 .. Len(calls) - 1 : calls'[i] = calls[i]
      /\ OwedOf(calls') = SumTo(Lefts(calls), Len(calls) - 1)
  BY <1>1, OwedFront
<1>3. /\ OwedOf(calls) = SumTo(Lefts(calls), Len(calls) - 1) + Top.left
      /\ SumTo(Lefts(calls), Len(calls) - 1) \in Nat /\ OwedOf(calls) \in Nat /\ Top.left \in Nat
  BY <1>1, OwedSplits DEF Top
<1>4. \A i \in 1 .. Len(calls') : calls'[i].phase = "callback"
  BY <1>2 DEF CallersInCallbacks
<1>5. CallersInCallbacks'
  <2>1. calls' # <<>> => \A i \in 1 .. Len(calls') - 1 : i \in 1 .. Len(calls')
    BY <1>2, LastPlace
  <2>2. calls' = <<>> => Len(calls') = 0
    BY <1>2, SeqElements
  <2> QED BY <1>4, <2>1, <2>2 DEF CallersInCallbacks
<1>6. ~InPhase("charge")' /\ ~InPhase("stopped")'
  <2> SUFFICES ASSUME calls' # <<>> PROVE Top'.phase = "callback"
    BY DEF InPhase
  <2>1. Len(calls') \in 1 .. Len(calls')
    BY <1>2, LastPlace
  <2> QED BY <1>4, <2>1 DEF Top
<1>7. /\ OwedOf(calls') = OwedOf(calls) - Top.left /\ Top.left <= OwedOf(calls)
      /\ OwedOf(calls') \in Nat
  BY <1>2, <1>3
<1> QED
  BY <1>2, <1>3, <1>5, <1>6, <1>7

-----------------------------------------------------------------------------
(***************************************************************************)
(* What the actions do: each keeps the invariant, is a step of MyptmAlarm  *)
(* or none, and returns from no call while a timer is due.                 *)
(***************************************************************************)

Kept ==
    /\ IInv'
    /\ Alarm!Next \/ UNCHANGED <<Remaining, Owed>>
    /\ Len(calls') < Len(calls) /\ ring' # <<>> => Head(ring').tick > 0

LEMMA MappingIs ==
    /\ Remaining = Times(ring) /\ Owed = OwedOf(calls)
    /\ Remaining' = Times(ring') /\ Owed' = OwedOf(calls')
BY DEF Remaining, Owed, OwedOf, Lefts

LEMMA TimesType == ASSUME NEW r PROVE Times(r) = [x \in Timer |-> Times(r)[x]]
BY DEF Times

\* The application runs outside the ticker and in callbacks: no call is charging.
LEMMA UserKeeps ==
    ASSUME IInv, UserRuns, UNCHANGED calls
    PROVE  /\ CallersInCallbacks' /\ Settled' /\ calls' \in Seq(Frame) /\ Owed' = Owed
           /\ ~(Len(calls') < Len(calls))
<1>1. calls' = calls /\ calls \in Seq(Frame) /\ Len(calls) \in Nat
  BY SeqElements DEF IInv, TypeOK
<1>2. ~InPhase("charge")' /\ ~InPhase("stopped")'
  BY <1>1 DEF UserRuns, InPhase, Top
<1>3. CallersInCallbacks'
  BY <1>1 DEF CallersInCallbacks, IInv
<1>4. Settled'
  BY <1>2 DEF Settled
<1> QED
  BY <1>1, <1>3, <1>4, MappingIs

LEMMA RulesHold ==
    Rules = AllRules =>
        {"StartIdle", "DestroyIdle", "OneLeft", "LeftAlone"} \subseteq Rules
BY DEF AllRules

LEMMA InitKeeps == ASSUME IInv, NEW x \in Timer, TimerInit(x) PROVE Kept
<1>1. CallersInCallbacks' /\ Settled' /\ Owed' = Owed /\ ~(Len(calls') < Len(calls))
      /\ calls' \in Seq(Frame)
  BY UserKeeps DEF TimerInit
<1>2. TypeOK'
  BY <1>1 DEF TimerInit, TypeOK, IInv, Linked
<1>3. Remaining' = Remaining
  BY MappingIs DEF TimerInit
<1> QED
  BY <1>1, <1>2, <1>3 DEF Kept, IInv

LEMMA DestroyKeeps ==
    ASSUME IInv, Rules = AllRules, NEW x \in Timer, TimerDestroy(x) PROVE Kept
<1>0. /\ x \notin Linked /\ ring' = Without(ring, x) /\ stale' = stale \ {x} /\ calls' = calls
  BY RulesHold DEF TimerDestroy, Unlinking, Obeys
<1>1. CallersInCallbacks' /\ Settled' /\ Owed' = Owed /\ ~(Len(calls') < Len(calls))
      /\ calls' \in Seq(Frame)
  BY <1>0, UserKeeps DEF TimerDestroy
<1>2. ring' = ring
  BY <1>0 DEF Without, Linked
<1>3. TypeOK'
  BY <1>0, <1>1, <1>2 DEF TimerDestroy, TypeOK, IInv, Linked
<1>4. Remaining' = Remaining
  BY <1>2, MappingIs
<1> QED
  BY <1>1, <1>3, <1>4 DEF Kept, IInv

\* A word is what an int is as an unsigned int.
LEMMA WordIs == ASSUME NEW tick \in Int PROVE tick % Modulus \in Word /\ tick % Modulus \in Nat
BY TimerAssumption DEF Word, TimerAssumption

LEMMA AddKeeps ==
    ASSUME IInv, Rules = AllRules, NEW x \in Timer, NEW tick \in Delays, AddTimer(x, tick)
    PROVE  Kept /\ Alarm!Set(x, tick % Modulus)
<1>0. /\ x \notin Linked /\ x \notin stale /\ UserRuns
      /\ ring' = Inserted(ring, x, tick) /\ stale' = stale /\ calls' = calls
  BY RulesHold DEF AddTimer, Obeys
<1>1. CallersInCallbacks' /\ Settled' /\ Owed' = Owed /\ ~(Len(calls') < Len(calls))
      /\ calls' \in Seq(Frame)
  BY <1>0, UserKeeps
<1>2. tick \in Int /\ tick % Modulus \in Word
  BY TimerAssumption, WordIs DEF TimerAssumption
<1>3. GoodRing(ring) /\ \A e \in Range(ring) : e.timer # x
  BY <1>0, TypeParts DEF IInv, Linked
<1>4. GoodRing(ring') /\ Times(ring') = [Times(ring) EXCEPT ![x] = tick % Modulus]
  BY <1>0, <1>2, <1>3, InsertedTimes
<1>5. origin' = [origin EXCEPT ![x] = tick % Modulus] /\ life' = [life EXCEPT ![x] = "used"]
  BY DEF AddTimer
<1>6. origin' \in [Timer -> Word] /\ life' \in [Timer -> {"init", "used", "destroyed"}]
  BY <1>2, <1>5 DEF IInv, TypeOK
<1>10. Apart'
  <2>1. \A y \in stale' : y # x /\ Times(ring')[y] = Times(ring)[y]
    BY <1>0, <1>4, TimesType
  <2> QED BY <1>0, <1>4, <2>1, ApartStays DEF IInv
<1>7. TypeOK'
  BY <1>1, <1>4, <1>6, <1>10 DEF TypeOK, GoodRing, Once, Apart
<1>8. Alarm!Set(x, tick % Modulus)
  BY <1>1, <1>4, MappingIs DEF Alarm!Set
<1>9. Alarm!Next
  BY <1>2, <1>8 DEF Alarm!Next, Alarm!Word, Word
<1> QED
  BY <1>1, <1>7, <1>8, <1>9 DEF Kept, IInv

\* A timer is taken out, if it is in.
LEMMA UnlinkKeeps ==
    ASSUME IInv, NEW x \in Timer, UserRuns, ring' = Removed(ring, x), stale' \subseteq stale,
           UNCHANGED <<life, origin, calls>>
    PROVE  Kept /\ Alarm!Cancel(x)
<1>1. CallersInCallbacks' /\ Settled' /\ Owed' = Owed /\ ~(Len(calls') < Len(calls))
      /\ calls' \in Seq(Frame)
  BY UserKeeps
<1>2. GoodRing(ring') /\ Times(ring') = [Times(ring) EXCEPT ![x] = Off]
  BY TypeParts, RemovedTimes DEF IInv
<1>6. Apart'
  <2>1. \A y \in stale : y \in Timer
    BY DEF IInv, TypeOK
  <2>2. \A y \in stale' : Times(ring)[y] = Off => Times(ring')[y] = Off
    BY <1>2, <2>1, TimesType
  <2> QED BY <1>2, <2>2, ApartStays DEF IInv
<1>3. TypeOK'
  BY <1>1, <1>2, <1>6 DEF TypeOK, GoodRing, Once, IInv, Apart
<1>4. Alarm!Cancel(x)
  BY <1>1, <1>2, MappingIs DEF Alarm!Cancel
<1>5. Alarm!Next
  BY <1>4 DEF Alarm!Next
<1> QED
  BY <1>1, <1>3, <1>4, <1>5 DEF Kept, IInv

LEMMA RemoveKeeps ==
    ASSUME IInv, Rules = AllRules, NEW x \in Timer, RemoveTimer(x)
    PROVE  Kept /\ Alarm!Cancel(x) /\ calls' = calls
<1>1. ring' = Removed(ring, x) /\ stale' = stale \ {x} /\ UserRuns
      /\ UNCHANGED <<life, origin, calls>>
  BY RulesHold DEF RemoveTimer, Unlinking, Obeys
<1> QED BY <1>1, UnlinkKeeps

LEMMA RestartKeeps ==
    ASSUME IInv, Rules = AllRules, NEW x \in Timer, Restart(x)
    PROVE  Kept /\ Alarm!Set(x, origin[x]) /\ calls' = calls
<1>0. /\ ring' = Inserted(Removed(ring, x), x, origin[x]) /\ stale' = stale \ {x}
      /\ UserRuns /\ calls' = calls
  BY RulesHold DEF Restart, Unlinking, Obeys
<1>1. CallersInCallbacks' /\ Settled' /\ Owed' = Owed /\ ~(Len(calls') < Len(calls))
      /\ calls' \in Seq(Frame)
  BY <1>0, UserKeeps
<1>2. PICK n \in Word : n = origin[x]
  BY DEF IInv, TypeOK
<1>3. n \in Int /\ n % Modulus = n
  BY TimerAssumption, WordSame DEF Word, TimerAssumption
<1>4. PICK r : r = Removed(ring, x)
  OBVIOUS
<1>5. GoodRing(r) /\ \A e \in Range(r) : e.timer # x
  BY <1>4, TypeParts, RemovedTimes DEF IInv
<1>12. Times(r) = [Times(ring) EXCEPT ![x] = Off]
  BY <1>4, TypeParts, RemovedTimes DEF IInv
<1>6. ring' = Inserted(r, x, n)
  BY <1>0, <1>2, <1>4
<1>7. GoodRing(ring') /\ Times(ring') = [Times(r) EXCEPT ![x] = n % Modulus]
  <2>1. n \in Int
    BY <1>3
  <2>2. /\ GoodRing(Inserted(r, x, n))
        /\ Times(Inserted(r, x, n)) = [Times(r) EXCEPT ![x] = n % Modulus]
    BY <1>5, <2>1, InsertedTimes
  <2> QED BY <1>6, <2>2
<1>8. Times(ring') = [Times(ring) EXCEPT ![x] = n]
  BY <1>3, <1>12, <1>7, TimesType
<1>13. Apart'
  <2>1. \A y \in stale' : y # x /\ Times(ring')[y] = Times(ring)[y]
    BY <1>0, <1>8, TimesType
  <2> QED BY <1>0, <1>7, <2>1, ApartStays DEF IInv
<1>9. TypeOK'
  BY <1>1, <1>7, <1>13 DEF TypeOK, GoodRing, Once, Restart, IInv, Apart
<1>10. Alarm!Set(x, n)
  BY <1>1, <1>8, MappingIs DEF Alarm!Set
<1>11. Alarm!Next
  BY <1>10 DEF Alarm!Next, Alarm!Word, Word
<1> QED
  BY <1>0, <1>1, <1>2, <1>9, <1>10, <1>11 DEF Kept, IInv

\* No timer is in an empty ring.
LEMMA EmptyRing == GoodRing(<<>>) /\ Times(<<>>) = [x \in Timer |-> Off]
<1>1. Range(<<>>) = {} /\ DOMAIN <<>> = {} /\ <<>> \in Seq(Entry)
  BY DEF Range
<1> QED
  BY <1>1 DEF GoodRing, Once, Times

LEMMA TickDestroyKeeps == ASSUME IInv, Rules = AllRules, TickDestroy PROVE Kept
<1>0. ring' = <<>> /\ stale' = stale \cup Linked /\ UserRuns /\ calls' = calls
  BY RulesHold DEF TickDestroy, OneLeft, Obeys
<1>1. CallersInCallbacks' /\ Settled' /\ Owed' = Owed /\ ~(Len(calls') < Len(calls))
      /\ calls' \in Seq(Frame)
  BY <1>0, UserKeeps
<1>2. GoodRing(ring') /\ Times(ring') = [y \in Timer |-> Off]
  BY <1>0, EmptyRing
<1>5. Apart'
  <2>1. ring \in Seq(Entry) /\ stale \subseteq Timer
    BY DEF IInv, TypeOK
  <2>2. \A e \in Range(ring) : e.timer \in Timer
    BY <2>1, EntryTicks DEF Range
  <2>3. Range(ring') = {}
    BY <1>0 DEF Range
  <2>4. Linked \subseteq Timer /\ Linked' = {}
    BY <2>2, <2>3 DEF Linked
  <2> QED BY <1>0, <2>1, <2>4 DEF Apart
<1>3. TypeOK'
  BY <1>1, <1>2, <1>5 DEF TypeOK, GoodRing, Once, TickDestroy, IInv, Apart
<1>4. Alarm!CancelAll
  BY <1>1, <1>2, MappingIs DEF Alarm!CancelAll
<1> QED
  BY <1>1, <1>3, <1>4 DEF Kept, IInv, Alarm!Next

LEMMA IncreaseKeeps ==
    ASSUME IInv, NEW diff \in Int, diff % Modulus # 0, Increase(diff)
    PROVE  Kept /\ Alarm!Elapse(diff % Modulus)
<1>1. diff \in Int /\ diff % Modulus # 0
  OBVIOUS
<1>2. PICK n \in Word : n = diff % Modulus
  BY <1>1, WordIs
<1> DEFINE e == [left |-> n, phase |-> "charge"]
<1>3. e \in Frame /\ e.left = n /\ e.phase = "charge"
  BY DEF Frame
<1>4. calls' = Append(calls, e) /\ ring' = ring /\ calls \in Seq(Frame)
  BY <1>2 DEF Increase, IInv, TypeOK
<1> HIDE DEF e
<1>5. /\ calls' \in Seq(Frame) /\ Len(calls') = Len(calls) + 1 /\ calls'[Len(calls) + 1] = e
      /\ \A i \in 1 .. Len(calls) : calls'[i] = calls[i]
      /\ OwedOf(calls') = OwedOf(calls) + n /\ Len(calls) \in Nat
  BY <1>3, <1>4, OwedAppend, SeqElements
<1>6. Top' = e
  BY <1>5 DEF Top
<1>7. TypeOK'
  BY <1>5 DEF TypeOK, Increase, IInv, Linked
<1>8. CallersInCallbacks'
  <2>1. ASSUME NEW i \in 1 .. Len(calls) PROVE calls'[i].phase = "callback"
    <3>1. calls # <<>>
      BY <1>4, SeqElements
    <3>2. i # Len(calls) => calls[i].phase = "callback"
      BY <1>4, <3>1, LastPlace DEF IInv, CallersInCallbacks
    <3>3. calls[Len(calls)].phase = "callback"
      BY <3>1 DEF Increase, UserRuns, Top
    <3> QED BY <1>5, <3>2, <3>3
  <2>2. Len(calls') - 1 = Len(calls)
    BY <1>5
  <2> QED BY <2>1, <2>2 DEF CallersInCallbacks
<1>9. Settled'
  <2>1. Top'.left # 0
    BY <1>1, <1>2, <1>3, <1>6
  <2> QED BY <1>3, <1>6, <2>1 DEF Settled, InPhase
<1>10. Alarm!Elapse(n)
  BY <1>4, <1>5, MappingIs DEF Alarm!Elapse
<1>11. Alarm!Next
  BY <1>10 DEF Alarm!Next, Alarm!Word, Word
<1>12. ~(Len(calls') < Len(calls))
  BY <1>5
<1> QED
  BY <1>2, <1>7, <1>8, <1>9, <1>10, <1>11, <1>12 DEF Kept, IInv

\* The first timer of the ring is charged d.
LEMMA ChargeIsCharge ==
    ASSUME TypeOK, ring # <<>>, NEW d \in Nat, d <= Head(ring).tick,
           ring' = HeadCharged(ring, d),
           Owed \in Nat, d <= Owed, Owed' = Owed - d
    PROVE  /\ GoodRing(ring') /\ (\A x \in Timer : Times(ring)[x] = Off => Times(ring')[x] = Off)
           /\ ring' # <<>> /\ Head(ring').tick = Head(ring).tick - d
           /\ Alarm!Next /\ Alarm!Charge(d)
<1>1. GoodRing(ring)
  BY TypeParts
<1>2. PICK r : r = ring
  OBVIOUS
<1>3. PICK q : q = ring'
  OBVIOUS
<1>4. /\ GoodRing(q) /\ q # <<>> /\ Head(q).tick = Head(r).tick - d
      /\ \E x \in Timer : Times(r)[x] # Off
      /\ \A x \in Timer : Times(r)[x] # Off => d <= Times(r)[x]
      /\ Times(q) = [x \in Timer |-> IF Times(r)[x] # Off THEN Times(r)[x] - d ELSE Off]
  BY <1>1, <1>2, <1>3, ChargedTimes
<1>5. Remaining = Times(r) /\ Remaining' = Times(q)
  BY <1>2, <1>3, MappingIs
<1>6. Alarm!Charge(d)
  BY <1>4, <1>5 DEF Alarm!Charge, Alarm!Armed
<1>7. d \in Alarm!Word
  <2>1. Head(ring).tick \in Word
    <3>1. ring[1] \in Entry /\ Head(ring) = ring[1]
      BY <1>1, SeqElements, LastPlace DEF GoodRing
    <3> QED BY <3>1 DEF Entry
  <2> QED BY <2>1, TimerAssumption DEF Word, Alarm!Word, TimerAssumption
<1>8. Alarm!Next
  BY <1>6, <1>7 DEF Alarm!Next
<1> QED
  BY <1>2, <1>3, <1>4, <1>6, <1>8

\* The first timer of a ring
LEMMA HeadFacts ==
    ASSUME TypeOK, ring # <<>>
    PROVE  /\ Head(ring).tick \in Nat /\ Head(ring) = ring[1] /\ ring[1] \in Entry
           /\ HeadCharged(ring, Head(ring).tick) = [ring EXCEPT ![1].tick = 0]
           /\ Head(ring).tick \in Word
<1>1. ring \in Seq(Entry)
  BY DEF TypeOK
<1>2. 1 \in 1 .. Len(ring) /\ Head(ring) = ring[1]
  BY <1>1, SeqElements
<1>3. ring[1] \in Entry
  BY <1>1, <1>2, SeqElements
<1>4. Head(ring).tick \in Nat /\ Head(ring).tick \in Word
  BY <1>2, <1>3, TimerAssumption DEF Entry, Word, TimerAssumption
<1>5. Head(ring).tick - Head(ring).tick = 0
  BY <1>4
<1> QED
  BY <1>2, <1>3, <1>4, <1>5 DEF HeadCharged

LEMMA ChargeKeeps ==
    ASSUME IInv, Charge PROVE Kept /\ \E d \in Nat : Alarm!Charge(d)
<1> DEFINE tick == Head(ring).tick
           left == Top.left
<1>1. /\ TypeOK /\ CallersInCallbacks /\ calls # <<>> /\ ring # <<>> /\ left > 0
      /\ calls \in Seq(Frame) /\ Len(calls) \in Nat
  BY SeqElements DEF IInv, Charge, InPhase, TypeOK
<1>2. /\ left \in Nat /\ left \in Word /\ left < Modulus /\ tick \in Nat /\ tick \in Word
      /\ Modulus \in Nat /\ Modulus > 0 /\ 0 \in Word
      /\ HeadCharged(ring, tick) = [ring EXCEPT ![1].tick = 0]
  BY <1>1, TopFacts, HeadFacts, TimerAssumption DEF Word, TimerAssumption
<1>3. /\ tick < left => /\ ring' = HeadCharged(ring, tick)
                        /\ calls' = At(left - tick, "fire")
      /\ ~(tick < left) => /\ ring' = HeadCharged(ring, left)
                           /\ tick = left => calls' = At(0, "fire")
                           /\ tick # left => calls' = Front(calls)
  BY <1>2 DEF Charge, HeadCharged
<1>4. UNCHANGED <<stale, life, origin>>
  BY DEF Charge
<1> HIDE DEF tick, left
<1>5. ASSUME GoodRing(ring'), calls' \in Seq(Frame),
             \A x \in Timer : Times(ring)[x] = Off => Times(ring')[x] = Off
      PROVE  TypeOK'
  <2>1. Apart'
    BY <1>1, <1>4, <1>5, ApartStays DEF TypeOK
  <2> QED BY <1>1, <1>4, <1>5, <2>1 DEF TypeOK, GoodRing, Once, Apart
<1>6. CASE tick < left
  <2>1. left - tick \in Word
    BY <1>2, <1>6 DEF Word
  <2>2. /\ calls' \in Seq(Frame) /\ CallersInCallbacks' /\ Len(calls') = Len(calls)
        /\ Top'.phase = "fire"
        /\ OwedOf(calls') = OwedOf(calls) - left + (left - tick)
        /\ OwedOf(calls) \in Nat /\ left <= OwedOf(calls)
    BY <1>1, <1>3, <1>6, <2>1, AtFacts DEF left
  <2>3. /\ Owed \in Nat /\ tick <= Owed /\ Owed' = Owed - tick
    BY <1>2, <1>6, <2>2, MappingIs
  <2>4. /\ GoodRing(ring') /\ (\A x \in Timer : Times(ring)[x] = Off => Times(ring')[x] = Off)
        /\ Alarm!Next /\ Alarm!Charge(tick)
    BY <1>1, <1>2, <1>3, <1>6, <2>3, ChargeIsCharge DEF tick
  <2>5. Settled'
    BY <2>2 DEF Settled, InPhase
  <2>6. TypeOK' /\ ~(Len(calls') < Len(calls))
    BY <1>1, <1>5, <2>2, <2>4
  <2> QED BY <1>2, <2>2, <2>4, <2>5, <2>6 DEF Kept, IInv
<1>7. CASE tick = left
  <2>1. /\ calls' \in Seq(Frame) /\ CallersInCallbacks' /\ Len(calls') = Len(calls)
        /\ Top'.phase = "fire"
        /\ OwedOf(calls') = OwedOf(calls) - left + 0
        /\ OwedOf(calls) \in Nat /\ left <= OwedOf(calls)
    <3>1. calls' = At(0, "fire")
      BY <1>2, <1>3, <1>7
    <3> QED BY <1>1, <1>2, <3>1, AtFacts DEF left
  <2>2. /\ Owed \in Nat /\ left <= Owed /\ Owed' = Owed - left /\ left <= tick
    BY <1>2, <1>7, <2>1, MappingIs
  <2>3. ring' = HeadCharged(ring, left)
    BY <1>2, <1>3, <1>7
  <2>4. /\ GoodRing(ring') /\ (\A x \in Timer : Times(ring)[x] = Off => Times(ring')[x] = Off)
        /\ Alarm!Next /\ Alarm!Charge(left)
    BY <1>1, <1>2, <2>2, <2>3, ChargeIsCharge DEF tick
  <2>5. Settled'
    BY <2>1 DEF Settled, InPhase
  <2>6. TypeOK' /\ ~(Len(calls') < Len(calls))
    BY <1>1, <1>5, <2>1, <2>4
  <2> QED BY <1>2, <2>1, <2>4, <2>5, <2>6 DEF Kept, IInv
<1>8. CASE left < tick
  <2>1. /\ calls' \in Seq(Frame) /\ CallersInCallbacks'
        /\ ~InPhase("charge")' /\ ~InPhase("stopped")'
        /\ OwedOf(calls') = OwedOf(calls) - left
        /\ OwedOf(calls) \in Nat /\ left <= OwedOf(calls)
    <3>1. calls' = Front(calls)
      BY <1>2, <1>3, <1>8
    <3> QED BY <1>1, <3>1, FrontFacts DEF left
  <2>2. /\ Owed \in Nat /\ left <= Owed /\ Owed' = Owed - left /\ left <= tick
    BY <1>2, <1>8, <2>1, MappingIs
  <2>3. ring' = HeadCharged(ring, left)
    BY <1>2, <1>3, <1>8
  <2>4. /\ GoodRing(ring') /\ (\A x \in Timer : Times(ring)[x] = Off => Times(ring')[x] = Off)
        /\ Alarm!Next /\ Alarm!Charge(left) /\ Head(ring').tick = tick - left
    BY <1>1, <1>2, <2>2, <2>3, ChargeIsCharge DEF tick
  <2>5. Settled'
    BY <2>1 DEF Settled
  <2>6. TypeOK' /\ Head(ring').tick > 0
    BY <1>2, <1>5, <1>8, <2>1, <2>4
  <2> QED BY <1>2, <2>1, <2>4, <2>5, <2>6 DEF Kept, IInv
<1> QED
  BY <1>2, <1>6, <1>7, <1>8

\* The innermost call goes on in another phase, with the time it has.
LEMMA PhaseFacts ==
    ASSUME IInv, calls # <<>>, NEW at \in {"charge", "fire", "callback"},
           calls' = At(Top.left, at)
    PROVE  /\ calls' \in Seq(Frame) /\ CallersInCallbacks' /\ Owed' = Owed
           /\ Top'.phase = at /\ ~(Len(calls') < Len(calls))
<1>1. PICK left \in Word : left = Top.left
  BY TopFacts DEF IInv
<1>2. left \in Nat
  BY TimerAssumption DEF Word, TimerAssumption
<1>3. /\ calls' \in Seq(Frame) /\ CallersInCallbacks' /\ Len(calls') = Len(calls)
      /\ Top'.phase = at
      /\ OwedOf(calls') = OwedOf(calls) - Top.left + left /\ OwedOf(calls) \in Nat
  BY <1>1, AtFacts DEF IInv
<1>4. Len(calls) \in Nat
  BY SeqElements DEF IInv, TypeOK
<1> QED
  BY <1>1, <1>2, <1>3, <1>4, MappingIs

LEMMA FireKeeps == ASSUME IInv, Fire PROVE Kept /\ Alarm!Fire(Head(ring).timer)
<1>1. /\ calls # <<>> /\ ring # <<>> /\ Head(ring).tick = 0 /\ ring' = Tail(ring)
      /\ calls' = At(Top.left, "callback")
  BY DEF Fire, InPhase
<1>2. /\ calls' \in Seq(Frame) /\ CallersInCallbacks' /\ Owed' = Owed
      /\ Top'.phase = "callback" /\ ~(Len(calls') < Len(calls))
  BY <1>1, PhaseFacts
<1>3. PICK x : x = Head(ring).timer
  OBVIOUS
<1>4. /\ x \in Timer /\ Times(ring)[x] = 0 /\ GoodRing(ring')
      /\ Times(ring') = [Times(ring) EXCEPT ![x] = Off]
  BY <1>1, <1>3, TypeParts, FiredTimes DEF IInv
<1>5. Alarm!Fire(x)
  BY <1>2, <1>4, MappingIs DEF Alarm!Fire
<1>6. Alarm!Next
  BY <1>4, <1>5 DEF Alarm!Next
<1>9. Apart'
  <2>1. stale' = stale /\ \A y \in stale : y \in Timer
    BY DEF Fire, IInv, TypeOK
  <2>2. \A y \in stale' : Times(ring)[y] = Off => Times(ring')[y] = Off
    BY <1>4, <2>1, TimesType
  <2> QED BY <1>4, <2>1, <2>2, ApartStays DEF IInv
<1>7. TypeOK'
  BY <1>2, <1>4, <1>9 DEF TypeOK, GoodRing, Once, Fire, IInv, Apart
<1>8. Settled'
  BY <1>2 DEF Settled, InPhase
<1> QED
  BY <1>2, <1>3, <1>5, <1>6, <1>7, <1>8 DEF Kept, IInv

LEMMA CallbackReturnKeeps ==
    ASSUME IInv, CallbackReturn PROVE Kept /\ UNCHANGED <<Remaining, Owed>>
<1>1. calls # <<>> /\ ring' = ring /\ calls' = At(Top.left, "fire")
  BY DEF CallbackReturn, InPhase
<1>2. /\ calls' \in Seq(Frame) /\ CallersInCallbacks' /\ Owed' = Owed
      /\ Top'.phase = "fire" /\ ~(Len(calls') < Len(calls))
  BY <1>1, PhaseFacts
<1>3. TypeOK'
  BY <1>1, <1>2 DEF TypeOK, CallbackReturn, IInv, Linked
<1>4. Settled'
  BY <1>2 DEF Settled, InPhase
<1>5. Remaining' = Remaining
  BY <1>1, MappingIs
<1> QED
  BY <1>2, <1>3, <1>4, <1>5 DEF Kept, IInv

LEMMA FireDoneKeeps ==
    ASSUME IInv, FireDone PROVE Kept /\ UNCHANGED <<Remaining, Owed>>
<1>1. /\ calls # <<>> /\ ring' = ring /\ calls' = At(Top.left, "charge")
      /\ ring # <<>> => Head(ring).tick > 0
  BY DEF FireDone, InPhase
<1>2. /\ calls' \in Seq(Frame) /\ CallersInCallbacks' /\ Owed' = Owed
      /\ Top'.phase = "charge" /\ ~(Len(calls') < Len(calls))
  BY <1>1, PhaseFacts
<1>3. TypeOK'
  BY <1>1, <1>2 DEF TypeOK, FireDone, IInv, Linked
<1>4. Settled'
  BY <1>1, <1>2 DEF Settled, InPhase
<1>5. Remaining' = Remaining
  BY <1>1, MappingIs
<1> QED
  BY <1>2, <1>3, <1>4, <1>5 DEF Kept, IInv

LEMMA IncreaseReturnKeeps ==
    ASSUME IInv, IncreaseReturn
    PROVE  Kept /\ (Alarm!Forgive \/ UNCHANGED <<Remaining, Owed>>)
<1>1. /\ calls # <<>> /\ ring' = ring /\ calls' = Front(calls) /\ InPhase("charge")
      /\ Top.left = 0 \/ ring = <<>>
  BY DEF IncreaseReturn, InPhase
<1>2. /\ calls' \in Seq(Frame) /\ CallersInCallbacks'
      /\ ~InPhase("charge")' /\ ~InPhase("stopped")'
      /\ OwedOf(calls') = OwedOf(calls) - Top.left
      /\ OwedOf(calls) \in Nat /\ OwedOf(calls') \in Nat /\ Top.left \in Nat
  BY <1>1, FrontFacts, TopFacts DEF IInv
<1>3. TypeOK' /\ Settled'
  BY <1>1, <1>2 DEF TypeOK, IncreaseReturn, IInv, Settled, Linked
<1>4. Remaining' = Remaining
  BY <1>1, MappingIs
<1>5. ring # <<>> => Head(ring).tick > 0
  BY <1>1 DEF IInv, Settled
<1>6. CASE ring = <<>>
  <2>1. Alarm!Armed = {}
    BY <1>6, EmptyRing, MappingIs DEF Alarm!Armed
  <2>2. Owed' \in 0 .. Owed
    BY <1>2, MappingIs
  <2>3. Alarm!Forgive
    BY <1>4, <2>1, <2>2 DEF Alarm!Forgive
  <2> QED BY <1>1, <1>2, <1>3, <1>6, <2>3 DEF Kept, IInv, Alarm!Next
<1>7. CASE ring # <<>>
  <2>1. Owed' = Owed
    BY <1>1, <1>2, <1>7, MappingIs
  <2> QED BY <1>1, <1>2, <1>3, <1>4, <1>5, <2>1 DEF Kept, IInv
<1> QED
  BY <1>6, <1>7

LEMMA NextKeeps ==
    ASSUME Rules = AllRules, IInv, [Next]_vars PROVE Kept
<1>4. \A diff \in Elapsed : diff \in Int /\ diff % Modulus # 0
  BY TimerAssumption DEF TimerAssumption
<1>2. CASE Next
  BY <1>2, <1>4, InitKeeps, DestroyKeeps, RemoveKeeps, RestartKeeps, AddKeeps, IncreaseKeeps,
     TickDestroyKeeps, ChargeKeeps, FireKeeps, CallbackReturnKeeps, FireDoneKeeps,
     IncreaseReturnKeeps DEF Next
<1>3. CASE UNCHANGED vars
  <2>1. ring' = ring /\ stale' = stale /\ life' = life /\ origin' = origin /\ calls' = calls
    BY <1>3 DEF vars
  <2>2. IInv'
    BY <2>1 DEF IInv, TypeOK, Linked, CallersInCallbacks, Settled, InPhase, Top
  <2>3. UNCHANGED <<Remaining, Owed>>
    BY <2>1, MappingIs
  <2>4. ~(Len(calls') < Len(calls))
    BY <2>1, SeqElements DEF IInv, TypeOK
  <2> QED BY <2>2, <2>3, <2>4 DEF Kept
<1> QED
  BY <1>2, <1>3

-----------------------------------------------------------------------------
(***************************************************************************)
(* The theorems.                                                           *)
(***************************************************************************)

\* When the application starts and destroys timers that are not running, no timer is
\* linked twice, and no sum of ticks leaves a word: neither the additions of
\* myptm_tick_remove_timer nor the subtractions of myptm_tick_add_timer wrap.
THEOREM TimesFit == ASSUME Rules = AllRules PROVE Spec => []TypeOK
<1>1. IInv /\ [Next]_vars => IInv'
  BY NextKeeps DEF Kept
<1>2. IInv => TypeOK
  BY DEF IInv
<1> QED
  BY InitInv, <1>1, <1>2, PTL DEF Spec

\* When in addition at most one timer runs at the end of a loop, and that one is initialised
\* again before it is used, no call stops for good: the assertion of the insertion holds,
\* the loop of myptm_tick_destroy ends, and no running timer is cut off from the ring.
THEOREM TickerGoesOn == ASSUME Rules = AllRules PROVE Spec => []~InPhase("stopped")
<1>1. IInv /\ [Next]_vars => IInv'
  BY NextKeeps DEF Kept
<1>2. IInv => ~InPhase("stopped")
  BY DEF IInv, Settled
<1> QED
  BY InitInv, <1>1, <1>2, PTL DEF Spec

\* No call of myptm_tick_increase returns while a timer is due, at any depth of nesting.
THEOREM NoneIsLeftDue == ASSUME Rules = AllRules PROVE Spec => NoneLeftDue
<1>1. IInv /\ [Next]_vars => IInv'
  BY NextKeeps DEF Kept
<1>2. IInv /\ [Next]_vars =>
         [Len(calls') < Len(calls) /\ ring' # <<>> => Head(ring').tick > 0]_vars
  BY NextKeeps DEF Kept
<1> QED
  BY InitInv, <1>1, <1>2, PTL DEF Spec, NoneLeftDue

\* The list of differences implements MyptmAlarm: what is done to a timer leaves the
\* time of every other one alone, and each one fires when its own is used up.
THEOREM TickerIsAlarm == ASSUME Rules = AllRules PROVE Spec => ImplementsAlarm
<1>1. Init => Alarm!Init
  <2> SUFFICES ASSUME Init PROVE Alarm!Init
    OBVIOUS
  <2>1. Remaining = [x \in Timer |-> Off]
    BY EmptyRing, MappingIs DEF Init
  <2>2. Owed = 0
    <3>1. calls = <<>> /\ <<>> \in Seq(Frame) /\ Len(<<>>) = 0
      BY DEF Init
    <3>2. SumTo(Lefts(<<>>), 0) = 0
      BY <3>1, LeftsAre, SumToIs
    <3> QED BY <3>1, <3>2, MappingIs DEF OwedOf
  <2> QED BY <2>1, <2>2 DEF Alarm!Init
<1>2. IInv /\ [Next]_vars => IInv'
  BY NextKeeps DEF Kept
<1>3. IInv /\ [Next]_vars => [Alarm!Next]_(Alarm!vars)
  BY NextKeeps DEF Kept, Alarm!vars
<1> QED
  BY InitInv, <1>1, <1>2, <1>3, PTL DEF Spec, ImplementsAlarm, Alarm!Spec

-----------------------------------------------------------------------------
(***************************************************************************)
(* The program in time.                                                    *)
(***************************************************************************)
Half == Modulus \div 2

\* A time that an int holds, and that is not over before main has gone round once.
Short(ticks) == ticks + MaxWork < Modulus /\ ticks < Half

\* Of a timer that has left to go, is really due in d and was started s after the poll,
\* when l has passed since the last one, main goes on at m, and o is owed: its times agree,
\* it will not be later than one round of main, and main goes on before that.
InTime(left, d, s, l, m, o) ==
    /\ left \in Nat /\ Short(left)
    /\ left = d - s + l + o
    /\ d + l >= -MaxWork
    /\ m <= MaxWork + left

TimersOnTime ==
    \A x \in Timer :
        Remaining[x] # Off => InTime(Remaining[x], due[x], slack[x], lag, limit, Owed)

OriginsShort == \A x \in Timer : life[x] = "used" => Short(origin[x])

MainTypes ==
    /\ phase \in {"setup", "test", "poll", "dispatch", "sleep", "done"}
    /\ clip \subseteq Thread
    /\ state \in [Thread -> {"ready", "pending", "dead"}]
    /\ answer \in Int /\ lag \in Nat /\ limit \in Nat
    /\ due \in [Timer -> Int] /\ slack \in [Timer -> Nat]

\* The clock is at most where main lets it get, and outside a sleep that is one round.
ClockBounded ==
    /\ lag <= limit /\ limit < Modulus
    /\ phase \in {"setup", "poll", "dispatch"} => limit = MaxWork

CallsInPolls == calls # <<>> => phase = "poll"

AnswerKnown == (phase = "setup" => answer = 0) /\ (phase = "sleep" => answer > 0)

\* The parts that speak of timers, and those that speak of main
TimeInv == IInv /\ MainTypes /\ ClockBounded /\ CallsInPolls /\ OriginsShort /\ TimersOnTime

SysInv == TimeInv /\ AnswerKnown /\ NothingMissed

-----------------------------------------------------------------------------
(***************************************************************************)
(* Numbers.                                                                *)
(***************************************************************************)

LEMMA Numbers ==
    /\ Modulus \in Nat /\ Modulus > 0 /\ MaxWork \in Nat /\ MaxWork < Modulus
    /\ Half \in Nat /\ Half <= Modulus
    /\ Off \notin Word /\ \A n \in Nat : n < Modulus => n \in Word
<1>1. Modulus \in Nat /\ Modulus > 0 /\ Off \notin Word
  BY TimerAssumption DEF TimerAssumption
<1>2. MaxWork \in Nat /\ MaxWork < Modulus
  BY <1>1, SystemAssumption DEF SystemAssumption
<1>3. Half \in Nat /\ Half <= Modulus
  BY <1>1 DEF Half
<1>4. \A n \in Nat : n < Modulus => n \in Word
  BY <1>1 DEF Word
<1> QED BY <1>1, <1>2, <1>3, <1>4

LEMMA DelayIsShort ==
    ASSUME NEW tick \in Delays
    PROVE  tick \in Nat /\ tick > 0 /\ tick % Modulus = tick /\ Short(tick)
<1>1. tick \in Int /\ tick > 0 /\ tick + MaxWork < Modulus /\ tick < Modulus \div 2
  BY TimerAssumption, SystemAssumption DEF TimerAssumption, SystemAssumption
<1>2. tick \in Nat /\ tick < Modulus
  BY <1>1, Numbers
<1>3. tick % Modulus = tick
  BY <1>2, Numbers, WordSame
<1> QED BY <1>1, <1>2, <1>3 DEF Short, Half

LEMMA OwedIsNat == ASSUME TypeOK PROVE Owed \in Nat
<1>1. calls \in Seq(Frame)
  BY DEF TypeOK
<1>2. CASE calls = <<>>
  <2>1. <<>> \in Seq(Frame) /\ Len(<<>>) = 0
    BY <1>1, <1>2
  <2>2. SumTo(Lefts(<<>>), 0) = 0
    BY <2>1, LeftsAre, SumToIs
  <2> QED BY <1>2, <2>1, <2>2, MappingIs DEF OwedOf
<1>3. CASE calls # <<>>
  BY <1>1, <1>3, OwedSplits, MappingIs
<1> QED BY <1>2, <1>3

\* Nothing is owed when no call is active.
LEMMA NothingOwed == ASSUME calls = <<>> PROVE Owed = 0
<1>1. <<>> \in Seq(Frame) /\ Len(<<>>) = 0
  OBVIOUS
<1>2. SumTo(Lefts(<<>>), 0) = 0
  BY <1>1, LeftsAre, SumToIs
<1> QED BY <1>1, <1>2, MappingIs DEF OwedOf

\* The timers of the ring are those that have a time.
LEMMA LinkedHaveTime ==
    ASSUME TypeOK
    PROVE  /\ \A x \in Timer : x \in Linked <=> Remaining[x] # Off
           /\ \A x \in Timer : Remaining[x] # Off => Remaining[x] \in Nat
           /\ \A i \in 1 .. Len(ring) : ring[i].timer \in Timer
                 /\ Remaining[ring[i].timer] = Offset(ring, i) /\ Offset(ring, i) # Off
           /\ DOMAIN ring = 1 .. Len(ring)
<1>1. GoodRing(ring)
  BY TypeParts
<1>2. PICK r : r = ring
  OBVIOUS
<1>3. /\ r \in Seq(Entry) /\ Once(r) /\ DOMAIN r = 1 .. Len(r)
      /\ \A i \in 1 .. Len(r) : /\ r[i].timer \in Timer
                                /\ Offset(r, i) \in Nat /\ Offset(r, i) < Modulus
  BY <1>1, <1>2, RingFacts DEF GoodRing
<1>4. /\ \A i \in 1 .. Len(r) : Times(r)[r[i].timer] = Offset(r, i)
      /\ \A x \in Timer : (\A i \in 1 .. Len(r) : r[i].timer # x) => Times(r)[x] = Off
  BY <1>3, TimesAre
<1>5. \A i \in 1 .. Len(r) : Offset(r, i) # Off
  BY <1>3, Numbers
<1>6. \A x : x \in Linked <=> \E i \in 1 .. Len(r) : r[i].timer = x
  BY <1>2, <1>3 DEF Linked, Range
<1>7. Remaining = Times(r)
  BY <1>2, MappingIs
<1>8. ASSUME NEW x \in Timer
      PROVE  /\ x \in Linked <=> Times(r)[x] # Off
             /\ Times(r)[x] # Off => Times(r)[x] \in Nat
  <2>1. CASE \E i \in 1 .. Len(r) : r[i].timer = x
    BY <1>3, <1>4, <1>5, <1>6, <2>1
  <2>2. CASE \A i \in 1 .. Len(r) : r[i].timer # x
    BY <1>4, <1>6, <2>2
  <2> QED BY <2>1, <2>2
<1>9. \A i \in 1 .. Len(r) : /\ r[i].timer \in Timer /\ Offset(r, i) # Off
                             /\ Times(r)[r[i].timer] = Offset(r, i)
  BY <1>3, <1>4, <1>5
<1> QED BY <1>2, <1>3, <1>7, <1>8, <1>9

-----------------------------------------------------------------------------
(***************************************************************************)
(* What may happen to a timer that is in time.                             *)
(***************************************************************************)

LEMMA StartedInTime ==
    ASSUME NEW n \in Nat, Short(n), NEW l \in Nat, NEW o \in Nat
    PROVE  InTime(n, n, l + o, l, MaxWork, o)
BY Numbers DEF InTime

LEMMA ChargedInTime ==
    ASSUME NEW left \in Nat, NEW d \in Int, NEW s \in Int, NEW l \in Int, NEW o \in Int,
           InTime(left, d, s, l, MaxWork, o), NEW c \in Nat, c <= left
    PROVE  InTime(left - c, d, s, l, MaxWork, o - c)
BY Numbers DEF InTime, Short

LEMMA PassedInTime ==
    ASSUME NEW left \in Nat, NEW d \in Int, NEW s \in Int, NEW l \in Int, NEW o \in Int,
           NEW m \in Int, InTime(left, d, s, l, m, o)
    PROVE  InTime(left, d - 1, s, l + 1, m, o)
BY Numbers DEF InTime, Short

\* What has passed is owed now.
LEMMA PolledInTime ==
    ASSUME NEW left \in Nat, NEW d \in Int, NEW s \in Nat, NEW l \in Nat, NEW m \in Int,
           InTime(left, d, s, l, m, 0), l <= m
    PROVE  InTime(left, d, s, 0, MaxWork, l)
BY Numbers DEF InTime, Short

\* Main sleeps no longer than the timer has to go.
LEMMA SleptInTime ==
    ASSUME NEW left \in Nat, NEW d \in Int, NEW s \in Int, NEW l \in Nat, NEW o \in Int,
           InTime(left, d, s, l, MaxWork, o), l <= MaxWork, NEW a \in Int, a <= left
    PROVE  InTime(left, d, s, l, l + a, o)
BY Numbers DEF InTime, Short

-----------------------------------------------------------------------------
(***************************************************************************)
(* What may happen to all timers.                                          *)
(***************************************************************************)

LEMMA TimeTypes ==
    ASSUME TimeInv
    PROVE  /\ IInv /\ TypeOK /\ lag \in Nat /\ limit \in Nat /\ Owed \in Nat /\ lag <= limit
           /\ \A x \in Timer : due[x] \in Int /\ slack[x] \in Nat /\ slack[x] \in Int
           /\ \A x \in Timer : Remaining[x] # Off => Remaining[x] \in Nat
           /\ Remaining = [x \in Timer |-> Remaining[x]]
<1>1. TypeOK /\ IInv
  BY DEF TimeInv, IInv
<1>2. Remaining = [x \in Timer |-> Remaining[x]]
  BY TimesType, MappingIs
<1> QED BY <1>1, <1>2, OwedIsNat, LinkedHaveTime DEF TimeInv, MainTypes, ClockBounded

\* The application runs in the first round of main, or in one that a poll began.
LEMMA AppInRound ==
    ASSUME TimeInv, AppRuns
    PROVE  /\ UserRuns /\ limit = MaxWork /\ phase \in {"setup", "poll", "dispatch"}
BY DEF TimeInv, AppRuns, CallsInPolls, UserRuns, InPhase, ClockBounded

\* A timer is started,
LEMMA SetInTime ==
    ASSUME TimeInv, limit = MaxWork, NEW x \in Timer, NEW n \in Nat, Short(n),
           Alarm!Set(x, n), Timed(x, n, lag + Owed)
    PROVE  TimersOnTime'
<1>1. /\ due' = [due EXCEPT ![x] = n] /\ slack' = [slack EXCEPT ![x] = lag + Owed]
      /\ lag' = lag /\ limit' = limit /\ Owed' = Owed
      /\ Remaining' = [Remaining EXCEPT ![x] = n]
  BY DEF Alarm!Set, Timed
<1>2. ASSUME NEW y \in Timer, Remaining'[y] # Off
      PROVE  InTime(Remaining'[y], due'[y], slack'[y], lag, MaxWork, Owed)
  <2>1. CASE y = x
    <3>1. Remaining'[y] = n /\ due'[y] = n /\ slack'[y] = lag + Owed
      BY <1>1, <2>1, TimeTypes DEF TimeInv, MainTypes
    <3>2. InTime(n, n, lag + Owed, lag, MaxWork, Owed)
      BY TimeTypes, StartedInTime
    <3> QED BY <3>1, <3>2
  <2>2. CASE y # x
    <3>1. Remaining'[y] = Remaining[y] /\ due'[y] = due[y] /\ slack'[y] = slack[y]
      BY <1>1, <2>2, TimeTypes DEF TimeInv, MainTypes
    <3> QED BY <1>2, <3>1 DEF TimeInv, TimersOnTime
  <2> QED BY <2>1, <2>2
<1> QED BY <1>1, <1>2 DEF TimersOnTime

\* and leaves the ticker.
LEMMA GoneInTime ==
    ASSUME TimeInv, NEW x \in Timer, Remaining' = [Remaining EXCEPT ![x] = Off],
           Owed' = Owed, Forget(x)
    PROVE  TimersOnTime'
<1>1. /\ due' = [due EXCEPT ![x] = 0] /\ slack' = [slack EXCEPT ![x] = 0]
      /\ lag' = lag /\ limit' = limit
  BY DEF Forget, Timed
<1>2. ASSUME NEW y \in Timer, Remaining'[y] # Off
      PROVE  InTime(Remaining'[y], due'[y], slack'[y], lag, limit, Owed)
  <2>1. y # x
    BY <1>2, TimeTypes
  <2>2. Remaining'[y] = Remaining[y] /\ due'[y] = due[y] /\ slack'[y] = slack[y]
    BY <1>1, <2>1, TimeTypes DEF TimeInv, MainTypes
  <2> QED BY <1>2, <2>2 DEF TimeInv, TimersOnTime
<1> QED BY <1>1, <1>2 DEF TimersOnTime

\* The ticker goes on.
LEMMA ChargeInTime ==
    ASSUME TimeInv, limit = MaxWork, NEW c \in Nat, Alarm!Charge(c), UNCHANGED time
    PROVE  TimersOnTime'
<1>1. /\ due' = due /\ slack' = slack /\ lag' = lag /\ limit' = limit
      /\ Owed' = Owed - c
      /\ \A y \in Timer : Remaining[y] # Off => c <= Remaining[y]
      /\ \A y \in Timer : Remaining'[y] = IF Remaining[y] # Off THEN Remaining[y] - c ELSE Off
  BY DEF Alarm!Charge, Alarm!Armed, time
<1>2. ASSUME NEW y \in Timer, Remaining'[y] # Off
      PROVE  InTime(Remaining'[y], due[y], slack[y], lag, MaxWork, Owed - c)
  <2>1. Remaining[y] # Off /\ Remaining'[y] = Remaining[y] - c /\ c <= Remaining[y]
    BY <1>1, <1>2
  <2>2. InTime(Remaining[y], due[y], slack[y], lag, MaxWork, Owed)
    BY <2>1 DEF TimeInv, TimersOnTime
  <2>3. /\ Remaining[y] \in Nat /\ due[y] \in Int /\ slack[y] \in Int /\ lag \in Int
        /\ Owed \in Int
    BY <2>1, TimeTypes
  <2>4. InTime(Remaining[y] - c, due[y], slack[y], lag, MaxWork, Owed - c)
    BY <2>1, <2>2, <2>3, ChargedInTime
  <2> QED BY <2>1, <2>4
<1> QED BY <1>1, <1>2 DEF TimersOnTime

LEMMA SameInTime ==
    ASSUME TimeInv, UNCHANGED <<Remaining, Owed>>, UNCHANGED time
    PROVE  TimersOnTime'
<1>1. Remaining' = Remaining /\ Owed' = Owed /\ due' = due /\ slack' = slack /\ lag' = lag
      /\ limit' = limit
  BY DEF time
<1>2. TimersOnTime
  BY DEF TimeInv
<1> QED BY <1>1, <1>2 DEF TimersOnTime

LEMMA ForgivenInTime ==
    ASSUME TimeInv, Alarm!Forgive, UNCHANGED time
    PROVE  TimersOnTime'
BY DEF Alarm!Forgive, Alarm!Armed, TimersOnTime

-----------------------------------------------------------------------------
(***************************************************************************)
(* The actions.                                                            *)
(***************************************************************************)

\* A timer is started or forgotten, and the clock goes on.
LEMMA TimedTypes ==
    ASSUME TimeInv, NEW x \in Timer, NEW left \in Int, NEW early \in Nat,
           Timed(x, left, early)
    PROVE  /\ due' \in [Timer -> Int] /\ slack' \in [Timer -> Nat]
           /\ lag' = lag /\ limit' = limit
BY DEF TimeInv, MainTypes, Timed

\* A step of the application, which takes no time
TimersKept ==
    /\ IInv' /\ TimersOnTime' /\ OriginsShort'
    /\ due' \in [Timer -> Int] /\ slack' \in [Timer -> Nat]
    /\ lag' = lag /\ limit' = limit /\ calls' = calls

\* myptm_tick_add_timer, for the application or for the delay of a thread
LEMMA AddKeepsTime ==
    ASSUME TimeInv, Rules = AllRules, limit = MaxWork, NEW x \in Timer, NEW tick \in Delays,
           AddTimer(x, tick), Timed(x, tick, lag + Owed)
    PROVE  TimersKept
<1>1. tick \in Nat /\ tick \in Int /\ tick % Modulus = tick /\ Short(tick)
  BY DelayIsShort
<1>2. IInv' /\ Alarm!Set(x, tick)
  BY <1>1, AddKeeps DEF TimeInv, Kept
<1>3. TimersOnTime'
  BY <1>1, <1>2, SetInTime
<1>4. OriginsShort'
  <2>1. origin' = [origin EXCEPT ![x] = tick] /\ life' = [life EXCEPT ![x] = "used"]
    BY <1>1 DEF AddTimer
  <2> QED BY <1>1, <2>1 DEF OriginsShort, TimeInv, IInv, TypeOK
<1>5. lag + Owed \in Nat
  BY TimeTypes
<1>6. calls' = calls
  BY RulesHold DEF AddTimer, Obeys
<1> QED BY <1>1, <1>2, <1>3, <1>4, <1>5, <1>6, TimedTypes DEF TimersKept

LEMMA AppTimerKeeps ==
    ASSUME TimeInv, Rules = AllRules, NEW x \in Timer, AppTimer(x)
    PROVE  TimeInv'
<1>1. /\ UserRuns /\ limit = MaxWork /\ phase' = phase /\ answer' = answer /\ clip' = clip
      /\ state' = state
  BY AppInRound DEF AppTimer, main
<1>2. TimersKept
  <2>1. ASSUME NEW tick \in Delays, AddTimer(x, tick), Timed(x, tick, lag + Owed)
        PROVE  TimersKept
    BY <1>1, <2>1, AddKeepsTime
  <2>2. CASE Restart(x) /\ Timed(x, origin[x], lag + Owed)
    <3>1. origin[x] \in Nat /\ Short(origin[x])
      BY <2>2, TimerAssumption DEF Restart, TimeInv, OriginsShort, IInv, TypeOK, Word
    <3>2. IInv' /\ Alarm!Set(x, origin[x]) /\ calls' = calls
      BY <2>2, RestartKeeps DEF TimeInv, Kept
    <3>3. TimersOnTime'
      BY <1>1, <2>2, <3>1, <3>2, SetInTime
    <3>4. OriginsShort'
      BY <2>2 DEF OriginsShort, Restart, TimeInv
    <3>5. lag + Owed \in Nat /\ origin[x] \in Int
      BY <3>1, TimeTypes
    <3> QED BY <2>2, <3>2, <3>3, <3>4, <3>5, TimedTypes DEF TimersKept
  <2>3. CASE RemoveTimer(x) /\ Forget(x)
    <3>1. IInv' /\ Alarm!Cancel(x) /\ calls' = calls
      BY <2>3, RemoveKeeps DEF TimeInv, Kept
    <3>2. TimersOnTime'
      BY <2>3, <3>1, GoneInTime DEF Alarm!Cancel
    <3>3. OriginsShort'
      BY <2>3 DEF OriginsShort, RemoveTimer, TimeInv
    <3> QED BY <2>3, <3>1, <3>2, <3>3, TimedTypes DEF Forget, TimersKept
  <2> QED BY <2>1, <2>2, <2>3 DEF AppTimer
<1> QED BY <1>1, <1>2 DEF TimeInv, MainTypes, ClockBounded, CallsInPolls, TimersKept

LEMMA WakeOrStopKeeps ==
    ASSUME TimeInv, NEW t \in Thread, WakeOrStop(t)
    PROVE  TimeInv'
<1>1. t \in Timer
  BY SystemAssumption DEF SystemAssumption
<1>2. UserRuns /\ UNCHANGED <<stale, life, origin, calls, phase, answer>> /\ ring' = Removed(ring, t)
  BY AppInRound DEF WakeOrStop
<1>3. IInv' /\ Alarm!Cancel(t)
  BY <1>1, <1>2, UnlinkKeeps DEF TimeInv, Kept
<1>4. TimersOnTime'
  BY <1>1, <1>3, GoneInTime DEF Alarm!Cancel, WakeOrStop
<1>5. /\ due' \in [Timer -> Int] /\ slack' \in [Timer -> Nat] /\ lag' = lag /\ limit' = limit
  BY <1>1, TimedTypes DEF WakeOrStop, Forget
<1>6. state' \in [Thread -> {"ready", "pending", "dead"}] /\ clip' \subseteq Thread
  BY DEF WakeOrStop, TimeInv, MainTypes
<1> QED
  BY <1>2, <1>3, <1>4, <1>5, <1>6
     DEF TimeInv, MainTypes, ClockBounded, CallsInPolls, OriginsShort

LEMMA RunKeeps ==
    ASSUME TimeInv, Rules = AllRules, NEW t \in Thread, Run(t)
    PROVE  TimeInv'
<1>1. /\ phase = "dispatch" /\ limit = MaxWork /\ phase' = phase /\ answer' = answer
      /\ clip' \subseteq Thread
  BY DEF Run, TimeInv, MainTypes, ClockBounded
<1>2. state' \in [Thread -> {"ready", "pending", "dead"}]
  BY DEF Run, TimeInv, MainTypes
<1>3. TimersKept
  <2>1. CASE UNCHANGED <<vars, time>>
    <3>1. /\ ring' = ring /\ stale' = stale /\ life' = life /\ origin' = origin /\ calls' = calls
          /\ lag' = lag /\ limit' = limit /\ due' = due /\ slack' = slack
      BY <2>1 DEF vars, time
    <3>2. UNCHANGED <<Remaining, Owed>> /\ UNCHANGED time
      BY <3>1, MappingIs DEF time
    <3>3. IInv'
      BY <3>1 DEF TimeInv, IInv, TypeOK, Linked, CallersInCallbacks, Settled, InPhase, Top
    <3> QED BY <3>1, <3>2, <3>3, SameInTime
         DEF TimeInv, MainTypes, OriginsShort, TimersKept
  <2>2. ASSUME NEW tick \in Delays, AddTimer(t, tick), Timed(t, tick, lag + Owed)
        PROVE  TimersKept
    <3>1. t \in Timer
      BY SystemAssumption DEF SystemAssumption
    <3> QED BY <1>1, <2>2, <3>1, AddKeepsTime
  <2> QED BY <2>1, <2>2 DEF Run
<1> QED BY <1>1, <1>2, <1>3 DEF TimeInv, MainTypes, ClockBounded, CallsInPolls, TimersKept

\* A step that is none of the ticker's
LEMMA TickerStays ==
    ASSUME TimeInv, UNCHANGED vars
    PROVE  /\ IInv' /\ OriginsShort' /\ UNCHANGED <<Remaining, Owed>>
           /\ calls' = calls /\ ring' = ring
<1>1. ring' = ring /\ stale' = stale /\ life' = life /\ origin' = origin /\ calls' = calls
  BY DEF vars
<1>2. IInv'
  BY <1>1 DEF TimeInv, IInv, TypeOK, Linked, CallersInCallbacks, Settled, InPhase, Top
<1> QED BY <1>1, <1>2, MappingIs DEF TimeInv, OriginsShort

\* What has passed since the last poll is owed from now on: less than a word holds.
LEMMA PollKeeps ==
    ASSUME TimeInv, Poll
    PROVE  TimeInv'
<1>1. /\ phase = "test" /\ phase' = "poll" /\ clip' \subseteq Thread
      /\ lag' = 0 /\ limit' = MaxWork
      /\ answer' = answer /\ state' = state /\ due' = due /\ slack' = slack
  BY DEF Poll, PollStarts
<1>2. calls = <<>> /\ Owed = 0
  BY <1>1, NothingOwed DEF TimeInv, CallsInPolls
<1>3. lag \in Nat /\ lag \in Int /\ lag % Modulus = lag
  <2>1. lag \in Nat /\ limit \in Nat /\ lag <= limit /\ limit < Modulus
    BY DEF TimeInv, MainTypes, ClockBounded
  <2>2. lag < Modulus
    BY <2>1, Numbers
  <2> QED BY <2>1, <2>2, Numbers, WordSame
<1>4. IInv' /\ OriginsShort' /\ Remaining' = Remaining /\ Owed' = lag
  <2>1. CASE lag = 0
    <3>1. UNCHANGED vars
      BY <1>3, <2>1 DEF Poll, PollStarts
    <3> QED BY <1>2, <2>1, <3>1, TickerStays
  <2>2. CASE lag # 0
    <3>1. Increase(lag)
      BY <1>3, <2>2 DEF Poll, PollStarts
    <3>2. IInv' /\ Alarm!Elapse(lag)
      BY <1>3, <2>2, <3>1, IncreaseKeeps DEF TimeInv, Kept
    <3>3. Remaining' = Remaining /\ Owed' = 0 + lag
      BY <1>2, <3>2 DEF Alarm!Elapse
    <3> QED BY <1>3, <3>1, <3>2, <3>3 DEF Increase, TimeInv, OriginsShort
  <2> QED BY <2>1, <2>2
<1>5. ASSUME NEW x \in Timer, Remaining[x] # Off
      PROVE  InTime(Remaining[x], due[x], slack[x], 0, MaxWork, lag)
  <2>1. InTime(Remaining[x], due[x], slack[x], lag, limit, 0)
    BY <1>2, <1>5 DEF TimeInv, TimersOnTime
  <2>2. /\ Remaining[x] \in Nat /\ due[x] \in Int /\ slack[x] \in Nat /\ lag \in Nat
        /\ limit \in Int /\ lag <= limit
    BY <1>5, TimeTypes
  <2> QED BY <2>1, <2>2, PolledInTime
<1>6. TimersOnTime'
  BY <1>1, <1>4, <1>5 DEF TimersOnTime
<1> QED
  BY <1>1, <1>4, <1>6, Numbers DEF TimeInv, MainTypes, ClockBounded, CallsInPolls

\* The first timer of the ring is due, and leaves it.
LEMMA HeadFires ==
    ASSUME TimeInv, ring # <<>>, Head(ring).tick = 0, ring' = Tail(ring)
    PROVE  /\ Head(ring).timer \in Timer /\ Remaining[Head(ring).timer] = 0
           /\ GoodRing(ring') /\ Remaining' = [Remaining EXCEPT ![Head(ring).timer] = Off]
<1>1. PICK r : r = ring
  OBVIOUS
<1>2. GoodRing(r)
  BY <1>1, TypeParts DEF TimeInv, IInv
<1>3. /\ Head(r).timer \in Timer /\ Times(r)[Head(r).timer] = 0 /\ GoodRing(Tail(r))
      /\ Times(Tail(r)) = [Times(r) EXCEPT ![Head(r).timer] = Off]
  BY <1>1, <1>2, FiredTimes
<1> QED BY <1>1, <1>3, MappingIs

LEMMA TickKeeps ==
    ASSUME TimeInv, Tick
    PROVE  TimeInv'
<1>1. phase' = phase /\ answer' = answer /\ clip' = clip
  BY DEF Tick
<1>2. calls # <<>> /\ phase = "poll" /\ limit = MaxWork
  BY DEF Tick, Charge, FireDone, IncreaseReturn, CallbackReturn, Fire, InPhase, TimeInv,
         CallsInPolls, ClockBounded
<1>3. ASSUME UNCHANGED <<life, origin>> PROVE OriginsShort'
  BY <1>3 DEF TimeInv, OriginsShort
<1>4. CASE UNCHANGED <<state, time>> /\ (Charge \/ FireDone \/ IncreaseReturn \/ CallbackReturn)
  <2>1. /\ state' = state /\ lag' = lag /\ limit' = limit /\ due' = due /\ slack' = slack
        /\ UNCHANGED time
    BY <1>4 DEF time
  <2>2. UNCHANGED <<life, origin>>
    BY <1>4 DEF Charge, FireDone, IncreaseReturn, CallbackReturn
  <2>3. IInv' /\ TimersOnTime'
    <3>1. CASE Charge
      <4>1. IInv' /\ \E c \in Nat : Alarm!Charge(c)
        BY <3>1, ChargeKeeps DEF TimeInv, Kept
      <4> QED BY <1>2, <2>1, <4>1, ChargeInTime
    <3>2. CASE FireDone \/ CallbackReturn
      <4>1. IInv' /\ UNCHANGED <<Remaining, Owed>>
        BY <3>2, FireDoneKeeps, CallbackReturnKeeps DEF TimeInv, Kept
      <4> QED BY <2>1, <4>1, SameInTime
    <3>3. CASE IncreaseReturn
      <4>1. IInv' /\ (Alarm!Forgive \/ UNCHANGED <<Remaining, Owed>>)
        BY <3>3, IncreaseReturnKeeps DEF TimeInv, Kept
      <4> QED BY <2>1, <4>1, SameInTime, ForgivenInTime
    <3> QED BY <1>4, <3>1, <3>2, <3>3
  <2> QED BY <1>1, <1>2, <1>3, <2>1, <2>2, <2>3
             DEF TimeInv, MainTypes, ClockBounded, CallsInPolls
<1>5. CASE Fire /\ Forget(Head(ring).timer) /\ UNCHANGED state
  <2>1. UNCHANGED <<life, origin>> /\ ring # <<>> /\ Head(ring).tick = 0 /\ ring' = Tail(ring)
    BY <1>5 DEF Fire
  <2>2. PICK x : x = Head(ring).timer
    OBVIOUS
  <2>3. IInv' /\ x \in Timer /\ Remaining' = [Remaining EXCEPT ![x] = Off] /\ Owed' = Owed
    BY <1>5, <2>1, <2>2, FireKeeps, HeadFires DEF TimeInv, Kept, Alarm!Fire
  <2>4. Forget(x)
    BY <1>5, <2>2
  <2>5. TimersOnTime'
    BY <2>3, <2>4, GoneInTime
  <2>6. /\ due' \in [Timer -> Int] /\ slack' \in [Timer -> Nat] /\ lag' = lag /\ limit' = limit
    BY <2>3, <2>4, TimedTypes DEF Forget
  <2> QED BY <1>1, <1>2, <1>3, <1>5, <2>1, <2>3, <2>5, <2>6
             DEF TimeInv, MainTypes, ClockBounded, CallsInPolls
<1>6. CASE /\ InPhase("fire") /\ ring # <<>>
           /\ Head(ring).tick = 0 /\ Head(ring).timer \in Thread
           /\ ring' = Tail(ring)
           /\ TimedOut(Head(ring).timer) /\ Forget(Head(ring).timer)
           /\ UNCHANGED <<stale, life, origin, calls>>
  <2>1. PICK x : x = Head(ring).timer
    OBVIOUS
  <2>2. /\ x \in Timer /\ Remaining' = [Remaining EXCEPT ![x] = Off] /\ GoodRing(ring')
        /\ Owed' = Owed
    BY <1>6, <2>1, HeadFires, MappingIs
  <2>3. Forget(x)
    BY <1>6, <2>1
  <2>4. TimersOnTime'
    BY <2>2, <2>3, GoneInTime
  <2>5. /\ due' \in [Timer -> Int] /\ slack' \in [Timer -> Nat] /\ lag' = lag /\ limit' = limit
    BY <2>2, <2>3, TimedTypes DEF Forget
  <2>6. IInv'
    <3>3. Apart'
      <4>1. stale' = stale /\ TypeOK /\ \A y \in stale : y \in Timer
        BY <1>6 DEF TimeInv, IInv, TypeOK
      <4>2. \A y \in stale' : Times(ring)[y] = Off => Times(ring')[y] = Off
        BY <2>2, <4>1, MappingIs, TimesType
      <4> QED BY <2>2, <4>1, <4>2, ApartStays
    <3>1. TypeOK'
      BY <1>6, <2>2, <3>3 DEF TypeOK, GoodRing, Once, TimeInv, IInv, Apart
    <3>2. CallersInCallbacks' /\ Settled'
      BY <1>6 DEF TimeInv, IInv, CallersInCallbacks, Settled, InPhase, Top
    <3> QED BY <3>1, <3>2 DEF IInv
  <2>7. state' \in [Thread -> {"ready", "pending", "dead"}]
    BY <1>6 DEF TimedOut, TimeInv, MainTypes
  <2> QED BY <1>1, <1>2, <1>3, <1>6, <2>4, <2>5, <2>6, <2>7
             DEF TimeInv, MainTypes, ClockBounded, CallsInPolls
<1> QED BY <1>4, <1>5, <1>6 DEF Tick

-----------------------------------------------------------------------------
(***************************************************************************)
(* The steps of main, and the clock.                                       *)
(***************************************************************************)

\* A poll returns what the first timer has to go, as long as an int holds it: it is -1
\* only without a timer, and main does not sleep over any timer.
LEMMA NextTickIs ==
    ASSUME TimeInv
    PROVE  /\ NextTick \in Int
           /\ NextTick > 0 => \A t \in Thread : state[t] # "ready"
           /\ NextTick > 0 =>
                 \A x \in Timer : Remaining[x] # Off => NextTick <= Remaining[x]
           /\ NextTick > 0 => ring # <<>>
           /\ NextTick > 0 => NextTick + MaxWork < Modulus
           /\ NextTick = -1 => ring = <<>>
<1>1. GoodRing(ring)
  BY TypeParts DEF TimeInv, IInv
<1>2. CASE \E t \in Thread : state[t] = "ready"
  BY <1>2 DEF NextTick
<1>3. CASE ring = <<>>
  BY <1>3 DEF NextTick
<1>4. CASE ring # <<>> /\ \A t \in Thread : state[t] # "ready"
  <2>1. NextTick = AsInt(Head(ring).tick)
    BY <1>4 DEF NextTick
  <2>2. PICK r : r = ring
    OBVIOUS
  <2>3. /\ r \in Seq(Entry) /\ Len(r) \in Nat /\ 1 \in 1 .. Len(r) /\ Head(r) = r[1]
    BY <1>1, <1>4, <2>2, RingFacts, SeqElements
  <2>4. /\ Offset(r, 1) = Offset(r, 1 - 1) + r[1].tick /\ Offset(r, 0) = 0
        /\ r[1].tick \in Nat
    BY <1>1, <2>2, <2>3, RingFacts
  <2>5. PICK n \in Nat : n = Head(ring).tick /\ n = Offset(ring, 1)
    <3>1. 1 - 1 = 0 /\ 0 + r[1].tick = r[1].tick
      BY <2>4
    <3> QED BY <2>2, <2>3, <2>4, <3>1
  <2>6. ASSUME NEW x \in Timer, Remaining[x] # Off PROVE n <= Remaining[x]
    <3>1. x \in Linked
      BY <2>6, LinkedHaveTime DEF TimeInv, IInv
    <3>2. PICK i \in 1 .. Len(ring) : ring[i].timer = x
      BY <3>1, LinkedHaveTime DEF TimeInv, IInv, Linked, Range
    <3>3. Remaining[x] = Offset(ring, i)
      BY <3>2, LinkedHaveTime DEF TimeInv, IInv
    <3>4. i \in 0 .. Len(r) /\ 1 \in 0 .. i
      BY <2>2, <2>3, <3>2
    <3>5. Offset(r, 1) <= Offset(r, i)
      BY <2>3, <3>4, OffsetsGrow
    <3> QED BY <2>2, <2>5, <3>3, <3>5
  <2>7. Short(n)
    <3>1. Remaining[ring[1].timer] = n /\ ring[1].timer \in Timer /\ n # Off
      BY <2>2, <2>3, <2>5, LinkedHaveTime DEF TimeInv, IInv
    <3>2. InTime(n, due[ring[1].timer], slack[ring[1].timer], lag, limit, Owed)
      BY <3>1 DEF TimeInv, TimersOnTime
    <3> QED BY <3>2 DEF InTime
  <2>8. NextTick = n
    <3>1. ~(n >= Modulus \div 2)
      BY <2>7, Numbers DEF Short, Half
    <3> QED BY <2>1, <2>5, <3>1 DEF AsInt
  <2>9. n # -1 /\ n \in Int
    OBVIOUS
  <2> QED BY <1>4, <2>6, <2>7, <2>8, <2>9 DEF Short
<1> QED BY <1>2, <1>3, <1>4

LEMMA PollReturnsKeeps ==
    ASSUME TimeInv, PollReturns
    PROVE  TimeInv' /\ AnswerKnown' /\ NothingMissed'
<1>1. /\ phase = "dispatch" /\ answer' = NextTick /\ UNCHANGED vars
      /\ clip' = clip /\ state' = state /\ lag' = lag /\ due' = due /\ slack' = slack
      /\ answer' > 0 => phase' = "sleep" /\ limit' = lag + answer'
      /\ ~(answer' > 0) => phase' = "test" /\ limit' = limit
  BY DEF PollReturns
<1>2. /\ calls = <<>> /\ limit = MaxWork /\ lag \in Nat /\ limit \in Nat /\ lag <= limit
      /\ limit < Modulus
  BY <1>1 DEF TimeInv, CallsInPolls, MainTypes, ClockBounded
<1>3. /\ IInv' /\ OriginsShort' /\ Remaining' = Remaining /\ Owed' = Owed
      /\ calls' = calls /\ ring' = ring
  BY <1>1, TickerStays
<1>4. PICK a \in Int : a = NextTick
  BY NextTickIs
<1>5. /\ a > 0 => \A t \in Thread : state[t] # "ready"
      /\ a > 0 => \A x \in Timer : Remaining[x] # Off => a <= Remaining[x]
      /\ a > 0 => a + MaxWork < Modulus
      /\ a = -1 => ring = <<>>
  BY <1>4, NextTickIs
<1>6. CASE a > 0
  <2>1. /\ phase' = "sleep" /\ limit' = lag + a /\ answer' = a
    BY <1>1, <1>4, <1>6
  <2>2. lag + a \in Nat /\ lag <= lag + a /\ lag + a < Modulus
    BY <1>2, <1>5, <1>6, Numbers
  <2>3. ASSUME NEW x \in Timer, Remaining[x] # Off
        PROVE  InTime(Remaining[x], due[x], slack[x], lag, lag + a, Owed)
    <3>1. InTime(Remaining[x], due[x], slack[x], lag, MaxWork, Owed)
      BY <1>2, <2>3 DEF TimeInv, TimersOnTime
    <3>2. /\ Remaining[x] \in Nat /\ due[x] \in Int /\ slack[x] \in Int /\ Owed \in Int
          /\ a <= Remaining[x] /\ lag <= MaxWork
      BY <1>2, <1>5, <1>6, <2>3, TimeTypes
    <3> QED BY <1>2, <3>1, <3>2, SleptInTime
  <2>4. TimersOnTime'
    BY <1>1, <1>3, <2>1, <2>3 DEF TimersOnTime
  <2>5. TimeInv' /\ AnswerKnown'
    BY <1>1, <1>2, <1>3, <1>6, <2>1, <2>2, <2>4
       DEF TimeInv, MainTypes, ClockBounded, CallsInPolls, AnswerKnown
  <2>6. ASSUME NEW i \in DOMAIN ring PROVE a <= Offset(ring, i)
    <3>1. ring[i].timer \in Timer /\ Remaining[ring[i].timer] = Offset(ring, i)
          /\ Offset(ring, i) # Off
      BY LinkedHaveTime DEF TimeInv, IInv
    <3> QED BY <1>5, <1>6, <3>1
  <2>7. NothingMissed'
    BY <1>1, <1>3, <1>5, <1>6, <2>1, <2>6 DEF NothingMissed
  <2> QED BY <2>5, <2>7
<1>7. CASE ~(a > 0)
  <2>1. phase' = "test" /\ limit' = limit /\ answer' = a
    BY <1>1, <1>4, <1>7
  <2>2. TimersOnTime'
    BY <1>1, <1>3, <2>1 DEF TimersOnTime, TimeInv
  <2>3. TimeInv' /\ AnswerKnown'
    BY <1>1, <1>2, <1>3, <2>1, <2>2
       DEF TimeInv, MainTypes, ClockBounded, CallsInPolls, AnswerKnown
  <2>4. NothingMissed'
    BY <1>3, <1>5, <2>1 DEF NothingMissed
  <2> QED BY <2>3, <2>4
<1> QED BY <1>6, <1>7

LEMMA PassKeeps ==
    ASSUME SysInv, Pass
    PROVE  SysInv'
<1>1. /\ lag < limit /\ lag' = lag + 1 /\ limit' = limit /\ slack' = slack /\ UNCHANGED vars
      /\ phase' = phase /\ answer' = answer /\ clip' = clip /\ state' = state
      /\ due' = [x \in Timer |-> IF x \in Linked THEN due[x] - 1 ELSE 0]
  BY DEF Pass, main
<1>2. TimeInv /\ lag \in Nat /\ limit \in Nat /\ lag + 1 \in Nat
  BY DEF SysInv, TimeInv, MainTypes
<1>3. /\ IInv' /\ OriginsShort' /\ Remaining' = Remaining /\ Owed' = Owed
      /\ calls' = calls /\ ring' = ring
  BY <1>1, <1>2, TickerStays
<1>4. ASSUME NEW x \in Timer, Remaining[x] # Off
      PROVE  InTime(Remaining[x], due'[x], slack[x], lag + 1, limit, Owed)
  <2>1. due'[x] = due[x] - 1
    BY <1>1, <1>2, <1>4, LinkedHaveTime DEF TimeInv, IInv
  <2>2. InTime(Remaining[x], due[x], slack[x], lag, limit, Owed)
    BY <1>2, <1>4 DEF TimeInv, TimersOnTime
  <2>3. /\ Remaining[x] \in Nat /\ due[x] \in Int /\ slack[x] \in Int /\ lag \in Int
        /\ limit \in Int /\ Owed \in Int
    BY <1>2, <1>4, TimeTypes
  <2>4. InTime(Remaining[x], due[x] - 1, slack[x], lag + 1, limit, Owed)
    BY <2>2, <2>3, PassedInTime
  <2> QED BY <2>1, <2>4
<1>5. TimersOnTime'
  BY <1>1, <1>3, <1>4 DEF TimersOnTime
<1>6. due' \in [Timer -> Int]
  BY <1>1, <1>2, TimeTypes
<1>7. lag + 1 <= limit
  BY <1>1, <1>2
<1>8. TimeInv'
  BY <1>1, <1>2, <1>3, <1>5, <1>6, <1>7 DEF TimeInv, MainTypes, ClockBounded, CallsInPolls
<1>9. AnswerKnown' /\ NothingMissed'
  BY <1>1, <1>3 DEF SysInv, AnswerKnown, NothingMissed
<1> QED BY <1>8, <1>9 DEF SysInv

\* Main goes on, and neither the ticker nor the clock moves.
LEMMA MainKeeps ==
    ASSUME SysInv, EnterLoop \/ Dispatch \/ WakeUp \/ Leave \/ UNCHANGED sysVars
    PROVE  SysInv'
<1>1. /\ UNCHANGED <<vars, time>> /\ answer' = answer /\ clip' = clip /\ state' = state
      /\ \/ phase = "setup" /\ phase' = "test"
         \/ phase = "poll" /\ calls = <<>> /\ phase' = "dispatch"
         \/ phase = "sleep" /\ phase' = "test"
         \/ phase = "test" /\ LoopEmpty /\ phase' = "done"
         \/ phase' = phase
  BY DEF EnterLoop, Dispatch, WakeUp, Leave, sysVars, main
<1>2. UNCHANGED vars /\ UNCHANGED time /\ TimeInv
  BY <1>1 DEF SysInv
<1>3. lag' = lag /\ limit' = limit /\ due' = due /\ slack' = slack
  BY <1>2 DEF time
<1>4. /\ IInv' /\ OriginsShort' /\ UNCHANGED <<Remaining, Owed>>
      /\ calls' = calls /\ ring' = ring
  BY <1>2, TickerStays
<1>5. TimersOnTime'
  BY <1>2, <1>4, SameInTime
<1>6. TimeInv'
  BY <1>1, <1>2, <1>3, <1>4, <1>5 DEF TimeInv, MainTypes, ClockBounded, CallsInPolls
<1>7. AnswerKnown' /\ NothingMissed'
  <2>1. /\ AnswerKnown /\ NothingMissed
        /\ answer > 0 \/ answer = 0 => answer # -1
    BY DEF SysInv, TimeInv, MainTypes
  <2>2. LoopEmpty => ring = <<>> /\ \A t \in Thread : state[t] # "ready"
    BY DEF LoopEmpty
  <2> QED BY <1>1, <1>4, <2>1, <2>2 DEF AnswerKnown, NothingMissed
<1> QED BY <1>6, <1>7 DEF SysInv

LEMMA SysInitInv == SysInit => SysInv
<1> SUFFICES ASSUME SysInit PROVE SysInv
  OBVIOUS
<1>1. /\ Init /\ phase = "setup" /\ answer = 0 /\ clip = {} /\ lag = 0 /\ limit = MaxWork
      /\ state = [t \in Thread |-> "ready"]
      /\ due = [x \in Timer |-> 0] /\ slack = [x \in Timer |-> 0]
  BY DEF SysInit
<1>2. IInv /\ ring = <<>> /\ calls = <<>> /\ life = [x \in Timer |-> "init"]
  BY <1>1, InitInv DEF Init
<1>3. TimersOnTime
  BY <1>2, EmptyRing, MappingIs DEF TimersOnTime
<1>4. OriginsShort /\ CallsInPolls
  BY <1>2 DEF OriginsShort, CallsInPolls
<1>5. MainTypes /\ ClockBounded
  BY <1>1, Numbers DEF MainTypes, ClockBounded
<1>6. AnswerKnown /\ NothingMissed
  BY <1>1 DEF AnswerKnown, NothingMissed
<1> QED BY <1>2, <1>3, <1>4, <1>5, <1>6 DEF SysInv, TimeInv

\* In setup, a poll and its entries main neither sleeps nor tests.
LEMMA MainBusy ==
    ASSUME phase' \in {"poll", "dispatch"} \/ (phase' = "setup" /\ answer' = 0)
    PROVE  AnswerKnown' /\ NothingMissed'
BY DEF AnswerKnown, NothingMissed

LEMMA SysNextInv ==
    ASSUME Rules = AllRules, SysInv, [SysNext]_sysVars
    PROVE  SysInv'
<1>1. TimeInv /\ AnswerKnown
  BY DEF SysInv
<1>2. ASSUME NEW x \in Timer, AppTimer(x) PROVE SysInv'
  <2>1. TimeInv'
    BY <1>1, <1>2, AppTimerKeeps
  <2>2. phase \in {"setup", "poll", "dispatch"} /\ phase' = phase /\ answer' = answer
    BY <1>1, <1>2, AppInRound DEF AppTimer, main
  <2> QED BY <1>1, <2>1, <2>2, MainBusy DEF SysInv, AnswerKnown
<1>3. ASSUME NEW t \in Thread, WakeOrStop(t) PROVE SysInv'
  <2>1. TimeInv'
    BY <1>1, <1>3, WakeOrStopKeeps
  <2>2. phase \in {"setup", "poll", "dispatch"} /\ phase' = phase /\ answer' = answer
    BY <1>1, <1>3, AppInRound DEF WakeOrStop
  <2> QED BY <1>1, <2>1, <2>2, MainBusy DEF SysInv, AnswerKnown
<1>4. ASSUME NEW t \in Thread, Run(t) PROVE SysInv'
  <2>1. TimeInv'
    BY <1>1, <1>4, RunKeeps
  <2>2. phase' = "dispatch"
    BY <1>4 DEF Run
  <2> QED BY <2>1, <2>2, MainBusy DEF SysInv
<1>5. CASE Poll
  <2>1. phase' = "poll"
    BY <1>5 DEF Poll, PollStarts
  <2> QED BY <1>1, <1>5, <2>1, PollKeeps, MainBusy DEF SysInv
<1>6. CASE Tick
  <2>1. phase' = "poll"
    BY <1>1, <1>6 DEF Tick, Charge, FireDone, IncreaseReturn, CallbackReturn, Fire, InPhase,
                      TimeInv, CallsInPolls
  <2> QED BY <1>1, <1>6, <2>1, TickKeeps, MainBusy DEF SysInv
<1>7. CASE PollReturns
  BY <1>1, <1>7, PollReturnsKeeps DEF SysInv
<1>8. CASE Pass
  BY <1>8, PassKeeps
<1>9. CASE EnterLoop \/ Dispatch \/ WakeUp \/ Leave \/ Done \/ UNCHANGED sysVars
  BY <1>9, MainKeeps DEF Done
<1> QED BY <1>2, <1>3, <1>4, <1>5, <1>6, <1>7, <1>8, <1>9 DEF SysNext

-----------------------------------------------------------------------------
(***************************************************************************)
(* The theorems.                                                           *)
(***************************************************************************)

\* The sum of the ticks up to a timer is its real time, but for what had passed unnoticed
\* when it was started and what a poll has yet to charge: no tick is lost or charged
\* twice, whatever the application starts and removes, wherever it does.
THEOREM TimesAgreeHolds == ASSUME Rules = AllRules PROVE SysSpec => []TimesAgree
<1>1. SysInv => TimesAgree
  <2> SUFFICES ASSUME SysInv, NEW i \in DOMAIN ring
               PROVE  Offset(ring, i) = due[ring[i].timer] - slack[ring[i].timer] + lag + Owed
    BY DEF TimesAgree
  <2>1. /\ ring[i].timer \in Timer /\ Remaining[ring[i].timer] = Offset(ring, i)
        /\ Offset(ring, i) # Off
    BY LinkedHaveTime DEF SysInv, TimeInv, IInv
  <2>2. InTime(Offset(ring, i), due[ring[i].timer], slack[ring[i].timer], lag, limit, Owed)
    BY <2>1 DEF SysInv, TimeInv, TimersOnTime
  <2> QED BY <2>2 DEF InTime
<1> QED
  BY SysInitInv, SysNextInv, <1>1, PTL DEF SysSpec

\* main sleeps over nothing, and leaves its loop only when nothing is left to do.
THEOREM NothingIsMissed == ASSUME Rules = AllRules PROVE SysSpec => []NothingMissed
<1>1. SysInv => NothingMissed
  BY DEF SysInv
<1> QED
  BY SysInitInv, SysNextInv, <1>1, PTL DEF SysSpec

\* A timer fires at most as early as its start was late after a poll, and at most one round
\* of main late.
THEOREM FiresInTime == ASSUME Rules = AllRules PROVE SysSpec => Punctual
<1> DEFINE Fired == InPhase("fire") /\ ring' # ring
           x == Head(ring).timer
           Early == due[x] + lag \in -MaxWork .. slack[x]
<1>1. SysInv /\ [SysNext]_sysVars /\ Fired => Early
  <2> SUFFICES ASSUME SysInv, [SysNext]_sysVars, Fired PROVE Early
    OBVIOUS
  <2>1. TimeInv /\ phase = "poll" /\ calls # <<>> /\ ~InPhase("charge") /\ ~InPhase("callback")
    BY DEF SysInv, TimeInv, CallsInPolls, InPhase
  <2>2. ~(UNCHANGED vars)
    BY DEF vars
  <2>3. ~(\E y \in Timer : AppTimer(y)) /\ ~(\E t \in Thread : WakeOrStop(t) \/ Run(t))
    BY <2>1 DEF AppTimer, WakeOrStop, Run, AppRuns
  <2>4. Tick
    BY <2>1, <2>2, <2>3 DEF SysNext, EnterLoop, Poll, Dispatch, PollReturns, WakeUp, Leave, Done,
                            Pass, sysVars
  <2>5. ring # <<>> /\ Head(ring).tick = 0 /\ ring' = Tail(ring)
    BY <2>1, <2>4 DEF Tick, Charge, FireDone, IncreaseReturn, CallbackReturn, Fire
  <2>6. x \in Timer /\ Remaining[x] = 0
    BY <2>1, <2>5, HeadFires
  <2>7. 0 # Off
    BY Numbers
  <2>8. InTime(0, due[x], slack[x], lag, limit, Owed)
    BY <2>1, <2>6, <2>7 DEF TimeInv, TimersOnTime
  <2>9. due[x] \in Int /\ slack[x] \in Nat /\ lag \in Nat /\ Owed \in Nat /\ MaxWork \in Nat
    BY <2>1, <2>6, TimeTypes, Numbers
  <2> HIDE DEF x
  <2> QED BY <2>8, <2>9 DEF InTime
<1>2. SysInv /\ [SysNext]_sysVars => [Fired => Early]_sysVars
  BY <1>1
<1> QED
  BY SysInitInv, SysNextInv, <1>2, PTL DEF SysSpec, Punctual
=============================================================================
