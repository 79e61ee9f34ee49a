--------------------------- MODULE RateLimitProofs ---------------------------
(* Proofs about RateLimit, for any limits, any keys and any number of threads: *)
(* the two limiters keep what they promise, up to the wait for their lock.     *)
EXTENDS RateLimit, FiniteSetTheorems, WellFoundedInduction, SequenceTheorems, TLAPS

-----------------------------------------------------------------------------
(* The operators of the model *)

\* The sizes of the limiters and the wait for the lock are numbers.
LEMMA Sizes ==
    /\ Limit \in Nat /\ Limit > 0 /\ MaxKeys \in Nat /\ MaxEntries \in Nat
    /\ Delay \in Nat /\ Window \in Nat /\ Interval \in Nat /\ Delay < Window /\ Delay < Interval
  BY ConstantsAssumption

\* An element of a sequence of numbers is a number.
LEMMA ElementNat ==
    ASSUME NEW s \in Seq(Nat), NEW i \in 1 .. Len(s)
    PROVE  s[i] \in Nat
  OBVIOUS

\* The time x of a call whose event y is dropped, and the time w of one whose event stays,
\* or follows (v) one that stays (u).
LEMMA DroppedTime ==
    ASSUME NEW x \in Nat, NEW y \in Nat, NEW n \in Nat, NEW c \in Int,
           x <= y + Delay, y <= c, c <= n - Window
    PROVE  x <= n - Window + Delay
  BY Sizes
LEMMA KeptTime ==
    ASSUME NEW u \in Nat, NEW v \in Nat, NEW w \in Nat, NEW n \in Nat, NEW c \in Int,
           u > c, u <= v, v <= w, w <= n, c >= n - Window - Delay
    PROVE  w >= n - Window - Delay + 1
  BY Sizes

\* A set of natural numbers that is not empty has a least element.
LEMMA LeastElement ==
    ASSUME NEW S \in SUBSET Nat, S # {}
    PROVE  \E m \in S : \A i \in S : m <= i
<1>1. PICK m \in S : \A i \in S : ~ (<<i, m>> \in OpToRel(<, Nat))
  BY NatLessThanWellFounded, WFMin, Zenon
<1>2. \A i \in S : ~ (i < m)
  BY <1>1 DEF OpToRel
<1> QED
  BY <1>2

\* Min of such a set is that element.
LEMMA MinIsLeast ==
    ASSUME NEW S \in SUBSET Nat, S # {}
    PROVE  Min(S) \in S /\ \A i \in S : Min(S) <= i
  BY LeastElement DEF Min

\* What is left of a deque when the events up to the cutoff are popped from its front:
\* the events from some m on, and the first of them is after the cutoff.
LEMMA PoppedIsSuffix ==
    ASSUME NEW s \in Seq(Nat), NEW c \in Int
    PROVE  \E m \in 1 .. Len(s) + 1 :
             /\ Popped(s, c) = SubSeq(s, m, Len(s))
             /\ \A i \in 1 .. m - 1 : s[i] <= c
             /\ m <= Len(s) => s[m] > c
<1> DEFINE S == {i \in DOMAIN s : s[i] > c} \union {Len(s) + 1}
           m == Min(S)
<1>1. Len(s) \in Nat /\ DOMAIN s = 1 .. Len(s)
  OBVIOUS
<1>2. S \in SUBSET Nat /\ S # {}
  BY <1>1
<1>3. m \in S /\ \A i \in S : m <= i
  <2> HIDE DEF S
  <2> QED
    BY <1>2, MinIsLeast
<1>4. m \in 1 .. Len(s) + 1
  <2> HIDE DEF m
  <2> QED
    BY <1>1, <1>3
<1>5. \A i \in 1 .. m - 1 : s[i] <= c
  <2> HIDE DEF m
  <2> SUFFICES ASSUME NEW i \in 1 .. m - 1 PROVE s[i] <= c
    OBVIOUS
  <2>1. i \in DOMAIN s /\ i \notin S
    BY <1>1, <1>3, <1>4
  <2> QED
    BY <2>1
<1>6. m <= Len(s) => s[m] > c
  <2> HIDE DEF m
  <2> QED
    BY <1>1, <1>3, <1>4
<1>7. Popped(s, c) = SubSeq(s, m, Len(s))
  BY DEF Popped
<1> QED
  <2> HIDE DEF m
  <2> QED
    BY <1>4, <1>5, <1>6, <1>7

\* The elements of a suffix.
LEMMA SuffixElements ==
    ASSUME NEW s \in Seq(Nat), NEW d \in 0 .. Len(s)
    PROVE  /\ SubSeq(s, d + 1, Len(s)) \in Seq(Nat)
           /\ Len(SubSeq(s, d + 1, Len(s))) = Len(s) - d
           /\ \A i \in 1 .. Len(s) - d : SubSeq(s, d + 1, Len(s))[i] = s[d + i]
  OBVIOUS

\* Popped, element by element: d events are dropped.
LEMMA PoppedElements ==
    ASSUME NEW s \in Seq(Nat), NEW c \in Int
    PROVE  \E d \in 0 .. Len(s) :
             /\ Popped(s, c) \in Seq(Nat)
             /\ Len(Popped(s, c)) = Len(s) - d
             /\ \A i \in 1 .. Len(s) - d : Popped(s, c)[i] = s[d + i]
             /\ \A i \in 1 .. d : s[i] <= c
             /\ d < Len(s) => s[d + 1] > c
<1>1. PICK m \in 1 .. Len(s) + 1 :
             /\ Popped(s, c) = SubSeq(s, m, Len(s))
             /\ \A i \in 1 .. m - 1 : s[i] <= c
             /\ m <= Len(s) => s[m] > c
  BY PoppedIsSuffix
<1>2. PICK d \in 0 .. Len(s) : m = d + 1
  BY Len(s) \in Nat
<1>3. Popped(s, c) = SubSeq(s, d + 1, Len(s))
  BY <1>1, <1>2
<1>4. /\ Popped(s, c) \in Seq(Nat)
      /\ Len(Popped(s, c)) = Len(s) - d
      /\ \A i \in 1 .. Len(s) - d : Popped(s, c)[i] = s[d + i]
  BY <1>3, SuffixElements
<1>5. /\ \A i \in 1 .. d : s[i] <= c
      /\ d < Len(s) => s[d + 1] > c
  BY <1>1, <1>2, Len(s) \in Nat
<1> QED
  BY <1>4, <1>5

-----------------------------------------------------------------------------
(* What the limiters keep of a key, as its calls are let in *)

\* Time passes.
LEMMA TracksLater ==
    ASSUME NEW e \in Seq(Nat), NEW a \in Seq(Nat), NEW n \in Nat, NEW m \in Nat, n <= m,
           Tracks(e, a, n), Ordered(a, n)
    PROVE  Tracks(e, a, m) /\ Ordered(a, m)
  BY Sizes DEF Tracks, Ordered

\* Events are dropped by a clock that is not ahead: they have left the window.
LEMMA TracksPopped ==
    ASSUME NEW e \in Seq(Nat), NEW a \in Seq(Nat), NEW n \in Nat, NEW c \in Int,
           c <= n - Window, Tracks(e, a, n), Ordered(a, n)
    PROVE  Popped(e, c) \in Seq(Nat) /\ Tracks(Popped(e, c), a, n)
<1> DEFINE p == Popped(e, c)
<1>1. PICK d \in 0 .. Len(e) :
             /\ p \in Seq(Nat)
             /\ Len(p) = Len(e) - d
             /\ \A i \in 1 .. Len(e) - d : p[i] = e[d + i]
             /\ \A i \in 1 .. d : e[i] <= c
  BY PoppedElements
<1> HIDE DEF p
<1> USE Sizes
<1>0. Len(e) \in Nat /\ Len(a) \in Nat /\ Len(e) <= Len(a)
  BY DEF Tracks
<1>2. Len(p) <= Len(a)
  BY <1>0, <1>1
<1>3. ASSUME NEW i \in 1 .. Len(p)
      PROVE  p[i] <= a[Len(a) - Len(p) + i] /\ a[Len(a) - Len(p) + i] <= p[i] + Delay
  <2>1. p[i] = e[d + i] /\ d + i \in 1 .. Len(e)
    BY <1>0, <1>1
  <2>2. Len(a) - Len(e) + (d + i) = Len(a) - Len(p) + i
    BY <1>0, <1>1
  <2> QED
    BY <2>1, <2>2 DEF Tracks
<1>4. ASSUME NEW i \in 1 .. Len(a) - Len(p)
      PROVE  a[i] <= n - Window + Delay
  <2>0. Len(a) - Len(p) = Len(a) - Len(e) + d
    BY <1>0, <1>1
  <2>1. CASE i <= Len(a) - Len(e)
    BY <1>0, <2>1 DEF Tracks
  <2>2. CASE i > Len(a) - Len(e)
    <3>1. i - (Len(a) - Len(e)) \in 1 .. d
      BY <1>0, <2>0, <2>2
    <3>2. PICK j \in 1 .. d : j = i - (Len(a) - Len(e))
      BY <3>1
    <3>3. i = Len(a) - Len(e) + j /\ j \in 1 .. Len(e) /\ i \in 1 .. Len(a)
      BY <1>0, <3>2
    <3>4. a[i] <= e[j] + Delay
      BY <3>3 DEF Tracks
    <3>5. e[j] \in Nat /\ a[i] \in Nat
      BY <3>3, ElementNat
    <3>6. e[j] <= c
      BY <1>1
    <3> QED
      BY <3>4, <3>5, <3>6, DroppedTime
  <2> QED
    BY <1>0, <2>1, <2>2
<1> QED
  BY <1>1, <1>2, <1>3, <1>4 DEF p, Tracks

\* A call is let in: its event is kept, its time was read at most Delay ago.
LEMMA TracksAppend ==
    ASSUME NEW e \in Seq(Nat), NEW a \in Seq(Nat), NEW n \in Nat, NEW t \in Nat,
           t <= n, n <= t + Delay, Tracks(e, a, n), Ordered(a, n)
    PROVE  Tracks(Append(e, t), Append(a, n), n)
<1> DEFINE f == Append(e, t)
           b == Append(a, n)
<1>1. /\ f \in Seq(Nat) /\ Len(f) = Len(e) + 1 /\ f[Len(e) + 1] = t
      /\ \A i \in 1 .. Len(e) : f[i] = e[i]
  OBVIOUS
<1>2. /\ b \in Seq(Nat) /\ Len(b) = Len(a) + 1 /\ b[Len(a) + 1] = n
      /\ \A i \in 1 .. Len(a) : b[i] = a[i]
  OBVIOUS
<1> HIDE DEF f, b
<1> USE Sizes
<1>0. Len(e) \in Nat /\ Len(a) \in Nat /\ Len(e) <= Len(a)
  BY DEF Tracks
<1>3. Len(b) - Len(f) = Len(a) - Len(e) /\ Len(f) <= Len(b)
  BY <1>0, <1>1, <1>2
<1>4. ASSUME NEW i \in 1 .. Len(f)
      PROVE  f[i] <= b[Len(b) - Len(f) + i] /\ b[Len(b) - Len(f) + i] <= f[i] + Delay
  <2>1. CASE i = Len(e) + 1
    <3>1. f[i] = t /\ b[Len(b) - Len(f) + i] = n
      BY <1>0, <1>1, <1>2, <1>3, <2>1
    <3> QED
      BY <3>1
  <2>2. CASE i # Len(e) + 1
    <3>0. i \in 1 .. Len(e) /\ Len(a) - Len(e) + i \in 1 .. Len(a)
      BY <1>0, <1>1, <2>2
    <3>1. PICK j \in 1 .. Len(a) : j = Len(a) - Len(e) + i
      BY <3>0
    <3>2. f[i] = e[i] /\ b[j] = a[j]
      BY <1>1, <1>2, <3>0
    <3>3. e[i] <= a[j] /\ a[j] <= e[i] + Delay
      BY <3>0, <3>1 DEF Tracks
    <3> QED
      BY <1>3, <3>1, <3>2, <3>3
  <2> QED
    BY <2>1, <2>2
<1>5. ASSUME NEW i \in 1 .. Len(b) - Len(f)
      PROVE  b[i] <= n - Window + Delay
  <2>1. i \in 1 .. Len(a) /\ i \in 1 .. Len(a) - Len(e)
    BY <1>0, <1>3
  <2> QED
    BY <1>2, <2>1 DEF Tracks
<1> QED
  BY <1>3, <1>4, <1>5 DEF f, b, Tracks

\* A call is let in now: the times are still in order.
LEMMA OrderedAppend ==
    ASSUME NEW a \in Seq(Nat), NEW n \in Nat, Ordered(a, n)
    PROVE  Ordered(Append(a, n), n)
  BY DEF Ordered

\* Fewer events than the limit are kept: the call that came Limit calls ago was dropped.
LEMMA SpacedAppend ==
    ASSUME NEW e \in Seq(Nat), NEW a \in Seq(Nat), NEW n \in Nat,
           Tracks(e, a, n), Len(e) < Limit, Spaced(a)
    PROVE  Spaced(Append(a, n))
<1> DEFINE b == Append(a, n)
<1>1. /\ Len(b) = Len(a) + 1 /\ b[Len(a) + 1] = n
      /\ \A i \in 1 .. Len(a) : b[i] = a[i]
  OBVIOUS
<1> HIDE DEF b
<1> USE Sizes
<1>2. ASSUME NEW i \in 1 .. Len(b) - Limit PROVE b[i + Limit] - b[i] >= Window - Delay
  <2>1. CASE i + Limit = Len(a) + 1
    <3>1. i \in 1 .. Len(a) - Len(e) /\ i \in 1 .. Len(a)
      BY <2>1
    <3>2. a[i] <= n - Window + Delay /\ a[i] \in Nat
      BY <3>1 DEF Tracks
    <3> QED
      BY <1>1, <2>1, <3>1, <3>2
  <2>2. CASE i + Limit # Len(a) + 1
    <3>1. i \in 1 .. Len(a) - Limit /\ i \in 1 .. Len(a) /\ i + Limit \in 1 .. Len(a)
      <4>1. PICK m \in Nat : m = Len(a)
        OBVIOUS
      <4>2. i \in 1 .. m + 1 - Limit /\ i + Limit # m + 1
        BY <1>1, <2>2, <4>1
      <4>3. i \in 1 .. m - Limit /\ i \in 1 .. m /\ i + Limit \in 1 .. m
        BY <4>2
      <4> QED
        BY <4>1, <4>3
    <3> QED
      BY <1>1, <3>1 DEF Spaced
  <2> QED
    BY <2>1, <2>2
<1> QED
  BY <1>2 DEF Spaced, b

\* The calls for one key that were let in from a time on, up to another.
Since(a, from, to) == {i \in DOMAIN a : a[i] >= from /\ a[i] <= to}

\* They are finitely many.
LEMMA SinceFinite ==
    ASSUME NEW a \in Seq(Nat), NEW from, NEW to
    PROVE  IsFiniteSet(Since(a, from, to)) /\ Cardinality(Since(a, from, to)) \in Nat
<1>1. PICK n \in Nat : n = Len(a)
  OBVIOUS
<1>2. Since(a, from, to) \in SUBSET (1 .. n)
  BY <1>1 DEF Since
<1>3. IsFiniteSet(1 .. n)
  BY FS_Interval
<1> QED
  BY <1>2, <1>3, FS_Subset, FS_CardinalityType

\* Spacing bounds the number of calls in a window.
LEMMA SpacedBounds ==
    ASSUME NEW a \in Seq(Nat), NEW n \in Nat, NEW from \in Int, Ordered(a, n), Spaced(a)
    PROVE  Cardinality(Since(a, from, from + Window - Delay - 1)) <= Limit
<1> DEFINE S == Since(a, from, from + Window - Delay - 1)
<1> USE Sizes
<1>1. S \in SUBSET Nat /\ S \subseteq 1 .. Len(a)
  BY DEF Since
<1>2. \A i \in S : a[i] \in Nat /\ a[i] >= from /\ a[i] <= from + Window - Delay - 1
  BY <1>1 DEF Since
<1> HIDE DEF S
<1>3. CASE S = {}
  <2>1. Cardinality(S) = 0
    BY <1>3, FS_EmptySet
  <2> QED
    BY <2>1 DEF S
<1>4. CASE S # {}
  <2>1. PICK m \in S : \A i \in S : m <= i
    BY <1>1, <1>4, LeastElement
  <2>2. ASSUME NEW i \in S, i >= m + Limit PROVE FALSE
    <3>1. m \in 1 .. Len(a) /\ i \in 1 .. Len(a) /\ Len(a) \in Nat
      BY <1>1, <2>1
    <3>2. m \in 1 .. Len(a) - Limit /\ m + Limit \in 1 .. i
      BY <2>2, <3>1
    <3>3. a[m + Limit] - a[m] >= Window - Delay
      BY <3>2 DEF Spaced
    <3>4. a[m + Limit] <= a[i]
      BY <3>1, <3>2 DEF Ordered
    <3>5. a[m + Limit] \in Nat
      BY <3>1, <3>2
    <3>6. a[i] \in Nat /\ a[i] <= from + Window - Delay - 1
      BY <1>2
    <3>7. a[m] \in Nat /\ a[m] >= from
      BY <1>2, <2>1
    <3> QED
      BY <3>3, <3>4, <3>5, <3>6, <3>7
  <2>3. PICK u \in Nat : u = m + Limit - 1
    BY <1>1, <2>1
  <2>4. S \in SUBSET (m .. u)
    BY <1>1, <2>1, <2>2, <2>3
  <2>5. m \in Nat
    BY <1>1, <2>1
  <2>6. IsFiniteSet(m .. u) /\ Cardinality(m .. u) = Limit
    BY <2>3, <2>5, FS_Interval
  <2>7. Cardinality(S) <= Limit
    BY <2>4, <2>6, FS_Subset
  <2> QED
    BY <2>7 DEF S
<1> QED
  BY <1>3, <1>4

\* An event that survives the popping stands for a call within the window and the wait.
LEMMA KeptIsRecent ==
    ASSUME NEW e \in Seq(Nat), NEW a \in Seq(Nat), NEW n \in Nat, NEW c \in Int,
           c >= n - Window - Delay, Tracks(e, a, n), Ordered(a, n),
           NEW i \in Len(a) - Len(Popped(e, c)) + 1 .. Len(a)
    PROVE  i \in Since(a, n - Window - Delay + 1, n)
<1> DEFINE p == Popped(e, c)
<1> USE Sizes
<1>0. Len(e) \in Nat /\ Len(a) \in Nat /\ Len(e) <= Len(a)
  BY DEF Tracks
<1>1. PICK d \in 0 .. Len(e) :
             /\ p \in Seq(Nat)
             /\ Len(p) = Len(e) - d
             /\ d < Len(e) => e[d + 1] > c
  BY PoppedElements
<1>2. Len(p) = Len(e) - d /\ i \in Len(a) - Len(p) + 1 .. Len(a)
  BY <1>1
<1> HIDE DEF p
<1>3. d + 1 \in 1 .. Len(e) /\ d < Len(e)
  BY <1>0, <1>2
<1>4. PICK j \in 1 .. Len(a) : j = Len(a) - Len(e) + (d + 1)
  <2>1. Len(a) - Len(e) + (d + 1) \in 1 .. Len(a)
    BY <1>0, <1>3
  <2> QED
    BY <2>1
<1>5. e[d + 1] <= a[j]
  BY <1>3, <1>4 DEF Tracks
<1>6. e[d + 1] > c /\ e[d + 1] \in Nat /\ a[j] \in Nat
  <2>1. e[d + 1] > c
    BY <1>1, <1>3
  <2>2. e[d + 1] \in Nat /\ a[j] \in Nat
    BY <1>3, <1>4, ElementNat
  <2> QED
    BY <2>1, <2>2
<1>7. j \in 1 .. i /\ i \in 1 .. Len(a)
  BY <1>0, <1>2, <1>4
<1>8. a[j] <= a[i] /\ a[i] <= n /\ a[i] \in Nat
  BY <1>7 DEF Ordered
<1>9. a[i] >= n - Window - Delay + 1 /\ a[i] <= n
  BY <1>5, <1>6, <1>8, KeptTime
<1> QED
  BY <1>7, <1>9 DEF Since

\* So there are at least as many such calls as events that survive.
LEMMA KeptCounts ==
    ASSUME NEW e \in Seq(Nat), NEW a \in Seq(Nat), NEW n \in Nat, NEW c \in Int,
           c >= n - Window - Delay, Tracks(e, a, n), Ordered(a, n)
    PROVE  /\ Cardinality(Since(a, n - Window - Delay + 1, n)) >= Len(Popped(e, c))
           /\ Popped(e, c) # <<>> => Since(a, n - Window - Delay + 1, n) # {}
<1> DEFINE p == Popped(e, c)
           S == Since(a, n - Window - Delay + 1, n)
<1>1. PICK l \in 0 .. Len(e) : l = Len(p) /\ p \in Seq(Nat)
  <2>1. PICK d \in 0 .. Len(e) : p \in Seq(Nat) /\ Len(p) = Len(e) - d
    BY PoppedElements
  <2>2. Len(e) - d \in 0 .. Len(e)
    BY Len(e) \in Nat
  <2> QED
    BY <2>1, <2>2
<1>2. Len(a) \in Nat /\ Len(e) <= Len(a) /\ Len(e) \in Nat
  BY DEF Tracks
<1>3. PICK f \in Nat : f = Len(a) - l + 1
  <2>1. Len(a) - l + 1 \in Nat
    BY <1>1, <1>2
  <2> QED
    BY <2>1
<1>4. f .. Len(a) \in SUBSET S
  BY <1>1, <1>3, KeptIsRecent
<1>5. IsFiniteSet(S) /\ Cardinality(S) \in Nat
  BY SinceFinite
<1> HIDE DEF p, S
<1>6. Cardinality(f .. Len(a)) = l
  <2>1. PICK b \in Nat : b = Len(a)
    BY <1>2
  <2>2. Cardinality(f .. b) = IF f > b THEN 0 ELSE b - f + 1
    BY FS_Interval
  <2>3. f = b - l + 1 /\ l \in Nat
    BY <1>1, <1>2, <1>3, <2>1
  <2>4. Cardinality(f .. b) = l
    BY <2>2, <2>3
  <2> QED
    BY <2>1, <2>4
<1>7. Cardinality(S) >= l
  <2>1. Cardinality(f .. Len(a)) <= Cardinality(S)
    BY <1>4, <1>5, FS_Subset
  <2> QED
    BY <1>1, <1>2, <1>5, <1>6, <2>1
<1>8. p # <<>> => S # {}
  <2> SUFFICES ASSUME p # <<>> PROVE S # {}
    OBVIOUS
  <2>1. l # 0
    BY <1>1
  <2>2. Len(a) \in f .. Len(a)
    BY <1>1, <1>2, <1>3, <2>1
  <2> QED
    BY <1>4, <2>2
<1> QED
  BY <1>1, <1>7, <1>8 DEF p, S

-----------------------------------------------------------------------------
(* The table of SlidingWindowRateLimiter *)

\* A table e is in order for calls that were let in at the times al, now n.
TableOK(e, al, n) ==
    /\ e \in [Keys -> Seq(Nat)]
    /\ \A k \in Keys : Tracks(e[k], al[k], n) /\ Len(e[k]) <= Limit
    /\ Cardinality(Present(e)) <= MaxKeys

\* The calls that were let in, by key: in order.
CallsOK(al, n) == al \in [Keys -> Seq(Nat)] /\ \A k \in Keys : Ordered(al[k], n)

\* The keys in a table are finitely many.
LEMMA PresentFinite ==
    ASSUME NEW e
    PROVE  IsFiniteSet(Present(e)) /\ Cardinality(Present(e)) \in Nat
<1>1. Present(e) \in SUBSET Keys
  BY DEF Present
<1> QED
  BY <1>1, ConstantsAssumption, FS_Subset, FS_CardinalityType

\* Popping does not make an entry longer, nor an empty one present.
LEMMA PoppedShorter ==
    ASSUME NEW s \in Seq(Nat), NEW c \in Int
    PROVE  /\ Popped(s, c) \in Seq(Nat) /\ Len(Popped(s, c)) <= Len(s)
           /\ s = <<>> => Popped(s, c) = <<>>
<1>1. PICK d \in 0 .. Len(s) : Popped(s, c) \in Seq(Nat) /\ Len(Popped(s, c)) = Len(s) - d
  BY PoppedElements
<1>2. PICK p \in Seq(Nat) : p = Popped(s, c)
  BY <1>1
<1>3. Len(p) <= Len(s)
  BY <1>1, <1>2
<1>4. s = <<>> => p = <<>>
  BY <1>3
<1> QED
  BY <1>2, <1>3, <1>4

\* _cleanup by a clock that is not ahead leaves a table in order.
LEMMA CleanupKeeps ==
    ASSUME NEW e, NEW al, NEW n \in Nat, NEW c \in Int, c <= n - Window,
           TableOK(e, al, n), CallsOK(al, n)
    PROVE  TableOK(Cleanup(e, c), al, n)
<1>1. ASSUME NEW k \in Keys
      PROVE  /\ Popped(e[k], c) \in Seq(Nat) /\ Tracks(Popped(e[k], c), al[k], n)
             /\ Len(Popped(e[k], c)) <= Limit
             /\ e[k] = <<>> => Popped(e[k], c) = <<>>
  <2>1. e[k] \in Seq(Nat) /\ al[k] \in Seq(Nat) /\ Len(e[k]) <= Limit
    BY DEF TableOK, CallsOK
  <2>2. Tracks(e[k], al[k], n) /\ Ordered(al[k], n)
    BY DEF TableOK, CallsOK
  <2>3. Popped(e[k], c) \in Seq(Nat) /\ Tracks(Popped(e[k], c), al[k], n)
    BY <2>1, <2>2, TracksPopped
  <2>4. Len(Popped(e[k], c)) <= Len(e[k]) /\ (e[k] = <<>> => Popped(e[k], c) = <<>>)
    BY <2>1, PoppedShorter
  <2>5. Len(Popped(e[k], c)) \in Nat /\ Len(e[k]) \in Nat
    BY <2>1, <2>3
  <2> QED
    BY <2>1, <2>3, <2>4, <2>5, Sizes
<1>2. Present(Cleanup(e, c)) \in SUBSET Present(e)
  BY <1>1 DEF Present, Cleanup
<1>3. Cardinality(Present(Cleanup(e, c))) <= MaxKeys
  <2>1. PICK q \in Nat : q = Cardinality(Present(e))
    BY PresentFinite
  <2>2. PICK r \in Nat : r = Cardinality(Present(Cleanup(e, c)))
    BY PresentFinite
  <2>3. r <= q
    BY <1>2, <2>1, <2>2, PresentFinite, FS_Subset
  <2> QED
    BY <2>1, <2>2, <2>3, Sizes DEF TableOK
<1> QED
  BY <1>1, <1>3 DEF TableOK, Cleanup

\* The entry of a key for which there is room is replaced, perhaps with one more call.
LEMMA UpdateKeeps ==
    ASSUME NEW e, NEW al, NEW n \in Nat, NEW k \in Keys, NEW p \in Seq(Nat), NEW a,
           TableOK(e, al, n), al \in [Keys -> Seq(Nat)], ~Full(e, k), Len(p) <= Limit,
           Tracks(p, a, n)
    PROVE  TableOK([e EXCEPT ![k] = p], [al EXCEPT ![k] = a], n)
<1> DEFINE f == [e EXCEPT ![k] = p]
<1>1. f \in [Keys -> Seq(Nat)] /\ f[k] = p /\ \A j \in Keys \ {k} : f[j] = e[j]
  BY DEF TableOK
<1>2. \A j \in Keys : Tracks(f[j], [al EXCEPT ![k] = a][j], n) /\ Len(f[j]) <= Limit
  <2> SUFFICES ASSUME NEW j \in Keys
               PROVE  Tracks(f[j], [al EXCEPT ![k] = a][j], n) /\ Len(f[j]) <= Limit
    OBVIOUS
  <2>1. CASE j = k
    BY <1>1, <2>1
  <2>2. CASE j # k
    BY <1>1, <2>2 DEF TableOK
  <2> QED
    BY <2>1, <2>2
<1> HIDE DEF f
<1>3. Cardinality(Present(f)) <= MaxKeys
  <2>1. PICK q \in Nat : q = Cardinality(Present(e)) /\ q <= MaxKeys
    BY PresentFinite DEF TableOK
  <2>2. PICK r \in Nat : r = Cardinality(Present(f))
    BY PresentFinite
  <2>3. CASE e[k] # <<>>
    <3>1. Present(f) \in SUBSET Present(e)
      BY <1>1, <2>3 DEF Present
    <3>2. r <= q
      BY <2>1, <2>2, <3>1, PresentFinite, FS_Subset
    <3> QED
      BY <2>1, <2>2, <3>2, Sizes
  <2>4. CASE e[k] = <<>>
    <3>1. q < MaxKeys
      BY <2>1, <2>4, Sizes DEF Full
    <3>2. Present(f) \in SUBSET (Present(e) \union {k})
      BY <1>1 DEF Present
    <3>3. IsFiniteSet(Present(e) \union {k}) /\ Cardinality(Present(e) \union {k}) <= q + 1
      <4>1. PICK P : P = Present(e) /\ IsFiniteSet(P)
        BY PresentFinite
      <4>2. /\ IsFiniteSet(P \union {k})
            /\ Cardinality(P \union {k}) = IF k \in P THEN Cardinality(P) ELSE Cardinality(P) + 1
        BY <4>1, FS_AddElement
      <4> QED
        BY <2>1, <4>1, <4>2
    <3>4. Cardinality(Present(e) \union {k}) \in Nat
      BY <3>3, FS_CardinalityType
    <3>5. r <= Cardinality(Present(e) \union {k})
      BY <2>2, <3>2, <3>3, FS_Subset
    <3> QED
      BY <2>1, <2>2, <3>1, <3>3, <3>4, <3>5, Sizes
  <2> QED
    BY <2>3, <2>4
<1> QED
  BY <1>1, <1>2, <1>3 DEF f, TableOK

-----------------------------------------------------------------------------
(* The entries of MinimumIntervalRateLimiter *)

\* Time passes.
LEMMA LastLater ==
    ASSUME NEW l \in Nat \union {-1}, NEW a \in Seq(Nat), NEW n \in Nat, NEW m \in Nat, n <= m,
           LastKept(l, a, n)
    PROVE  LastKept(l, a, m)
<1> SUFFICES ASSUME a # <<>>
             PROVE  IF l >= 0 THEN l <= a[Len(a)] /\ a[Len(a)] <= l + Delay
                    ELSE m - a[Len(a)] >= Interval - Delay
  BY DEF LastKept
<1>1. PICK x \in Nat : x = a[Len(a)]
  BY ElementNat
<1>2. IF l >= 0 THEN l <= x /\ x <= l + Delay ELSE n - x >= Interval - Delay
  BY <1>1 DEF LastKept
<1>3. IF l >= 0 THEN l <= x /\ x <= l + Delay ELSE m - x >= Interval - Delay
  BY <1>2, Sizes
<1> QED
  BY <1>1, <1>3

\* A call is let in, with a time that was read at most Delay ago.
LEMMA LastFresh ==
    ASSUME NEW t \in Nat, NEW a \in Seq(Nat), NEW n \in Nat, t <= n, n <= t + Delay
    PROVE  LastKept(t, Append(a, n), n)
<1>1. Append(a, n)[Len(Append(a, n))] = n
  OBVIOUS
<1> QED
  BY <1>1 DEF LastKept

\* A key that check lets in: its last call was the interval ago, up to the wait.
LEMMA LastSpace ==
    ASSUME NEW l \in Nat \union {-1}, NEW a \in Seq(Nat), NEW n \in Nat, NEW t \in Nat,
           LastKept(l, a, n), t <= n, l < 0 \/ t - l >= Interval, a # <<>>
    PROVE  n - a[Len(a)] >= Interval - Delay
<1>1. PICK x \in Nat : x = a[Len(a)]
  BY ElementNat
<1>2. IF l >= 0 THEN l <= x /\ x <= l + Delay ELSE n - x >= Interval - Delay
  BY <1>1 DEF LastKept
<1>3. n - x >= Interval - Delay
  BY <1>2, Sizes
<1> QED
  BY <1>1, <1>3

\* An entry that is at least the interval old may go.
LEMMA LastEvicted ==
    ASSUME NEW l \in Nat \union {-1}, NEW a \in Seq(Nat), NEW n \in Nat, NEW t \in Nat,
           LastKept(l, a, n), t <= n, t - l >= Interval, l >= 0
    PROVE  LastKept(-1, a, n)
<1>1. a # <<>> => n - a[Len(a)] >= Interval - Delay
  BY LastSpace
<1> QED
  BY <1>1 DEF LastKept

\* What check evicts, if anything, is such an entry: with as many entries as keys, the
\* caller has one too, and the oldest is not younger.
LEMMA EvictsOld ==
    ASSUME Roomy, NEW l \in [Keys -> Nat \union {-1}], NEW k \in Keys, NEW t \in Nat,
           l[k] < 0 \/ t - l[k] >= Interval, NEW m \in Evict(l)
    PROVE  \/ m = l
           \/ \E j \in Keys : l[j] >= 0 /\ t - l[j] >= Interval /\ m = [l EXCEPT ![j] = -1]
<1> DEFINE used == {j \in Keys : l[j] >= 0}
<1>1. CASE Cardinality(used) < MaxEntries
  BY <1>1 DEF Evict
<1>2. CASE ~(Cardinality(used) < MaxEntries)
  <2>1. used \in SUBSET Keys
    OBVIOUS
  <2>2. IsFiniteSet(Keys) /\ Cardinality(Keys) <= MaxEntries
    BY ConstantsAssumption DEF Roomy
  <2>3. Cardinality(used) <= Cardinality(Keys) /\ (Cardinality(Keys) = Cardinality(used) => Keys = used)
    BY <2>1, <2>2, FS_Subset
  <2>4. Cardinality(used) \in Nat /\ Cardinality(Keys) \in Nat
    BY <2>1, <2>2, FS_Subset, FS_CardinalityType
  <2>5. Keys = used
    <3> HIDE DEF used
    <3> QED
      BY <1>2, <2>2, <2>3, <2>4, Sizes
  <2>6. t - l[k] >= Interval
    BY <2>5
  <2>7. PICK j \in used : m = [l EXCEPT ![j] = -1] /\ \A i \in used : l[j] <= l[i]
    BY <1>2 DEF Evict
  <2>8. l[j] \in Nat /\ l[k] \in Nat /\ l[j] <= l[k]
    BY <2>5, <2>7
  <2>9. t - l[j] >= Interval
    BY <2>6, <2>8, Sizes
  <2> QED
    BY <2>7, <2>9
<1> QED
  BY <1>1, <1>2

\* The times at which a key was let in, one more of them.
LEMMA AppendSpace ==
    ASSUME NEW a \in Seq(Nat), NEW n \in Nat,
           a # <<>> => n - a[Len(a)] >= Interval - Delay,
           \A i \in 1 .. Len(a) - 1 : a[i + 1] - a[i] >= Interval - Delay
    PROVE  \A i \in 1 .. Len(Append(a, n)) - 1 :
             Append(a, n)[i + 1] - Append(a, n)[i] >= Interval - Delay
<1> DEFINE b == Append(a, n)
<1>1. /\ Len(b) = Len(a) + 1 /\ b[Len(a) + 1] = n
      /\ \A i \in 1 .. Len(a) : b[i] = a[i]
  OBVIOUS
<1> HIDE DEF b
<1>2. PICK m \in Nat : m = Len(a)
  OBVIOUS
<1>3. ASSUME NEW i \in 1 .. m PROVE b[i + 1] - b[i] >= Interval - Delay
  <2>1. CASE i = m
    <3>1. a # <<>> /\ b[i + 1] = n /\ b[i] = a[Len(a)]
      BY <1>1, <1>2, <2>1
    <3> QED
      BY <3>1
  <2>2. CASE i # m
    <3>1. i \in 1 .. m - 1 /\ i + 1 \in 1 .. m
      BY <2>2
    <3>2. b[i + 1] = a[i + 1] /\ b[i] = a[i]
      BY <1>1, <1>2, <3>1
    <3> QED
      BY <1>2, <3>1, <3>2
  <2> QED
    BY <2>1, <2>2
<1>4. Len(b) - 1 = m
  BY <1>1, <1>2
<1> QED
  BY <1>3, <1>4 DEF b

-----------------------------------------------------------------------------
(* The steps *)

\* A call that is decided was made for the limiter in question, and its time is one that
\* was read at most Delay ago.
LEMMA CallFacts ==
    ASSUME TypeOK, NEW t \in Threads, call[t].kind \in {"window", "interval"}
    PROVE  /\ call[t] # None /\ call[t] \in Calls /\ call[t].kind = kind
           /\ call[t].key \in Keys /\ call[t].at \in Nat
           /\ call[t].at <= now /\ now <= call[t].at + Delay
<1>1. call[t] # None
  BY DEF None
<1>2. call[t] \in Calls
  BY <1>1 DEF TypeOK
<1>3. call[t].at \in now - Delay .. now
  BY <1>1 DEF TypeOK
<1>4. call[t].kind = kind /\ call[t].key \in Keys /\ call[t].at \in Nat
  BY <1>2 DEF Calls
<1>5. now \in Nat
  BY DEF TypeOK
<1>6. call[t].at <= now /\ now <= call[t].at + Delay
  BY <1>3, <1>4, <1>5, Sizes
<1> QED
  BY <1>1, <1>2, <1>4, <1>6

\* Time passes: no thread waits longer than Delay, and what was dropped stays dropped.
LEMMA TickStep == IInv /\ Tick => IInv'
<1> SUFFICES ASSUME IInv, Tick PROVE IInv'
  OBVIOUS
<1>0. /\ TypeOK /\ OrderInv /\ WindowInv /\ IntervalInv /\ IntervalKept
      /\ now' = now + 1 /\ refused' = None
      /\ UNCHANGED <<kind, call, events, cleaned, last, allowed>>
  BY DEF IInv, Tick
<1>1. now \in Nat /\ now' \in Nat /\ now <= now'
  BY <1>0 DEF TypeOK
<1>2. \A t \in Threads : call'[t] # None => call'[t].at \in now' - Delay .. now'
  <2> SUFFICES ASSUME NEW t \in Threads, call[t] # None
               PROVE  call[t].at \in now' - Delay .. now'
    BY <1>0
  <2>1. call[t].at \in now - Delay .. now
    BY <1>0 DEF TypeOK
  <2>2. now - call[t].at < Delay
    BY DEF Tick
  <2> QED
    BY <1>0, <1>1, <2>1, <2>2, Sizes
<1>3. TypeOK'
  BY <1>0, <1>1, <1>2 DEF TypeOK, Calls, Present
<1>4. \A k \in Keys : allowed[k] \in Seq(Nat) /\ events[k] \in Seq(Nat)
                        /\ last[k] \in Nat \union {-1}
  BY <1>0 DEF TypeOK
<1>5. OrderInv'
  BY <1>0, <1>1, <1>4 DEF OrderInv, Ordered
<1>6. WindowInv'
  BY <1>0, <1>1, <1>4, TracksLater DEF WindowInv, OrderInv
<1>7. IntervalInv'
  BY <1>0, <1>1, <1>4, LastLater DEF IntervalInv
<1>8. IntervalKept'
  BY <1>0 DEF IntervalKept
<1>9. RefusedWithCause'
  BY <1>0 DEF RefusedWithCause
<1> QED
  BY <1>3, <1>5, <1>6, <1>7, <1>8, <1>9 DEF IInv

\* A thread reads the clock and waits for the lock.
LEMMA ReadClockStep ==
    ASSUME IInv, NEW t \in Threads, NEW k \in Keys, ReadClock(t, k)
    PROVE  IInv'
<1>0. /\ TypeOK /\ OrderInv /\ WindowInv /\ IntervalInv /\ IntervalKept
      /\ call' = [call EXCEPT ![t] = [kind |-> kind, key |-> k, at |-> now]] /\ refused' = None
      /\ UNCHANGED <<kind, now, events, cleaned, last, allowed>>
  BY DEF IInv, ReadClock
<1>1. [kind |-> kind, key |-> k, at |-> now] \in Calls
  BY <1>0 DEF TypeOK, Calls
<1>2. call' \in [Threads -> {None} \union Calls]
  BY <1>0, <1>1 DEF TypeOK
<1>3. \A u \in Threads : call'[u] # None => call'[u].at \in now - Delay .. now
  <2> SUFFICES ASSUME NEW u \in Threads, call'[u] # None
               PROVE  call'[u].at \in now - Delay .. now
    OBVIOUS
  <2>1. CASE u = t
    <3>1. call'[u].at = now /\ now \in Nat
      BY <1>0, <2>1 DEF TypeOK
    <3> QED
      BY <3>1, Sizes
  <2>2. CASE u # t
    BY <1>0, <2>2 DEF TypeOK
  <2> QED
    BY <2>1, <2>2
<1>4. TypeOK'
  BY <1>0, <1>2, <1>3 DEF TypeOK, Calls, Present
<1>5. OrderInv' /\ WindowInv' /\ IntervalInv' /\ IntervalKept'
  BY <1>0 DEF OrderInv, WindowInv, IntervalInv, IntervalKept
<1>6. RefusedWithCause'
  BY <1>0 DEF RefusedWithCause
<1> QED
  BY <1>4, <1>5, <1>6 DEF IInv

\* A decision frees the thread; the calls that were let in are in order.
LEMMA DecidesFacts ==
    ASSUME TypeOK, OrderInv, NEW t \in Threads, call[t].kind \in {"window", "interval"},
           NEW ok \in BOOLEAN, Decides(t, ok)
    PROVE  /\ call' \in [Threads -> {None} \union Calls] /\ refused' \in {None} \union Calls
           /\ \A u \in Threads : call'[u] # None => call'[u].at \in now' - Delay .. now'
           /\ Calls' = Calls /\ kind' = kind /\ now' = now
           /\ allowed' = IF ok THEN [allowed EXCEPT ![call[t].key] = Append(allowed[call[t].key], now)]
                                ELSE allowed
           /\ CallsOK(allowed', now)
<1>0. /\ call' = [call EXCEPT ![t] = None] /\ kind' = kind /\ now' = now
      /\ allowed' = IF ok THEN [allowed EXCEPT ![call[t].key] = Append(allowed[call[t].key], now)]
                           ELSE allowed
      /\ refused' = IF ok THEN None ELSE call[t]
  BY DEF Decides
<1>1. call[t] \in Calls /\ call[t].key \in Keys
  BY CallFacts
<1>2. call' \in [Threads -> {None} \union Calls] /\ refused' \in {None} \union Calls
  BY <1>0, <1>1 DEF TypeOK
<1>3. \A u \in Threads : call'[u] # None => call'[u].at \in now' - Delay .. now'
  BY <1>0 DEF TypeOK
<1>4. Calls' = Calls
  BY <1>0 DEF Calls
<1>5. CallsOK(allowed, now)
  BY DEF CallsOK, TypeOK, OrderInv
<1>6. CallsOK(allowed', now)
  <2>1. CASE ~ok
    BY <1>0, <1>5, <2>1
  <2>2. CASE ok
    <3>1. PICK k \in Keys : k = call[t].key
      BY <1>1
    <3>2. allowed[k] \in Seq(Nat) /\ now \in Nat /\ Ordered(allowed[k], now)
      BY DEF TypeOK, OrderInv
    <3>3. Ordered(Append(allowed[k], now), now) /\ Append(allowed[k], now) \in Seq(Nat)
      BY <3>2, OrderedAppend
    <3>4. allowed' = [allowed EXCEPT ![k] = Append(allowed[k], now)]
      BY <1>0, <2>2, <3>1
    <3> QED
      BY <1>5, <3>3, <3>4 DEF CallsOK
  <2> QED
    BY <2>1, <2>2
<1> QED
  BY <1>0, <1>2, <1>3, <1>4, <1>6

\* check: who is let in has waited, and so has who is evicted.
LEMMA CheckStep ==
    ASSUME IInv, NEW t \in Threads, Check(t)
    PROVE  IInv'
<1> DEFINE k == call[t].key
           at == call[t].at
           ok == last[k] < 0 \/ at - last[k] >= Interval
<1>1. TypeOK /\ OrderInv /\ IntervalInv /\ IntervalKept /\ call[t].kind = "interval"
  BY DEF IInv, Check
<1>2. /\ call[t] # None /\ call[t] \in Calls /\ kind = "interval"
      /\ k \in Keys /\ at \in Nat /\ at <= now /\ now <= at + Delay
  BY <1>1, CallFacts
<1>3. /\ IF ok THEN \E l \in Evict(last) : last' = [l EXCEPT ![k] = at] ELSE UNCHANGED last
      /\ Decides(t, ok) /\ UNCHANGED <<events, cleaned>>
  BY DEF Check
<1>4. ok \in BOOLEAN
  OBVIOUS
<1> HIDE DEF ok
<1>5. /\ call' \in [Threads -> {None} \union Calls] /\ refused' \in {None} \union Calls
      /\ \A u \in Threads : call'[u] # None => call'[u].at \in now' - Delay .. now'
      /\ Calls' = Calls /\ kind' = kind /\ now' = now
      /\ allowed' = IF ok THEN [allowed EXCEPT ![k] = Append(allowed[k], now)] ELSE allowed
      /\ CallsOK(allowed', now)
  BY <1>1, <1>3, <1>4, DecidesFacts
<1>6. now \in Nat /\ last \in [Keys -> Nat \union {-1}] /\ allowed \in [Keys -> Seq(Nat)]
  BY <1>1 DEF TypeOK
<1>7. Roomy => \A j \in Keys : LastKept(last[j], allowed[j], now)
  BY <1>1, <1>2 DEF IntervalInv
<1>type. last' \in [Keys -> Nat \union {-1}]
  <2>1. ASSUME NEW l \in Evict(last) PROVE l \in [Keys -> Nat \union {-1}]
    BY <1>6 DEF Evict
  <2> QED
    BY <1>2, <1>3, <1>6, <2>1
<1>8. ASSUME Roomy PROVE \A j \in Keys : LastKept(last'[j], allowed'[j], now)
  <2>1. CASE ~ok
    BY <1>3, <1>5, <1>6, <1>7, <1>8, <2>1
  <2>2. CASE ok
    <3>1. PICK l \in Evict(last) : last' = [l EXCEPT ![k] = at]
      BY <1>3, <2>2
    <3>2. \/ l = last
          \/ \E j \in Keys : last[j] >= 0 /\ at - last[j] >= Interval /\ l = [last EXCEPT ![j] = -1]
      <4>1. last[k] < 0 \/ at - last[k] >= Interval
        BY <2>2 DEF ok
      <4> HIDE DEF k, at
      <4> QED
        BY <1>2, <1>6, <1>8, <4>1, EvictsOld
    <3>3. l \in [Keys -> Nat \union {-1}] /\ \A j \in Keys : LastKept(l[j], allowed[j], now)
      <4>1. CASE l = last
        BY <1>6, <1>7, <1>8, <4>1
      <4>2. ASSUME NEW i \in Keys, last[i] >= 0, at - last[i] >= Interval, l = [last EXCEPT ![i] = -1]
            PROVE  l \in [Keys -> Nat \union {-1}] /\ \A j \in Keys : LastKept(l[j], allowed[j], now)
        <5>1. LastKept(-1, allowed[i], now)
          BY <1>2, <1>6, <1>7, <1>8, <4>2, LastEvicted
        <5> QED
          BY <1>6, <1>7, <1>8, <4>2, <5>1
      <4> QED
        BY <3>2, <4>1, <4>2
    <3>4. LastKept(at, Append(allowed[k], now), now)
      BY <1>2, <1>6, LastFresh
    <3>5. allowed' = [allowed EXCEPT ![k] = Append(allowed[k], now)]
      BY <1>5, <2>2
    <3>6. ASSUME NEW j \in Keys PROVE LastKept(last'[j], allowed'[j], now)
      <4>1. CASE j = k
        <5>1. last'[j] = at /\ allowed'[j] = Append(allowed[k], now)
          BY <1>2, <1>6, <3>1, <3>3, <3>5, <4>1
        <5> QED
          BY <3>4, <5>1
      <4>2. CASE j # k
        <5>1. last'[j] = l[j] /\ allowed'[j] = allowed[j]
          BY <1>2, <1>6, <3>1, <3>3, <3>5, <4>2
        <5> QED
          BY <3>3, <5>1
      <4> QED
        BY <4>1, <4>2
    <3> QED
      BY <3>6
  <2> QED
    BY <2>1, <2>2
<1>9. IntervalKept'
  <2> SUFFICES ASSUME Roomy, NEW j \in Keys
               PROVE  \A i \in 1 .. Len(allowed'[j]) - 1 :
                        allowed'[j][i + 1] - allowed'[j][i] >= Interval - Delay
    BY DEF IntervalKept
  <2>1. \A i \in 1 .. Len(allowed[j]) - 1 : allowed[j][i + 1] - allowed[j][i] >= Interval - Delay
    BY <1>1, <1>2 DEF IntervalKept
  <2>2. CASE ok /\ j = k
    <3>1. allowed[k] # <<>> => now - allowed[k][Len(allowed[k])] >= Interval - Delay
      BY <1>2, <1>6, <1>7, <2>2, LastSpace DEF ok
    <3>2. allowed'[j] = Append(allowed[k], now)
      BY <1>2, <1>5, <1>6, <2>2
    <3>3. allowed[k] \in Seq(Nat)
      BY <1>2, <1>6
    <3> QED
      BY <1>6, <2>1, <2>2, <3>1, <3>2, <3>3, AppendSpace
  <2>3. CASE ~ok \/ j # k
    <3>1. allowed'[j] = allowed[j]
      BY <1>2, <1>5, <1>6, <2>3
    <3> QED
      BY <2>1, <3>1
  <2> QED
    BY <2>2, <2>3
<1>10. RefusedWithCause'
  <2>1. refused' = None \/ refused'.kind = "interval"
    BY <1>1, <1>3 DEF Decides
  <2> QED
    BY <2>1 DEF RefusedWithCause
<1>11. TypeOK'
  BY <1>1, <1>3, <1>5, <1>type DEF TypeOK, CallsOK, Present
<1>12. OrderInv' /\ WindowInv' /\ IntervalInv'
  BY <1>2, <1>5, <1>8 DEF OrderInv, WindowInv, IntervalInv, CallsOK
<1> QED
  BY <1>9, <1>10, <1>11, <1>12 DEF IInv

\* The other keys that were let in during the last window, or the wait before it.
Busy(al, k, n) == {j \in Keys \ {k} : Since(al[j], n - Window - Delay + 1, n) # {}}

\* A call is refused: the limit was reached, or the table was full of recent calls.
LEMMA RefusalHasCause ==
    ASSUME NEW e, NEW al, NEW n \in Nat, NEW c \in Int, NEW k \in Keys,
           TableOK(e, al, n), CallsOK(al, n), c >= n - Window - Delay
    PROVE  /\ Len(Popped(e[k], c)) >= Limit
                => Cardinality(Since(al[k], n - Window - Delay + 1, n)) >= Limit
           /\ Full(Cleanup(e, c), k)
                => Cardinality(Busy(al, k, n)) >= MaxKeys
<1>1. ASSUME NEW j \in Keys
      PROVE  /\ e[j] \in Seq(Nat) /\ al[j] \in Seq(Nat)
             /\ Tracks(e[j], al[j], n) /\ Ordered(al[j], n)
  BY DEF TableOK, CallsOK
<1>2. ASSUME NEW j \in Keys
      PROVE  /\ Cardinality(Since(al[j], n - Window - Delay + 1, n)) >= Len(Popped(e[j], c))
             /\ Popped(e[j], c) # <<>> => Since(al[j], n - Window - Delay + 1, n) # {}
  BY <1>1, KeptCounts
<1>3. ASSUME Len(Popped(e[k], c)) >= Limit
      PROVE  Cardinality(Since(al[k], n - Window - Delay + 1, n)) >= Limit
  <2>1. PICK q \in Nat : q = Cardinality(Since(al[k], n - Window - Delay + 1, n))
    BY <1>1, SinceFinite
  <2>2. PICK l \in Nat : l = Len(Popped(e[k], c))
    <3>1. Popped(e[k], c) \in Seq(Nat)
      BY <1>1, PoppedShorter
    <3> QED
      BY <3>1
  <2>3. q >= l /\ l >= Limit
    BY <1>2, <1>3, <2>1, <2>2
  <2>4. q >= Limit
    BY <2>3, Sizes
  <2> QED
    BY <2>1, <2>4
<1>4. ASSUME Full(Cleanup(e, c), k)
      PROVE  Cardinality(Busy(al, k, n)) >= MaxKeys
  <2> DEFINE R == Busy(al, k, n)
             P == Present(Cleanup(e, c))
  <2>1. P \in SUBSET R
    BY <1>2, <1>4 DEF Present, Cleanup, Full, Busy
  <2>2. R \in SUBSET Keys
    BY DEF Busy
  <2> HIDE DEF R
  <2>3. IsFiniteSet(R) /\ Cardinality(R) \in Nat
    BY <2>2, ConstantsAssumption, FS_Subset, FS_CardinalityType
  <2>4. Cardinality(P) >= MaxKeys /\ Cardinality(P) \in Nat
    BY <1>4, PresentFinite DEF Full
  <2>5. Cardinality(P) <= Cardinality(R)
    BY <2>1, <2>3, FS_Subset
  <2> HIDE DEF P
  <2>6. Cardinality(R) >= MaxKeys
    BY <2>3, <2>4, <2>5, Sizes
  <2> QED
    BY <2>6 DEF R
<1> QED
  BY <1>3, <1>4

\* allow: what is dropped has left the window, who is let in finds fewer calls than the
\* limit in it, and who is not has been refused for a reason.
LEMMA AllowStep ==
    ASSUME IInv, NEW t \in Threads, Allow(t)
    PROVE  IInv'
<1> DEFINE k == call[t].key
           at == call[t].at
           cutoff == at - Window
           clean == at - cleaned >= Window
           swept == IF clean THEN Cleanup(events, cutoff) ELSE events
           table == Room(swept, k, cutoff)
           full == Full(table, k)
           kept == IF full THEN <<>> ELSE Popped(table[k], cutoff)
           ok == ~full /\ Len(kept) < Limit
<1>1. TypeOK /\ OrderInv /\ WindowInv /\ call[t].kind = "window"
  BY DEF IInv, Allow
<1>2. /\ call[t] # None /\ call[t] \in Calls /\ kind = "window"
      /\ k \in Keys /\ at \in Nat /\ at <= now /\ now <= at + Delay
  BY <1>1, CallFacts
<1>3. /\ cleaned' = IF clean THEN at ELSE cleaned
      /\ events' = [table EXCEPT ![k] = IF ok THEN Append(kept, at) ELSE kept]
      /\ Decides(t, ok) /\ UNCHANGED last
  BY DEF Allow
<1>4. ok \in BOOLEAN
  OBVIOUS
<1>5. cleaned' \in Nat
  BY <1>1, <1>2, <1>3 DEF TypeOK
<1> HIDE DEF k, at, ok, kept, full, table, swept, clean, cutoff
<1>6. /\ call' \in [Threads -> {None} \union Calls] /\ refused' \in {None} \union Calls
      /\ \A u \in Threads : call'[u] # None => call'[u].at \in now' - Delay .. now'
      /\ Calls' = Calls /\ kind' = kind /\ now' = now
      /\ allowed' = IF ok THEN [allowed EXCEPT ![k] = Append(allowed[k], now)] ELSE allowed
      /\ CallsOK(allowed', now)
  BY <1>1, <1>3, <1>4, DecidesFacts DEF k
<1>7. /\ now \in Nat /\ cutoff \in Int /\ cutoff <= now - Window
      /\ cutoff >= now - Window - Delay
  <2>1. now \in Nat
    BY <1>1 DEF TypeOK
  <2> QED
    BY <1>2, <2>1, Sizes DEF cutoff
<1>8. CallsOK(allowed, now) /\ TableOK(events, allowed, now)
  BY <1>1, <1>2 DEF CallsOK, TableOK, TypeOK, OrderInv, WindowInv
<1>9. TableOK(swept, allowed, now)
  BY <1>7, <1>8, CleanupKeeps DEF swept
<1>10. TableOK(table, allowed, now)
  BY <1>7, <1>9, <1>8, CleanupKeeps DEF table, Room
<1>11. \A j \in Keys : allowed[j] \in Seq(Nat) /\ Spaced(allowed[j]) /\ Ordered(allowed[j], now)
  BY <1>1, <1>2 DEF TypeOK, WindowInv, OrderInv
<1>12. /\ table \in [Keys -> Seq(Nat)] /\ allowed \in [Keys -> Seq(Nat)]
       /\ Tracks(table[k], allowed[k], now) /\ Len(table[k]) <= Limit
  BY <1>1, <1>2, <1>10 DEF TableOK, TypeOK
<1>13. ~full => /\ kept \in Seq(Nat) /\ Tracks(kept, allowed[k], now) /\ Len(kept) <= Limit
  <2> SUFFICES ASSUME ~full
               PROVE  kept \in Seq(Nat) /\ Tracks(kept, allowed[k], now) /\ Len(kept) <= Limit
    OBVIOUS
  <2>1. kept = Popped(table[k], cutoff) /\ table[k] \in Seq(Nat)
    BY <1>2, <1>12 DEF kept
  <2>2. kept \in Seq(Nat) /\ Len(kept) <= Len(table[k])
    BY <1>7, <2>1, PoppedShorter
  <2>3. Tracks(kept, allowed[k], now)
    BY <1>2, <1>7, <1>11, <1>12, <2>1, TracksPopped
  <2>4. Len(kept) \in Nat /\ Len(table[k]) \in Nat
    BY <2>1, <2>2
  <2> QED
    BY <1>12, <2>2, <2>3, <2>4, Sizes
<1>14. CASE full
  <2>1. table[k] = <<>> /\ kept = <<>> /\ ~ok
    BY <1>14 DEF full, Full, kept, ok
  <2>2. events' = table /\ allowed' = allowed
    BY <1>2, <1>3, <1>6, <1>12, <2>1
  <2>3. table = Cleanup(swept, cutoff)
    BY <1>14 DEF full, table, Room
  <2>4. Cardinality(Busy(allowed, k, now)) >= MaxKeys
    BY <1>2, <1>7, <1>8, <1>9, <1>14, <2>3, RefusalHasCause DEF full
  <2>5. refused' = call[t]
    BY <1>3, <2>1 DEF Decides
  <2>6. RefusedWithCause'
    BY <1>6, <2>2, <2>4, <2>5 DEF RefusedWithCause, Within, Since, Busy, k
  <2>7. TableOK(events', allowed', now')
    BY <1>6, <1>10, <2>2
  <2>8. \A j \in Keys : Spaced(allowed'[j])
    BY <1>11, <2>2
  <2> QED
    BY <1>2, <1>3, <1>5, <1>6, <1>7, <2>6, <2>7, <2>8
    DEF IInv, TypeOK, OrderInv, WindowInv, IntervalInv, IntervalKept, TableOK, CallsOK
<1>15. CASE ~full /\ ~ok
  <2>1. allowed' = allowed /\ [allowed EXCEPT ![k] = allowed[k]] = allowed
    BY <1>6, <1>12, <1>15
  <2>2. events' = [table EXCEPT ![k] = kept]
    BY <1>3, <1>15
  <2>3. TableOK(events', allowed', now')
    <3>1. TableOK([table EXCEPT ![k] = kept], [allowed EXCEPT ![k] = allowed[k]], now)
      BY <1>2, <1>7, <1>10, <1>12, <1>13, <1>15, UpdateKeeps DEF full
    <3> QED
      BY <1>6, <2>1, <2>2, <3>1
  <2>4. Len(Popped(table[k], cutoff)) >= Limit
    <3>1. kept = Popped(table[k], cutoff) /\ Len(kept) \in Nat /\ ~(Len(kept) < Limit)
      BY <1>13, <1>15 DEF kept, ok
    <3> QED
      BY <3>1, Sizes
  <2>5. Cardinality(Since(allowed[k], now - Window - Delay + 1, now)) >= Limit
    BY <1>2, <1>7, <1>8, <1>10, <2>4, RefusalHasCause
  <2>6. refused' = call[t]
    BY <1>3, <1>15 DEF Decides
  <2>7. RefusedWithCause'
    BY <1>6, <2>1, <2>5, <2>6 DEF RefusedWithCause, Within, Since, k
  <2>8. \A j \in Keys : Spaced(allowed'[j])
    BY <1>11, <2>1
  <2> QED
    BY <1>2, <1>3, <1>5, <1>6, <1>7, <2>3, <2>7, <2>8
    DEF IInv, TypeOK, OrderInv, WindowInv, IntervalInv, IntervalKept, TableOK, CallsOK
<1>16. CASE ok
  <2>1. ~full /\ Len(kept) < Limit
    BY <1>16 DEF ok
  <2>2. allowed' = [allowed EXCEPT ![k] = Append(allowed[k], now)]
    BY <1>6, <1>16
  <2>3. events' = [table EXCEPT ![k] = Append(kept, at)]
    BY <1>3, <1>16
  <2>4. kept \in Seq(Nat) /\ allowed[k] \in Seq(Nat) /\ Ordered(allowed[k], now) /\ Spaced(allowed[k])
    BY <1>2, <1>11, <1>13, <2>1
  <2>5. /\ Append(kept, at) \in Seq(Nat) /\ Len(Append(kept, at)) <= Limit
    BY <1>2, <2>1, <2>4, Sizes
  <2>6. Tracks(Append(kept, at), Append(allowed[k], now), now)
    BY <1>2, <1>7, <1>13, <2>1, <2>4, TracksAppend
  <2>7. TableOK(events', allowed', now')
    <3>1. TableOK([table EXCEPT ![k] = Append(kept, at)], [allowed EXCEPT ![k] = Append(allowed[k], now)], now)
      BY <1>2, <1>7, <1>10, <1>12, <2>1, <2>5, <2>6, UpdateKeeps DEF full
    <3> QED
      BY <1>6, <2>2, <2>3, <3>1
  <2>8. Spaced(Append(allowed[k], now))
    BY <1>7, <1>13, <2>1, <2>4, SpacedAppend
  <2>9. \A j \in Keys : Spaced(allowed'[j])
    BY <1>2, <1>11, <1>12, <2>2, <2>8
  <2>10. RefusedWithCause'
    BY <1>3, <1>16 DEF Decides, RefusedWithCause
  <2> QED
    BY <1>2, <1>3, <1>5, <1>6, <1>7, <2>7, <2>9, <2>10
    DEF IInv, TypeOK, OrderInv, WindowInv, IntervalInv, IntervalKept, TableOK, CallsOK
<1> QED
  BY <1>14, <1>15, <1>16

\* At first no call was let in.
LEMMA InitIInv == Init => IInv
<1> SUFFICES ASSUME Init PROVE IInv
  OBVIOUS
<1>1. Present(events) = {}
  BY DEF Init, Present
<1>2. Cardinality(Present(events)) <= MaxKeys
  <2>1. Cardinality(Present(events)) = 0
    BY <1>1, FS_EmptySet
  <2> QED
    BY <2>1, Sizes
<1>3. TypeOK
  BY <1>2, Sizes DEF Init, TypeOK
<1>4. \A k \in Keys : allowed[k] = <<>> /\ events[k] = <<>>
  BY DEF Init
<1>5. OrderInv /\ IntervalInv /\ IntervalKept
  BY <1>4, Sizes DEF OrderInv, IntervalInv, IntervalKept, Ordered, LastKept
<1>6. WindowInv
  <2>1. Tracks(<<>>, <<>>, now)
    BY Sizes DEF Tracks
  <2>2. Spaced(<<>>)
    BY Sizes DEF Spaced
  <2> QED
    BY <1>4, <2>1, <2>2 DEF WindowInv
<1>7. RefusedWithCause
  BY DEF Init, RefusedWithCause
<1> QED
  BY <1>3, <1>5, <1>6, <1>7 DEF IInv

\* The inductive invariant holds of every behaviour.
THEOREM Inductive == Spec => []IInv
<1>1. IInv /\ [Next]_vars => IInv'
  <2> SUFFICES ASSUME IInv, [Next]_vars PROVE IInv'
    OBVIOUS
  <2>1. CASE Next
    BY <2>1, TickStep, ReadClockStep, CheckStep, AllowStep DEF Next
  <2>2. CASE UNCHANGED vars
    BY <2>2 DEF vars, IInv, TypeOK, Calls, Present, OrderInv, WindowInv, IntervalInv, IntervalKept,
                RefusedWithCause, Within
  <2> QED
    BY <2>1, <2>2
<1> QED
  BY <1>1, InitIInv, PTL DEF Spec

\* Every variable keeps its type, and the table of allow never has more than its keys and
\* no key more than its limit of events.
THEOREM TypeCorrect == Spec => []TypeOK
<1>1. IInv => TypeOK
  BY DEF IInv
<1> QED
  BY <1>1, Inductive, PTL

\* allow lets no more calls than the limit through in any window, whatever the number of
\* threads and the order in which they get the lock, except for what the wait costs.
THEOREM WindowIsBounded == Spec => []WindowBounded
<1>1. IInv => WindowBounded
  <2> SUFFICES ASSUME IInv, kind = "window", NEW k \in Keys, NEW from \in 0 .. now
               PROVE  Cardinality(Within(k, from, from + Window - Delay - 1)) <= Limit
    BY DEF WindowBounded
  <2>1. allowed[k] \in Seq(Nat) /\ now \in Nat /\ Ordered(allowed[k], now) /\ Spaced(allowed[k])
    BY DEF IInv, TypeOK, OrderInv, WindowInv
  <2>2. from \in Int
    OBVIOUS
  <2>3. Cardinality(Since(allowed[k], from, from + Window - Delay - 1)) <= Limit
    BY <2>1, <2>2, SpacedBounds
  <2> QED
    BY <2>3 DEF Since, Within
<1> QED
  BY <1>1, Inductive, PTL

\* allow refuses nobody without cause: the limit was reached, or the table was full of
\* other keys, and either with calls of the last window and the wait.
THEOREM RefusalsHaveCause == Spec => []RefusedWithCause
<1>1. IInv => RefusedWithCause
  BY DEF IInv
<1> QED
  BY <1>1, Inductive, PTL

\* check keeps two calls for a key the interval apart, up to the wait, although a full
\* table forgets an entry with every call.
THEOREM IntervalIsKept == Spec => []IntervalKept
<1>1. IInv => IntervalKept
  BY DEF IInv
<1> QED
  BY <1>1, Inductive, PTL
=============================================================================
