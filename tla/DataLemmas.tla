----------------------------- MODULE DataLemmas -----------------------------
(***************************************************************************)
(* Facts about numbers, recursive functions and sequences that the proofs  *)
(* of several modules need.  Induction is stated about a set of numbers    *)
(* and recursion about a step that is a function: both follow from the     *)
(* well-foundedness of finite sets under strict inclusion.                 *)
(***************************************************************************)
EXTENDS SequenceParts, FiniteSetTheorems, WellFoundedInduction, TLAPS

\* A factor keeps an inequality.
LEMMA Times == ASSUME NEW a \in Nat, NEW b \in Nat, NEW k \in Nat, a <= b PROVE a * k <= b * k
OBVIOUS

\* A set of natural numbers has a least element: its initial segments are
\* finite sets, and inclusion among those is well-founded.
LEMMA Least == ASSUME NEW T \in SUBSET Nat, T # {} PROVE \E m \in T : \A n \in T : m <= n
<1> DEFINE I == {1..n : n \in T}
<1>1. I \in SUBSET FiniteSubsetsOf(Nat) /\ I # {}
  <2>1. ASSUME NEW n \in T PROVE IsFiniteSet(1..n)
    <3>1. 1 \in Int /\ n \in Int
      BY <2>1
    <3>2. QED
      BY <3>1, FS_Interval
  <2>2. \A n \in T : 1..n \subseteq Nat
    OBVIOUS
  <2>3. QED
    BY <2>1, <2>2 DEF FiniteSubsetsOf
<1>2. IsWellFoundedOn(StrictSubsetOrdering(Nat), FiniteSubsetsOf(Nat))
  BY FS_StrictSubsetOrderingWellFounded
<1>3. PICK x \in I : \A y \in I : ~(<<y, x>> \in StrictSubsetOrdering(Nat))
  BY <1>1, <1>2, WFMin
<1>4. PICK m \in T : x = 1..m
  BY <1>3
<1>5. ASSUME NEW n \in T, n < m PROVE FALSE
  <2>1. 1..n \in I /\ 1..n \subseteq 1..m /\ m \in 1..m /\ m \notin 1..n
    BY <1>5
  <2>2. <<1..n, 1..m>> \in StrictSubsetOrdering(Nat)
    BY <2>1 DEF StrictSubsetOrdering
  <2>3. QED
    BY <1>3, <1>4, <2>1, <2>2
<1>6. QED
  BY <1>5

\* What holds of 0, and of n + 1 when it holds of n, holds of every number.
LEMMA Induction ==
  ASSUME NEW S, 0 \in S, \A n \in Nat : n \in S => n + 1 \in S
  PROVE  Nat \subseteq S
<1> SUFFICES ASSUME Nat \ S # {} PROVE FALSE
  OBVIOUS
<1>1. PICK m \in Nat \ S : \A n \in Nat \ S : m <= n
  BY Least
<1>2. m - 1 \in Nat /\ m - 1 \in S
  BY <1>1
<1>3. QED
  BY <1>1, <1>2

\* A function defined by its value at 0 and a step from each value to the next
\* exists, whatever the step does with the value and the number.
StepsOn(N, A) == [(1..N) \X A -> A]
Follows(f, N, a, h) == f[0] = a /\ \A i \in 1..N : f[i] = h[<<i, f[i - 1]>>]

LEMMA Recursion ==
  ASSUME NEW A, NEW a \in A, NEW N \in Nat, NEW h \in StepsOn(N, A)
  PROVE  \E f \in [0..N -> A] : Follows(f, N, a, h)
<1> DEFINE Upto(f, n) == f[0] = a /\ \A i \in 1..n : f[i] = h[<<i, f[i - 1]>>]
           S == {n \in Nat : n <= N => \E f \in [0..n -> A] : Upto(f, n)}
<1>1. 0 \in S
  <2> DEFINE f == [i \in 0..0 |-> a]
  <2>1. f \in [0..0 -> A] /\ Upto(f, 0)
    OBVIOUS
  <2>2. QED
    BY <2>1
<1>2. ASSUME NEW n \in Nat, n \in S PROVE n + 1 \in S
  <2> SUFFICES ASSUME n + 1 <= N PROVE \E f \in [0..n + 1 -> A] : Upto(f, n + 1)
    OBVIOUS
  <2>1. PICK g \in [0..n -> A] : Upto(g, n)
    BY <1>2
  <2>2. <<n + 1, g[n]>> \in (1..N) \X A /\ h \in [(1..N) \X A -> A]
    BY <2>1 DEF StepsOn
  <2> DEFINE f == [i \in 0..n + 1 |-> IF i = n + 1 THEN h[<<n + 1, g[n]>>] ELSE g[i]]
  <2>3. f \in [0..n + 1 -> A]
    BY <2>1, <2>2
  <2>4. \A i \in 0..n : f[i] = g[i]
    OBVIOUS
  <2>5. f[n + 1] = h[<<n + 1, f[n]>>] /\ f[0] = a
    <3>1. n \in 0..n /\ 0 \in 0..n /\ n + 1 \in 0..n + 1
      OBVIOUS
    <3>2. f[n] = g[n] /\ f[0] = g[0]
      BY <2>4, <3>1
    <3>3. f[n + 1] = h[<<n + 1, g[n]>>]
      BY <3>1
    <3>4. QED
      BY <2>1, <3>2, <3>3
  <2>6. ASSUME NEW i \in 1..n + 1 PROVE f[i] = h[<<i, f[i - 1]>>]
    <3>1. CASE i = n + 1
      <4>1. i - 1 = n
        BY <3>1
      <4> HIDE DEF f
      <4>2. QED
        BY <2>5, <3>1, <4>1
    <3>2. CASE i \in 1..n
      <4>1. i \in 0..n /\ i - 1 \in 0..n
        BY <3>2
      <4>2. g[i] = h[<<i, g[i - 1]>>]
        BY <2>1, <3>2
      <4>3. QED
        BY <2>4, <4>1, <4>2
    <3>3. QED
      BY <3>1, <3>2
  <2>7. QED
    BY <2>3, <2>5, <2>6
<1> HIDE DEF S
<1>3. N \in S
  BY <1>1, <1>2, Induction
<1>4. QED
  BY <1>3 DEF S, Follows

\* The values of a function at finitely many points are finitely many.
LEMMA FiniteValues ==
  ASSUME NEW S, IsFiniteSet(S), NEW f
  PROVE  IsFiniteSet({f[x] : x \in S})
<1> DEFINE T == {f[x] : x \in S}
           g == [x \in S |-> f[x]]
<1>1. g \in Surjection(S, T)
  BY DEF Surjection
<1>2. QED
  BY <1>1, FS_Surjection

\* A sequence without its w-th element.
LEMMA TakenOut ==
  ASSUME NEW S, NEW m \in Seq(S), NEW w \in 1..Len(m)
  PROVE  LET r == SubSeq(m, 1, w - 1) \o SubSeq(m, w + 1, Len(m)) IN
         /\ r \in Seq(S) /\ Len(r) = Len(m) - 1
         /\ \A i \in 1..Len(r) : r[i] = IF i < w THEN m[i] ELSE m[i + 1]
<1> DEFINE a == SubSeq(m, 1, w - 1)
           b == SubSeq(m, w + 1, Len(m))
<1>1. a \in Seq(S) /\ Len(a) = w - 1 /\ \A i \in 1..(w - 1) : a[i] = m[i]
  OBVIOUS
<1>2. b \in Seq(S) /\ Len(b) = Len(m) - w /\ \A i \in 1..(Len(m) - w) : b[i] = m[w + i]
  OBVIOUS
<1> HIDE DEF a, b
<1>3. a \o b \in Seq(S) /\ Len(a \o b) = Len(m) - 1
  <2>1. a \o b \in Seq(S) /\ Len(a \o b) = Len(a) + Len(b)
    <3>1. a \in Seq(S) /\ b \in Seq(S)
      BY <1>1, <1>2
    <3>2. QED
      BY <3>1
  <2>2. (w - 1) + (Len(m) - w) = Len(m) - 1
    OBVIOUS
  <2>3. QED
    BY <1>1, <1>2, <2>1, <2>2
<1>4. ASSUME NEW i \in 1..(Len(m) - 1) PROVE (a \o b)[i] = IF i < w THEN m[i] ELSE m[i + 1]
  <2>1. CASE i < w
    BY <1>1, <1>2, <2>1
  <2>2. CASE ~(i < w)
    <3>1. (a \o b)[i] = b[i - (w - 1)]
      BY <1>1, <1>2, <2>2
    <3>2. i - (w - 1) \in 1..(Len(m) - w) /\ w + (i - (w - 1)) = i + 1
      BY <2>2
    <3>3. b[i - (w - 1)] = m[w + (i - (w - 1))]
      BY <1>2, <3>2
    <3>4. QED
      BY <2>2, <3>1, <3>2, <3>3
  <2>3. QED
    BY <2>1, <2>2
<1>5. QED
  BY <1>3, <1>4 DEF a, b

\* A sequence with an element put in after the first w.
PutAfter(m, w, e) == SubSeq(m, 1, w) \o <<e>> \o SubSeq(m, w + 1, Len(m))

\* What has been put in, and what stands before and after it.
IsPutAfter(r, S, m, w, e) ==
  /\ r \in Seq(S) /\ Len(r) = Len(m) + 1 /\ r[w + 1] = e
  /\ \A i \in 1..Len(m) : i <= w => r[i] = m[i]
  /\ \A i \in 1..Len(m) : i > w => r[i + 1] = m[i]

\* PutAfter puts the element there and keeps the others in their order.
LEMMA PutIn ==
  ASSUME NEW S, NEW m \in Seq(S), NEW w \in 0..Len(m), NEW e \in S
  PROVE  IsPutAfter(PutAfter(m, w, e), S, m, w, e)
<1> DEFINE a == SubSeq(m, 1, w)
           b == SubSeq(m, w + 1, Len(m))
           c == a \o <<e>>
<1>1. a \in Seq(S) /\ Len(a) = w /\ \A i \in 1..w : a[i] = m[i]
  OBVIOUS
<1>2. b \in Seq(S) /\ Len(b) = Len(m) - w /\ \A i \in 1..(Len(m) - w) : b[i] = m[w + i]
  OBVIOUS
<1> HIDE DEF a, b
<1>3. /\ c \in Seq(S) /\ Len(c) = w + 1 /\ c[w + 1] = e
      /\ \A i \in 1..w : c[i] = m[i]
  BY <1>1
<1> HIDE DEF c
<1>4. c \o b \in Seq(S) /\ Len(c \o b) = Len(m) + 1
  <2>1. c \o b \in Seq(S) /\ Len(c \o b) = Len(c) + Len(b)
    <3>1. c \in Seq(S) /\ b \in Seq(S)
      BY <1>2, <1>3
    <3>2. QED
      BY <3>1
  <2>2. QED
    BY <1>2, <1>3, <2>1
<1>5. (c \o b)[w + 1] = e
  BY <1>2, <1>3
<1>6. ASSUME NEW i \in 1..Len(m), i <= w PROVE (c \o b)[i] = m[i]
  BY <1>2, <1>3, <1>6
<1>7. ASSUME NEW i \in 1..Len(m), i > w PROVE (c \o b)[i + 1] = m[i]
  <2>1. (c \o b)[i + 1] = b[i + 1 - (w + 1)]
    BY <1>2, <1>3, <1>7
  <2>2. i + 1 - (w + 1) \in 1..(Len(m) - w) /\ w + (i + 1 - (w + 1)) = i
    BY <1>7
  <2>3. QED
    BY <1>2, <2>1, <2>2
<1>8. QED
  BY <1>4, <1>5, <1>6, <1>7 DEF a, b, c, PutAfter, IsPutAfter

\* Any set of numbers up to n is listed in order by one function: by induction
\* on n, the largest of them last.
LEMMA ListedInOrder ==
  ASSUME NEW n \in Nat, NEW I \in SUBSET (1..n)
  PROVE  \E f \in [1..Cardinality(I) -> I] :
           /\ \A j, k \in 1..Cardinality(I) : j < k => f[j] < f[k]
           /\ \A i \in I : \E k \in 1..Cardinality(I) : f[k] = i
<1> DEFINE Lists(f, J) == /\ \A j, k \in 1..Cardinality(J) : j < k => f[j] < f[k]
                          /\ \A i \in J : \E k \in 1..Cardinality(J) : f[k] = i
           S == {m \in Nat : \A J \in SUBSET (1..m) : \E f \in [1..Cardinality(J) -> J] : Lists(f, J)}
<1>1. 0 \in S
  <2> SUFFICES ASSUME NEW J \in SUBSET (1..0) PROVE \E f \in [1..Cardinality(J) -> J] : Lists(f, J)
    OBVIOUS
  <2>1. J = {}
    <3>1. 1..0 = {}
      OBVIOUS
    <3>2. QED
      BY <3>1
  <2> DEFINE f == [k \in 1..0 |-> 0]
  <2>2. Cardinality(J) = 0
    BY <2>1, FS_EmptySet
  <2>3. f \in [1..Cardinality(J) -> J] /\ Lists(f, J)
    BY <2>1, <2>2
  <2>4. QED
    BY <2>3
<1>2. ASSUME NEW m \in Nat, m \in S PROVE m + 1 \in S
  <2> SUFFICES ASSUME NEW K \in SUBSET (1..m + 1) PROVE \E f \in [1..Cardinality(K) -> K] : Lists(f, K)
    OBVIOUS
  <2>1. CASE m + 1 \notin K
    <3>1. K \in SUBSET (1..m)
      BY <2>1
    <3>2. QED
      BY <1>2, <3>1
  <2>2. CASE m + 1 \in K
    <3> DEFINE J == K \ {m + 1}
               c == Cardinality(J)
    <3>1. J \in SUBSET (1..m)
      OBVIOUS
    <3>2. IsFiniteSet(K)
      <4>1. IsFiniteSet(1..m + 1)
        BY FS_Interval
      <4>2. QED
        BY <4>1, FS_Subset
    <3>3. c \in Nat /\ Cardinality(K) = c + 1
      <4>1. IsFiniteSet(J) /\ c = Cardinality(K) - 1
        BY <2>2, <3>2, FS_RemoveElement
      <4>2. c \in Nat /\ Cardinality(K) \in Nat
        BY <3>2, <4>1, FS_CardinalityType
      <4>3. QED
        BY <4>1, <4>2
    <3>4. PICK g \in [1..c -> J] : Lists(g, J)
      BY <1>2, <3>1
    <3> HIDE DEF c
    <3> DEFINE f == [k \in 1..c + 1 |-> IF k = c + 1 THEN m + 1 ELSE g[k]]
    <3>5. f \in [1..c + 1 -> K]
      BY <2>2, <3>3, <3>4
    <3>6. ASSUME NEW j \in 1..c + 1, NEW k \in 1..c + 1, j < k PROVE f[j] < f[k]
      <4>1. j \in 1..c /\ f[j] = g[j] /\ g[j] \in 1..m
        <5>1. j \in 1..c /\ f[j] = g[j]
          BY <3>3, <3>6
        <5>2. g[j] \in J
          BY <3>4, <5>1 DEF c
        <5>3. QED
          BY <3>1, <5>1, <5>2
      <4>2. CASE k = c + 1
        BY <3>3, <4>1, <4>2
      <4>3. CASE k \in 1..c
        <5>1. g[j] < g[k]
          BY <3>4, <3>6, <4>1, <4>3 DEF c
        <5>2. QED
          BY <3>3, <4>1, <4>3, <5>1
      <4>4. QED
        BY <3>3, <4>2, <4>3
    <3>7. ASSUME NEW i \in K PROVE \E k \in 1..c + 1 : f[k] = i
      <4>1. CASE i = m + 1
        <5>1. c + 1 \in 1..c + 1 /\ f[c + 1] = i
          BY <3>3, <4>1
        <5>2. QED
          BY <5>1
      <4>2. CASE i \in J
        <5>1. PICK k \in 1..c : g[k] = i
          BY <3>4, <4>2 DEF c
        <5>2. k \in 1..c + 1 /\ f[k] = i
          BY <3>3, <5>1
        <5>3. QED
          BY <5>2
      <4>3. QED
        BY <4>1, <4>2
    <3>8. Lists(f, K)
      BY <3>3, <3>6, <3>7
    <3>9. QED
      BY <3>3, <3>5, <3>8
  <2>3. QED
    BY <2>1, <2>2
<1> HIDE DEF S
<1>3. n \in S
  BY <1>1, <1>2, Induction
<1>4. QED
  BY <1>3 DEF S

\* What stands at a set of places, in order.
LEMMA AtPlacesIs ==
  ASSUME NEW S, NEW s \in Seq(S), NEW I \in SUBSET (1..Len(s))
  PROVE  LET c == Cardinality(I) IN
         /\ c \in Nat /\ c <= Len(s) /\ IsFiniteSet(I)
         /\ AtPlaces(s, I) \in Seq(S) /\ Len(AtPlaces(s, I)) = c
         /\ Ascending(I) \in [1..c -> I]
         /\ \A j \in 1..c : AtPlaces(s, I)[j] = s[Ascending(I)[j]]
         /\ \A j, k \in 1..c : j < k => Ascending(I)[j] < Ascending(I)[k]
         /\ \A i \in I : \E k \in 1..c : Ascending(I)[k] = i
<1> DEFINE c == Cardinality(I)
<1>1. c \in Nat /\ c <= Len(s) /\ IsFiniteSet(I)
  <2>1. IsFiniteSet(1..Len(s)) /\ Cardinality(1..Len(s)) = Len(s)
    <3>1. 1 \in Int /\ Len(s) \in Int /\ Len(s) \in Nat
      OBVIOUS
    <3>2. /\ IsFiniteSet(1..Len(s))
          /\ Cardinality(1..Len(s)) = IF 1 > Len(s) THEN 0 ELSE Len(s) - 1 + 1
      BY <3>1, FS_Interval
    <3>3. QED
      BY <3>1, <3>2
  <2>2. IsFiniteSet(I) /\ c <= Cardinality(1..Len(s))
    BY <2>1, FS_Subset
  <2>3. QED
    BY <2>1, <2>2, FS_CardinalityType
<1>2. /\ Ascending(I) \in [1..c -> I]
      /\ \A j, k \in 1..c : j < k => Ascending(I)[j] < Ascending(I)[k]
      /\ \A i \in I : \E k \in 1..c : Ascending(I)[k] = i
  <2>1. \E f \in [1..c -> I] : /\ \A j, k \in 1..c : j < k => f[j] < f[k]
                               /\ \A i \in I : \E k \in 1..c : f[k] = i
    <3>1. Len(s) \in Nat
      OBVIOUS
    <3> HIDE DEF c
    <3>2. QED
      BY <3>1, ListedInOrder DEF c
  <2>2. QED
    BY <2>1 DEF Ascending
<1> HIDE DEF c
<1>3. ASSUME NEW j \in 1..c PROVE s[Ascending(I)[j]] \in S
  <2>1. Ascending(I)[j] \in 1..Len(s)
    BY <1>2
  <2>2. QED
    BY <2>1
<1>4. AtPlaces(s, I) = [k \in 1..c |-> s[Ascending(I)[k]]]
  BY DEF AtPlaces, c
<1>5. AtPlaces(s, I) \in Seq(S) /\ Len(AtPlaces(s, I)) = c
  BY <1>1, <1>3, <1>4
<1>6. QED
  BY <1>1, <1>2, <1>4, <1>5 DEF c

\* What s[i:j] returns, for places that are there.
LEMMA SubSeqAt ==
  ASSUME NEW S, NEW s \in Seq(S), NEW i \in 1..Len(s), NEW j \in i..Len(s)
  PROVE  /\ SubSeq(s, i, j) \in Seq(S) /\ Len(SubSeq(s, i, j)) = j - i + 1
         /\ \A k \in 1..j - i + 1 : SubSeq(s, i, j)[k] = s[i + k - 1]
OBVIOUS

\* A part of a part of a sequence is a part of it.
LEMMA PartOfEnd ==
  ASSUME NEW S, NEW s \in Seq(S), NEW i \in 1..Len(s), NEW j \in 1..Len(s) - i + 1,
         NEW k \in j..Len(s) - i + 1
  PROVE  SubSeq(SubSeq(s, i, Len(s)), j, k) = SubSeq(s, i + j - 1, i + k - 1)
<1> DEFINE n == Len(s)
           t == SubSeq(s, i, n)
<1>1. n \in Nat /\ i \in 1..n /\ n \in i..n
  OBVIOUS
<1>2. t \in Seq(S) /\ Len(t) = n - i + 1 /\ \A x \in 1..n - i + 1 : t[x] = s[i + x - 1]
  BY <1>1, SubSeqAt
<1>3. /\ SubSeq(t, j, k) \in Seq(S) /\ Len(SubSeq(t, j, k)) = k - j + 1
      /\ \A x \in 1..k - j + 1 : SubSeq(t, j, k)[x] = t[j + x - 1]
  <2>1. t \in Seq(S) /\ j \in 1..Len(t) /\ k \in j..Len(t)
    BY <1>2
  <2> HIDE DEF t
  <2>2. QED
    BY <2>1, SubSeqAt
<1> HIDE DEF t
<1>4. i + j - 1 \in 1..n /\ i + k - 1 \in i + j - 1..n
  BY <1>1
<1>5. /\ SubSeq(s, i + j - 1, i + k - 1) \in Seq(S)
      /\ Len(SubSeq(s, i + j - 1, i + k - 1)) = k - j + 1
      /\ \A x \in 1..k - j + 1 : SubSeq(s, i + j - 1, i + k - 1)[x] = s[i + j - 1 + x - 1]
  <2>1. i + k - 1 - (i + j - 1) + 1 = k - j + 1
    BY <1>1
  <2>2. QED
    BY <1>4, <2>1, SubSeqAt
<1>6. \A x \in 1..k - j + 1 : SubSeq(t, j, k)[x] = SubSeq(s, i + j - 1, i + k - 1)[x]
  <2> SUFFICES ASSUME NEW x \in 1..k - j + 1
               PROVE  SubSeq(t, j, k)[x] = SubSeq(s, i + j - 1, i + k - 1)[x]
    OBVIOUS
  <2>1. j + x - 1 \in 1..n - i + 1 /\ i + (j + x - 1) - 1 = i + j - 1 + x - 1
    BY <1>1
  <2>2. QED
    BY <1>2, <1>3, <1>5, <2>1
<1>7. SubSeq(t, j, k) = SubSeq(s, i + j - 1, i + k - 1)
  <2> DEFINE p == SubSeq(t, j, k)
             q == SubSeq(s, i + j - 1, i + k - 1)
  <2>1. p \in Seq(S) /\ q \in Seq(S) /\ Len(p) = Len(q) /\ \A x \in 1..Len(p) : p[x] = q[x]
    BY <1>3, <1>5, <1>6
  <2> HIDE DEF p, q
  <2>2. p = q
    BY <2>1
  <2>3. QED
    BY <2>2 DEF p, q
<1>8. QED
  BY <1>7 DEF t

-----------------------------------------------------------------------------
(* Binary search.  The part of 0..n that is left is halved, upwards when    *)
(* the place in the middle is in R.                                        *)

Parts(n) == (0..n) \X (0..n)
Middle(part) == (part[1] + part[2]) \div 2
Halves(F, n, R) ==
  F = [part \in Parts(n) |->
         IF part[1] >= part[2] THEN part[1]
         ELSE IF Middle(part) \in R THEN F[<<Middle(part) + 1, part[2]>>]
         ELSE F[<<part[1], Middle(part)>>]]

\* The middle of a part that is not empty lies in it.
LEMMA MiddleLies ==
  ASSUME NEW lo \in Nat, NEW hi \in Nat, lo < hi
  PROVE  Middle(<<lo, hi>>) \in Nat /\ lo <= Middle(<<lo, hi>>) /\ Middle(<<lo, hi>>) < hi
BY DEF Middle

\* When R holds the first k places, the search is a function: it gives the
\* number of the part that is nearest to k.
LEMMA HalvingExists ==
  ASSUME NEW n \in Nat, NEW k \in 0..n, NEW R, \A m \in 0..n - 1 : m \in R <=> m < k
  PROVE  \E F : Halves(F, n, R)
<1> DEFINE Near(lo, hi) == IF lo >= hi \/ k <= lo THEN lo ELSE IF k >= hi THEN hi ELSE k
           F == [part \in Parts(n) |-> Near(part[1], part[2])]
<1>1. ASSUME NEW part \in Parts(n)
      PROVE  F[part] = IF part[1] >= part[2] THEN part[1]
                       ELSE IF Middle(part) \in R THEN F[<<Middle(part) + 1, part[2]>>]
                       ELSE F[<<part[1], Middle(part)>>]
  <2>1. PICK lo \in 0..n, hi \in 0..n : part = <<lo, hi>>
    BY DEF Parts
  <2>2. CASE lo >= hi
    BY <2>1, <2>2
  <2>3. CASE lo < hi
    <3> DEFINE mid == Middle(part)
    <3>1. mid \in Nat /\ lo <= mid /\ mid < hi
      BY <2>1, <2>3, MiddleLies
    <3> HIDE DEF mid
    <3>2. mid \in R <=> mid < k
      BY <3>1
    <3>3. F[<<mid + 1, hi>>] = Near(mid + 1, hi) /\ F[<<lo, mid>>] = Near(lo, mid)
      BY <3>1 DEF Parts
    <3>4. F[part] = Near(lo, hi)
      BY <2>1
    <3>5. mid < k => Near(lo, hi) = Near(mid + 1, hi)
      BY <2>3, <3>1
    <3>6. ~(mid < k) => Near(lo, hi) = Near(lo, mid)
      BY <2>3, <3>1
    <3>7. ~(part[1] >= part[2]) /\ part[1] = lo /\ part[2] = hi
      BY <2>1, <2>3
    <3> HIDE DEF F, Near
    <3>8. F[part] = IF mid \in R THEN F[<<mid + 1, hi>>] ELSE F[<<lo, mid>>]
      BY <3>2, <3>3, <3>4, <3>5, <3>6
    <3>9. QED
      BY <3>7, <3>8 DEF mid
  <2>4. QED
    BY <2>2, <2>3
<1>2. Halves(F, n, R)
  <2> DEFINE G == [part \in Parts(n) |->
                     IF part[1] >= part[2] THEN part[1]
                     ELSE IF Middle(part) \in R THEN F[<<Middle(part) + 1, part[2]>>]
                     ELSE F[<<part[1], Middle(part)>>]]
  <2>1. \A part \in Parts(n) : F[part] = G[part]
    BY <1>1
  <2>2. F = [part \in Parts(n) |-> F[part]] /\ G = [part \in Parts(n) |-> G[part]]
    OBVIOUS
  <2> HIDE DEF F
  <2>3. F = G
    BY <2>1, <2>2
  <2>4. QED
    BY <2>3 DEF Halves
<1>3. QED
  BY <1>2

\* It then finds k in every part that holds k: by induction on the length of
\* the part.
LEMMA HalvingFinds ==
  ASSUME NEW n \in Nat, NEW k \in 0..n, NEW R, \A m \in 0..n - 1 : m \in R <=> m < k,
         NEW F, Halves(F, n, R)
  PROVE  F[<<0, n>>] = k
<1> DEFINE Finds(d) == \A lo, hi \in 0..n : hi - lo <= d /\ lo <= k /\ k <= hi => F[<<lo, hi>>] = k
           S == {d \in Nat : Finds(d)}
<1>1. ASSUME NEW lo \in 0..n, NEW hi \in 0..n
      PROVE  F[<<lo, hi>>] = IF lo >= hi THEN lo
                             ELSE IF Middle(<<lo, hi>>) \in R THEN F[<<Middle(<<lo, hi>>) + 1, hi>>]
                             ELSE F[<<lo, Middle(<<lo, hi>>)>>]
  <2>1. <<lo, hi>> \in Parts(n) /\ <<lo, hi>>[1] = lo /\ <<lo, hi>>[2] = hi
    BY DEF Parts
  <2> DEFINE G == [part \in Parts(n) |->
                     IF part[1] >= part[2] THEN part[1]
                     ELSE IF Middle(part) \in R THEN F[<<Middle(part) + 1, part[2]>>]
                     ELSE F[<<part[1], Middle(part)>>]]
  <2>2. F = G
    BY DEF Halves
  <2>3. G[<<lo, hi>>] = IF lo >= hi THEN lo
                        ELSE IF Middle(<<lo, hi>>) \in R THEN F[<<Middle(<<lo, hi>>) + 1, hi>>]
                        ELSE F[<<lo, Middle(<<lo, hi>>)>>]
    BY <2>1
  <2> HIDE DEF G
  <2>4. QED
    BY <2>2, <2>3
<1>2. ASSUME NEW lo \in 0..n, NEW hi \in 0..n, lo >= hi, lo <= k, k <= hi
      PROVE  F[<<lo, hi>>] = k
  <2>1. F[<<lo, hi>>] = lo
    BY <1>1, <1>2
  <2>2. lo = k
    BY <1>2
  <2>3. QED
    BY <2>1, <2>2
<1>3. 0 \in S
  BY <1>2
<1>4. ASSUME NEW d \in Nat, d \in S PROVE d + 1 \in S
  <2> SUFFICES ASSUME NEW lo \in 0..n, NEW hi \in 0..n, hi - lo <= d + 1, lo <= k, k <= hi
               PROVE  F[<<lo, hi>>] = k
    OBVIOUS
  <2>1. CASE lo >= hi
    BY <1>2, <2>1
  <2>2. CASE lo < hi
    <3> DEFINE mid == Middle(<<lo, hi>>)
    <3>1. mid \in Nat /\ lo <= mid /\ mid < hi
      BY <2>2, MiddleLies
    <3>2. F[<<lo, hi>>] = IF mid \in R THEN F[<<mid + 1, hi>>] ELSE F[<<lo, mid>>]
      BY <1>1, <2>2
    <3> HIDE DEF mid
    <3>3. mid \in R <=> mid < k
      BY <3>1
    <3>4. CASE mid < k
      <4>1. mid + 1 \in 0..n /\ hi - (mid + 1) <= d /\ mid + 1 <= k
        BY <3>1, <3>4
      <4>2. F[<<mid + 1, hi>>] = k
        BY <1>4, <4>1
      <4>3. QED
        BY <3>2, <3>3, <3>4, <4>2
    <3>5. CASE ~(mid < k)
      <4>1. mid \in 0..n /\ mid - lo <= d /\ k <= mid
        BY <3>1, <3>5
      <4>2. F[<<lo, mid>>] = k
        BY <1>4, <4>1
      <4>3. QED
        BY <3>2, <3>3, <3>5, <4>2
    <3>6. QED
      BY <3>4, <3>5
  <2>3. QED
    BY <2>1, <2>2
<1> HIDE DEF S
<1>5. n \in S
  BY <1>3, <1>4, Induction
<1>6. Finds(n)
  BY <1>5 DEF S
<1>7. QED
  BY <1>6

\* A finite set with a strict linear order, given as a set of pairs, is listed
\* in that order: each element stands at the number of those before it.
LEMMA Sortable ==
  ASSUME NEW S, IsFiniteSet(S), NEW R,
         \A x \in S : <<x, x>> \notin R,
         \A x, y \in S : x = y \/ <<x, y>> \in R \/ <<y, x>> \in R,
         \A x, y, z \in S : <<x, y>> \in R /\ <<y, z>> \in R => <<x, z>> \in R
  PROVE  \E s \in [1..Cardinality(S) -> S] :
           \A k, l \in 1..Cardinality(S) : k < l => <<s[k], s[l]>> \in R
<1> DEFINE n == Cardinality(S)
           Below(x) == {y \in S : <<y, x>> \in R}
           place == [x \in S |-> Cardinality(Below(x)) + 1]
<1>1. n \in Nat
  BY FS_CardinalityType
<1>2. ASSUME NEW x \in S PROVE IsFiniteSet(Below(x)) /\ Cardinality(Below(x)) \in Nat
  BY FS_Subset, FS_CardinalityType
<1>3. ASSUME NEW x \in S PROVE place[x] \in 1..n
  <2>1. Below(x) \in SUBSET S /\ Below(x) # S
    OBVIOUS
  <2>2. Cardinality(Below(x)) <= n /\ Cardinality(Below(x)) # n
    BY <2>1, FS_Subset
  <2>3. place[x] = Cardinality(Below(x)) + 1
    OBVIOUS
  <2>4. QED
    BY <1>1, <1>2, <2>2, <2>3
<1>4. ASSUME NEW x \in S, NEW y \in S, <<x, y>> \in R PROVE place[x] < place[y]
  <2>1. Below(x) \in SUBSET Below(y) /\ x \in Below(y) /\ x \notin Below(x)
    BY <1>4
  <2>2. Cardinality(Below(x)) <= Cardinality(Below(y)) /\ Cardinality(Below(y)) # Cardinality(Below(x))
    BY <1>2, <2>1, FS_Subset
  <2>3. place[x] = Cardinality(Below(x)) + 1 /\ place[y] = Cardinality(Below(y)) + 1
    OBVIOUS
  <2>4. QED
    BY <1>2, <2>2, <2>3
<1>5. place \in [S -> 1..n] /\ \A x, y \in S : place[x] = place[y] => x = y
  <2>1. place \in [S -> 1..n]
    BY <1>3
  <2>2. ASSUME NEW x \in S, NEW y \in S, place[x] = place[y] PROVE x = y
    <3>1. place[x] \in Int /\ place[y] \in Int
      BY <1>3
    <3>2. ~(place[x] < place[y]) /\ ~(place[y] < place[x])
      BY <2>2, <3>1
    <3>3. <<x, y>> \notin R /\ <<y, x>> \notin R
      BY <1>4, <3>2
    <3>4. QED
      BY <3>3
  <2>3. QED
    BY <2>1, <2>2
<1>6. place \in Injection(S, 1..n)
  BY <1>5 DEF Injection, IsInjective
<1>7. IsFiniteSet(1..n) /\ Cardinality(1..n) = n
  <2>1. 1 \in Int /\ n \in Int
    BY <1>1
  <2>2. QED
    BY <1>1, <2>1, FS_Interval
<1>8. place \in Surjection(S, 1..n)
  BY <1>6, <1>7, FS_Injection
<1>9. \A k \in 1..n : \E x \in S : place[x] = k
  BY <1>8 DEF Surjection
<1> DEFINE s == [k \in 1..n |-> CHOOSE x \in S : place[x] = k]
<1>10. s \in [1..n -> S] /\ \A k \in 1..n : place[s[k]] = k
  <2>1. ASSUME NEW k \in 1..n PROVE s[k] \in S /\ place[s[k]] = k
    <3> HIDE DEF place
    <3>1. s[k] = CHOOSE x \in S : place[x] = k
      OBVIOUS
    <3>2. QED
      BY <1>9, <3>1
  <2>2. QED
    BY <2>1
<1>11. ASSUME NEW k \in 1..n, NEW l \in 1..n, k < l PROVE <<s[k], s[l]>> \in R
  <2> HIDE DEF place, s
  <2>1. s[k] # s[l] /\ s[k] \in S /\ s[l] \in S /\ place[s[k]] < place[s[l]]
    BY <1>1, <1>10, <1>11
  <2>2. <<s[l], s[k]>> \notin R
    <3>1. place[s[k]] \in Int /\ place[s[l]] \in Int
      BY <1>10, <1>11
    <3>2. QED
      BY <1>4, <2>1, <3>1
  <2>3. QED
    BY <2>1, <2>2
<1>12. QED
  BY <1>10, <1>11

\* A list of as many members of a finite set as it has, none of them twice,
\* holds them all.
LEMMA ListingCovers ==
  ASSUME NEW S, IsFiniteSet(S), NEW s \in [1..Cardinality(S) -> S],
         \A k, l \in DOMAIN s : k < l => s[k] # s[l]
  PROVE  Range(s) = S
<1> DEFINE n == Cardinality(S)
<1>1. n \in Nat /\ IsFiniteSet(1..n) /\ Cardinality(1..n) = n
  <2>1. n \in Nat
    BY FS_CardinalityType
  <2>2. 1 \in Int /\ n \in Int
    BY <2>1
  <2>3. QED
    BY <2>1, <2>2, FS_Interval
<1>2. \A k, l \in 1..n : s[k] = s[l] => k = l
  BY <1>1
<1>3. s \in Injection(1..n, S)
  BY <1>2 DEF Injection, IsInjective
<1>4. s \in Surjection(1..n, S)
  BY <1>1, <1>3, FS_Injection
<1>5. QED
  BY <1>4 DEF Surjection, Range
=============================================================================
