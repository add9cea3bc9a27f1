--------------------------- MODULE SequenceLemmas ----------------------------
(***************************************************************************)
(* Lemmas about sequences and sets of numbers that the proofs of several   *)
(* modules need: what FlattenSeq and SumFunction of the community modules  *)
(* compute, which the library says nothing about, how a sequence with one  *)
(* entry per place of a set grows, that sums over groups add up, that a    *)
(* recursive function on the naturals exists and unfolds, and what comes   *)
(* of sequences put one after another.                                     *)
(***************************************************************************)
EXTENDS Integers, FiniteSets, SequencesExt, TLAPS,
        SequenceTheorems, FiniteSetTheorems, WellFoundedInduction, NaturalsInduction

\* A non-empty set of naturals has a least element: what the inductions here use.
LEMMA LeastOf ==
  ASSUME NEW T \in SUBSET Nat, T # {}
  PROVE  \E k \in T : \A j \in T : k <= j
<1> DEFINE Less == OpToRel(<, Nat)
<1>1. \E k \in T : \A j \in T : ~(<<j, k>> \in Less)
  <2>1. IsWellFoundedOn(Less, Nat)
    BY NatLessThanWellFounded
  <2> HIDE DEF Less
  <2>2. QED  BY <2>1, WFMin
<1>2. PICK k \in T : \A j \in T : ~(<<j, k>> \in Less)
  BY <1>1
<1>3. \A j \in T : ~(j < k)
  BY <1>2 DEF OpToRel
<1>4. QED  BY <1>3

LEMMA GreatestOf ==
  ASSUME NEW T \in SUBSET Nat, T # {}, NEW B \in Nat, \A x \in T : x <= B
  PROVE  \E m \in T : \A x \in T : x <= m
<1> DEFINE D == {B - x : x \in T}
<1>1. D \in SUBSET Nat /\ D # {}
  <2>1. \A x \in T : B - x \in Nat
    OBVIOUS
  <2>2. QED  BY <2>1
<1>2. PICK d \in D : \A e \in D : d <= e
  <2> HIDE DEF D
  <2>1. QED  BY <1>1, LeastOf
<1>3. PICK m \in T : d = B - m
  OBVIOUS
<1>4. ASSUME NEW x \in T PROVE x <= m
  <2>1. B - m <= B - x
    BY <1>2, <1>3
  <2>2. QED  BY <2>1
<1>5. QED  BY <1>4

\* A function on the places up to n is a sequence.
LEMMA SequenceOf ==
  ASSUME NEW n \in Nat, NEW S, NEW f \in [1..n -> S]
  PROVE  f \in Seq(S) /\ Len(f) = n
OBVIOUS

\* A non-empty set of places in a sequence has a last one.
LEMMA LastPlace ==
  ASSUME NEW N \in Nat, NEW T \in SUBSET (1..N), T # {}
  PROVE  \E i \in T : \A j \in T : j <= i
<1>1. T \in SUBSET Nat /\ \A i \in T : i <= N
  OBVIOUS
<1>2. QED  BY <1>1, GreatestOf

\* Finitely many numbers have a bound.
LEMMA BoundOf ==
  ASSUME NEW n \in Nat, NEW f \in [1..n -> Nat]
  PROVE  \E B \in Nat : \A i \in 1..n : f[i] <= B
<1> DEFINE Bounded(k) == \E B \in Nat : \A i \in 1..k : f[i] <= B
           bad == {k \in 0..n : ~Bounded(k)}
<1>1. Bounded(0)
  <2>1. \A i \in 1..0 : f[i] <= 0
    OBVIOUS
  <2>2. QED  BY <2>1
<1>2. ASSUME NEW k \in 1..n, Bounded(k - 1) PROVE Bounded(k)
  <2>1. PICK B \in Nat : \A i \in 1..(k - 1) : f[i] <= B
    BY <1>2
  <2> DEFINE C == IF f[k] <= B THEN B ELSE f[k]
  <2>2. f[k] \in Nat /\ \A i \in 1..(k - 1) : f[i] \in Nat
    OBVIOUS
  <2>3. C \in Nat /\ B <= C /\ f[k] <= C
    BY <2>2
  <2> HIDE DEF C
  <2>4. ASSUME NEW i \in 1..k PROVE f[i] <= C
    <3>1. CASE i = k
      BY <2>3, <3>1
    <3>2. CASE i # k
      <4>1. i \in 1..(k - 1)
        BY <3>2
      <4>2. QED  BY <2>1, <2>2, <2>3, <4>1
    <3>3. QED  BY <3>1, <3>2
  <2>5. QED  BY <2>3, <2>4
<1> HIDE DEF Bounded
<1>3. bad = {}
  <2>1. SUFFICES ASSUME bad # {} PROVE FALSE
    OBVIOUS
  <2>2. bad \in SUBSET Nat
    OBVIOUS
  <2>3. PICK k \in bad : \A j \in bad : k <= j
    <3> HIDE DEF bad
    <3>1. QED  BY <2>1, <2>2, LeastOf
  <2>4. k \in 1..n /\ k - 1 \in 0..n /\ ~(k <= k - 1) /\ ~Bounded(k)
    BY <1>1, <2>3
  <2>5. k - 1 \notin bad
    BY <2>3, <2>4
  <2>6. QED  BY <1>2, <2>4, <2>5
<1>4. Bounded(n)
  BY <1>3
<1>5. QED  BY <1>4 DEF Bounded

\* Induction up to N, over the numbers that have a property.
LEMMA Climb ==
  ASSUME NEW N \in Nat, NEW T, 0 \in T, \A i \in 1..N : i - 1 \in T => i \in T
  PROVE  \A i \in 0..N : i \in T
<1> DEFINE bad == {i \in 0..N : i \notin T}
<1>1. SUFFICES ASSUME bad # {} PROVE FALSE
  OBVIOUS
<1>2. PICK k \in bad : \A j \in bad : k <= j
  <2>1. bad \in SUBSET Nat
    OBVIOUS
  <2> HIDE DEF bad
  <2>2. QED  BY <1>1, <2>1, LeastOf
<1>3. k \in 1..N
  OBVIOUS
<1>4. k - 1 \in 0..N /\ ~(k <= k - 1)
  BY <1>3
<1>5. k - 1 \in T
  BY <1>2, <1>4
<1>6. QED  BY <1>3, <1>5

\* ConcatAssociative of the library, for sequences of numbers.
Regroups(a, b, c) == (a \o b) \o c = a \o (b \o c)

LEMMA JoinsAssociate ==
  \A a, b, c \in Seq(Nat) : Regroups(a, b, c)
<1> DEFINE S == Nat
<1> HIDE DEF S
<1>1. \A a, b, c \in Seq(S) : (a \o b) \o c = a \o (b \o c)
  BY ConcatAssociative
<1>2. QED  BY <1>1 DEF S, Regroups

-----------------------------------------------------------------------------
(* FlattenSeq. *)

\* The sequences f[n] are the concatenations of the first n members of ss.
Concats(ss, f, n) ==
  /\ f[0] = << >>
  /\ \A i \in 1..n : f[i] = f[i - 1] \o ss[i]

LEMMA ConcatsExist ==
  ASSUME NEW S, NEW ss \in Seq(Seq(S))
  PROVE  \E f \in [0..Len(ss) -> Seq(S)] : Concats(ss, f, Len(ss))
<1> DEFINE N == Len(ss)
           Good(n) == \E f \in [0..n -> Seq(S)] : Concats(ss, f, n)
           bad == {n \in 0..N : ~Good(n)}
<1>1. N \in Nat /\ \A i \in 1..N : ss[i] \in Seq(S)
  BY LenProperties, ElementOfSeq
<1>2. Good(0)
  <2> DEFINE f == [i \in 0..0 |-> << >>]
  <2>1. f \in [0..0 -> Seq(S)] /\ f[0] = << >>
    OBVIOUS
  <2> HIDE DEF f
  <2>2. Concats(ss, f, 0)
    BY <2>1 DEF Concats
  <2>3. QED  BY <2>1, <2>2
<1>3. ASSUME NEW n \in 0..(N - 1), Good(n) PROVE Good(n + 1)
  <2>1. PICK f \in [0..n -> Seq(S)] : Concats(ss, f, n)
    BY <1>3
  <2> DEFINE g == [i \in 0..(n + 1) |-> IF i = n + 1 THEN f[n] \o ss[n + 1] ELSE f[i]]
  <2>2. f[n] \in Seq(S) /\ ss[n + 1] \in Seq(S)
    BY <1>1
  <2>3. f[n] \o ss[n + 1] \in Seq(S)
    BY <2>2
  <2>4. g \in [0..(n + 1) -> Seq(S)]
    BY <2>3
  <2>5. g[0] = << >>
    BY <2>1 DEF Concats
  <2>6. ASSUME NEW i \in 1..(n + 1) PROVE g[i] = g[i - 1] \o ss[i]
    <3>1. CASE i = n + 1
      <4>1. n \in 0..(n + 1) /\ n # n + 1 /\ n + 1 \in 0..(n + 1) /\ (n + 1) - 1 = n
        OBVIOUS
      <4>2. g[n + 1] = f[n] \o ss[n + 1] /\ g[n] = f[n]
        BY <4>1
      <4> HIDE DEF g
      <4>3. QED  BY <3>1, <4>1, <4>2
    <3>2. CASE i # n + 1
      <4>1. i \in 1..n /\ i - 1 \in 0..n
        BY <3>2
      <4>2. g[i] = f[i] /\ g[i - 1] = f[i - 1]
        BY <4>1
      <4>3. QED  BY <2>1, <4>1, <4>2 DEF Concats
    <3>3. QED  BY <3>1, <3>2
  <2> HIDE DEF g
  <2>7. Concats(ss, g, n + 1)
    BY <2>5, <2>6 DEF Concats
  <2>8. QED  BY <2>4, <2>7
<1> HIDE DEF Good
<1>4. bad = {}
  <2>1. SUFFICES ASSUME bad # {} PROVE FALSE
    OBVIOUS
  <2>2. bad \in SUBSET Nat
    BY <1>1
  <2>3. PICK k \in bad : \A j \in bad : k <= j
    <3> HIDE DEF bad
    <3>1. QED  BY <2>1, <2>2, LeastOf
  <2>4. k # 0
    BY <1>2
  <2>5. k - 1 \in 0..(N - 1) /\ k - 1 \notin bad /\ (k - 1) + 1 = k
    BY <1>1, <2>3, <2>4
  <2>6. Good(k - 1)
    BY <1>1, <2>5
  <2>7. QED  BY <1>3, <2>5, <2>6
<1>5. Good(N)
  BY <1>1, <1>4
<1>6. QED  BY <1>5 DEF Good

LEMMA FlattenIs ==
  ASSUME NEW S, NEW ss \in Seq(Seq(S)),
         NEW f \in [0..Len(ss) -> Seq(S)], Concats(ss, f, Len(ss))
  PROVE  FlattenSeq(ss) = f[Len(ss)]
<1> DEFINE N == Len(ss)
           Recursion(g) == g = [i \in 1..N |-> IF i = 1 THEN ss[i] ELSE g[i - 1] \o ss[i]]
           flat == CHOOSE g : Recursion(g)
<1>1. N \in Nat /\ \A i \in 1..N : ss[i] \in Seq(S)
  BY LenProperties, ElementOfSeq
<1>0. f[0] = << >> /\ \A i \in 1..N : f[i] = f[i - 1] \o ss[i]
  BY DEF Concats
<1>2. CASE N = 0
  <2>1. FlattenSeq(ss) = ss /\ ss = << >>
    BY <1>2 DEF FlattenSeq
  <2>2. QED  BY <1>0, <1>2, <2>1
<1>3. CASE N # 0
  <2>1. FlattenSeq(ss) = flat[N]
    BY <1>3 DEF FlattenSeq
  <2> DEFINE h == [i \in 1..N |-> f[i]]
  <2>2. Recursion(h)
    <3>1. ASSUME NEW i \in 1..N PROVE h[i] = IF i = 1 THEN ss[i] ELSE h[i - 1] \o ss[i]
      <4>1. CASE i = 1
        <5>1. 1 \in 1..N /\ 1 - 1 = 0
          BY <4>1
        <5>2. f[1] = << >> \o ss[1] /\ ss[1] \in Seq(S)
          BY <1>0, <1>1, <5>1
        <5>3. QED  BY <4>1, <5>2
      <4>2. CASE i # 1
        <5>1. i - 1 \in 1..N
          BY <1>1, <4>2
        <5>2. h[i] = f[i] /\ h[i - 1] = f[i - 1]
          BY <5>1
        <5>3. QED  BY <1>0, <4>2, <5>2
      <4>3. QED  BY <4>1, <4>2
    <3>2. QED  BY <3>1
  <2>3. Recursion(flat)
    <3> HIDE DEF Recursion, h
    <3>1. QED  BY <2>2
  <2> HIDE DEF flat
  <2>4. \A i \in 1..N : flat[i] = IF i = 1 THEN ss[i] ELSE flat[i - 1] \o ss[i]
    BY <2>3
  <2> DEFINE bad == {i \in 1..N : flat[i] # f[i]}
  <2>5. bad = {}
    <3>1. SUFFICES ASSUME bad # {} PROVE FALSE
      OBVIOUS
    <3>2. bad \in SUBSET Nat
      BY <1>1
    <3>3. PICK k \in bad : \A j \in bad : k <= j
      <4> HIDE DEF bad
      <4>1. QED  BY <3>1, <3>2, LeastOf
    <3>4. CASE k = 1
      <4>1. 1 \in 1..N /\ 1 - 1 = 0
        BY <3>4
      <4>2. f[1] = << >> \o ss[1] /\ ss[1] \in Seq(S)
        BY <1>0, <1>1, <4>1
      <4>3. flat[1] = ss[1] /\ flat[1] # f[1]
        BY <2>4, <3>4, <4>1
      <4>4. QED  BY <4>2, <4>3
    <3>5. CASE k # 1
      <4>1. k \in 1..N /\ k - 1 \in 1..N /\ ~(k <= k - 1)
        BY <1>1, <3>5
      <4>0. k - 1 \notin bad
        BY <3>3, <4>1
      <4>2. flat[k - 1] = f[k - 1]
        BY <4>0, <4>1
      <4>3. flat[k] = flat[k - 1] \o ss[k] /\ f[k] = f[k - 1] \o ss[k] /\ flat[k] # f[k]
        BY <1>0, <2>4, <3>5
      <4>4. QED  BY <4>2, <4>3
    <3>6. QED  BY <3>4, <3>5
  <2>6. N \in 1..N
    BY <1>1, <1>3
  <2>7. flat[N] = f[N]
    BY <2>5, <2>6
  <2>8. QED  BY <2>1, <2>7
<1>4. QED  BY <1>2, <1>3

\* Flattening distributes over concatenation.
LEMMA FlattenConcat ==
  ASSUME NEW S, NEW a \in Seq(Seq(S)), NEW b \in Seq(Seq(S))
  PROVE  FlattenSeq(a \o b) = FlattenSeq(a) \o FlattenSeq(b)
<1>a. \A x, y, z \in Seq(S) : (x \o y) \o z = x \o (y \o z)
  <2>1. TAKE x, y, z \in Seq(S)
  <2>2. QED  BY ConcatAssociative, SMTT(60)
<1> DEFINE A == Len(a)
           B == Len(b)
           c == a \o b
<1>1. /\ A \in Nat /\ B \in Nat
      /\ c \in Seq(Seq(S)) /\ Len(c) = A + B
      /\ \A i \in 1..(A + B) : c[i] = IF i <= A THEN a[i] ELSE b[i - A]
  BY ConcatProperties, LenProperties
<1>2. \A i \in 1..B : b[i] \in Seq(S)
  BY ElementOfSeq
<1>0. Len(a) = A /\ Len(b) = B
  OBVIOUS
<1> HIDE DEF c, A, B
<1>3. PICK f \in [0..Len(c) -> Seq(S)] : Concats(c, f, Len(c))
  BY <1>1, ConcatsExist
<1>4. PICK g \in [0..A -> Seq(S)] : Concats(a, g, A)
  BY <1>0, ConcatsExist
<1>5. PICK h \in [0..B -> Seq(S)] : Concats(b, h, B)
  BY <1>0, ConcatsExist
<1>6. \A i \in 0..A : f[i] = g[i]
  <2> DEFINE bad == {i \in 0..A : f[i] # g[i]}
  <2>1. SUFFICES ASSUME bad # {} PROVE FALSE
    OBVIOUS
  <2>2. PICK k \in bad : \A j \in bad : k <= j
    <3>1. bad \in SUBSET Nat
      BY <1>1
    <3> HIDE DEF bad
    <3>2. QED  BY <2>1, <3>1, LeastOf
  <2>3. k # 0
    BY <1>3, <1>4 DEF Concats
  <2>4. k \in 1..A /\ k - 1 \in 0..A /\ k - 1 \notin bad /\ k \in 1..Len(c)
    BY <1>1, <2>2, <2>3
  <2>5. f[k] = f[k - 1] \o c[k] /\ g[k] = g[k - 1] \o a[k]
    BY <1>3, <1>4, <2>4 DEF Concats
  <2>6. f[k - 1] = g[k - 1] /\ c[k] = a[k]
    BY <1>1, <2>4
  <2>7. QED  BY <2>2, <2>5, <2>6
<1>7. \A i \in 0..B : f[A + i] = g[A] \o h[i]
  <2> DEFINE bad == {i \in 0..B : f[A + i] # g[A] \o h[i]}
  <2>1. SUFFICES ASSUME bad # {} PROVE FALSE
    OBVIOUS
  <2>2. PICK k \in bad : \A j \in bad : k <= j
    <3>1. bad \in SUBSET Nat
      BY <1>1
    <3> HIDE DEF bad
    <3>2. QED  BY <2>1, <3>1, LeastOf
  <2>3. g[A] \in Seq(S) /\ f[A] = g[A]
    BY <1>1, <1>6
  <2>4. k # 0
    <3>1. g[A] \o << >> = g[A] /\ h[0] = << >> /\ A + 0 = A
      BY <1>1, <1>5, <2>3 DEF Concats
    <3>2. QED  BY <2>3, <3>1
  <2>a. k \in 1..B /\ k - 1 \in 0..B /\ ~(k <= k - 1)
    BY <1>1, <2>4
  <2>b. k - 1 \notin bad
    BY <2>2, <2>a
  <2>5. /\ A + k \in 1..Len(c) /\ A + k \in 1..(A + B)
        /\ (A + k) - 1 = A + (k - 1) /\ ~(A + k <= A) /\ (A + k) - A = k
    BY <1>1, <2>a
  <2>6. f[A + k] = f[(A + k) - 1] \o c[A + k] /\ h[k] = h[k - 1] \o b[k]
    BY <1>3, <1>5, <2>a, <2>5 DEF Concats
  <2>7. f[A + (k - 1)] = g[A] \o h[k - 1] /\ c[A + k] = b[k]
    BY <1>1, <2>a, <2>b, <2>5
  <2>8. h[k - 1] \in Seq(S) /\ b[k] \in Seq(S)
    BY <1>2, <2>a
  <2>9. (g[A] \o h[k - 1]) \o b[k] = g[A] \o (h[k - 1] \o b[k])
    <3>1. g[A] \in Seq(S) /\ h[k - 1] \in Seq(S) /\ b[k] \in Seq(S)
      BY <2>3, <2>8
    <3>2. QED  BY <1>a, <3>1, Zenon
  <2>10. f[A + k] = g[A] \o h[k]
    BY <2>5, <2>6, <2>7, <2>9
  <2>11. QED  BY <2>10
<1>8. FlattenSeq(a) = g[A] /\ FlattenSeq(b) = h[B]
  BY <1>0, <1>4, <1>5, FlattenIs
<1>9. FlattenSeq(c) = f[A + B]
  <2>1. FlattenSeq(c) = f[Len(c)]
    BY <1>1, <1>3, FlattenIs
  <2>2. Len(c) = A + B
    BY <1>1
  <2>3. QED  BY <2>1, <2>2, Zenon
<1>10. f[A + B] = g[A] \o h[B]
  <2>1. B \in 0..B
    BY <1>1
  <2>2. QED  BY <1>7, <2>1
<1>11. FlattenSeq(c) = FlattenSeq(a) \o FlattenSeq(b)
  BY <1>8, <1>9, <1>10
<1>12. QED  BY <1>11 DEF c

LEMMA FlattenType ==
  ASSUME NEW S, NEW ss \in Seq(Seq(S))
  PROVE  FlattenSeq(ss) \in Seq(S)
<1>1. PICK f \in [0..Len(ss) -> Seq(S)] : Concats(ss, f, Len(ss))
  BY ConcatsExist
<1>2. Len(ss) \in 0..Len(ss)
  BY LenProperties
<1>3. QED  BY <1>1, <1>2, FlattenIs

LEMMA FlattenFew ==
  /\ FlattenSeq(<< >>) = << >>
  /\ \A S : \A s \in Seq(S) : FlattenSeq(<<s>>) = s
<1>1. FlattenSeq(<< >>) = << >>
  BY DEF FlattenSeq
<1>2. ASSUME NEW S, NEW s \in Seq(S) PROVE FlattenSeq(<<s>>) = s
  <2> DEFINE f == [i \in 0..1 |-> IF i = 0 THEN << >> ELSE s]
  <2>1. <<s>> \in Seq(Seq(S)) /\ Len(<<s>>) = 1 /\ <<s>>[1] = s
    OBVIOUS
  <2>2. f \in [0..1 -> Seq(S)] /\ f[0] = << >> /\ f[1] = s
    OBVIOUS
  <2> HIDE DEF f
  <2>3. Concats(<<s>>, f, 1)
    BY <2>1, <2>2 DEF Concats
  <2>4. FlattenSeq(<<s>>) = f[1]
    BY <2>1, <2>2, <2>3, FlattenIs
  <2>5. QED  BY <2>2, <2>4
<1>3. QED  BY <1>1, <1>2

-----------------------------------------------------------------------------
(* Folds: MapThenFoldSet, and with it FoldLeft, takes its steps from a function *)
(* on the sets of places, which here is shown to exist.                         *)

LEMMA MaxIs ==
  ASSUME NEW n \in Nat, NEW S \in SUBSET (1..n), S # {}
  PROVE  Max(S) \in S /\ \A j \in S : j <= Max(S)
<1>1. PICK m \in S : \A j \in S : j <= m
  BY LastPlace
<1>2. \A j \in S : m >= j
  BY <1>1
<1>3. Max(S) \in S /\ \A j \in S : Max(S) >= j
  BY <1>2 DEF Max
<1>4. \A j \in S : j \in Int
  OBVIOUS
<1>5. QED  BY <1>3, <1>4

\* h gives every set of places what F makes of its members in order.
FoldsBy(h, a, F, n) ==
  \A S \in SUBSET (1..n) :
    h[S] = IF S = {} THEN a ELSE F[<<h[S \ {Max(S)}], Max(S)>>]

LEMMA FoldExists ==
  ASSUME NEW D, NEW a \in D, NEW N \in Nat, NEW F \in [D \X (1..N) -> D]
  PROVE  \E h \in [SUBSET (1..N) -> D] : FoldsBy(h, a, F, N)
<1> DEFINE Good(n) == \E h \in [SUBSET (1..n) -> D] : FoldsBy(h, a, F, n)
           bad == {n \in 0..N : ~Good(n)}
<1>1. Good(0)
  <2> DEFINE h == [S \in SUBSET (1..0) |-> a]
  <2>1. 1..0 = {}
    OBVIOUS
  <2>2. h \in [SUBSET (1..0) -> D] /\ \A S \in SUBSET (1..0) : S = {} /\ h[S] = a
    BY <2>1
  <2> HIDE DEF h
  <2>3. FoldsBy(h, a, F, 0)
    BY <2>2 DEF FoldsBy
  <2>4. QED  BY <2>2, <2>3
<1>2. ASSUME NEW n \in 0..(N - 1), Good(n) PROVE Good(n + 1)
  <2>1. PICK h \in [SUBSET (1..n) -> D] : FoldsBy(h, a, F, n)
    BY <1>2
  <2> DEFINE g == [S \in SUBSET (1..(n + 1)) |->
                     IF n + 1 \in S THEN F[<<h[S \ {n + 1}], n + 1>>] ELSE h[S]]
  <2>2. ASSUME NEW S \in SUBSET (1..(n + 1)), n + 1 \in S
        PROVE  S \ {n + 1} \in SUBSET (1..n) /\ g[S] = F[<<h[S \ {n + 1}], n + 1>>] /\ g[S] \in D
    <3>1. S \ {n + 1} \in SUBSET (1..n)
      BY <2>2
    <3>2. h[S \ {n + 1}] \in D /\ n + 1 \in 1..N
      BY <3>1
    <3>3. QED  BY <2>2, <3>1, <3>2
  <2>3. ASSUME NEW S \in SUBSET (1..(n + 1)), n + 1 \notin S
        PROVE  S \in SUBSET (1..n) /\ g[S] = h[S] /\ g[S] \in D
    <3>1. S \in SUBSET (1..n)
      BY <2>3
    <3>2. QED  BY <2>3, <3>1
  <2>4. g \in [SUBSET (1..(n + 1)) -> D]
    <3>1. \A S \in SUBSET (1..(n + 1)) : g[S] \in D
      BY <2>2, <2>3
    <3>2. DOMAIN g = SUBSET (1..(n + 1)) /\ g = [S \in SUBSET (1..(n + 1)) |-> g[S]]
      OBVIOUS
    <3> HIDE DEF g
    <3>3. QED  BY <3>1, <3>2
  <2> HIDE DEF g
  <2>5. ASSUME NEW S \in SUBSET (1..(n + 1))
        PROVE  g[S] = IF S = {} THEN a ELSE F[<<g[S \ {Max(S)}], Max(S)>>]
    <3>1. CASE n + 1 \in S
      <4>1. Max(S) = n + 1
        <5>1. n + 1 \in Nat
          OBVIOUS
        <5>2. Max(S) \in S /\ \A j \in S : j <= Max(S)
          BY <3>1, <5>1, MaxIs
        <5>3. Max(S) \in 1..(n + 1) /\ n + 1 <= Max(S)
          BY <3>1, <5>2
        <5> HIDE DEF g
        <5>4. QED  BY <5>3
      <4>2. S \ {n + 1} \in SUBSET (1..n) /\ g[S] = F[<<h[S \ {n + 1}], n + 1>>]
        BY <2>2, <3>1
      <4>3. S \ {n + 1} \in SUBSET (1..(n + 1)) /\ n + 1 \notin S \ {n + 1}
        OBVIOUS
      <4>4. g[S \ {n + 1}] = h[S \ {n + 1}]
        BY <2>3, <4>3
      <4>5. QED  BY <3>1, <4>1, <4>2, <4>4
    <3>2. CASE n + 1 \notin S
      <4>1. S \in SUBSET (1..n) /\ g[S] = h[S]
        BY <2>3, <3>2
      <4>2. h[S] = IF S = {} THEN a ELSE F[<<h[S \ {Max(S)}], Max(S)>>]
        BY <2>1, <4>1 DEF FoldsBy
      <4>3. S \ {Max(S)} \in SUBSET (1..(n + 1)) /\ n + 1 \notin S \ {Max(S)}
        BY <3>2
      <4>4. g[S \ {Max(S)}] = h[S \ {Max(S)}]
        BY <2>3, <4>3
      <4>5. QED  BY <4>1, <4>2, <4>4
    <3>3. QED  BY <3>1, <3>2
  <2>6. FoldsBy(g, a, F, n + 1)
    BY <2>5 DEF FoldsBy
  <2>7. QED  BY <2>4, <2>6
<1> HIDE DEF Good
<1>3. bad = {}
  <2>1. SUFFICES ASSUME bad # {} PROVE FALSE
    OBVIOUS
  <2>2. bad \in SUBSET Nat
    OBVIOUS
  <2>3. PICK k \in bad : \A j \in bad : k <= j
    <3> HIDE DEF bad
    <3>1. QED  BY <2>1, <2>2, LeastOf
  <2>4. k # 0
    BY <1>1
  <2>5. k - 1 \in 0..(N - 1) /\ k - 1 \notin bad /\ (k - 1) + 1 = k
    BY <2>3, <2>4
  <2>6. Good(k - 1)
    BY <2>5
  <2>7. QED  BY <1>2, <2>5, <2>6
<1>4. Good(N)
  BY <1>3
<1>5. QED  BY <1>4 DEF Good

\* The sets of places such a function goes through.
LEMMA UpTo ==
  ASSUME NEW n \in Nat, NEW i \in 1..n
  PROVE  1..i \in SUBSET (1..n) /\ 1..i # {} /\ Max(1..i) = i /\ (1..i) \ {i} = 1..(i - 1)
<1>1. 1..i \in SUBSET (1..n) /\ i \in 1..i /\ (1..i) \ {i} = 1..(i - 1)
  OBVIOUS
<1>2. Max(1..i) \in 1..i /\ \A j \in 1..i : j <= Max(1..i)
  BY <1>1, MaxIs
<1>3. Max(1..i) = i
  BY <1>1, <1>2
<1>4. QED  BY <1>1, <1>3

\* iter satisfies the fold's recursion as long as it stays in D; g is what it
\* goes through from one place to the next.
Recurs(iter, D, a, F, N) ==
  /\ iter[{}] = a
  /\ \A S \in SUBSET (1..N) : (S # {} /\ iter[S \ {Max(S)}] \in D) =>
       iter[S] = F[<<iter[S \ {Max(S)}], Max(S)>>]
Passes(g, iter, a, F, N) ==
  /\ g[0] = a /\ \A i \in 1..N : g[i] = F[<<g[i - 1], i>>]
  /\ iter[1..N] = g[N]

LEMMA FoldSteps ==
  ASSUME NEW D, NEW a \in D, NEW N \in Nat, NEW F \in [D \X (1..N) -> D],
         NEW iter, Recurs(iter, D, a, F, N)
  PROVE  \E g \in [0..N -> D] : Passes(g, iter, a, F, N)
<1> DEFINE g == [i \in 0..N |-> iter[1..i]]
           T == {i \in 0..N : g[i] \in D}
<1>0. /\ iter[{}] = a
      /\ \A S \in SUBSET (1..N) : (S # {} /\ iter[S \ {Max(S)}] \in D) =>
           iter[S] = F[<<iter[S \ {Max(S)}], Max(S)>>]
  BY DEF Recurs
<1>1. g[0] = a
  <2>1. 1..0 = {} /\ 0 \in 0..N
    OBVIOUS
  <2>2. QED  BY <1>0, <2>1
<1>2. ASSUME NEW i \in 1..N, g[i - 1] \in D PROVE g[i] = F[<<g[i - 1], i>>] /\ g[i] \in D
  <2>1. 1..i \in SUBSET (1..N) /\ 1..i # {} /\ Max(1..i) = i /\ (1..i) \ {i} = 1..(i - 1)
    BY UpTo
  <2>2. i \in 0..N /\ i - 1 \in 0..N
    OBVIOUS
  <2>3. iter[1..(i - 1)] \in D /\ g[i - 1] = iter[1..(i - 1)] /\ g[i] = iter[1..i]
    BY <1>2, <2>2
  <2>4. iter[1..i] = F[<<iter[1..(i - 1)], i>>]
    BY <1>0, <2>1, <2>3
  <2>5. F[<<iter[1..(i - 1)], i>>] \in D
    BY <2>3
  <2>6. QED  BY <2>3, <2>4, <2>5
<1>3. g[N] = iter[1..N] /\ DOMAIN g = 0..N /\ g = [i \in 0..N |-> g[i]]
  OBVIOUS
<1> HIDE DEF g
<1>4. \A i \in 0..N : i \in T
  <2>1. 0 \in T
    BY <1>1
  <2>2. ASSUME NEW i \in 1..N, i - 1 \in T PROVE i \in T
    <3>1. g[i - 1] \in D /\ i \in 0..N
      BY <2>2
    <3>2. g[i] \in D
      BY <1>2, <3>1
    <3>3. QED  BY <3>1, <3>2
  <2> HIDE DEF T
  <2>3. QED  BY <2>1, <2>2, Climb
<1>5. \A i \in 0..N : g[i] \in D
  BY <1>4
<1>6. g \in [0..N -> D]
  BY <1>3, <1>5
<1>7. \A i \in 1..N : g[i] = F[<<g[i - 1], i>>]
  <2>1. \A i \in 1..N : i - 1 \in 0..N
    OBVIOUS
  <2>2. QED  BY <1>2, <1>5, <2>1
<1>8. QED  BY <1>1, <1>3, <1>6, <1>7 DEF Passes

\* u is s and then t: an equation the provers do not take apart.
Joins(u, s, t) == u = s \o t

\* What one append after another makes.
AppendsTo(h, x, N) == \A i \in 1..N : h[i] = Append(h[i - 1], x[i])

LEMMA AppendsAll ==
  ASSUME NEW S, NEW N \in Nat, NEW x \in [1..N -> S], NEW h \in [0..N -> Seq(S)],
         AppendsTo(h, x, N)
  PROVE  x \in Seq(S) /\ Joins(h[N], h[0], x)
<1> DEFINE L == Len(h[0])
           T == {i \in 0..N : /\ Len(h[i]) = L + i
                              /\ \A j \in 1..(L + i) : h[i][j] = IF j <= L THEN h[0][j] ELSE x[j - L]}
<1>1. h[0] \in Seq(S) /\ L \in Nat
  BY LenProperties
<1>2. x \in Seq(S) /\ Len(x) = N
  OBVIOUS
<1> HIDE DEF L
<1>3. 0 \in T
  <2>1. Len(h[0]) = L + 0 /\ \A j \in 1..(L + 0) : j <= L
    BY <1>1 DEF L
  <2>2. QED  BY <2>1
<1>4. ASSUME NEW i \in 1..N, i - 1 \in T PROVE i \in T
  <2>1. /\ i \in 0..N /\ i - 1 \in 0..N /\ h[i - 1] \in Seq(S) /\ x[i] \in S
        /\ L + i \in Nat /\ (L + (i - 1)) + 1 = L + i /\ ~(L + i <= L) /\ (L + i) - L = i
    BY <1>1
  <2>2. /\ Len(h[i - 1]) = L + (i - 1)
        /\ \A j \in 1..(L + (i - 1)) : h[i - 1][j] = IF j <= L THEN h[0][j] ELSE x[j - L]
    BY <1>4
  <2>3. /\ Len(h[i]) = L + i /\ h[i][L + i] = x[i]
        /\ \A j \in 1..(L + (i - 1)) : h[i][j] = h[i - 1][j]
    <3>1. /\ Len(Append(h[i - 1], x[i])) = Len(h[i - 1]) + 1
          /\ Append(h[i - 1], x[i])[Len(h[i - 1]) + 1] = x[i]
          /\ \A j \in 1..Len(h[i - 1]) : Append(h[i - 1], x[i])[j] = h[i - 1][j]
      BY <2>1, AppendProperties
    <3>2. h[i] = Append(h[i - 1], x[i])
      BY DEF AppendsTo
    <3>3. QED  BY ONLY <2>1, <2>2, <3>1, <3>2
  <2>4. ASSUME NEW j \in 1..(L + i) PROVE h[i][j] = IF j <= L THEN h[0][j] ELSE x[j - L]
    <3>1. j = L + i \/ j \in 1..(L + (i - 1))
      BY <1>1, <2>1
    <3>2. CASE j = L + i
      BY ONLY <2>1, <2>3, <3>2
    <3>3. CASE j \in 1..(L + (i - 1))
      BY ONLY <2>2, <2>3, <3>3
    <3>4. QED  BY <3>1, <3>2, <3>3
  <2>5. QED  BY <2>1, <2>3, <2>4
<1>5. \A i \in 0..N : i \in T
  <2> HIDE DEF T
  <2>1. QED  BY <1>3, <1>4, Climb
<1>6. /\ h[N] \in Seq(S) /\ Len(h[N]) = L + N
      /\ \A j \in 1..(L + N) : h[N][j] = IF j <= L THEN h[0][j] ELSE x[j - L]
  <2>1. N \in T /\ N \in 0..N
    BY <1>5
  <2>2. QED  BY <2>1
<1>7. /\ h[0] \o x \in Seq(S) /\ Len(h[0] \o x) = L + N
      /\ \A j \in 1..(L + N) : (h[0] \o x)[j] = IF j <= L THEN h[0][j] ELSE x[j - L]
  BY <1>1, <1>2, ConcatProperties DEF L
<1> HIDE DEF T
<1>8. h[N] = h[0] \o x
  <2> DEFINE s == h[N]
             t == h[0] \o x
  <2>1. s \in Seq(S) /\ t \in Seq(S) /\ Len(s) = Len(t) /\ \A i \in 1..Len(s) : s[i] = t[i]
    BY <1>6, <1>7
  <2> HIDE DEF s, t
  <2>2. s = t
    BY ONLY <2>1, SeqEqual
  <2>3. QED  BY <2>2 DEF s, t
<1>9. QED  BY <1>2, <1>8 DEF Joins

\* What each entry stands for, over two sequences joined.
Mapped(m, s) == [i \in DOMAIN s |-> m[s[i]]]

LEMMA MapConcat ==
  ASSUME NEW S, NEW T, NEW m \in [S -> T], NEW s \in Seq(S), NEW t \in Seq(S)
  PROVE  Mapped(m, s) \in Seq(T) /\ Joins(Mapped(m, s \o t), Mapped(m, s), Mapped(m, t))
<1> DEFINE M == Len(s)
           N == Len(t)
           c == s \o t
           a == [i \in DOMAIN s |-> m[s[i]]]
           b == [i \in DOMAIN t |-> m[t[i]]]
           d == [i \in DOMAIN c |-> m[c[i]]]
<1>1. /\ M \in Nat /\ N \in Nat /\ c \in Seq(S) /\ Len(c) = M + N
      /\ DOMAIN s = 1..M /\ DOMAIN t = 1..N /\ DOMAIN c = 1..(M + N)
      /\ \A i \in 1..(M + N) : c[i] = IF i <= M THEN s[i] ELSE t[i - M]
  BY ConcatProperties, LenProperties
<1>2. /\ \A i \in 1..M : s[i] \in S
      /\ \A i \in 1..N : t[i] \in S
      /\ \A i \in 1..(M + N) : c[i] \in S
  BY <1>1, ElementOfSeq
<1> HIDE DEF c, M, N
<1>3. /\ a \in [1..M -> T] /\ b \in [1..N -> T] /\ d \in [1..(M + N) -> T]
      /\ \A i \in 1..M : a[i] = m[s[i]]
      /\ \A i \in 1..N : b[i] = m[t[i]]
      /\ \A i \in 1..(M + N) : d[i] = m[c[i]]
  BY <1>1, <1>2
<1> HIDE DEF a, b, d
<1>4. /\ a \in Seq(T) /\ Len(a) = M /\ b \in Seq(T) /\ Len(b) = N
      /\ d \in Seq(T) /\ Len(d) = M + N
  <2>1. ASSUME NEW n \in Nat, NEW u \in [1..n -> T] PROVE u \in Seq(T) /\ Len(u) = n
    OBVIOUS
  <2>2. M + N \in Nat
    BY <1>1
  <2>3. QED  BY <1>1, <1>3, <2>1, <2>2
<1>5. /\ a \o b \in Seq(T) /\ Len(a \o b) = M + N
      /\ \A i \in 1..(M + N) : (a \o b)[i] = IF i <= M THEN a[i] ELSE b[i - M]
  BY <1>4, ConcatProperties
<1>6. ASSUME NEW i \in 1..(M + N) PROVE d[i] = (a \o b)[i]
  <2>1. CASE i <= M
    BY <1>1, <1>3, <1>5, <2>1
  <2>2. CASE ~(i <= M)
    <3>1. i - M \in 1..N
      BY <1>1, <2>2
    <3>2. QED  BY <1>1, <1>3, <1>5, <2>2, <3>1
  <2>3. QED  BY <2>1, <2>2
<1>7. d = a \o b
  <2> DEFINE u == a \o b
  <2>1. d \in Seq(T) /\ u \in Seq(T) /\ Len(d) = Len(u) /\ \A i \in 1..Len(d) : d[i] = u[i]
    BY <1>4, <1>5, <1>6
  <2> HIDE DEF u
  <2>2. d = u
    BY ONLY <2>1, SeqEqual
  <2>3. QED  BY <2>2 DEF u
<1>8. QED  BY <1>4, <1>7 DEF a, b, c, d, Mapped, Joins

-----------------------------------------------------------------------------
(* What is left of a sequence past a place. *)

LEMMA RestGrows ==
  ASSUME NEW S, NEW s \in Seq(S), NEW t \in Seq(S), NEW g \in Nat, g <= Len(s)
  PROVE  SubSeq(s \o t, g + 1, Len(s \o t)) = SubSeq(s, g + 1, Len(s)) \o t
<1> DEFINE L == Len(s)
           M == Len(t)
           c == s \o t
<1>1. /\ L \in Nat /\ M \in Nat /\ g <= L /\ Len(t) = M
      /\ c \in Seq(S) /\ Len(c) = L + M
      /\ \A i \in 1..(L + M) : c[i] = IF i <= L THEN s[i] ELSE t[i - L]
      /\ \A i \in 1..L : s[i] \in S
  BY ConcatProperties, LenProperties, ElementOfSeq
<1> HIDE DEF c, L, M
<1> DEFINE a == SubSeq(s, g + 1, L)
           b == SubSeq(c, g + 1, L + M)
<1>2. a \in Seq(S) /\ Len(a) = L - g /\ \A i \in 1..(L - g) : a[i] = s[g + i]
  <2>1. g + 1 \in Int /\ L \in Int /\ \A i \in (g + 1)..L : s[i] \in S
    BY <1>1
  <2>2. /\ a \in Seq(S) /\ Len(a) = IF g + 1 <= L THEN L - (g + 1) + 1 ELSE 0
        /\ \A i \in 1..(L - (g + 1) + 1) : a[i] = s[g + 1 + i - 1]
    BY <2>1, SubSeqProperties
  <2> HIDE DEF a
  <2>3. QED  BY <1>1, <2>2, SMTT(60)
<1>3. b \in Seq(S) /\ Len(b) = L + M - g /\ \A i \in 1..(L + M - g) : b[i] = c[g + i]
  <2> DEFINE N == L + M
  <2>1. g + 1 \in Int /\ N \in Int /\ \A i \in (g + 1)..N : c[i] \in S
    BY <1>1, ElementOfSeq
  <2>0. b = SubSeq(c, g + 1, N)
    OBVIOUS
  <2> HIDE DEF N, b
  <2>2. /\ b \in Seq(S) /\ Len(b) = IF g + 1 <= N THEN N - (g + 1) + 1 ELSE 0
        /\ \A i \in 1..(N - (g + 1) + 1) : b[i] = c[g + 1 + i - 1]
    BY <2>0, <2>1, SubSeqProperties
  <2>3. QED  BY <1>1, <2>2 DEF N
<1> HIDE DEF a, b
<1>4. /\ a \o t \in Seq(S) /\ Len(a \o t) = Len(a) + M
      /\ \A i \in 1..(Len(a) + M) : (a \o t)[i] = IF i <= Len(a) THEN a[i] ELSE t[i - Len(a)]
  <2>1. a \in Seq(S) /\ t \in Seq(S)
    BY <1>2
  <2>2. /\ a \o t \in Seq(S) /\ Len(a \o t) = Len(a) + Len(t)
        /\ \A i \in 1..(Len(a) + Len(t)) : (a \o t)[i] = IF i <= Len(a) THEN a[i] ELSE t[i - Len(a)]
    BY ONLY <2>1, ConcatProperties
  <2>3. QED  BY <1>1, <2>2
<1>5. ASSUME NEW i \in 1..(L + M - g) PROVE b[i] = (a \o t)[i]
  <2>1. g + i \in 1..(L + M) /\ i \in 1..(Len(a) + M)
    BY <1>1, <1>2
  <2>2. CASE i <= L - g
    <3>1. g + i <= L /\ i \in 1..(L - g)
      BY <1>1, <2>2
    <3>2. QED  BY <1>1, <1>2, <1>3, <1>4, <2>1, <2>2, <3>1
  <2>3. CASE ~(i <= L - g)
    <3>1. ~(g + i <= L) /\ g + i - L = i - (L - g)
      BY <1>1, <2>3
    <3>2. QED  BY <1>1, <1>2, <1>3, <1>4, <2>1, <2>3, <3>1
  <2>4. QED  BY <2>2, <2>3
<1>6. Len(b) = Len(a \o t) /\ \A i \in 1..Len(b) : b[i] = (a \o t)[i]
  BY <1>1, <1>2, <1>3, <1>4, <1>5, SMTT(60)
<1>7. b = a \o t
  BY <1>3, <1>4, <1>6, SeqEqual
<1>8. QED  BY <1>1, <1>7 DEF a, b, c, L

LEMMA RestShrinks ==
  ASSUME NEW S, NEW s \in Seq(S), NEW g \in Nat, g < Len(s)
  PROVE  SubSeq(s, g + 1, Len(s)) = <<s[g + 1]>> \o SubSeq(s, (g + 1) + 1, Len(s))
<1>1. g + 1 \in 1..Len(s) /\ Len(s) \in (g + 1)..Len(s)
  BY LenProperties
<1>2. QED  BY <1>1, SubSeqRecursiveFirst

LEMMA RestType ==
  ASSUME NEW S, NEW s \in Seq(S), NEW g \in Nat
  PROVE  SubSeq(s, g + 1, Len(s)) \in Seq(S)
<1>1. g + 1 \in Int /\ Len(s) \in Int /\ \A i \in (g + 1)..Len(s) : s[i] \in S
  BY LenProperties, ElementOfSeq
<1>2. QED  BY <1>1, SubSeqProperties

-----------------------------------------------------------------------------
(* A sequence with one entry per place of a set of numbers, in their order. *)

\* The rank of a place: 1 for the first.
Rank(places, j) == Cardinality({i \in places : i <= j})

LEMMA RankType ==
  ASSUME NEW places \in SUBSET Int, IsFiniteSet(places), NEW j \in places
  PROVE  /\ Rank(places, j) \in 1..Cardinality(places)
         /\ \A i \in places : i < j => Rank(places, i) < Rank(places, j)
<1> DEFINE upTo(i) == {h \in places : h <= i}
<1>1. \A i \in places : /\ upTo(i) \in SUBSET places /\ i \in upTo(i)
                         /\ IsFiniteSet(upTo(i)) /\ Cardinality(upTo(i)) \in Nat
                         /\ Cardinality(upTo(i)) <= Cardinality(places)
                         /\ Cardinality(upTo(i)) # 0
  <2>1. ASSUME NEW i \in places
        PROVE  upTo(i) \in SUBSET places /\ i \in upTo(i)
    <3>1. i <= i
      OBVIOUS
    <3>2. QED  BY <3>1
  <2>2. ASSUME NEW i \in places
        PROVE  /\ IsFiniteSet(upTo(i)) /\ Cardinality(upTo(i)) \in Nat
               /\ Cardinality(upTo(i)) <= Cardinality(places)
               /\ Cardinality(upTo(i)) # 0
    <3> HIDE DEF upTo
    <3>1. IsFiniteSet(upTo(i)) /\ Cardinality(upTo(i)) <= Cardinality(places)
      BY <2>1, FS_Subset
    <3>2. Cardinality(upTo(i)) \in Nat /\ Cardinality(upTo(i)) # 0
      BY <2>1, <3>1, FS_CardinalityType, FS_EmptySet
    <3>3. QED  BY <3>1, <3>2
  <2>3. QED  BY <2>1, <2>2
<1>2. ASSUME NEW i \in places, i < j
      PROVE  Cardinality(upTo(i)) < Cardinality(upTo(j))
  <2>1. upTo(i) \in SUBSET upTo(j) /\ j \notin upTo(i)
    <3>1. i \in Int /\ j \in Int /\ ~(j <= i)
      BY <1>2
    <3>2. \A h \in places : h \in Int /\ (h <= i => h <= j)
      BY <1>2, <3>1
    <3>3. QED  BY <3>1, <3>2
  <2>2. upTo(i) # upTo(j) /\ IsFiniteSet(upTo(j))
    BY <1>1, <2>1
  <2>3. Cardinality(upTo(i)) \in Nat /\ Cardinality(upTo(j)) \in Nat
    BY <1>1
  <2> HIDE DEF upTo
  <2>4. Cardinality(upTo(i)) <= Cardinality(upTo(j)) /\ Cardinality(upTo(i)) # Cardinality(upTo(j))
    BY <2>1, <2>2, FS_Subset
  <2>5. QED  BY <2>3, <2>4
<1>3. \A i \in places : Rank(places, i) = Cardinality(upTo(i))
  BY DEF Rank
<1>4. Cardinality(places) \in Nat
  BY FS_CardinalityType
<1> HIDE DEF upTo
<1>5. QED  BY <1>1, <1>2, <1>3, <1>4

\* Every rank belongs to a place.
LEMMA RankOnto ==
  ASSUME NEW places \in SUBSET Int, IsFiniteSet(places), NEW k \in 1..Cardinality(places)
  PROVE  \E p \in places : Rank(places, p) = k
<1> DEFINE n == Cardinality(places)
           rank == [p \in places |-> Rank(places, p)]
<1>1. n \in Nat
  BY FS_CardinalityType
<1>2. rank \in [places -> 1..n]
  BY RankType
<1>3. ASSUME NEW p \in places, NEW q \in places, rank[p] = rank[q] PROVE p = q
  <2>1. Rank(places, p) = Rank(places, q)
    BY <1>3
  <2>2. Rank(places, p) \in 1..n /\ Rank(places, q) \in 1..n
    BY RankType
  <2>3. p < q => Rank(places, p) < Rank(places, q)
    BY RankType
  <2>4. q < p => Rank(places, q) < Rank(places, p)
    BY RankType
  <2>5. p \in Int /\ q \in Int
    OBVIOUS
  <2>6. QED  BY <1>1, <2>1, <2>2, <2>3, <2>4, <2>5
<1>4. rank \in Injection(places, 1..n)
  BY <1>2, <1>3 DEF Injection, IsInjective
<1>5. IsFiniteSet(1..n) /\ Cardinality(1..n) = n
  BY <1>1, FS_Interval
<1>6. rank \in Surjection(places, 1..n)
  <2> HIDE DEF rank
  <2>1. QED  BY <1>4, <1>5, FS_Injection
<1>7. PICK p \in places : rank[p] = k
  BY <1>6 DEF Surjection
<1>8. QED  BY <1>7

\* A later place takes the last rank and moves no other.
LEMMA RankOfNext ==
  ASSUME NEW places \in SUBSET Nat, IsFiniteSet(places),
         NEW d \in Nat, \A i \in places : i < d
  PROVE  /\ IsFiniteSet(places \cup {d})
         /\ Cardinality(places \cup {d}) = Cardinality(places) + 1
         /\ Cardinality(places) \in Nat
         /\ Rank(places \cup {d}, d) = Cardinality(places) + 1
         /\ \A j \in places : /\ Rank(places \cup {d}, j) = Rank(places, j)
                              /\ Rank(places, j) \in 1..Cardinality(places)
<1>1. d \notin places
  OBVIOUS
<1>2. /\ IsFiniteSet(places \cup {d})
      /\ Cardinality(places \cup {d}) = Cardinality(places) + 1
  BY <1>1, FS_AddElement
<1>3. Cardinality(places) \in Nat
  BY FS_CardinalityType
<1>4. {i \in places \cup {d} : i <= d} = places \cup {d}
  <2>1. \A i \in places \cup {d} : i <= d
    OBVIOUS
  <2>2. QED  BY <2>1
<1>5. ASSUME NEW j \in places
      PROVE  /\ Rank(places \cup {d}, j) = Rank(places, j)
             /\ Rank(places, j) \in 1..Cardinality(places)
  <2> DEFINE upTo == {i \in places : i <= j}
  <2>1. {i \in places \cup {d} : i <= j} = upTo
    OBVIOUS
  <2>2. upTo \in SUBSET places /\ j \in upTo
    OBVIOUS
  <2>3. IsFiniteSet(upTo) /\ Cardinality(upTo) <= Cardinality(places)
    BY <2>2, FS_Subset
  <2>4. Cardinality(upTo) \in Nat /\ Cardinality(upTo) # 0
    BY <2>2, <2>3, FS_CardinalityType, FS_EmptySet
  <2>5. QED  BY <1>3, <2>1, <2>3, <2>4 DEF Rank
<1>6. QED  BY <1>2, <1>3, <1>4, <1>5 DEF Rank

-----------------------------------------------------------------------------
(* Sums over finite sets, and other measures that add up. *)

\* G holds what can be built by adding one member after the other.
Builds(G, S) ==
  /\ {} \in G
  /\ \A T \in SUBSET S : T # {} /\ (\A x \in T : T \ {x} \in G) => T \in G

\* Induction over the subsets of a finite set, by their size.
LEMMA BuildUp ==
  ASSUME NEW S, IsFiniteSet(S), NEW G, Builds(G, S)
  PROVE  SUBSET S \subseteq G
<1> DEFINE N == Cardinality(S)
           Size == [T \in SUBSET S |-> Cardinality(T)]
           level == {n \in 0..N : \A T \in SUBSET S : Size[T] = n => T \in G}
<1>1. N \in Nat
  BY FS_CardinalityType
<1>2. ASSUME NEW T \in SUBSET S
      PROVE  /\ Size[T] \in 0..N /\ (Size[T] = 0 <=> T = {})
             /\ \A x \in T : T \ {x} \in SUBSET S /\ Size[T \ {x}] = Size[T] - 1
  <2>1. IsFiniteSet(T) /\ Cardinality(T) \in Nat /\ Cardinality(T) <= N
    BY FS_Subset, FS_CardinalityType
  <2>2. Cardinality(T) = 0 <=> T = {}
    BY <2>1, FS_EmptySet
  <2>3. \A x \in T : Cardinality(T \ {x}) = Cardinality(T) - 1
    BY <2>1, FS_RemoveElement
  <2>4. QED  BY <1>1, <2>1, <2>2, <2>3
<1> HIDE DEF Size, N
<1>3. 0 \in level
  BY <1>1, <1>2 DEF Builds
<1>4. ASSUME NEW n \in 1..N, n - 1 \in level PROVE n \in level
  <2>1. ASSUME NEW T \in SUBSET S, Size[T] = n PROVE T \in G
    <3>1. T # {}
      BY <1>1, <1>2, <2>1
    <3>2. ASSUME NEW x \in T PROVE T \ {x} \in G
      BY <1>1, <1>2, <1>4, <2>1
    <3>3. QED  BY <3>1, <3>2 DEF Builds
  <2>2. QED  BY <1>1, <2>1
<1> HIDE DEF level
<1>5. \A n \in 0..N : n \in level
  BY <1>1, <1>3, <1>4, Climb
<1>6. QED  BY <1>2, <1>5 DEF level

AnyOf(T) == CHOOSE x \in T : TRUE

LEMMA AnyIs ==
  ASSUME NEW T, T # {}
  PROVE  AnyOf(T) \in T
BY DEF AnyOf

\* h[T] sums f over each subset T of S, one member after the other.
SumsBy(h, f, S) ==
  \A T \in SUBSET S : h[T] = IF T = {} THEN 0 ELSE f[AnyOf(T)] + h[T \ {AnyOf(T)}]

LEMMA SumsExist ==
  ASSUME NEW S, IsFiniteSet(S), NEW f \in [S -> Nat]
  PROVE  \E h \in [SUBSET S -> Nat] : SumsBy(h, f, S)
<1> DEFINE N == Cardinality(S)
           Upto(n) == {T \in SUBSET S : Cardinality(T) <= n}
           OneMore(h, T) == IF T = {} THEN 0 ELSE f[AnyOf(T)] + h[T \ {AnyOf(T)}]
           Good(n) == \E h \in [Upto(n) -> Nat] : \A T \in Upto(n) : h[T] = OneMore(h, T)
           level == {n \in 0..N : Good(n)}
<1>1. N \in Nat
  BY FS_CardinalityType
<1>2. ASSUME NEW T \in SUBSET S
      PROVE  /\ Cardinality(T) \in 0..N /\ (Cardinality(T) = 0 <=> T = {})
             /\ \A x \in T : T \ {x} \in SUBSET S /\ Cardinality(T \ {x}) = Cardinality(T) - 1
  <2>1. IsFiniteSet(T) /\ Cardinality(T) \in Nat /\ Cardinality(T) <= N
    BY FS_Subset, FS_CardinalityType
  <2>2. Cardinality(T) = 0 <=> T = {}
    BY <2>1, FS_EmptySet
  <2>3. \A x \in T : Cardinality(T \ {x}) = Cardinality(T) - 1
    BY <2>1, FS_RemoveElement
  <2>4. QED  BY <1>1, <2>1, <2>2, <2>3
<1> HIDE DEF N
<1>3. 0 \in level
  <2> DEFINE h == [T \in Upto(0) |-> 0]
  <2>1. \A T \in Upto(0) : T = {}
    BY <1>1, <1>2
  <2>2. h \in [Upto(0) -> Nat] /\ \A T \in Upto(0) : h[T] = OneMore(h, T)
    BY <2>1
  <2> HIDE DEF h, OneMore, Upto
  <2>3. Good(0)
    BY <2>2, Zenon
  <2>4. QED  BY <1>1, <2>3
<1>4. ASSUME NEW n \in 1..N, n - 1 \in level PROVE n \in level
  <2>1. PICK h \in [Upto(n - 1) -> Nat] : \A T \in Upto(n - 1) : h[T] = OneMore(h, T)
    BY <1>4
  <2> DEFINE g == [T \in Upto(n) |-> OneMore(h, T)]
  <2>2. ASSUME NEW T \in Upto(n), T # {}
        PROVE  AnyOf(T) \in S /\ T \ {AnyOf(T)} \in Upto(n - 1) /\ T \ {AnyOf(T)} \in Upto(n)
    BY <1>1, <1>2, <2>2, AnyIs
  <2>3. ASSUME NEW T \in Upto(n) PROVE OneMore(h, T) \in Nat
    <3>1. CASE T = {}
      BY <3>1
    <3>2. CASE T # {}
      <4>1. AnyOf(T) \in S /\ T \ {AnyOf(T)} \in Upto(n - 1)
        BY <2>2, <3>2
      <4>2. f[AnyOf(T)] \in Nat /\ h[T \ {AnyOf(T)}] \in Nat
        BY <4>1
      <4>3. QED  BY <3>2, <4>2
    <3>3. QED  BY <3>1, <3>2
  <2>4. g \in [Upto(n) -> Nat] /\ \A T \in Upto(n) : g[T] = OneMore(h, T)
    <3> HIDE DEF OneMore, Upto
    <3>1. QED  BY <2>3
  <2>5. ASSUME NEW T \in Upto(n) PROVE g[T] = OneMore(g, T)
    <3>1. CASE T = {}
      BY <2>4, <3>1
    <3>2. CASE T # {}
      <4> DEFINE U == T \ {AnyOf(T)}
      <4>1. U \in Upto(n - 1) /\ U \in Upto(n)
        BY <2>2, <3>2
      <4>2. g[U] = OneMore(h, U) /\ h[U] = OneMore(h, U)
        <5> HIDE DEF U, g, OneMore, Upto
        <5>1. QED  BY <2>1, <2>4, <4>1
      <4>3. g[T] = OneMore(h, T)
        <5> HIDE DEF g, OneMore, Upto
        <5>1. QED  BY <2>4
      <4> HIDE DEF g
      <4>4. g[U] = h[U]
        BY ONLY <4>2
      <4>5. QED  BY <3>2, <4>3, <4>4
    <3>3. QED  BY <3>1, <3>2
  <2>6. Good(n)
    <3> HIDE DEF g, OneMore, Upto
    <3>1. g \in [Upto(n) -> Nat] /\ \A T \in Upto(n) : g[T] = OneMore(g, T)
      BY <2>4, <2>5
    <3>2. QED  BY <3>1, Zenon
  <2> HIDE DEF Good
  <2>7. n \in 0..N
    BY <1>1
  <2>8. QED  BY <2>6, <2>7
<1> HIDE DEF level
<1>5. \A n \in 0..N : n \in level
  BY <1>1, <1>3, <1>4, Climb
<1>6. PICK h \in [Upto(N) -> Nat] : \A T \in Upto(N) : h[T] = OneMore(h, T)
  <2>1. N \in level
    BY <1>1, <1>5
  <2>2. QED  BY <2>1 DEF level
<1>7. Upto(N) = SUBSET S
  BY <1>1, <1>2
<1>8. QED  BY <1>6, <1>7 DEF SumsBy

\* Two such sums agree, wherever both sum the same.
LEMMA SumsUnique ==
  ASSUME NEW S, IsFiniteSet(S), NEW f, NEW h, NEW g, SumsBy(h, f, S), SumsBy(g, f, S)
  PROVE  h[S] = g[S]
<1> DEFINE G == {T \in SUBSET S : h[T] = g[T]}
<1>1. Builds(G, S)
  <2>1. {} \in G
    BY DEF SumsBy
  <2>2. ASSUME NEW T \in SUBSET S, T # {}, \A x \in T : T \ {x} \in G PROVE T \in G
    <3>1. AnyOf(T) \in T
      BY <2>2, AnyIs
    <3>2. h[T \ {AnyOf(T)}] = g[T \ {AnyOf(T)}]
      BY <2>2, <3>1
    <3>3. h[T] = f[AnyOf(T)] + h[T \ {AnyOf(T)}] /\ g[T] = f[AnyOf(T)] + g[T \ {AnyOf(T)}]
      BY <2>2 DEF SumsBy
    <3>4. QED  BY <3>2, <3>3
  <2>3. QED  BY <2>1, <2>2 DEF Builds
<1> HIDE DEF G
<1>2. SUBSET S \subseteq G
  BY <1>1, BuildUp
<1>3. QED  BY <1>2 DEF G

\* The order of the members does not matter.
AnyOrder(h, f, S) == \A T \in SUBSET S : \A x \in T : h[T] = f[x] + h[T \ {x}]

LEMMA SumsAnyOrder ==
  ASSUME NEW S, IsFiniteSet(S), NEW f \in [S -> Nat], NEW h \in [SUBSET S -> Nat], SumsBy(h, f, S)
  PROVE  AnyOrder(h, f, S)
<1> DEFINE G == {T \in SUBSET S : \A x \in T : h[T] = f[x] + h[T \ {x}]}
<1>1. Builds(G, S)
  <2>1. {} \in G
    OBVIOUS
  <2>2. ASSUME NEW T \in SUBSET S, T # {}, \A x \in T : T \ {x} \in G PROVE T \in G
    <3> DEFINE c == AnyOf(T)
    <3>1. c \in T /\ h[T] = f[c] + h[T \ {c}]
      BY <2>2, AnyIs DEF SumsBy
    <3> HIDE DEF c
    <3>2. ASSUME NEW x \in T PROVE h[T] = f[x] + h[T \ {x}]
      <4>1. CASE x = c
        BY <3>1, <4>1
      <4>2. CASE x # c
        <5> DEFINE U == (T \ {c}) \ {x}
        <5>1. U = (T \ {x}) \ {c} /\ x \in T \ {c} /\ c \in T \ {x}
          BY <3>1, <4>2
        <5>2. h[T \ {c}] = f[x] + h[U]
          BY <2>2, <3>1, <5>1
        <5>3. h[T \ {x}] = f[c] + h[U]
          BY <2>2, <3>1, <5>1
        <5>4. f[x] \in Nat /\ f[c] \in Nat /\ h[U] \in Nat
          BY <3>1
        <5> HIDE DEF U
        <5>5. QED  BY <3>1, <5>2, <5>3, <5>4
      <4>3. QED  BY <4>1, <4>2
    <3>3. QED  BY <3>2
  <2> HIDE DEF G
  <2>3. QED  BY <2>1, <2>2 DEF Builds
<1> HIDE DEF G
<1>2. SUBSET S \subseteq G
  BY <1>1, BuildUp
<1>3. QED  BY <1>2 DEF G, AnyOrder

\* What SumFunction computes.
LEMMA SumIs ==
  ASSUME NEW S, IsFiniteSet(S), NEW f \in [S -> Nat], NEW h, SumsBy(h, f, S)
  PROVE  SumFunction(f) = h[S]
<1> DEFINE Recursion(g) ==
             g = [T \in SUBSET S |-> IF T = {} THEN 0 ELSE f[AnyOf(T)] + g[T \ {AnyOf(T)}]]
           iter == CHOOSE g : Recursion(g)
<1>1. DOMAIN f = S
  OBVIOUS
<1>2. SumFunction(f) = iter[S]
  BY <1>1 DEF SumFunction, SumFunctionOnSet, FoldFunctionOnSet, MapThenFoldSet, AnyOf
<1>3. PICK g \in [SUBSET S -> Nat] : SumsBy(g, f, S)
  BY SumsExist
<1>4. Recursion(g)
  BY <1>3 DEF SumsBy
<1>5. Recursion(iter)
  <2> HIDE DEF Recursion
  <2>1. QED  BY <1>4
<1> HIDE DEF iter
<1>6. SumsBy(iter, f, S)
  <2>1. iter = [T \in SUBSET S |-> IF T = {} THEN 0 ELSE f[AnyOf(T)] + iter[T \ {AnyOf(T)}]]
    BY <1>5
  <2>2. QED  BY <2>1 DEF SumsBy
<1>7. iter[S] = h[S]
  BY <1>6, SumsUnique
<1>8. QED  BY <1>2, <1>7

\* A measure of the subsets of S that adds up.
Additive(m, S) ==
  /\ m \in [SUBSET S -> Nat]
  /\ m[{}] = 0
  /\ \A A, B \in SUBSET S : A \cap B = {} => m[A \cup B] = m[A] + m[B]

LEMMA SumsAdd ==
  ASSUME NEW S, IsFiniteSet(S), NEW f \in [S -> Nat], NEW h \in [SUBSET S -> Nat], SumsBy(h, f, S)
  PROVE  Additive(h, S)
<1>1. \A T \in SUBSET S : \A x \in T : h[T] = f[x] + h[T \ {x}]
  <2>1. AnyOrder(h, f, S)
    BY SumsAnyOrder
  <2>2. QED  BY <2>1 DEF AnyOrder
<1>2. h[{}] = 0
  BY DEF SumsBy
<1>3. ASSUME NEW A \in SUBSET S, NEW B \in SUBSET S, A \cap B = {}
      PROVE  h[A \cup B] = h[A] + h[B]
  <2> DEFINE G == {T \in SUBSET A : h[T \cup B] = h[T] + h[B]}
  <2>1. {} \in G
    <3>1. {} \cup B = B /\ h[B] \in Nat
      OBVIOUS
    <3>2. QED  BY <1>2, <3>1
  <2>2. ASSUME NEW T \in SUBSET A, T # {}, \A x \in T : T \ {x} \in G PROVE T \in G
    <3>1. PICK x \in T : TRUE
      BY <2>2
    <3> DEFINE U == T \ {x}
    <3>2. (T \cup B) \ {x} = U \cup B /\ x \in T \cup B /\ T \cup B \in SUBSET S
      BY <1>3
    <3>3. h[T \cup B] = f[x] + h[U \cup B]
      BY <1>1, <3>2
    <3>4. h[T] = f[x] + h[U]
      BY <1>1
    <3>5. h[U \cup B] = h[U] + h[B]
      BY <2>2
    <3>6. f[x] \in Nat /\ h[U] \in Nat /\ h[B] \in Nat
      OBVIOUS
    <3> HIDE DEF U
    <3>7. h[T \cup B] = h[T] + h[B]
      BY ONLY <3>3, <3>4, <3>5, <3>6
    <3>8. QED  BY <3>7
  <2> HIDE DEF G
  <2>3. Builds(G, A)
    BY <2>1, <2>2 DEF Builds
  <2>4. IsFiniteSet(A)
    BY FS_Subset
  <2>5. SUBSET A \subseteq G
    BY <2>3, <2>4, BuildUp
  <2>6. QED  BY <2>5 DEF G
<1>4. QED  BY <1>2, <1>3 DEF Additive

\* The sums of one function over all the sets of places add up.
LEMMA RunsAdd ==
  ASSUME NEW S, IsFiniteSet(S), NEW f \in [S -> Nat]
  PROVE  Additive([T \in SUBSET S |-> SumFunction([x \in T |-> f[x]])], S)
<1>1. PICK h \in [SUBSET S -> Nat] : SumsBy(h, f, S)
  BY SumsExist
<1>2. ASSUME NEW T \in SUBSET S PROVE SumFunction([x \in T |-> f[x]]) = h[T]
  <2> DEFINE fT == [x \in T |-> f[x]]
  <2>1. fT \in [T -> Nat] /\ \A x \in T : fT[x] = f[x]
    OBVIOUS
  <2> HIDE DEF fT
  <2>2. ASSUME NEW U \in SUBSET T
        PROVE  h[U] = IF U = {} THEN 0 ELSE fT[AnyOf(U)] + h[U \ {AnyOf(U)}]
    <3>1. U \in SUBSET S
      OBVIOUS
    <3>2. U # {} => AnyOf(U) \in T
      BY AnyIs
    <3>3. QED  BY <1>1, <2>1, <3>1, <3>2 DEF SumsBy
  <2>3. SumsBy(h, fT, T)
    BY <2>2 DEF SumsBy
  <2>4. IsFiniteSet(T)
    BY FS_Subset
  <2>5. SumFunction(fT) = h[T]
    BY <2>1, <2>3, <2>4, SumIs
  <2>6. QED  BY <2>5 DEF fT
<1>3. Additive(h, S)
  BY <1>1, SumsAdd
<1>4. [T \in SUBSET S |-> SumFunction([x \in T |-> f[x]])] = h
  <2> DEFINE m == [T \in SUBSET S |-> SumFunction([x \in T |-> f[x]])]
  <2>1. DOMAIN m = SUBSET S /\ \A T \in SUBSET S : m[T] = h[T]
    BY <1>2
  <2>2. m = [T \in SUBSET S |-> m[T]] /\ h = [T \in SUBSET S |-> h[T]]
    OBVIOUS
  <2> HIDE DEF m
  <2>3. m = h
    BY ONLY <2>1, <2>2
  <2>4. QED  BY <2>3 DEF m
<1>5. QED  BY <1>3, <1>4

LEMMA SizesAdd ==
  ASSUME NEW S, IsFiniteSet(S)
  PROVE  Additive([T \in SUBSET S |-> Cardinality(T)], S)
<1> DEFINE m == [T \in SUBSET S |-> Cardinality(T)]
<1>1. ASSUME NEW T \in SUBSET S PROVE m[T] \in Nat /\ m[T] = Cardinality(T) /\ IsFiniteSet(T)
  BY FS_Subset, FS_CardinalityType
<1>2. m \in [SUBSET S -> Nat]
  BY <1>1
<1>3. m[{}] = 0
  BY <1>1, FS_EmptySet
<1>4. ASSUME NEW A \in SUBSET S, NEW B \in SUBSET S, A \cap B = {}
      PROVE  m[A \cup B] = m[A] + m[B]
  <2>1. Cardinality(A \cup B) = Cardinality(A) + Cardinality(B) - Cardinality(A \cap B)
    BY <1>1, FS_Union
  <2>2. Cardinality(A \cap B) = 0
    BY <1>4, FS_EmptySet, Zenon
  <2>3. m[A \cup B] = Cardinality(A \cup B) /\ m[A] = Cardinality(A) /\ m[B] = Cardinality(B)
    OBVIOUS
  <2>4. m[A] \in Nat /\ m[B] \in Nat
    BY <1>1
  <2> HIDE DEF m
  <2>5. QED  BY <2>1, <2>2, <2>3, <2>4
<1> HIDE DEF m
<1>5. Additive(m, S)
  BY <1>2, <1>3, <1>4 DEF Additive
<1>6. QED  BY <1>5 DEF m

\* part sorts some of S into groups of their own.
Groups(part, K, S) ==
  /\ part \in [K -> SUBSET S]
  /\ \A a, b \in K : a # b => part[a] \cap part[b] = {}

\* The measures of the groups add up to that of all they hold.
AddsUp(m, part, K) ==
  SumFunction([k \in K |-> m[part[k]]]) = m[UNION {part[k] : k \in K}]

LEMMA GroupsAdd ==
  ASSUME NEW S, NEW m, Additive(m, S), NEW K, IsFiniteSet(K), NEW part, Groups(part, K, S)
  PROVE  AddsUp(m, part, K)
<1> DEFINE f == [k \in K |-> m[part[k]]]
           All(T) == UNION {part[k] : k \in T}
<1>0. part \in [K -> SUBSET S] /\ \A a, b \in K : a # b => part[a] \cap part[b] = {}
  BY DEF Groups
<1>1. f \in [K -> Nat] /\ \A k \in K : f[k] = m[part[k]]
  BY <1>0 DEF Additive
<1> HIDE DEF f
<1>2. PICK h \in [SUBSET K -> Nat] : SumsBy(h, f, K)
  BY <1>1, SumsExist
<1>3. \A T \in SUBSET K : \A x \in T : h[T] = f[x] + h[T \ {x}]
  <2>1. AnyOrder(h, f, K)
    BY <1>1, <1>2, SumsAnyOrder
  <2>2. QED  BY <2>1 DEF AnyOrder
<1> DEFINE G == {T \in SUBSET K : h[T] = m[All(T)]}
<1>4. Builds(G, K)
  <2>1. {} \in G
    <3>1. All({}) = {}
      OBVIOUS
    <3>2. h[{}] = 0 /\ m[{}] = 0
      BY <1>2 DEF SumsBy, Additive
    <3>3. QED  BY <3>1, <3>2
  <2>2. ASSUME NEW T \in SUBSET K, T # {}, \A x \in T : T \ {x} \in G PROVE T \in G
    <3>1. PICK x \in T : TRUE
      BY <2>2
    <3> DEFINE U == T \ {x}
    <3>2. All(T) = part[x] \cup All(U) /\ part[x] \cap All(U) = {}
      BY <1>0
    <3>3. part[x] \in SUBSET S /\ All(U) \in SUBSET S
      BY <1>0
    <3>4. h[T] = f[x] + h[U] /\ f[x] = m[part[x]]
      BY <1>1, <1>3
    <3>5. h[U] = m[All(U)]
      BY <2>2
    <3> HIDE DEF U, All
    <3>6. m[part[x] \cup All(U)] = m[part[x]] + m[All(U)]
      BY <3>2, <3>3 DEF Additive
    <3>7. h[T] = m[All(T)]
      BY <3>2, <3>4, <3>5, <3>6
    <3>8. QED  BY <3>7
  <2> HIDE DEF G
  <2>3. QED  BY <2>1, <2>2 DEF Builds
<1> HIDE DEF G
<1>5. SUBSET K \subseteq G
  BY <1>4, BuildUp
<1>6. h[K] = m[All(K)]
  BY <1>5 DEF G
<1>7. SumFunction(f) = h[K]
  BY <1>1, <1>2, SumIs
<1>8. QED  BY <1>6, <1>7 DEF f, AddsUp

-----------------------------------------------------------------------------
(* Recursive functions on the naturals. *)

\* f stops at some numbers and elsewhere goes on from a lesser one.
Unfolds(f, S, Stop, a, down, F) ==
  \A n \in S : f[n] = IF n \in Stop THEN a[n] ELSE F[<<n, f[down[n]]>>]

LEMMA RecursionExists ==
  ASSUME NEW D, NEW Stop \in SUBSET Nat, NEW a \in [Nat -> D], NEW down \in [Nat -> Nat],
         NEW F \in [Nat \X D -> D], \A n \in Nat : n \in Stop \/ down[n] < n
  PROVE  \E f \in [Nat -> D] : Unfolds(f, Nat, Stop, a, down, F)
<1> DEFINE Good(h, n) == h \in [0..n -> D] /\ Unfolds(h, 0..n, Stop, a, down, F)
           bad == {n \in Nat : ~\E h : Good(h, n)}
           upto(n) == CHOOSE h : Good(h, n)
           f == [n \in Nat |-> upto(n)[n]]
<1>1. \A n \in Nat : n \notin Stop => down[n] \in 0..(n - 1) /\ n \in Nat \ {0}
  OBVIOUS
<1>2. ASSUME NEW n \in Nat, NEW m \in Nat, n <= m, NEW g, Good(g, n), NEW h, Good(h, m),
             NEW i \in 0..n
      PROVE  g[i] = h[i]
  <2> DEFINE T == {j \in 0..n : g[j] # h[j]}
  <2>1. SUFFICES ASSUME T # {} PROVE FALSE
    OBVIOUS
  <2>2. T \in SUBSET Nat
    OBVIOUS
  <2>3. PICK k \in T : \A j \in T : k <= j
    <3> HIDE DEF T
    <3>1. QED  BY <2>1, <2>2, LeastOf
  <2>4. /\ k \in 0..n /\ k \in 0..m /\ k \in Nat /\ g[k] # h[k]
    BY <1>2
  <2>5. /\ g[k] = IF k \in Stop THEN a[k] ELSE F[<<k, g[down[k]]>>]
        /\ h[k] = IF k \in Stop THEN a[k] ELSE F[<<k, h[down[k]]>>]
    BY <1>2, <2>4 DEF Unfolds
  <2>6. CASE k \in Stop
    BY <2>4, <2>5, <2>6
  <2>7. CASE k \notin Stop
    <3>1. down[k] \in 0..n /\ ~(k <= down[k])
      BY <1>1, <2>4, <2>7
    <3>2. g[down[k]] = h[down[k]]
      BY <2>3, <3>1
    <3>3. QED  BY <2>4, <2>5, <2>7, <3>2
  <2>8. QED  BY <2>6, <2>7
<1>3. bad = {}
  <2>1. SUFFICES ASSUME bad # {} PROVE FALSE
    OBVIOUS
  <2>2. bad \in SUBSET Nat
    OBVIOUS
  <2>3. PICK n \in bad : \A j \in bad : n <= j
    <3> HIDE DEF bad
    <3>1. QED  BY <2>1, <2>2, LeastOf
  <2>4. n \in Nat
    BY <2>2, <2>3
  <2>5. CASE n = 0
    <3> DEFINE g == [i \in 0..0 |-> a[0]]
    <3>1. 0 \in Stop
      BY <1>1
    <3>2. g \in [0..0 -> D] /\ \A i \in 0..0 : i = 0 /\ g[i] = a[i]
      OBVIOUS
    <3> HIDE DEF g
    <3>3. Good(g, 0)
      BY <3>1, <3>2 DEF Unfolds
    <3>4. QED  BY <2>3, <2>5, <3>3
  <2>6. CASE n # 0
    <3>1. n - 1 \in Nat /\ n - 1 \notin bad
      <4>1. n - 1 \in Nat /\ ~(n <= n - 1)
        BY <2>4, <2>6
      <4> HIDE DEF bad
      <4>2. QED  BY <2>3, <4>1
    <3>2. PICK h : Good(h, n - 1)
      BY <3>1
    <3> DEFINE g == [i \in 0..n |-> IF i = n THEN IF n \in Stop THEN a[n] ELSE F[<<n, h[down[n]]>>]
                                    ELSE h[i]]
    <3>3. \A i \in 0..n : i = n \/ i \in 0..(n - 1)
      BY <2>4
    <3>4. g[n] = IF n \in Stop THEN a[n] ELSE F[<<n, h[down[n]]>>]
      BY <2>4
    <3>5. \A i \in 0..(n - 1) : g[i] = h[i]
      BY <2>4
    <3>6. DOMAIN g = 0..n /\ g = [i \in 0..n |-> g[i]]
      OBVIOUS
    <3> HIDE DEF g
    <3>7. g[n] \in D
      <4>1. n \notin Stop => h[down[n]] \in D
        BY <1>1, <2>4, <3>2
      <4>2. QED  BY <2>4, <3>4, <4>1
    <3>8. g \in [0..n -> D]
      <4>1. \A i \in 0..n : g[i] \in D
        BY <3>2, <3>3, <3>5, <3>7
      <4>2. QED  BY <3>6, <4>1
    <3>9. ASSUME NEW i \in 0..n PROVE g[i] = IF i \in Stop THEN a[i] ELSE F[<<i, g[down[i]]>>]
      <4>1. CASE i = n
        <5>1. n \notin Stop => g[down[n]] = h[down[n]]
          BY <1>1, <2>4, <3>5
        <5>2. QED  BY <3>4, <4>1, <5>1
      <4>2. CASE i \in 0..(n - 1)
        <5>1. h[i] = IF i \in Stop THEN a[i] ELSE F[<<i, h[down[i]]>>]
          BY <3>2, <4>2 DEF Unfolds
        <5>2. i \notin Stop => down[i] \in 0..(n - 1)
          BY <1>1, <2>4, <4>2
        <5>3. QED  BY <3>5, <4>2, <5>1, <5>2
      <4>3. QED  BY <3>3, <4>1, <4>2
    <3>10. Good(g, n)
      BY <3>8, <3>9 DEF Unfolds
    <3>11. QED  BY <2>3, <3>10
  <2>7. QED  BY <2>5, <2>6
<1>4. ASSUME NEW n \in Nat PROVE Good(upto(n), n)
  <2>1. \E h : Good(h, n)
    BY <1>3
  <2> HIDE DEF Good
  <2>2. QED  BY <2>1
<1> HIDE DEF upto
<1>5. f \in [Nat -> D]
  BY <1>4
<1>6. ASSUME NEW n \in Nat PROVE f[n] = IF n \in Stop THEN a[n] ELSE F[<<n, f[down[n]]>>]
  <2>1. upto(n)[n] = IF n \in Stop THEN a[n] ELSE F[<<n, upto(n)[down[n]]>>]
    <3>1. Unfolds(upto(n), 0..n, Stop, a, down, F) /\ n \in 0..n
      BY <1>4
    <3>2. QED  BY ONLY <3>1 DEF Unfolds
  <2>2. ASSUME n \notin Stop PROVE upto(n)[down[n]] = f[down[n]]
    <3>1. down[n] \in Nat /\ down[n] <= n /\ down[n] \in 0..down[n]
      BY <2>2, <1>1
    <3>2. upto(down[n])[down[n]] = upto(n)[down[n]]
      <4> DEFINE d == down[n]
      <4>1. d \in Nat /\ d <= n /\ d \in 0..d /\ Good(upto(d), d) /\ Good(upto(n), n)
        BY <1>4, <3>1
      <4> HIDE DEF d, Good
      <4>2. upto(d)[d] = upto(n)[d]
        BY <1>2, <4>1
      <4>3. QED  BY <4>2 DEF d
    <3>3. QED  BY <3>1, <3>2
  <2>3. QED  BY <2>1, <2>2
<1>7. QED  BY <1>5, <1>6 DEF Unfolds

-----------------------------------------------------------------------------
(* Sequences of numbers, one after another: place by place, and cut into few. *)

\* What a concatenation is, place by place.
InTwo(u, a, b) ==
  /\ Len(u) = Len(a) + Len(b)
  /\ \A i \in 1..(Len(a) + Len(b)) : u[i] = IF i <= Len(a) THEN a[i] ELSE b[i - Len(a)]

LEMMA JoinIs ==
  \A a, b \in Seq(Nat) : a \o b \in Seq(Nat) /\ InTwo(a \o b, a, b)
<1>1. ASSUME NEW a \in Seq(Nat), NEW b \in Seq(Nat) PROVE a \o b \in Seq(Nat) /\ InTwo(a \o b, a, b)
  <2>1. /\ a \o b \in Seq(Nat) /\ Len(a \o b) = Len(a) + Len(b)
        /\ \A i \in 1..Len(a) + Len(b) : (a \o b)[i] = IF i <= Len(a) THEN a[i] ELSE b[i - Len(a)]
    BY ConcatProperties
  <2>2. QED  BY <2>1 DEF InTwo
<1>2. QED  BY <1>1

LEMMA ChangedPlace ==
  ASSUME NEW a \in Seq(Nat), NEW q \in Seq(Nat), NEW v \in Nat
  PROVE  [a \o (<<v>> \o q) EXCEPT ![Len(a) + 1] = @ + 1] = a \o (<<v + 1>> \o q)
<1> DEFINE o == <<v>>
           p == <<v + 1>>
           n == Len(a)
           m == Len(q)
           s == o \o q
           t == p \o q
           S == a \o s
           T == a \o t
<1>1. /\ o \in Seq(Nat) /\ Len(o) = 1 /\ o[1] = v /\ p \in Seq(Nat) /\ Len(p) = 1 /\ p[1] = v + 1
      /\ n \in Nat /\ m \in Nat
  BY LenProperties
<1> HIDE DEF o, p, n, m
<1>2. s \in Seq(Nat) /\ InTwo(s, o, q) /\ t \in Seq(Nat) /\ InTwo(t, p, q)
  BY <1>1, JoinIs, Zenon
<1> HIDE DEF s, t
<1>3. S \in Seq(Nat) /\ InTwo(S, a, s) /\ T \in Seq(Nat) /\ InTwo(T, a, t)
  BY <1>2, JoinIs, Zenon
<1> HIDE DEF S, T
<1>4. /\ Len(s) = 1 + m /\ (\A i \in 1..(1 + m) : s[i] = IF i <= 1 THEN o[i] ELSE q[i - 1])
      /\ Len(t) = 1 + m /\ (\A i \in 1..(1 + m) : t[i] = IF i <= 1 THEN p[i] ELSE q[i - 1])
  BY <1>1, <1>2 DEF InTwo, m
<1>5. /\ Len(S) = n + 1 + m /\ (\A i \in 1..(n + 1 + m) : S[i] = IF i <= n THEN a[i] ELSE s[i - n])
      /\ Len(T) = n + 1 + m /\ (\A i \in 1..(n + 1 + m) : T[i] = IF i <= n THEN a[i] ELSE t[i - n])
  <2>1. Len(a) = n /\ n + (1 + m) = n + 1 + m
    BY <1>1 DEF n
  <2>2. Len(s) = 1 + m /\ Len(t) = 1 + m
    BY <1>4
  <2>3. Len(S) = Len(a) + Len(s) /\ \A i \in 1..(Len(a) + Len(s)) : S[i] = IF i <= Len(a) THEN a[i] ELSE s[i - Len(a)]
    BY <1>3 DEF InTwo
  <2>4. Len(T) = Len(a) + Len(t) /\ \A i \in 1..(Len(a) + Len(t)) : T[i] = IF i <= Len(a) THEN a[i] ELSE t[i - Len(a)]
    BY <1>3 DEF InTwo
  <2>5. QED  BY <2>1, <2>2, <2>3, <2>4
<1>6. S[n + 1] = v
  <2>1. n + 1 \in 1..(n + 1 + m) /\ ~(n + 1 <= n) /\ (n + 1) - n = 1 /\ 1 \in 1..(1 + m)
    BY <1>1
  <2>2. S[n + 1] = s[1]
    BY <1>5, <2>1
  <2>3. QED  BY <1>1, <1>4, <2>1, <2>2
<1> DEFINE U == [S EXCEPT ![n + 1] = @ + 1]
<1>7. /\ U \in Seq(Nat) /\ Len(U) = n + 1 + m
      /\ \A i \in 1..(n + 1 + m) : U[i] = IF i = n + 1 THEN v + 1 ELSE S[i]
  <2>1. n + 1 \in 1..Len(S) /\ S[n + 1] + 1 \in Nat
    BY <1>1, <1>5, <1>6
  <2>2. U = [S EXCEPT ![n + 1] = v + 1]
    BY <1>6
  <2>3. v + 1 \in Nat /\ DOMAIN S = 1..(n + 1 + m)
    BY <1>3, <1>5, LenProperties
  <2>4. [S EXCEPT ![n + 1] = v + 1] \in Seq(Nat) /\ Len([S EXCEPT ![n + 1] = v + 1]) = Len(S)
    BY <1>3, <2>1, <2>3, ExceptSeq
  <2>5. QED  BY <1>5, <2>2, <2>3, <2>4
<1> HIDE DEF U
<1>8. ASSUME NEW i \in 1..(n + 1 + m) PROVE U[i] = T[i]
  <2>1. /\ U[i] = IF i = n + 1 THEN v + 1 ELSE S[i]
        /\ S[i] = IF i <= n THEN a[i] ELSE s[i - n]
        /\ T[i] = IF i <= n THEN a[i] ELSE t[i - n]
    BY <1>5, <1>7
  <2>2. ASSUME i = n + 1 PROVE t[i - n] = v + 1
    <3>1. i - n = 1 /\ 1 \in 1..(1 + m)
      BY <1>1, <2>2
    <3>2. t[1] = p[1]
      BY <1>4, <3>1
    <3>3. QED  BY <1>1, <3>1, <3>2
  <2>3. ASSUME i > n + 1 PROVE t[i - n] = s[i - n]
    <3>1. i - n \in 1..(1 + m) /\ ~(i - n <= 1)
      BY <1>1, <2>3
    <3>2. s[i - n] = q[(i - n) - 1] /\ t[i - n] = q[(i - n) - 1]
      BY <1>4, <3>1
    <3>3. QED  BY <3>2
  <2>4. n \in Nat /\ i \in Nat
    BY <1>1
  <2>5. QED  BY ONLY <2>1, <2>2, <2>3, <2>4
<1>9. U = T
  BY <1>3, <1>5, <1>7, <1>8, SeqEqual
<1>10. QED  BY <1>9 DEF U, T, S, s, t, o, p, n

\* In one piece, in two and in three.
CutInto(ps, u) == ps \in Seq(Seq(Nat)) /\ FlattenSeq(ps) = u

LEMMA FewPieces ==
  ASSUME NEW x \in Seq(Nat), NEW y \in Seq(Nat), NEW z \in Seq(Nat)
  PROVE  CutInto(<<x>>, x) /\ CutInto(<<x, y>>, x \o y) /\ CutInto(<<x, y, z>>, (x \o y) \o z)
<1> DEFINE D == Seq(Nat)
<1>0. x \in D /\ y \in D /\ z \in D
  OBVIOUS
<1> HIDE DEF D
<1> DEFINE a == <<x>>
           b == <<y>>
           c == <<z>>
           d == a \o b
<1>1. a \in Seq(D) /\ b \in Seq(D) /\ c \in Seq(D)
  BY <1>0
<1>2. d = <<x, y>> /\ d \o c = <<x, y, z>>
  <2> DEFINE e == <<x, y>>
             u == <<x, y, z>>
  <2>1. d = e
    <3>1. /\ a \in Seq(D) /\ Len(a) = 1 /\ a[1] = x /\ b \in Seq(D) /\ Len(b) = 1 /\ b[1] = y
          /\ e \in Seq(D) /\ Len(e) = 2 /\ e[1] = x /\ e[2] = y
      BY <1>0
    <3> HIDE DEF a, b, e
    <3>2. /\ d \in Seq(D) /\ Len(d) = Len(a) + Len(b)
          /\ \A i \in 1..Len(a) + Len(b) : d[i] = IF i <= Len(a) THEN a[i] ELSE b[i - Len(a)]
      BY <3>1, ConcatProperties
    <3>3. 1 \in 1..Len(a) + Len(b) /\ 2 \in 1..Len(a) + Len(b)
      BY <3>1
    <3> HIDE DEF d
    <3>4. d[1] = x /\ d[2] = y /\ Len(d) = 2
      BY <3>1, <3>2, <3>3
    <3>5. Len(d) = Len(e) /\ \A i \in 1..Len(d) : d[i] = e[i]
      BY <3>1, <3>4
    <3>6. QED  BY <3>1, <3>2, <3>5, SeqEqual
  <2>2. e \in Seq(D) /\ Len(e) = 2 /\ e[1] = x /\ e[2] = y
    BY <1>0
  <2>3. u \in Seq(D) /\ Len(u) = 3 /\ u[1] = x /\ u[2] = y /\ u[3] = z
    BY <1>0
  <2>4. c \in Seq(D) /\ Len(c) = 1 /\ c[1] = z
    BY <1>0
  <2> HIDE DEF e, u, c, d
  <2>5. /\ e \o c \in Seq(D) /\ Len(e \o c) = Len(e) + Len(c)
        /\ \A i \in 1..Len(e) + Len(c) : (e \o c)[i] = IF i <= Len(e) THEN e[i] ELSE c[i - Len(e)]
    BY <2>2, <2>4, ConcatProperties
  <2>6. Len(e \o c) = 3 /\ \A i \in 1..3 : (e \o c)[i] = u[i]
    <3>1. Len(e \o c) = 3
      BY <2>2, <2>4, <2>5
    <3>2. 1 \in 1..Len(e) + Len(c) /\ 2 \in 1..Len(e) + Len(c) /\ 3 \in 1..Len(e) + Len(c)
      BY <2>2, <2>4
    <3>3. (e \o c)[1] = x /\ (e \o c)[2] = y /\ (e \o c)[3] = z
      BY <2>2, <2>4, <2>5, <3>2
    <3>4. QED  BY <2>3, <3>1, <3>3
  <2>7. e \o c = u
    BY <2>3, <2>5, <2>6, SeqEqual
  <2>8. QED  BY <2>1, <2>7 DEF e, u
<1>3. FlattenSeq(a) = x /\ FlattenSeq(b) = y /\ FlattenSeq(c) = z
  BY FlattenFew
<1>4. d \in Seq(D) /\ d \o c \in Seq(D)
  BY <1>0, <1>2
<1> HIDE DEF a, b, c, d
<1>5. a \in Seq(Seq(Nat)) /\ b \in Seq(Seq(Nat)) /\ c \in Seq(Seq(Nat)) /\ d \in Seq(Seq(Nat))
  BY <1>1, <1>4 DEF D
<1>6. FlattenSeq(a \o b) = FlattenSeq(a) \o FlattenSeq(b)
  BY ONLY <1>5, FlattenConcat
<1>7. FlattenSeq(d \o c) = FlattenSeq(d) \o FlattenSeq(c)
  BY ONLY <1>5, FlattenConcat
<1>8. FlattenSeq(<<x, y>>) = x \o y
  <2>1. FlattenSeq(<<x, y>>) = FlattenSeq(a \o b)
    BY <1>2 DEF d
  <2>2. QED  BY <1>3, <1>6, <2>1
<1>9. FlattenSeq(<<x, y, z>>) = (x \o y) \o z
  <2>1. FlattenSeq(<<x, y, z>>) = FlattenSeq(d \o c)
    BY <1>2
  <2>2. FlattenSeq(d) = x \o y
    BY <1>3, <1>6 DEF d
  <2>3. QED  BY <1>3, <1>7, <2>1, <2>2
<1>10. a = <<x>> /\ <<x, y>> \in Seq(D) /\ <<x, y, z>> \in Seq(D)
  BY <1>2, <1>4 DEF a
<1>11. <<x>> \in Seq(D) /\ FlattenSeq(<<x>>) = x
  BY <1>1, <1>3, <1>10
<1>12. QED  BY <1>8, <1>9, <1>10, <1>11 DEF CutInto, D
==============================================================================
