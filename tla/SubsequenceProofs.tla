------------------------- MODULE SubsequenceProofs -------------------------
(* Lemmas about the part of a sequence at some of its places, and about folding a
   sequence. *)
EXTENDS Subsequences, SequencesExt, FiniteSetTheorems, TLAPS

(* Counting the places up to each of a finite set of places numbers them from one
   on, without gaps: Nth finds all of them, and nothing else. *)
LEMMA PlacesCounted ==
  ASSUME NEW S \in SUBSET Nat, IsFiniteSet(S)
  PROVE  /\ \A i \in S : Cardinality(UpTo(S, i)) \in 1..Cardinality(S)
         /\ \A i, j \in S : Cardinality(UpTo(S, i)) = Cardinality(UpTo(S, j)) => i = j
  <1>1. \A i \in S : IsFiniteSet(UpTo(S, i)) /\ Cardinality(UpTo(S, i)) \in Nat
    BY FS_Subset, FS_CardinalityType DEF UpTo
  <1>2. ASSUME NEW i \in S
        PROVE  Cardinality(UpTo(S, i)) \in 1..Cardinality(S)
    <2>1. UpTo(S, i) \in SUBSET S /\ i \in UpTo(S, i)
      BY DEF UpTo
    <2>2. Cardinality(UpTo(S, i)) <= Cardinality(S) /\ Cardinality(S) \in Nat
      BY <2>1, FS_Subset, FS_CardinalityType
    <2>3. Cardinality(UpTo(S, i)) # 0
      BY <2>1, <1>1, FS_EmptySet
    <2> QED
      BY <2>2, <2>3, <1>1
  <1>3. ASSUME NEW i \in S, NEW j \in S, i < j
        PROVE  Cardinality(UpTo(S, i)) < Cardinality(UpTo(S, j))
    <2>1. UpTo(S, i) \cup {j} \in SUBSET UpTo(S, j) /\ j \notin UpTo(S, i)
      <3>1. i \in Nat /\ j \in Nat /\ \A x \in S : x \in Nat
        OBVIOUS
      <3>2. \A x \in S : x <= i => x <= j
        BY <3>1, <1>3
      <3>3. j <= j /\ ~(j <= i)
        BY <3>1, <1>3
      <3> QED
        BY <3>2, <3>3 DEF UpTo
    <2>2. Cardinality(UpTo(S, i) \cup {j}) = Cardinality(UpTo(S, i)) + 1
      BY <2>1, <1>1, FS_AddElement
    <2>3. Cardinality(UpTo(S, i) \cup {j}) <= Cardinality(UpTo(S, j))
      BY <2>1, <1>1, FS_Subset
    <2> QED
      BY <2>2, <2>3, <1>1
  <1>4. \A i, j \in S : Cardinality(UpTo(S, i)) = Cardinality(UpTo(S, j)) => i = j
    <2> SUFFICES ASSUME NEW i \in S, NEW j \in S, Cardinality(UpTo(S, i)) = Cardinality(UpTo(S, j))
                 PROVE  i = j
      OBVIOUS
    <2>1. ~(i < j) /\ ~(j < i)
      BY <1>1, <1>3
    <2> QED
      BY <2>1
  <1> QED
    BY <1>2, <1>4

LEMMA NthOnto ==
  ASSUME NEW S \in SUBSET Nat, IsFiniteSet(S)
  PROVE  /\ \A k \in 1..Cardinality(S) : Nth(S, k) \in S
         /\ \A i \in S : \E k \in 1..Cardinality(S) : Nth(S, k) = i
         /\ \A k, l \in 1..Cardinality(S) : Nth(S, k) = Nth(S, l) => k = l
  <1>1. Cardinality(S) \in Nat
    BY FS_CardinalityType
  <1>0. \A i, j \in S : Cardinality(UpTo(S, i)) = Cardinality(UpTo(S, j)) => i = j
    BY PlacesCounted
  <1>2. ASSUME NEW k \in 1..Cardinality(S)
        PROVE  \E i \in S : Cardinality(UpTo(S, i)) = k
    <2> SUFFICES ASSUME \A i \in S : Cardinality(UpTo(S, i)) # k
                 PROVE  FALSE
      OBVIOUS
    <2> DEFINE T == (1..Cardinality(S)) \ {k}
               f == [i \in S |-> Cardinality(UpTo(S, i))]
    <2>1. IsFiniteSet(1..Cardinality(S)) /\ Cardinality(1..Cardinality(S)) = Cardinality(S)
      BY <1>1, <1>2, FS_Interval
    <2>2. IsFiniteSet(T) /\ Cardinality(T) = Cardinality(S) - 1
      BY <2>1, FS_RemoveElement
    <2>3. f \in [S -> T]
      BY PlacesCounted
    <2>4. Cardinality(T) < Cardinality(S)
      BY <2>2, <1>1
    <2> HIDE DEF T, f
    <2>5. PICK x, y \in S : x # y /\ f[x] = f[y]
      BY <2>2, <2>3, <2>4, FS_PigeonHole
    <2> QED
      BY <2>5, <1>0 DEF f
  <1>3. \A k \in 1..Cardinality(S) : Nth(S, k) \in S /\ Cardinality(UpTo(S, Nth(S, k))) = k
    BY <1>2 DEF Nth
  <1>4. ASSUME NEW i \in S
        PROVE  \E k \in 1..Cardinality(S) : Nth(S, k) = i
    <2>1. Cardinality(UpTo(S, i)) \in 1..Cardinality(S)
      BY PlacesCounted
    <2>2. PICK k \in 1..Cardinality(S) : k = Cardinality(UpTo(S, i))
      BY <2>1
    <2>3. Nth(S, k) \in S /\ Cardinality(UpTo(S, Nth(S, k))) = Cardinality(UpTo(S, i))
      BY <2>2, <1>3
    <2>4. Nth(S, k) = i
      BY <2>3, <1>0
    <2> QED
      BY <2>4
  <1> QED
    BY <1>3, <1>4

(* The part of a sequence at a set of its places is a sequence of elements of it, one
   for each place; it repeats none that the sequence does not repeat. *)
LEMMA PartOfSequence ==
  ASSUME NEW A, NEW s \in Seq(A), NEW places \in SUBSET DOMAIN s
  PROVE  /\ PartAt(s, places) \in Seq(A)
         /\ Len(PartAt(s, places)) = Cardinality(places) /\ Cardinality(places) <= Len(s)
         /\ \A k \in DOMAIN PartAt(s, places) : \E i \in places : PartAt(s, places)[k] = s[i]
         /\ \A i \in places : \E k \in DOMAIN PartAt(s, places) : PartAt(s, places)[k] = s[i]
         /\ IsInjective(s) => IsInjective(PartAt(s, places))
  <1>1. /\ places \in SUBSET Nat /\ IsFiniteSet(places) /\ Cardinality(places) \in Nat
        /\ Cardinality(places) <= Len(s)
    <2>0. DOMAIN s = 1..Len(s) /\ Len(s) \in Nat
      OBVIOUS
    <2>1. IsFiniteSet(1..Len(s)) /\ Cardinality(1..Len(s)) = Len(s)
      <3>1. PICK n \in Nat : n = Len(s)
        BY <2>0
      <3>2. IsFiniteSet(1..n) /\ Cardinality(1..n) = IF 1 > n THEN 0 ELSE n - 1 + 1
        BY FS_Interval
      <3>3. Cardinality(1..n) = n
        BY <3>2
      <3> QED
        BY <3>1, <3>2, <3>3
    <2> QED
      BY <2>0, <2>1, FS_Subset, FS_CardinalityType
  <1>2. /\ \A k \in 1..Cardinality(places) : Nth(places, k) \in places
        /\ \A i \in places : \E k \in 1..Cardinality(places) : Nth(places, k) = i
        /\ \A k, l \in 1..Cardinality(places) : Nth(places, k) = Nth(places, l) => k = l
    BY <1>1, NthOnto
  <1>3. \A i \in places : s[i] \in A
    OBVIOUS
  <1>4. /\ PartAt(s, places) \in Seq(A) /\ Len(PartAt(s, places)) = Cardinality(places)
        /\ DOMAIN PartAt(s, places) = 1..Cardinality(places)
    BY <1>1, <1>2, <1>3 DEF PartAt
  <1>5. \A k \in 1..Cardinality(places) : PartAt(s, places)[k] = s[Nth(places, k)]
    BY DEF PartAt
  <1> QED
    BY <1>1, <1>2, <1>4, <1>5 DEF IsInjective

(* A sequence that repeats nothing has as many elements as it has places. *)
LEMMA LengthCounts ==
  ASSUME NEW A, NEW s \in Seq(A), IsInjective(s)
  PROVE  LET S == {s[i] : i \in DOMAIN s}
         IN  IsFiniteSet(S) /\ Cardinality(S) = Len(s)
  <1> DEFINE S == {s[i] : i \in DOMAIN s}
  <1>1. PICK n \in Nat : n = Len(s) /\ DOMAIN s = 1..n
    OBVIOUS
  <1>2. s \in [1..n -> S] /\ IsInjective(s) /\ \A t \in S : \E i \in 1..n : s[i] = t
    BY <1>1 DEF IsInjective
  <1>5. s \in Bijection(1..n, S)
    BY <1>2 DEF Bijection, Injection, Surjection
  <1>3. ExistsBijection(1..n, S)
    BY <1>5 DEF ExistsBijection
  <1> HIDE DEF S
  <1>4. Cardinality(S) = n /\ IsFiniteSet(S)
    BY <1>3, FS_CountingElements, FS_NatBijection
  <1> QED
    BY <1>1, <1>4 DEF S

(* What is left of a sequence without some elements, with others added behind. *)
LEMMA WithoutSome ==
  ASSUME NEW A, NEW s \in Seq(A), NEW out
  PROVE  /\ Without(s, out) \in Seq(A) /\ Len(Without(s, out)) <= Len(s)
         /\ {Without(s, out)[k] : k \in DOMAIN Without(s, out)} = {s[i] : i \in DOMAIN s} \ out
         /\ IsInjective(s) => IsInjective(Without(s, out))
  <1> DEFINE places == {i \in DOMAIN s : s[i] \notin out}
             t == PartAt(s, places)
  <1>1. /\ t \in Seq(A) /\ Len(t) <= Len(s)
        /\ \A k \in DOMAIN t : \E i \in places : t[k] = s[i]
        /\ \A i \in places : \E k \in DOMAIN t : t[k] = s[i]
        /\ IsInjective(s) => IsInjective(t)
    <2> places \in SUBSET DOMAIN s
      OBVIOUS
    <2> HIDE DEF places
    <2> QED
      BY PartOfSequence
  <1>2. Without(s, out) = t
    BY DEF Without
  <1> HIDE DEF t
  <1>3. {t[k] : k \in DOMAIN t} = {s[i] : i \in DOMAIN s} \ out
    <2>1. ASSUME NEW k \in DOMAIN t
          PROVE  t[k] \in {s[i] : i \in DOMAIN s} \ out
      BY <1>1
    <2>2. ASSUME NEW i \in DOMAIN s, s[i] \notin out
          PROVE  \E k \in DOMAIN t : t[k] = s[i]
      <3>1. i \in places
        BY <2>2
      <3> QED
        BY <3>1, <1>1
    <2> QED
      BY <2>1, <2>2
  <1> QED
    BY <1>1, <1>2, <1>3
-----------------------------------------------------------------------------
(* Induction over 0..n: a set that holds 0, and with a number its successor, holds all
   of them.  The library states induction for predicates, which no prover here
   instantiates; this one, for sets, rests on the well-founded order of the subsets of
   a finite set. *)
LEMMA IntervalInduction ==
  ASSUME NEW n \in Nat, NEW P, 0 \in P, \A i \in 0..n-1 : i \in P => i + 1 \in P
  PROVE  \A i \in 0..n : i \in P
  <1> SUFFICES ASSUME NEW i0 \in 0..n, i0 \notin P
               PROVE  FALSE
    OBVIOUS
  <1> DEFINE U == 0..n
             T == {0..i : i \in {j \in U : j \notin P}}
             R == StrictSubsetOrdering(U)
  <1>1. T \subseteq SUBSET U /\ T # {}
    OBVIOUS
  <1>2. IsFiniteSet(U)
    BY FS_Interval
  <1>3. IsWellFoundedOn(R, SUBSET U)
    BY <1>2, FS_StrictSubsetOrderingWellFounded, FS_FiniteSubsetsOfFinite
  <1>4. PICK X \in T : \A Y \in T : <<Y, X>> \notin R
    <2> HIDE DEF R, T, U
    <2> QED
      BY <1>1, <1>3, WFMin
  <1>5. PICK i \in 0..n : i \notin P /\ X = 0..i
    BY <1>4
  <1>6. i - 1 \in 0..n /\ i - 1 \notin P
    BY <1>5
  <1>7. 0..(i-1) \in T
    BY <1>6
  <1>8. 0..(i-1) \subseteq 0..i /\ 0..(i-1) # 0..i
    BY <1>6
  <1> QED
    BY <1>1, <1>4, <1>5, <1>7, <1>8 DEF StrictSubsetOrdering

LEMMA MaxOfSome ==
  ASSUME NEW n \in Nat, NEW S \in SUBSET (1..n), S # {}
  PROVE  Max(S) \in S /\ \A i \in S : i <= Max(S)
  <1> DEFINE P == {k \in 0..n : \A T \in SUBSET (1..k) : T # {} => \E x \in T : \A y \in T : x >= y}
  <1>1. 0 \in P
    <2>1. 1..0 = {}
      OBVIOUS
    <2>2. \A T \in SUBSET (1..0) : T # {} => \E x \in T : \A y \in T : x >= y
      BY <2>1
    <2> QED
      BY <2>2
  <1>2. ASSUME NEW k \in 0..n-1, k \in P
        PROVE  k + 1 \in P
    <2> SUFFICES ASSUME NEW T \in SUBSET (1..(k+1)), T # {}
                 PROVE  \E x \in T : \A y \in T : x >= y
      OBVIOUS
    <2>1. CASE k + 1 \in T
      BY <2>1
    <2>2. CASE k + 1 \notin T
      <3>1. T \in SUBSET (1..k)
        BY <2>2
      <3> QED
        BY <3>1, <1>2
    <2> QED
      BY <2>1, <2>2
  <1>3. n \in P
    <2> HIDE DEF P
    <2> QED
      BY <1>1, <1>2, IntervalInduction
  <1>4. \E x \in S : \A y \in S : x >= y
    BY <1>3
  <1> QED
    BY <1>4 DEF Max

(* Folding a sequence of length n from the left, as SequencesExt defines it: over the
   sets of its places, the last place first. *)
Folds(f, n, base, g) ==
  \A S \in SUBSET (1..n) : f[S] = IF S = {} THEN base ELSE g[f[S \ {Max(S)}], Max(S)]

LEMMA FoldExists ==
  ASSUME NEW n \in Nat, NEW A, NEW base \in A, NEW g \in [A \X (1..n) -> A]
  PROVE  \E f \in [SUBSET (1..n) -> A] : Folds(f, n, base, g)
  <1> DEFINE P == {k \in 0..n : \E f \in [SUBSET (1..k) -> A] : Folds(f, k, base, g)}
  <1>1. 0 \in P
    <2>1. 1..0 = {} /\ SUBSET {} = {{}}
      OBVIOUS
    <2> DEFINE f == [S \in {{}} |-> base]
    <2>2. f \in [SUBSET (1..0) -> A] /\ \A S \in SUBSET (1..0) : S = {} /\ f[S] = base
      BY <2>1
    <2> HIDE DEF f
    <2>3. Folds(f, 0, base, g)
      BY <2>2 DEF Folds
    <2> QED
      BY <2>2, <2>3
  <1>2. ASSUME NEW k \in 0..n-1, k \in P
        PROVE  k + 1 \in P
    <2>1. PICK f \in [SUBSET (1..k) -> A] : Folds(f, k, base, g)
      BY <1>2
    <2>2. PICK m \in 1..n : m = k + 1
      OBVIOUS
    <2> DEFINE h == [S \in SUBSET (1..m) |-> IF m \in S THEN g[f[S \ {m}], m] ELSE f[S]]
    <2>3. \A S \in SUBSET (1..m) : /\ m \in S => S \ {m} \in SUBSET (1..k)
                                   /\ m \notin S => S \in SUBSET (1..k)
      BY <2>2
    <2>4. \A S \in SUBSET (1..m) : (m \in S => g[f[S \ {m}], m] \in A) /\ (m \notin S => f[S] \in A)
      BY <2>3
    <2>5. h \in [SUBSET (1..m) -> A]
      BY <2>4
    <2>6. \A S \in SUBSET (1..m) : h[S] = IF m \in S THEN g[f[S \ {m}], m] ELSE f[S]
      OBVIOUS
    <2> HIDE DEF h
    <2>7. ASSUME NEW S \in SUBSET (1..m)
          PROVE  h[S] = IF S = {} THEN base ELSE g[h[S \ {Max(S)}], Max(S)]
      <3>1. CASE S = {}
        <4>1. {} \in SUBSET (1..k) /\ m \notin S
          BY <3>1
        <4> QED
          BY <3>1, <4>1, <2>1, <2>6 DEF Folds
      <3>2. CASE m \in S
        <4>1. Max(S) = m
          <5>1. m \in Nat /\ S # {}
            BY <3>2
          <5>2. PICK x : x = Max(S)
            OBVIOUS
          <5>3. x \in S /\ m <= x
            BY <5>1, <5>2, <3>2, MaxOfSome
          <5>4. x = m
            BY <5>1, <5>3
          <5> QED
            BY <5>2, <5>4
        <4>2. S \ {m} \in SUBSET (1..m) /\ h[S \ {m}] = f[S \ {m}]
          BY <2>6, <3>2
        <4> QED
          BY <4>1, <4>2, <2>6, <3>2
      <3>3. CASE S # {} /\ m \notin S
        <4>1. S \in SUBSET (1..k)
          BY <2>3, <3>3
        <4>2. Max(S) \in S
          <5>1. m \in Nat /\ S # {}
            BY <3>3
          <5> QED
            BY <5>1, MaxOfSome
        <4>3. S \ {Max(S)} \in SUBSET (1..m) /\ m \notin S \ {Max(S)}
          BY <3>3
        <4>4. h[S \ {Max(S)}] = f[S \ {Max(S)}] /\ h[S] = f[S]
          BY <4>3, <3>3, <2>6
        <4> QED
          BY <4>1, <4>4, <2>1, <3>3 DEF Folds
      <3> QED
        BY <3>1, <3>2, <3>3
    <2>8. Folds(h, m, base, g)
      BY <2>7 DEF Folds
    <2> QED
      BY <2>2, <2>5, <2>8
  <1>3. n \in P
    <2> HIDE DEF P
    <2> QED
      BY <1>1, <1>2, IntervalInduction
  <1> QED
    BY <1>3

(* The fold of a prefix, from that of the prefix one shorter. *)
LEMMA LastPlace ==
  ASSUME NEW n \in Nat, NEW k \in 1..n
  PROVE  Max(1..k) = k /\ (1..k) \ {k} = 1..(k-1) /\ 1..k \in SUBSET (1..n) /\ 1..k # {}
  <1>1. 1..k \in SUBSET (1..k) /\ k \in 1..k /\ k \in Nat
    OBVIOUS
  <1>2. PICK x : x = Max(1..k)
    OBVIOUS
  <1>3. x \in 1..k /\ k <= x
    BY <1>1, <1>2, MaxOfSome
  <1>4. x = k
    BY <1>1, <1>3
  <1>5. (1..k) \ {k} = 1..(k-1) /\ 1..k \in SUBSET (1..n)
    BY <1>1
  <1> QED
    BY <1>1, <1>2, <1>4, <1>5

(* What the base has and every step keeps, the fold of the whole sequence has. *)
LEMMA FoldKeeps ==
  ASSUME NEW n \in Nat, NEW A, NEW f, f[{}] \in A,
         \A S \in SUBSET (1..n) : S # {} /\ f[S \ {Max(S)}] \in A => f[S] \in A
  PROVE  f[1..n] \in A
  <1> DEFINE P == {k \in 0..n : f[1..k] \in A}
  <1>1. 0 \in P
    <2>1. 1..0 = {}
      OBVIOUS
    <2> QED
      BY <2>1
  <1>2. ASSUME NEW k \in 0..n-1, k \in P
        PROVE  k + 1 \in P
    <2>1. PICK m \in 1..n : m = k + 1 /\ k = m - 1
      OBVIOUS
    <2>2. 1..m \in SUBSET (1..n) /\ 1..m # {} /\ (1..m) \ {Max(1..m)} = 1..(m-1)
      BY LastPlace
    <2>3. f[1..(m-1)] \in A
      BY <1>2, <2>1
    <2>4. f[1..m] \in A
      BY <2>2, <2>3
    <2> QED
      BY <2>1, <2>4
  <1>3. n \in P
    <2> HIDE DEF P
    <2> QED
      BY <1>1, <1>2, IntervalInduction
  <1> QED
    BY <1>3

(* The least of some places, and what remains without one of them. *)
LEMMA MinOfSome ==
  ASSUME NEW n \in Nat, NEW S \in SUBSET (1..n), S # {}
  PROVE  Min(S) \in S
  <1> DEFINE P == {k \in 0..n : \A T \in SUBSET (1..k) : T # {} => \E x \in T : \A y \in T : x <= y}
  <1>1. 0 \in P
    <2>1. 1..0 = {}
      OBVIOUS
    <2>2. \A T \in SUBSET (1..0) : T # {} => \E x \in T : \A y \in T : x <= y
      BY <2>1
    <2> QED
      BY <2>2
  <1>2. ASSUME NEW k \in 0..n-1, k \in P
        PROVE  k + 1 \in P
    <2> SUFFICES ASSUME NEW T \in SUBSET (1..(k+1)), T # {}
                 PROVE  \E x \in T : \A y \in T : x <= y
      OBVIOUS
    <2>1. T \ {k + 1} \in SUBSET (1..k) /\ \A y \in T : y <= k + 1
      OBVIOUS
    <2>2. CASE T \ {k + 1} = {}
      <3>1. \A x, y \in T : x = k + 1 /\ y = k + 1 /\ k + 1 <= k + 1
        BY <2>2
      <3> QED
        BY <3>1
    <2>3. CASE T \ {k + 1} # {}
      <3>1. PICK x \in T \ {k + 1} : \A y \in T \ {k + 1} : x <= y
        BY <2>1, <2>3, <1>2
      <3> QED
        BY <2>1, <3>1
    <2> QED
      BY <2>2, <2>3
  <1>3. n \in P
    <2> HIDE DEF P
    <2> QED
      BY <1>1, <1>2, IntervalInduction
  <1>4. \E x \in S : \A y \in S : x <= y
    BY <1>3
  <1> QED
    BY <1>4 DEF Min
=============================================================================
