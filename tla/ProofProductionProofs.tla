----------------------- MODULE ProofProductionProofs -----------------------
(* Theorems about the production of proofs: any transactions, dependencies, producers
   and limits. *)
EXTENDS ProofProduction, SubsequenceProofs, SequenceTheorems

-----------------------------------------------------------------------------
(* The sequences the builder works with. *)
Entry == [deps : SUBSET Dep, program : Program]

Distinct(q) == q \in Seq(Tx) /\ IsInjective(q)

LEMMA OrderCounts == Len(Order) \in Nat /\ IsFiniteSet(Tx) /\ Cardinality(Tx) = Len(Order)
  <1>1. Order \in Seq(Tx) /\ IsInjective(Order)
    BY OrderAssumption
  <1>2. LET S == {Order[i] : i \in DOMAIN Order} IN IsFiniteSet(S) /\ Cardinality(S) = Len(Order)
    BY <1>1, LengthCounts
  <1> QED
    BY <1>1, <1>2 DEF Tx, ToSet

LEMMA DistinctLength ==
  ASSUME NEW q, Distinct(q)
  PROVE  Len(q) \in 0..Len(Order)
  <1>1. q \in Seq(Tx) /\ IsInjective(q)
    BY DEF Distinct
  <1>2. Cardinality({q[i] : i \in DOMAIN q}) = Len(q)
    BY <1>1, LengthCounts
  <1>3. {q[i] : i \in DOMAIN q} \in SUBSET Tx
    BY <1>1
  <1>4. Cardinality({q[i] : i \in DOMAIN q}) <= Cardinality(Tx)
    BY <1>3, OrderCounts, FS_Subset
  <1> QED
    BY <1>1, <1>2, <1>4, OrderCounts

LEMMA WithinSome ==
  ASSUME NEW q, Distinct(q), NEW S
  PROVE  Distinct(OnlyIn(q, S)) /\ \A k \in DOMAIN OnlyIn(q, S) : OnlyIn(q, S)[k] \in S
  <1> DEFINE places == {i \in DOMAIN q : q[i] \in S}
  <1>1. q \in Seq(Tx) /\ IsInjective(q) /\ places \in SUBSET DOMAIN q
    BY DEF Distinct
  <1>2. \A i \in places : q[i] \in S
    OBVIOUS
  <1> HIDE DEF places
  <1>3. /\ PartAt(q, places) \in Seq(Tx) /\ IsInjective(PartAt(q, places))
        /\ \A k \in DOMAIN PartAt(q, places) : \E i \in places : PartAt(q, places)[k] = q[i]
    BY <1>1, PartOfSequence
  <1>4. OnlyIn(q, S) = PartAt(q, places)
    BY DEF OnlyIn, places
  <1> QED
    BY <1>2, <1>3, <1>4 DEF Distinct

LEMMA ConcatDistinct ==
  ASSUME NEW p, NEW q, Distinct(p), Distinct(q), ToSet(p) \cap ToSet(q) = {}
  PROVE  Distinct(p \o q)
  <1>1. /\ p \in Seq(Tx) /\ q \in Seq(Tx) /\ Len(p) \in Nat /\ Len(q) \in Nat
        /\ DOMAIN p = 1..Len(p) /\ DOMAIN q = 1..Len(q)
    BY DEF Distinct
  <1>2. /\ p \o q \in Seq(Tx) /\ DOMAIN (p \o q) = 1..Len(p) + Len(q)
        /\ \A i \in 1..Len(p) + Len(q) : (p \o q)[i] = IF i <= Len(p) THEN p[i] ELSE q[i - Len(p)]
    BY <1>1, ConcatProperties
  <1>3. ASSUME NEW i \in 1..Len(p) + Len(q), NEW j \in 1..Len(p) + Len(q), (p \o q)[i] = (p \o q)[j]
        PROVE  i = j
    <2>1. \A k \in 1..Len(p) + Len(q) :
            IF k <= Len(p) THEN (p \o q)[k] = p[k] /\ k \in DOMAIN p /\ p[k] \in ToSet(p)
            ELSE (p \o q)[k] = q[k - Len(p)] /\ k - Len(p) \in DOMAIN q /\ q[k - Len(p)] \in ToSet(q)
      BY <1>1, <1>2 DEF ToSet
    <2>2. CASE i <= Len(p) /\ j <= Len(p)
      BY <2>1, <2>2, <1>3 DEF Distinct, IsInjective
    <2>3. CASE ~(i <= Len(p)) /\ ~(j <= Len(p))
      <3>1. i - Len(p) = j - Len(p)
        BY <2>1, <2>3, <1>3 DEF Distinct, IsInjective
      <3> QED
        BY <3>1, <1>1
    <2>4. CASE (i <= Len(p)) # (j <= Len(p))
      BY <2>1, <2>4, <1>3
    <2> QED
      BY <2>2, <2>3, <2>4
  <1> QED
    BY <1>2, <1>3 DEF Distinct, IsInjective

LEMMA InOrderDistinct == \A S : Distinct(InOrder(S)) /\ ToSet(InOrder(S)) \subseteq S
  <1>1. Distinct(Order)
    BY OrderAssumption DEF Distinct
  <1> QED
    BY <1>1, WithinSome DEF InOrder, ToSet

LEMMA ArrivedDistinct ==
  ASSUME Distinct(firstSeen)
  PROVE  Distinct(Arrived)
  <1> DEFINE old == OnlyIn(firstSeen, build.txs)
             new == InOrder(build.txs \ ToSet(old))
  <1>1. Distinct(old)
    BY WithinSome
  <1>2. Distinct(new) /\ ToSet(new) \subseteq build.txs \ ToSet(old)
    BY InOrderDistinct
  <1>3. ToSet(old) \cap ToSet(new) = {}
    BY <1>2
  <1> HIDE DEF old, new
  <1>4. Distinct(old \o new)
    BY <1>1, <1>2, <1>3, ConcatDistinct
  <1> QED
    BY <1>4 DEF Arrived, old, new
-----------------------------------------------------------------------------
(* What a wrapper takes, as the fold computes it, for any candidates. *)
Choice(n, limit) ==
  {c \in [txs : SUBSET Tx, deps : SUBSET Dep, next : 0..n, full : BOOLEAN] :
     c.deps = DepsOfAll(c.txs) /\ Cardinality(c.deps) <= limit}

LEMMA ChosenType ==
  ASSUME NEW q, Distinct(q), NEW start \in Nat, start <= Len(q), NEW limit \in Nat
  PROVE  Chosen(q, start, limit) \in Choice(Len(q), limit)
  <1>1. PICK n \in Nat : n = Len(q)
    BY DEF Distinct
  <1>2. \A i \in 1..n : q[i] \in Tx /\ DepsOf[q[i]] \in SUBSET Dep
    BY <1>1, DepsAssumption DEF Distinct
  <1> DEFINE C == Choice(n, limit)
             take(acc, i) == [acc EXCEPT !.txs = @ \cup {q[i]}, !.deps = @ \cup DepsOf[q[i]], !.next = i % n]
             step(acc, i) ==
               LET D == acc.deps \cup DepsOf[q[i]]
               IN  IF acc.full \/ DepsOf[q[i]] = {} THEN acc
                   ELSE IF D = acc.deps THEN take(acc, i)
                   ELSE IF Cardinality(D) > limit
                        THEN IF acc.txs = {} THEN acc ELSE [acc EXCEPT !.next = i - 1, !.full = TRUE]
                   ELSE IF Composable(D, program) THEN take(acc, i) ELSE acc
             base == [txs |-> {}, deps |-> {}, next |-> 0, full |-> FALSE]
             m == n - start
             seq == [i \in 1..m |-> start + i]
  <1>3. base \in C
    BY FS_EmptySet DEF Choice, DepsOfAll
  <1>4. ASSUME NEW acc \in C, NEW i \in 1..n
        PROVE  step(acc, i) \in C
    <2> DEFINE D == acc.deps \cup DepsOf[q[i]]
    <2>1. i % n \in 0..n /\ i - 1 \in 0..n
      OBVIOUS
    <2>2. /\ acc \in [txs : SUBSET Tx, deps : SUBSET Dep, next : 0..n, full : BOOLEAN]
          /\ acc.deps = DepsOfAll(acc.txs) /\ Cardinality(acc.deps) <= limit
      BY DEF Choice
    <2>3. D = DepsOfAll(acc.txs \cup {q[i]}) /\ D \in SUBSET Dep
      BY <1>2, <2>2 DEF DepsOfAll
    <2>4. /\ take(acc, i) \in [txs : SUBSET Tx, deps : SUBSET Dep, next : 0..n, full : BOOLEAN]
          /\ take(acc, i).txs = acc.txs \cup {q[i]} /\ take(acc, i).deps = D
      BY <1>2, <2>1, <2>2
    <2>5. Cardinality(D) <= limit => take(acc, i) \in C
      <3> HIDE DEF take, D
      <3> QED
        BY <2>3, <2>4 DEF Choice
    <2>6. [acc EXCEPT !.next = i - 1, !.full = TRUE] \in C
      BY <2>1 DEF Choice
    <2>7. Cardinality(D) \in Nat
      BY <2>3, DepsAssumption, FS_Subset, FS_CardinalityType
    <2>8. Cardinality(D) > limit \/ Cardinality(D) <= limit
      BY <2>7
    <2>9. D = acc.deps => Cardinality(D) <= limit
      BY <2>2
    <2> HIDE DEF take, D, C
    <2> QED
      BY <2>5, <2>6, <2>8, <2>9 DEF D
  <1>5. m \in Nat /\ \A i \in 1..m : seq[i] \in 1..n
    BY <1>1
  <1>6. Chosen(q, start, limit) = FoldLeft(step, base, seq)
    BY <1>1 DEF Chosen
  <1>7. PICK g \in [C \X (1..m) -> C] : \A acc \in C : \A i \in 1..m : g[acc, i] = step(acc, seq[i])
    <2> DEFINE g == [p \in C \X (1..m) |-> step(p[1], seq[p[2]])]
    <2> HIDE DEF step, C
    <2>1. g \in [C \X (1..m) -> C]
      BY <1>4, <1>5
    <2> QED
      BY <2>1
  <1> HIDE DEF step, C, base
  <1>8. PICK f \in [SUBSET (1..m) -> C] : Folds(f, m, base, g)
    BY <1>3, <1>5, <1>7, FoldExists
  <1>9. DOMAIN seq = 1..m
    OBVIOUS
  <1> HIDE DEF seq, m
  <1>10. f = [S \in SUBSET DOMAIN seq |-> IF S = {} THEN base ELSE step(f[S \ {Max(S)}], seq[Max(S)])]
    <2>1. ASSUME NEW S \in SUBSET (1..m)
          PROVE  f[S] = IF S = {} THEN base ELSE step(f[S \ {Max(S)}], seq[Max(S)])
      <3>1. CASE S = {}
        BY <3>1, <1>8 DEF Folds
      <3>2. CASE S # {}
        <4>1. Max(S) \in 1..m
          BY <3>2, <1>5, MaxOfSome
        <4> QED
          BY <3>2, <4>1, <1>7, <1>8 DEF Folds
      <3> QED
        BY <3>1, <3>2
    <2> QED
      BY <2>1, <1>8, <1>9
  <1>11. PICK h : /\ h = [S \in SUBSET DOMAIN seq |-> IF S = {} THEN base ELSE step(h[S \ {Max(S)}], seq[Max(S)])]
                  /\ FoldLeft(step, base, seq) = h[DOMAIN seq]
    BY <1>10 DEF FoldLeft, MapThenFoldSet
  <1>12. h[1..m] \in C
    <2>1. h[{}] \in C
      BY <1>3, <1>11
    <2>2. ASSUME NEW S \in SUBSET (1..m), S # {}, h[S \ {Max(S)}] \in C
          PROVE  h[S] \in C
      <3>1. Max(S) \in 1..m
        BY <2>2, <1>5, MaxOfSome
      <3>2. h[S] = step(h[S \ {Max(S)}], seq[Max(S)])
        BY <2>2, <1>9, <1>11
      <3> QED
        BY <2>2, <3>1, <3>2, <1>4, <1>5
    <2> QED
      BY <2>1, <2>2, <1>5, FoldKeeps
  <1> QED
    BY <1>1, <1>6, <1>9, <1>11, <1>12 DEF C
-----------------------------------------------------------------------------
(* The cache of generated proofs keeps its type and its limit. *)
CacheOK == cached \in Seq(Entry) /\ Len(cached) <= MaxCached

LEMMA GeneratedPlaces ==
  ASSUME CacheOK, NEW D, Generated(D) # {}
  PROVE  /\ Min(Generated(D)) \in DOMAIN cached
         /\ cached[Min(Generated(D))] \in Entry /\ cached[Min(Generated(D))].deps = D
  <1>1. PICK n \in Nat : n = Len(cached) /\ DOMAIN cached = 1..n
    BY DEF CacheOK
  <1>2. Generated(D) \in SUBSET (1..n)
    BY <1>1 DEF Generated
  <1>3. Min(Generated(D)) \in Generated(D)
    BY <1>2, MinOfSome
  <1> QED
    BY <1>1, <1>3 DEF Generated, CacheOK

LEMMA FoundType ==
  ASSUME CacheOK, NEW D \in SUBSET Dep
  PROVE  Found(D) \in Program \cup {None}
  <1>1. CASE Generated(D) # {}
    BY <1>1, GeneratedPlaces DEF Found, Entry
  <1>2. CASE Generated(D) = {}
    BY <1>2, DepsAssumption DEF Found
  <1> QED
    BY <1>1, <1>2

LEMMA TouchedOK ==
  ASSUME CacheOK, NEW D
  PROVE  Touched(D) \in Seq(Entry) /\ Len(Touched(D)) <= MaxCached
  <1>1. CASE Generated(D) = {}
    BY <1>1 DEF Touched, CacheOK
  <1>2. CASE Generated(D) # {}
    <2> DEFINE places == DOMAIN cached \ Generated(D)
               i == Min(Generated(D))
    <2>1. PICK n \in Nat : n = Len(cached) /\ DOMAIN cached = 1..n /\ n <= MaxCached
      BY DEF CacheOK
    <2>2. i \in 1..n /\ i \notin places /\ cached[i] \in Entry
      BY <1>2, <2>1, GeneratedPlaces DEF Generated
    <2>3. Cardinality((1..n) \ {i}) = n - 1 /\ IsFiniteSet((1..n) \ {i})
      <3>1. IsFiniteSet(1..n) /\ Cardinality(1..n) = IF 1 > n THEN 0 ELSE n - 1 + 1
        BY FS_Interval
      <3>2. Cardinality(1..n) = n
        BY <3>1
      <3> HIDE DEF i
      <3> QED
        BY <3>1, <3>2, <2>2, FS_RemoveElement
    <2>4. places \in SUBSET ((1..n) \ {i}) /\ places \in SUBSET DOMAIN cached
      BY <2>1, <2>2
    <2> HIDE DEF places, i
    <2>5. Cardinality(places) <= n - 1 /\ Cardinality(places) \in Nat
      BY <2>3, <2>4, FS_Subset, FS_CardinalityType
    <2>6. PartAt(cached, places) \in Seq(Entry) /\ Len(PartAt(cached, places)) = Cardinality(places)
      BY <2>4, PartOfSequence DEF CacheOK
    <2>7. Touched(D) = Append(PartAt(cached, places), cached[i])
      BY <1>2 DEF Touched, Others, places, i
    <2>8. /\ Append(PartAt(cached, places), cached[i]) \in Seq(Entry)
          /\ Len(Append(PartAt(cached, places), cached[i])) = Cardinality(places) + 1
      BY <2>2, <2>6
    <2> QED
      BY <2>1, <2>5, <2>7, <2>8, CacheAssumption
  <1> QED
    BY <1>1, <1>2

LEMMA AddedOK ==
  ASSUME CacheOK, NEW D \in SUBSET Dep, NEW p \in Program
  PROVE  Added(D, p) \in Seq(Entry) /\ Len(Added(D, p)) <= MaxCached
  <1>1. CASE Generated(D) # {}
    BY <1>1, TouchedOK DEF Added
  <1>2. CASE Generated(D) = {}
    <2> DEFINE q == Append(cached, [deps |-> D, program |-> p])
    <2>1. q \in Seq(Entry) /\ Len(q) = Len(cached) + 1 /\ Len(cached) \in Nat /\ Len(cached) <= MaxCached
      BY DEF CacheOK, Entry
    <2>2. q # <<>>
      BY <2>1
    <2> HIDE DEF q
    <2>3. Tail(q) \in Seq(Entry) /\ Len(Tail(q)) = Len(q) - 1
      BY <2>1, <2>2
    <2>4. Added(D, p) = IF Len(q) > MaxCached THEN Tail(q) ELSE q
      BY <1>2 DEF Added, q
    <2> QED
      BY <2>1, <2>3, <2>4, CacheAssumption
  <1> QED
    BY <1>1, <1>2

LEMMA DepsOfAllType == \A S \in SUBSET Tx : DepsOfAll(S) \in SUBSET Dep
  BY DepsAssumption DEF DepsOfAll
-----------------------------------------------------------------------------
(* The type invariant in parts. *)
Job == [at : {"idle", "collected", "selected", "missing", "entered", "proving", "proved", "shared"},
        txs : SUBSET Tx, adaptive : BOOLEAN, key : Program \cup {None}, proof : Program \cup {None}]

Work == [at : {"idle", "started", "found", "missing", "waiting", "proving", "proved"},
         deps : SUBSET Dep, key : Program \cup {None}, proof : Program \cup {None}]

Result == [at : {"idle"}, deps : SUBSET Dep, key : Program \cup {None}, proof : Program \cup {None}]

ChainOK == program \in Program /\ pool \subseteq Tx

ServiceOK ==
  /\ knownProgram \in Program \cup {None} /\ rotation \in 0..Len(Order)
  /\ Distinct(firstSeen) /\ grace \in BOOLEAN
  /\ wrapper \in [txs : SUBSET Tx, program : Program] \cup {None}

ProverOK ==
  /\ proved \subseteq (SUBSET Dep) \X Program
  /\ proving \in Producer \cup {Builder, None} /\ waiting \in Nat

ProducersOK == block \in [Producer -> Work] /\ blockProof \in [Producer -> Result]

LEMMA TypeParts ==
  TypeOK <=> ChainOK /\ ServiceOK /\ build \in Job /\ CacheOK /\ ProverOK /\ ProducersOK
  BY DEF TypeOK, ChainOK, ServiceOK, Job, CacheOK, Entry, ProverOK, ProducersOK, Work, Result, Distinct

(* The inductive invariant.  A builder that has asked for a proof knows its program;
   a producer that has started has the program of its start, which the head has not
   left for an older one, and what it asks for and what it publishes is not older. *)
BuilderInv ==
  /\ build.at \in {"entered", "proving"} => build.key \in Program
  /\ build.at \in {"proved", "shared"} => build.proof \in Program

BuildFits ==
  build.at \in {"selected", "missing", "entered", "proving", "proved", "shared"} =>
    \/ Cardinality(DepsOfAll(build.txs)) <= LegacyClaims
    \/ program = Adaptive /\ Cardinality(DepsOfAll(build.txs)) <= AdaptiveClaims

Fresh(w) ==
  /\ w.at # "idle" => w.key \in Program /\ w.key <= program
  /\ w.at \in {"waiting", "proving", "proved"} => w.proof \in Program /\ w.key <= w.proof

ProducerInv == \A b \in Producer : Fresh(block[b])

PInv == /\ TypeOK /\ BuilderInv /\ BuildFits /\ WrapperFits /\ ProducerInv /\ ProducersSound

LEMMA TypePartsNext ==
  ASSUME ChainOK', ServiceOK', build' \in Job, CacheOK', ProverOK', ProducersOK'
  PROVE  TypeOK'
  BY DEF TypeOK, ChainOK, ServiceOK, Job, CacheOK, Entry, ProverOK, ProducersOK, Work, Result, Distinct

LEMMA ProgramsOrdered == /\ Program = {1, 2} /\ Legacy = 1 /\ Adaptive = 2
                         /\ Legacy \in Program /\ Adaptive \in Program
                         /\ \A p, q \in Program : p <= q \/ q <= p
                         /\ \A p \in Program : p <= p /\ p <= Adaptive
  BY DEF Program, Legacy, Adaptive

LEMMA InitPInv == Init => PInv
  <1> SUFFICES ASSUME Init
               PROVE  PInv
    OBVIOUS
  <1>1. program \in Program
    BY ProgramsAssumption DEF Init
  <1>2. Distinct(<<>>) /\ CacheOK
    BY CacheAssumption DEF Init, Distinct, IsInjective, CacheOK
  <1>3. TypeOK
    <2>1. Stopped \in Job /\ Resting \in Work /\ Resting \in Result
      BY DEF Stopped, Resting, Job, Work, Result
    <2>2. /\ knownProgram = None /\ rotation = 0 /\ firstSeen = <<>> /\ wrapper = None
          /\ grace = FALSE /\ proved = {} /\ proving = None /\ waiting = 0 /\ pool = {}
      BY DEF Init
    <2>4. rotation \in 0..Len(Order)
      BY <2>2, OrderCounts
    <2>5. ChainOK /\ ProverOK
      BY <1>1, <2>2 DEF ChainOK, ProverOK
    <2>6. ServiceOK
      BY <1>2, <2>2, <2>4 DEF ServiceOK
    <2>3. ProducersOK /\ build \in Job
      BY <2>1 DEF Init, ProducersOK
    <2> QED
      BY <1>2, <2>3, <2>5, <2>6, TypeParts
  <1>4. \A b \in Producer : block[b].at = "idle" /\ blockProof[b].key = None /\ blockProof[b].proof = None
    BY DEF Init, Resting
  <1>5. WaitingCounted
    <2>1. {b \in Producer : block[b].at = "waiting"} = {}
      BY <1>4
    <2> QED
      BY <2>1, FS_EmptySet DEF Init, WaitingCounted
  <1> QED
    BY <1>3, <1>4, <1>5 DEF Init, PInv, BuilderInv, BuildFits, WrapperFits, ProducerInv, Fresh,
                            ProducersSound, BlockProofFresh, Stopped, Resting
-----------------------------------------------------------------------------
(* Steps that leave the producers, or the builder, as they are. *)
LEMMA ProducersUntouched ==
  ASSUME PInv, UNCHANGED <<block, blockProof, waiting>>, program' = program \/ program' = Adaptive
  PROVE  ProducersOK' /\ ProducerInv' /\ ProducersSound'
  <1>1. ProducersOK' /\ WaitingCounted' /\ BlockProofFresh'
    BY TypeParts DEF PInv, ProducersOK, ProducersSound, WaitingCounted, BlockProofFresh
  <1>2. ProducerInv'
    BY ProgramsOrdered DEF PInv, ProducerInv, Fresh
  <1> QED
    BY <1>1, <1>2 DEF ProducersSound

LEMMA BuilderUntouched ==
  ASSUME PInv, UNCHANGED <<program, pool, service>>
  PROVE  /\ ChainOK' /\ ServiceOK' /\ build' \in Job
         /\ BuilderInv' /\ BuildFits' /\ WrapperFits'
  <1>1. UNCHANGED <<knownProgram, rotation, firstSeen, wrapper, grace, build>>
    BY DEF service
  <1>2. ChainOK' /\ ServiceOK' /\ build' \in Job
    BY <1>1, TypeParts DEF PInv, ChainOK, ServiceOK, Distinct
  <1> QED
    BY <1>1, <1>2 DEF PInv, BuilderInv, BuildFits, WrapperFits

LEMMA EnvironmentPInv ==
  ASSUME PInv, Activate \/ GraceEnds \/ \E t \in Tx : Arrive(t) \/ Leave(t)
  PROVE  PInv'
  <1>1. /\ UNCHANGED <<knownProgram, rotation, firstSeen, wrapper, build, cached, proved, proving, waiting,
                       block, blockProof>>
        /\ program' = program \/ program' = Adaptive
        /\ pool' \subseteq Tx /\ grace' \in BOOLEAN
    BY TypeParts DEF PInv, Activate, GraceEnds, Arrive, Leave, service, chain, prover, producers, ChainOK, ServiceOK
  <1>2. ChainOK' /\ CacheOK' /\ ProverOK' /\ build' \in Job
    BY <1>1, TypeParts, ProgramsOrdered DEF PInv, ChainOK, CacheOK, ProverOK
  <1>3. ServiceOK'
    BY <1>1, TypeParts DEF PInv, ServiceOK, Distinct
  <1>4. BuilderInv' /\ BuildFits' /\ WrapperFits'
    BY <1>1 DEF PInv, BuilderInv, BuildFits, WrapperFits
  <1>5. ProducersOK' /\ ProducerInv' /\ ProducersSound'
    BY <1>1, ProducersUntouched
  <1>6. TypeOK'
    BY <1>2, <1>3, <1>5, TypePartsNext
  <1> QED
    BY <1>4, <1>5, <1>6 DEF PInv

(* A step of the builder keeps the invariant when what it changes does. *)
LEMMA BuilderKeeps ==
  ASSUME PInv, UNCHANGED <<chain, waiting, producers>>,
         ServiceOK', build' \in Job, CacheOK', ProverOK', BuilderInv', BuildFits', WrapperFits'
  PROVE  PInv'
  <1>1. UNCHANGED <<program, pool, block, blockProof, waiting>>
    BY DEF chain, producers
  <1>2. ChainOK'
    BY <1>1, TypeParts DEF PInv, ChainOK
  <1>3. ProducersOK' /\ ProducerInv' /\ ProducersSound'
    BY <1>1, ProducersUntouched
  <1>4. TypeOK'
    BY <1>2, <1>3, TypePartsNext
  <1> QED
    BY <1>3, <1>4 DEF PInv

LEMMA StoppedOK == Stopped \in Job /\ Stopped.at = "idle"
  BY DEF Stopped, Job

LEMMA CollectPInv ==
  ASSUME PInv, Collect
  PROVE  PInv'
  <1>1. /\ UNCHANGED <<program, pool, rotation, grace, proved, proving, waiting, producers>>
        /\ build' = [Stopped EXCEPT !.at = "collected", !.txs = pool]
        /\ \/ UNCHANGED <<knownProgram, firstSeen, wrapper, cached>>
           \/ knownProgram' = program /\ firstSeen' = <<>> /\ wrapper' = None /\ cached' = <<>>
    BY DEF Collect, chain, prover
  <1>2. build' \in Job /\ build'.at = "collected"
    BY <1>1, TypeParts DEF PInv, ChainOK, Stopped, Job
  <1>3. ServiceOK' /\ CacheOK' /\ ProverOK' /\ WrapperFits'
    <2>1. Distinct(<<>>)
      BY DEF Distinct, IsInjective
    <2>5. Distinct(firstSeen)'
      BY <1>1, <2>1, TypeParts DEF PInv, ServiceOK, Distinct
    <2>6. <<>> \in Seq(Entry) /\ Len(<<>>) <= MaxCached
      BY CacheAssumption
    <2>2. Distinct(firstSeen)' /\ CacheOK'
      BY <1>1, <2>5, <2>6, TypeParts DEF PInv, CacheOK
    <2>3. ServiceOK' /\ ProverOK'
      BY <1>1, <2>2, TypeParts DEF PInv, ServiceOK, ProverOK, ChainOK
    <2>4. WrapperFits'
      BY <1>1 DEF PInv, WrapperFits
    <2> QED
      BY <2>2, <2>3, <2>4
  <1>4. BuilderInv' /\ BuildFits'
    BY <1>2 DEF BuilderInv, BuildFits
  <1> QED
    BY <1>1, <1>2, <1>3, <1>4, BuilderKeeps DEF chain

LEMMA StartType ==
  ASSUME PInv, NEW n \in 0..Len(Order)
  PROVE  Start(n) \in Nat /\ Start(n) <= n
  <1>1. rotation \in Nat
    BY TypeParts, OrderCounts DEF PInv, ServiceOK
  <1> QED
    BY <1>1, OrderCounts DEF Start

LEMMA SelectPInv ==
  ASSUME PInv, Select
  PROVE  PInv'
  <1> DEFINE adaptive == program = Adaptive
             limit == IF adaptive THEN AdaptiveClaims ELSE LegacyClaims
             candidates == IF adaptive THEN Arrived ELSE InOrder(build.txs)
  <1>1. PICK c : /\ c = Chosen(candidates, Start(Len(candidates)), limit)
                 /\ \/ build' = Stopped /\ UNCHANGED <<rotation, firstSeen>>
                    \/ /\ rotation' = c.next
                       /\ firstSeen' = IF adaptive THEN candidates ELSE firstSeen
                       /\ \/ build' = Stopped
                          \/ build' = [Stopped EXCEPT !.at = "selected", !.txs = c.txs, !.adaptive = adaptive]
                 /\ UNCHANGED <<chain, knownProgram, wrapper, grace, cached, prover, producers>>
    BY DEF Select
  <1>2. Distinct(candidates) /\ limit \in Nat
    BY TypeParts, ArrivedDistinct, InOrderDistinct, ClaimsAssumption DEF PInv, ServiceOK
  <1> HIDE DEF candidates
  <1>3. c \in Choice(Len(candidates), limit)
    <2>1. Len(candidates) \in 0..Len(Order)
      BY <1>2, DistinctLength
    <2>2. Start(Len(candidates)) \in Nat /\ Start(Len(candidates)) <= Len(candidates)
      BY <2>1, StartType
    <2> HIDE DEF limit
    <2> QED
      BY <1>1, <1>2, <2>2, ChosenType
  <1>4. /\ c.txs \in SUBSET Tx /\ c.next \in 0..Len(Order)
        /\ Cardinality(DepsOfAll(c.txs)) <= limit
    <2>1. Len(candidates) \in 0..Len(Order)
      BY <1>2, DistinctLength
    <2>2. c.next \in 0..Len(candidates)
      BY <1>3 DEF Choice
    <2> QED
      BY <1>3, <2>1, <2>2, OrderCounts DEF Choice
  <1>5. UNCHANGED <<program, pool, knownProgram, wrapper, grace, cached, proved, proving, waiting>>
    BY <1>1 DEF chain, prover
  <1>6. ServiceOK'
    BY <1>1, <1>2, <1>4, <1>5, TypeParts DEF PInv, ServiceOK, Distinct
  <1>7. CacheOK' /\ ProverOK' /\ WrapperFits'
    BY <1>5, TypeParts DEF PInv, CacheOK, ProverOK, WrapperFits
  <1>8. build' \in Job /\ BuilderInv' /\ BuildFits'
    <2>1. CASE build' = Stopped
      BY <2>1, StoppedOK DEF BuilderInv, BuildFits
    <2>2. CASE build' = [Stopped EXCEPT !.at = "selected", !.txs = c.txs, !.adaptive = adaptive]
      <3>1. build' \in Job /\ build'.at = "selected" /\ build'.txs = c.txs
        BY <2>2, <1>4 DEF Stopped, Job
      <3>2. BuildFits'
        BY <3>1, <1>4, <1>5 DEF BuildFits
      <3> QED
        BY <3>1, <3>2 DEF BuilderInv
    <2> QED
      BY <1>1, <2>1, <2>2
  <1> QED
    BY <1>1, <1>5, <1>6, <1>7, <1>8, BuilderKeeps DEF chain

-----------------------------------------------------------------------------
(* The other steps of the builder. *)
LEMMA LookUpPInv ==
  ASSUME PInv, LookUp
  PROVE  PInv'
  <1> DEFINE D == DepsOfAll(build.txs)
  <1>1. /\ build.at = "selected" /\ cached' = Touched(D)
        /\ \/ Found(D) # None /\ build' = [build EXCEPT !.at = "proved", !.proof = Found(D)]
           \/ build' = [build EXCEPT !.at = "missing"]
        /\ UNCHANGED <<program, pool, knownProgram, rotation, firstSeen, wrapper, grace, proved, proving, waiting,
                       producers>>
    BY DEF LookUp, chain, prover
  <1>2. build \in Job /\ D \in SUBSET Dep /\ CacheOK
    BY TypeParts, DepsOfAllType DEF PInv, Job
  <1> HIDE DEF D
  <1>3. Found(D) \in Program \cup {None} /\ Touched(D) \in Seq(Entry) /\ Len(Touched(D)) <= MaxCached
    BY <1>2, FoundType, TouchedOK
  <1>4. build' \in Job /\ build'.txs = build.txs /\ BuilderInv'
    BY <1>1, <1>2, <1>3 DEF Job, BuilderInv
  <1>5. BuildFits' /\ WrapperFits'
    BY <1>1, <1>4 DEF PInv, BuildFits, WrapperFits
  <1>6. CacheOK'
    BY <1>1, <1>3 DEF CacheOK
  <1>7. ServiceOK' /\ ProverOK'
    BY <1>1, TypeParts DEF PInv, ServiceOK, ProverOK, Distinct
  <1> QED
    BY <1>1, <1>4, <1>5, <1>6, <1>7, BuilderKeeps DEF chain

(* A build that goes on with its transactions, or stops. *)
LEMMA BuildGoesOn ==
  ASSUME PInv, UNCHANGED <<chain, knownProgram, rotation, firstSeen, wrapper, grace, cached, waiting, producers>>,
         ProverOK', build' \in Job, BuilderInv',
         build'.at = "idle" \/ (build.at \notin {"idle", "collected"} /\ build'.txs = build.txs)
  PROVE  PInv'
  <1>1. UNCHANGED <<program, pool>>
    BY DEF chain
  <1>2. BuildFits' /\ WrapperFits'
    <2>1. build \in Job
      BY TypeParts DEF PInv
    <2> QED
      BY <1>1, <2>1 DEF PInv, BuildFits, WrapperFits, Job
  <1>3. ServiceOK' /\ CacheOK'
    BY TypeParts DEF PInv, ServiceOK, CacheOK, Distinct
  <1> QED
    BY <1>2, <1>3, BuilderKeeps

LEMMA BuilderProverPInv ==
  ASSUME PInv, BuilderAsks \/ BuilderYields \/ BuilderProves \/ BuilderFails
  PROVE  PInv'
  <1> DEFINE D == DepsOfAll(build.txs)
  <1>1. build \in Job /\ D \in SUBSET Dep /\ ProverOK /\ BuilderInv /\ program \in Program
    BY TypeParts, DepsOfAllType DEF PInv, Job, ChainOK
  <1>2. UNCHANGED <<chain, knownProgram, rotation, firstSeen, wrapper, grace, cached, waiting, producers>>
    BY DEF BuilderAsks, BuilderYields, BuilderProves, BuilderFails
  <1>3. /\ build.at \notin {"idle", "collected"}
        /\ proved' = proved \/ (build.key \in Program /\ proved' = proved \cup {<<D, build.key>>})
        /\ proving' \in {proving, None, Builder}
        /\ \/ build' = Stopped
           \/ build' = [build EXCEPT !.at = "proved", !.proof = program]
           \/ build' = [build EXCEPT !.at = "entered", !.key = program]
           \/ build.at = "entered" /\ build' = [build EXCEPT !.at = "proving"]
           \/ build.at = "proving" /\ build' = [build EXCEPT !.at = "proved", !.proof = build.key]
    <2>1. CASE BuilderAsks
      BY <2>1 DEF BuilderAsks
    <2>2. CASE BuilderYields
      BY <2>2 DEF BuilderYields
    <2>3. CASE BuilderProves
      BY <2>3, <1>1 DEF BuilderProves, BuilderInv
    <2>4. CASE BuilderFails
      BY <2>4 DEF BuilderFails
    <2> QED
      BY <2>1, <2>2, <2>3, <2>4
  <1> HIDE DEF D
  <1>4. ProverOK'
    BY <1>1, <1>2, <1>3 DEF ProverOK
  <1>5. build' \in Job /\ BuilderInv' /\ (build'.at = "idle" \/ build'.txs = build.txs)
    BY <1>1, <1>3, StoppedOK DEF Job, BuilderInv
  <1> QED
    BY <1>2, <1>3, <1>4, <1>5, BuildGoesOn

LEMMA SharePInv ==
  ASSUME PInv, Share
  PROVE  PInv'
  <1> DEFINE D == DepsOfAll(build.txs)
  <1>1. /\ build.at = "proved"
        /\ \/ build' = Stopped /\ cached' = cached
           \/ cached' = Added(D, build.proof) /\ build' = [build EXCEPT !.at = "shared"]
        /\ UNCHANGED <<program, pool, knownProgram, rotation, firstSeen, wrapper, grace, proved, proving, waiting,
                       producers>>
    BY DEF Share, chain, prover
  <1>2. build \in Job /\ D \in SUBSET Dep /\ CacheOK /\ build.proof \in Program
    BY <1>1, TypeParts, DepsOfAllType DEF PInv, Job, BuilderInv
  <1> HIDE DEF D
  <1>3. CacheOK'
    BY <1>1, <1>2, AddedOK DEF CacheOK
  <1>4. build' \in Job /\ BuilderInv' /\ (build'.at = "idle" \/ build'.txs = build.txs)
    BY <1>1, <1>2, StoppedOK DEF Job, BuilderInv
  <1>5. BuildFits' /\ WrapperFits'
    BY <1>1, <1>2, <1>4 DEF PInv, BuildFits, WrapperFits, Job
  <1>6. ServiceOK' /\ ProverOK'
    BY <1>1, TypeParts DEF PInv, ServiceOK, ProverOK, Distinct
  <1> QED
    BY <1>1, <1>3, <1>4, <1>5, <1>6, BuilderKeeps DEF chain

LEMMA ExposePInv ==
  ASSUME PInv, Expose
  PROVE  PInv'
  <1>1. /\ build.at = "shared" /\ build' = Stopped
        /\ \/ wrapper' = [txs |-> build.txs, program |-> build.proof] /\ grace' = TRUE
           \/ UNCHANGED <<wrapper, grace>>
        /\ UNCHANGED <<program, pool, knownProgram, rotation, firstSeen, cached, proved, proving, waiting, producers>>
    BY DEF Expose, chain, prover
  <1>2. build \in Job /\ build.proof \in Program
    BY <1>1, TypeParts DEF PInv, BuilderInv
  <1>3. build' \in Job /\ BuilderInv' /\ BuildFits'
    BY <1>1, StoppedOK DEF BuilderInv, BuildFits
  <1>4. WrapperFits'
    <2>1. BuildFits /\ WrapperFits
      BY DEF PInv
    <2> QED
      BY <1>1, <2>1 DEF BuildFits, WrapperFits
  <1>5. ServiceOK'
    <2>1. [txs |-> build.txs, program |-> build.proof] \in [txs : SUBSET Tx, program : Program]
      BY <1>2 DEF Job
    <2>2. wrapper' \in [txs : SUBSET Tx, program : Program] \cup {None} /\ grace' \in BOOLEAN
      BY <1>1, <2>1, TypeParts DEF PInv, ServiceOK
    <2> QED
      BY <1>1, <2>2, TypeParts DEF PInv, ServiceOK, Distinct
  <1>6. CacheOK' /\ ProverOK'
    BY <1>1, TypeParts DEF PInv, CacheOK, ProverOK
  <1> QED
    BY <1>1, <1>3, <1>4, <1>5, <1>6, BuilderKeeps DEF chain

LEMMA BuildPInv ==
  ASSUME PInv, Build
  PROVE  PInv'
  BY CollectPInv, SelectPInv, LookUpPInv, BuilderProverPInv, SharePInv, ExposePInv DEF Build

-----------------------------------------------------------------------------
(* A step of one producer. *)
LEMMA Going ==
  ASSUME ProducersOK, NEW b \in Producer, NEW r \in Work, Goto(b, r)
  PROVE  /\ block' \in [Producer -> Work] /\ block'[b] = r
         /\ \A c \in Producer : c # b => block'[c] = block[c]
  BY DEF Goto, ProducersOK

(* The count follows a producer that begins to wait, or ends. *)
Waits(w) == IF w.at = "waiting" THEN 1 ELSE 0

LEMMA WaitingStep ==
  ASSUME WaitingCounted, waiting \in Nat, NEW b \in Producer,
         \A c \in Producer : c # b => block'[c] = block[c],
         waiting' = waiting + Waits(block'[b]) - Waits(block[b])
  PROVE  waiting' \in Nat /\ WaitingCounted'
  <1> DEFINE W == {c \in Producer : block[c].at = "waiting"}
             V == {c \in Producer : block'[c].at = "waiting"}
  <1>1. IsFiniteSet(W) /\ Cardinality(W) = waiting
    BY ProducerAssumption, FS_Subset DEF WaitingCounted
  <1>2. V \ {b} = W \ {b} /\ (b \in W <=> block[b].at = "waiting") /\ (b \in V <=> block'[b].at = "waiting")
    OBVIOUS
  <1> HIDE DEF V, W
  <1>3. CASE b \in W /\ b \in V
    <2>1. V = W
      BY <1>2, <1>3
    <2>2. Waits(block'[b]) = Waits(block[b]) /\ Waits(block[b]) \in {0, 1}
      BY <1>2, <1>3 DEF Waits
    <2>3. waiting' = waiting
      BY <2>2
    <2> QED
      BY <1>1, <2>1, <2>3 DEF WaitingCounted, V
  <1>4. CASE b \in W /\ b \notin V
    <2>1. V = W \ {b}
      BY <1>2, <1>4
    <2>2. Cardinality(V) = waiting - 1 /\ Cardinality(V) \in Nat
      BY <1>1, <1>4, <2>1, FS_RemoveElement, FS_CardinalityType
    <2> QED
      BY <1>2, <1>4, <2>2 DEF Waits, WaitingCounted, V
  <1>5. CASE b \notin W /\ b \in V
    <2>1. V = W \cup {b}
      BY <1>2, <1>5
    <2>2. Cardinality(V) = waiting + 1
      BY <1>1, <1>5, <2>1, FS_AddElement
    <2> QED
      BY <1>2, <1>5, <2>2 DEF Waits, WaitingCounted, V
  <1>6. CASE b \notin W /\ b \notin V
    <2>1. V = W
      BY <1>2, <1>6
    <2>2. Waits(block'[b]) = Waits(block[b]) /\ Waits(block[b]) \in {0, 1}
      BY <1>2, <1>6 DEF Waits
    <2>3. waiting' = waiting
      BY <2>2
    <2> QED
      BY <1>1, <2>1, <2>3 DEF WaitingCounted, V
  <1> QED
    BY <1>3, <1>4, <1>5, <1>6

LEMMA ProducerKeeps ==
  ASSUME PInv, NEW b \in Producer, NEW r \in Work, Goto(b, r), Fresh(r),
         UNCHANGED <<chain, service>>, CacheOK',
         proved' \subseteq (SUBSET Dep) \X Program, proving' \in Producer \cup {Builder, None},
         waiting' = waiting + Waits(r) - Waits(block[b]),
         blockProof' \in [Producer -> Result], BlockProofFresh'
  PROVE  PInv'
  <1>1. UNCHANGED <<program, pool, service>>
    BY DEF chain
  <1>2. ProducersOK /\ waiting \in Nat /\ WaitingCounted /\ ProducerInv
    BY TypeParts DEF PInv, ProverOK, ProducersSound
  <1>3. /\ block' \in [Producer -> Work] /\ block'[b] = r
        /\ \A c \in Producer : c # b => block'[c] = block[c]
    BY <1>2, Going
  <1>4. waiting' \in Nat /\ WaitingCounted'
    BY <1>2, <1>3, WaitingStep
  <1>5. ProducerInv'
    BY <1>1, <1>2, <1>3 DEF ProducerInv, Fresh
  <1>6. ChainOK' /\ ServiceOK' /\ build' \in Job /\ BuilderInv' /\ BuildFits' /\ WrapperFits'
    BY <1>1, BuilderUntouched
  <1>7. ProverOK' /\ ProducersOK'
    BY <1>3, <1>4 DEF ProverOK, ProducersOK
  <1>8. TypeOK'
    BY <1>6, <1>7, TypePartsNext
  <1> QED
    BY <1>4, <1>5, <1>6, <1>8 DEF PInv, ProducersSound

(* A producer that publishes nothing yet. *)
LEMMA ProducerGoesOn ==
  ASSUME PInv, NEW b \in Producer, NEW r \in Work, Goto(b, r), Fresh(r),
         UNCHANGED <<chain, service, blockProof>>, CacheOK',
         proved' \subseteq (SUBSET Dep) \X Program, proving' \in Producer \cup {Builder, None},
         waiting' = waiting + Waits(r) - Waits(block[b])
  PROVE  PInv'
  <1>1. blockProof' \in [Producer -> Result] /\ BlockProofFresh'
    BY TypeParts DEF PInv, ProducersOK, ProducersSound, BlockProofFresh
  <1> QED
    BY <1>1, ProducerKeeps

LEMMA RestingOK == Resting \in Work /\ Resting.at = "idle" /\ Fresh(Resting) /\ Waits(Resting) = 0
  BY DEF Resting, Work, Fresh, Waits

LEMMA FinishPInv ==
  ASSUME PInv, NEW b \in Producer, NEW p \in Program, Finish(b, p),
         block[b].at \in {"found", "proved"}, block[b].key <= p,
         UNCHANGED <<chain, service, prover>>, CacheOK'
  PROVE  PInv'
  <1>1. Goto(b, Resting) /\ UNCHANGED <<proved, proving, waiting>>
    BY DEF Finish, prover
  <1>2. ProverOK /\ ProducersOK /\ BlockProofFresh
    BY TypeParts DEF PInv, ProducersSound
  <1>3. waiting' = waiting + Waits(Resting) - Waits(block[b])
    BY <1>1, <1>2, RestingOK DEF Waits, ProverOK
  <1> DEFINE done == [block[b] EXCEPT !.at = "idle", !.proof = p]
  <1>4. done \in Result /\ done.key = block[b].key /\ done.proof = p
    BY <1>2 DEF ProducersOK, Work, Result
  <1>5. blockProof' = blockProof \/ blockProof' = [blockProof EXCEPT ![b] = done]
    BY DEF Finish
  <1> HIDE DEF done
  <1>6. blockProof' \in [Producer -> Result] /\ BlockProofFresh'
    BY <1>2, <1>4, <1>5 DEF ProducersOK, BlockProofFresh
  <1>7. proved' \subseteq (SUBSET Dep) \X Program /\ proving' \in Producer \cup {Builder, None}
    BY <1>1, <1>2 DEF ProverOK
  <1> QED
    BY <1>1, <1>3, <1>6, <1>7, RestingOK, ProducerKeeps

(* What is known of a producer before its step. *)
LEMMA ProducerFacts ==
  ASSUME PInv, NEW b \in Producer
  PROVE  /\ block[b] \in Work /\ Fresh(block[b]) /\ block[b].deps \in SUBSET Dep
         /\ program \in Program /\ CacheOK /\ waiting \in Nat
         /\ proved \subseteq (SUBSET Dep) \X Program /\ proving \in Producer \cup {Builder, None}
  <1>1. block[b] \in Work
    BY TypeParts DEF PInv, ProducersOK
  <1> QED
    BY <1>1, TypeParts DEF PInv, ProverOK, ProducerInv, ChainOK, Work

LEMMA ProducePInv ==
  ASSUME PInv, NEW b \in Producer, NEW S \in SUBSET Tx, Produce(b, S)
  PROVE  PInv' \/ UNCHANGED vars
  <1>1. CASE UNCHANGED block
    BY <1>1 DEF Produce, vars, producers
  <1>2. CASE ~UNCHANGED block
    <2> DEFINE r == [Resting EXCEPT !.at = "started", !.deps = DepsOfAll(S), !.key = program]
    <2>1. /\ Goto(b, r) /\ block[b].at = "idle"
          /\ UNCHANGED <<chain, service, cached, proved, proving, waiting, blockProof>>
      BY <1>2 DEF Produce, prover
    <2>2. r \in Work /\ Fresh(r) /\ Waits(r) = 0 /\ Waits(block[b]) = 0
      BY <2>1, ProducerFacts, DepsOfAllType, ProgramsOrdered DEF Resting, Work, Fresh, Waits
    <2> HIDE DEF r
    <2>3. /\ CacheOK' /\ waiting' = waiting + Waits(r) - Waits(block[b])
          /\ proved' \subseteq (SUBSET Dep) \X Program /\ proving' \in Producer \cup {Builder, None}
      BY <2>1, <2>2, ProducerFacts DEF CacheOK
    <2> QED
      BY <2>1, <2>2, <2>3, ProducerGoesOn
  <1> QED
    BY <1>1, <1>2

LEMMA BlockLooksUpPInv ==
  ASSUME PInv, NEW b \in Producer, BlockLooksUp(b)
  PROVE  PInv'
  <1>1. PICK D : D = block[b].deps
    OBVIOUS
  <1> DEFINE r == [block[b] EXCEPT !.at = IF Found(D) # None THEN "found" ELSE "missing", !.proof = Found(D)]
  <1>2. /\ block[b].at = "started" /\ cached' = Touched(D) /\ Goto(b, r)
        /\ UNCHANGED <<chain, service, proved, proving, waiting, blockProof>>
    BY <1>1 DEF BlockLooksUp, prover
  <1>3. Found(D) \in Program \cup {None} /\ Touched(D) \in Seq(Entry) /\ Len(Touched(D)) <= MaxCached
    BY <1>1, ProducerFacts, FoundType, TouchedOK
  <1>4. r \in Work /\ Fresh(r) /\ Waits(r) = 0 /\ Waits(block[b]) = 0
    BY <1>2, <1>3, ProducerFacts DEF Work, Fresh, Waits
  <1> HIDE DEF r
  <1>5. /\ CacheOK' /\ waiting' = waiting + Waits(r) - Waits(block[b])
        /\ proved' \subseteq (SUBSET Dep) \X Program /\ proving' \in Producer \cup {Builder, None}
    BY <1>2, <1>3, <1>4, ProducerFacts DEF CacheOK
  <1> QED
    BY <1>2, <1>4, <1>5, ProducerGoesOn

LEMMA BlockVerifiesPInv ==
  ASSUME PInv, NEW b \in Producer, BlockVerifies(b)
  PROVE  PInv'
  <1>1. /\ block[b].at = "found" /\ UNCHANGED <<chain, service, prover, proved, proving, waiting>>
        /\ block[b].key \in Program /\ block[b].key <= program /\ CacheOK /\ program \in Program
    BY ProducerFacts DEF BlockVerifies, Fresh, prover
  <1>2. CASE Finish(b, program) /\ UNCHANGED cached
    <2>1. CacheOK'
      BY <1>1, <1>2 DEF CacheOK
    <2> QED
      BY <1>1, <1>2, <2>1, FinishPInv
  <1>3. CASE ~(Finish(b, program) /\ UNCHANGED cached)
    <2> DEFINE r == [block[b] EXCEPT !.at = "missing", !.proof = None]
    <2>1. PICK out : cached' = Without(cached, out)
      BY <1>3 DEF BlockVerifies
    <2>2. Goto(b, r) /\ UNCHANGED blockProof
      BY <1>3 DEF BlockVerifies
    <2>3. CacheOK'
      <3>1. Without(cached, out) \in Seq(Entry) /\ Len(Without(cached, out)) <= Len(cached)
        BY <1>1, WithoutSome DEF CacheOK
      <3>2. Len(cached) \in Nat /\ Len(Without(cached, out)) \in Nat
        BY <1>1, <3>1 DEF CacheOK
      <3> QED
        BY <1>1, <2>1, <3>1, <3>2, CacheAssumption DEF CacheOK
    <2>4. r \in Work /\ Fresh(r) /\ Waits(r) = 0 /\ Waits(block[b]) = 0
      BY <1>1, ProducerFacts DEF Work, Fresh, Waits
    <2> HIDE DEF r
    <2>5. /\ waiting' = waiting + Waits(r) - Waits(block[b])
          /\ proved' \subseteq (SUBSET Dep) \X Program /\ proving' \in Producer \cup {Builder, None}
      BY <1>1, <2>4, ProducerFacts
    <2> QED
      BY <1>1, <2>2, <2>3, <2>4, <2>5, ProducerGoesOn
  <1> QED
    BY <1>2, <1>3

LEMMA BlockAsksPInv ==
  ASSUME PInv, NEW b \in Producer, BlockAsks(b)
  PROVE  PInv'
  <1>1. /\ block[b].at = "missing" /\ UNCHANGED <<chain, service, cached, proved, proving, blockProof>>
        /\ \/ Goto(b, [block[b] EXCEPT !.at = "proved", !.proof = program]) /\ waiting' = waiting
           \/ Goto(b, [block[b] EXCEPT !.at = "waiting", !.proof = program]) /\ waiting' = waiting + 1
    BY DEF BlockAsks
  <1>2. PICK r : /\ Goto(b, r)
                 /\ \/ r = [block[b] EXCEPT !.at = "proved", !.proof = program] /\ waiting' = waiting
                    \/ r = [block[b] EXCEPT !.at = "waiting", !.proof = program] /\ waiting' = waiting + 1
    BY <1>1
  <1>5. block[b] \in Work /\ Fresh(block[b]) /\ program \in Program /\ waiting \in Nat
    BY ProducerFacts
  <1>3. r \in Work /\ Fresh(r) /\ waiting' = waiting + Waits(r) - Waits(block[b])
    <2>1. CASE r = [block[b] EXCEPT !.at = "proved", !.proof = program] /\ waiting' = waiting
      <3>1. r \in Work /\ r.at = "proved" /\ r.key = block[b].key /\ r.proof = program
        BY <1>5, <2>1 DEF Work
      <3>2. Fresh(r)
        BY <1>1, <1>5, <3>1 DEF Fresh
      <3> QED
        BY <1>1, <1>5, <2>1, <3>1, <3>2 DEF Waits
    <2>2. CASE r = [block[b] EXCEPT !.at = "waiting", !.proof = program] /\ waiting' = waiting + 1
      <3>1. r \in Work /\ r.at = "waiting" /\ r.key = block[b].key /\ r.proof = program
        BY <1>5, <2>2 DEF Work
      <3>2. Fresh(r)
        BY <1>1, <1>5, <3>1 DEF Fresh
      <3> QED
        BY <1>1, <1>5, <2>2, <3>1, <3>2 DEF Waits
    <2> QED
      BY <1>2, <2>1, <2>2
  <1>4. CacheOK' /\ proved' \subseteq (SUBSET Dep) \X Program /\ proving' \in Producer \cup {Builder, None}
    BY <1>1, ProducerFacts DEF CacheOK
  <1> QED
    BY <1>1, <1>2, <1>3, <1>4, ProducerGoesOn

LEMMA BlockEntersPInv ==
  ASSUME PInv, NEW b \in Producer, BlockEnters(b) \/ BlockCancelled(b)
  PROVE  PInv'
  <1>1. /\ block[b].at = "waiting" /\ waiting' = waiting - 1 /\ proving' \in {proving, b}
        /\ UNCHANGED <<chain, service, cached, proved, blockProof>>
    BY DEF BlockEnters, BlockCancelled
  <1>2. PICK r : /\ Goto(b, r)
                 /\ \/ r = [block[b] EXCEPT !.at = "proved"]
                    \/ r = [block[b] EXCEPT !.at = "proving"]
                    \/ r = Resting
    BY DEF BlockEnters, BlockCancelled
  <1>3. r \in Work /\ Fresh(r) /\ waiting' = waiting + Waits(r) - Waits(block[b])
    BY <1>1, <1>2, ProducerFacts, RestingOK DEF Work, Fresh, Waits
  <1>4. CacheOK' /\ proved' \subseteq (SUBSET Dep) \X Program /\ proving' \in Producer \cup {Builder, None}
    BY <1>1, ProducerFacts DEF CacheOK
  <1> QED
    BY <1>1, <1>2, <1>3, <1>4, ProducerGoesOn

LEMMA BlockProvesPInv ==
  ASSUME PInv, NEW b \in Producer, BlockProves(b)
  PROVE  PInv'
  <1>1. /\ block[b].at = "proving" /\ proving' = None
        /\ UNCHANGED <<chain, service, cached, waiting, blockProof>>
        /\ proved' = proved \/ proved' = proved \cup {<<block[b].deps, block[b].proof>>}
    BY DEF BlockProves
  <1>2. PICK r : Goto(b, r) /\ (r = [block[b] EXCEPT !.at = "proved"] \/ r = Resting)
    BY DEF BlockProves
  <1>3. r \in Work /\ Fresh(r) /\ Waits(r) = 0 /\ Waits(block[b]) = 0 /\ block[b].proof \in Program
    BY <1>1, <1>2, ProducerFacts, RestingOK DEF Work, Fresh, Waits
  <1>4. /\ CacheOK' /\ proved' \subseteq (SUBSET Dep) \X Program /\ proving' \in Producer \cup {Builder, None}
        /\ waiting' = waiting + Waits(r) - Waits(block[b])
    BY <1>1, <1>3, ProducerFacts DEF CacheOK
  <1> QED
    BY <1>1, <1>2, <1>3, <1>4, ProducerGoesOn

LEMMA BlockPublishesPInv ==
  ASSUME PInv, NEW b \in Producer, BlockPublishes(b)
  PROVE  PInv'
  <1>1. PICK D, p : D = block[b].deps /\ p = block[b].proof
    OBVIOUS
  <1>2. /\ block[b].at = "proved" /\ cached' = Added(D, p) /\ Finish(b, p) /\ UNCHANGED <<chain, service, prover>>
    BY <1>1 DEF BlockPublishes
  <1>3. D \in SUBSET Dep /\ p \in Program /\ block[b].key <= p
    BY <1>1, <1>2, ProducerFacts DEF Fresh
  <1>4. CacheOK'
    BY <1>2, <1>3, ProducerFacts, AddedOK DEF CacheOK
  <1> QED
    BY <1>2, <1>3, <1>4, FinishPInv
-----------------------------------------------------------------------------
LEMMA StutterPInv ==
  ASSUME PInv, UNCHANGED vars
  PROVE  PInv'
  <1>1. UNCHANGED <<program, pool, service, cached, proved, proving, waiting, block, blockProof>>
    BY DEF vars, chain, prover, producers
  <1>2. ChainOK' /\ ServiceOK' /\ build' \in Job /\ BuilderInv' /\ BuildFits' /\ WrapperFits'
    BY <1>1, BuilderUntouched
  <1>3. ProducersOK' /\ ProducerInv' /\ ProducersSound'
    BY <1>1, ProducersUntouched
  <1>4. CacheOK' /\ ProverOK'
    BY <1>1, TypeParts DEF PInv, CacheOK, ProverOK
  <1>5. TypeOK'
    BY <1>2, <1>3, <1>4, TypePartsNext
  <1> QED
    BY <1>2, <1>3, <1>5 DEF PInv

LEMMA BlockPInv ==
  ASSUME PInv, NEW b \in Producer, Block(b)
  PROVE  PInv'
  BY ProducePInv, BlockLooksUpPInv, BlockVerifiesPInv, BlockAsksPInv, BlockEntersPInv, BlockProvesPInv,
     BlockPublishesPInv, StutterPInv DEF Block

LEMMA NextPInv == PInv /\ [Next]_vars => PInv'
  <1> SUFFICES ASSUME PInv, [Next]_vars
               PROVE  PInv'
    OBVIOUS
  <1>1. CASE Activate \/ GraceEnds \/ \E t \in Tx : Arrive(t) \/ Leave(t)
    BY <1>1, EnvironmentPInv
  <1>2. CASE Build
    BY <1>2, BuildPInv
  <1>3. CASE \E b \in Producer : Block(b)
    BY <1>3, BlockPInv
  <1>4. CASE UNCHANGED vars
    BY <1>4, StutterPInv
  <1> QED
    BY <1>1, <1>2, <1>3, <1>4 DEF Next

LEMMA SpecPInv == Spec => []PInv
  <1>1. Init => PInv
    BY InitPInv
  <1>2. PInv /\ [Next]_vars => PInv'
    BY NextPInv
  <1> QED
    BY <1>1, <1>2, PTL DEF Spec

(* Nothing the builder and the producers share leaves its type: the rotation stays among
   the transactions, nothing arrives twice in the order of arrival, and the cache of
   generated proofs, which both touch, extend and clear, never exceeds its limit. *)
THEOREM ProductionTyped == Spec => []TypeOK
  <1>1. PInv => TypeOK
    BY DEF PInv
  <1> QED
    BY <1>1, SpecPInv, PTL

(* For any number of producers, in any order of their steps, cancellations and failures:
   _producersWaiting, which keeps the builder off the prover, counts who waits, and no
   block publishes a proof of a program older than its proposal. *)
THEOREM ProducersAreSound == Spec => []ProducersSound
  <1>1. PInv => ProducersSound
    BY DEF PInv
  <1> QED
    BY <1>1, SpecPInv, PTL

(* Whatever the candidates, their claims and the place the rotation begins at, the
   wrapper on offer has no more claims than the limit of its program, also when the
   head activates the other program while it is built. *)
THEOREM WrapperIsWithinLimit == Spec => []WrapperFits
  <1>1. PInv => WrapperFits
    BY DEF PInv
  <1> QED
    BY <1>1, SpecPInv, PTL
=============================================================================
