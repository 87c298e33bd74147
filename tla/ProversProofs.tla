---------------------------- MODULE ProversProofs ----------------------------
(* Theorems about what proves: the tree of recursive proofs, for every number of
   claims, every row of children and every limit; the isolated process, for any
   number of callers and of processes; the native library, for any number of
   threads. *)
EXTENDS AggregateTree, Provers, SubsequenceProofs, SequenceTheorems, TLAPS

-----------------------------------------------------------------------------
(* Claims are finitely many: a smaller set of claims is within every limit. *)
LEMMA ClaimsFinite == \A S \in SUBSET Claim : IsFiniteSet(S) /\ Cardinality(S) \in Nat
  <1>1. IsFiniteSet(Claim)
    BY TreeAssumption, FS_Union DEF Claim
  <1> QED
    BY <1>1, FS_Subset, FS_CardinalityType

LEMMA SmallerChecked ==
  ASSUME NEW S \in SUBSET Claim, NEW T \in SUBSET S, CheckDependencies(S)
  PROVE  CheckDependencies(T)
  <1>1. IsFiniteSet(S) /\ IsFiniteSet(S \cap Generic)
    BY ClaimsFinite
  <1>2. Cardinality(T) <= Cardinality(S)
    BY <1>1, FS_Subset
  <1>3. T \cap Generic \in SUBSET (S \cap Generic)
    OBVIOUS
  <1>4. Cardinality(T \cap Generic) <= Cardinality(S \cap Generic)
    BY <1>1, <1>3, FS_Subset
  <1>5. T \in SUBSET Claim /\ T \cap Generic \in SUBSET Claim /\ S \cap Generic \in SUBSET Claim
    OBVIOUS
  <1>6. /\ Cardinality(T) \in Nat /\ Cardinality(S) \in Nat
        /\ Cardinality(T \cap Generic) \in Nat /\ Cardinality(S \cap Generic) \in Nat
    BY <1>5, ClaimsFinite
  <1> QED
    BY <1>2, <1>4, <1>6, TreeAssumption DEF CheckDependencies

LEMMA NothingChecked == CheckDependencies({})
  <1>1. {} \cap Generic = {}
    OBVIOUS
  <1> QED
    BY <1>1, FS_EmptySet, TreeAssumption DEF CheckDependencies

(* A claim alone is one STARK at most. *)
LEMMA OneGeneric == \A g : Cardinality({g}) = 1
  BY FS_Singleton
-----------------------------------------------------------------------------
(* The children that are kept are those that prove something asked for. *)
LEMMA TouchingRow ==
  ASSUME NEW row \in Seq(SUBSET Claim), NEW wanted
  PROVE  /\ Touching(row, wanted) \in Seq(SUBSET Claim)
         /\ \A k \in DOMAIN Touching(row, wanted) :
              /\ Touching(row, wanted)[k] \cap wanted # {}
              /\ \E i \in DOMAIN row : Touching(row, wanted)[k] = row[i]
         /\ \A i \in DOMAIN row : row[i] \cap wanted # {} =>
              \E k \in DOMAIN Touching(row, wanted) : Touching(row, wanted)[k] = row[i]
  <1> DEFINE S == Hits(row, wanted)
             n == Cardinality(S)
             kept == Touching(row, wanted)
  <1>1. S \in SUBSET (1..Len(row)) /\ IsFiniteSet(1..Len(row))
    BY FS_Interval DEF Hits
  <1>2. S \in SUBSET Nat /\ IsFiniteSet(S)
    BY <1>1, FS_Subset
  <1>3. n \in Nat
    BY <1>2, FS_CardinalityType
  <1>4. /\ \A k \in 1..n : Nth(S, k) \in S
        /\ \A i \in S : \E k \in 1..n : Nth(S, k) = i
    BY <1>2, NthOnto
  <1>5. kept = [k \in 1..n |-> row[Nth(S, k)]]
    BY DEF Touching, PartAt
  <1>6. \A i \in S : i \in DOMAIN row /\ row[i] \cap wanted # {} /\ row[i] \in SUBSET Claim
    BY DEF Hits
  <1>7. \A i \in DOMAIN row : row[i] \cap wanted # {} => i \in S
    BY DEF Hits
  <1> HIDE DEF S, n, kept
  <1>8. \A k \in 1..n : kept[k] = row[Nth(S, k)] /\ kept[k] \in SUBSET Claim
    BY <1>4, <1>5, <1>6
  <1>9. DOMAIN kept = 1..n /\ kept \in Seq(SUBSET Claim)
    BY <1>3, <1>5, <1>8
  <1>10. \A k \in DOMAIN kept : kept[k] \cap wanted # {} /\ \E i \in DOMAIN row : kept[k] = row[i]
    BY <1>4, <1>6, <1>8, <1>9
  <1>11. \A i \in DOMAIN row : row[i] \cap wanted # {} => \E k \in DOMAIN kept : kept[k] = row[i]
    BY <1>4, <1>7, <1>8, <1>9
  <1> QED
    BY <1>9, <1>10, <1>11 DEF kept

(* What a row proves, claim by claim. *)
LEMMA ProvenBy == \A row : \A c : c \in Proven(row) <=> \E i \in DOMAIN row : c \in row[i]
  BY DEF Proven, Elems

LEMMA ProvenAppend ==
  ASSUME NEW row \in Seq(SUBSET Claim), NEW proof \in SUBSET Claim
  PROVE  /\ Append(row, proof) \in Seq(SUBSET Claim)
         /\ Proven(Append(row, proof)) = Proven(row) \cup proof
         /\ \A i \in DOMAIN Append(row, proof) :
              Append(row, proof)[i] = proof \/ (i \in DOMAIN row /\ Append(row, proof)[i] = row[i])
  <1> DEFINE longer == Append(row, proof)
  <1>1. /\ longer \in Seq(SUBSET Claim) /\ Len(longer) = Len(row) + 1
        /\ longer[Len(row) + 1] = proof
        /\ \A i \in 1..Len(row) : longer[i] = row[i]
    OBVIOUS
  <1>2. DOMAIN longer = 1..(Len(row) + 1) /\ DOMAIN row = 1..Len(row) /\ Len(row) \in Nat
    BY <1>1
  <1> HIDE DEF longer
  <1>3. \A i \in DOMAIN longer : i = Len(row) + 1 \/ i \in DOMAIN row
    BY <1>2
  <1>4. Len(row) + 1 \in DOMAIN longer /\ \A i \in DOMAIN row : i \in DOMAIN longer
    BY <1>2
  <1>5. ASSUME NEW c
        PROVE  c \in Proven(longer) <=> c \in Proven(row) \/ c \in proof
    BY <1>1, <1>2, <1>3, <1>4, ProvenBy
  <1>6. Proven(longer) = Proven(row) \cup proof
    BY <1>5
  <1> QED
    BY <1>1, <1>2, <1>3, <1>6 DEF longer

(* A row is what is taken off it and what is left. *)
LEMMA RowSplit ==
  ASSUME nodes \in Seq(SUBSET Claim), nodes # <<>>
  PROVE  /\ Batch \in Seq(SUBSET Claim) /\ Rest \in Seq(SUBSET Claim)
         /\ Len(Batch) \in 1..FanIn /\ Batch[1] = nodes[1]
         /\ \A i \in DOMAIN Batch : i \in DOMAIN nodes /\ Batch[i] = nodes[i]
         /\ \A i \in DOMAIN Rest : \E j \in DOMAIN nodes : Rest[i] = nodes[j]
         /\ Proven(nodes) \subseteq Proven(Batch) \cup Proven(Rest)
         /\ Proven(Batch) \subseteq Proven(nodes)
  <1> DEFINE b == Len(Batch)
  <1>1. Len(nodes) \in Nat \ {0} /\ DOMAIN nodes = 1..Len(nodes)
    OBVIOUS
  <1>2. /\ Batch \in Seq(SUBSET Claim) /\ b \in 1..FanIn /\ b <= Len(nodes)
        /\ \A i \in 1..b : Batch[i] = nodes[i]
    <2>1. CASE Len(nodes) < FanIn
      BY <1>1, <2>1 DEF Batch, FanIn
    <2>2. CASE ~(Len(nodes) < FanIn)
      BY <1>1, <2>2 DEF Batch, FanIn
    <2> QED
      BY <2>1, <2>2
  <1>3. DOMAIN Batch = 1..b
    BY <1>2
  <1>4. /\ Rest \in Seq(SUBSET Claim) /\ DOMAIN Rest = 1..Len(Rest)
        /\ Len(Rest) = Len(nodes) - b
        /\ \A i \in 1..Len(Rest) : Rest[i] = nodes[b + i]
    BY <1>1, <1>2 DEF Rest, FanIn
  <1> HIDE DEF b
  <1>5. \A i \in DOMAIN Batch : i \in DOMAIN nodes /\ Batch[i] = nodes[i]
    BY <1>1, <1>2, <1>3 DEF FanIn
  <1>6. \A i \in DOMAIN Rest : b + i \in DOMAIN nodes /\ Rest[i] = nodes[b + i]
    BY <1>1, <1>2, <1>4 DEF FanIn
  <1>7. \A j \in DOMAIN nodes : j \in DOMAIN Batch \/ \E i \in DOMAIN Rest : j = b + i
    <2> SUFFICES ASSUME NEW j \in DOMAIN nodes, j \notin DOMAIN Batch
                 PROVE  \E i \in DOMAIN Rest : j = b + i
      OBVIOUS
    <2>1. j - b \in 1..Len(Rest) /\ j = b + (j - b)
      BY <1>1, <1>2, <1>3, <1>4 DEF FanIn
    <2> QED
      BY <2>1, <1>4
  <1>8. ASSUME NEW c, c \in Proven(nodes)
        PROVE  c \in Proven(Batch) \/ c \in Proven(Rest)
    <2>1. PICK j \in DOMAIN nodes : c \in nodes[j]
      BY <1>8, ProvenBy
    <2>2. CASE j \in DOMAIN Batch
      BY <2>1, <2>2, <1>5, ProvenBy
    <2>3. CASE \E i \in DOMAIN Rest : j = b + i
      BY <2>1, <2>3, <1>6, ProvenBy
    <2> QED
      BY <1>7, <2>2, <2>3
  <1>9. \A c : c \in Proven(Batch) => c \in Proven(nodes)
    BY <1>5, ProvenBy
  <1>10. 1 \in DOMAIN Batch
    BY <1>2, <1>3
  <1>11. b = Len(Batch)
    BY DEF b
  <1> QED
    BY <1>2, <1>4, <1>5, <1>6, <1>8, <1>9, <1>10, <1>11
-----------------------------------------------------------------------------
(* While a request is worked on, what still needs a leaf was asked for, every proof
   of the row is within the limits and proves something that was asked for. *)
Working ==
  /\ raw \cup generic \subseteq desired
  /\ CheckDependencies(desired)
  /\ \A i \in DOMAIN nodes : CheckDependencies(nodes[i]) /\ nodes[i] \cap desired # {}
  /\ desired \subseteq raw \cup generic \cup Proven(nodes) \cup Proven(next)

TreeInv ==
  /\ TreeTypeOK
  /\ CallsPrepared
  /\ LevelsNarrow
  /\ LeavesNew
  /\ step \in {"idle", "leaves"} => next = <<>>
  /\ step \in {"leaves", "joining"} => Working
  /\ step = "joining" => raw = {} /\ generic = {}

(* A call without witnesses on proofs of the row that selects what was asked for. *)
LEMMA JoinPrepared ==
  ASSUME NEW inputs \in Seq(SUBSET Claim), NEW selected \in SUBSET desired,
         desired \in SUBSET Claim, CheckDependencies(desired),
         Len(inputs) <= FanIn, \A i \in DOMAIN inputs : CheckDependencies(inputs[i]),
         selected \subseteq Proven(inputs),
         AggregateMixed(inputs, {}, {}, selected)
  PROVE  CallsPrepared'
  <1> DEFINE made == [inputs |-> inputs, raws |-> {}, generics |-> {}, selected |-> selected]
  <1>1. calls' = made
    BY DEF AggregateMixed
  <1>2. CheckDependencies(selected)
    BY SmallerChecked
  <1>3. Cardinality({}) <= MaxRaw /\ Cardinality({}) <= 1
    BY FS_EmptySet, TreeAssumption
  <1>4. Prepared(made)
    BY <1>2, <1>3 DEF Prepared
  <1> QED
    BY <1>1, <1>4 DEF CallsPrepared

(* A leaf of claims that were asked for, signatures or one STARK. *)
LEMMA LeafPrepared ==
  ASSUME NEW raws \in SUBSET Raw, NEW generics \in SUBSET Generic,
         raws \cup generics \subseteq desired,
         desired \in SUBSET Claim, CheckDependencies(desired),
         Cardinality(raws) <= MaxRaw, Cardinality(generics) <= 1,
         raws # {} => generics = {},
         AggregateMixed(<<>>, raws, generics, raws \cup generics)
  PROVE  CallsPrepared'
  <1> DEFINE made == [inputs |-> <<>>, raws |-> raws, generics |-> generics,
                      selected |-> raws \cup generics]
  <1>1. calls' = made
    BY DEF AggregateMixed
  <1>2. CheckDependencies(raws \cup generics)
    BY SmallerChecked
  <1>3. Len(<<>>) <= FanIn /\ DOMAIN <<>> = {}
    BY DEF FanIn
  <1>4. Prepared(made)
    BY <1>2, <1>3 DEF Prepared
  <1> QED
    BY <1>1, <1>4 DEF CallsPrepared

LEMMA InitInv == TreeInit => TreeInv
  <1> SUFFICES ASSUME TreeInit PROVE TreeInv
    OBVIOUS
  <1>1. TreeTypeOK /\ LevelsNarrow /\ LeavesNew
    BY DEF TreeInit, TreeTypeOK, LevelsNarrow, LeavesNew
  <1>2. CallsPrepared
    <2>1. Cardinality({}) <= MaxRaw /\ Cardinality({}) <= 1
      BY FS_EmptySet, TreeAssumption
    <2> QED
      BY <2>1, NothingChecked DEF TreeInit, CallsPrepared, Prepared, NoCall, FanIn
  <1> QED
    BY <1>1, <1>2 DEF TreeInit, TreeInv

LEMMA StepReceive ==
  ASSUME TreeInv, NEW rs \in SUBSET Raw, NEW gs \in SUBSET Generic, NEW cs \in ChildRows,
         NEW discards \in SUBSET Claim, ReceiveRequest(rs, gs, cs, discards)
  PROVE  TreeInv'
  <1> DEFINE wanted == Desired(rs \cup gs, cs, discards)
             children == Touching(cs, wanted)
  <1>1. cs \in Seq(SUBSET Claim)
    BY TreeAssumption
  <1>2. Proven(cs) \in SUBSET Claim
    BY <1>1 DEF Proven, Elems
  <1>3. wanted \in SUBSET Claim /\ wanted \subseteq rs \cup gs \cup Proven(cs)
    BY <1>2 DEF Desired, Claim
  <1>4. /\ step = "idle" /\ CheckDependencies(wanted) /\ desired' = wanted
        /\ \A i \in DOMAIN cs : CheckDependencies(cs[i])
        /\ raw' = rs \cap (wanted \ Proven(children)) /\ generic' = gs \cap (wanted \ Proven(children))
        /\ next' = next /\ calls' = calls
        /\ \/ step' = "answered" /\ nodes' = <<>>
           \/ step' = "answered" /\ nodes' = <<wanted>>
           \/ step' \in {"failed", "leaves"} /\ nodes' = children
    BY DEF ReceiveRequest, Uncovered
  <1> HIDE DEF wanted
  <1>5. /\ children \in Seq(SUBSET Claim)
        /\ \A k \in DOMAIN children : children[k] \cap wanted # {} /\ \E i \in DOMAIN cs : children[k] = cs[i]
        /\ \A i \in DOMAIN cs : cs[i] \cap wanted # {} => \E k \in DOMAIN children : children[k] = cs[i]
    BY <1>1, TouchingRow
  <1> HIDE DEF children
  <1>6. next = <<>>
    BY <1>4 DEF TreeInv
  <1>7. TreeTypeOK'
    <2>1. nodes' \in Seq(SUBSET Claim)
      <3>1. <<>> \in Seq(SUBSET Claim) /\ \A S \in SUBSET Claim : <<S>> \in Seq(SUBSET Claim)
        OBVIOUS
      <3>2. CASE nodes' = <<>>
        BY <3>1, <3>2
      <3>3. CASE nodes' = <<wanted>>
        BY <3>1, <3>3, <1>3
      <3>4. CASE nodes' = children
        BY <3>4, <1>5
      <3> QED
        BY <3>2, <3>3, <3>4, <1>4
    <2>2. step' \in {"answered", "failed", "leaves"}
      BY <1>4
    <2> QED
      BY <1>3, <1>4, <1>6, <2>1, <2>2 DEF TreeTypeOK
  <1>8. CallsPrepared'
    BY <1>4 DEF TreeInv, CallsPrepared
  <1>9. LevelsNarrow'
    BY <1>4, <1>6 DEF LevelsNarrow
  <1>10. LeavesNew'
    BY <1>4 DEF LeavesNew
  <1>11. step' \in {"leaves", "joining"} => Working'
    <2> SUFFICES ASSUME step' \in {"leaves", "joining"} PROVE Working'
      OBVIOUS
    <2>1. nodes' = children
      BY <1>4
    <2>2. \A i \in DOMAIN children : CheckDependencies(children[i]) /\ children[i] \cap wanted # {}
      BY <1>4, <1>5
    <2>3. \A c \in wanted : c \in Proven(cs) => c \in Proven(children)
      BY <1>5, ProvenBy
    <2>4. wanted \subseteq raw' \cup generic' \cup Proven(children)
      BY <1>3, <1>4, <2>3
    <2>5. raw' \cup generic' \subseteq desired' /\ CheckDependencies(desired)'
      BY <1>4 DEF CheckDependencies
    <2>6. \A i \in DOMAIN nodes' : CheckDependencies(nodes'[i]) /\ nodes'[i] \cap desired' # {}
      BY <1>4, <2>1, <2>2
    <2>7. desired' \subseteq raw' \cup generic' \cup Proven(nodes') \cup Proven(next')
      BY <1>4, <2>1, <2>4
    <2> QED
      BY <2>5, <2>6, <2>7 DEF Working, CheckDependencies, Proven, Elems
  <1> QED
    BY <1>4, <1>6, <1>7, <1>8, <1>9, <1>10, <1>11 DEF TreeInv

(* A leaf that is made takes its claims off what still needs one. *)
LEMMA LeafKeeps ==
  ASSUME TreeInv, step = "leaves", NEW leaf \in SUBSET Claim,
         leaf # {}, leaf \subseteq raw \cup generic,
         nodes' = Append(nodes, leaf),
         raw' = raw \ leaf, generic' = generic \ leaf,
         UNCHANGED <<step, desired, next>>, CallsPrepared'
  PROVE  TreeInv'
  <1>1. /\ TreeTypeOK /\ Working /\ next = <<>> /\ LevelsNarrow /\ LeavesNew
        /\ nodes \in Seq(SUBSET Claim) /\ desired \in SUBSET Claim
    BY DEF TreeInv, TreeTypeOK
  <1>2. /\ nodes' \in Seq(SUBSET Claim) /\ Proven(nodes') = Proven(nodes) \cup leaf
        /\ \A i \in DOMAIN nodes' : nodes'[i] = leaf \/ (i \in DOMAIN nodes /\ nodes'[i] = nodes[i])
    BY <1>1, ProvenAppend
  <1>3. TreeTypeOK'
    BY <1>1, <1>2 DEF TreeTypeOK
  <1>4. LevelsNarrow' /\ next' = <<>>
    BY <1>1 DEF LevelsNarrow
  <1>5. LeavesNew'
    BY <1>1, <1>2 DEF LeavesNew
  <1>6. leaf \in SUBSET desired /\ CheckDependencies(desired)
    BY <1>1 DEF Working
  <1>7. CheckDependencies(leaf)
    BY <1>1, <1>6, SmallerChecked
  <1>8. \A i \in DOMAIN nodes' : CheckDependencies(nodes'[i]) /\ nodes'[i] \cap desired' # {}
    BY <1>1, <1>2, <1>6, <1>7 DEF Working
  <1>9. raw' \cup generic' \subseteq desired' /\ CheckDependencies(desired')
    BY <1>1, <1>6 DEF Working
  <1>10. desired' \subseteq raw' \cup generic' \cup Proven(nodes') \cup Proven(next')
    BY <1>1, <1>2 DEF Working
  <1>11. Working'
    BY <1>8, <1>9, <1>10 DEF Working, CheckDependencies, Proven, Elems
  <1> QED
    BY <1>3, <1>4, <1>5, <1>11 DEF TreeInv

LEMMA StepRawLeaf == TreeInv /\ RawLeaf => TreeInv'
  <1> SUFFICES ASSUME TreeInv, RawLeaf PROVE TreeInv'
    OBVIOUS
  <1>1. PICK leaf \in SUBSET raw :
          /\ IsLeaf(leaf) /\ AggregateMixed(<<>>, leaf, {}, leaf)
          /\ nodes' = Append(nodes, leaf) /\ raw' = raw \ leaf
    BY DEF RawLeaf
  <1>2. step = "leaves" /\ UNCHANGED <<step, desired, generic, next>>
    BY DEF RawLeaf
  <1>3. TreeTypeOK /\ Working
    BY <1>2 DEF TreeInv
  <1>4. leaf \in SUBSET Raw /\ leaf \in SUBSET Claim /\ leaf # {}
    BY <1>1, <1>3 DEF TreeTypeOK, Claim, IsLeaf
  <1>5. generic' = generic \ leaf
    BY <1>2, <1>3, <1>4, TreeAssumption DEF TreeTypeOK
  <1>6. Cardinality(leaf) \in Nat
    BY <1>4, ClaimsFinite
  <1>7. Cardinality(leaf) <= LeafSize
    BY <1>1, <1>6, TreeAssumption DEF IsLeaf
  <1>8. Cardinality(leaf) <= MaxRaw
    BY <1>6, <1>7, TreeAssumption
  <1>9. /\ {} \in SUBSET Generic /\ Cardinality({}) <= 1 /\ leaf \cup {} = leaf
        /\ leaf \cup {} \subseteq desired
    BY <1>1, <1>3, FS_EmptySet DEF Working
  <1>10. desired \in SUBSET Claim /\ CheckDependencies(desired)
    BY <1>3 DEF TreeTypeOK, Working
  <1>11. CallsPrepared'
    BY <1>1, <1>4, <1>8, <1>9, <1>10, LeafPrepared
  <1> QED
    BY <1>1, <1>2, <1>4, <1>5, <1>11, LeafKeeps

LEMMA StepGenericLeaf == TreeInv /\ GenericLeaf => TreeInv'
  <1> SUFFICES ASSUME TreeInv, GenericLeaf PROVE TreeInv'
    OBVIOUS
  <1>1. PICK g \in generic :
          /\ AggregateMixed(<<>>, {}, {g}, {g})
          /\ nodes' = Append(nodes, {g}) /\ generic' = generic \ {g}
    BY DEF GenericLeaf
  <1>2. step = "leaves" /\ raw = {} /\ UNCHANGED <<step, desired, raw, next>>
    BY DEF GenericLeaf
  <1>3. TreeTypeOK /\ Working
    BY <1>2 DEF TreeInv
  <1>4. {g} \in SUBSET Generic /\ {g} \in SUBSET Claim /\ raw' = raw \ {g}
    BY <1>1, <1>2, <1>3 DEF TreeTypeOK, Claim
  <1>5a. {} \in SUBSET Raw /\ Cardinality({}) <= MaxRaw
    BY FS_EmptySet, TreeAssumption
  <1>5b. Cardinality({g}) <= 1
    <2>1. Cardinality({g}) = 1
      BY OneGeneric
    <2> QED
      BY <2>1
  <1>5c. {} \cup {g} = {g}
    OBVIOUS
  <1>5d. g \in desired
    BY <1>3 DEF Working
  <1>5. {} \cup {g} \subseteq desired
    BY <1>5d
  <1>6. desired \in SUBSET Claim /\ CheckDependencies(desired)
    BY <1>3 DEF TreeTypeOK, Working
  <1>7. CallsPrepared'
    BY <1>1, <1>4, <1>5, <1>5a, <1>5b, <1>5c, <1>6, LeafPrepared
  <1>8. {g} # {} /\ {g} \subseteq raw \cup generic
    OBVIOUS
  <1> QED
    BY <1>1, <1>2, <1>4, <1>7, <1>8, LeafKeeps

LEMMA StepBegin == TreeInv /\ BeginJoining => TreeInv'
  <1> SUFFICES ASSUME TreeInv, BeginJoining PROVE TreeInv'
    OBVIOUS
  <1>1. /\ step = "leaves" /\ raw = {} /\ generic = {} /\ step' = "joining"
        /\ UNCHANGED <<desired, raw, generic, nodes, next, calls>>
    BY DEF BeginJoining
  <1>2. Working /\ TreeTypeOK /\ LevelsNarrow /\ CallsPrepared
    BY <1>1 DEF TreeInv
  <1>3. Working'
    BY <1>1, <1>2 DEF Working, CheckDependencies, Proven, Elems
  <1>4. TreeTypeOK' /\ LevelsNarrow' /\ CallsPrepared' /\ LeavesNew'
    BY <1>1, <1>2 DEF TreeTypeOK, LevelsNarrow, CallsPrepared, LeavesNew
  <1> QED
    BY <1>1, <1>3, <1>4 DEF TreeInv

(* The proof of a batch goes to the level above: it proves of the batch what is
   asked for. *)
LEMMA StepJoin == TreeInv /\ Join => TreeInv'
  <1> SUFFICES ASSUME TreeInv, Join PROVE TreeInv'
    OBVIOUS
  <1> DEFINE kept == Selected(Batch)
  <1>1. /\ step = "joining" /\ nodes # <<>> /\ nodes' = Rest
        /\ UNCHANGED <<step, desired, raw, generic>>
    BY DEF Join
  <1>2. /\ Working /\ TreeTypeOK /\ LevelsNarrow /\ CallsPrepared
        /\ raw = {} /\ generic = {}
        /\ nodes \in Seq(SUBSET Claim) /\ next \in Seq(SUBSET Claim)
        /\ desired \in SUBSET Claim /\ CheckDependencies(desired)
    BY <1>1 DEF TreeInv, TreeTypeOK, Working
  <1>3. /\ Batch \in Seq(SUBSET Claim) /\ Rest \in Seq(SUBSET Claim)
        /\ Len(Batch) \in 1..FanIn /\ Batch[1] = nodes[1]
        /\ \A i \in DOMAIN Batch : i \in DOMAIN nodes /\ Batch[i] = nodes[i]
        /\ \A i \in DOMAIN Rest : \E j \in DOMAIN nodes : Rest[i] = nodes[j]
        /\ Proven(nodes) \subseteq Proven(Batch) \cup Proven(Rest)
    BY <1>1, <1>2, RowSplit
  <1>4. kept = Proven(Batch) \cap desired
    BY DEF Selected
  <1>5. next' = Append(next, kept)
    BY DEF Join
  <1>6. CallsPrepared'
    <2>1. CASE UNCHANGED calls
      BY <2>1, <1>2 DEF CallsPrepared
    <2>2. CASE AggregateMixed(Batch, {}, {}, Selected(Batch))
      <3>1. kept \in SUBSET desired /\ kept \subseteq Proven(Batch)
        BY <1>4
      <3>2. \A i \in DOMAIN Batch : CheckDependencies(Batch[i])
        BY <1>2, <1>3 DEF Working
      <3>3. Len(Batch) <= FanIn
        BY <1>3 DEF FanIn
      <3> QED
        BY <2>2, <3>1, <3>2, <3>3, <1>2, <1>3, JoinPrepared
    <2> QED
      BY <2>1, <2>2 DEF Join
  <1>7. kept \in SUBSET desired /\ kept \in SUBSET Claim
    BY <1>2, <1>4
  <1>8. kept # {}
    <2>1. 1 \in DOMAIN Batch
      BY <1>3
    <2>2. Batch[1] \cap desired # {}
      BY <2>1, <1>2, <1>3 DEF Working
    <2>3. PICK c \in desired : c \in Batch[1]
      BY <2>2
    <2>4. c \in Proven(Batch)
      BY <2>1, <2>3, ProvenBy
    <2> QED
      BY <2>3, <2>4, <1>4
  <1> HIDE DEF kept
  <1>9. /\ next' \in Seq(SUBSET Claim) /\ Proven(next') = Proven(next) \cup kept
        /\ \A i \in DOMAIN next' : next'[i] = kept \/ (i \in DOMAIN next /\ next'[i] = next[i])
    BY <1>2, <1>5, <1>7, ProvenAppend
  <1>10. TreeTypeOK'
    BY <1>1, <1>2, <1>3, <1>9 DEF TreeTypeOK
  <1>11. LevelsNarrow'
    BY <1>1, <1>2, <1>7, <1>8, <1>9 DEF LevelsNarrow
  <1>12. LeavesNew'
    BY <1>1 DEF LeavesNew
  <1>13. \A i \in DOMAIN nodes' : CheckDependencies(nodes'[i]) /\ nodes'[i] \cap desired' # {}
    BY <1>1, <1>2, <1>3 DEF Working
  <1>14. desired' \subseteq raw' \cup generic' \cup Proven(nodes') \cup Proven(next')
    <2>1. desired \subseteq raw \cup generic \cup Proven(nodes) \cup Proven(next)
      BY <1>2 DEF Working
    <2> QED
      BY <2>1, <1>1, <1>2, <1>3, <1>4, <1>9
  <1>15. raw' \cup generic' \subseteq desired' /\ CheckDependencies(desired')
    BY <1>1, <1>2
  <1>16. Working'
    BY <1>13, <1>14, <1>15 DEF Working, CheckDependencies, Proven, Elems
  <1> QED
    BY <1>1, <1>2, <1>6, <1>10, <1>11, <1>12, <1>16 DEF TreeInv

(* What a level makes is small enough to be joined again. *)
LEMMA StepNextLevel == TreeInv /\ NextLevel => TreeInv'
  <1> SUFFICES ASSUME TreeInv, NextLevel PROVE TreeInv'
    OBVIOUS
  <1>1. /\ step = "joining" /\ nodes = <<>> /\ nodes' = next /\ next' = <<>>
        /\ UNCHANGED <<step, desired, raw, generic, calls>>
    BY DEF NextLevel
  <1>2. /\ Working /\ TreeTypeOK /\ LevelsNarrow /\ CallsPrepared
        /\ raw = {} /\ generic = {}
        /\ next \in Seq(SUBSET Claim) /\ desired \in SUBSET Claim /\ CheckDependencies(desired)
    BY <1>1 DEF TreeInv, TreeTypeOK, Working
  <1>3. TreeTypeOK'
    BY <1>1, <1>2 DEF TreeTypeOK
  <1>4. LevelsNarrow' /\ CallsPrepared' /\ LeavesNew'
    BY <1>1, <1>2 DEF LevelsNarrow, CallsPrepared, LeavesNew
  <1>5. \A i \in DOMAIN next : CheckDependencies(next[i]) /\ next[i] \cap desired # {}
    <2> SUFFICES ASSUME NEW i \in DOMAIN next
                 PROVE  CheckDependencies(next[i]) /\ next[i] \cap desired # {}
      OBVIOUS
    <2>1. next[i] \in SUBSET desired /\ next[i] # {}
      BY <1>2 DEF LevelsNarrow
    <2>2. CheckDependencies(next[i])
      BY <2>1, <1>2, SmallerChecked
    <2> QED
      BY <2>1, <2>2
  <1>6. desired' \subseteq raw' \cup generic' \cup Proven(nodes') \cup Proven(next')
    <2>1. Proven(nodes) = {}
      BY <1>1 DEF Proven, Elems
    <2>2. desired \subseteq raw \cup generic \cup Proven(nodes) \cup Proven(next)
      BY <1>2 DEF Working
    <2> QED
      BY <2>1, <2>2, <1>1
  <1>7. Working'
    BY <1>1, <1>2, <1>5, <1>6 DEF Working, CheckDependencies, Proven, Elems
  <1> QED
    BY <1>1, <1>2, <1>3, <1>4, <1>7 DEF TreeInv

LEMMA StepAnswer == TreeInv /\ Answer => TreeInv'
  <1> SUFFICES ASSUME TreeInv, Answer PROVE TreeInv'
    OBVIOUS
  <1>1. /\ step = "joining" /\ Len(nodes) = 1 /\ next = <<>> /\ step' = "answered"
        /\ UNCHANGED <<desired, raw, generic, next>>
        /\ \/ UNCHANGED <<nodes, calls>>
           \/ AggregateMixed(nodes, {}, {}, desired) /\ nodes' = <<desired>>
    BY DEF Answer
  <1>2. /\ Working /\ TreeTypeOK /\ LevelsNarrow /\ CallsPrepared
        /\ raw = {} /\ generic = {}
        /\ nodes \in Seq(SUBSET Claim) /\ desired \in SUBSET Claim /\ CheckDependencies(desired)
    BY <1>1 DEF TreeInv, TreeTypeOK, Working
  <1>3. CallsPrepared'
    <2>1. CASE UNCHANGED <<nodes, calls>>
      BY <2>1, <1>2 DEF CallsPrepared
    <2>2. CASE AggregateMixed(nodes, {}, {}, desired)
      <3>1. Proven(next) = {}
        BY <1>1 DEF Proven, Elems
      <3>2. desired \subseteq Proven(nodes)
        BY <3>1, <1>2 DEF Working
      <3>3. \A i \in DOMAIN nodes : CheckDependencies(nodes[i])
        BY <1>2 DEF Working
      <3>4. Len(nodes) <= FanIn /\ desired \in SUBSET desired
        BY <1>1 DEF FanIn
      <3> QED
        BY <2>2, <3>2, <3>3, <3>4, <1>2, JoinPrepared
    <2> QED
      BY <2>1, <2>2, <1>1
  <1>4. nodes' \in Seq(SUBSET Claim)
    <2>1. \A S \in SUBSET Claim : <<S>> \in Seq(SUBSET Claim)
      OBVIOUS
    <2> QED
      BY <2>1, <1>1, <1>2
  <1>5. TreeTypeOK' /\ LevelsNarrow' /\ LeavesNew'
    BY <1>1, <1>2, <1>4 DEF TreeTypeOK, LevelsNarrow, LeavesNew
  <1> QED
    BY <1>1, <1>3, <1>5 DEF TreeInv

(* A request that ends without a proof leaves what it worked on alone. *)
LEMMA StepOver ==
  ASSUME TreeInv, step' \in {"refused", "failed"},
         UNCHANGED <<desired, raw, generic, nodes, next, calls>>
  PROVE  TreeInv'
  BY DEF TreeInv, TreeTypeOK, CallsPrepared, LevelsNarrow, LeavesNew

LEMMA StepInv == TreeInv /\ [TreeNext]_treeVars => TreeInv'
  <1> SUFFICES ASSUME TreeInv, [TreeNext]_treeVars PROVE TreeInv'
    OBVIOUS
  <1>1. CASE \E rs \in SUBSET Raw, gs \in SUBSET Generic, cs \in ChildRows, discards \in SUBSET Claim :
               ReceiveRequest(rs, gs, cs, discards)
    BY <1>1, StepReceive
  <1>2. CASE Refuse
    BY <1>2, StepOver DEF Refuse
  <1>3. CASE RawLeaf
    BY <1>3, StepRawLeaf
  <1>4. CASE GenericLeaf
    BY <1>4, StepGenericLeaf
  <1>5. CASE BeginJoining
    BY <1>5, StepBegin
  <1>6. CASE Join
    BY <1>6, StepJoin
  <1>7. CASE NextLevel
    BY <1>7, StepNextLevel
  <1>8. CASE Answer
    BY <1>8, StepAnswer
  <1>9. CASE Fail
    BY <1>9, StepOver DEF Fail
  <1>10. CASE UNCHANGED treeVars
    BY <1>10 DEF treeVars, TreeInv, TreeTypeOK, CallsPrepared, LevelsNarrow, LeavesNew, Working,
                 CheckDependencies, Proven, Elems
  <1> QED
    BY <1>1, <1>2, <1>3, <1>4, <1>5, <1>6, <1>7, <1>8, <1>9, <1>10 DEF TreeNext

LEMMA TreeInvariant == TreeSpec => []TreeInv
  BY InitInv, StepInv, PTL DEF TreeSpec

-----------------------------------------------------------------------------
(* prove_aggregate keeps its rows of proofs and its sets of claims well formed. *)
THEOREM TreeTyped == TreeSpec => []TreeTypeOK
  <1>1. TreeInv => TreeTypeOK
    BY DEF TreeInv
  <1> QED
    BY TreeInvariant, <1>1, PTL

(* Whatever the witnesses, the children, the discards and the leaf size,
   prove_aggregate calls aggregate_mixed within its limits, and selects nothing
   that the inputs of the call do not prove. *)
THEOREM CallsArePrepared == TreeSpec => []CallsPrepared
  <1>1. TreeInv => CallsPrepared
    BY DEF TreeInv
  <1> QED
    BY TreeInvariant, <1>1, PTL

(* No claim that is asked for gets lost between the witnesses, the leaves and the
   levels of aggregate_bounded, for trees of any height. *)
THEOREM NoClaimLost == TreeSpec => []ClaimsCovered
  <1>1. TreeInv => ClaimsCovered
    BY DEF TreeInv, Working, ClaimsCovered
  <1> QED
    BY TreeInvariant, <1>1, PTL

(* No leaf is made of a claim that a child or an earlier leaf proves. *)
THEOREM LeavesAreNew == TreeSpec => []LeavesNew
  <1>1. TreeInv => LeavesNew
    BY DEF TreeInv
  <1> QED
    BY TreeInvariant, <1>1, PTL

(* Above the leaves, every proof proves something asked for and nothing else. *)
THEOREM LevelsAreNarrow == TreeSpec => []LevelsNarrow
  <1>1. TreeInv => LevelsNarrow
    BY DEF TreeInv
  <1> QED
    BY TreeInvariant, <1>1, PTL

(* All of it together, for every limit of the prover and every leaf size. *)
THEOREM TreeIsSound == TreeSpec => []TreeSound
  <1>1. TreeTypeOK /\ CallsPrepared /\ ClaimsCovered /\ LeavesNew /\ LevelsNarrow => TreeSound
    BY DEF TreeSound
  <1> QED
    BY TreeTyped, CallsArePrepared, NoClaimLost, LeavesAreNew, LevelsAreNarrow, <1>1, PTL

-----------------------------------------------------------------------------
(* The isolated process.  The pipes carry nothing to tell the requests apart: the
   invariant says of each moment of an exchange what they hold, and whose it is. *)

(* What the holder of the gate, or nobody, finds between two exchanges. *)
Quiet == stdin = <<>> /\ stdout = <<>> /\ child = NewChild

(* Parts of the request of c lie in the pipe in order, from the one the child
   waits for to the last one written, and nothing was answered. *)
Asking(c) ==
  /\ child \in [reads : 0..3, for : {NoOne}, replying : {0}] /\ child.reads <= written
  /\ Len(stdin) = written - child.reads
  /\ \A i \in 1..Len(stdin) : stdin[i] = <<RequestParts[child.reads + i], c>>
  /\ stdout = <<>>

(* The child has the whole request and has sent n parts of the answer. *)
Answering(c, n) ==
  written = 4 /\ stdin = <<>> /\ child = [reads |-> 4, for |-> c, replying |-> n]

(* The child has sent all of it and waits for the next request. *)
HasAnswered == written = 4 /\ stdin = <<>> /\ child = NewChild

InExchange(c) ==
  \/ Asking(c)
  \/ Answering(c, 0) /\ stdout = <<>>
  \/ Answering(c, 1) /\ stdout = << <<"header", c>> >>
  \/ HasAnswered /\ stdout = << <<"header", c>>, <<"proof", c>> >>

InProof(c) ==
  \/ Answering(c, 1) /\ stdout = <<>>
  \/ HasAnswered /\ stdout = << <<"proof", c>> >>

PipesTyped ==
  stdin \in Seq({"length", "hash", "key", "body"} \X Caller)

(* Whoever is past the gate holds it. *)
GateHeld == \A c \in Caller : call[c] \in {"start", "exchange", "proof"} <=> gate = c

WorkerInv ==
  /\ WorkerTypeOK /\ AnswerBelongs /\ PipesTyped /\ GateHeld
  /\ workerDisposed => process = "none" /\ gate = NoOne
  /\ gate = NoOne => written = 0 /\ Quiet
  /\ \A c \in Caller :
       /\ call[c] = "start" => written = 0 /\ Quiet
       /\ call[c] = "exchange" => process # "none" /\ InExchange(c)
       /\ call[c] = "proof" => process # "none" /\ InProof(c)

-----------------------------------------------------------------------------
(* Rows of one or two parts. *)
LEMMA ShortRows ==
  \A a, b : /\ Head(<<a>>) = a /\ Tail(<<a>>) = <<>> /\ Tail(<<a, b>>) = <<b>>
            /\ Append(<<>>, a) = <<a>> /\ Append(<<a>>, b) = <<a, b>>
  <1> SUFFICES ASSUME NEW a, NEW b
               PROVE  /\ Head(<<a>>) = a /\ Tail(<<a>>) = <<>> /\ Tail(<<a, b>>) = <<b>>
                      /\ Append(<<>>, a) = <<a>> /\ Append(<<a>>, b) = <<a, b>>
    OBVIOUS
  <1>1. Head(<<a>>) = a /\ Tail(<<a>>) = <<>>
    OBVIOUS
  <1>2. Tail(<<a, b>>) = <<b>>
    OBVIOUS
  <1>3. Append(<<>>, a) = <<a>>
    OBVIOUS
  <1>4. Append(<<a>>, b) = <<a, b>>
    <2> DEFINE S == {a, b}
    <2>1. <<a>> \in Seq(S) /\ Len(<<a>>) = 1 /\ <<a>>[1] = a /\ b \in S
      OBVIOUS
    <2>2. <<a, b>> \in Seq(S) /\ Len(<<a, b>>) = 2 /\ <<a, b>>[1] = a /\ <<a, b>>[2] = b
      OBVIOUS
    <2> HIDE DEF S
    <2>3. /\ Append(<<a>>, b) \in Seq(S) /\ Len(Append(<<a>>, b)) = 2
          /\ Append(<<a>>, b)[1] = a /\ Append(<<a>>, b)[2] = b
      <3>1. /\ Append(<<a>>, b) \in Seq(S) /\ Len(Append(<<a>>, b)) = Len(<<a>>) + 1
            /\ \A i \in 1..Len(<<a>>) : Append(<<a>>, b)[i] = <<a>>[i]
            /\ Append(<<a>>, b)[Len(<<a>>) + 1] = b
        BY <2>1, AppendProperties
      <3> QED
        BY <2>1, <3>1
    <2> QED
      <3>1. \A i \in 1..2 : <<a, b>>[i] = Append(<<a>>, b)[i]
        BY <2>2, <2>3
      <3> QED
        BY <2>2, <2>3, <3>1, SeqEqual
  <1> QED
    BY <1>1, <1>2, <1>3, <1>4

LEMMA WorkerInitHolds == WorkerInit => WorkerInv
  <1> SUFFICES ASSUME WorkerInit PROVE WorkerInv
    OBVIOUS
  <1>1. WorkerTypeOK
    <2>1. Len(RequestParts) = 4 /\ starts \in 0..Starts
      BY NoOneAssumption DEF WorkerInit, RequestParts
    <2>2. child.reads = 0 /\ child.for = NoOne
      BY DEF WorkerInit, NewChild
    <2>3. call \in [Caller -> {"idle", "waiting", "start", "exchange", "proof"} \cup Ended]
          /\ answer \in [Caller -> Caller \cup {NoOne}]
      BY DEF WorkerInit
    <2>4. gate = NoOne /\ written = 0 /\ process = "none" /\ workerDisposed = FALSE
      BY DEF WorkerInit
    <2>5. 0 \in 0..4
      OBVIOUS
    <2> QED
      BY <2>1, <2>2, <2>3, <2>4, <2>5 DEF WorkerTypeOK
  <1>2. PipesTyped
    BY EmptySeq DEF WorkerInit, PipesTyped
  <1>3. \A c \in Caller : call[c] = "idle" /\ gate # c
    BY NoOneAssumption DEF WorkerInit
  <1> QED
    BY <1>1, <1>2, <1>3 DEF WorkerInit, WorkerInv, AnswerBelongs, GateHeld, Quiet

(* The gate changes hands: a step of c that leaves the others as they were. *)
LEMMA GateMoves ==
  ASSUME WorkerInv, NEW c \in Caller, NEW place,
         call' = [call EXCEPT ![c] = place],
         \/ gate = c /\ place \in {"start", "exchange", "proof"} /\ UNCHANGED gate
         \/ gate = c /\ place \in Ended /\ gate' = NoOne
         \/ gate = NoOne /\ place = "start" /\ gate' = c
         \/ gate # c /\ place \in {"idle", "waiting"} \cup Ended /\ UNCHANGED gate
  PROVE  /\ gate' \in Caller \cup {NoOne} /\ GateHeld'
         /\ call' \in [Caller -> {"idle", "waiting", "start", "exchange", "proof"} \cup Ended]
         /\ call'[c] = place /\ \A d \in Caller \ {c} : call'[d] = call[d]
  BY NoOneAssumption DEF WorkerInv, WorkerTypeOK, GateHeld, Ended

LEMMA StepProve == ASSUME WorkerInv, NEW c \in Caller, Prove(c) PROVE WorkerInv'
  <1>1. PICK place \in {"waiting", "thrown"} : call' = [call EXCEPT ![c] = place]
    BY DEF Prove
  <1>2. gate # c /\ UNCHANGED <<gate, written, answer, process, child, pipes, workerDisposed, starts>>
    BY NoOneAssumption DEF Prove, WorkerInv, GateHeld
  <1>3. GateHeld' /\ call'[c] = place /\ (\A d \in Caller \ {c} : call'[d] = call[d])
        /\ call' \in [Caller -> {"idle", "waiting", "start", "exchange", "proof"} \cup Ended]
    <2>1. place \in {"idle", "waiting"} \cup Ended
      BY DEF Ended
    <2> QED
      BY <1>1, <1>2, <2>1, GateMoves
  <1> QED
    BY <1>2, <1>3 DEF WorkerInv, WorkerTypeOK, AnswerBelongs, PipesTyped, Quiet, InExchange, InProof,
       Asking, Answering, HasAnswered, NewChild, pipes

LEMMA StepEnter == ASSUME WorkerInv, NEW c \in Caller, Enter(c) PROVE WorkerInv'
  <1>1. UNCHANGED <<written, answer, process, child, pipes, workerDisposed, starts>> /\ gate = NoOne
    BY DEF Enter
  <1>2. CASE workerDisposed
    <2>1. GateHeld' /\ call'[c] = "thrown" /\ (\A d \in Caller \ {c} : call'[d] = call[d])
          /\ call' \in [Caller -> {"idle", "waiting", "start", "exchange", "proof"} \cup Ended] /\ gate' = gate
      BY <1>1, <1>2, GateMoves, NoOneAssumption DEF Enter, IsDisposed, Ended
    <2> QED
      BY <1>1, <2>1 DEF WorkerInv, WorkerTypeOK, AnswerBelongs, PipesTyped, Quiet, InExchange, InProof,
         Asking, Answering, HasAnswered, NewChild, pipes
  <1>3. CASE ~workerDisposed
    <2>1. GateHeld' /\ call'[c] = "start" /\ (\A d \in Caller \ {c} : call'[d] = call[d])
          /\ call' \in [Caller -> {"idle", "waiting", "start", "exchange", "proof"} \cup Ended] /\ gate' = c
      BY <1>1, <1>3, GateMoves, NoOneAssumption DEF Enter, IsDisposed, Ended
    <2> QED
      BY <1>1, <1>3, <2>1, NoOneAssumption DEF WorkerInv, WorkerTypeOK, AnswerBelongs, PipesTyped, Quiet,
         InExchange, InProof, Asking, Answering, HasAnswered, NewChild, pipes
  <1> QED
    BY <1>2, <1>3

(* Nobody else is past the gate while c is. *)
LEMMA OthersOutside ==
  ASSUME WorkerInv, NEW c \in Caller, gate = c
  PROVE  \A d \in Caller \ {c} : call[d] \notin {"start", "exchange", "proof"}
  BY DEF WorkerInv, GateHeld

(* Whoever leaves the gate with the process stopped leaves nothing behind. *)
LEMMA StoppedLeave ==
  ASSUME WorkerInv, NEW c \in Caller, gate = c, Stop, Leave(c, "thrown"), UNCHANGED <<answer, workerDisposed, starts>>
  PROVE  WorkerInv'
  <1>1. GateHeld' /\ call'[c] = "thrown" /\ (\A d \in Caller \ {c} : call'[d] = call[d])
        /\ call' \in [Caller -> {"idle", "waiting", "start", "exchange", "proof"} \cup Ended] /\ gate' = NoOne
    BY GateMoves DEF Leave, Ended
  <1>2. \A d \in Caller : call'[d] \notin {"start", "exchange", "proof"}
    BY <1>1, OthersOutside
  <1>3. \A d \in Caller : call'[d] = "returned" => call[d] = "returned"
    BY <1>1
  <1> QED
    BY <1>1, <1>2, <1>3, NoOneAssumption DEF WorkerInv, WorkerTypeOK, AnswerBelongs, PipesTyped, Quiet, NewChild, Leave, Stop, RequestParts

LEMMA StepStart == ASSUME WorkerInv, NEW c \in Caller, Start(c) PROVE WorkerInv'
  <1>1. gate = c /\ call[c] = "start" /\ written = 0 /\ Quiet /\ UNCHANGED <<answer, workerDisposed>>
        /\ ~workerDisposed
    BY NoOneAssumption DEF Start, WorkerInv
  <1>2. CASE /\ process' = "running" /\ child' = NewChild /\ stdin' = <<>> /\ stdout' = <<>>
             /\ starts' \in 0..Starts
             /\ call' = [call EXCEPT ![c] = "exchange"] /\ UNCHANGED <<gate, written>>
    <2>1. GateHeld' /\ call'[c] = "exchange" /\ (\A d \in Caller \ {c} : call'[d] = call[d])
          /\ call' \in [Caller -> {"idle", "waiting", "start", "exchange", "proof"} \cup Ended] /\ gate' = c
      BY <1>1, <1>2, GateMoves DEF Ended
    <2>2. Asking(c)'
      BY <1>1, <1>2 DEF Asking, NewChild
    <2>3. \A d \in Caller : d # c => call'[d] \notin {"start", "exchange", "proof"}
      BY <2>1, <1>1, OthersOutside
    <2> QED
      BY <1>1, <1>2, <2>1, <2>2, <2>3, NoOneAssumption DEF WorkerInv, WorkerTypeOK, AnswerBelongs,
         PipesTyped, InExchange, NewChild, RequestParts
  <1>3. CASE Stop /\ Leave(c, "thrown") /\ UNCHANGED starts
    BY <1>1, <1>3, StoppedLeave
  <1>4. \/ /\ process = "running" /\ call' = [call EXCEPT ![c] = "exchange"]
           /\ UNCHANGED <<gate, written, process, child, pipes, starts>>
        \/ /\ starts < Starts /\ process' = "running" /\ child' = NewChild /\ stdin' = <<>> /\ stdout' = <<>>
           /\ starts' = starts + 1 /\ call' = [call EXCEPT ![c] = "exchange"] /\ UNCHANGED <<gate, written>>
        \/ Stop /\ Leave(c, "thrown") /\ UNCHANGED starts
    BY DEF Start
  <1>5. starts \in 0..Starts
    BY DEF WorkerInv, WorkerTypeOK
  <1> QED
    BY <1>1, <1>2, <1>3, <1>4, <1>5, NoOneAssumption DEF Quiet, pipes

(* A step in the middle of an exchange: what the process may do, and the caller
   to its pipes, as long as the place of the call does not move. *)
LEMMA ExchangeKeeps ==
  ASSUME WorkerInv, NEW c \in Caller, gate = c, call[c] = "exchange", InExchange(c)',
         UNCHANGED <<gate, call, answer, workerDisposed, starts>>,
         written' \in 0..4, process' \in {"running", "exited"}, PipesTyped'
  PROVE  WorkerInv'
  <1>1. \A d \in Caller : d # c => call[d] \notin {"start", "exchange", "proof"}
    BY OthersOutside
  <1>2. child'.reads \in 0..4 /\ child'.for \in Caller \cup {NoOne}
    BY DEF InExchange, Asking, Answering, HasAnswered, NewChild
  <1>3. ~workerDisposed
    BY NoOneAssumption DEF WorkerInv
  <1> QED
    BY <1>1, <1>2, <1>3, NoOneAssumption DEF WorkerInv, WorkerTypeOK, AnswerBelongs, GateHeld, RequestParts

LEMMA ProofKeeps ==
  ASSUME WorkerInv, NEW c \in Caller, gate = c, call[c] = "proof", InProof(c)',
         UNCHANGED <<gate, call, written, answer, workerDisposed, starts>>,
         process' \in {"running", "exited"}, PipesTyped'
  PROVE  WorkerInv'
  <1>1. \A d \in Caller : d # c => call[d] \notin {"start", "exchange", "proof"}
    BY OthersOutside
  <1>2. child'.reads \in 0..4 /\ child'.for \in Caller \cup {NoOne}
    BY DEF InProof, Answering, HasAnswered, NewChild
  <1>3. ~workerDisposed
    BY NoOneAssumption DEF WorkerInv
  <1> QED
    BY <1>1, <1>2, <1>3, NoOneAssumption DEF WorkerInv, WorkerTypeOK, AnswerBelongs, GateHeld, RequestParts

LEMMA StepWrite == ASSUME WorkerInv, NEW c \in Caller, WriteRequest(c) PROVE WorkerInv'
  <1> DEFINE part == <<RequestParts[written + 1], c>>
  <1>1. /\ gate = c /\ call[c] = "exchange" /\ process = "running" /\ written \in 0..3
        /\ written' = written + 1 /\ stdin' = Append(stdin, part)
        /\ UNCHANGED <<gate, call, answer, process, child, stdout, workerDisposed, starts>>
        /\ InExchange(c) /\ stdin \in Seq({"length", "hash", "key", "body"} \X Caller)
    BY DEF WriteRequest, Exchanging, WorkerInv, WorkerTypeOK, RequestParts, PipesTyped
  <1>2. Asking(c)
    BY <1>1 DEF InExchange, Answering, HasAnswered
  <1>3. part \in {"length", "hash", "key", "body"} \X Caller
    BY <1>1 DEF RequestParts
  <1>4. /\ stdin' \in Seq({"length", "hash", "key", "body"} \X Caller) /\ Len(stdin') = Len(stdin) + 1
        /\ \A i \in 1..Len(stdin) : stdin'[i] = stdin[i]
        /\ stdin'[Len(stdin) + 1] = part /\ Len(stdin) \in Nat
    BY <1>1, <1>3, AppendProperties, LenProperties
  <1>5. child.reads \in 0..3 /\ Len(stdin) = written - child.reads
    BY <1>2 DEF Asking
  <1>6. \A i \in 1..Len(stdin') : stdin'[i] = <<RequestParts[child.reads + i], c>>
    <2> TAKE i \in 1..Len(stdin')
    <2>1. CASE i \in 1..Len(stdin)
      BY <2>1, <1>4, <1>2 DEF Asking
    <2>2. CASE i = Len(stdin) + 1
      <3>1. child.reads + i = written + 1
        BY <2>2, <1>1, <1>5
      <3> QED
        BY <2>2, <3>1, <1>4
    <2> QED
      BY <2>1, <2>2, <1>4
  <1>7. Asking(c)'
    BY <1>1, <1>2, <1>4, <1>5, <1>6 DEF Asking
  <1>8. InExchange(c)' /\ PipesTyped'
    BY <1>7, <1>4 DEF InExchange, PipesTyped
  <1> QED
    BY <1>1, <1>8, ExchangeKeeps

LEMMA StepReadHeader == ASSUME WorkerInv, NEW c \in Caller, ReadHeader(c) PROVE WorkerInv'
  <1>1. /\ gate = c /\ call[c] = "exchange" /\ stdout # <<>> /\ stdout' = Tail(stdout)
        /\ call' = [call EXCEPT ![c] = "proof"]
        /\ UNCHANGED <<gate, written, answer, process, child, stdin, workerDisposed, starts>>
        /\ InExchange(c) /\ process # "none"
    BY DEF ReadHeader, Exchanging, WorkerInv
  <1>2. GateHeld' /\ call'[c] = "proof" /\ (\A d \in Caller \ {c} : call'[d] = call[d])
        /\ call' \in [Caller -> {"idle", "waiting", "start", "exchange", "proof"} \cup Ended]
    BY <1>1, GateMoves DEF Ended
  <1>3. \/ Answering(c, 1) /\ stdout = << <<"header", c>> >>
        \/ HasAnswered /\ stdout = << <<"header", c>>, <<"proof", c>> >>
    BY <1>1 DEF InExchange, Asking
  <1>4. InProof(c)'
    <2>1. Tail(<< <<"header", c>> >>) = <<>> /\ Tail(<< <<"header", c>>, <<"proof", c>> >>) = << <<"proof", c>> >>
      OBVIOUS
    <2> QED
      BY <1>1, <1>3, <2>1 DEF InProof, Answering, HasAnswered
  <1>5. \A d \in Caller : d # c => call[d] \notin {"start", "exchange", "proof"}
    BY <1>1, OthersOutside
  <1>6. ~workerDisposed
    BY <1>1, NoOneAssumption DEF WorkerInv
  <1> QED
    BY <1>1, <1>2, <1>4, <1>5, <1>6, NoOneAssumption DEF WorkerInv, WorkerTypeOK, AnswerBelongs, PipesTyped

LEMMA StepReadProof == ASSUME WorkerInv, NEW c \in Caller, ReadProof(c) PROVE WorkerInv'
  <1>1. gate = c /\ call[c] = "proof" /\ UNCHANGED <<workerDisposed, starts>> /\ InProof(c) /\ process # "none"
    BY DEF ReadProof, WorkerInv
  <1>2. CASE Stop /\ Leave(c, "thrown") /\ UNCHANGED answer
    BY <1>1, <1>2, StoppedLeave
  <1>3. CASE /\ stdout # <<>> /\ answer' = [answer EXCEPT ![c] = Head(stdout)[2]]
             /\ stdout' = Tail(stdout) /\ Leave(c, "returned") /\ UNCHANGED <<process, child, stdin>>
    <2>1. HasAnswered /\ stdout = << <<"proof", c>> >>
      BY <1>1, <1>3 DEF InProof
    <2>2. answer' = [answer EXCEPT ![c] = c] /\ stdout' = <<>>
      <3>1. Head(stdout) = <<"proof", c>> /\ Tail(stdout) = <<>>
        BY <2>1, ShortRows
      <3>2. Head(stdout)[2] = c
        BY <3>1
      <3> QED
        BY <1>3, <3>1, <3>2
    <2>3. GateHeld' /\ call'[c] = "returned" /\ (\A d \in Caller \ {c} : call'[d] = call[d])
          /\ call' \in [Caller -> {"idle", "waiting", "start", "exchange", "proof"} \cup Ended] /\ gate' = NoOne
      BY <1>1, <1>3, GateMoves DEF Leave, Ended
    <2>4. Quiet' /\ written' = 0 /\ ~workerDisposed'
      BY <1>1, <1>3, <2>1, <2>2, NoOneAssumption DEF Quiet, HasAnswered, Leave, WorkerInv, NewChild
    <2>5. \A d \in Caller : call'[d] \notin {"start", "exchange", "proof"}
      BY <1>1, <2>3, OthersOutside
    <2>6. AnswerBelongs' /\ answer' \in [Caller -> Caller \cup {NoOne}]
      BY <2>2, <2>3 DEF AnswerBelongs, WorkerInv, WorkerTypeOK
    <2> QED
      BY <1>1, <1>3, <2>3, <2>4, <2>5, <2>6 DEF WorkerInv, WorkerTypeOK, PipesTyped, Quiet, NewChild, RequestParts
  <1> QED
    BY <1>2, <1>3 DEF ReadProof, StopAfterFailure

LEMMA StepDispose == WorkerInv /\ DisposeWorker => WorkerInv'
  <1> SUFFICES ASSUME WorkerInv, DisposeWorker PROVE WorkerInv'
    OBVIOUS
  <1>1. /\ gate = NoOne /\ Stop /\ UNCHANGED <<gate, call, written, answer, starts>> /\ workerDisposed' = TRUE
        /\ \A c \in Caller : call[c] \notin {"start", "exchange", "proof"}
    BY NoOneAssumption DEF DisposeWorker, WorkerInv, GateHeld
  <1> QED
    BY <1>1 DEF WorkerInv, WorkerTypeOK, AnswerBelongs, PipesTyped, GateHeld, Quiet, Stop, NewChild, RequestParts

(* What the process does on its own, whoever waits for it. *)
LEMMA StepChildReads == WorkerInv /\ ChildReads => WorkerInv'
  <1> SUFFICES ASSUME WorkerInv, ChildReads PROVE WorkerInv'
    OBVIOUS
  <1>1. /\ process = "running" /\ stdin # <<>> /\ child.for = NoOne
        /\ UNCHANGED <<gate, call, written, answer, stdout, workerDisposed, starts>>
        /\ stdin \in Seq({"length", "hash", "key", "body"} \X Caller)
    BY DEF ChildReads, WorkerInv, PipesTyped
  <1>2. PICK c \in Caller : gate = c /\ call[c] = "exchange"
    BY <1>1 DEF WorkerInv, WorkerTypeOK, GateHeld, Quiet, InProof, Answering, HasAnswered
  <1>3. InExchange(c)
    BY <1>2 DEF WorkerInv
  <1>4. Asking(c)
    BY <1>1, <1>3 DEF InExchange, Answering, HasAnswered
  <1>5. /\ Len(stdin) \in Nat \ {0} /\ Head(stdin) = stdin[1] /\ Len(Tail(stdin)) = Len(stdin) - 1
        /\ Tail(stdin) \in Seq({"length", "hash", "key", "body"} \X Caller)
        /\ \A i \in 1..Len(Tail(stdin)) : Tail(stdin)[i] = stdin[i + 1]
    BY <1>1, HeadTailProperties, EmptySeq, LenProperties
  <1>6. /\ child.reads \in 0..3 /\ Head(stdin) = <<RequestParts[child.reads + 1], c>>
        /\ child = [reads |-> child.reads, for |-> NoOne, replying |-> 0]
    BY <1>4, <1>5 DEF Asking
  <1>7. ~(child.reads = 0 /\ Head(stdin)[1] # "length")
    BY <1>6 DEF RequestParts
  <1>8. /\ stdin' = Tail(stdin) /\ process' = process
        /\ child' = [child EXCEPT !.reads = child.reads + 1,
                       !.for = IF child.reads + 1 = Len(RequestParts) THEN Head(stdin)[2] ELSE NoOne]
    BY <1>7 DEF ChildReads
  <1>9. Head(stdin)[2] = c /\ Len(RequestParts) = 4
    BY <1>6 DEF RequestParts
  <1>10. child' = [reads |-> child.reads + 1, for |-> IF child.reads = 3 THEN c ELSE NoOne, replying |-> 0]
    <2>1. child \in [reads : 0..3, for : {NoOne}, replying : {0}]
      BY <1>4 DEF Asking
    <2>2. child' = [child EXCEPT !.reads = child.reads + 1, !.for = IF child.reads + 1 = 4 THEN c ELSE NoOne]
      BY <1>8, <1>9
    <2>3. child.reads + 1 = 4 <=> child.reads = 3
      BY <2>1
    <2> QED
      BY <2>1, <2>2, <2>3
  <1>11. written \in 0..4 /\ Len(stdin) = written - child.reads
    BY <1>4 DEF Asking, WorkerInv, WorkerTypeOK, RequestParts
  <1>12. InExchange(c)'
    <2>1. CASE child.reads = 3
      <3>1. written = 4 /\ Len(Tail(stdin)) = 0
        <4>1. \A n \in Nat \ {0}, w \in 0..4 : n = w - 3 => w = 4 /\ n - 1 = 0
          OBVIOUS
        <4> QED
          BY <4>1, <2>1, <1>5, <1>11
      <3>2. stdin' = <<>>
        BY <3>1, <1>5, <1>8, EmptySeq
      <3>3. child' = [reads |-> 4, for |-> c, replying |-> 0]
        BY <2>1, <1>10
      <3>4. Answering(c, 0)' /\ stdout' = <<>>
        BY <3>1, <3>2, <3>3, <1>1, <1>4 DEF Answering, Asking
      <3> QED
        BY <3>4 DEF InExchange
    <2>2. CASE child.reads # 3
      <3>1. \A i \in 1..Len(stdin') : stdin'[i] = <<RequestParts[child'.reads + i], c>>
        <4> TAKE i \in 1..Len(stdin')
        <4>1. i + 1 \in 1..Len(stdin) /\ stdin'[i] = stdin[i + 1] /\ child.reads + (i + 1) = child'.reads + i
          BY <1>5, <1>6, <1>8, <1>10
        <4> QED
          BY <4>1, <1>4 DEF Asking
      <3>2. Asking(c)'
        BY <2>2, <3>1, <1>1, <1>4, <1>5, <1>6, <1>8, <1>10, <1>11 DEF Asking
      <3> QED
        BY <3>2 DEF InExchange
    <2> QED
      BY <2>1, <2>2
  <1>13. PipesTyped' /\ written' \in 0..4
    BY <1>1, <1>5, <1>8, <1>11 DEF PipesTyped
  <1> QED
    BY <1>1, <1>2, <1>8, <1>12, <1>13, ExchangeKeeps

LEMMA StepChildReplies == WorkerInv /\ ChildReplies => WorkerInv'
  <1> SUFFICES ASSUME WorkerInv, ChildReplies PROVE WorkerInv'
    OBVIOUS
  <1>1. /\ process = "running" /\ child.for # NoOne
        /\ UNCHANGED <<gate, call, written, answer, process, stdin, workerDisposed, starts>>
        /\ stdout' = Append(stdout, <<AnswerParts[child.replying + 1], child.for>>)
        /\ child' = IF child.replying + 1 = Len(AnswerParts) THEN NewChild
                    ELSE [child EXCEPT !.replying = child.replying + 1]
    BY DEF ChildReplies, Served
  <1>2. PICK c \in Caller : gate = c /\ call[c] \in {"exchange", "proof"}
    BY <1>1 DEF WorkerInv, WorkerTypeOK, GateHeld, Quiet, NewChild
  <1>3. PipesTyped' /\ written' \in 0..4
    BY <1>1 DEF WorkerInv, PipesTyped, WorkerTypeOK, RequestParts
  <1>4. AnswerParts[1] = "header" /\ AnswerParts[2] = "proof" /\ Len(AnswerParts) = 2
    BY DEF AnswerParts
  <1>5. ASSUME Answering(c, 0) PROVE Answering(c, 1)' /\ stdout' = Append(stdout, <<"header", c>>)
    BY <1>1, <1>4, <1>5 DEF Answering
  <1>6. ASSUME Answering(c, 1) PROVE HasAnswered' /\ stdout' = Append(stdout, <<"proof", c>>)
    BY <1>1, <1>4, <1>6 DEF Answering, HasAnswered, NewChild
  <1>7. /\ Append(<<>>, <<"header", c>>) = << <<"header", c>> >> /\ Append(<<>>, <<"proof", c>>) = << <<"proof", c>> >>
        /\ Append(<< <<"header", c>> >>, <<"proof", c>>) = << <<"header", c>>, <<"proof", c>> >>
    BY ShortRows
  <1>8. CASE call[c] = "exchange"
    <2>1. \/ Answering(c, 0) /\ stdout = <<>>
          \/ Answering(c, 1) /\ stdout = << <<"header", c>> >>
      BY <1>1, <1>8 DEF WorkerInv, InExchange, Asking, HasAnswered, NewChild
    <2>2. InExchange(c)'
      BY <2>1, <1>5, <1>6, <1>7 DEF InExchange
    <2> QED
      BY <1>1, <1>2, <1>3, <1>8, <2>2, ExchangeKeeps
  <1>9. CASE call[c] = "proof"
    <2>1. Answering(c, 1) /\ stdout = <<>>
      BY <1>1, <1>9 DEF WorkerInv, InProof, HasAnswered, NewChild
    <2>2. InProof(c)'
      BY <2>1, <1>6, <1>7 DEF InProof
    <2> QED
      BY <1>1, <1>2, <1>3, <1>9, <2>2, ProofKeeps
  <1> QED
    BY <1>2, <1>8, <1>9

LEMMA StepChildCrashes == WorkerInv /\ ChildCrashes => WorkerInv'
  <1> SUFFICES ASSUME WorkerInv, ChildCrashes PROVE WorkerInv'
    OBVIOUS
  <1>1. process = "running" /\ process' = "exited"
        /\ UNCHANGED <<gate, call, written, answer, child, pipes, workerDisposed, starts>>
    BY DEF ChildCrashes
  <1> QED
    BY <1>1 DEF WorkerInv, WorkerTypeOK, AnswerBelongs, PipesTyped, GateHeld, Quiet, InExchange, InProof,
       Asking, Answering, HasAnswered, NewChild, pipes

LEMMA WorkerStep == WorkerInv /\ [WorkerNext]_workerVars => WorkerInv'
  <1> SUFFICES ASSUME WorkerInv, [WorkerNext]_workerVars PROVE WorkerInv'
    OBVIOUS
  <1>1. ASSUME NEW c \in Caller, FailExchange(c) PROVE WorkerInv'
    BY <1>1, StoppedLeave DEF FailExchange, Exchanging, StopAfterFailure
  <1>2. ASSUME NEW c \in Caller,
               \/ Prove(c) \/ Enter(c) \/ Start(c) \/ WriteRequest(c) \/ ReadHeader(c) \/ ReadProof(c)
        PROVE  WorkerInv'
    BY <1>2, StepProve, StepEnter, StepStart, StepWrite, StepReadHeader, StepReadProof
  <1>3. CASE UNCHANGED workerVars
    BY <1>3 DEF workerVars, pipes, WorkerInv, WorkerTypeOK, AnswerBelongs, PipesTyped, GateHeld, Quiet,
       InExchange, InProof, Asking, Answering, HasAnswered, NewChild
  <1> QED
    BY <1>1, <1>2, <1>3, StepDispose, StepChildReads, StepChildReplies, StepChildCrashes DEF WorkerNext

(* Between two calls the pipes are empty, and nobody holds the gate of a worker
   that was disposed. *)
LEMMA WorkerInvGives == WorkerInv => WorkerTypeOK /\ AnswerBelongs /\ PipesInStep /\ DisposedStopped
  BY DEF WorkerInv, Quiet, PipesInStep, DisposedStopped

-----------------------------------------------------------------------------
(* The native library. *)

InsideNow == {t \in Thread : at[t] \in Inside}
Proves(t) == at[t] = "running" /\ work[t] = "prove"

NativeTyped ==
  /\ at \in [Thread -> {"outside"} \cup Inside] /\ work \in [Thread -> CallKinds]
  /\ inAbi \in [Thread -> BOOLEAN] /\ prover \in Thread \cup {Nobody}

(* The lock of the prover is held by the call that proves, and by nobody when
   none does; the register counts the threads inside, of which there are
   finitely many however many threads there are. *)
NativeInv ==
  /\ NativeTyped /\ IsFiniteSet(InsideNow) /\ CallsRegistered
  /\ \A t \in Thread : Proves(t) <=> prover = t

LEMMA NativeInitHolds == NativeInit => NativeInv
  <1> SUFFICES ASSUME NativeInit PROVE NativeInv
    OBVIOUS
  <1>1. InsideNow = {} /\ \A t \in Thread : at[t] = "outside" /\ ~inAbi[t]
    BY DEF NativeInit, InsideNow, Inside
  <1>2. IsFiniteSet(InsideNow) /\ Cardinality(InsideNow) = 0
    BY <1>1, FS_EmptySet
  <1>3. NativeTyped
    BY DEF NativeInit, NativeTyped, CallKinds
  <1> QED
    BY <1>1, <1>2, <1>3, NobodyAssumption DEF NativeInit, NativeInv, CallsRegistered, Proves, InsideNow, Inside

(* A step that leaves the register alone and moves one thread within the library. *)
LEMMA MovesWithin ==
  ASSUME NativeInv, NEW t \in Thread, NEW place \in Inside, at[t] \in Inside, Goto(t, place),
         UNCHANGED <<work, inAbi, activeCalls>>
  PROVE  /\ at' \in [Thread -> {"outside"} \cup Inside] /\ at'[t] = place
         /\ \A u \in Thread \ {t} : at'[u] = at[u]
         /\ IsFiniteSet(InsideNow)' /\ CallsRegistered'
  <1>1. /\ at' \in [Thread -> {"outside"} \cup Inside] /\ at'[t] = place
        /\ \A u \in Thread \ {t} : at'[u] = at[u]
    BY DEF Goto, NativeInv, NativeTyped
  <1>2. InsideNow' = InsideNow
    BY <1>1 DEF InsideNow
  <1> QED
    BY <1>1, <1>2 DEF NativeInv, CallsRegistered, InsideNow

LEMMA StepEnterAbi == ASSUME NativeInv, NEW t \in Thread, NEW w \in CallKinds, EnterAbi(t, w) PROVE NativeInv'
  <1>1. /\ at[t] = "outside" /\ work' = [work EXCEPT ![t] = w] /\ inAbi' = [inAbi EXCEPT ![t] = TRUE]
        /\ activeCalls' = activeCalls + 1 /\ at' = [at EXCEPT ![t] = "entered"] /\ UNCHANGED <<pool, prover>>
    BY DEF EnterAbi, Goto
  <1>2. NativeTyped'
    BY <1>1 DEF NativeInv, NativeTyped, Inside
  <1>3. InsideNow' = InsideNow \cup {t} /\ t \notin InsideNow
    BY <1>1 DEF InsideNow, NativeInv, NativeTyped, Inside
  <1>4. IsFiniteSet(InsideNow') /\ Cardinality(InsideNow') = Cardinality(InsideNow) + 1
    BY <1>3, FS_AddElement DEF NativeInv
  <1>5. \A u \in Thread : inAbi'[u] <=> at'[u] \in Inside
    BY <1>1 DEF NativeInv, NativeTyped, CallsRegistered, Inside
  <1>6. \A u \in Thread : Proves(u)' <=> prover' = u
    BY <1>1 DEF NativeInv, NativeTyped, Proves, Inside
  <1> QED
    BY <1>1, <1>2, <1>4, <1>5, <1>6 DEF NativeInv, CallsRegistered, InsideNow

LEMMA StepPool == ASSUME NativeInv, NEW t \in Thread, BeginPool(t) \/ EndPool(t) PROVE NativeInv'
  <1>1. UNCHANGED <<at, work, inAbi, activeCalls, prover>>
    BY DEF BeginPool, EndPool
  <1> QED
    BY <1>1 DEF NativeInv, NativeTyped, CallsRegistered, InsideNow, Proves

LEMMA StepPoolReady == ASSUME NativeInv, NEW t \in Thread, PoolReady(t) PROVE NativeInv'
  <1>1. at[t] = "entered" /\ Goto(t, "ready") /\ UNCHANGED <<work, inAbi, activeCalls, pool, prover>>
    BY DEF PoolReady
  <1>2. /\ at' \in [Thread -> {"outside"} \cup Inside] /\ at'[t] = "ready"
        /\ \A u \in Thread \ {t} : at'[u] = at[u]
        /\ IsFiniteSet(InsideNow)' /\ CallsRegistered'
    BY <1>1, MovesWithin DEF Inside
  <1> QED
    BY <1>1, <1>2 DEF NativeInv, NativeTyped, Proves

LEMMA StepRun == ASSUME NativeInv, NEW t \in Thread, Run(t) PROVE NativeInv'
  <1>1. /\ at[t] = "ready" /\ Goto(t, "running") /\ UNCHANGED <<work, inAbi, activeCalls, pool>>
        /\ IF work[t] = "prove" THEN prover = Nobody /\ prover' = t ELSE UNCHANGED prover
    BY DEF Run, NeedsProver, ProverFree
  <1>2. /\ at' \in [Thread -> {"outside"} \cup Inside] /\ at'[t] = "running"
        /\ \A u \in Thread \ {t} : at'[u] = at[u]
        /\ IsFiniteSet(InsideNow)' /\ CallsRegistered'
    BY <1>1, MovesWithin DEF Inside
  <1> QED
    BY <1>1, <1>2, NobodyAssumption DEF NativeInv, NativeTyped, Proves

LEMMA StepFinish == ASSUME NativeInv, NEW t \in Thread, NEW panicked, FinishCall(t, panicked) PROVE NativeInv'
  <1>1. /\ at[t] = "running" /\ at' = [at EXCEPT ![t] = "outside"] /\ inAbi' = [inAbi EXCEPT ![t] = FALSE]
        /\ activeCalls' = activeCalls - 1 /\ prover' = (IF prover = t THEN Nobody ELSE prover) /\ UNCHANGED <<work, pool>>
    BY DEF FinishCall, LeaveAbi, Goto
  <1>2. NativeTyped'
    BY <1>1 DEF NativeInv, NativeTyped
  <1>3. InsideNow' = InsideNow \ {t} /\ t \in InsideNow
    BY <1>1 DEF InsideNow, NativeInv, NativeTyped, Inside
  <1>4. IsFiniteSet(InsideNow') /\ Cardinality(InsideNow') = Cardinality(InsideNow) - 1
    BY <1>3, FS_RemoveElement DEF NativeInv
  <1>5. \A u \in Thread : inAbi'[u] <=> at'[u] \in Inside
    BY <1>1 DEF NativeInv, NativeTyped, CallsRegistered, Inside
  <1>6. \A u \in Thread : Proves(u)' <=> prover' = u
    BY <1>1, NobodyAssumption DEF NativeInv, NativeTyped, Proves, Inside
  <1> QED
    BY <1>1, <1>2, <1>4, <1>5, <1>6 DEF NativeInv, CallsRegistered, InsideNow

LEMMA NativeStep == NativeInv /\ [NativeNext]_nativeVars => NativeInv'
  <1> SUFFICES ASSUME NativeInv, [NativeNext]_nativeVars PROVE NativeInv'
    OBVIOUS
  <1>1. CASE UNCHANGED nativeVars
    BY <1>1 DEF nativeVars, NativeInv, NativeTyped, CallsRegistered, InsideNow, Proves
  <1> QED
    BY <1>1, StepEnterAbi, StepPool, StepPoolReady, StepRun, StepFinish DEF NativeNext

(* Whoever proves holds the lock: of two there are none. *)
LEMMA NativeInvGives == NativeInv => CallsRegistered /\ OneProver
  <1> SUFFICES ASSUME NativeInv PROVE OneProver
    BY DEF NativeInv
  <1> DEFINE proving == {t \in Thread : Proves(t)}
  <1>1. proving \subseteq {prover}
    BY DEF NativeInv
  <1>2. IsFiniteSet({prover}) /\ Cardinality({prover}) = 1
    BY FS_Singleton
  <1>3. Cardinality(proving) <= 1
    BY <1>1, <1>2, FS_Subset
  <1> QED
    BY <1>3 DEF OneProver, Proves

-----------------------------------------------------------------------------
(* Side by side, neither disturbs the other. *)
LEMMA ProversInvariant == ProversSpec => [](WorkerInv /\ NativeInv)
  <1>1. ProversInit => WorkerInv /\ NativeInv
    BY WorkerInitHolds, NativeInitHolds DEF ProversInit
  <1>2. WorkerInv /\ NativeInv /\ [ProversNext]_proverVars => (WorkerInv /\ NativeInv)'
    BY WorkerStep, NativeStep DEF ProversNext, proverVars
  <1> QED
    BY <1>1, <1>2, PTL DEF ProversSpec

(* A proof goes to the caller who asked for it, whatever deadline or crash cuts
   the exchanges before his; between two calls the pipes are empty; no process
   outlives Dispose; two proofs never share the arena, and the register tells
   which threads are inside (AdaptiveProofWorker.cs:36, native/ffi/src/lib.rs). *)
THEOREM ProversAreSound == ProversSpec => []ProversSound
  <1>1. WorkerInv /\ NativeInv => ProversSound
    BY WorkerInvGives, NativeInvGives DEF ProversSound
  <1> QED
    BY <1>1, ProversInvariant, PTL
=============================================================================
