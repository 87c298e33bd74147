---------------------------- MODULE AggregateTree ----------------------------
(***************************************************************************)
(* How the native prover makes one recursive proof of exactly the claims   *)
(* that are asked for: prove_aggregate and aggregate_bounded of            *)
(* native/ffi/src/lib.rs over aggregate_mixed of eip8288_mixed.rs.         *)
(*                                                                         *)
(* A claim is a dependency; a proof is the set of claims it proves, and    *)
(* its commitment is that set (the hash is injective).  The prover keeps a *)
(* row of proofs and joins neighbours until one is left; aggregate_mixed   *)
(* proves a selection of what its inputs prove, and refuses a call outside *)
(* its limits.                                                             *)
(***************************************************************************)
EXTENDS Subsequences

CONSTANTS
  Raw, Generic,   \* claims of a SPHINCS+ signature (0x10), of a STARK (0x11)
  ChildRows,      \* rows of recursive proofs a request may bring
  LeafSize,       \* DAISUGI_BENCH_LEAF_SIZE; 0 stands for a variable that is not set
  MaxRaw,         \* MAX_RAW_SPHINCS
  MaxGeneric,     \* MAX_GENERIC_DEPENDENCIES
  MaxClaims,      \* MAX_DEPENDENCIES
  MaxChildren     \* MAX_RECURSIONS

Claim == Raw \cup Generic
FanIn == 2        \* RECURSIVE_FAN_IN

ASSUME TreeAssumption ==
  /\ Raw \cap Generic = {} /\ IsFiniteSet(Raw) /\ IsFiniteSet(Generic)
  /\ ChildRows \subseteq Seq(SUBSET Claim)
  /\ LeafSize \in 0..MaxRaw
  /\ MaxRaw \in Nat /\ MaxGeneric \in Nat /\ MaxClaims \in Nat /\ MaxChildren \in Nat

VARIABLES
  step,       \* "idle", "leaves", "joining", "answered", "refused" or "failed"
  desired,    \* deps of prove_aggregate: the claims the proof must prove
  raw,        \* the signatures that still need a leaf
  generic,    \* the STARKs that still need a leaf
  nodes,      \* the row of proofs of this level
  next,       \* the row of the level above
  calls       \* the last call of aggregate_mixed, for the properties

treeVars == <<step, desired, raw, generic, nodes, next, calls>>

Elems(s) == {s[i] : i \in DOMAIN s}
Proven(row) == UNION Elems(row)
NoCall == [inputs |-> <<>>, raws |-> {}, generics |-> {}, selected |-> {}]

TreeInit ==
  /\ step = "idle"
  /\ desired = {} /\ raw = {} /\ generic = {}
  /\ nodes = <<>> /\ next = <<>>
  /\ calls = NoCall
-----------------------------------------------------------------------------
(* check_dependencies of eip8288_mixed.rs; the sort order and the absence of
   duplicates come with sets. *)
CheckDependencies(claims) ==
  /\ Cardinality(claims) <= MaxClaims
  /\ Cardinality(claims \cap Generic) <= MaxGeneric

(* Inputs of one kind at most, and every selected claim is proved by one. *)
Prepared(c) ==
  /\ CheckDependencies(c.selected)
  /\ Len(c.inputs) <= FanIn
  /\ Cardinality(c.raws) <= MaxRaw /\ Cardinality(c.generics) <= 1
  /\ c.inputs # <<>> => c.raws = {} /\ c.generics = {}
  /\ c.raws # {} => c.generics = {}
  /\ \A i \in DOMAIN c.inputs : CheckDependencies(c.inputs[i])
  /\ c.selected \subseteq c.raws \cup c.generics \cup Proven(c.inputs)

(* aggregate_mixed: a refused call and a prover that fails end the request. *)
AggregateMixed(inputs, raws, generics, selected) ==
  calls' = [inputs |-> inputs, raws |-> raws, generics |-> generics, selected |-> selected]

Fail ==
  /\ step \in {"leaves", "joining"}
  /\ step' = "failed"
  /\ UNCHANGED <<desired, raw, generic, nodes, next, calls>>
-----------------------------------------------------------------------------
(* Mutant of Uncovered: what a child proves is proved again. *)
UncoveredByNone(wanted, children) == wanted

Uncovered(wanted, children) == wanted \ Proven(children)

(* Mutant of Touching: a child that proves more than is asked for is left out. *)
TouchingWithin(children, wanted) ==
  SelectSeq(children, LAMBDA child : child \subseteq wanted)

(* The places of the children that prove something that is asked for, and these
   children in their order. *)
Hits(children, wanted) == {i \in DOMAIN children : children[i] \cap wanted # {}}

Touching(children, wanted) == PartAt(children, Hits(children, wanted))

Desired(witnesses, children, discards) == (witnesses \cup Proven(children)) \ discards

(* A witness that does not verify, a child that does not prove exactly what is
   declared of it, or a hash that does not commit to what is left. *)
Refuse ==
  /\ step = "idle"
  /\ step' = "refused"
  /\ UNCHANGED <<desired, raw, generic, nodes, next, calls>>

(* Everything verified; the claims that no child proves need a leaf, once each. *)
ReceiveRequest(rs, gs, cs, discards) ==
  LET wanted == Desired(rs \cup gs, cs, discards)
      children == Touching(cs, wanted)
  IN /\ step = "idle"
     /\ Cardinality(rs \cup gs) <= MaxClaims /\ Len(cs) <= MaxChildren
     /\ \A i \in DOMAIN cs : CheckDependencies(cs[i])
     /\ CheckDependencies(wanted)
     /\ desired' = wanted
     /\ raw' = rs \cap Uncovered(wanted, children)
     /\ generic' = gs \cap Uncovered(wanted, children)
     /\ \/ /\ wanted = {}                        \* nothing to prove
           /\ step' = "answered" /\ nodes' = <<>>
        \/ /\ wanted \in Elems(children)         \* a child is the proof already
           /\ step' = "answered" /\ nodes' = <<wanted>>
        \/ /\ wanted # {} /\ wanted \notin Elems(children)
           /\ step' = IF LeafSize = 0 THEN "failed" ELSE "leaves"
           /\ nodes' = children
     /\ UNCHANGED <<next, calls>>

(* Mutant of IsLeaf: the last chunk must be full as well. *)
IsFullLeaf(leaf) == Cardinality(leaf) = LeafSize

(* A chunk of raw.chunks(leaf size): only the last one may be smaller. *)
IsLeaf(leaf) ==
  /\ leaf # {}
  /\ \/ Cardinality(leaf) = LeafSize
     \/ Cardinality(leaf) < LeafSize /\ leaf = raw

RawLeaf ==
  /\ step = "leaves"
  /\ \E leaf \in SUBSET raw :
       /\ IsLeaf(leaf)
       /\ AggregateMixed(<<>>, leaf, {}, leaf)
       /\ nodes' = Append(nodes, leaf)
       /\ raw' = raw \ leaf
  /\ UNCHANGED <<step, desired, generic, next>>

GenericLeaf ==
  /\ step = "leaves" /\ raw = {}
  /\ \E g \in generic :
       /\ AggregateMixed(<<>>, {}, {g}, {g})
       /\ nodes' = Append(nodes, {g})
       /\ generic' = generic \ {g}
  /\ UNCHANGED <<step, desired, raw, next>>

BeginJoining ==
  /\ step = "leaves" /\ raw = {} /\ generic = {}
  /\ step' = "joining"
  /\ UNCHANGED <<desired, raw, generic, nodes, next, calls>>

(* Mutant of Batch: one proof too many is joined. *)
BatchOfThree == IF Len(nodes) <= FanIn THEN nodes ELSE SubSeq(nodes, 1, FanIn + 1)

Batch == IF Len(nodes) < FanIn THEN nodes ELSE SubSeq(nodes, 1, FanIn)

Rest == SubSeq(nodes, Len(Batch) + 1, Len(nodes))

(* Mutant of Selected: the claims nobody asked for are carried along. *)
SelectedAll(batch) == Proven(batch)

Selected(batch) == Proven(batch) \cap desired

(* A level is a loop over the row two by two; a last one alone that proves
   nothing else is taken up as it is. *)
Level == Len(nodes) + Len(next) > 1

Join ==
  /\ step = "joining" /\ Level /\ nodes # <<>>
  /\ \/ /\ Len(Batch) = 1 /\ Batch[1] = Selected(Batch)
        /\ next' = Append(next, Batch[1])
        /\ UNCHANGED calls
     \/ /\ ~(Len(Batch) = 1 /\ Batch[1] = Selected(Batch))
        /\ AggregateMixed(Batch, {}, {}, Selected(Batch))
        /\ next' = Append(next, Selected(Batch))
  /\ nodes' = Rest
  /\ UNCHANGED <<step, desired, raw, generic>>

NextLevel ==
  /\ step = "joining" /\ nodes = <<>>
  /\ nodes' = next /\ next' = <<>>
  /\ UNCHANGED <<step, desired, raw, generic, calls>>

(* One proof is left; it is narrowed to what was asked for if it proves more. *)
Answer ==
  /\ step = "joining" /\ Len(nodes) = 1 /\ next = <<>>
  /\ step' = "answered"
  /\ IF nodes[1] = desired
     THEN UNCHANGED <<nodes, calls>>
     ELSE /\ AggregateMixed(nodes, {}, {}, desired)
          /\ nodes' = <<desired>>
  /\ UNCHANGED <<desired, raw, generic, next>>

TreeNext ==
  \/ \E rs \in SUBSET Raw, gs \in SUBSET Generic, cs \in ChildRows, discards \in SUBSET Claim :
       ReceiveRequest(rs, gs, cs, discards)
  \/ Refuse \/ RawLeaf \/ GenericLeaf \/ BeginJoining \/ Join \/ NextLevel \/ Answer \/ Fail

Steps == RawLeaf \/ GenericLeaf \/ BeginJoining \/ Join \/ NextLevel \/ Answer

TreeSpec == TreeInit /\ [][TreeNext]_treeVars /\ WF_treeVars(Steps)
-----------------------------------------------------------------------------
TreeTypeOK ==
  /\ step \in {"idle", "leaves", "joining", "answered", "refused", "failed"}
  /\ desired \in SUBSET Claim
  /\ raw \in SUBSET Raw /\ generic \in SUBSET Generic
  /\ nodes \in Seq(SUBSET Claim) /\ next \in Seq(SUBSET Claim)

(* aggregate_mixed is never called outside its limits: no more inputs than it
   takes, of one kind, each within its own bounds, and nothing is selected that
   they do not prove.  A request that is accepted is not lost to such a call. *)
CallsPrepared == Prepared(calls)

(* No claim that is asked for gets lost between the witnesses, the leaves and
   the levels of the tree. *)
ClaimsCovered ==
  step \in {"leaves", "joining"} =>
    desired \subseteq raw \cup generic \cup Proven(nodes) \cup Proven(next)

(* A claim is proved from its witness once, and never when a child proves it. *)
LeavesNew == step = "leaves" => (raw \cup generic) \cap Proven(nodes) = {}

(* The levels above the leaves prove nothing but what is asked for, and each of
   them something: claims are dropped on the way, not carried to the root. *)
LevelsNarrow == \A i \in DOMAIN next : next[i] # {} /\ next[i] \subseteq desired

(* A proof that is accepted to be made is made: every call it takes is one the
   prover takes, no claim is lost or proved twice on the way, and none that
   nobody asked for is carried to the root. *)
TreeSound == TreeTypeOK /\ CallsPrepared /\ ClaimsCovered /\ LeavesNew /\ LevelsNarrow

(* The tree has an end: a request that was accepted is answered or fails. *)
TreeEnds == step \in {"leaves", "joining"} ~> step \in {"answered", "failed"}
=============================================================================
