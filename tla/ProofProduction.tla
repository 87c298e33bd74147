-------------------------- MODULE ProofProduction --------------------------
(***************************************************************************)
(* Production of recursive proofs, from                                    *)
(*   Nethermind.Consensus/ProofAggregation/ProofWrapperService.cs          *)
(*     (RefreshWrapper and BuildWrapperCore),                              *)
(*   .../ProductionProofCache.cs, .../VersionedLeanProofVerifier.cs,       *)
(*   Nethermind.Consensus/Processing/BlockProcessor.cs                     *)
(*     (PrepareProductionProof) and the cache of generated proofs of       *)
(*   Nethermind.Core/Crypto/LeanProofStore.cs.                             *)
(*                                                                         *)
(* One builder makes wrappers in the background; block producers make the  *)
(* proofs of their blocks.  They share the cache of generated proofs and   *)
(* the one lock of the prover.  The proving program is read from the head  *)
(* each time it is needed, and changes once, when the head activates       *)
(* adaptive aggregation.                                                   *)
(*                                                                         *)
(* Every transaction has a sender of its own and its witnesses published.  *)
(* Sizes in bytes, and the number of transactions in a wrapper, are left   *)
(* out: the number of claims limits a wrapper in the same way.  The token  *)
(* of the builder is cancelled only when the gossip is disposed, after     *)
(* which nothing is built: that is left out too.                           *)
(***************************************************************************)
EXTENDS Integers, SequencesExt, Subsequences

CONSTANTS
  Dep,
  Order,        \* all transactions, by hash
  DepsOf,       \* DepsOf[t]: the dependencies of a transaction
  Parent,       \* Parent[d]: the program of the recursive witness of d, None for a direct one
  Producer,     \* block processors that produce
  Builder, None,
  LegacyClaims, AdaptiveClaims,  \* claims in a wrapper, 16 and 40 in the code
  MaxCached,    \* generated proofs kept, 1024 in the code
  Programs      \* the programs the head has, in an instance

Tx == ToSet(Order)

Legacy   == 1
Adaptive == 2
Program  == {Legacy, Adaptive}

ASSUME ClaimsAssumption == LegacyClaims \in Nat \ {0} /\ AdaptiveClaims \in Nat \ {0}
ASSUME DepsAssumption == IsFiniteSet(Dep) /\ DepsOf \in [Tx -> SUBSET Dep] /\ Parent \in [Dep -> Program \cup {None}]
ASSUME ProgramsAssumption == Programs \subseteq Program
ASSUME CacheAssumption == MaxCached \in Nat \ {0}
ASSUME OrderAssumption == Order \in Seq(Tx) /\ IsInjective(Order)
ASSUME ProducerAssumption == IsFiniteSet(Producer)

VARIABLES
  program,      \* ProductionVerificationKey, which the head decides
  pool,         \* the pending transactions
  knownProgram, \* _productionProgram
  rotation,     \* _rotation
  firstSeen,    \* _firstSeen, in order of arrival
  wrapper,      \* _cachedWrapper: its transactions, the program of its proof
  grace,        \* whether _preparedAt is less than six seconds ago
  build,        \* the builder's place in BuildWrapperCore and its locals
  cached,       \* the generated proofs: _recursiveCache, oldest first
  proved,       \* ProductionProofCache._entries: the statements proved, by program
  proving,      \* the holder of _provingLock
  waiting,      \* _producersWaiting
  block,        \* each producer's place in PrepareProductionProof and its locals
  blockProof    \* _productionProofKey and _productionProof of each producer

chain    == <<program, pool>>
service  == <<knownProgram, rotation, firstSeen, wrapper, grace, build>>
prover   == <<proved, proving, waiting>>
producers == <<block, blockProof>>
vars == <<chain, service, cached, prover, producers>>
-----------------------------------------------------------------------------
DepsOfAll(S) == UNION {DepsOf[t] : t \in S}

(* The transactions of a set in hash order. *)
InOrder(S) == OnlyIn(Order, S)

Stopped == [at |-> "idle", txs |-> {}, adaptive |-> FALSE, key |-> None, proof |-> None]
Resting == [at |-> "idle", deps |-> {}, key |-> None, proof |-> None]

(* Nested proofs can only be composed under the program that made them. *)
Composable(D, p) == \A d \in D : Parent[d] \in {None, p}

(* TryGetRecursiveProof: a generated proof, or a witness for exactly D. *)
Generated(D) == {i \in 1..Len(cached) : cached[i].deps = D}

Found(D) == IF Generated(D) # {} THEN cached[Min(Generated(D))].program
            ELSE IF \E d \in D : D = {d} /\ Parent[d] # None THEN Parent[CHOOSE d \in D : TRUE]
            ELSE None

Others(D) == PartAt(cached, DOMAIN cached \ Generated(D))

Touched(D) == IF Generated(D) = {} THEN cached
              ELSE Append(Others(D), cached[Min(Generated(D))])

(* Mutant of Added: the cache is not trimmed. *)
AddedUntrimmed(D, p) ==
  IF Generated(D) # {} THEN Touched(D)
  ELSE Append(cached, [deps |-> D, program |-> p])

(* AddCachedRecursive: an entry for the same dependencies stays as it is. *)
Added(D, p) ==
  IF Generated(D) # {} THEN Touched(D)
  ELSE LET q == Append(cached, [deps |-> D, program |-> p])
       IN  IF Len(q) > MaxCached THEN Tail(q) ELSE q

(* Mutant of Chosen: a transaction that exceeds the limit is taken, too. *)
ChosenUnlimited(candidates, start, limit) ==
  LET n == Len(candidates)
      take(acc, i) == [acc EXCEPT !.txs = @ \cup {candidates[i]},
                                  !.deps = @ \cup DepsOf[candidates[i]], !.next = i % n]
      step(acc, i) == IF Composable(acc.deps \cup DepsOf[candidates[i]], program) THEN take(acc, i) ELSE acc
  IN  FoldLeft(step, [txs |-> {}, deps |-> {}, next |-> 0, full |-> FALSE],
               [i \in 1..(n - start) |-> start + i])

(* The candidates a wrapper takes, from the start on, as a fold: what is taken
   and where the next wrapper begins. *)
Chosen(candidates, start, limit) ==
  LET n == Len(candidates)
      take(acc, i) == [acc EXCEPT !.txs = @ \cup {candidates[i]},
                                  !.deps = @ \cup DepsOf[candidates[i]], !.next = i % n]
      step(acc, i) ==
        LET D == acc.deps \cup DepsOf[candidates[i]]
        IN  IF acc.full \/ DepsOf[candidates[i]] = {} THEN acc
            ELSE IF D = acc.deps THEN take(acc, i)
            ELSE IF Cardinality(D) > limit
                 THEN IF acc.txs = {} THEN acc ELSE [acc EXCEPT !.next = i - 1, !.full = TRUE]
            ELSE IF Composable(D, program) THEN take(acc, i) ELSE acc
  IN  FoldLeft(step, [txs |-> {}, deps |-> {}, next |-> 0, full |-> FALSE],
               [i \in 1..(n - start) |-> start + i])

Init ==
  /\ program \in Programs /\ pool = {}
  /\ knownProgram = None /\ rotation = 0 /\ firstSeen = <<>>
  /\ wrapper = None /\ grace = FALSE /\ build = Stopped
  /\ cached = <<>> /\ proved = {} /\ proving = None /\ waiting = 0
  /\ block = [b \in Producer |-> Resting]
  /\ blockProof = [b \in Producer |-> Resting]
-----------------------------------------------------------------------------
(* The environment. *)
Activate ==
  /\ program = Legacy /\ Adaptive \in Programs /\ program' = Adaptive
  /\ UNCHANGED <<pool, service, cached, prover, producers>>

Arrive(t) ==
  /\ pool' = pool \cup {t}
  /\ UNCHANGED <<program, service, cached, prover, producers>>

Leave(t) ==
  /\ pool' = pool \ {t}
  /\ UNCHANGED <<program, service, cached, prover, producers>>

GraceEnds ==
  /\ grace /\ grace' = FALSE
  /\ UNCHANGED <<chain, knownProgram, rotation, firstSeen, wrapper, build, cached, prover, producers>>
-----------------------------------------------------------------------------
(* A build copies the pending transactions and drops what another program
   left. *)
Collect ==
  /\ build.at = "idle"
  /\ build' = [Stopped EXCEPT !.at = "collected", !.txs = pool]
  /\ \/ knownProgram = program /\ UNCHANGED <<knownProgram, firstSeen, wrapper, cached>>
     \/ /\ knownProgram # program /\ knownProgram' = program
        /\ firstSeen' = <<>> /\ wrapper' = None /\ cached' = <<>>
  /\ UNCHANGED <<chain, rotation, grace, prover, producers>>

(* The candidates in the order of their arrival, those seen for the first time
   last. *)
Arrived == LET old == OnlyIn(firstSeen, build.txs)
           IN  old \o InOrder(build.txs \ ToSet(old))

(* Mutant of Start: every wrapper begins with the first candidate. *)
StartFirst(n) == 0

Start(n) == IF program = Adaptive \/ n = 0 THEN 0 ELSE rotation % n

(* The prepared group keeps its place, there is nothing to prove, the
   selection has its wrapper, or the batch is still forming: the build ends.
   Otherwise it goes on to prove. *)
Select ==
  /\ build.at = "collected"
  /\ LET adaptive == program = Adaptive
     IN  \E candidates \in {IF adaptive THEN Arrived ELSE InOrder(build.txs)} :
         \E c \in {Chosen(candidates, Start(Len(candidates)), IF adaptive THEN AdaptiveClaims ELSE LegacyClaims)} :
           LET retained == adaptive /\ wrapper # None /\ grace /\ wrapper.txs \subseteq pool
               done == c.txs = {} \/ (wrapper # None /\ wrapper.txs = c.txs /\ c.txs \subseteq pool)
           IN  \/ retained /\ build' = Stopped /\ UNCHANGED <<rotation, firstSeen>>
               \/ /\ ~retained
                  /\ rotation' = c.next
                  /\ firstSeen' = IF adaptive THEN candidates ELSE firstSeen
                  /\ \/ (done \/ adaptive) /\ build' = Stopped
                     \/ ~done /\ build' = [Stopped EXCEPT !.at = "selected", !.txs = c.txs, !.adaptive = adaptive]
  /\ UNCHANGED <<chain, knownProgram, wrapper, grace, cached, prover, producers>>

LookUp ==
  LET D == DepsOfAll(build.txs)
  IN  /\ build.at = "selected"
      /\ cached' = Touched(D)
      /\ build' = IF Found(D) # None THEN [build EXCEPT !.at = "proved", !.proof = Found(D)]
                  ELSE [build EXCEPT !.at = "missing"]
      /\ UNCHANGED <<chain, knownProgram, rotation, firstSeen, wrapper, grace, prover, producers>>

(* Mutant of BuilderAsks: the builder takes the prover whenever it is free. *)
BuilderAsksFirst ==
  /\ build.at = "missing" /\ proving = None
  /\ proving' = Builder
  /\ build' = [build EXCEPT !.at = "entered", !.key = program]
  /\ UNCHANGED <<chain, knownProgram, rotation, firstSeen, wrapper, grace, cached, proved, waiting, producers>>

(* ProveRecursiveStark for the builder, which yields to producers: a statement
   proved before is at hand, unless it was forgotten. *)
BuilderAsks ==
  /\ build.at = "missing"
  /\ \/ /\ <<DepsOfAll(build.txs), program>> \in proved
        /\ build' = [build EXCEPT !.at = "proved", !.proof = program]
        /\ UNCHANGED proving
     \/ /\ waiting # 0 \/ proving # None
        /\ build' = Stopped
        /\ UNCHANGED proving
     \/ /\ waiting = 0 /\ proving = None
        /\ proving' = Builder
        /\ build' = [build EXCEPT !.at = "entered", !.key = program]
  /\ UNCHANGED <<chain, knownProgram, rotation, firstSeen, wrapper, grace, cached, proved, waiting, producers>>

(* Inside the lock the builder looks again whether a producer waits. *)
BuilderYields ==
  /\ build.at = "entered"
  /\ \/ waiting # 0 /\ build' = Stopped /\ proving' = None
     \/ waiting = 0 /\ build' = [build EXCEPT !.at = "proving"] /\ UNCHANGED proving
  /\ UNCHANGED <<chain, knownProgram, rotation, firstSeen, wrapper, grace, cached, proved, waiting, producers>>

(* A legacy build extends the proof of the wrapper it overlaps. *)
Extended(D) == IF ~build.adaptive /\ wrapper # None
               THEN IF DepsOfAll(wrapper.txs) \cap D # {} THEN {wrapper.program} ELSE {}
               ELSE {}

(* The prover answers: a proof under the key of the request, which is verified
   under this key and remembered, or a failure. *)
BuilderProves ==
  LET D == DepsOfAll(build.txs)
  IN  /\ build.at = "proving" /\ Composable(D, build.key) /\ Extended(D) \subseteq {build.key}
      /\ build' = [build EXCEPT !.at = "proved", !.proof = build.key]
      /\ proved' = proved \cup {<<D, build.key>>}
      /\ proving' = None
      /\ UNCHANGED <<chain, knownProgram, rotation, firstSeen, wrapper, grace, cached, waiting, producers>>

(* Larger inputs are proved in parts, each under the program of its moment; one
   failure, or a change of program between them, fails the whole. *)
BuilderFails ==
  /\ build.at = "proving"
  /\ build' = Stopped /\ proving' = None
  /\ UNCHANGED <<chain, knownProgram, rotation, firstSeen, wrapper, grace, cached, proved, waiting, producers>>

(* A group that lost a member is not shared with the proposer. *)
Share ==
  /\ build.at = "proved"
  /\ \/ /\ build.adaptive /\ ~(build.txs \subseteq pool)
        /\ build' = Stopped /\ UNCHANGED cached
     \/ /\ build.adaptive => build.txs \subseteq pool
        /\ cached' = Added(DepsOfAll(build.txs), build.proof)
        /\ build' = [build EXCEPT !.at = "shared"]
  /\ UNCHANGED <<chain, knownProgram, rotation, firstSeen, wrapper, grace, prover, producers>>

Expose ==
  /\ build.at = "shared" /\ build' = Stopped
  /\ \/ /\ build.txs \subseteq pool
        /\ wrapper' = [txs |-> build.txs, program |-> build.proof]
        /\ grace' = TRUE
     \/ ~(build.txs \subseteq pool) /\ UNCHANGED <<wrapper, grace>>
  /\ UNCHANGED <<chain, knownProgram, rotation, firstSeen, cached, prover, producers>>

Build == \/ Collect \/ Select \/ LookUp \/ BuilderAsks \/ BuilderYields
         \/ BuilderProves \/ BuilderFails \/ Share \/ Expose
-----------------------------------------------------------------------------
Goto(b, r) == block' = [block EXCEPT ![b] = r]

(* The block is done: its processor remembers the proof it publishes, unless
   the proposal was cancelled meanwhile. *)
Finish(b, p) ==
  /\ Goto(b, Resting)
  /\ \/ blockProof' = [blockProof EXCEPT ![b] = [block[b] EXCEPT !.at = "idle", !.proof = p]]
     \/ UNCHANGED blockProof

(* PrepareProductionProof for a block of pending transactions. *)
Produce(b, S) ==
  /\ block[b].at = "idle" /\ S \subseteq pool /\ DepsOfAll(S) # {}
  /\ \/ /\ blockProof[b].deps = DepsOfAll(S) /\ blockProof[b].key = program
        /\ UNCHANGED block
     \/ /\ ~(blockProof[b].deps = DepsOfAll(S) /\ blockProof[b].key = program)
        /\ Goto(b, [Resting EXCEPT !.at = "started", !.deps = DepsOfAll(S), !.key = program])
  /\ UNCHANGED <<chain, service, cached, prover, blockProof>>

BlockLooksUp(b) ==
  LET D == block[b].deps
  IN  /\ block[b].at = "started"
      /\ cached' = Touched(D)
      /\ Goto(b, [block[b] EXCEPT !.at = IF Found(D) # None THEN "found" ELSE "missing", !.proof = Found(D)])
      /\ UNCHANGED <<chain, service, prover, blockProof>>

(* Mutant of BlockVerifies: what the cache holds is used unverified. *)
BlockTrusts(b) ==
  /\ block[b].at = "found"
  /\ Finish(b, block[b].proof)
  /\ UNCHANGED <<chain, service, cached, prover>>

(* A generated proof that does not verify under the program of the moment
   leaves the cache, unless another one is there by now. *)
BlockVerifies(b) ==
  LET D == block[b].deps
  IN  /\ block[b].at = "found"
      /\ \/ /\ block[b].proof = program
            /\ Finish(b, program)
            /\ UNCHANGED cached
         \/ /\ block[b].proof # program
            /\ cached' = Without(cached, {[deps |-> D, program |-> block[b].proof]})
            /\ Goto(b, [block[b] EXCEPT !.at = "missing", !.proof = None])
            /\ UNCHANGED blockProof
      /\ UNCHANGED <<chain, service, prover>>

BlockAsks(b) ==
  /\ block[b].at = "missing"
  /\ \/ /\ <<block[b].deps, program>> \in proved
        /\ Goto(b, [block[b] EXCEPT !.at = "proved", !.proof = program])
        /\ UNCHANGED waiting
     \/ /\ waiting' = waiting + 1
        /\ Goto(b, [block[b] EXCEPT !.at = "waiting", !.proof = program])
  /\ UNCHANGED <<chain, service, cached, proved, proving, blockProof>>

BlockEnters(b) ==
  /\ block[b].at = "waiting" /\ proving = None
  /\ waiting' = waiting - 1
  /\ \/ /\ <<block[b].deps, block[b].proof>> \in proved
        /\ Goto(b, [block[b] EXCEPT !.at = "proved"])
        /\ UNCHANGED proving
     \/ /\ proving' = b
        /\ Goto(b, [block[b] EXCEPT !.at = "proving"])
  /\ UNCHANGED <<chain, service, cached, proved, blockProof>>

(* Mutant of BlockCancelled: a producer that gives up still counts. *)
BlockCancelledCounted(b) ==
  /\ block[b].at = "waiting"
  /\ Goto(b, Resting)
  /\ UNCHANGED <<chain, service, cached, prover, blockProof>>

(* The proposal is cancelled while it waits for the prover. *)
BlockCancelled(b) ==
  /\ block[b].at = "waiting"
  /\ waiting' = waiting - 1
  /\ Goto(b, Resting)
  /\ UNCHANGED <<chain, service, cached, proved, proving, blockProof>>

BlockProves(b) ==
  /\ block[b].at = "proving"
  /\ proving' = None
  /\ \/ /\ Composable(block[b].deps, block[b].proof)
        /\ proved' = proved \cup {<<block[b].deps, block[b].proof>>}
        /\ Goto(b, [block[b] EXCEPT !.at = "proved"])
     \/ Goto(b, Resting) /\ UNCHANGED proved
  /\ UNCHANGED <<chain, service, cached, waiting, blockProof>>

BlockPublishes(b) ==
  /\ block[b].at = "proved"
  /\ cached' = Added(block[b].deps, block[b].proof)
  /\ Finish(b, block[b].proof)
  /\ UNCHANGED <<chain, service, prover>>

Block(b) == \/ \E S \in SUBSET Tx : Produce(b, S)
            \/ BlockLooksUp(b) \/ BlockVerifies(b) \/ BlockAsks(b) \/ BlockEnters(b)
            \/ BlockCancelled(b) \/ BlockProves(b) \/ BlockPublishes(b)

Next ==
  \/ Activate \/ GraceEnds
  \/ \E t \in Tx : Arrive(t) \/ Leave(t)
  \/ Build
  \/ \E b \in Producer : Block(b)

Spec == Init /\ [][Next]_vars

(* The gossip starts a build on each cadence and a batch that forms gets
   ready; a statement asked for over and over is proved in the end, and time
   passes. *)
FairSpec ==
  /\ Spec
  /\ WF_vars(Build) /\ WF_vars(GraceEnds)
  /\ SF_vars(Select /\ build'.at = "selected")
  /\ \A t \in Tx : SF_vars(BuilderProves /\ t \in build.txs)

(* The prover answers, and who waits for its lock tries again every 50 ms. *)
ProverFairSpec ==
  /\ Spec
  /\ WF_vars(BuilderYields) /\ WF_vars(BuilderProves \/ BuilderFails)
  /\ \A b \in Producer : WF_vars(BlockEnters(b)) /\ WF_vars(BlockProves(b))
-----------------------------------------------------------------------------
TypeOK ==
  /\ program \in Program /\ pool \subseteq Tx /\ knownProgram \in Program \cup {None}
  /\ rotation \in 0..Len(Order) /\ firstSeen \in Seq(Tx) /\ IsInjective(firstSeen)
  /\ wrapper \in [txs : SUBSET Tx, program : Program] \cup {None}
  /\ grace \in BOOLEAN
  /\ build \in [at : {"idle", "collected", "selected", "missing", "entered", "proving", "proved", "shared"},
                txs : SUBSET Tx, adaptive : BOOLEAN,
                key : Program \cup {None}, proof : Program \cup {None}]
  /\ cached \in Seq([deps : SUBSET Dep, program : Program]) /\ Len(cached) <= MaxCached
  /\ proved \subseteq (SUBSET Dep) \X Program
  /\ proving \in Producer \cup {Builder, None} /\ waiting \in Nat
  /\ block \in [Producer -> [at : {"idle", "started", "found", "missing", "waiting", "proving", "proved"},
                             deps : SUBSET Dep, key : Program \cup {None}, proof : Program \cup {None}]]
  /\ blockProof \in [Producer -> [at : {"idle"}, deps : SUBSET Dep,
                                  key : Program \cup {None}, proof : Program \cup {None}]]

(* The count of waiting producers, which keeps the builder off the prover,
   is exact through every cancellation: no wrapper is held up for good. *)
WaitingCounted == waiting = Cardinality({b \in Producer : block[b].at = "waiting"})

(* The proof a producer publishes is never older than its proposal, so a block
   after the activation does not carry a proof of the old program. *)
BlockProofFresh == \A b \in Producer : blockProof[b].key # None => blockProof[b].proof >= blockProof[b].key

(* What a producer waits behind and what he publishes are his own: the count
   that keeps the builder away is exact and the proof is of his program. *)
ProducersSound == WaitingCounted /\ BlockProofFresh

(* A wrapper holds no more claims than the limit of the moment it was selected,
   from wherever in the candidates the rotation began: the limit of the legacy
   program until the head activates the adaptive one, and then either. *)
WrapperFits ==
  wrapper # None =>
    \/ Cardinality(DepsOfAll(wrapper.txs)) <= LegacyClaims
    \/ program = Adaptive /\ Cardinality(DepsOfAll(wrapper.txs)) <= AdaptiveClaims

(* "Generated proof caches are cleared when that identity changes": the
   wrapper on offer was not proved under a program older than the one the
   builder last cleared its caches for. *)
WrapperProgramCurrent == wrapper # None => wrapper.program >= knownProgram

(* Whatever a producer that waits for the prover, it gets it or gives up: a
   background proof in progress ends, and no other one begins before. *)
ProducerServed == \A b \in Producer : block[b].at = "waiting" ~> block[b].at # "waiting"

(* When the pool stops changing, each of its transactions gets into a wrapper
   on offer, in its turn. *)
EveryTransactionWrapped ==
  \A t \in {u \in Tx : DepsOf[u] # {}} :
     (<>[][FALSE]_pool /\ <>[](t \in pool)) => <>(wrapper # None /\ t \in wrapper.txs)
=============================================================================
