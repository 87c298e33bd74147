------------------------------ MODULE MCSafety ------------------------------
(* Components side by side, for their safety: each behaviour is of one of them,
   "part", while the others rest in their initial states. *)
EXTENDS LeanProofGossip, BlockStreamer, EngineMethods, TLC

CONSTANTS p1, p2, d1, t1, t2, v1, j1

(* Instructions with two fields at the edges of a width; payloads of every
   shape that the limits can tell apart. *)
Edges == {0, 1, 2, 3, 65523, 65524, 65531, 65532, 65535, 65536}
MCInstructions ==
  {[tag |-> t, field |-> [[i \in 1..11 |-> 0] EXCEPT ![f] = v, ![g] = w]] :
     t \in 0..7, f \in 1..11, g \in 1..11, v \in Edges, w \in Edges}
Phases == {[rows |-> [i \in 1..n |-> l], digests |-> d] : n \in {0, 1, 6, 12, 13}, l \in 0..1, d \in 0..1}
MCPayloads ==
  {[points |-> <<a, b, 0>>, stream |-> s, phases |-> ph, more |-> m, extra |-> e] :
     a \in {0, 2}, b \in 0..1, s \in {0, 2, 3}, ph \in UNION {[1..k -> Phases] : k \in 0..2},
     m \in 0..1, e \in {-8, 0, 8}}
MCLengths == {0, 1, 51, 52, 53, 147, 148, 149}

(* Two of a kind: the wrappers that are gossiped are alike, and so are the tasks
   of the consensus client and the callers of the engine.  So are two peers. *)
Twins == {t1, t2}
MCSendOf == [p \in Peer |-> d1]
MCAlike == {f @@ g : f \in Permutations(Twins), g \in Permutations(Peer)}

(* Configurations whose later forks come at any epoch or never, in order except
   for Daisugi, with two schedules of blobs. *)
Epochs == (0..4) \cup {None}
NotAfter(e, f) == f = None \/ (e # None /\ e <= f)
Orders == {o \in {0, 2} \X Epochs \X Epochs \X Epochs : \A i \in 1..3 : NotAfter(o[i], o[i + 1])}
Plain ==
  {[preset |-> "mainnet", seconds |-> 12, ms |-> None, boost |-> None, fields |-> <<>>,
    epoch |-> ("base" :> 0) @@ ("altair" :> 0) @@ ("bellatrix" :> 0) @@ ("capella" :> 0)
              @@ ("deneb" :> o[1]) @@ ("electra" :> o[2]) @@ ("fulu" :> o[3]) @@ ("gloas" :> o[4])
              @@ ("daisugi" :> a),
    version |-> v, blobs |-> b] :
     o \in Orders, a \in Epochs, v \in {"daisugi", "electra", "zero"},
     b \in {{}, {[epoch |-> 3, max |-> 3], [epoch |-> 4, max |-> 1]}}}

(* Files of one schedule, for each preset and one that is none: with the length of a
   slot in either unit or both, and with other fields than those that are the rule. *)
Sample ==
  CHOOSE c \in Plain : c.epoch["electra"] = 0 /\ c.epoch["fulu"] = None /\ c.epoch["daisugi"] = None
                       /\ c.blobs # {}
MCFiles ==
  Plain \cup
  {[Sample EXCEPT !.preset = p, !.seconds = t[1], !.ms = t[2], !.boost = boost, !.fields = fields,
                  !.epoch["fulu"] = fulu, !.epoch["gloas"] = -1] :
     p \in {"mainnet", "minimal", "gnosis", "other"}, boost \in {None, 20}, fulu \in {-1, 2},
     t \in {<<12, None>>, <<None, 6000>>, <<None, 12500>>, <<5, 5000>>, <<10, 12000>>, <<None, None>>},
     fields \in {<<>>, "attestation_due_bps" :> 10001, "payload_due_bps" :> 10001,
                 ("attestation_subnet_count" :> 65) @@ ("max_request_blocks" :> 10)}}

(* A chain that forks after the block the node began with. *)
MCParent == ("g" :> "g") @@ ("k" :> "g") @@ ("a" :> "k") @@ ("b" :> "k") @@ ("c" :> "a")
MCSlot == ("g" :> 0) @@ ("k" :> 2) @@ ("a" :> 3) @@ ("b" :> 4) @@ ("c" :> 5)

MCStored ==
  ("b1" :> "blinded") @@ ("b2" :> "blinded") @@ ("b3" :> "full") @@ ("b4" :> "missing") @@ ("b5" :> "broken")
MCRequests == {<<"b1", "b3", "b2">>, <<"b4", "b1", "b2">>, <<"b2", "b5", "b1", "b2">>, <<"b3">>}

(* An engine from before Electra and one that knows every fork. *)
Old == {<<"newPayload", 1>>, <<"getPayload", 1>>, <<"getPayload", 4>>, <<"clientVersion", 1>>}
New == {<<"newPayload", 4>>, <<"newPayload", 5>>, <<"getPayload", 4>>, <<"getPayload", 5>>,
        <<"forkchoice", 1>>, <<"forkchoice", 3>>, <<"clientVersion", 1>>}
MCBuilds == {Old, New}
MCAsks ==
  {[kind |-> "newPayload", of |-> "capella"], [kind |-> "newPayload", of |-> "daisugi"],
   [kind |-> "getPayload", of |-> "daisugi"]}
  \cup [kind : {"forkchoice", "clientVersion", "refresh"}, of : {"none"}]

(* What a payload may ask of the beacon chain for the one validator. *)
MCPayloadRequests == {{}, {[kind |-> "full", of |-> v1]}, {[kind |-> "partial", of |-> v1]}}

VARIABLES
  part,    \* the component a behaviour is of
  x1, x2, x3, x4, x5, x6, x7, x8, x9, x10   \* its variables, in the order its module names them

Codec == INSTANCE ProofCodec WITH
  MaxBytes <- 256, MaxDeps <- 2, StreamCap <- 2, MaxPoints <- 1, MaxPhases <- 2,
  MaxRows <- 12, Instructions <- MCInstructions, Payloads <- MCPayloads,
  Lengths <- MCLengths,
  instruction <- x1, payload <- x2, envelope <- x3

Payload == INSTANCE PayloadChoice WITH
  Values <- {0, 99, 100, 199, 200, 300}, MaxValue <- 300,
  Boosts <- {0, 50, 100, 150, 300}, GasLimits <- {0, 3, 4, 8, 12, 13, 16},
  MaxGasLimit <- 16, GasFactor <- 4,
  choosing <- x1, proposal <- x2, engine <- x3, relay <- x4, localPayload <- x5,
  bid <- x6, payloadCache <- x7, chosen <- x8, posts <- x9

Forkchoice == INSTANCE EngineForkchoice WITH
  Task <- {t1}, Idle <- None, Validator <- {v1}, Proposer <- [s \in 1..3 |-> v1],
  BadPayload <- {2}, Retain <- 1, MaxSlot <- 3, MaxHeads <- 2,
  slot <- x1, lookahead <- x2, heads <- x3, preparation <- x4, proposers <- x5,
  task <- x6, engineLock <- x7, told <- x8, newest <- x9, verdict <- x10

Reorg == INSTANCE EngineForkchoice WITH
  Task <- Twins, Idle <- None, Validator <- {v1}, Proposer <- [s \in 1..2 |-> v1],
  BadPayload <- {2}, Retain <- 1, MaxSlot <- 2, MaxHeads <- 3,
  slot <- x1, lookahead <- x2, heads <- x3, preparation <- x4, proposers <- x5,
  task <- x6, engineLock <- x7, told <- x8, newest <- x9, verdict <- x10

Schedule == INSTANCE ForkSchedule WITH
  Files <- MCFiles, Never <- None, SlotsPerEpoch <- 2, LastEpoch <- 5,
  BlobLimit <- 1, BlobLimitElectra <- 2, BlobRetention <- 2, ColumnRetention <- 2,
  config <- x1, phase <- x2, beacon <- x3

History == INSTANCE ChainHistory WITH
  Block <- {"g", "k", "a", "b", "c"}, Genesis <- "g", Parent <- MCParent,
  SlotOf <- MCSlot, Anchor <- "k", Window <- 2, EpochLength <- 2, LastSlot <- 6,
  MaxSeen <- 2, Unknown <- None,
  now <- x1, head <- x2, oldest <- x3, valid <- x4, query <- x5, seen <- x6

(* Blocks of others for three epochs; a production beside them; two of one slot. *)
Chain == INSTANCE BlockProduction WITH
  SlotsPerEpoch <- 2, Historical <- 4, ForkSlots <- {0, 2}, LastSlot <- 6,
  Job <- {}, Validator <- {}, RequestSets <- {{}}, Values <- {1},
  Funds <- 2, Gwei <- 100, Worths <- {0, 100}, Boosts <- {0, 100}, MaxForeign <- 4,
  Nothing <- None,
  forkSlot <- x1, clock <- x2, head <- x3, envelope <- x4, executed <- x5,
  exitPool <- x6, bidCache <- x7, pending <- x8, jobs <- x9, foreign <- x10

Producing == INSTANCE BlockProduction WITH
  SlotsPerEpoch <- 2, Historical <- 4, ForkSlots <- {0, 2}, LastSlot <- 3,
  Job <- {j1}, Validator <- {v1}, RequestSets <- MCPayloadRequests, Values <- {1},
  Funds <- 2, Gwei <- 100, Worths <- {0, 100}, Boosts <- {0, 100}, MaxForeign <- 1,
  Nothing <- None,
  forkSlot <- x1, clock <- x2, head <- x3, envelope <- x4, executed <- x5,
  exitPool <- x6, bidCache <- x7, pending <- x8, jobs <- x9, foreign <- x10

Racing == INSTANCE BlockProduction WITH
  SlotsPerEpoch <- 2, Historical <- 4, ForkSlots <- {0, 2}, LastSlot <- 2,
  Job <- Twins, Validator <- {}, RequestSets <- {{}}, Values <- {1},
  Funds <- 2, Gwei <- 100, Worths <- {0, 100}, Boosts <- {0, 100}, MaxForeign <- 1,
  Nothing <- None,
  forkSlot <- x1, clock <- x2, head <- x3, envelope <- x4, executed <- x5,
  exitPool <- x6, bidCache <- x7, pending <- x8, jobs <- x9, foreign <- x10

shared == <<x1, x2, x3, x4, x5, x6, x7, x8, x9, x10>>
all == <<part, vars, streamVars, methodVars, shared>>

(* What the parts with variables of their own do not have. *)
Unshared ==
  /\ x1 = None /\ x2 = None /\ x3 = None /\ x4 = None /\ x5 = None /\ x6 = None /\ x7 = None
  /\ x8 = None /\ x9 = None /\ x10 = None

SideInit ==
  /\ Init /\ StreamInit /\ MethodInit
  /\ \/ part \in {"gossip", "stream", "methods"} /\ Unshared
     \/ part = "codec" /\ Codec!CodecInit /\ x4 = None /\ x5 = None /\ x6 = None /\ x7 = None /\ x8 = None /\ x9 = None /\ x10 = None
     \/ part = "choice" /\ Payload!ChoiceInit /\ x10 = None
     \/ part = "forkchoice" /\ Forkchoice!FcuInit
     \/ part = "reorg" /\ Reorg!FcuInit
     \/ part = "schedule" /\ Schedule!ForkInit /\ x4 = None /\ x5 = None /\ x6 = None /\ x7 = None /\ x8 = None /\ x9 = None /\ x10 = None
     \/ part = "history" /\ History!HistoryInit /\ x7 = None /\ x8 = None /\ x9 = None /\ x10 = None
     \/ part = "chain" /\ Chain!ProductionInit
     \/ part = "producing" /\ Producing!ProductionInit
     \/ part = "racing" /\ Racing!ProductionInit
  /\ part # "methods" => execution.methods = New

Alone == UNCHANGED <<vars, streamVars, methodVars>>

SideNext ==
  /\ UNCHANGED part
  /\ \/ part = "gossip" /\ Next /\ UNCHANGED <<streamVars, methodVars, shared>>
     \/ part = "stream" /\ StreamNext /\ UNCHANGED <<vars, methodVars, shared>>
     \/ part = "methods" /\ MethodNext /\ UNCHANGED <<vars, streamVars, shared>>
     \/ part = "codec" /\ Codec!CodecNext /\ Alone /\ UNCHANGED <<x4, x5, x6, x7, x8, x9, x10>>
     \/ part = "choice" /\ Payload!ChoiceNext /\ Alone /\ UNCHANGED <<x10>>
     \/ part = "forkchoice" /\ Forkchoice!FcuNext /\ Alone
     \/ part = "reorg" /\ Reorg!FcuNext /\ Alone
     \/ part = "schedule" /\ Schedule!ForkNext /\ Alone /\ UNCHANGED <<x4, x5, x6, x7, x8, x9, x10>>
     \/ part = "history" /\ History!HistoryNext /\ Alone /\ UNCHANGED <<x7, x8, x9, x10>>
     \/ part = "chain" /\ Chain!ProductionNext /\ Alone
     \/ part = "producing" /\ Producing!ProductionNext /\ Alone
     \/ part = "racing" /\ Racing!ProductionNext /\ Alone

SideSpec == SideInit /\ [][SideNext]_all
-----------------------------------------------------------------------------
(* A program that is admitted as a STARK claim can be proved recursively under
   the same key, and a proof the prover hands out is one the verifier takes in:
   the second encoder neither refuses what the first took nor writes other
   bytes, the budget of the boundary has room for whatever fits into a proof,
   and the bound on the payload for the largest set of claims. *)
CodecsSound ==
  part = "codec" => Codec!CodecsAgree /\ Codec!BoundaryNoStricter /\ Codec!EnvelopeReturns

(* A proposal is missed only when the local engine failed and no bid could be
   taken in its place; a blinded block can always be completed, and is given up
   only after every version of the reveal was refused.  Unless the proposer
   favours builders, a bid that is taken in place of a payload the engine built
   earns strictly more, on the right parent and with a gas limit that is a legal
   step towards the proposer's; favouring builders more never costs them it. *)
ProposalsSound ==
  part = "choice" =>
    /\ Payload!ProposalNotMissed /\ Payload!BlindedRevealable
    /\ Payload!BidEarnsMore /\ Payload!BoostMonotone /\ Payload!GasLimitLegal

(* A chain that crosses Gloas settles what became of each payload a block later:
   a builder pays once for a payload that was built upon and never twice, what
   the state withdraws reaches the execution chain once and in turn, and the
   state knows of which slots the payload came. *)
ChainSettled ==
  /\ part = "chain" => Chain!BuilderPaysOnce /\ Chain!WithdrawalsInTurn /\ Chain!AvailabilityTrue
  /\ part = "producing" => Producing!BuilderPaysOnce /\ Producing!WithdrawalsInTurn

(* A production reads the head, the pool, the engine and the bids apart: its own
   processing accepts the block all the same, but for the partial withdrawals the
   exit filter leaves alone, and its payload is there to be signed unless another
   block was produced for the slot. What the engine was told to prepare gives out
   the withdrawals that a production asks for, but after a missed payload. *)
ProductionSound ==
  /\ part = "producing" =>
       Producing!ProducedAccepted /\ Producing!PayloadKept /\ Producing!PreparedAgrees
  /\ part = "racing" => Racing!ProducedAccepted /\ Racing!PayloadKept
  /\ part = "chain" => Chain!PreparedAgrees

(* Calls of the engine overlap with the clock, with a moving head and with each
   other: attributes are never staler than a slot, a call that prepares a
   proposal finds what was put into the cache for it, and fork choice holds no
   payload valid that the engine finds invalid, nor the other way round. *)
EngineSound ==
  /\ part = "forkchoice" =>
       Forkchoice!RecipientRecent /\ Forkchoice!PreparationSent /\ Forkchoice!VerdictsTrue
  /\ part = "reorg" => Reorg!RecipientRecent /\ Reorg!PreparationSent /\ Reorg!VerdictsTrue

(* The three ways the code asks what the rules of an epoch are agree at every
   slot: the variant of the state, the Fork record by which signatures are made
   and verified, and the configuration by name and by epoch, for a chain on
   Daisugi too, for forks that share an epoch and from genesis on.  What a node
   announces of the next fork happens at the announced epoch and at no other;
   fork versions and boundaries only move forward.  A configuration that is written
   out and read again is the same, and what is served of it means the same. *)
ScheduleSound ==
  /\ [](part = "schedule" =>
         /\ Schedule!StateAgrees /\ Schedule!CapabilitiesAgree /\ Schedule!BlobsWithinFork
         /\ Schedule!NextForkTrue /\ Schedule!DigestAnnounced
         /\ Schedule!SpecsReturn /\ Schedule!ServedAgrees)
  /\ [][part = "schedule" => Schedule!VersionsNewStep /\ Schedule!BoundaryAdvancesStep]_all

(* What the node answers about a slot was so on a branch that was its head's
   while the question was open: the root of exactly that slot, the last one by
   it, the state there, made for later slots too; two blocks share a shuffling exactly when their branches
   agree on the block that decides it; and the three votes of an attestation
   belong to one branch, whatever the head does while it is made. *)
HistorySound ==
  part = "history" =>
    /\ History!BlockRootsTrue /\ History!PreviousRootsTrue /\ History!StateRootsTrue
    /\ History!AdvancedStatesTrue /\ History!ShufflingAgrees /\ History!AttestationWhole
=============================================================================
