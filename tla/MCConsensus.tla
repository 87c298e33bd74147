----------------------------- MODULE MCConsensus -----------------------------
(* Components that cross forks, side by side: each behaviour is of one of them,
   "part", while the others rest. *)
EXTENDS Forks, WrapperVerdicts, TLC

CONSTANTS f1, f2, legacy, adaptive, direct, large, oldProof, newProof

(* An old and a new program, and four wrappers that differ in the program they
   are valid under; the fork is crossed once. *)
MCWithin == [w \in Wrapper |-> IF w = large THEN {adaptive} ELSE {legacy, adaptive}]
MCProves == (direct :> {legacy, adaptive}) @@ (large :> {legacy, adaptive})
            @@ (oldProof :> {legacy}) @@ (newProof :> {adaptive})
Forward == (legacy :> {adaptive}) @@ (adaptive :> {})

(* Networks that cross two or three forks, one of them towards Daisugi, and two of
   them with another number of blobs. *)
Network(starts, blobs) ==
  [epoch |-> starts @@ [f \in {"base", "altair", "bellatrix", "capella", "deneb", "electra",
                               "fulu", "gloas", "daisugi"} |-> Never],
   version |-> "daisugi", blobs |-> blobs]
Since0(forks) == [f \in forks |-> 0]
ToCapella == {"base", "altair", "bellatrix", "capella"}
ThroughAltair ==
  Network(Since0({"base"}) @@ ("altair" :> 1) @@ ("bellatrix" :> 1) @@ ("capella" :> 2), {})
ToDaisugi == Network(Since0(ToCapella) @@ ("deneb" :> 1) @@ ("electra" :> 2) @@ ("daisugi" :> 2), {})
ThroughFulu ==
  Network(Since0(ToCapella \cup {"deneb", "electra"}) @@ ("fulu" :> 1) @@ ("gloas" :> 2),
          {[epoch |-> 1, max |-> 3]})
ToGloas ==
  Network(Since0(ToCapella \cup {"deneb", "electra", "fulu"}) @@ ("gloas" :> 1),
          {[epoch |-> 1, max |-> 3], [epoch |-> 2, max |-> 1]})
MCSchedules == {ThroughAltair, ToDaisugi, ThroughFulu, ToGloas}
\* Transactions: none, a plain one, one with blobs and a frame with both optional
\* fields, neither of them or one that is not one; lists of requests in and out of order.
Number == [is |-> "number", hashes |-> <<>>]
Other(k) == [is |-> k, hashes |-> <<>>]
Frame(keys, hashes, references) ==
  [is |-> "frame",
   fields |-> <<Number>> \o (IF keys THEN <<Other("list")>> ELSE <<>>)
     \o <<Number, Other("sender"), Other("list"), Other("list"), Other("fees"),
          [is |-> "blobs", hashes |-> hashes]>>
     \o (IF references THEN <<Other("list")>> ELSE <<>>)]
MCTransactions ==
  {<<>>, <<Other("plain")>>, <<[is |-> "eip4844", hashes |-> <<1>>], Frame(TRUE, <<2>>, FALSE)>>,
   <<Frame(FALSE, <<1>>, TRUE)>>, <<[is |-> "empty"]>>}
Request(t, data) == [type |-> t, data |-> data]
MCRequestLists ==
  {<<Request("deposit", TRUE), Request("withdrawal", TRUE)>>,
   <<Request("consolidation", TRUE), Request("deposit", TRUE)>>,
   <<Request("deposit", TRUE), Request("deposit", TRUE)>>,
   <<Request("deposit", FALSE)>>, <<Request("other", TRUE)>>}

\* A validator that stays, one that leaves soon and one that comes later; one rare event
\* in each network, and two or three on shorter chains.
Member(active, exit) ==
  [active |-> active, exit |-> exit, balance |-> 2, actual |-> 2, slashed |-> FALSE]
MCRegistry == <<Member(0, 9), Member(0, 2), Member(2, 9)>>
Scenario(schedule, events, last) == [schedule |-> schedule, events |-> events, last |-> last]
MCScenarios ==
  {Scenario(c, 1, 7) : c \in MCSchedules}
    \cup {Scenario(ThroughFulu, 3, 4), Scenario(ToGloas, 2, 5)}

\* Attested block, signature, finalized block: in periods of three slots, within one
\* and across two, before and after forks, with finality in the period or before it.
MCAggregates ==
  {[attested |-> t[1], signature |-> t[2], finalized |-> t[3], bits |-> n] :
     n \in 1..4,
     t \in {<<1, 2, 0>>, <<1, 2, Never>>, <<2, 3, 1>>, <<3, 4, 2>>, <<3, 5, 2>>,
           <<4, 5, 3>>, <<4, 5, Never>>}}

MCBuilds == {[old |-> FALSE, server |-> TRUE], [old |-> TRUE, server |-> FALSE]}

VARIABLES
  part,    \* the component a behaviour is of
  x1, x2, x3, x4, x5, x6, x7, x8, x9, x10, x11, x12, x13, x14   \* its variables, in the order its module names them

(* A request across fork boundaries; the topics of gossip from fork to fork. *)
Rpc == INSTANCE ReqResp WITH
  Schedules <- MCSchedules,
  LastEpoch <- 2, Counts <- 0..2, Builds <- MCBuilds, MaxChunks <- 2,
  RequestBlocks <- 2, RequestBlocksDeneb <- 1,
  config <- x1, now <- x2, peer <- x3, phase <- x4, why <- x5, request <- x6,
  version <- x7, wire <- x8, buf <- x9, dec <- x10, asked <- x11, sent <- x12,
  closed <- x13, got <- x14

Topic == INSTANCE GossipTopics WITH
  Schedules <- MCSchedules,
  LastEpoch <- 2, AttestationSubnets <- {0}, SyncSubnets <- {0}, ColumnSubnets <- {0},
  MaxUncompressed <- 1,
  config <- x1, clock <- x2, opts <- x3, topics <- x4, flying <- x5, heard <- x6

(* A payload from form to form; a block from form to form. *)
Form == INSTANCE PayloadForms WITH
  Transactions <- MCTransactions, RequestLists <- MCRequestLists,
  made <- x1, form <- x2, changed <- x3

Block == INSTANCE BlockForms WITH
  Schedules <- MCSchedules, LastEpoch <- 2, Keys <- {"k1", "k2"},
  config <- x1, origin <- x2, item <- x3, payload <- x4

(* The duties of a beacon state over its slots; balances that leave it. *)
Duty == INSTANCE StateDuties WITH
  Scenarios <- MCScenarios, Registry <- MCRegistry,
  SlotsPerEpoch <- 2, LastSlot <- 7, RootsLen <- 6, MixesLen <- 4,
  SeedLookahead <- 1, MaxSeedLookahead <- 2, PeriodEpochs <- 2,
  config <- x1, state <- x2, other <- x3, left <- x4, until <- x5

Churn == INSTANCE ExitChurn WITH
  Variants <- {"electra", "gloas"}, Totals <- {9, 29}, Balances <- {1, 5, 9},
  LastEpoch <- 3, MaxLeaving <- 3, Increment <- 2, MinLimit <- 4, MaxLimit <- 6,
  Quotient <- 2, ConsolidationQuotient <- 4, Delay <- 1,
  variant <- x1, epoch <- x2, total <- x3, kind <- x4, queue <- x5, leaving <- x6

(* The updates a light client is served. *)
Client == INSTANCE LightClient WITH
  Schedules <- MCSchedules, PeriodEpochs <- 3, Committee <- 4, Aggregates <- MCAggregates,
  MaxHeard <- 3,
  config <- x1, heard <- x2, best <- x3, finality <- x4, optimistic <- x5

shared == <<x1, x2, x3, x4, x5, x6, x7, x8, x9, x10, x11, x12, x13, x14>>
all == <<part, vars, shared>>

Resting ==
  /\ x7 = Never /\ x8 = Never /\ x9 = Never /\ x10 = Never /\ x11 = Never /\ x12 = Never
  /\ x13 = Never /\ x14 = Never
rest == <<x7, x8, x9, x10, x11, x12, x13, x14>>

Crossed ==
  \/ part = "rpc" /\ Rpc!RpcInit
  \/ part = "topics" /\ Topic!TopicInit /\ Resting
  \/ /\ part = "forms" /\ Form!FormInit
     /\ x4 = Never /\ x5 = Never /\ x6 = Never /\ Resting
  \/ /\ part = "blocks" /\ Block!BlockInit
     /\ x5 = Never /\ x6 = Never /\ Resting
  \/ part = "duties" /\ Duty!DutyInit /\ x6 = Never /\ Resting
  \/ part = "churn" /\ Churn!ChurnInit /\ Resting
  \/ part = "clients" /\ Client!ClientInit /\ x6 = Never /\ Resting

SideInit ==
  /\ Init
  /\ \/ Crossed /\ program = legacy
     \/ /\ part = "verdicts"
        /\ x1 = Never /\ x2 = Never /\ x3 = Never /\ x4 = Never /\ x5 = Never /\ x6 = Never /\ Resting

SideNext ==
  /\ UNCHANGED part
  /\ \/ part = "verdicts" /\ Next /\ UNCHANGED shared
     \/ part = "rpc" /\ Rpc!RpcNext /\ UNCHANGED vars
     \/ part = "topics" /\ Topic!TopicNext /\ UNCHANGED <<vars, rest>>
     \/ part = "forms" /\ Form!FormNext /\ UNCHANGED <<vars, x4, x5, x6, rest>>
     \/ part = "blocks" /\ Block!BlockNext /\ UNCHANGED <<vars, x5, x6, rest>>
     \/ part = "duties" /\ Duty!DutyNext /\ UNCHANGED <<vars, x6, rest>>
     \/ part = "churn" /\ Churn!ChurnNext /\ UNCHANGED <<vars, rest>>
     \/ part = "clients" /\ Client!ClientNext /\ UNCHANGED <<vars, x6, rest>>

SideSpec == SideInit /\ [][SideNext]_all
-----------------------------------------------------------------------------
(* A peer answers what it was asked, and what comes back over the stream is what
   it sent, in order, each chunk in the container of its fork, however the stream
   is cut and whatever fork begins meanwhile; no decoder waits for what is there,
   and a stream is refused for a reason only. *)
RequestsSound ==
  part = "rpc" =>
    /\ Rpc!RequestKept /\ Rpc!ChunksKept /\ Rpc!NeverStalls
    /\ Rpc!RefusalsJustified /\ Rpc!TerminationDefined

(* A gossiped message is read as what it was published as, before and after a
   boundary; the topics of a node follow the forks, and each returns from its
   name. *)
TopicsSound ==
  part = "topics" => Topic!MessagesRead /\ Topic!TopicsFollow /\ Topic!NamesReturn

(* A payload that goes through the database, a bid of a builder, the JSON of the
   engine or a header and its body comes back as it was made or is refused or does
   not verify; what verifies is what was made, its proof included; a proof that is
   not the header's is never put to it, and a block is not put together with another
   payload than it was stored with; the payload before the merge is known, and the
   engine is told to build what the fork and the block below it call for. *)
FormsSound ==
  part = "forms" =>
    Form!FormsReturn /\ Form!VerifiedIsMade /\ Form!RejoinedFits /\ Form!BlocksReturn
      /\ Form!MergeKnown /\ Form!AttributesFit

(* A block that is blinded, stored, sent and read by slot, tag or trial keeps its
   root and signature and is never verified as a block of another fork; its payload
   returns to it and no other; the proofs taken of it prove what they are taken for;
   it was produced of contents and operations of its fork, and what is published is
   what the node offered.
   Of what is made of blocks for light clients, each period is left with the update
   the rules prefer and the latest ones are kept, in whatever order blocks come; each
   fork's fits its container, proves what it is to prove and is read as it was made. *)
BlocksSound ==
  /\ part = "blocks" => Block!BlocksReturn /\ Block!PayloadsRejoin /\ Block!ProofsProve
                      /\ Block!ProductionFits /\ Block!OffersPublished
  /\ part = "clients" => Client!BestKept /\ Client!LatestKept /\ (x2 = {} => Client!ClientsServed)

(* A duty that a state has answered stays as it is, is the same on every branch
   that names the same decision root, and is whole; caches and rings are what would
   be computed; balance leaves in order and no faster than the limits of the epochs
   allow. *)
DutiesSound ==
  /\ part = "duties" =>
       /\ Duty!DutiesKept /\ Duty!RootsDecide /\ Duty!DrawsAgree
       /\ Duty!CachesTrue /\ Duty!RootsTrue
  /\ part = "churn" => Churn!ChurnPaced /\ Churn!ChurnFair
=============================================================================
