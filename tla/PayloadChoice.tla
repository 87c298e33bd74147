---------------------------- MODULE PayloadChoice ----------------------------
(***************************************************************************)
(* Choosing the payload of a proposal, from execution_layer/src/lib.rs.    *)
(*                                                                         *)
(* The payload comes from the local execution engine or, blinded, from a   *)
(* builder that bids for it.  Both are asked at the same time; the bid is  *)
(* checked, weighed against the local payload and dropped in doubt.  A     *)
(* blinded answer has to be revealed later: from the cache when it is the  *)
(* local payload, by the builder otherwise.                                *)
(***************************************************************************)
EXTENDS Integers, FiniteSets

CONSTANTS
  Values,       \* what payloads may be worth
  MaxValue,     \* the largest Uint256
  Boosts,       \* boost factors, in percent
  GasLimits,    \* gas limits, for the limit a bid must have
  MaxGasLimit,  \* the largest u64
  GasFactor     \* gas_limit_adjustment_factor

VARIABLES
  choosing,     \* "idle", "asked", "decided", "revealing", "revealed", "unrevealed"
  proposal,     \* [version, boost, builder, healthy, fulu]
  engine,       \* the local request: "none", "noId", "id", "failed", "built"
  relay,        \* the builder's request: "none", "asked", "failed", "nothing", "bid"
  localPayload, \* [value, override] once built
  bid,          \* [value, flaw]
  payloadCache, \* the local payload is in the payload cache
  chosen,       \* [source, blinded]; the source is "none" before, "error" after a failure
  posts         \* versions of the reveal that failed

choiceVars ==
  <<choosing, proposal, engine, relay, localPayload, bid, payloadCache, chosen, posts>>

NoBoost == -1
Versions == {"V3", "BlindedV2", "FullV2"}

(* What verify_builder_bid looks at, in its order, and a bid without fault. *)
Flaws == {"withdrawalsTooLong", "parentHash", "prevRandao", "timestamp", "blockNumber", "fork",
          "signature", "withdrawals", "gasLimit", "none"}

Answered(source, blinded) == [source |-> source, blinded |-> blinded]

ChoiceInit ==
  /\ choosing = "idle" /\ chosen = Answered("none", FALSE) /\ engine = "none" /\ relay = "none"
  /\ proposal = [version |-> "FullV2", boost |-> NoBoost, builder |-> FALSE, healthy |-> TRUE, fulu |-> FALSE]
  /\ localPayload = [value |-> 0, override |-> FALSE] /\ bid = [value |-> 0, flaw |-> "none"]
  /\ payloadCache = FALSE /\ posts = {}
-----------------------------------------------------------------------------
LeastOf(a, b) == IF a < b THEN a ELSE b

(* Mutant of GasStep: the whole quotient, where the protocol wants less. *)
GasStepWhole(parent) == parent \div GasFactor

(* checked_sub(1), and 0 when the quotient is 0. *)
GasStep(parent) == IF parent \div GasFactor = 0 THEN 0 ELSE parent \div GasFactor - 1

(* expected_gas_limit; the sum cannot exceed the target, so neither can it overflow. *)
ExpectedGasLimit(parent, target) ==
  IF target > parent THEN parent + LeastOf(target - parent, GasStep(parent))
                     ELSE parent - LeastOf(parent - target, GasStep(parent))

(* The block number is compared when the local payload tells it, the gas limit
   when the proposer and the parent have one. *)
BidAccepted(flaw, numberKnown, gasKnown) ==
  \/ flaw = "none"
  \/ flaw = "blockNumber" /\ ~numberKnown
  \/ flaw = "gasLimit" /\ ~gasKnown

(* Mutant of Scaled: the product wraps. *)
ScaledWrapping(value, boost) == ((value \div 100) * boost) % (MaxValue + 1)

(* saturating_mul. *)
Scaled(value, boost) == LeastOf((value \div 100) * boost, MaxValue)

Boosted(value, boost) == IF boost = NoBoost THEN value ELSE Scaled(value, boost)

BuilderWins(value, local, boost) == local.value < Boosted(value, boost) /\ ~local.override
-----------------------------------------------------------------------------
(* Only V3 passes the factor of its caller on. *)
BoostUsed(version, boost) == IF version = "V3" THEN boost ELSE NoBoost

UsesBuilder == proposal.version # "FullV2" /\ proposal.builder /\ proposal.healthy

GetPayload ==
  /\ choosing = "idle"
  /\ \E version \in Versions, boost \in Boosts \cup {NoBoost}, builder, healthy, fulu, cached \in BOOLEAN :
       /\ proposal' = [version |-> version, boost |-> BoostUsed(version, boost), builder |-> builder,
                       healthy |-> healthy, fulu |-> fulu]
       /\ engine' = IF cached THEN "id" ELSE "noId"
  /\ relay' = IF UsesBuilder' THEN "asked" ELSE "none"
  /\ choosing' = "asked"
  /\ UNCHANGED <<localPayload, bid, payloadCache, chosen, posts>>

(* No payload id is cached: a fork choice update asks for one.  The engine may
   have none to give, when it syncs, or not answer. *)
RequestPayloadId ==
  /\ choosing = "asked" /\ engine = "noId"
  /\ engine' \in {"id", "failed"}
  /\ UNCHANGED <<choosing, proposal, relay, localPayload, bid, payloadCache, chosen, posts>>

(* Mutant of Caches: only payloads that compete with a bid are kept. *)
CachesForBids(version) == UsesBuilder

(* cache_fn is a noop for FullV2. *)
Caches(version) == version # "FullV2"

(* engine_getPayload; a fee recipient other than the suggested one is logged only. *)
FetchLocalPayload ==
  /\ choosing = "asked" /\ engine = "id"
  /\ \/ /\ engine' = "failed"
        /\ UNCHANGED <<localPayload, payloadCache>>
     \/ /\ engine' = "built"
        /\ \E value \in Values, override \in BOOLEAN :
             localPayload' = [value |-> value, override |-> override]
        /\ payloadCache' = Caches(proposal.version)
  /\ UNCHANGED <<choosing, proposal, relay, bid, chosen, posts>>

(* get_builder_header. *)
FetchBid ==
  /\ choosing = "asked" /\ relay = "asked"
  /\ \/ relay' \in {"failed", "nothing"} /\ UNCHANGED bid
     \/ /\ relay' = "bid"
        /\ \E value \in Values, flaw \in Flaws : bid' = [value |-> value, flaw |-> flaw]
  /\ UNCHANGED <<choosing, proposal, engine, localPayload, payloadCache, chosen, posts>>

Local == Answered("local", proposal.version = "BlindedV2")
FromBuilder == Answered("builder", TRUE)
NoPayload == Answered("error", FALSE)

(* Mutant of RelayOnly: without a local payload there is no proposal. *)
RelayOnlyFails(gasKnown) == NoPayload

RelayOnly(gasKnown) ==
  IF relay = "bid" /\ BidAccepted(bid.flaw, FALSE, gasKnown) THEN FromBuilder ELSE NoPayload

(* Mutant of BothAnswered: the bid is checked as if nothing were known of the block. *)
BothAnsweredUnnumbered(gasKnown) ==
  IF /\ relay = "bid" /\ BidAccepted(bid.flaw, FALSE, gasKnown)
     /\ BuilderWins(bid.value, localPayload, proposal.boost)
  THEN FromBuilder ELSE Local

BothAnswered(gasKnown) ==
  IF /\ relay = "bid" /\ BidAccepted(bid.flaw, TRUE, gasKnown)
     /\ BuilderWins(bid.value, localPayload, proposal.boost)
  THEN FromBuilder ELSE Local

(* determine_and_fetch_payload, once both have answered; get_payload wraps it. *)
Determine ==
  /\ choosing = "asked" /\ engine \in {"built", "failed"} /\ relay # "asked"
  /\ \E gasKnown \in BOOLEAN :
       chosen' = IF engine = "built" THEN BothAnswered(gasKnown) ELSE RelayOnly(gasKnown)
  /\ choosing' = IF chosen' = FromBuilder THEN "revealing" ELSE "decided"
  /\ UNCHANGED <<proposal, engine, relay, localPayload, bid, payloadCache, posts>>

(* Version 2 first where Fulu is scheduled, version 1 when that fails. *)
NextPost == IF proposal.fulu /\ posts = {} THEN 2 ELSE IF 1 \in posts THEN 0 ELSE 1

(* propose_blinded_beacon_block. *)
ProposeBlinded ==
  /\ choosing = "revealing"
  /\ \/ NextPost # 0 /\ choosing' = "revealed" /\ UNCHANGED posts
     \/ NextPost # 0 /\ posts' = posts \cup {NextPost} /\ UNCHANGED choosing
     \/ NextPost = 0 /\ choosing' = "unrevealed" /\ UNCHANGED posts
  /\ UNCHANGED <<proposal, engine, relay, localPayload, bid, payloadCache, chosen>>

ChoiceNext ==
  \/ GetPayload \/ RequestPayloadId \/ FetchLocalPayload \/ FetchBid \/ Determine \/ ProposeBlinded

ChoiceSpec == ChoiceInit /\ [][ChoiceNext]_choiceVars
-----------------------------------------------------------------------------
(* A proposal is missed only when the local engine failed and no bid could be
   taken in its place; and a block taken from a builder is given up only after
   every version of the reveal was refused. *)
ProposalNotMissed ==
  /\ chosen = NoPayload =>
       engine = "failed" /\ (relay = "bid" => bid.flaw \notin {"none", "blockNumber"})
  /\ choosing = "unrevealed" => posts = IF proposal.fulu THEN {1, 2} ELSE {1}

(* Unless the proposer favours builders, taking a bid in place of a payload the
   engine built earns strictly more, is what the engine did not object to, and
   is a block of the right parent, number, fork and slot. *)
BidEarnsMore ==
  chosen = FromBuilder /\ engine = "built" /\ proposal.boost <= 100 =>
    /\ bid.value > localPayload.value
    /\ ~localPayload.override
    /\ bid.flaw \in {"none", "gasLimit"}

(* Favouring builders more never costs a builder the proposal, however large the
   factor and the bid, and a factor of 0 always keeps a payload the engine built. *)
BoostMonotone ==
  \A value, local \in Values, low, high \in Boosts :
    LET payload == [value |-> local, override |-> FALSE] IN
    /\ low <= high /\ BuilderWins(value, payload, low) => BuilderWins(value, payload, high)
    /\ ~BuilderWins(value, payload, 0)

(* A blinded block can be completed: its payload is in the cache, or with the
   builder whose bid was taken. *)
BlindedRevealable ==
  chosen.source = "local" /\ chosen.blinded => payloadCache

(* The limit a bid must have is a legal successor of the parent's, between the
   parent's and the proposer's, and stays there once the two agree. *)
GasLimitLegal ==
  \A parent, target \in GasLimits :
    LET limit == ExpectedGasLimit(parent, target)
        moved == IF limit > parent THEN limit - parent ELSE parent - limit
    IN /\ moved * GasFactor < parent \/ moved = 0
       /\ limit \in 0..MaxGasLimit
       /\ (parent <= limit /\ limit <= target) \/ (target <= limit /\ limit <= parent)
=============================================================================
