--------------------------- MODULE BlockProduction ---------------------------
(***************************************************************************)
(* Blocks that are produced and processed before and after Gloas, from     *)
(* block_production/gloas.rs, beacon_chain.rs and per_block_processing.rs. *)
(*                                                                         *)
(* From Gloas on a block carries a bid and the payload follows, or not:    *)
(* the next block settles what the payload did, a state later.  Producing  *)
(* reads the head, the pool, the engine and the bids in separate steps,    *)
(* and two productions of one slot may overlap.                            *)
(***************************************************************************)
EXTENDS Integers, Sequences, SequencesExt, FiniteSets

CONSTANTS
  SlotsPerEpoch, Historical,   \* slots per epoch and per historical root
  ForkSlots,     \* where Gloas may begin
  LastSlot,
  Job,           \* productions
  Validator,
  RequestSets,   \* what payloads may request: sets of [kind, of]
  Values, Funds, \* values of bids, and the builder's balance above the minimum, in gwei
  Gwei,          \* wei in a gwei
  Worths, Boosts,\* values of local payloads, in wei, and boost factors in percent
  MaxForeign,    \* blocks of other proposers
  Nothing

VARIABLES
  forkSlot,   \* the first slot of Gloas
  clock,      \* the slot
  head,       \* the post-state of the head
  envelope,   \* the payload of the head, once the node has it
  executed,   \* the payloads on the execution chain
  exitPool,   \* validators with a voluntary exit in the operation pool
  bidCache,   \* gossip_verified_payload_bid_cache: its highest bid
  pending,    \* pending_payload_envelopes, by slot
  jobs,       \* productions under way
  foreign     \* blocks of other proposers so far

productionVars ==
  <<forkSlot, clock, head, envelope, executed, exitPool, bidCache, pending, jobs, foreign>>

NoBoost == -1
Builder == "builder"
EpochOf(slot) == slot \div SlotsPerEpoch
InEpoch(slot) == slot % SlotsPerEpoch
IsGloas(slot) == slot >= forkSlot
-----------------------------------------------------------------------------
(* The beacon state.  A payload is named by its slot and who built it, a root
   by the block's slot, proposer and whether its state root is filled in. *)
NoPayment == [of |-> 0, value |-> 0]
GenesisHash == <<0, "genesis">>
Root(block, whole) == <<block.slot, block.by, whole>>

Bid(slot, hash, parent, root, value, requests) ==
  [slot |-> slot, hash |-> hash, parent |-> parent, root |-> root, value |-> value, requests |-> requests]

(* What get_expected_withdrawals of a state depends on: how often withdrawals
   were taken from it, and what builders owe. *)
Withdrawals(s) == [round |-> s.round, owed |-> s.owed]

(* The genesis of Gloas has given out no withdrawals, the first round. *)
GenesisState ==
  [slot |-> 0, header |-> 0, root |-> <<0, "genesis", TRUE>>,
   bid |-> Bid(0, Nothing, GenesisHash, Nothing, 0, {}), latest |-> GenesisHash,
   payments |-> [i \in 0..(2 * SlotsPerEpoch - 1) |-> NoPayment], quorum |-> {},
   owed |-> <<>>, paid |-> <<>>, exited |-> {}, partials |-> {},
   round |-> IF forkSlot = 0 THEN 1 ELSE 0, expected |-> [round |-> 0, owed |-> <<>>], available |-> {}]

(* process_builder_pending_payments: what a quorum attested to is owed, and the
   window moves on by an epoch. *)
RotatePayments(s) ==
  LET older == [i \in 1..SlotsPerEpoch |-> IF i - 1 \in s.quorum THEN s.payments[i - 1] ELSE NoPayment]
  IN [s EXCEPT !.owed = @ \o SelectSeq(older, LAMBDA payment : payment.value > 0),
               !.payments = [i \in DOMAIN @ |-> IF i < SlotsPerEpoch THEN @[i + SlotsPerEpoch] ELSE NoPayment],
               !.quorum = {i - SlotsPerEpoch : i \in {j \in @ : j >= SlotsPerEpoch}}]

(* upgrade_to_gloas: the last payload before the fork becomes a bid that was kept. *)
UpgradeToGloas(s) == [s EXCEPT !.bid = Bid(0, s.latest, Nothing, Nothing, 0, {})]

NextSlot(s) ==
  LET rotated == IF (s.slot + 1) % SlotsPerEpoch = 0 /\ s.slot > 0 /\ IsGloas(s.slot) THEN RotatePayments(s) ELSE s
      moved == [rotated EXCEPT !.slot = @ + 1, !.available = @ \ {(s.slot + 1) % Historical}]
  IN IF moved.slot = forkSlot THEN UpgradeToGloas(moved) ELSE moved

(* complete_state_advance. *)
Advanced(s, slot) == LET at[i \in s.slot..slot] == IF i = s.slot THEN s ELSE NextSlot(at[i - 1]) IN at[slot]
-----------------------------------------------------------------------------
Owe(s, payment) == IF payment.value > 0 THEN [s EXCEPT !.owed = Append(@, payment)] ELSE s

(* Mutant of SettleBuilderPayment: the entry is not cleared. *)
SettleBuilderPaymentKept(s, i) == Owe(s, s.payments[i])

SettleBuilderPayment(s, i) == Owe([s EXCEPT !.payments[i] = NoPayment], s.payments[i])

ExitedBy(requests) == {r.of : r \in {q \in requests : q.kind \in {"full", "consolidate"}}}

(* process_withdrawal_requests and process_consolidation_requests. *)
WithRequests(s, requests) ==
  [s EXCEPT !.partials = @ \cup ({r.of : r \in {q \in requests : q.kind = "partial"}} \ s.exited),
            !.exited = @ \cup ExitedBy(requests)]

PaidFor(s, parent) ==
  CASE EpochOf(parent.slot) = EpochOf(s.slot) ->
         SettleBuilderPayment(s, SlotsPerEpoch + InEpoch(parent.slot))
    [] EpochOf(parent.slot) = EpochOf(s.slot) - 1 -> SettleBuilderPayment(s, InEpoch(parent.slot))
    [] OTHER -> Owe(s, [of |-> parent.slot, value |-> parent.value])

ApplyParentPayload(s, requests) ==
  [PaidFor(WithRequests(s, requests), s.bid) EXCEPT
     !.available = @ \cup {s.bid.slot % Historical}, !.latest = s.bid.hash]

ParentFull(s, block) == block.bid.parent = s.bid.hash
ParentPayloadOK(s, block) == block.requests = IF ParentFull(s, block) THEN s.bid.requests ELSE {}
AfterParent(s, block) == IF ParentFull(s, block) THEN ApplyParentPayload(s, block.requests) ELSE s

(* process_block_header. *)
HeaderOK(s, block) == block.slot = s.slot /\ block.slot > s.header /\ block.parent = s.root
WithHeader(s, block) == [s EXCEPT !.header = block.slot, !.root = Root(block, TRUE)]

(* process_withdrawals: nothing unless the parent's payload was delivered. *)
ProcessWithdrawals(s) ==
  [s EXCEPT !.round = @ + 1, !.expected = Withdrawals(s), !.owed = <<>>, !.paid = @ \o s.owed]
GloasWithdrawals(s) == IF s.bid.hash = s.latest THEN ProcessWithdrawals(s) ELSE s

Total(payments) == FoldLeft(LAMBDA sum, payment : sum + payment.value, 0, payments)

(* get_pending_balance_to_withdraw_for_builder. *)
PendingOfBuilder(s) ==
  Total(s.owed) + Total([i \in 1..(2 * SlotsPerEpoch) |-> s.payments[i - 1]])

(* can_builder_cover_bid; the balance fell by what was withdrawn. *)
Covered(s, value) == Funds - Total(s.paid) - PendingOfBuilder(s) >= value

(* process_execution_payload_bid. *)
BidOK(s, block) ==
  /\ block.bid.hash[2] = Builder => Covered(s, block.bid.value)
  /\ block.bid.hash[2] # Builder => block.bid.value = 0
  /\ block.bid.slot = block.slot
  /\ block.bid.parent = s.latest
  /\ block.bid.root = block.parent

WithBid(s, block) ==
  LET index == SlotsPerEpoch + InEpoch(block.slot) IN
  [s EXCEPT !.bid = block.bid,
            !.payments[index] = IF block.bid.value > 0 THEN [of |-> block.slot, value |-> block.bid.value] ELSE @]

(* process_voluntary_exit: nothing of the validator may be on its way out. *)
ExitsOK(s, exits) == exits \cap (s.exited \cup s.partials) = {}

(* process_attestation: late attestations may give payments their quorum. *)
AfterOperations(s, block) ==
  [s EXCEPT !.exited = @ \cup block.exits,
            !.quorum = {i \in DOMAIN s.payments : (i \in @ \/ block.attests) /\ s.payments[i].value > 0
                                                 /\ s.payments[i].of # block.slot}]

(* From Gloas on: the parent's payload, the header, withdrawals, the bid. *)
BeforeBid(s, block) == GloasWithdrawals(WithHeader(AfterParent(s, block), block))
GloasOK(s, block) ==
  /\ ParentPayloadOK(s, block)
  /\ HeaderOK(AfterParent(s, block), block)
  /\ BidOK(BeforeBid(s, block), block)
  /\ ExitsOK(BeforeBid(s, block), block.exits)
GloasPost(s, block) == AfterOperations(WithBid(BeforeBid(s, block), block), block)

(* Before: the payload is in the block, its requests come after its exits. *)
PayloadOK(s, payload) == payload.parent = s.latest /\ payload.withdrawals = Withdrawals(s)
PayloadPost(s, block) ==
  WithRequests(AfterOperations([ProcessWithdrawals(WithHeader(s, block)) EXCEPT !.latest = block.bid.hash], block),
               block.payload.requests)

ProcessOK(s, block) ==
  IF IsGloas(s.slot) THEN GloasOK(s, block)
  ELSE HeaderOK(s, block) /\ PayloadOK(s, block.payload) /\ ExitsOK(s, block.exits)
Post(s, block) == IF IsGloas(s.slot) THEN GloasPost(s, block) ELSE PayloadPost(s, block)

(* verify_execution_payload_envelope. *)
EnvelopeOK(s, e) ==
  /\ e.root = s.root /\ e.hash = s.bid.hash /\ e.withdrawals = s.expected
  /\ e.requests = s.bid.requests
-----------------------------------------------------------------------------
Envelope(root, payload) ==
  [root |-> root, hash |-> payload.hash, withdrawals |-> payload.withdrawals, requests |-> payload.requests]
Payload(hash, parent, withdrawals, requests) ==
  [hash |-> hash, parent |-> parent, withdrawals |-> withdrawals, requests |-> requests]
NoPayload == Payload(Nothing, Nothing, [round |-> -1, owed |-> <<>>], {})

Block(s, by, bid, requests, exits, payload, attests) ==
  [slot |-> s.slot, by |-> by, parent |-> s.root, bid |-> bid, requests |-> requests, exits |-> exits,
   payload |-> payload, attests |-> attests]

(* A block of Gloas carries a bid and what its parent requested, one from before
   carries its payload. *)
BidBlock(s, by, bid, requests, exits, attests) ==
  Block(s, by, bid, requests, exits, NoPayload, attests)
PayloadBlock(s, by, payload, exits, attests) ==
  Block(s, by, Bid(s.slot, payload.hash, payload.parent, s.root, 0, payload.requests), {}, exits, payload, attests)

(* Building on the parent's payload or past it: what of the parent a block
   processes, and on which payload its own comes. *)
Requests(full, e) == IF full THEN e.requests ELSE {}

(* Mutant of ParentHash: the fork is not seen. *)
ParentHashAcross(s, full) == IF full THEN s.bid.hash ELSE s.bid.parent

ParentHash(s, full) == IF full \/ ~IsGloas(s.header) THEN s.bid.hash ELSE s.bid.parent

(* Mutant of PayloadWithdrawals: the parent's requests are not applied first. *)
PayloadWithdrawalsEarly(s, parent, e) ==
  IF parent = s.bid.hash THEN Withdrawals(s) ELSE s.expected

(* get_execution_payload_gloas; expected is payload_expected_withdrawals. *)
PayloadWithdrawals(s, parent, e) ==
  CASE parent = s.bid.hash /\ e # Nothing -> Withdrawals(ApplyParentPayload(s, e.requests))
    [] parent = s.bid.hash /\ e = Nothing -> Withdrawals(s)
    [] OTHER -> s.expected

(* The chain's get_expected_withdrawals, for the attributes of a payload prepared
   before its slot: full is the status of the head's payload in fork choice. *)
PreparedWithdrawals(slot, full) ==
  LET s == Advanced(head, slot)
  IN IF full /\ IsGloas(head.header) /\ head.bid.hash # Nothing
     THEN Withdrawals(ApplyParentPayload(s, envelope.requests)) ELSE Withdrawals(s)

(* get_slashings_and_exits offers what the state allows. *)
ExitsAllowed(s, pool) == pool \ (s.exited \cup s.partials)

(* Mutant of PackedExits: the parent's requests are not looked at. *)
PackedExitsAll(s, pool, requests) == ExitsAllowed(s, pool)

(* The filter drops what the parent's requests exit. *)
PackedExits(s, pool, requests) == ExitsAllowed(s, pool) \ ExitedBy(requests)
-----------------------------------------------------------------------------
NoJob == [stage |-> "idle"]
Stage(j) == jobs[j].stage

ProductionInit ==
  /\ forkSlot \in ForkSlots
  /\ clock = 0 /\ envelope = Nothing /\ executed = <<>> /\ exitPool = {} /\ bidCache = Nothing
  /\ head = GenesisState
  /\ pending = [slot \in 1..LastSlot |-> Nothing] /\ jobs = [j \in Job |-> NoJob] /\ foreign = 0

Tick ==
  /\ clock < LastSlot /\ clock' = clock + 1
  /\ bidCache' = Nothing
  /\ UNCHANGED <<forkSlot, head, envelope, executed, exitPool, pending, jobs, foreign>>

(* Gossip verifies an exit against the head. *)
SubmitExit(v) ==
  /\ v \notin exitPool \cup head.exited \cup head.partials
  /\ exitPool' = exitPool \cup {v}
  /\ UNCHANGED <<forkSlot, clock, head, envelope, executed, bidCache, pending, jobs, foreign>>

Ahead == Advanced(head, clock)

(* A builder bids for this slot on the head, with or without its payload. *)
GossipBid ==
  /\ clock > head.header /\ IsGloas(clock)
  /\ \E value \in Values, requests \in RequestSets, full \in BOOLEAN :
       /\ full => envelope # Nothing
       /\ Covered(head, value)
       /\ bidCache # Nothing => value > bidCache.value
       /\ bidCache' = Bid(clock, <<clock, Builder>>, ParentHash(Ahead, full), head.root, value, requests)
  /\ UNCHANGED <<forkSlot, clock, head, envelope, executed, exitPool, pending, jobs, foreign>>

(* A payload runs with its block before Gloas, with the block built on it after. *)
Executed(block) ==
  CASE ~IsGloas(clock) -> Append(executed, block.payload)
    [] IsGloas(clock) /\ envelope # Nothing /\ ParentFull(Ahead, block) -> Append(executed, envelope)
    [] OTHER -> executed

(* No chain rests for so long that it forgets its last block. *)
InTime == clock > head.header /\ clock - head.header < Historical

(* A valid block of another proposer: of a builder's bid, or its own. *)
ForeignBlock ==
  /\ foreign < MaxForeign /\ InTime
  /\ \E value \in IF IsGloas(clock) THEN Values \cup {0} ELSE {0}, requests \in RequestSets,
        full \in IF envelope # Nothing /\ IsGloas(clock) THEN BOOLEAN ELSE {FALSE}, attests \in BOOLEAN :
       LET hash == <<clock, IF value = 0 THEN "proposer" ELSE Builder>>
           bid == Bid(clock, hash, ParentHash(Ahead, full), head.root, value, requests)
           payload == Payload(hash, head.latest, Withdrawals(Ahead), requests)
           block == IF IsGloas(clock) THEN BidBlock(Ahead, "proposer", bid, Requests(full, envelope), {}, attests)
                    ELSE PayloadBlock(Ahead, "proposer", payload, {}, attests)
       IN /\ ProcessOK(Ahead, block)
          /\ head' = Post(Ahead, block) /\ envelope' = Nothing /\ executed' = Executed(block)
  /\ foreign' = foreign + 1
  /\ UNCHANGED <<forkSlot, clock, exitPool, bidCache, pending, jobs>>

(* The payload of the head's bid arrives from another node. *)
Reveal ==
  /\ envelope = Nothing /\ head.slot > 0 /\ IsGloas(head.slot) /\ head.bid.hash[2] \in {Builder, "proposer"}
  /\ envelope' = [root |-> head.root, hash |-> head.bid.hash, withdrawals |-> head.expected,
                  requests |-> head.bid.requests]
  /\ UNCHANGED <<forkSlot, clock, head, executed, exitPool, bidCache, pending, jobs, foreign>>
-----------------------------------------------------------------------------
SetJob(j, job) ==
  /\ jobs' = [jobs EXCEPT ![j] = job]
  /\ UNCHANGED <<forkSlot, clock, head, envelope, executed, exitPool, bidCache, foreign>>

(* load_state_for_block_production. *)
Load(j) ==
  /\ Stage(j) = "idle" /\ InTime
  /\ SetJob(j, [stage |-> "loaded", state |-> Ahead, parentEnvelope |-> envelope])
  /\ UNCHANGED pending

(* produce_partial_beacon_block before Gloas and from it on: of the operations,
   the exits are what the parent's payload may contradict. *)
Partial(state, full, requests, parentEnvelope, exits) ==
  [stage |-> "packed", state |-> state, full |-> full, requests |-> requests,
   parentEnvelope |-> parentEnvelope, exits |-> exits]

PartialBeaconBlock(job) ==
  Partial(job.state, FALSE, {}, Nothing, ExitsAllowed(job.state, exitPool))
PartialBeaconBlockGloas(job, full) ==
  LET requests == Requests(full, job.parentEnvelope) IN
  Partial(job.state, full, requests, job.parentEnvelope, PackedExits(job.state, exitPool, requests))

Pack(j) ==
  /\ Stage(j) = "loaded"
  /\ IF IsGloas(jobs[j].state.slot)
     THEN \E full \in {shouldBuildOnFull \in BOOLEAN : shouldBuildOnFull => jobs[j].parentEnvelope # Nothing} :
            SetJob(j, PartialBeaconBlockGloas(jobs[j], full))
     ELSE SetJob(j, PartialBeaconBlock(jobs[j]))
  /\ UNCHANGED pending

LocalPayload(j, requests) ==
  LET s == jobs[j].state
      parent == IF IsGloas(s.slot) THEN ParentHash(s, jobs[j].full) ELSE s.latest
      withdrawals == IF IsGloas(s.slot) THEN PayloadWithdrawals(s, parent, jobs[j].parentEnvelope)
                                        ELSE Withdrawals(s)
  IN Payload(<<s.slot, j>>, parent, withdrawals, requests)

(* The engine builds a payload, or fails and with it the production. *)
BuildPayload(j) ==
  /\ Stage(j) = "packed"
  /\ \/ SetJob(j, [stage |-> "failed"])
     \/ \E requests \in RequestSets :
          SetJob(j, [stage |-> "built", state |-> jobs[j].state, requests |-> jobs[j].requests,
                     exits |-> jobs[j].exits, payload |-> LocalPayload(j, requests)])
  /\ UNCHANGED pending

(* select_payload_bid_pure: wei are compared, ties are local. *)
CachedBidWins(value, worth, boost, override) ==
  /\ ~override
  /\ worth < IF boost = NoBoost THEN value * Gwei ELSE ((value * Gwei) \div 100) * boost

LocalBid(s, payload) == Bid(s.slot, payload.hash, payload.parent, s.root, 0, payload.requests)

(* get_highest_bid by slot, parent hash and parent root. *)
CachedBid(bid) ==
  IF bidCache # Nothing /\ bidCache.slot = bid.slot /\ bidCache.parent = bid.parent /\ bidCache.root = bid.root
  THEN {bidCache} ELSE {}

SelectedBids(local) ==
  {local} \cup {bid \in CachedBid(local) :
               \E worth \in Worths, boost \in Boosts \cup {NoBoost} : CachedBidWins(bid.value, worth, boost, FALSE)}

(* Mutant of EnvelopeRoot: the state root is filled in too late. *)
EnvelopeRootEarly(block) == Root(block, FALSE)

EnvelopeRoot(block) == Root(block, TRUE)

(* The payload waits for its signature, the latest of its slot. *)
KeepPending(kept, slot) == pending' = [pending EXCEPT ![slot] = kept]

(* complete_partial_beacon_block: the block is processed before it is handed
   out, and the payload of a self-built one is kept, by slot, to be signed. *)
Complete(j) ==
  /\ Stage(j) = "built"
  /\ LET s == jobs[j].state
         payload == jobs[j].payload
         local == LocalBid(s, payload)
     IN \E bid \in IF IsGloas(s.slot) THEN SelectedBids(local) ELSE {local} :
          LET block == IF IsGloas(s.slot) THEN BidBlock(s, j, bid, jobs[j].requests, jobs[j].exits, FALSE)
                       ELSE PayloadBlock(s, j, payload, jobs[j].exits, FALSE)
              kept == Envelope(EnvelopeRoot(block), payload)
              selfBuilt == IsGloas(s.slot) /\ bid = local
              accepted == /\ ProcessOK(s, block)
                          /\ selfBuilt => EnvelopeOK(Post(s, block), kept)
          IN /\ SetJob(j, IF accepted THEN [stage |-> "produced", block |-> block]
                          ELSE [stage |-> "rejected", block |-> block])
             /\ IF accepted /\ selfBuilt THEN KeepPending(kept, s.slot) ELSE UNCHANGED pending

(* The validator signs and publishes the block and, if it built the payload,
   what pending_payload_envelopes holds for the slot.  A block that is not on
   the head any more is an orphan. *)
Publish(j) ==
  /\ Stage(j) = "produced"
  /\ LET block == jobs[j].block
         onHead == /\ clock = block.slot /\ head.header < clock /\ block.parent = head.root
                   /\ block.requests # {} => envelope # Nothing
     IN /\ jobs' = [jobs EXCEPT ![j].stage = IF onHead THEN "published" ELSE "orphaned"]
        /\ IF onHead
           THEN /\ head' = Post(Ahead, block) /\ executed' = Executed(block)
                /\ envelope' = IF pending[clock] # Nothing /\ EnvelopeOK(head', pending[clock])
                               THEN pending[clock] ELSE Nothing
           ELSE UNCHANGED <<head, executed, envelope>>
        /\ pending' = [pending EXCEPT ![block.slot] = IF onHead THEN Nothing ELSE @]
  /\ UNCHANGED <<forkSlot, clock, exitPool, bidCache, foreign>>

ProductionNext ==
  \/ Tick \/ GossipBid \/ ForeignBlock \/ Reveal
  \/ \E v \in Validator : SubmitExit(v)
  \/ \E j \in Job : Load(j) \/ Pack(j) \/ BuildPayload(j) \/ Complete(j) \/ Publish(j)

ProductionSpec == ProductionInit /\ [][ProductionNext]_productionVars
-----------------------------------------------------------------------------
(* Whatever the pool holds, whatever became of the parent's payload and wherever
   epochs and the fork fall, a block that was put together is one its own
   processing accepts, with one exception the exit filter leaves: the parent's
   requests withdraw in part from a validator that exits. *)
ProducedAccepted ==
  \A j \in Job : Stage(j) = "rejected" =>
    \E r \in jobs[j].block.requests : r.kind = "partial" /\ r.of \in jobs[j].block.exits

Ledger == head.paid \o head.owed
Settled(slot) == Cardinality({i \in DOMAIN Ledger : Ledger[i].of = slot})

(* A builder pays for a bid at most once, and does pay when its payload was
   built upon: with empty slots and epochs in between, and with a quorum. *)
BuilderPaysOnce ==
  /\ \A slot \in 1..LastSlot : Settled(slot) <= 1
  /\ \A i \in DOMAIN executed : executed[i].hash[2] = Builder => Settled(executed[i].hash[1]) = 1

(* Withdrawals that the state gave out reach the execution chain once and in
   turn: those of a payload that never came are in the next one. *)
WithdrawalsInTurn == \A i \in DOMAIN executed : executed[i].withdrawals.round = i - 1

(* The state remembers of which slots the payload came; slot 0 stands for what
   was before the fork. *)
AvailabilityTrue ==
  \A slot \in forkSlot..head.slot : slot % Historical # 0 /\ slot > head.slot - Historical =>
    (slot % Historical \in head.available <=> \E i \in DOMAIN executed : executed[i].hash[1] = slot)

(* The payload of a self-built block can be signed once the block is out, as
   long as nobody else had a block produced for the slot. *)
PayloadKept ==
  \A j \in Job :
    /\ Stage(j) = "produced" /\ jobs[j].block.bid.hash[2] = j /\ IsGloas(jobs[j].block.slot)
    /\ \A k \in Job \ {j} :
         Stage(k) \in {"produced", "published", "orphaned"} => jobs[k].block.slot # jobs[j].block.slot
    => LET kept == pending[jobs[j].block.slot] IN
       kept # Nothing /\ kept.root = Root(jobs[j].block, TRUE)

(* What the engine is told to prepare for the next slot gives out the withdrawals
   that the production of it will ask for, when the parent's payload came or was
   in its block: after one that was missed, production asks for those of the
   missed one again and the preparation for the next round. *)
PreparedAgrees ==
  IsGloas(clock + 1) =>
    \A full \in {f \in BOOLEAN : f => envelope # Nothing} :
      full \/ ~IsGloas(head.header) =>
        LET s == Advanced(head, clock + 1) IN
        PreparedWithdrawals(clock + 1, full) = PayloadWithdrawals(s, ParentHash(s, full), envelope)
==============================================================================
