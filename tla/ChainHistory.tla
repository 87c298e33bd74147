---------------------------- MODULE ChainHistory ----------------------------
(***************************************************************************)
(* What the consensus client answers about the slots of its chain: the     *)
(* root of the block or state at a slot, an attestation to a slot, and     *)
(* whether two blocks shuffle the validators of an epoch alike.            *)
(*                                                                         *)
(* Each answer has a fast path, from the roots the head's state remembers, *)
(* and a slow one, from the store; the head may move to another branch     *)
(* between the two, blocks are backfilled below a checkpoint meanwhile,    *)
(* and the execution engine judges blocks that were taken on trust.        *)
(*                                                                         *)
(* A state is named by the block it follows and its slot.                  *)
(***************************************************************************)
EXTENDS Integers, FiniteSets, TLC

CONSTANTS
  Block, Genesis, Parent, SlotOf,
  Anchor,             \* the finalized block the node began with
  Window,             \* SLOTS_PER_HISTORICAL_ROOT
  EpochLength,
  LastSlot,           \* a bound on the clock
  MaxSeen,            \* a bound on the heads one question meets
  Unknown             \* no answer

VARIABLES
  now,                \* the clock's slot
  head,
  oldest,             \* the slot of the oldest block in the store
  valid,              \* blocks the engine has called valid
  query,              \* the question being answered and what it holds
  seen                \* the heads and oldest slots while it is answered

historyVars == <<now, head, oldest, valid, query, seen>>

Ancestry[b \in Block] ==
  IF b = Genesis THEN {b} ELSE {b} \cup Ancestry[Parent[b]]

\* The root that stands at a slot of the branch of b: the last block by then.
RootAt(b, s) ==
  CHOOSE x \in Ancestry[b] :
    SlotOf[x] <= s /\ \A y \in Ancestry[b] : SlotOf[y] <= s => SlotOf[y] <= SlotOf[x]

StateAt(b, s) == [after |-> RootAt(b, s), slot |-> s]

EpochOf(s) == s \div EpochLength

EpochStart(e) == e * EpochLength

\* get_block_root, get_state_root of the state of b.
Remembers(b, s) == s < SlotOf[b] /\ SlotOf[b] <= s + Window

\* What a state of the branch of b has for its justified checkpoint in e.
Justified(b, e) == IF e = 0 THEN Genesis ELSE RootAt(b, EpochStart(e) - 1)

Before(s) == IF s = 0 THEN 0 ELSE s - 1

Resting == [at |-> "rest", kind |-> "none", slot |-> 0]

HistoryInit ==
  /\ now = SlotOf[Anchor] /\ head = Anchor /\ oldest = SlotOf[Anchor]
  /\ valid = Ancestry[Anchor] /\ query = Resting /\ seen = {}

Answer(a) ==
  query' = [at |-> "answered", kind |-> query.kind, slot |-> query.slot, is |-> a]

Turn(at) == query' = [query EXCEPT !.at = at]

\* A step of the query leaves the chain as it is.
Quiet == UNCHANGED <<now, head, oldest, valid, seen>>

(***************************************************************************)
(* The chain meanwhile.  An answer given is as good as forgotten: the      *)
(* chain may wait until it is.                                             *)
(***************************************************************************)
Open == query.at # "answered"

Tick == Open /\ now < LastSlot /\ now' = now + 1 /\ UNCHANGED <<head, oldest, valid, query, seen>>

Witnessed(h, o) ==
  IF query.at = "rest" THEN seen' = seen
  ELSE Cardinality(seen) < MaxSeen /\ seen' = seen \cup {<<h, o>>}

MoveHead == \E b \in Block :
  /\ Open /\ Anchor \in Ancestry[b] /\ SlotOf[b] <= now /\ b # head
  /\ head' = b /\ Witnessed(b, oldest)
  /\ UNCHANGED <<now, oldest, valid, query>>

Backfill == \E b \in Ancestry[Anchor] :
  /\ Open /\ SlotOf[b] < oldest
  /\ oldest' = SlotOf[b] /\ Witnessed(head, SlotOf[b])
  /\ UNCHANGED <<now, head, valid, query>>

Judge == \E b \in Block \ valid :
  /\ Open /\ SlotOf[b] <= now
  /\ valid' = valid \cup Ancestry[b]
  /\ UNCHANGED <<now, head, oldest, query, seen>>

AskHistory ==
  \E kind \in {"blockOrNone", "blockOrPrevious", "state", "advanced", "attestation"}, s \in 0..LastSlot :
    /\ query.at = "rest"
    /\ query' = [at |-> "fast", kind |-> kind, slot |-> s]
    /\ seen' = {<<head, oldest>>}
    /\ UNCHANGED <<now, head, oldest, valid>>

Forget ==
  /\ query.at = "answered" /\ query' = Resting /\ seen' = {}
  /\ UNCHANGED <<now, head, oldest, valid>>

(***************************************************************************)
(* block_root_at_slot_skips_none: a root if the slot was not skipped,      *)
(* which takes the root before it as well.                                 *)
(***************************************************************************)
UnlessSkipped(b, s) ==
  IF RootAt(b, Before(s)) = RootAt(b, s) THEN Unknown ELSE RootAt(b, s)

FastKnows(b, s) ==
  (s = SlotOf[b] \/ Remembers(b, s)) /\ Remembers(b, Before(s))

FastBlockOrNone ==
  LET s == query.slot IN
  /\ query.at = "fast" /\ query.kind = "blockOrNone"
  /\ CASE s = 0              -> Answer(Genesis)
       [] s > 0 /\ (s > now \/ SlotOf[head] < s) -> Answer(Unknown)
       [] s > 0 /\ FastKnows(head, s) -> Answer(UnlessSkipped(head, s))
       [] OTHER              -> Turn("slow")
  /\ Quiet

(* Mutant of Alone: two states are compared for a slot nobody skipped. *)
NeverAlone(s) == FALSE

\* The oldest block has none before it in the store to be compared with.
Alone(s) == s = oldest

SlowBlockOrNone ==
  LET s == query.slot IN
  /\ query.at = "slow" /\ query.kind = "blockOrNone"
  /\ CASE Alone(s) -> Turn("fastPrevious")
       [] ~Alone(s) /\ (Before(s) < oldest \/ s > SlotOf[head]) -> Answer(Unknown)
       [] OTHER    -> Answer(UnlessSkipped(head, s))
  /\ Quiet

(***************************************************************************)
(* block_root_at_slot_skips_prev: the root that stands at the slot.        *)
(***************************************************************************)
ForPrevious == query.kind = "blockOrPrevious" \/ query.at \in {"fastPrevious", "slowPrevious"}

FastBlockOrPrevious ==
  LET s == query.slot IN
  /\ query.at \in {"fast", "fastPrevious"} /\ ForPrevious
  /\ CASE s = 0 -> Answer(Genesis)
       [] s > now -> Answer(Unknown)
       [] s # 0 /\ s <= now /\ (SlotOf[head] <= s \/ Remembers(head, s)) ->
            Answer(RootAt(head, s))
       [] OTHER -> Turn("slowPrevious")
  /\ Quiet

(* Mutant of StoreRoot: a skipped slot has no root. *)
StoreRootUnlessSkipped(s) ==
  IF s < oldest \/ s > SlotOf[head] THEN Unknown ELSE UnlessSkipped(head, s)

StoreRoot(s) ==
  IF s < oldest \/ s > SlotOf[head] THEN Unknown ELSE RootAt(head, s)

SlowBlockOrPrevious ==
  /\ query.at = "slowPrevious"
  /\ Answer(StoreRoot(query.slot))
  /\ Quiet

(***************************************************************************)
(* state_root_at_slot: the node keeps no states before the split.          *)
(***************************************************************************)
(* Mutant of HeadState: a state is made for a later slot. *)
HeadStateAdvanced(s) == StateAt(head, s)

HeadState(s) == StateAt(head, IF SlotOf[head] <= s THEN SlotOf[head] ELSE s)

FastState ==
  LET s == query.slot IN
  /\ query.at = "fast" /\ query.kind = "state"
  /\ CASE s = 0 -> Answer(StateAt(Genesis, 0))
       [] s # 0 /\ (s > now \/ s < SlotOf[Anchor]) -> Answer(Unknown)
       [] s # 0 /\ s = SlotOf[Anchor] -> Answer(StateAt(Anchor, s))
       [] s <= now /\ s > SlotOf[Anchor] /\ (SlotOf[head] <= s \/ Remembers(head, s)) ->
            Answer(HeadState(s))
       [] OTHER -> Turn("slow")
  /\ Quiet

SlowState ==
  LET s == query.slot IN
  /\ query.at = "slow" /\ query.kind = "state"
  /\ Answer(IF s > SlotOf[head] THEN Unknown ELSE StateAt(head, s))
  /\ Quiet

(***************************************************************************)
(* state_at_slot: a state for any slot, advanced over the slots after the  *)
(* head, whatever the clock says.                                          *)
(***************************************************************************)
FastAdvanced ==
  /\ query.at = "fast" /\ query.kind = "advanced"
  /\ IF query.slot >= SlotOf[head] THEN Answer(StateAt(head, query.slot)) ELSE Turn("slow")
  /\ Quiet

SlowAdvanced ==
  LET s == query.slot IN
  /\ query.at = "slow" /\ query.kind = "advanced"
  /\ Answer(IF s > SlotOf[head] \/ (s < SlotOf[Anchor] /\ s # 0) THEN Unknown ELSE StateAt(head, s))
  /\ Quiet

(***************************************************************************)
(* produce_unaggregated_attestation: first the head is read, then the      *)
(* judgement of the block, then, for another epoch than the head's, the    *)
(* state of the block advanced to the epoch.                               *)
(***************************************************************************)
Permissible(s) ==
  s >= EpochStart(EpochOf(SlotOf[Anchor])) /\ s + Window >= SlotOf[head]

Scrape ==
  LET s == query.slot
      root == IF s >= SlotOf[head] THEN head ELSE RootAt(head, s)
      start == EpochStart(EpochOf(s))
      known == SlotOf[head] <= start \/ Remembers(head, start)
  IN /\ query.at = "fast" /\ query.kind = "attestation"
     /\ IF Permissible(s) /\ known
        THEN query' = [query EXCEPT !.at = "judged"] @@
          [root   |-> root,
           target |-> IF SlotOf[head] <= start THEN root ELSE RootAt(head, start),
           source |-> IF EpochOf(SlotOf[head]) = EpochOf(s)
                      THEN Justified(head, EpochOf(s)) ELSE Unknown,
           sameSlot |-> IF s >= SlotOf[head] THEN s = SlotOf[head]
                        ELSE ~(Remembers(head, Before(s)) /\ RootAt(head, Before(s)) = root)]
        ELSE Answer(Unknown)
     /\ Quiet

Vouched ==
  /\ query.at = "judged"
  /\ IF query.root \in valid THEN Turn("source") ELSE Answer(Unknown)
  /\ Quiet

(* Mutant of SourceFromStore: the justified checkpoint is that of the head. *)
SourceOfHead == Justified(head, EpochOf(query.slot))

SourceFromStore == Justified(query.root, EpochOf(query.slot))

Attest ==
  /\ query.at = "source"
  /\ Answer([root |-> query.root, target |-> query.target, sameSlot |-> query.sameSlot,
             source |-> IF query.source # Unknown THEN query.source ELSE SourceFromStore])
  /\ Quiet

HistoryNext ==
  \/ Tick \/ MoveHead \/ Backfill \/ Judge \/ AskHistory \/ Forget
  \/ FastBlockOrNone \/ SlowBlockOrNone
  \/ FastBlockOrPrevious \/ SlowBlockOrPrevious
  \/ FastState \/ SlowState \/ FastAdvanced \/ SlowAdvanced
  \/ Scrape \/ Vouched \/ Attest

HistorySpec == HistoryInit /\ [][HistoryNext]_historyVars

(***************************************************************************)
(* shuffling_is_compatible: from the two decision blocks fork choice keeps *)
(* for a block, and the block itself for the epochs after them.            *)
(***************************************************************************)
DecisionAt(b, e) == IF e <= 1 THEN Genesis ELSE RootAt(b, EpochStart(e - 1) - 1)

(* Mutant of DecisionOf: the decision of the next epoch stands for all later ones. *)
DecisionKept(b, e) == DecisionAt(b, IF e > EpochOf(SlotOf[b]) + 1 THEN EpochOf(SlotOf[b]) + 1 ELSE e)

DecisionOf(b, e) == IF e > EpochOf(SlotOf[b]) + 1 THEN b ELSE DecisionAt(b, e)

Compatible(b, e) ==
  e >= EpochOf(SlotOf[b]) /\ DecisionOf(b, e) = DecisionAt(head, e)

-----------------------------------------------------------------------------
Answered(kind) == query.at = "answered" /\ query.kind = kind

(* A root answered for a slot is the root of a block of exactly that slot  *)
(* on a branch that was the head's while the question was open, and no     *)
(* root is answered only where such a branch skipped the slot, ended       *)
(* before it, or the store did not reach back to it.                       *)
BlockRootsTrue == Answered("blockOrNone") =>
  \E v \in seen :
    IF query.is = Unknown
    THEN query.slot < v[2] \/ SlotOf[RootAt(v[1], query.slot)] # query.slot
    ELSE query.is = RootAt(v[1], query.slot) /\ SlotOf[query.is] = query.slot

(* With skipped slots filled in, the root is the last one on such a branch *)
(* by the slot.                                                            *)
PreviousRootsTrue == Answered("blockOrPrevious") =>
  \E v \in seen :
    IF query.is = Unknown THEN query.slot < v[2] \/ query.slot > SlotOf[v[1]]
    ELSE query.is = RootAt(v[1], query.slot)

(* The state answered for a slot is the one its branch had at that slot,   *)
(* or the head's own when all slots since were skipped, and never a state  *)
(* advanced over them, which no block on the chain commits to.             *)
StateRootsTrue == Answered("state") =>
  \E v \in seen :
    IF query.is = Unknown
    THEN query.slot < SlotOf[Anchor] \/ query.slot > SlotOf[v[1]]
    ELSE /\ query.is.after = RootAt(v[1], query.slot)
         /\ query.is.slot = IF query.slot > SlotOf[v[1]] THEN SlotOf[v[1]] ELSE query.slot

(* The state made for a slot is the one a branch of the head has there, and *)
(* none is missing from where the node began on, unless the head moved to a *)
(* branch that ends before the slot when another had passed it.             *)
AdvancedStatesTrue == Answered("advanced") =>
  IF query.is = Unknown
  THEN \/ 0 < query.slot /\ query.slot < SlotOf[Anchor]
       \/ \E v, w \in seen : SlotOf[v[1]] < query.slot /\ query.slot < SlotOf[w[1]]
  ELSE query.is.slot = query.slot /\ \E v \in seen : query.is.after = RootAt(v[1], query.slot)

(* The three votes of an attestation belong to one branch, whatever the    *)
(* head does while it is made: its block stood at the slot on a head's     *)
(* branch and the engine has called it valid, its target is that block's   *)
(* ancestor at the start of the epoch, its source is what that block's     *)
(* branch has justified in the epoch, and it is said to be of its block's  *)
(* own slot when it is (but for the two ends of what a state remembers).   *)
AttestationWhole == Answered("attestation") /\ query.is # Unknown =>
  /\ \E v \in seen :
       /\ query.is.root = RootAt(v[1], query.slot)
       /\ 0 < query.slot /\ SlotOf[v[1]] < query.slot + Window
            => (query.is.sameSlot <=> SlotOf[query.is.root] = query.slot)
  /\ query.is.root \in valid
  /\ query.is.target = RootAt(query.is.root, EpochStart(EpochOf(query.slot)))
  /\ query.is.source = Justified(query.is.root, EpochOf(query.slot))

(* Two blocks are taken to shuffle the validators of an epoch alike        *)
(* exactly when their branches agree on the block that decides it, for     *)
(* epochs beyond those fork choice keeps as well.                          *)
ShufflingAgrees ==
  \A b \in Block : \A e \in 0..EpochOf(LastSlot) :
    Compatible(b, e) <=> e >= EpochOf(SlotOf[b]) /\ DecisionAt(b, e) = DecisionAt(head, e)
=============================================================================
