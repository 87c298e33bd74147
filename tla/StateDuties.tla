----------------------------- MODULE StateDuties -----------------------------
(***************************************************************************)
(* The duties a beacon state answers: who proposes, attests, judges        *)
(* payloads and signs for the sync committee in an epoch, and under which  *)
(* block root a node keeps the answer.                                     *)
(*                                                                         *)
(* Before Fulu proposers are drawn when they are asked for, from Fulu on   *)
(* once, two epochs ahead; from Gloas on slashed validators are left out   *)
(* and the payload committees are drawn ahead too.  Committees come from   *)
(* caches that follow the state, are dropped, built again or taken from a  *)
(* state on disk.                                                          *)
(*                                                                         *)
(* Hashes are injective: a block root is the log of blocks up to it, a mix *)
(* the set of reveals in it, and a draw the record of all that it is drawn *)
(* from.  An error is Never.                                               *)
(***************************************************************************)
EXTENDS Forks

CONSTANTS
  Scenarios,                        \* a schedule with bounds: the rare events of a
                                    \* behaviour and its last slot
  Registry,                         \* the validators at genesis
  SlotsPerEpoch, LastSlot,          \* LastSlot is a bound
  RootsLen, MixesLen,               \* lengths of the rings
  SeedLookahead, MaxSeedLookahead,  \* min_seed_lookahead and max_seed_lookahead
  PeriodEpochs                      \* epochs per sync committee period

VARIABLES
  config,             \* the schedule of forks
  state, other,       \* the state at work and one that was saved, or Never
  left, until         \* bounds: rare events still allowed, and the last slot

dutyVars == <<config, state, other, left, until>>

Less(n, k) == IF n >= k THEN n - k ELSE 0

Epoch(slot) == slot \div SlotsPerEpoch
StartSlot(e) == e * SlotsPerEpoch
Current(s) == Epoch(s.slot)
Period(e) == e \div PeriodEpochs

(***************************************************************************)
(* The rings.                                                              *)
(***************************************************************************)
RootsIndex(s, slot) ==
  IF slot < s.slot /\ s.slot <= slot + RootsLen THEN slot % RootsLen ELSE Never

GetBlockRoot(s, slot) ==
  IF RootsIndex(s, slot) = Never THEN Never ELSE s.roots[RootsIndex(s, slot)]

GetStateRoot(s, slot) ==
  IF RootsIndex(s, slot) = Never THEN Never ELSE s.states[RootsIndex(s, slot)]

\* cache_state looks from the slot after the one it closes.
CacheState(s) ==
  LET i == RootsIndex([s EXCEPT !.slot = @ + 1], s.slot)
  IN [s EXCEPT !.roots[i] = s.log, !.states[i] = [slot |-> s.slot, log |-> s.log]]

\* An attestation for the block of its own slot, not for one from before.
IsAttestationSameSlot(s, slot, root) ==
  IF slot = 0 THEN TRUE
  ELSE IF Never \in {RootsIndex(s, slot), RootsIndex(s, slot - 1)} THEN Never
  ELSE root = GetBlockRoot(s, slot) /\ root # GetBlockRoot(s, slot - 1)

UpdateRandaoMix(s, reveal) ==
  LET i == Current(s) % MixesLen
      mix == s.mixes[i]
  IN [s EXCEPT !.mixes[i] = (mix \ {reveal}) \cup ({reveal} \ mix)]

MinRandaoEpoch(s) == Less(Current(s) + 1, MixesLen)

(* Mutant of GetSeed: the mix of the epoch before. *)
GetSeedLate(s, e) == <<e, s.mixes[(e + MixesLen - SeedLookahead) % MixesLen]>>

GetSeed(s, e) == <<e, s.mixes[(e + MixesLen - SeedLookahead - 1) % MixesLen]>>

(***************************************************************************)
(* The registry.                                                           *)
(***************************************************************************)
ActiveAt(s, e) ==
  {i \in DOMAIN s.validators : s.validators[i].active <= e /\ e < s.validators[i].exit}

ActivationExitEpoch(e) == e + 1 + MaxSeedLookahead

GetActiveValidatorIndices(s, e) ==
  IF e >= ActivationExitEpoch(Current(s)) THEN Never ELSE ActiveAt(s, e)

Weights(s, indices) == [i \in indices |-> s.validators[i].balance]

TotalAt(s, e) ==
  LET balances == SetToSeq({<<i, s.validators[i].balance>> : i \in ActiveAt(s, e)})
      sum == FoldLeft(LAMBDA t, b : t + b[2], 0, balances)
  IN IF sum > 1 THEN sum ELSE 1

\* Draws by weight: a candidate is taken as a random number is under its weight.
RandomValue(s) == IF Enabled(s.name, "electra") THEN "u16" ELSE "byte"

ComputeProposerIndex(s, seed, indices) ==
  [seed |-> seed, from |-> indices, weights |-> Weights(s, indices), rule |-> RandomValue(s)]

ComputeBalanceWeightedSelection(s, seed, indices, from, rule) ==
  [seed |-> seed, from |-> from, weights |-> Weights(s, indices), rule |-> rule]

Draw(s, seed, indices) ==
  IF Enabled(s.name, "gloas")
  THEN ComputeBalanceWeightedSelection(s, seed, indices, indices, "shuffled")
  ELSE ComputeProposerIndex(s, seed, indices)

PerSlot(e, drawn) ==
  [n \in 1..SlotsPerEpoch |-> [slot |-> StartSlot(e) + n - 1, of |-> drawn]]

(***************************************************************************)
(* Proposers.                                                              *)
(***************************************************************************)
(* Mutant of DecisionSlot: ahead at the first epoch of Fulu too. *)
DecisionSlotAtFork(c, e) ==
  IF Enabled(NameAt(c, e), "fulu")
  THEN Less(StartSlot(Less(e, SeedLookahead)), 1)
  ELSE Less(StartSlot(Less(e + 1, SeedLookahead)), 1)

DecisionSlot(c, e) ==
  IF Enabled(NameAt(c, Less(e, 1)), "fulu")
  THEN Less(StartSlot(Less(e, SeedLookahead)), 1)
  ELSE Less(StartSlot(Less(e + 1, SeedLookahead)), 1)

(* Mutant of MayCompute: asked for at any slot. *)
MayComputeAnytime(c, s, e) ==
  /\ e >= Current(s)
  /\ ~Enabled(NameAt(c, e), "fulu") => e < Current(s) + SeedLookahead

\* Too early the draw could still change; too late it has.
MayCompute(c, s, e) ==
  /\ e >= Current(s)
  /\ IF Enabled(NameAt(c, e), "fulu")
     THEN Enabled(s.name, "fulu") => s.slot = DecisionSlot(c, e)
     ELSE e < Current(s) + SeedLookahead

SlashingsInitialized(s) == s.slashings.slot = s.block

ComputeProposers(c, s, e, seed) ==
  LET active == GetActiveValidatorIndices(s, e)
      able == IF Enabled(s.name, "gloas") THEN active \ s.slashings.slashed ELSE active
  IN IF \/ active = Never
        \/ Enabled(s.name, "gloas") /\ ~SlashingsInitialized(s)
        \/ ~MayCompute(c, s, e) THEN Never
     ELSE PerSlot(e, Draw(s, <<"proposer", seed>>, able))

GetBeaconProposerIndices(c, s, e) ==
  IF Enabled(s.name, "fulu") /\ e \in {Current(s), Current(s) + 1}
  THEN LET offset == IF e = Current(s) THEN 0 ELSE SlotsPerEpoch
       IN SubSeq(s.lookahead, offset + 1, offset + SlotsPerEpoch)
  ELSE ComputeProposers(c, s, e, GetSeed(s, e))

GetBeaconProposerIndex(s, slot) ==
  IF Epoch(slot) # Current(s) THEN Never
  ELSE IF Enabled(s.name, "fulu") THEN s.lookahead[(slot % SlotsPerEpoch) + 1]
  ELSE [slot |-> slot,
        of |-> ComputeProposerIndex(s, <<"proposer", GetSeed(s, Epoch(slot))>>,
                                    GetActiveValidatorIndices(s, Epoch(slot)))]

\* The entry that a validator's preferences for a slot are held against.
ProposalEntry(s, slot) ==
  LET e == Epoch(slot)
  IN IF ~Enabled(s.name, "fulu") \/ e < Current(s) \/ e > Current(s) + SeedLookahead
     THEN Never
     ELSE s.lookahead[(e - Current(s)) * SlotsPerEpoch + (slot % SlotsPerEpoch) + 1]

ProposerDecisionRoot(c, s, e) ==
  IF s.slot <= DecisionSlot(c, e) THEN s.log ELSE GetBlockRoot(s, DecisionSlot(c, e))

(***************************************************************************)
(* Committees and their caches, for the epochs before, at and after the    *)
(* state's own.                                                            *)
(***************************************************************************)
RelativeEpochs == 1..3
IntoEpoch(s, r) == IF r = 1 THEN Less(Current(s), 1) ELSE Current(s) + r - 2

FromEpoch(s, e) ==
  CASE e = Current(s)     -> 2
    [] e + 1 = Current(s) -> 1
    [] e = Current(s) + 1 -> 3
    [] OTHER              -> Never

Unbuilt == [epoch |-> Never, shuffled |-> Never]

Shuffled(s, e) == [seed |-> GetSeed(s, e), indices |-> ActiveAt(s, e)]

InitializeCommitteeCache(s, e) ==
  IF Less(e, SeedLookahead + 1) < MinRandaoEpoch(s) \/ e > Current(s) + 1 THEN Unbuilt
  ELSE [epoch |-> e, shuffled |-> Shuffled(s, e)]

IsInitializedAt(s, r) == s.committees[r].epoch = IntoEpoch(s, r)

CommitteeCache(s, r) == IF IsInitializedAt(s, r) THEN s.committees[r].shuffled ELSE Never

AttesterDecisionSlot(s, r) ==
  LET previous == Less(Current(s), 1)
      e == CASE r = 3 -> Current(s) [] r = 2 -> previous [] r = 1 -> Less(previous, 1)
  IN Less(StartSlot(e), 1)

AttesterDecisionRoot(s, r) ==
  LET slot == AttesterDecisionSlot(s, r)
  IN IF s.slot = slot THEN s.log ELSE GetBlockRoot(s, slot)

TotalActiveBalance(s) ==
  IF s.total.epoch = Current(s) THEN s.total.balance ELSE Never

BuildTotal(s) ==
  IF TotalActiveBalance(s) # Never THEN s
  ELSE [s EXCEPT !.total = [epoch |-> Current(s), balance |-> TotalAt(s, Current(s))]]

BuildCommitteeCache(s, r) ==
  LET t == IF IsInitializedAt(s, r) THEN s
           ELSE [s EXCEPT !.committees[r] = InitializeCommitteeCache(s, IntoEpoch(s, r))]
  IN IF t.total.epoch = Never /\ r = 2 THEN BuildTotal(t) ELSE t

SlashedIn(s) == {i \in DOMAIN s.validators : s.validators[i].slashed}

BuildCaches(s) ==
  LET t == FoldLeft(BuildCommitteeCache, s, <<1, 2, 3>>)
  IN [t EXCEPT !.pubkeys = Len(t.validators),
               !.slashings = IF SlashingsInitialized(t) THEN @
                             ELSE [slot |-> t.block, slashed |-> SlashedIn(t)]]

Empty(s) ==
  [s EXCEPT !.committees = [r \in RelativeEpochs |-> Unbuilt],
            !.total = [epoch |-> Never, balance |-> 0],
            !.pubkeys = 0,
            !.slashings = [slot |-> Never, slashed |-> {}]]

AdvanceCaches(s) ==
  [s EXCEPT !.committees = <<s.committees[2], s.committees[3], Unbuilt>>]

RebaseOne(base, s, r) ==
  LET from == FromEpoch(base, IntoEpoch(s, r))
      t == [s EXCEPT !.committees[r] = base.committees[from]]
  IN IF from = Never THEN s ELSE IF r = 2 THEN BuildTotal(t) ELSE t

RebaseCachesOn(base, s) ==
  LET n == Len(s.validators)
      t == IF /\ s.pubkeys < n /\ base.pubkeys <= n
              /\ base.pubkeys > s.pubkeys
           THEN [s EXCEPT !.pubkeys = base.pubkeys] ELSE s
  IN FoldLeft(LAMBDA u, r : RebaseOne(base, u, r), t, <<1, 2, 3>>)

\* The lists share memory with those of the base and keep their contents.
RebaseOn(base, s) == RebaseCachesOn(base, s)

CommitteesAt(s, e) ==
  IF FromEpoch(s, e) = Never THEN Never ELSE CommitteeCache(s, FromEpoch(s, e))

(***************************************************************************)
(* Payload committees and sync committees.                                 *)
(***************************************************************************)
ComputePtc(s, e) ==
  PerSlot(e, ComputeBalanceWeightedSelection(
               s, <<"ptc", GetSeed(s, e)>>, ActiveAt(s, e), Shuffled(s, e), "ordered"))

GetPtc(s, slot) ==
  LET e == Epoch(slot)
      at == (slot % SlotsPerEpoch) + 1
  IN IF ~Enabled(s.name, "gloas") THEN Never
     ELSE IF e < Current(s) THEN IF e + 1 # Current(s) THEN Never ELSE s.ptc[at]
     ELSE IF e > Current(s) + SeedLookahead THEN Never
     ELSE s.ptc[(e - Current(s) + 1) * SlotsPerEpoch + at]

GetNextSyncCommittee(s) ==
  LET e == Current(s) + 1
  IN Draw(s, <<"sync", GetSeed(s, e)>>, GetActiveValidatorIndices(s, e))

GetBuiltSyncCommittee(s, e) ==
  CASE s.name = "base"                       -> Never
    [] Period(e) = Period(Current(s))        -> s.sync[1]
    [] Period(e) = Period(Current(s)) + 1    -> s.sync[2]
    [] OTHER                                 -> Never

SyncCommitteeForNextSlot(s) ==
  IF s.name = "base" THEN Never
  ELSE IF Period(Current(s)) = Period(Epoch(s.slot + 1)) THEN s.sync[1] ELSE s.sync[2]

(***************************************************************************)
(* A slot.  At the end of an epoch the effective balances follow the       *)
(* actual ones, deposits are activated, the next mix starts as this one,   *)
(* and what is drawn ahead is drawn; then the upgrades of the new epoch.   *)
(***************************************************************************)
Final(s, v) ==
  [v EXCEPT !.balance = v.actual,
            !.active = IF @ = LastSlot + 1 THEN ActivationExitEpoch(Current(s)) ELSE @]

UpdateRegistry(s) ==
  [s EXCEPT !.validators = [i \in DOMAIN @ |-> Final(s, @[i])]]

ResetMix(s) == [s EXCEPT !.mixes[(Current(s) + 1) % MixesLen] = s.mixes[Current(s) % MixesLen]]

UpdateSync(s) ==
  IF s.name = "base" \/ (Current(s) + 1) % PeriodEpochs # 0 THEN s
  ELSE [s EXCEPT !.sync = <<s.sync[2], GetNextSyncCommittee(s)>>]

AfterNext(s) == Current(s) + SeedLookahead + 1

UpdateLookahead(c, s) ==
  IF ~Enabled(s.name, "fulu") THEN s
  ELSE [s EXCEPT !.lookahead = SubSeq(@, SlotsPerEpoch + 1, Len(@))
                                 \o GetBeaconProposerIndices(c, s, AfterNext(s))]

UpdatePtcWindow(s) ==
  IF ~Enabled(s.name, "gloas") THEN s
  ELSE [s EXCEPT !.ptc = SubSeq(@, SlotsPerEpoch + 1, Len(@)) \o ComputePtc(s, AfterNext(s))]

SetTotal(s) ==
  [s EXCEPT !.total = [epoch |-> Current(s) + 1, balance |-> TotalAt(s, Current(s) + 1)]]

PerEpochProcessing(c, s) ==
  AdvanceCaches(SetTotal(UpdatePtcWindow(UpdateLookahead(c,
    UpdateSync(ResetMix(UpdateRegistry(s)))))))

EpochsAhead(s) == [i \in 1..(SeedLookahead + 1) |-> Current(s) + i - 1]

InitializeLookahead(c, s) ==
  FoldLeft(LAMBDA l, e : l \o GetBeaconProposerIndices(c, s, e), <<>>, EpochsAhead(s))

InitializePtcWindow(s) ==
  FoldLeft(LAMBDA w, e : w \o ComputePtc(s, e), [n \in 1..SlotsPerEpoch |-> Never],
           EpochsAhead(s))

Upgrade(c, s, f) ==
  LET t == [s EXCEPT !.name = f]
      next == GetNextSyncCommittee(t)
  IN IF c.epoch[f] # Current(s) THEN s
     ELSE CASE f = "altair" -> [t EXCEPT !.sync = <<next, next>>]
            [] f = "fulu"   -> [t EXCEPT !.lookahead = InitializeLookahead(c, s)]
            [] f = "gloas"  -> [t EXCEPT !.ptc = InitializePtcWindow(t)]
            [] OTHER        -> t

Upgrades(c, s) == FoldLeft(LAMBDA t, f : Upgrade(c, t, f), s, UpgradeOrder)

PerSlotProcessing(c, s) ==
  LET t == CacheState(s)
      u == IF s.slot > 0 /\ (s.slot + 1) % SlotsPerEpoch = 0
           THEN PerEpochProcessing(c, t) ELSE t
      v == [u EXCEPT !.slot = @ + 1]
  IN IF v.slot % SlotsPerEpoch # 0 THEN v ELSE BuildCaches(Upgrades(c, v))

(***************************************************************************)
(* A block: its reveal, and a validator that is slashed, leaves, earns or  *)
(* is deposited.                                                           *)
(***************************************************************************)
SlashValidator(s, i) ==
  [s EXCEPT !.validators[i].slashed = TRUE, !.validators[i].actual = 1,
            !.slashings.slashed = @ \cup {i}]

InitiateExit(s, i) == [s EXCEPT !.validators[i].exit = ActivationExitEpoch(Current(s))]

AddValidatorToRegistry(s) ==
  [s EXCEPT !.validators = Append(@, [active |-> LastSlot + 1, exit |-> LastSlot + 2,
                                      balance |-> 2, actual |-> 2, slashed |-> FALSE]),
            !.pubkeys = IF @ = Len(s.validators) THEN @ + 1 ELSE @]

Applied(s, op) ==
  CASE op = "slash"   -> SlashValidator(s, 1)
    [] op = "exit"    -> InitiateExit(s, 1)
    [] op = "reward"  -> [s EXCEPT !.validators[1].actual = @ + 1]
    [] op = "deposit" -> AddValidatorToRegistry(s)
    [] op = "plain"   -> s

PerBlockProcessing(s, op) ==
  LET t == [s EXCEPT !.log = Append(@, [slot |-> s.slot, op |-> op]),
                     !.block = s.slot, !.slashings.slot = s.slot]
  IN Applied(UpdateRandaoMix(t, s.slot), op)

(***************************************************************************)
(* What a state answers, for each epoch, and a history of what it has      *)
(* answered.                                                               *)
(***************************************************************************)
Epochs == 0..(Epoch(LastSlot) + 2)

\* Two questions no caller asks: the next Fulu epoch of a state before Fulu, and
\* the epoch after the next in the last slot of an epoch that is not processed.
Asked(c, s, e) ==
  /\ Enabled(NameAt(c, e), "fulu") => Enabled(s.name, "fulu")
  /\ e # AfterNext(s)  \/ s.slot # DecisionSlot(c, e)

Answers(c, s) ==
  [proposers |-> [e \in Epochs |-> IF Asked(c, s, e) THEN GetBeaconProposerIndices(c, s, e)
                                   ELSE Never],
   committees |-> [e \in Epochs |-> CommitteesAt(s, e)],
   ptc |-> [e \in Epochs |-> IF GetPtc(s, StartSlot(e)) = Never THEN Never
              ELSE [n \in 1..SlotsPerEpoch |-> GetPtc(s, StartSlot(e) + n - 1)]],
   sync |-> [e \in Epochs |-> GetBuiltSyncCommittee(s, e)],
   block |-> [n \in Epochs |-> GetBlockRoot(s, n)]]

Record(c, s) ==
  LET new == Answers(c, s)
  IN [s EXCEPT !.seen = [k \in DOMAIN new |-> [e \in Epochs |->
                           IF @[k][e] = Never THEN new[k][e] ELSE @[k][e]]]]

Unasked ==
  [k \in {"proposers", "committees", "ptc", "sync", "block"} |-> [e \in Epochs |-> Never]]

\* At genesis the sync committees are drawn again by the rule of Electra.
GenesisUpgrade(c, s, f) ==
  LET t == Upgrade(c, s, f)
      next == GetNextSyncCommittee(t)
  IN IF f = "electra" /\ c.epoch[f] = 0 THEN [t EXCEPT !.sync = <<next, next>>] ELSE t

GenesisUpgrades(c, s) == FoldLeft(LAMBDA t, f : GenesisUpgrade(c, t, f), s, UpgradeOrder)

Genesis(c) ==
  Record(c, BuildCaches(GenesisUpgrades(c, Empty(
    [slot |-> 0, name |-> "base", log |-> <<>>, block |-> 0,
     roots |-> [i \in 0..(RootsLen - 1) |-> Never],
     states |-> [i \in 0..(RootsLen - 1) |-> Never],
     mixes |-> [i \in 0..(MixesLen - 1) |-> {}],
     validators |-> Registry, lookahead |-> <<>>, ptc |-> <<>>, sync |-> <<Never, Never>>,
     committees |-> <<>>, total |-> Never, pubkeys |-> 0, slashings |-> Never,
     seen |-> Unasked]))))

DutyInit ==
  /\ \E n \in Scenarios : config = n.schedule /\ left = n.events /\ until = n.last
  /\ state = Genesis(config) /\ other = Never

Spend(n) == left >= n /\ left' = left - n

\* A state is advanced with its caches built.
Built(s) ==
  /\ SlashingsInitialized(s) /\ TotalActiveBalance(s) # Never
  /\ \A r \in RelativeEpochs : IsInitializedAt(s, r)

NextSlot ==
  /\ Built(state) /\ state.slot < until
  /\ state' = Record(config, PerSlotProcessing(config, state))
  /\ UNCHANGED <<config, until, other, left>>

AddBlock == \E op \in {"plain", "slash", "exit", "reward", "deposit"} :
  /\ Built(state) /\ state.slot > state.block
  /\ op \in {"slash", "exit"} => state.validators[1].exit > LastSlot /\ SlashedIn(state) = {}
  /\ Spend(IF op = "plain" THEN 0 ELSE 1)
  /\ state' = Record(config, PerBlockProcessing(state, op))
  /\ UNCHANGED <<config, until, other>>

SaveState ==
  /\ other = Never /\ Built(state) /\ other' = state /\ Spend(1)
  /\ UNCHANGED <<config, until, state>>

\* The node follows the other branch from the state it saved.
SwitchBranch ==
  /\ other # Never /\ state.slot > other.slot
  /\ Spend(1)
  /\ state' = other /\ other' = state /\ UNCHANGED <<config, until>>

DropAllCaches ==
  /\ Built(state) /\ Spend(1)
  /\ state' = Empty(state) /\ UNCHANGED <<config, until, other>>

BuildAllCaches ==
  /\ ~Built(state)
  /\ state' = Record(config, BuildCaches(state)) /\ UNCHANGED <<config, until, other, left>>

Ancestor(base, s) ==
  /\ base.slot <= s.slot /\ IsPrefix(base.log, s.log)
  /\ Len(base.log) < Len(s.log) => s.log[Len(base.log) + 1].slot >= base.slot

RebaseCaches ==
  /\ other # Never /\ Built(other) /\ Ancestor(other, state)
  /\ state' = Record(config, RebaseOn(other, state))
  /\ UNCHANGED <<config, until, other, left>>

DutyNext ==
  NextSlot \/ AddBlock \/ SaveState \/ SwitchBranch \/ DropAllCaches \/ BuildAllCaches
    \/ RebaseCaches

-----------------------------------------------------------------------------
(* What a state answers for an epoch it never answers otherwise later on    *)
(* its chain: validators prepare for a duty long before it comes, and a     *)
(* block or attestation is judged by the answer of another day.             *)
DutiesKept ==
  LET now == Answers(config, state)
  IN \A k \in DOMAIN now : \A e \in Epochs : now[k][e] \in {Never, state.seen[k][e]}

Known(s, e) == Answers(config, s).proposers[e]

(* A node keeps proposers and committees under the root of the block that   *)
(* decided them, for all branches (proposer_shuffling_decision_root,        *)
(* attester_shuffling_decision_root): states of two branches that name the  *)
(* same root have the same duties.                                          *)
RootsDecide == other # Never =>
  \A e \in Epochs :
    /\ \/ Known(state, e) = Never \/ Known(other, e) = Never
       \/ Known(state, e) = Known(other, e)
       \/ ProposerDecisionRoot(config, state, e) # ProposerDecisionRoot(config, other, e)
    /\ LET r == FromEpoch(state, e)  q == FromEpoch(other, e)
       IN \/ r = Never \/ q = Never
          \/ Never \in {CommitteeCache(state, r), CommitteeCache(other, q)}
          \/ CommitteeCache(state, r) = CommitteeCache(other, q)
          \/ AttesterDecisionRoot(state, r) # AttesterDecisionRoot(other, q)

(* What is drawn ahead is whole and is what it is asked for: every slot of  *)
(* the lookahead has its proposer, asked for by slot, by epoch or held      *)
(* against a preference; a payload committee is drawn from the committees   *)
(* of its slot.                                                             *)
DrawsAgree ==
  /\ \A slot \in StartSlot(Current(state))..(StartSlot(Current(state) + 1) - 1) :
       GetBeaconProposerIndex(state, slot)
         = GetBeaconProposerIndices(config, state, Current(state))
             [(slot % SlotsPerEpoch) + 1]
  /\ \A slot \in 0..(LastSlot + 2) :
       /\ ProposalEntry(state, slot) # Never =>
            ProposalEntry(state, slot).slot = slot
       /\ LET committee == state.seen.committees[Epoch(slot)]
          IN GetPtc(state, slot) # Never =>
               /\ GetPtc(state, slot).slot = slot
               /\ committee \in {Never, GetPtc(state, slot).of.from}

(* A cache that is served is what would be computed: committees while their *)
(* seed is there, the total of the balances, the slashed validators, and no *)
(* more keys than validators, also after a rebase onto an ancestor.         *)
CachesTrue ==
  /\ \A r \in RelativeEpochs :
       IsInitializedAt(state, r) =>
         CommitteeCache(state, r) = Shuffled(state, IntoEpoch(state, r))
  /\ TotalActiveBalance(state) \in {Never, TotalAt(state, Current(state))}
  /\ SlashingsInitialized(state) => state.slashings.slashed = SlashedIn(state)
  /\ Built(state) => state.pubkeys <= Len(state.validators)

LastBlockBefore(log, slot) ==
  SelectSeq(log, LAMBDA b : b.slot <= slot)

(* The root of a recent slot is that of the last block until then and of    *)
(* the state after it, at both ends of the ring; an attestation is for the  *)
(* block of its slot exactly if that slot had one                           *)
(* (is_attestation_same_slot); the committee of the next slot is that of    *)
(* its epoch.                                                               *)
RootsTrue ==
  /\ \A slot \in 0..LastSlot :
       LET root == LastBlockBefore(state.log, slot)
       IN /\ GetBlockRoot(state, slot) \in {Never, root}
          /\ GetStateRoot(state, slot) \in {Never, [slot |-> slot, log |-> root]}
          /\ slot > 0 =>
               IsAttestationSameSlot(state, slot, root)
                 \in {Never, root # <<>> /\ Last(root).slot = slot}
  /\ GetBlockRoot(state, Less(state.slot, 1)) = Never => state.slot = 0
  /\ state.name # "base" =>
       SyncCommitteeForNextSlot(state) = GetBuiltSyncCommittee(state, Epoch(state.slot + 1))
=============================================================================
