----------------------------- MODULE LightClient -----------------------------
(***************************************************************************)
(* What a light client is given: headers of blocks with proofs taken from  *)
(* their states, as updates of a sync committee period, finality updates,  *)
(* optimistic updates and bootstraps, each in the container of its fork.   *)
(*                                                                         *)
(* A block is known by its slot, and an epoch is a slot long.  A proof is  *)
(* the field it leads to and its length.                                   *)
(***************************************************************************)
EXTENDS Forks, TLC

CONSTANTS
  Schedules,          \* the configurations of networks
  PeriodEpochs,       \* epochs of a sync committee period
  Committee,          \* the size of a sync committee
  Aggregates,         \* sync aggregates that may be heard
  MaxHeard            \* a bound on those that are

(* An aggregate says how many took part, in which slot, for which earlier block,
   and which block its state has finalized, which may be unknown: Never. *)
VARIABLES
  config,             \* the configuration
  heard,              \* the sync aggregates there have been
  best,               \* the update of each period
  finality,           \* the latest finality update
  optimistic          \* the latest optimistic update

clientVars == <<config, heard, best, finality, optimistic>>

Nothing == [kind |-> "nothing"]
Refusal == [kind |-> "refused"]

(***************************************************************************)
(* Proofs of fields of a state.                                            *)
(***************************************************************************)
\* The fields of a state in their order, those of later forks by the name of the fork.
StateFields == [f \in ForkName |->
  <<"genesis_time", "genesis_validators_root", "slot", "fork", "latest_block_header",
    "block_roots", "state_roots", "historical_roots", "eth1_data", "eth1_data_votes",
    "eth1_deposit_index", "validators", "balances", "randao_mixes", "slashings",
    "previous_epoch_votes", "current_epoch_votes", "justification_bits",
    "previous_justified_checkpoint", "current_justified_checkpoint", "finalized_checkpoint">>
  \o (IF Enabled(f, "altair")
      THEN <<"inactivity_scores", "current_sync_committee", "next_sync_committee">> ELSE <<>>)
  \o (IF Enabled(f, "bellatrix") THEN <<"execution">> ELSE <<>>)
  \o (IF Enabled(f, "capella") THEN [i \in 1..3 |-> "capella"] ELSE <<>>)
  \o (IF Enabled(f, "electra") THEN [i \in 1..9 |-> "electra"] ELSE <<>>)
  \o (IF Enabled(f, "fulu") THEN <<"proposer_lookahead">> ELSE <<>>)
  \o (IF f = "gloas" THEN [i \in 1..8 |-> "gloas"] ELSE <<>>)]

\* The number of fields rounded up to a power of two is 2 ^ Depth[f].
Depth ==
  [f \in ForkName |->
     CHOOSE d \in 1..7 : 2 ^ d >= Len(StateFields[f]) /\ 2 ^ (d - 1) < Len(StateFields[f])]

\* A generalized index less the leaves is the index of a field.
GenerateProof(f, gindex) ==
  LET index == gindex - 2 ^ Depth[f] IN
  IF index \notin 0..(Len(StateFields[f]) - 1) THEN Refusal
  ELSE [kind |-> "proof", of |-> StateFields[f][index + 1], length |-> Depth[f]]

CurrentSyncCommitteeProof(f) == GenerateProof(f, IF Enabled(f, "electra") THEN 86 ELSE 54)
NextSyncCommitteeProof(f) == GenerateProof(f, IF Enabled(f, "electra") THEN 87 ELSE 55)

\* The root is the right half of the checkpoint; the epoch is the first of its proof.
FinalizedRootProof(f) ==
  LET proof == GenerateProof(f, (IF Enabled(f, "electra") THEN 169 ELSE 105) \div 2)
  IN IF proof = Refusal THEN Refusal ELSE [proof EXCEPT !.length = @ + 1]

(***************************************************************************)
(* Headers, and containers that are made of them.                          *)
(***************************************************************************)
FormOf(f) == IF f = "bellatrix" THEN "altair" ELSE f
Served(f) == f \notin {"base", "gloas"}

BlockAt(c, slot) == [slot |-> slot, fork |-> NameAt(c, slot)]

\* Altair's header takes any block, a later one only a block with a payload of its fork.
HeaderIn(form, b) ==
  IF form # "altair" /\ b.fork # form THEN Refusal
  ELSE [slot |-> b.slot, executed |-> form # "altair", empty |-> FALSE]

DefaultHeader(form) == [slot |-> 0, executed |-> form # "altair", empty |-> TRUE]

CommitteeBranch(form) == IF form \in {"altair", "capella", "deneb"} THEN 5 ELSE 6
FinalityBranch(form) == IF form \in {"altair", "capella", "deneb"} THEN 6 ELSE 7

\* A branch is of fixed length.
Fits(proof, length) == proof # Refusal /\ proof.length = length

AttestedFork(c, a) == NameAt(c, a.attested)

NewUpdate(c, a) ==
  LET fork == AttestedFork(c, a)
      form == FormOf(fork)
      known == a.finalized # Never /\ NameAt(c, a.finalized) = fork
      finalized == IF known THEN HeaderIn(form, BlockAt(c, a.finalized)) ELSE DefaultHeader(form)
      attested == HeaderIn(form, BlockAt(c, a.attested))
  IN IF /\ Served(fork) /\ Refusal \notin {attested, finalized}
        /\ Fits(NextSyncCommitteeProof(fork), CommitteeBranch(form))
        /\ Fits(FinalizedRootProof(fork), FinalityBranch(form))
     THEN [kind |-> "update", form |-> form, attested |-> attested, finalized |-> finalized,
           committee |-> NextSyncCommitteeProof(fork), finality |-> FinalizedRootProof(fork),
           bits |-> a.bits, signature |-> a.signature]
     ELSE Refusal

NewFinalityUpdate(c, a) ==
  LET fork == AttestedFork(c, a)
      form == FormOf(fork)
      finalized == HeaderIn(form, BlockAt(c, a.finalized))
      attested == HeaderIn(form, BlockAt(c, a.attested))
  IN IF /\ Served(fork) /\ Refusal \notin {attested, finalized}
        /\ Fits(FinalizedRootProof(fork), FinalityBranch(form))
     THEN [kind |-> "finality", form |-> form, attested |-> attested, finalized |-> finalized,
           finality |-> FinalizedRootProof(fork), bits |-> a.bits, signature |-> a.signature]
     ELSE Refusal

NewOptimisticUpdate(c, a) ==
  LET fork == AttestedFork(c, a)
      attested == HeaderIn(FormOf(fork), BlockAt(c, a.attested))
  IN IF Served(fork) /\ attested # Refusal
     THEN [kind |-> "optimistic", form |-> FormOf(fork), attested |-> attested,
           bits |-> a.bits, signature |-> a.signature]
     ELSE Refusal

Bootstrap(c, slot) ==
  LET fork == NameAt(c, slot)
      header == HeaderIn(FormOf(fork), BlockAt(c, slot))
  IN IF /\ Served(fork) /\ header # Refusal
        /\ Fits(CurrentSyncCommitteeProof(fork), CommitteeBranch(FormOf(fork)))
     THEN [kind |-> "bootstrap", form |-> FormOf(fork), attested |-> header,
           committee |-> CurrentSyncCommitteeProof(fork)]
     ELSE Refusal

\* What is read is of the form of the fork it is read as; both branches grew in the
\* same fork, and an optimistic update has none.
HeaderLayout(form) ==
  CASE form \in {"deneb", "electra", "fulu"} -> "with blob gas" [] OTHER -> form
Layout(m) ==
  <<m.kind, HeaderLayout(m.form), IF m.kind = "optimistic" THEN 0 ELSE CommitteeBranch(m.form)>>
ReadAs(m, f) ==
  IF ~Served(f) \/ Layout(m) # Layout([m EXCEPT !.form = FormOf(f)]) THEN Refusal
  ELSE [m EXCEPT !.form = FormOf(f)]

(***************************************************************************)
(* Which update is better, and which is later.                             *)
(***************************************************************************)
Period(slot) == slot \div PeriodEpochs
\* A branch of a state has hashes that are not zero.
EmptyBranch(proof) == proof.length = 0
SuperMajority(u) == u.bits * 3 >= Committee * 2
IsSyncCommitteeUpdate(u) ==
  ~EmptyBranch(u.committee) /\ Period(u.attested.slot) = Period(u.signature)
HasFinality(u) == ~EmptyBranch(u.finality)
HasSyncCommitteeFinality(u) == Period(u.finalized.slot) = Period(u.attested.slot)

\* The first question on which they differ decides.
IsBetter(old, new) ==
  IF SuperMajority(new) # SuperMajority(old) THEN SuperMajority(new)
  ELSE IF ~SuperMajority(new) /\ new.bits # old.bits THEN new.bits > old.bits
  ELSE IF IsSyncCommitteeUpdate(new) # IsSyncCommitteeUpdate(old) THEN IsSyncCommitteeUpdate(new)
  ELSE IF HasFinality(new) # HasFinality(old) THEN HasFinality(new)
  ELSE IF HasFinality(new) /\ HasSyncCommitteeFinality(new) # HasSyncCommitteeFinality(old)
       THEN HasSyncCommitteeFinality(new)
  ELSE IF new.bits # old.bits THEN new.bits > old.bits
  ELSE IF new.attested.slot # old.attested.slot THEN new.attested.slot < old.attested.slot
  ELSE new.signature < old.signature

IsLatest(old, attested, signature) ==
  \/ attested > old.attested.slot
  \/ attested = old.attested.slot /\ signature > old.signature
-----------------------------------------------------------------------------
ClientInit ==
  /\ config \in Schedules
  /\ heard = {}
  /\ best = [p \in {Period(a.signature) : a \in Aggregates} |-> Nothing]
  /\ finality = Nothing
  /\ optimistic = Nothing

\* A slot's message replaces the one there is if it is wanted and can be made.
Kept(old, new, wanted) == IF new # Refusal /\ (old = Nothing \/ wanted) THEN new ELSE old

(* recompute_and_cache_updates, for the aggregate of a block that was imported. *)
Recompute ==
  /\ Cardinality(heard) < MaxHeard
  /\ \E a \in Aggregates \ heard :
       LET update == NewUpdate(config, a)
           p == Period(a.signature)
       IN /\ heard' = heard \cup {a}
          /\ optimistic' = Kept(optimistic, NewOptimisticUpdate(config, a),
                                IsLatest(optimistic, a.attested, a.signature))
          /\ finality' = IF a.finalized = Never THEN finality
                         ELSE Kept(finality, NewFinalityUpdate(config, a),
                                   IsLatest(finality, a.attested, a.signature))
          /\ best' = [best EXCEPT ![p] = Kept(@, update, IsBetter(@, update))]
  /\ UNCHANGED config

ClientNext == Recompute
-----------------------------------------------------------------------------
\* The best of a set of updates, question by question.
Having(us, Test(_)) == IF \E u \in us : Test(u) THEN {u \in us : Test(u)} ELSE us
Most(us, Key(_)) == {u \in us : \A v \in us : Key(u) >= Key(v)}
Participation(u) == u.bits
AttestedAge(u) == -u.attested.slot
SignatureAge(u) == -u.signature

Preferred(us) ==
  LET strong == {u \in us : SuperMajority(u)}
      heavy == IF strong # {} THEN strong ELSE Most(us, Participation)
      useful == Having(Having(Having(heavy, IsSyncCommitteeUpdate), HasFinality), HasSyncCommitteeFinality)
  IN Most(Most(Most(useful, Participation), AttestedAge), SignatureAge)

(* Whatever the order in which blocks are imported, and across forks, the update *)
(* a period is left with is the one the rules prefer among all there could have  *)
(* been: comparing two at a time loses none.                                     *)
BestKept ==
  \A p \in DOMAIN best :
    LET made == {NewUpdate(config, a) : a \in {x \in heard : Period(x.signature) = p}} \ {Refusal}
    IN IF made = {} THEN best[p] = Nothing ELSE best[p] \in Preferred(made)

(* The finality and optimistic updates are of the latest attested block, and the *)
(* latest signature for it, of all that could be made.                           *)
LatestKept ==
  LET Latest(us) == Most(Most(us, LAMBDA u : u.attested.slot), LAMBDA u : u.signature)
      finals == {NewFinalityUpdate(config, a) : a \in {x \in heard : x.finalized # Never}} \ {Refusal}
      others == {NewOptimisticUpdate(config, a) : a \in heard} \ {Refusal}
  IN /\ IF finals = {} THEN finality = Nothing ELSE finality \in Latest(finals)
     /\ IF others = {} THEN optimistic = Nothing ELSE optimistic \in Latest(others)

(* What a fork has in its state is proved by a branch of the length its container *)
(* has room for: a client is served from Altair to the fork before Gloas, but for *)
(* a finality update while the finalized block is of an older form, and what it   *)
(* is served it reads as it was made, by the fork of the attested slot.           *)
ClientsServed ==
  \A a \in Aggregates :
    LET fork == AttestedFork(config, a)
        update == NewUpdate(config, a)
        bootstrap == Bootstrap(config, a.attested)
    IN /\ \A m \in {update, bootstrap, NewOptimisticUpdate(config, a)} :
            /\ m # Refusal <=> Served(fork)
            /\ Served(fork) => ReadAs(m, fork) = m /\ ReadAs(m, m.form) = m
       /\ a.finalized # Never =>
            (NewFinalityUpdate(config, a) # Refusal
               <=> Served(fork) /\ FormOf(fork) \in {"altair", FormOf(NameAt(config, a.finalized))})
       /\ Served(fork) =>
            /\ update.committee.of = "next_sync_committee"
            /\ update.finality.of = "finalized_checkpoint"
            /\ bootstrap.committee.of = "current_sync_committee"
=============================================================================
