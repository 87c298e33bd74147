---------------------------- MODULE ForkSchedule ----------------------------
(***************************************************************************)
(* The fork schedule of the consensus client: how a configuration is read  *)
(* from a file and put into the built-in one, which it accepts, what it    *)
(* announces to its peers, and the upgrades a state undergoes slot by      *)
(* slot.                                                                   *)
(*                                                                         *)
(* Every question about forks is answered twice in the code, from the name *)
(* of the fork and from the epochs of the configuration (Forks), and a     *)
(* state holds a third answer.                                             *)
(***************************************************************************)
EXTENDS Forks, TLC

CONSTANTS
  Files,              \* the configurations that are read
  SlotsPerEpoch,
  LastEpoch,          \* a bound: no slot beyond this epoch
  BlobRetention, ColumnRetention    \* epochs a node keeps sidecars for

VARIABLES
  config,             \* the accepted configuration
  phase,              \* "unread", "refused", "panicked", "running", "failed"
  beacon              \* the state: its slot, variant and Fork record

forkVars == <<config, phase, beacon>>

Epoch(slot) == slot \div SlotsPerEpoch

\* Subtraction of epochs stops at zero.
Back(e, n) == IF e >= n THEN e - n ELSE 0

(* Mutant of Boundary: columns replace blobs at once. *)
BoundaryAtFulu(c, e) ==
  IF Reached(c, "fulu", e) THEN Back(e, ColumnRetention)
  ELSE IF c.epoch["deneb"] > Back(e, BlobRetention) THEN c.epoch["deneb"]
  ELSE Back(e, BlobRetention)

Boundary(c, e) ==
  IF Reached(c, "fulu", Back(e, BlobRetention)) THEN Back(e, ColumnRetention)
  ELSE IF c.epoch["deneb"] > Back(e, BlobRetention) THEN c.epoch["deneb"]
  ELSE Back(e, BlobRetention)

(***************************************************************************)
(* Configuration files.  A file says what epoch each fork has, or nothing  *)
(* of it, the version of Daisugi, the blobs, the length of a slot in one   *)
(* of two units or both, and any of the other fields; the versions of the  *)
(* other forks are distinct, and limits on blobs are the constants.        *)
(***************************************************************************)
MaxEpoch == -1          \* stands for u64::MAX, how a file says that there is no fork
BasisPoints == 10000
Columns == 128

NetworkDefaults ==
  [attestation_subnet_count |-> 64, attestation_subnet_extra_bits |-> 0,
   max_request_blocks |-> 1024, max_request_blocks_deneb |-> 128, max_request_blob_sidecars |-> 768]

\* What is due within a slot, in parts of ten thousand of it.
TimeDefaults ==
  [attestation_due_bps |-> 3333, attestation_due_bps_gloas |-> 2500, payload_due_bps |-> 7500,
   payload_attestation_due_bps |-> 7500, aggregate_due_bps |-> 6667, sync_message_due_bps |-> 3333,
   contribution_due_bps |-> 6667]

ReadEpochs(file) == [f \in ForkName |-> IF file.epoch[f] = MaxEpoch THEN Never ELSE file.epoch[f]]
ReadFields(file) == file.fields @@ NetworkDefaults @@ TimeDefaults
Read(file) == [file EXCEPT !.epoch = ReadEpochs(file), !.fields = ReadFields(file)]

\* Everything that is computed from other fields.
DueIn(fields, ms) == [f \in DOMAIN TimeDefaults |-> (fields[f] * ms) \div BasisPoints]
PrefixBits(count, extra) == extra + CHOOSE n \in 0..16 : 2^n >= count /\ (n = 0 \/ 2^(n - 1) < count)
ByRoot(fields, payloads) ==
  [blocks |-> 32 * fields.max_request_blocks, blocks_deneb |-> 32 * fields.max_request_blocks_deneb,
   blobs |-> 40 * fields.max_request_blob_sidecars,
   columns |-> (40 + 8 * Columns) * fields.max_request_blocks_deneb, envelopes |-> 32 * payloads]
Derived(fields, ms, payloads) ==
  [due |-> DueIn(fields, ms),
   prefix_bits |-> PrefixBits(fields.attestation_subnet_count, fields.attestation_subnet_extra_bits),
   by_root |-> ByRoot(fields, payloads)]
InSlot == {"attestation_due_bps", "aggregate_due_bps", "sync_message_due_bps", "contribution_due_bps"}
Panics(file) == \E f \in InSlot : file.fields[f] > BasisPoints

(***************************************************************************)
(* What is built in: the values of mainnet, minimal and gnosis, with what  *)
(* is computed written out.                                                *)
(***************************************************************************)
Due(attestation, gloas, payload, aggregate) ==
  [attestation_due_bps |-> attestation, attestation_due_bps_gloas |-> gloas,
   payload_due_bps |-> payload, payload_attestation_due_bps |-> payload,
   aggregate_due_bps |-> aggregate, sync_message_due_bps |-> attestation,
   contribution_due_bps |-> aggregate]
InOrder(epochs) ==
  [f \in ForkName |-> IF f = "base" THEN 0
                      ELSE IF Tag(f) - 1 \in DOMAIN epochs THEN epochs[Tag(f) - 1] ELSE Never]

MainnetTimes == [seconds |-> 12, ms |-> 12000, boost |-> 40, due |-> Due(3999, 3000, 9000, 8000)]
MainnetEpochs == InOrder(<<74240, 144896, 194048, 269568, 364032, 411392>>)
MainnetNetwork ==
  [blobs |-> {[epoch |-> 412672, max |-> 15], [epoch |-> 419072, max |-> 21]}, payloads |-> 128,
   prefix_bits |-> 6,
   by_root |-> [blocks |-> 32768, blocks_deneb |-> 4096, blobs |-> 30720, columns |-> 136192,
                envelopes |-> 4096]]

Minimal ==
  [times |-> [MainnetTimes EXCEPT !.seconds = 6, !.ms = 6000, !.due = Due(1999, 1500, 4500, 4000)],
   epoch |-> InOrder(<<>>), network |-> [MainnetNetwork EXCEPT !.blobs = {}]]

GnosisTimes == [seconds |-> 5, ms |-> 5000, boost |-> 40, due |-> Due(1666, 1250, 3750, 3333)]
GnosisEpochs == InOrder(<<512, 385536, 648704, 889856, 1337856, 1714688>>)
GnosisNetwork == [MainnetNetwork EXCEPT !.blobs = {}]

Presets == {"mainnet", "minimal", "gnosis"}
BuiltIn(preset) ==
  LET of == CASE preset = "mainnet" -> [times |-> MainnetTimes, epoch |-> MainnetEpochs, network |-> MainnetNetwork]
              [] preset = "minimal" -> Minimal
              [] preset = "gnosis"  -> [times |-> GnosisTimes, epoch |-> GnosisEpochs, network |-> GnosisNetwork]
  IN [preset |-> preset, epoch |-> of.epoch, version |-> "zero", blobs |-> of.network.blobs,
      seconds |-> of.times.seconds, ms |-> of.times.ms, boost |-> of.times.boost,
      fields |-> NetworkDefaults @@ TimeDefaults, payloads |-> of.network.payloads,
      derived |-> [due |-> of.times.due, prefix_bits |-> of.network.prefix_bits,
                   by_root |-> of.network.by_root]]

(***************************************************************************)
(* From a file to the built-in values and back.                            *)
(***************************************************************************)
(* apply_to_chain_spec for a program of one preset. *)
Refuses(preset, file) ==
  \/ ~Accepted(file)
  \/ file.preset # preset
  \/ file.seconds = Never /\ file.ms = Never
  \/ file.seconds # Never /\ file.ms # Never /\ file.seconds * 1000 # file.ms

Applied(file, base) ==
  LET ms == IF file.ms # Never THEN file.ms ELSE file.seconds * 1000
  IN [file @@ base EXCEPT
        !.seconds = IF file.seconds # Never THEN file.seconds ELSE ms \div 1000,
        !.ms = ms,
        !.boost = IF file.boost # Never THEN file.boost ELSE base.boost,
        !.derived = Derived(file.fields, ms, base.payloads)]

FromSpec(spec) ==
  [preset |-> spec.preset, version |-> spec.version, blobs |-> spec.blobs, seconds |-> spec.seconds,
   ms |-> spec.ms, boost |-> spec.boost, fields |-> spec.fields,
   epoch |-> [f \in ForkName |-> IF spec.epoch[f] = Never THEN MaxEpoch ELSE spec.epoch[f]]]

\* What the API serves leaves the blobs out until Fulu is scheduled.
Served(spec) == IF spec.epoch["fulu"] # Never \/ spec.epoch["gloas"] # Never THEN FromSpec(spec)
                ELSE [FromSpec(spec) EXCEPT !.blobs = {}]

(***************************************************************************)
(* The state.  An upgrade transforms the variant before it and no other;   *)
(* at genesis the record forgets the variants that were only passed        *)
(* through.                                                                *)
(***************************************************************************)
Failed == [slot |-> 0, name |-> "none",
           fork |-> [previous |-> "none", current |-> "none", epoch |-> 0]]

Upgraded(c, s, f) ==
  IF s = Failed \/ c.epoch[f] # Epoch(s.slot) THEN s
  ELSE IF s.name # PreviousFork(f) THEN Failed
  ELSE [s EXCEPT !.name = f,
                 !.fork = [previous |-> s.fork.current,
                           current  |-> Version(c, f),
                           epoch    |-> Epoch(s.slot)]]

GenesisStep(c, s, f) ==
  LET u == Upgraded(c, s, f)
  IN IF u = s \/ u = Failed THEN u ELSE [u EXCEPT !.fork.previous = Version(c, f)]

Genesis(c) ==
  LET start == [slot |-> 0, name |-> "base",
                fork |-> [previous |-> "base", current |-> "base", epoch |-> 0]]
  IN FoldLeft(LAMBDA s, f : GenesisStep(c, s, f), start, UpgradeOrder)

Processed(c, s) ==
  LET t == [s EXCEPT !.slot = @ + 1]
  IN IF s.name # NameAt(c, Epoch(s.slot)) THEN Failed
     ELSE IF t.slot % SlotsPerEpoch # 0 THEN t
     ELSE FoldLeft(LAMBDA u, f : Upgraded(c, u, f), t, UpgradeOrder)

ForkInit == config = Never /\ phase = "unread" /\ beacon = Failed

Become(c, s) ==
  /\ config' = c /\ beacon' = s
  /\ phase' = IF s = Failed THEN "failed" ELSE "running"

(* from_config: the node's program is of one preset. *)
Configure == \E c \in Files, preset \in Presets :
  LET file == Read(c)
      spec == Applied(file, BuiltIn(preset))
  IN /\ phase = "unread"
     /\ IF Refuses(preset, file) THEN phase' = "refused" /\ UNCHANGED <<config, beacon>>
        ELSE IF Panics(file) THEN phase' = "panicked" /\ UNCHANGED <<config, beacon>>
        ELSE Become(spec, Genesis(spec))

ProcessSlot ==
  /\ phase = "running" /\ Epoch(beacon.slot) < LastEpoch
  /\ Become(config, Processed(config, beacon))

ForkNext == Configure \/ ProcessSlot

ForkSpec == ForkInit /\ [][ForkNext]_forkVars

Running == phase = "running"

Now == Epoch(beacon.slot)

-----------------------------------------------------------------------------
(* A chain whose configuration was accepted never meets a state it cannot  *)
(* upgrade, and the variant and the Fork record of its state are at every  *)
(* slot those the configuration answers for that epoch                     *)
(* (BeaconState::fork_name, fork_at_epoch), also when several forks share  *)
(* an epoch and when they are active from genesis.  Signatures are made    *)
(* under one of the answers and verified under another.                    *)
StateAgrees ==
  /\ phase # "failed"
  /\ Running => /\ beacon.name = NameAt(config, Now)
                /\ beacon.fork = ForkAt(config, Now)

(* A change of fork changes the version, so no signature made before it is *)
(* valid after it: apply_to_chain_spec refuses a version that is in use.   *)
VersionsNewStep ==
  Running /\ beacon'.name # beacon.name
    => beacon'.fork.current # beacon.fork.current
VersionsNew == [][VersionsNewStep]_forkVars

(* The fork the node announces as its next one is the fork its chain       *)
(* enters next: until the announced epoch the name does not change, and    *)
(* then it does, to the announced fork or one that shares its epoch; where *)
(* none is announced none comes.                                           *)
NextForkTrue == Running =>
  LET coming == {e \in (Now + 1)..LastEpoch : NameAt(config, e) # NameAt(config, Now)}
      later == Later(config, Now)
      next == config.epoch[Soonest(config, later)]
  IN IF later = {} THEN coming = {} /\ NextForkVersion(config, Now) = beacon.fork.current
     ELSE /\ \A e \in coming : e >= next
          /\ next <= LastEpoch => next \in coming

(* The digest that separates the gossip of two forks changes at no epoch   *)
(* but the next one announced in the ENR, so a peer that follows the       *)
(* announcements is never on another digest than the chain.                *)
DigestAnnounced == Running =>
  \A e \in (Now + 1)..LastEpoch :
    NextDigestEpoch(config, Now) = Never \/ e < NextDigestEpoch(config, Now)
      => Digest(config, e) = Digest(config, Now)

(* What the code asks of a fork's name (electra_enabled, fulu_enabled, ..) *)
(* agrees with what it asks of the epoch (is_peer_das_enabled_for_epoch),  *)
(* for a chain on Daisugi too: it has Electra's capabilities and none of   *)
(* Fulu's or Gloas's.                                                      *)
CapabilitiesAgree == Running =>
  \A g \in ForkName \ {"base", "daisugi"} :
    Enabled(beacon.name, g) <=> Reached(config, g, Now)

(* The limit on blobs by which lists received from peers are sized, asked  *)
(* by the name of the fork, is never below the limit a block of the epoch  *)
(* is held to.                                                             *)
BlobsWithinFork == Running =>
  MaxBlobs(config, Now) <= MaxBlobsWithin(config, beacon.name)

(* The epoch from which a node keeps and serves sidecars never moves back, *)
(* over the change from blobs to columns too, and is never before Deneb:   *)
(* a node is not asked again for what it was allowed to prune.             *)
BoundaryAdvancesStep ==
  Running /\ config.epoch["deneb"] # Never
    => /\ Boundary(config, Epoch(beacon'.slot)) >= Boundary(config, Now)
       /\ Boundary(config, Now) >= config.epoch["deneb"]
BoundaryAdvances == [][BoundaryAdvancesStep]_forkVars

(* A configuration that was read, put into the built-in one, written out   *)
(* and read again is the same with everything that is computed from it, or *)
(* is refused because a slot of it is no number of seconds; the built-in   *)
(* ones, in which what is computed is written out, are so too.             *)
SpecsReturn ==
  \A spec \in (IF phase = "unread" THEN {BuiltIn(preset) : preset \in Presets} ELSE {})
               \cup (IF Running /\ beacon.slot = 0 THEN {config} ELSE {}) :
    LET file == Read(FromSpec(spec))
    IN IF Refuses(spec.preset, file) THEN spec.ms # spec.seconds * 1000
       ELSE ~Panics(file) /\ Applied(file, BuiltIn(spec.preset)) = spec

(* Whoever configures itself by what a node serves agrees with it on the   *)
(* fork, the digest and the blobs of every epoch, also before Fulu, where  *)
(* the blobs are left out.                                                 *)
ServedAgrees ==
  Running /\ beacon.slot = 0 =>
    LET file == Read(Served(config))
        other == Applied(file, BuiltIn(config.preset))
    IN ~Refuses(config.preset, file) =>
         \A e \in 0..LastEpoch :
           /\ NameAt(other, e) = NameAt(config, e) /\ ForkAt(other, e) = ForkAt(config, e)
           /\ Digest(other, e) = Digest(config, e) /\ MaxBlobs(other, e) = MaxBlobs(config, e)
           /\ NextDigestEpoch(other, e) = NextDigestEpoch(config, e)
=============================================================================
