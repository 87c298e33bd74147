------------------------------- MODULE Forks -------------------------------
(***************************************************************************)
(* The forks of the consensus client with the dedicated fork of the        *)
(* aggregate, as questions to a configuration: which fork an epoch is in,  *)
(* its digest, its limits on blobs, and whether the configuration is       *)
(* accepted.                                                               *)
(*                                                                         *)
(* Daisugi branches off Electra: it is neither before nor after Fulu, but  *)
(* the comparison of fork names puts it between them, and the tag it has   *)
(* on disk puts it last.                                                   *)
(*                                                                         *)
(* A version is a model value: that of a fork is its name, except          *)
(* Daisugi's, which the configuration chooses.                             *)
(***************************************************************************)
EXTENDS Integers, Sequences, SequencesExt, FiniteSets

CONSTANTS
  Never,              \* an epoch that is not set
  BlobLimit, BlobLimitElectra       \* blobs per block before schedules

UpgradeOrder == <<"altair", "bellatrix", "capella", "deneb", "electra",
                  "daisugi", "fulu", "gloas">>

ListAll == <<"base", "altair", "bellatrix", "capella", "deneb", "electra",
             "fulu", "gloas", "daisugi">>

ForkName == ToSet(ListAll)

\* The tag of a name on disk, and the rank by which names are compared.
Tag(f) == CHOOSE i \in DOMAIN ListAll : ListAll[i] = f

Rank(f) ==
  [base |-> 0, altair |-> 1, bellatrix |-> 2, capella |-> 3, deneb |-> 4,
   electra |-> 5, daisugi |-> 6, fulu |-> 7, gloas |-> 8][f]

PreviousFork(f) ==
  [base |-> "base", altair |-> "base", bellatrix |-> "altair",
   capella |-> "bellatrix", deneb |-> "capella", electra |-> "deneb",
   fulu |-> "electra", gloas |-> "fulu", daisugi |-> "electra"][f]

NextFork(f) ==
  CASE f \in {"daisugi", "gloas"} -> {}
    [] OTHER -> {g \in ForkName \ {"base", "daisugi"} : PreviousFork(g) = f}

Enabled(f, g) == Rank(f) >= Rank(g)

(***************************************************************************)
(* Questions answered from a configuration c.                              *)
(***************************************************************************)
Reached(c, f, e) == c.epoch[f] # Never /\ e >= c.epoch[f]

\* fork_name_at_epoch asks from the newest fork down.
NameAt(c, e) ==
  LET since == c.epoch
      reached == SelectSeq(UpgradeOrder, LAMBDA f : since[f] # Never /\ e >= since[f])
  IN IF reached = <<>> THEN "base" ELSE Last(reached)

Version(c, f) == IF f = "daisugi" THEN c.version ELSE f

ForkAt(c, e) ==
  LET f == NameAt(c, e)
      since == c.epoch[f]
  IN [previous |-> Version(c, IF since = 0 THEN f ELSE PreviousFork(f)),
      current  |-> Version(c, f),
      epoch    |-> since]

(* Mutant of Later: only the fork after this one by name. *)
LaterByName(c, e) == {f \in NextFork(NameAt(c, e)) : c.epoch[f] # Never}

\* next_fork_epoch: the least later epoch, the first in the list at a tie.
Later(c, e) == {f \in ForkName : c.epoch[f] # Never /\ c.epoch[f] > e}

Soonest(c, forks) ==
  CHOOSE f \in forks : \A g \in forks :
    \/ c.epoch[f] < c.epoch[g]
    \/ c.epoch[f] = c.epoch[g] /\ Tag(f) <= Tag(g)

NextForkVersion(c, e) ==
  IF Later(c, e) = {} THEN Version(c, NameAt(c, e))
  ELSE Version(c, Soonest(c, Later(c, e)))

\* The entry of the schedule of blobs an epoch falls under, if any.
Entries(c, e) == {b \in c.blobs : e >= b.epoch}

EntryAt(c, e) == CHOOSE b \in Entries(c, e) : \A d \in Entries(c, e) : d.epoch <= b.epoch

BlobParameters(c, e) ==
  IF ~Reached(c, "fulu", e) THEN Never
  ELSE IF Entries(c, e) # {} THEN EntryAt(c, e)
  ELSE [epoch |-> c.epoch["electra"], max |-> BlobLimitElectra]

Digest(c, e) == <<Version(c, NameAt(c, e)), BlobParameters(c, e)>>

(* Mutant of DigestEpochs: the schedule of blobs is left out. *)
DigestEpochsOfForks(c) == {c.epoch[f] : f \in ForkName} \ {Never}

DigestEpochs(c) ==
  ({c.epoch[f] : f \in ForkName} \ {Never})
    \cup {b.epoch : b \in IF c.epoch["fulu"] # Never THEN c.blobs ELSE {}}

NextDigestEpoch(c, e) ==
  LET later == {d \in DigestEpochs(c) : d > e}
  IN IF later = {} THEN Never ELSE CHOOSE d \in later : \A x \in later : d <= x

MaxBlobs(c, e) ==
  CASE Reached(c, "fulu", e) /\ Entries(c, e) # {} -> EntryAt(c, e).max
    [] Reached(c, "electra", e)                    -> BlobLimitElectra
    [] OTHER                                       -> BlobLimit

(* Mutant of MaxBlobsWithin: the schedule of blobs is left out. *)
MaxBlobsFixed(c, f) == IF Enabled(f, "electra") THEN BlobLimitElectra ELSE BlobLimit

MaxBlobsWithin(c, f) ==
  LET base == IF Enabled(f, "electra") THEN BlobLimitElectra ELSE BlobLimit
      most == {base} \cup {b.max : b \in IF Enabled(f, "fulu") THEN c.blobs ELSE {}}
  IN CHOOSE m \in most : \A x \in most : x <= m

(***************************************************************************)
(* apply_to_chain_spec: what a configuration with Daisugi must say.        *)
(***************************************************************************)
(* Mutant of Accepted: Daisugi may meet Fulu or Gloas. *)
AcceptedWithFulu(c) ==
  c.epoch["daisugi"] = Never
    \/ /\ c.epoch["electra"] # Never
       /\ c.epoch["daisugi"] >= c.epoch["electra"]
       /\ c.version \notin ForkName \ {"daisugi"}

(* Mutant of Accepted: the version may be one that is in use. *)
AcceptedAnyVersion(c) ==
  c.epoch["daisugi"] = Never
    \/ /\ c.epoch["electra"] # Never
       /\ c.epoch["daisugi"] >= c.epoch["electra"]
       /\ c.epoch["fulu"] = Never /\ c.epoch["gloas"] = Never

Accepted(c) ==
  c.epoch["daisugi"] = Never
    \/ /\ c.epoch["electra"] # Never
       /\ c.epoch["daisugi"] >= c.epoch["electra"]
       /\ c.epoch["fulu"] = Never /\ c.epoch["gloas"] = Never
       /\ c.version \notin {"zero"} \cup (ForkName \ {"daisugi"})
=============================================================================
