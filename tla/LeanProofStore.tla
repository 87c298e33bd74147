--------------------------- MODULE LeanProofStore ---------------------------
(***************************************************************************)
(* The witness store of the Nethermind aggregation overlay, from           *)
(*   Nethermind.Core/Crypto/LeanProofStore.cs.                             *)
(*                                                                         *)
(* The store keeps verified dependency witnesses under a byte and a record *)
(* limit.  Admission scopes, transaction reservations and pool entries pin *)
(* the records they rely on; whatever no one pins may be evicted, oldest   *)
(* first.  Every public method runs under the one lock of the store, so    *)
(* each is one action here.                                                *)
(*                                                                         *)
(* A ProofRecord is identified with its Identity hash: two stored records  *)
(* never share one (_identities), and the objects the code drops are held  *)
(* by no one.  A direct record proves one dependency, a recursive record   *)
(* all dependencies of its wrapper.  The cache of generated recursive      *)
(* proofs, which shares the lock but no other state, is not here.          *)
(***************************************************************************)
EXTENDS Integers, SequencesExt, Subsequences

CONSTANTS
  Dep,          \* dependencies: (scheme, message, key) triples
  Record,       \* identities of proof records
  DepsOf,       \* DepsOf[r]: the dependencies record r proves
  Recursive,    \* the records that hold a recursive proof
  Bytes,        \* Bytes[S]: the total size of the records in S
  Sender, Owner,             \* senders; pools that pin in this store
  Tx, TxDeps, TxSender, TxOwner,  \* pool entries and what they depend on
  Flow,         \* asynchronous flows, each with its own AsyncLocal scope
  Lease,        \* reservation objects handed out by TryReserveTransaction
  None,         \* absence of a record or of a sender
  MaxStoredBytes, MaxStoredRecords,
  MaxSenderPinnedBytes, MaxSenderPinnedRecords

Holder == Flow \cup Lease \cup Tx

(* A Dictionary<FrameDependency, ProofRecord>, None where there is no entry. *)
Table == [Dep -> Record \cup {None}]

ASSUME FiniteAssumption == IsFiniteSet(Record) /\ IsFiniteSet(Dep) /\ IsFiniteSet(Holder)

ASSUME NoneAssumption == None \notin Record /\ None \notin Sender

(* Scopes, reservations and pool entries are different kinds of objects. *)
ASSUME HolderAssumption == /\ Flow \cap Lease = {}
                           /\ Flow \cap Tx = {}
                           /\ Lease \cap Tx = {}

ASSUME RecordAssumption == /\ DepsOf \in [Record -> SUBSET Dep]
                           /\ Recursive \subseteq Record

ASSUME TxAssumption == /\ TxDeps \in [Tx -> SUBSET Dep]
                       /\ TxSender \in [Tx -> Sender]
                       /\ TxOwner \in [Tx -> Owner]

(* Sizes add up over disjoint sets of records. *)
ASSUME BytesAssumption ==
  /\ Bytes \in [SUBSET Record -> Nat]
  /\ Bytes[{}] = 0
  /\ \A S, T \in SUBSET Record :
        S \cap T = {} => Bytes[S \cup T] = Bytes[S] + Bytes[T]

ASSUME LimitAssumption == /\ MaxStoredBytes \in Nat
                          /\ MaxStoredRecords \in Nat
                          /\ MaxSenderPinnedBytes \in Nat
                          /\ MaxSenderPinnedRecords \in Nat

VARIABLES
  identities,   \* the stored records (_identities)
  records,      \* the same records, oldest first (_records)
  storedBytes,  \* _storedBytes
  coverage,     \* the published record of each dependency (_coverage)
  pins,         \* ProofRecord.Pins
  covered,      \* ProofRecord.CoveredDependencies
  pending,      \* PendingProof.Coverage of each pool entry, empty when absent
  senders,      \* SenderPins.Records: references of each sender to each record
  senderBytes,  \* SenderPins.Bytes
  scope,        \* the records of each flow's admission scope, empty without one
  lease         \* the records and the sender of each reservation

stored   == <<identities, records, storedBytes>>
ledger   == <<senders, senderBytes>>
vars     == <<stored, coverage, pins, covered, pending, ledger, scope, lease>>
-----------------------------------------------------------------------------
Empty == [d \in Dep |-> None]
Free  == [records |-> {}, sender |-> None]

(* The distinct records of a table. *)
Used(t) == {t[d] : d \in Dep} \cap Record

Only(t, S) == [d \in Dep |-> IF d \in S THEN t[d] ELSE None]

(* What a wrapper offers: one direct record for each of its dependencies, or
   one recursive record for all of them. *)
Offer ==
  {t \in Table :
     /\ Used(t) # {}
     /\ \/ \A d \in Dep : t[d] # None => t[d] \notin Recursive /\ DepsOf[t[d]] = {d}
        \/ \E r \in Recursive : \A d \in Dep : t[d] = IF d \in DepsOf[r] THEN r ELSE None}

(* TryResolve: published coverage first, then the flow's own scope. *)
Resolve(f, d) == IF coverage[d] # None THEN coverage[d] ELSE scope[f][d]

Resolved(f, S) == Only([d \in Dep |-> Resolve(f, d)], S)

Resolvable(f, S) == \A d \in S : Resolve(f, d) # None

AddPins(S)  == [r \in Record |-> IF r \in S THEN pins[r] + 1 ELSE pins[r]]
DropPins(S) == [r \in Record |-> IF r \in S THEN pins[r] - 1 ELSE pins[r]]

(* Mutant of Published: a pinned record is replaced like any other. *)
PublishedOverPins(cov, p, t) == [d \in Dep |-> IF t[d] # None THEN t[d] ELSE cov[d]]

(* Publish, over a table of entries: an entry replaces no published record
   that is pinned. *)
Published(cov, p, t) ==
  [d \in Dep |-> IF t[d] # None /\ (cov[d] = None \/ p[cov[d]] = 0) THEN t[d] ELSE cov[d]]

(* Mutant of Recounted: the record that loses an entry is not decremented. *)
RecountedGains(cov, new, count) ==
  [r \in Record |-> count[r] + Cardinality({d \in Dep : new[d] = r /\ cov[d] # r})]

(* CoveredDependencies after coverage moves from cov to new by publication. *)
Recounted(cov, new, count) ==
  [r \in Record |-> count[r]
      + Cardinality({d \in Dep : new[d] = r /\ cov[d] # r})
      - Cardinality({d \in Dep : cov[d] = r /\ new[d] # r})]

(* Mutant of Uncovered: coverage still points at what was removed. *)
UncoveredNothing(out) == coverage

(* Remove, over a set: the coverage that pointed at a removed record goes too. *)
Uncovered(out) ==
  [d \in Dep |-> IF coverage[d] \in out /\ d \in DepsOf[coverage[d]] THEN None ELSE coverage[d]]

(* Mutant of Replace: a removed record keeps its list node. *)
ReplaceKeepingNodes(out, in) ==
  /\ identities' = (identities \ out) \cup in
  /\ \E q \in SetToSeqs(in) : records' = records \o q
  /\ storedBytes' = storedBytes - Bytes[out] + Bytes[in]

(* The stored records after those of out leave and those of in arrive, the
   latter in any of the orders a wrapper can list them. *)
Replace(out, in) ==
  /\ identities' = (identities \ out) \cup in
  /\ \E q \in SetToSeqs(in) : records' = Without(records, out) \o q
  /\ storedBytes' = storedBytes - Bytes[out] + Bytes[in]
-----------------------------------------------------------------------------
(* Mutant of Victims: eviction does not look at the pins. *)
VictimsPinnedToo(p, n) == {r \in identities : \E i \in 1..n : i <= Len(records) /\ records[i] = r}

(* MakeRoom walks the list from its oldest record and removes what nobody
   pins until the incoming records fit; it has removed everything unpinned
   when it gives up. *)
Victims(p, n) ==
  {r \in identities : p[r] = 0 /\ \E i \in 1..n : i <= Len(records) /\ records[i] = r}

(* Mutant of Fits: the incoming bytes are not counted. *)
FitsBefore(out, in) ==
  /\ storedBytes - Bytes[out] <= MaxStoredBytes
  /\ Len(records) - Cardinality(out) + Cardinality(in) <= MaxStoredRecords

Fits(out, in) ==
  /\ storedBytes - Bytes[out] + Bytes[in] <= MaxStoredBytes
  /\ Len(records) - Cardinality(out) + Cardinality(in) <= MaxStoredRecords

Evicted(p, in) ==
  LET enough == {n \in 0..Len(records) : Fits(Victims(p, n), in)}
  IN  IF in = {} THEN {}
      ELSE Victims(p, IF enough = {} THEN Len(records) ELSE Min(enough))

(* TryTakeSender and ReleaseSender, over the distinct records of a holder. *)
Fresh(s, S) == {r \in S : senders[s][r] = 0}

(* Mutant of CanTake: the limits are compared before the records are added. *)
CanTakeBefore(s, S) ==
  \/ S = {}
  \/ /\ senderBytes[s] <= MaxSenderPinnedBytes
     /\ Cardinality({r \in Record : senders[s][r] > 0}) <= MaxSenderPinnedRecords

(* Mutant of CanTake: what the sender is charged for already counts again. *)
CanTakeAgain(s, S) ==
  \/ S = {}
  \/ /\ senderBytes[s] + Bytes[S] <= MaxSenderPinnedBytes
     /\ Cardinality({r \in Record : senders[s][r] > 0} \cup S) <= MaxSenderPinnedRecords

CanTake(s, S) ==
  \/ S = {}
  \/ /\ senderBytes[s] + Bytes[Fresh(s, S)] <= MaxSenderPinnedBytes
     /\ Cardinality({r \in Record : senders[s][r] > 0} \cup S) <= MaxSenderPinnedRecords

TakeSender(s, S) ==
  /\ senders' = [senders EXCEPT ![s] = [r \in Record |-> IF r \in S THEN @[r] + 1 ELSE @[r]]]
  /\ senderBytes' = [senderBytes EXCEPT ![s] = @ + Bytes[Fresh(s, S)]]

ReleaseSender(s, S) ==
  /\ senders' = [senders EXCEPT ![s] = [r \in Record |-> IF r \in S THEN @[r] - 1 ELSE @[r]]]
  /\ senderBytes' = [senderBytes EXCEPT ![s] = @ - Bytes[{r \in S : senders[s][r] = 1}]]
-----------------------------------------------------------------------------
Init ==
  /\ identities = {}
  /\ records = <<>>
  /\ storedBytes = 0
  /\ coverage = Empty
  /\ pins = [r \in Record |-> 0]
  /\ covered = [r \in Record |-> 0]
  /\ pending = [t \in Tx |-> Empty]
  /\ senders = [s \in Sender |-> [r \in Record |-> 0]]
  /\ senderBytes = [s \in Sender |-> 0]
  /\ scope = [f \in Flow |-> Empty]
  /\ lease = [l \in Lease |-> Free]

(* TryBeginAdmission: dependencies already covered keep their record, the
   others bring one.  All of them are pinned before room is made; when there
   is none the pins go, and what was evicted stays evicted. *)
TryBeginAdmission(f, w) ==
  LET chosen == [d \in Dep |-> IF w[d] = None THEN None
                               ELSE IF coverage[d] # None THEN coverage[d] ELSE w[d]]
      in  == Used(chosen) \ identities
      out == Evicted(AddPins(Used(chosen)), in)
  IN  /\ scope[f] = Empty
      /\ coverage' = Uncovered(out)
      /\ \/ /\ in = {} \/ Fits(out, in)
            /\ Replace(out, in)
            /\ pins' = AddPins(Used(chosen))
            /\ covered' = [r \in Record |-> IF r \in in THEN 0 ELSE covered[r]]
            /\ scope' = [scope EXCEPT ![f] = chosen]
         \/ /\ in # {} /\ ~Fits(out, in)
            /\ Replace(out, {})
            /\ UNCHANGED <<pins, covered, scope>>
      /\ UNCHANGED <<pending, ledger, lease>>

(* TryReserveTransaction, when it succeeds; a failed call changes nothing. *)
TryReserveTransaction(f, l, S, s) ==
  LET held == Used(Resolved(f, S))
  IN  /\ lease[l] = Free
      /\ held # {} /\ Resolvable(f, S)
      /\ \/ s = None /\ UNCHANGED ledger
         \/ s # None /\ CanTake(s, held) /\ TakeSender(s, held)
      /\ pins' = AddPins(held)
      /\ lease' = [lease EXCEPT ![l] = [records |-> held, sender |-> s]]
      /\ UNCHANGED <<stored, coverage, covered, pending, scope>>

(* Mutant of PinPending: a pin for each dependency, not for each record. *)
PinEachDependency(f, t, publish) ==
  LET chosen == Resolved(f, TxDeps[t])
      s == TxSender[t]
      p == [r \in Record |-> pins[r] + Cardinality({d \in Dep : chosen[d] = r})]
      new == IF publish THEN Published(coverage, p, chosen) ELSE coverage
  IN  /\ pending[t] = Empty
      /\ TxDeps[t] # {} /\ Resolvable(f, TxDeps[t])
      /\ CanTake(s, Used(chosen))
      /\ TakeSender(s, Used(chosen))
      /\ pins' = p
      /\ pending' = [pending EXCEPT ![t] = chosen]
      /\ coverage' = new
      /\ covered' = Recounted(coverage, new, covered)
      /\ UNCHANGED <<stored, scope, lease>>

(* PinPending, when it pins: an entry that is pinned already, or one without
   dependencies, is left as it is. *)
PinPending(f, t, publish) ==
  LET chosen == Resolved(f, TxDeps[t])
      s == TxSender[t]
      new == IF publish THEN Published(coverage, AddPins(Used(chosen)), chosen) ELSE coverage
  IN  /\ pending[t] = Empty
      /\ TxDeps[t] # {} /\ Resolvable(f, TxDeps[t])
      /\ CanTake(s, Used(chosen))
      /\ TakeSender(s, Used(chosen))
      /\ pins' = AddPins(Used(chosen))
      /\ pending' = [pending EXCEPT ![t] = chosen]
      /\ coverage' = new
      /\ covered' = Recounted(coverage, new, covered)
      /\ UNCHANGED <<stored, scope, lease>>

Publish(t) ==
  /\ coverage' = Published(coverage, pins, t)
  /\ covered' = Recounted(coverage, coverage', covered)
  /\ UNCHANGED <<stored, pins, pending, ledger, scope, lease>>

PublishPending(t) == pending[t] # Empty /\ Publish(pending[t])

(* Mutant of UnpinPending: the entry stays, so it can be released again. *)
UnpinKeepingEntry(t) ==
  /\ pending[t] # Empty
  /\ ReleaseSender(TxSender[t], Used(pending[t]))
  /\ pins' = DropPins(Used(pending[t]))
  /\ UNCHANGED <<stored, coverage, covered, pending, scope, lease>>

UnpinPending(t) ==
  /\ pending[t] # Empty
  /\ ReleaseSender(TxSender[t], Used(pending[t]))
  /\ pins' = DropPins(Used(pending[t]))
  /\ pending' = [pending EXCEPT ![t] = Empty]
  /\ UNCHANGED <<stored, coverage, covered, scope, lease>>

(* ReleasePending unpins every entry of one pool, in one critical section. *)
References(T, r) == Cardinality({t \in T : r \in Used(pending[t])})

ReleasePending(o) ==
  LET owned == {t \in Tx : TxOwner[t] = o /\ pending[t] # Empty}
      of(s) == {t \in owned : TxSender[t] = s}
      last(s) == {r \in Record : senders[s][r] > 0 /\ senders[s][r] = References(of(s), r)}
  IN  /\ owned # {}
      /\ pins' = [r \in Record |-> pins[r] - References(owned, r)]
      /\ senders' = [s \in Sender |-> [r \in Record |-> senders[s][r] - References(of(s), r)]]
      /\ senderBytes' = [s \in Sender |-> senderBytes[s] - Bytes[last(s)]]
      /\ pending' = [t \in Tx |-> IF t \in owned THEN Empty ELSE pending[t]]
      /\ UNCHANGED <<stored, coverage, covered, scope, lease>>

CommitAdmission(f, S) == scope[f] # Empty /\ Publish(Only(scope[f], S))

(* AddVerified publishes from the flow's scope when that holds everything
   admitted, and otherwise stores what has no coverage yet if room can be
   made.  Only the records it is about to publish are pinned meanwhile. *)
AddVerified(f, w, S) ==
  LET reserved == \A d \in S : scope[f][d] # None
      missing == {d \in S : coverage[d] = None}
      request == Only(w, missing)
      in == Used(request) \ identities
      p  == [r \in Record |-> pins[r] + Cardinality({d \in Dep : request[d] = r})]
      out == Evicted(p, in)
      kept == Uncovered(out)
      zeroed == [r \in Record |-> IF r \in in THEN 0 ELSE covered[r]]
  IN  /\ S # {} /\ \A d \in S : w[d] # None
      /\ missing # {}
      /\ \/ reserved /\ Publish(Only(scope[f], S))
         \/ /\ ~reserved
            /\ \/ /\ in = {} \/ Fits(out, in)
                  /\ Replace(out, in)
                  /\ coverage' = Published(kept, p, request)
                  /\ covered' = Recounted(kept, coverage', zeroed)
               \/ /\ in # {} /\ ~Fits(out, in)
                  /\ Replace(out, {})
                  /\ coverage' = kept
                  /\ UNCHANGED covered
            /\ UNCHANGED <<pins, pending, ledger, scope, lease>>

(* RecordLease.Dispose: records nobody pins and nothing publishes leave. *)
Unreferenced(held) == {r \in held \cap identities : pins[r] = 1 /\ covered[r] = 0}

Dispose(held) ==
  /\ pins' = DropPins(held)
  /\ coverage' = Uncovered(Unreferenced(held))
  /\ Replace(Unreferenced(held), {})
  /\ UNCHANGED <<covered, pending>>

DisposeLease(l) ==
  LET s == lease[l].sender
  IN  /\ lease[l] # Free
      /\ Dispose(lease[l].records)
      /\ \/ s = None /\ UNCHANGED ledger
         \/ s # None /\ ReleaseSender(s, lease[l].records)
      /\ lease' = [lease EXCEPT ![l] = Free]
      /\ UNCHANGED scope

DisposeAdmission(f) ==
  /\ scope[f] # Empty
  /\ Dispose(Used(scope[f]))
  /\ scope' = [scope EXCEPT ![f] = Empty]
  /\ UNCHANGED <<ledger, lease>>
-----------------------------------------------------------------------------
Next ==
  \/ \E f \in Flow, w \in Offer : TryBeginAdmission(f, w)
  \/ \E f \in Flow, l \in Lease, S \in SUBSET Dep, s \in Sender \cup {None} :
        TryReserveTransaction(f, l, S, s)
  \/ \E f \in Flow, t \in Tx, publish \in BOOLEAN : PinPending(f, t, publish)
  \/ \E t \in Tx : PublishPending(t)
  \/ \E t \in Tx : UnpinPending(t)
  \/ \E o \in Owner : ReleasePending(o)
  \/ \E f \in Flow, S \in SUBSET Dep : CommitAdmission(f, S)
  \/ \E f \in Flow, w \in Offer, S \in SUBSET Dep : AddVerified(f, w, S)
  \/ \E l \in Lease : DisposeLease(l)
  \/ \E f \in Flow : DisposeAdmission(f)

Spec == Init /\ [][Next]_vars
-----------------------------------------------------------------------------
Held(h) == IF h \in Flow THEN Used(scope[h])
           ELSE IF h \in Lease THEN lease[h].records ELSE Used(pending[h])

HoldersOf(r) == {h \in Holder : r \in Held(h)}

(* The sender a holder is charged to. *)
ChargedTo(h) == IF h \in Flow THEN None
                ELSE IF h \in Lease THEN lease[h].sender ELSE TxSender[h]

TypeOK ==
  /\ identities \in SUBSET Record
  /\ storedBytes \in Nat
  /\ coverage \in Table
  /\ pins \in [Record -> Nat]
  /\ covered \in [Record -> Nat]
  /\ pending \in [Tx -> Table]
  /\ senders \in [Sender -> [Record -> Nat]]
  /\ senderBytes \in [Sender -> Nat]
  /\ scope \in [Flow -> Table]
  /\ lease \in [Lease -> [records : SUBSET Record, sender : Sender \cup {None}]]

(* A record is pinned exactly once by each scope, reservation and pool entry
   that relies on it: no pin leaks and none is released twice. *)
PinAccounting == \A r \in Record : pins[r] = Cardinality(HoldersOf(r))

(* "Pending witnesses are never evicted": whatever a scope, a reservation or
   a pool entry holds is still stored, through every eviction. *)
HeldRecordsStored == \A h \in Holder : Held(h) \subseteq identities

(* A published dependency leads to a stored record that proves it, so the
   witness lookup of block production never meets a dangling entry. *)
CoverageSound ==
  \A d \in Dep : coverage[d] # None =>
     coverage[d] \in identities /\ d \in DepsOf[coverage[d]]

(* CoveredDependencies counts the entries that lead to a stored record; it
   decides whether the last Dispose throws the record away. *)
CoverageCounted ==
  \A r \in identities : covered[r] = Cardinality({d \in Dep : coverage[d] = r})

(* Coverage and its count: a published dependency never dangles, and the last
   Dispose throws away no record that coverage still leads to. *)
CoverageExact == CoverageSound /\ CoverageCounted

(* The running byte total is that of the stored records and never exceeds
   the limit, whatever was evicted on the way. *)
BytesBounded == storedBytes = Bytes[identities] /\ storedBytes <= MaxStoredBytes

(* The eviction list and the identity index hold the same records, each once,
   and no more than the record limit. *)
ListBounded ==
  /\ records \in Seq(Record) /\ ToSet(records) = identities
  /\ Len(records) = Cardinality(identities)
  /\ Len(records) <= MaxStoredRecords

(* A sender is charged for each distinct record its reservations and pool
   entries hold, once, and never beyond its limits. *)
SenderBounded ==
  \A s \in Sender :
     /\ \A r \in Record :
          senders[s][r] = Cardinality({h \in HoldersOf(r) : ChargedTo(h) = s})
     /\ senderBytes[s] = Bytes[{r \in Record : senders[s][r] > 0}]
     /\ senderBytes[s] <= MaxSenderPinnedBytes
     /\ Cardinality({r \in Record : senders[s][r] > 0}) <= MaxSenderPinnedRecords

(* The limit of the store and those of each sender, with the running totals by
   which they are kept. *)
LimitsKept == BytesBounded /\ SenderBounded

(* A dependency keeps its published record for as long as anybody pins that
   record, the step that releases the last pin included: production and
   admission see one witness per dependency while somebody relies on it. *)
PinnedCoverageStable ==
  [][\A d \in Dep : coverage[d] # None /\ pins[coverage[d]] > 0 => coverage'[d] = coverage[d]]_vars
=============================================================================
