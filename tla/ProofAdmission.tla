--------------------------- MODULE ProofAdmission ---------------------------
(***************************************************************************)
(* How proof-backed transactions enter and leave the pool, from            *)
(*   ProofWrapperService.cs (AcceptDetailedAsync, SubmitProofTransactions) *)
(*   TxPool.cs (SubmitTx, AddCore, OnInsertedTx, OnRemovedTx,              *)
(*              RemoveTransaction, DisposeAsync)                           *)
(* over the witness store of LeanProofStore.                               *)
(*                                                                         *)
(* A flow is a thread of control: a wrapper being admitted, or a           *)
(* transaction submitted on its own by a peer or over RPC.  Every call     *)
(* into the store is one critical section and so one step; between two of  *)
(* them any other flow may run.  Each transaction here is proof-backed.    *)
(* Verification is one step with either outcome: what it decides, and the  *)
(* cache of verdicts, are in WrapperVerdicts.                              *)
(*                                                                         *)
(* The sorted pool and the admission filters are not part of the           *)
(* repository; they are modelled from the way TxPool.cs uses them.         *)
(***************************************************************************)
EXTENDS LeanProofStore

CONSTANTS
  Wrapper,      \* [offer: an element of Offer, entries: Seq([tx, full])]
  Unbound,      \* Unbound[f]: the ProofReservation of a submission by f
  Quota,        \* Quota[f]: its SenderProofReservation
  Pool,         \* the owner under which the pool pins
  Capacity,     \* records the sorted pool holds
  Duplicates,   \* whether flows submit one transaction at the same time
  Throws        \* whether a subscriber of Inserted may throw

(* Every flow has two reservations of its own. *)
ASSUME ReservationAssumption ==
  \A f, g \in Flow : f # g => {Unbound[f], Quota[f]} \cap {Unbound[g], Quota[g]} = {}

ASSUME AdmissionAssumption ==
  /\ Unbound \in [Flow -> Lease] /\ Quota \in [Flow -> Lease]
  /\ Wrapper \subseteq [offer : Offer, entries : Seq([tx : Tx, full : BOOLEAN])]
  /\ None \notin Tx /\ None \notin Flow /\ None \notin Wrapper
  /\ Pool \in Owner
  /\ Capacity \in Nat
  /\ Duplicates \in BOOLEAN /\ Throws \in BOOLEAN

VARIABLES
  stage,            \* what each flow is about to do
  job,              \* the transaction each flow is submitting
  outcome,          \* what has become of that submission so far
  victim,           \* the transaction its insertion pushes out of the pool
  wrapper,          \* the wrapper each flow admits
  todo,             \* the entries of that wrapper still to submit
  admitted,         \* admittedDependencies
  admissionActive,  \* _admissionActive: the flow inside, or None
  pool,             \* the transactions of the sorted pool
  seen,             \* _hashCache, current block
  known,            \* _hashCache, long term
  phase             \* of the pool: open, closing (_isDisposed), closed

caches == <<seen, known>>
wrapping == <<wrapper, todo, admitted, admissionActive>>
submission == <<job, outcome, victim>>
admissionVars == <<vars, stage, submission, wrapping, pool, caches, phase>>

Stage == {"idle", "verifying", "looping", "entering", "reserved", "marked", "filtered",
          "pinned", "evicting", "settling", "unpinning", "leaving", "disposing"}

Outcome == {"rejected", "missing", "pooled", "bounced", "thrown"}

(* Flows between EnterReadLock and ExitReadLock of _newHeadLock. *)
Reading == {f \in Flow : stage[f] \notin {"idle", "verifying", "looping", "entering", "disposing"}}

(* The lock of the sorted pool is held while Removed is delivered. *)
PoolLockFree == \A f \in Flow : stage[f] # "evicting"

Goto(f, s) == stage' = [stage EXCEPT ![f] = s]

Alone(f, t) == Duplicates \/ \A g \in Flow \ {f} : job[g] # t

(* The handlers call the store even when it has no entry for the transaction. *)
PublishIfPending(t) == PublishPending(t) \/ (pending[t] = Empty /\ UNCHANGED vars)
UnpinIfPending(t) == UnpinPending(t) \/ (pending[t] = Empty /\ UNCHANGED vars)

AdmissionInit ==
  /\ Init
  /\ stage = [f \in Flow |-> "idle"]
  /\ job = [f \in Flow |-> None]
  /\ outcome = [f \in Flow |-> "rejected"]
  /\ victim = [f \in Flow |-> None]
  /\ wrapper = [f \in Flow |-> None]
  /\ todo = [f \in Flow |-> <<>>]
  /\ admitted = [f \in Flow |-> {}]
  /\ admissionActive = None
  /\ pool = {}
  /\ seen = {}
  /\ known = {}
  /\ phase = "open"
-----------------------------------------------------------------------------
(* AcceptDetailedAsync, up to the verification it awaits. *)
Accept(f, w) ==
  /\ stage[f] = "idle" /\ admissionActive = None
  /\ admissionActive' = f
  /\ wrapper' = [wrapper EXCEPT ![f] = w]
  /\ Goto(f, "verifying")
  /\ UNCHANGED <<vars, submission, todo, admitted, pool, caches, phase>>

(* The wrapper is refused: invalid, cancelled, or the proof rules changed. *)
Refuse(f) ==
  /\ stage[f] = "verifying"
  /\ admissionActive' = None
  /\ wrapper' = [wrapper EXCEPT ![f] = None]
  /\ Goto(f, "idle")
  /\ UNCHANGED <<vars, submission, todo, admitted, pool, caches, phase>>

(* The verified wrapper takes its witnesses into the store, or there is no
   room for them. *)
Admit(f) ==
  /\ stage[f] = "verifying"
  /\ TryBeginAdmission(f, wrapper[f].offer)
  /\ \/ /\ scope'[f] # Empty
        /\ todo' = [todo EXCEPT ![f] = wrapper[f].entries]
        /\ Goto(f, "looping")
        /\ UNCHANGED <<wrapper, admissionActive>>
     \/ /\ scope'[f] = Empty
        /\ wrapper' = [wrapper EXCEPT ![f] = None]
        /\ admissionActive' = None
        /\ Goto(f, "idle")
        /\ UNCHANGED todo
  /\ UNCHANGED <<submission, admitted, pool, caches, phase>>

(* Mutant of NextEntry: an entry is tried again until the pool has it. *)
NextEntryRetrying(f) ==
  LET e == Head(todo[f])
  IN  /\ stage[f] = "looping" /\ todo[f] # <<>>
      /\ \/ /\ e.tx \in pool
            /\ todo' = [todo EXCEPT ![f] = Tail(@)]
            /\ admitted' = [admitted EXCEPT ![f] = @ \cup TxDeps[e.tx]]
            /\ UNCHANGED <<stage, job>>
         \/ /\ e.tx \notin pool /\ e.full /\ Alone(f, e.tx)
            /\ job' = [job EXCEPT ![f] = e.tx]
            /\ Goto(f, "entering")
            /\ UNCHANGED <<todo, admitted>>
      /\ UNCHANGED <<vars, outcome, victim, wrapper, admissionActive, pool, caches, phase>>

(* SubmitProofTransactions: an entry the pool holds already counts as
   admitted; one the wrapper only names and the pool lacks is an error, and a
   disposed pool turns away whatever is submitted. *)
NextEntry(f) ==
  LET e == Head(todo[f])
  IN  /\ stage[f] = "looping" /\ todo[f] # <<>>
      /\ todo' = [todo EXCEPT ![f] = Tail(@)]
      /\ \/ /\ e.tx \in pool
            /\ admitted' = [admitted EXCEPT ![f] = @ \cup TxDeps[e.tx]]
            /\ UNCHANGED <<stage, job>>
         \/ /\ e.tx \notin pool /\ (~e.full \/ phase # "open")
            /\ UNCHANGED <<stage, job, admitted>>
         \/ /\ e.tx \notin pool /\ e.full /\ phase = "open" /\ Alone(f, e.tx)
            /\ job' = [job EXCEPT ![f] = e.tx]
            /\ Goto(f, "entering")
            /\ UNCHANGED admitted
      /\ UNCHANGED <<vars, outcome, victim, wrapper, admissionActive, pool, caches, phase>>

Cancel(f) ==
  /\ stage[f] = "looping" /\ todo[f] # <<>>
  /\ todo' = [todo EXCEPT ![f] = <<>>]
  /\ UNCHANGED <<vars, stage, submission, wrapper, admitted, admissionActive, pool, caches, phase>>

(* The finally block around the submissions, then the end of the using. *)
Commit(f) ==
  /\ stage[f] = "looping" /\ todo[f] = <<>>
  /\ CommitAdmission(f, admitted[f])
  /\ Goto(f, "disposing")
  /\ UNCHANGED <<submission, wrapping, pool, caches, phase>>

(* Mutant of EndAdmission: the scope is not disposed. *)
EndKeepingScope(f) ==
  /\ stage[f] = "disposing"
  /\ admissionActive' = None
  /\ wrapper' = [wrapper EXCEPT ![f] = None]
  /\ admitted' = [admitted EXCEPT ![f] = {}]
  /\ Goto(f, "idle")
  /\ UNCHANGED <<vars, submission, todo, pool, caches, phase>>

EndAdmission(f) ==
  /\ stage[f] = "disposing"
  /\ DisposeAdmission(f)
  /\ admissionActive' = None
  /\ wrapper' = [wrapper EXCEPT ![f] = None]
  /\ admitted' = [admitted EXCEPT ![f] = {}]
  /\ Goto(f, "idle")
  /\ UNCHANGED <<submission, todo, pool, caches, phase>>
-----------------------------------------------------------------------------
(* Mutant of SubmitTx: a disposed pool still lets submissions in. *)
SubmitWhenDisposed(f, t) ==
  /\ stage[f] = "idle" /\ Alone(f, t)
  /\ job' = [job EXCEPT ![f] = t]
  /\ Goto(f, "entering")
  /\ UNCHANGED <<vars, outcome, victim, wrapping, pool, caches, phase>>

(* SubmitTx on its own, from a peer or over RPC; a disposed pool refuses it
   here, before the lock. *)
SubmitTx(f, t) ==
  /\ stage[f] = "idle" /\ phase = "open" /\ Alone(f, t)
  /\ job' = [job EXCEPT ![f] = t]
  /\ Goto(f, "entering")
  /\ UNCHANGED <<vars, outcome, victim, wrapping, pool, caches, phase>>

(* Mutant of Reserve: _isDisposed is not read again under the lock. *)
ReserveWhenDisposed(f) ==
  /\ stage[f] = "entering"
  /\ \/ /\ TryReserveTransaction(f, Unbound[f], TxDeps[job[f]], None)
        /\ Goto(f, "reserved")
        /\ UNCHANGED outcome
     \/ /\ outcome' = [outcome EXCEPT ![f] = "missing"]
        /\ Goto(f, "leaving")
        /\ UNCHANGED vars
  /\ UNCHANGED <<job, victim, wrapping, pool, caches, phase>>

(* DependencyProofTxFilter reserves the witnesses before anything is known of
   the sender; a disposed pool and the filters before it turn away sooner. *)
Reserve(f) ==
  /\ stage[f] = "entering"
  /\ \/ /\ phase = "open"
        /\ TryReserveTransaction(f, Unbound[f], TxDeps[job[f]], None)
        /\ Goto(f, "reserved")
        /\ UNCHANGED outcome
     \/ /\ phase = "open" /\ ~Resolvable(f, TxDeps[job[f]])
        /\ outcome' = [outcome EXCEPT ![f] = "missing"]
        /\ Goto(f, "leaving")
        /\ UNCHANGED vars
     \/ /\ outcome' = [outcome EXCEPT ![f] = "rejected"]
        /\ Goto(f, "leaving")
        /\ UNCHANGED vars
  /\ UNCHANGED <<job, victim, wrapping, pool, caches, phase>>

(* AlreadyKnownTxFilter. *)
Mark(f) ==
  /\ stage[f] = "reserved"
  /\ \/ /\ job[f] \notin seen \cup known
        /\ seen' = seen \cup {job[f]}
        /\ Goto(f, "marked")
        /\ UNCHANGED outcome
     \/ /\ job[f] \in seen \cup known
        /\ outcome' = [outcome EXCEPT ![f] = "rejected"]
        /\ Goto(f, "leaving")
        /\ UNCHANGED seen
  /\ UNCHANGED <<vars, job, victim, wrapping, pool, known, phase>>

(* DependencyProofSenderQuotaTxFilter charges the recovered sender; it and
   the filters around it may turn the transaction away. *)
Charge(f) ==
  /\ stage[f] = "marked"
  /\ \/ /\ TryReserveTransaction(f, Quota[f], TxDeps[job[f]], TxSender[job[f]])
        /\ Goto(f, "filtered")
        /\ UNCHANGED outcome
     \/ /\ outcome' = [outcome EXCEPT ![f] = "rejected"]
        /\ Goto(f, "leaving")
        /\ UNCHANGED vars
  /\ UNCHANGED <<job, victim, wrapping, pool, caches, phase>>

(* AddCore: an entry that is there already is taken as one's own pin. *)
Pin(f) ==
  /\ stage[f] = "filtered"
  /\ \/ PinPending(f, job[f], FALSE) /\ Goto(f, "pinned") /\ UNCHANGED outcome
     \/ pending[job[f]] # Empty /\ Goto(f, "pinned") /\ UNCHANGED <<vars, outcome>>
     \/ /\ pending[job[f]] = Empty
        /\ ~ /\ Resolvable(f, TxDeps[job[f]])
             /\ CanTake(TxSender[job[f]], Used(Resolved(f, TxDeps[job[f]])))
        /\ outcome' = [outcome EXCEPT ![f] = "missing"]
        /\ Goto(f, "leaving")
        /\ UNCHANGED vars
  /\ UNCHANGED <<job, victim, wrapping, pool, caches, phase>>

(* TryInsert refuses the transaction: it is there, or replaces nothing. *)
Refused(f) ==
  /\ stage[f] = "pinned" /\ PoolLockFree
  /\ outcome' = [outcome EXCEPT ![f] = "rejected"]
  /\ Goto(f, "settling")
  /\ UNCHANGED <<vars, job, victim, wrapping, pool, caches, phase>>

(* TryInsert takes it, throws after having taken it, or pushes out one
   transaction: the worst of a full pool, even this one, or the one it
   replaces. *)
Take(f) ==
  LET t == job[f]
  IN  /\ stage[f] = "pinned" /\ PoolLockFree
      /\ t \notin pool
      /\ \/ /\ Cardinality(pool) < Capacity
            /\ pool' = pool \cup {t}
            /\ \/ outcome' = [outcome EXCEPT ![f] = "pooled"]
               \/ Throws /\ outcome' = [outcome EXCEPT ![f] = "thrown"]
            /\ Goto(f, "settling")
            /\ UNCHANGED victim
         \/ \E v \in pool \cup {t} :
              /\ v = t => Cardinality(pool) = Capacity
              /\ pool' = (pool \cup {t}) \ {v}
              /\ victim' = [victim EXCEPT ![f] = v]
              /\ outcome' = [outcome EXCEPT ![f] = IF v = t THEN "bounced" ELSE "pooled"]
              /\ Goto(f, "evicting")
      /\ UNCHANGED <<job, wrapping, caches, phase>>

(* Mutant of Insert: the inserted transaction publishes nothing. *)
InsertUnpublished(f) == Take(f) /\ UNCHANGED vars

(* Inserted publishes the witnesses, while the handler is on. *)
Insert(f) ==
  /\ Take(f)
  /\ \/ phase = "open" /\ PublishIfPending(job[f])
     \/ phase # "open" /\ UNCHANGED vars

(* Removed, for the transaction that was pushed out; another one may then be
   submitted again. *)
Evict(f) ==
  /\ stage[f] = "evicting"
  /\ \/ phase = "open" /\ UnpinIfPending(victim[f])
     \/ phase # "open" /\ UNCHANGED vars
  /\ known' = known \ {victim[f]}
  /\ victim' = [victim EXCEPT ![f] = None]
  /\ Goto(f, "settling")
  /\ UNCHANGED <<job, outcome, wrapping, pool, seen, phase>>

(* Mutant of Settle: a transaction that stayed out keeps its pin. *)
SettleKeepingPin(f) ==
  /\ stage[f] = "settling"
  /\ known' = IF outcome[f] = "pooled" THEN known \cup {job[f]} ELSE known
  /\ Goto(f, "leaving")
  /\ UNCHANGED <<vars, submission, wrapping, pool, seen, phase>>

(* Mutant of Settle: the pin goes even when the pool holds the transaction. *)
SettleUnpinning(f) ==
  /\ stage[f] = "settling"
  /\ known' = IF outcome[f] = "pooled" THEN known \cup {job[f]} ELSE known
  /\ Goto(f, "unpinning")
  /\ UNCHANGED <<vars, submission, wrapping, pool, seen, phase>>

(* The end of AddCore: its finally block looks the transaction up in the pool
   and unpins it, in a step of its own, when it is not there. *)
Settle(f) ==
  /\ stage[f] = "settling"
  /\ known' = IF outcome[f] = "pooled" THEN known \cup {job[f]} ELSE known
  /\ Goto(f, IF job[f] \in pool THEN "leaving" ELSE "unpinning")
  /\ UNCHANGED <<vars, submission, wrapping, pool, seen, phase>>

Unpin(f) ==
  /\ stage[f] = "unpinning"
  /\ UnpinIfPending(job[f])
  /\ Goto(f, "leaving")
  /\ UNCHANGED <<submission, wrapping, pool, caches, phase>>

(* The finally block of SubmitTx gives both reservations back. *)
Drop(f) ==
  /\ stage[f] = "leaving"
  /\ \/ DisposeLease(Unbound[f])
     \/ lease[Unbound[f]] = Free /\ DisposeLease(Quota[f])
  /\ UNCHANGED <<stage, submission, wrapping, pool, caches, phase>>

(* A missing witness lets the transaction be submitted again; what was
   accepted counts for the wrapper, whose loop an exception ends. *)
Return(f) ==
  LET counts == admissionActive = f /\ (outcome[f] = "pooled" \/ outcome[f] = "bounced")
  IN  /\ stage[f] = "leaving" /\ lease[Unbound[f]] = Free /\ lease[Quota[f]] = Free
      /\ Goto(f, IF admissionActive = f THEN "looping" ELSE "idle")
      /\ seen' = IF outcome[f] = "missing" THEN seen \ {job[f]} ELSE seen
      /\ todo' = IF outcome[f] = "thrown" THEN [todo EXCEPT ![f] = <<>>] ELSE todo
      /\ \/ counts /\ admitted' = [admitted EXCEPT ![f] = @ \cup TxDeps[job[f]]]
         \/ (~counts \/ outcome[f] = "bounced") /\ UNCHANGED admitted
      /\ job' = [job EXCEPT ![f] = None]
      /\ outcome' = [outcome EXCEPT ![f] = "rejected"]
      /\ UNCHANGED <<vars, victim, wrapper, admissionActive, pool, known, phase>>
-----------------------------------------------------------------------------
(* RemoveTransaction, for an included or an expired transaction, or for one
   that may come back. *)
RemoveTransaction(t, forget) ==
  /\ t \in pool /\ PoolLockFree
  /\ pool' = pool \ {t}
  /\ \/ phase = "open" /\ UnpinIfPending(t)
     \/ phase # "open" /\ UNCHANGED vars
  /\ known' = IF forget THEN known \ {t} ELSE known
  /\ UNCHANGED <<stage, submission, wrapping, seen, phase>>

(* A new head, under the write lock: the cache of the current block is
   cleared, and the transactions of an abandoned block may come back. *)
NewHead(back) ==
  /\ phase = "open" /\ Reading = {} /\ back \cap pool = {}
  /\ seen' = {}
  /\ known' = known \ back
  /\ UNCHANGED <<vars, stage, submission, wrapping, pool, phase>>

(* DisposeAsync marks the pool and takes the handlers off, then waits for
   the write lock to release what is still pinned. *)
Close ==
  /\ phase = "open"
  /\ phase' = "closing"
  /\ UNCHANGED <<vars, stage, submission, wrapping, pool, caches>>

ReleasePool ==
  /\ phase = "closing" /\ Reading = {}
  /\ phase' = "closed"
  /\ \/ ReleasePending(Pool)
     \/ (\A t \in Tx : TxOwner[t] = Pool => pending[t] = Empty) /\ UNCHANGED vars
  /\ UNCHANGED <<stage, submission, wrapping, pool, caches>>
-----------------------------------------------------------------------------
(* What a flow does once it has begun; it never waits for its caller, only
   for the lock of the sorted pool. *)
Continue(f) ==
  \/ Refuse(f) \/ Admit(f) \/ NextEntry(f) \/ Cancel(f) \/ Commit(f) \/ EndAdmission(f)
  \/ Reserve(f) \/ Mark(f) \/ Charge(f) \/ Pin(f) \/ Refused(f) \/ Insert(f) \/ Evict(f)
  \/ Settle(f) \/ Unpin(f) \/ Drop(f) \/ Return(f)

AdmissionNext ==
  \/ \E f \in Flow, w \in Wrapper : Accept(f, w)
  \/ \E f \in Flow, t \in Tx : SubmitTx(f, t)
  \/ \E f \in Flow : Continue(f)
  \/ \E t \in Tx, forget \in BOOLEAN : RemoveTransaction(t, forget)
  \/ \E back \in SUBSET Tx : NewHead(back)
  \/ Close
  \/ ReleasePool

AdmissionSpec == AdmissionInit /\ [][AdmissionNext]_admissionVars

FairAdmissionSpec == /\ AdmissionSpec
                     /\ \A f \in Flow : SF_admissionVars(Continue(f))
                     /\ WF_admissionVars(ReleasePool)
-----------------------------------------------------------------------------
(* A flow is inside the gate exactly while it has a wrapper, and only then
   can it have an admission scope. *)
AdmissionTypeOK ==
  /\ \A f \in Flow : wrapper[f] # None <=> admissionActive = f
  /\ \A f \in Flow : scope[f] # Empty => admissionActive = f
  /\ stage \in [Flow -> Stage]
  /\ job \in [Flow -> Tx \cup {None}]
  /\ outcome \in [Flow -> Outcome]
  /\ victim \in [Flow -> Tx \cup {None}]
  /\ wrapper \in [Flow -> Wrapper \cup {None}]
  /\ todo \in [Flow -> Seq([tx : Tx, full : BOOLEAN])]
  /\ admitted \in [Flow -> SUBSET Dep]
  /\ admissionActive \in Flow \cup {None}
  /\ pool \in SUBSET Tx
  /\ seen \in SUBSET Tx
  /\ known \in SUBSET Tx
  /\ phase \in {"open", "closing", "closed"}

(* As long as the pool is open, every transaction in it has its pin in the
   store, whatever was inserted, replaced or evicted around it. *)
PooledPinned == phase = "open" => \A t \in pool : pending[t] # Empty

(* What block production finds for a pooled transaction is the very witness
   the pool pins for it, so it can neither miss nor lose it. *)
PooledCovered ==
  phase = "open" => \A t \in pool : \A d \in TxDeps[t] :
     coverage[d] # None /\ coverage[d] = pending[t][d]

(* A pooled transaction stays provable until it leaves the pool. *)
PooledProvable == PooledPinned /\ PooledCovered

(* A transaction that passed the filters is never turned away for a missing
   proof: its reservation covers the pin that follows. *)
ReservationCoversPin ==
  \A f \in Flow : stage[f] = "filtered" =>
     /\ Resolvable(f, TxDeps[job[f]])
     /\ CanTake(TxSender[job[f]], Used(Resolved(f, TxDeps[job[f]])))

(* Once every flow is through, only pooled transactions hold witnesses: no
   rejection, eviction, cancellation or exception leaks a pin. *)
NothingLeaks ==
  (phase = "open" /\ \A f \in Flow : stage[f] = "idle") =>
     /\ \A h \in Flow \cup Lease : Held(h) = {}
     /\ \A t \in Tx \ pool : pending[t] = Empty

(* A submission that is cut short at any point takes nothing it does not hold
   and leaves nothing behind. *)
InterruptionsClean == ReservationCoversPin /\ NothingLeaks

(* A disposed pool has released every witness and takes no new one. *)
DisposedHoldsNothing ==
  phase = "closed" => \A t \in Tx : TxOwner[t] = Pool => pending[t] = Empty

(* The admission gate is always given back. *)
GateReleased == \A f \in Flow : admissionActive = f ~> admissionActive = None

(* Disposal gets the write lock: no submission begins under a disposed pool
   and those inside come to their end. *)
DisposalEnds == phase = "closing" ~> phase = "closed"

(* Nobody waits for ever for the gate, nor the disposal for those inside. *)
WaitsEnd == GateReleased /\ DisposalEnds
=============================================================================
