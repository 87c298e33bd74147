------------------------ MODULE ProofAdmissionProofs ------------------------
(* Theorems about admission, for every value of its constants: it uses the
   witness store only through the operations of the store, so that all that
   is proved of the store holds while transactions come and go. *)
EXTENDS ProofAdmission, LeanProofStoreProofs, SequenceTheorems

SubmissionStage == Stage \ {"idle", "verifying", "looping", "disposing"}

(* Where a flow stands determines whether it is inside the gate and what it
   works on. *)
FlowsConsistent ==
  \A f \in Flow :
     /\ stage[f] = "idle" => admissionActive # f
     /\ stage[f] \in {"verifying", "looping", "disposing"} => admissionActive = f
     /\ stage[f] = "verifying" => scope[f] = Empty
     /\ stage[f] \in SubmissionStage => job[f] \in Tx
     /\ stage[f] = "evicting" => victim[f] \in Tx

FlowIInv == AdmissionTypeOK /\ FlowsConsistent
-----------------------------------------------------------------------------
Entries == Seq([tx : Tx, full : BOOLEAN])

LEMMA EntryTypes ==
  /\ <<>> \in Entries
  /\ \A q \in Entries : q # <<>> => Head(q).tx \in Tx /\ Tail(q) \in Entries
  <1>1. <<>> \in Entries
    BY DEF Entries
  <1>2. ASSUME NEW q \in Entries, q # <<>>
        PROVE  Head(q).tx \in Tx /\ Tail(q) \in Entries
    <2>1. Head(q) \in [tx : Tx, full : BOOLEAN] /\ Tail(q) \in Entries
      BY <1>2, HeadTailProperties DEF Entries
    <2> QED
      BY <2>1
  <1> QED
    BY <1>1, <1>2

LEMMA DepsAdded ==
  ASSUME NEW a \in [Flow -> SUBSET Dep], NEW f \in Flow, NEW S \in SUBSET Dep
  PROVE  [a EXCEPT ![f] = @ \cup S] \in [Flow -> SUBSET Dep]
  <1>1. a[f] \cup S \in SUBSET Dep
    OBVIOUS
  <1> QED
    BY <1>1

(* What the store operations of a submission leave alone. *)
LEMMA ScopeKept ==
  /\ \A f \in Flow, l \in Lease, S \in SUBSET Dep, s \in Sender \cup {None} :
        TryReserveTransaction(f, l, S, s) => scope' = scope
  /\ \A f \in Flow, t \in Tx, publish \in BOOLEAN : PinPending(f, t, publish) => scope' = scope
  /\ \A t \in Tx : PublishIfPending(t) => scope' = scope
  /\ \A t \in Tx : UnpinIfPending(t) => scope' = scope
  /\ \A l \in Lease : DisposeLease(l) => scope' = scope
  /\ \A o \in Owner : ReleasePending(o) => scope' = scope
  /\ \A f \in Flow, S \in SUBSET Dep : CommitAdmission(f, S) => scope' = scope
  /\ UNCHANGED vars => scope' = scope
  <1>1. \A f \in Flow, l \in Lease, S \in SUBSET Dep, s \in Sender \cup {None} :
          TryReserveTransaction(f, l, S, s) => scope' = scope
    BY DEF TryReserveTransaction
  <1>2. \A f \in Flow, t \in Tx, publish \in BOOLEAN :
          PinPending(f, t, publish) => scope' = scope
    BY DEF PinPending
  <1>3. \A t \in Tx : PublishIfPending(t) => scope' = scope
    BY DEF PublishIfPending, PublishPending, Publish, vars
  <1>4. \A t \in Tx : UnpinIfPending(t) => scope' = scope
    BY DEF UnpinIfPending, UnpinPending, vars
  <1>5. \A l \in Lease : DisposeLease(l) => scope' = scope
    BY DEF DisposeLease
  <1>6. \A o \in Owner : ReleasePending(o) => scope' = scope
    BY DEF ReleasePending
  <1>7. \A f \in Flow, S \in SUBSET Dep : CommitAdmission(f, S) => scope' = scope
    BY DEF CommitAdmission, Publish
  <1>8. UNCHANGED vars => scope' = scope
    BY DEF vars
  <1> QED
    BY <1>1, <1>2, <1>3, <1>4, <1>5, <1>6, <1>7, <1>8

(* A submission that moves on to another of its stages disturbs nothing as
   long as it keeps its transaction. *)
LEMMA SubmissionMoves ==
  ASSUME FlowIInv, NEW f \in Flow, NEW s \in SubmissionStage,
         stage[f] \in SubmissionStage, Goto(f, s), scope' = scope,
         UNCHANGED <<job, wrapping>>,
         outcome' \in [Flow -> Outcome],
         victim' \in [Flow -> Tx \cup {None}],
         \A g \in Flow \ {f} : victim'[g] = victim[g],
         s = "evicting" => victim'[f] \in Tx,
         pool' \in SUBSET Tx, seen' \in SUBSET Tx, known' \in SUBSET Tx,
         phase' \in {"open", "closing", "closed"}
  PROVE  FlowIInv'
  <1>1. stage' = [stage EXCEPT ![f] = s] /\ stage \in [Flow -> Stage]
    BY DEF Goto, FlowIInv, AdmissionTypeOK
  <1>2. stage' \in [Flow -> Stage]
    BY <1>1 DEF SubmissionStage
  <1>3. AdmissionTypeOK'
    BY <1>2 DEF FlowIInv, AdmissionTypeOK, wrapping
  <1>4. s \notin {"idle", "verifying", "looping", "disposing"}
    BY DEF SubmissionStage
  <1>5. FlowsConsistent'
    BY <1>1, <1>4 DEF FlowIInv, FlowsConsistent, wrapping
  <1> QED
    BY <1>3, <1>5 DEF FlowIInv
-----------------------------------------------------------------------------
(* Admission of a wrapper: the steps that enter and leave the gate, and those
   between two submissions. *)
LEMMA WrapperStepIInv ==
  ASSUME TypeOK, FlowIInv, NEW f \in Flow,
         \/ \E w \in Wrapper : Accept(f, w)
         \/ Refuse(f) \/ Admit(f) \/ NextEntry(f) \/ Cancel(f) \/ Commit(f) \/ EndAdmission(f)
  PROVE  FlowIInv'
  <1> USE AdmissionAssumption DEF FlowIInv
  <1>1. ASSUME NEW w \in Wrapper, Accept(f, w)
        PROVE  FlowIInv'
    <2>1. scope' = scope
      BY <1>1, ScopeKept DEF Accept
    <2>2. AdmissionTypeOK'
      BY <1>1, <2>1 DEF AdmissionTypeOK, Accept, Goto, submission, caches, Stage
    <2>3. FlowsConsistent'
      BY <1>1, <2>1 DEF AdmissionTypeOK, FlowsConsistent, Accept, Goto, submission, SubmissionStage, Stage
    <2> QED
      BY <2>2, <2>3
  <1>2. ASSUME Refuse(f)
        PROVE  FlowIInv'
    <2>1. scope' = scope
      BY <1>2, ScopeKept DEF Refuse
    <2>2. AdmissionTypeOK'
      BY <1>2, <2>1 DEF AdmissionTypeOK, FlowsConsistent, Refuse, Goto, submission, caches, Stage
    <2>3. FlowsConsistent'
      BY <1>2, <2>1 DEF AdmissionTypeOK, FlowsConsistent, Refuse, Goto, submission, SubmissionStage, Stage
    <2> QED
      BY <2>2, <2>3
  <1>3. ASSUME Admit(f)
        PROVE  FlowIInv'
    <2>1. /\ stage[f] = "verifying" /\ admissionActive = f /\ wrapper[f] \in Wrapper
          /\ wrapper[f].entries \in Entries
      BY <1>3 DEF Admit, AdmissionTypeOK, FlowsConsistent, Entries
    <2>2. \/ scope' = scope
          \/ \E chosen : scope' = [scope EXCEPT ![f] = chosen]
      BY <1>3 DEF Admit, TryBeginAdmission
    <2>3. \A g \in Flow \ {f} : scope'[g] = scope[g]
      BY <2>2 DEF TypeOK
    <2>4. /\ job' = job /\ outcome' = outcome /\ victim' = victim /\ admitted' = admitted
          /\ pool' = pool /\ seen' = seen /\ known' = known /\ phase' = phase
      BY <1>3 DEF Admit, submission, caches
    <2>5. \/ /\ scope'[f] # Empty
             /\ todo' = [todo EXCEPT ![f] = wrapper[f].entries]
             /\ stage' = [stage EXCEPT ![f] = "looping"]
             /\ UNCHANGED <<wrapper, admissionActive>>
          \/ /\ scope'[f] = Empty
             /\ wrapper' = [wrapper EXCEPT ![f] = None]
             /\ admissionActive' = None
             /\ stage' = [stage EXCEPT ![f] = "idle"]
             /\ UNCHANGED todo
      BY <1>3 DEF Admit, Goto
    <2>6. AdmissionTypeOK'
      <3>1. todo' \in [Flow -> Entries]
        BY <2>1, <2>5 DEF AdmissionTypeOK, Entries
      <3>2. stage' \in [Flow -> Stage] /\ wrapper' \in [Flow -> Wrapper \cup {None}]
        BY <2>5 DEF AdmissionTypeOK, Stage
      <3>3. admissionActive' \in Flow \cup {None}
        BY <2>5 DEF AdmissionTypeOK
      <3>4. \A g \in Flow : wrapper'[g] # None <=> admissionActive' = g
        BY <2>1, <2>5 DEF AdmissionTypeOK
      <3>5. \A g \in Flow : scope'[g] # Empty => admissionActive' = g
        BY <2>1, <2>3, <2>5 DEF AdmissionTypeOK
      <3> QED
        BY <2>4, <3>1, <3>2, <3>3, <3>4, <3>5 DEF AdmissionTypeOK, Entries
    <2>7. FlowsConsistent'
      BY <2>1, <2>3, <2>4, <2>5 DEF AdmissionTypeOK, FlowsConsistent, SubmissionStage
    <2> QED
      BY <2>6, <2>7
  <1>4. ASSUME NextEntry(f)
        PROVE  FlowIInv'
    <2>1. scope' = scope
      BY <1>4, ScopeKept DEF NextEntry
    <2>2. todo[f] \in Entries /\ todo[f] # <<>>
      BY <1>4 DEF NextEntry, AdmissionTypeOK, Entries
    <2>3. Head(todo[f]).tx \in Tx /\ Tail(todo[f]) \in Entries
      BY <2>2, EntryTypes DEF Entries
    <2>4. TxDeps[Head(todo[f]).tx] \in SUBSET Dep
      BY <2>3, TxAssumption
    <2>5. /\ todo' = [todo EXCEPT ![f] = Tail(@)]
          /\ \/ admitted' = admitted
             \/ admitted' = [admitted EXCEPT ![f] = @ \cup TxDeps[Head(todo[f]).tx]]
          /\ \/ stage' = stage /\ job' = job
             \/ /\ job' = [job EXCEPT ![f] = Head(todo[f]).tx]
                /\ stage' = [stage EXCEPT ![f] = "entering"]
          /\ UNCHANGED <<outcome, victim, wrapper, admissionActive, pool, seen, known, phase>>
      BY <1>4 DEF NextEntry, Goto, caches
    <2>6. AdmissionTypeOK'
      <3>1. todo' \in [Flow -> Entries]
        BY <2>3, <2>5 DEF AdmissionTypeOK, Entries
      <3>2. admitted' \in [Flow -> SUBSET Dep]
        <4>1. admitted \in [Flow -> SUBSET Dep]
          BY DEF AdmissionTypeOK
        <4>2. [admitted EXCEPT ![f] = @ \cup TxDeps[Head(todo[f]).tx]] \in [Flow -> SUBSET Dep]
          BY <2>4, <4>1, DepsAdded
        <4> QED
          BY <2>5, <4>1, <4>2
      <3>3. stage' \in [Flow -> Stage] /\ job' \in [Flow -> Tx \cup {None}]
        BY <2>3, <2>5 DEF AdmissionTypeOK, Stage
      <3>4. UNCHANGED <<outcome, victim, wrapper, admissionActive, pool, seen, known, phase>>
        BY <2>5
      <3> QED
        BY <2>1, <3>1, <3>2, <3>3, <3>4 DEF AdmissionTypeOK, Entries
    <2>7. FlowsConsistent'
      BY <2>1, <2>3, <2>5 DEF AdmissionTypeOK, FlowsConsistent, SubmissionStage, Stage
    <2> QED
      BY <2>6, <2>7
  <1>5. ASSUME Cancel(f)
        PROVE  FlowIInv'
    <2>1. scope' = scope
      BY <1>5, ScopeKept DEF Cancel
    <2>2. todo' \in [Flow -> Entries]
      BY <1>5, EntryTypes DEF Cancel, AdmissionTypeOK, Entries
    <2>3. AdmissionTypeOK'
      BY <1>5, <2>1, <2>2 DEF AdmissionTypeOK, Cancel, submission, caches, Entries
    <2>4. FlowsConsistent'
      BY <1>5, <2>1 DEF FlowsConsistent, Cancel, submission
    <2> QED
      BY <2>3, <2>4
  <1>6. ASSUME Commit(f)
        PROVE  FlowIInv'
    <2>1. scope' = scope
      BY <1>6, ScopeKept DEF Commit, AdmissionTypeOK
    <2>2. AdmissionTypeOK'
      BY <1>6, <2>1 DEF AdmissionTypeOK, Commit, Goto, submission, wrapping, caches, Stage
    <2>3. FlowsConsistent'
      BY <1>6, <2>1 DEF AdmissionTypeOK, FlowsConsistent, Commit, Goto, submission, wrapping, SubmissionStage
    <2> QED
      BY <2>2, <2>3
  <1>7. ASSUME EndAdmission(f)
        PROVE  FlowIInv'
    <2>1. scope' = [scope EXCEPT ![f] = Empty]
      BY <1>7 DEF EndAdmission, DisposeAdmission
    <2>2. admissionActive = f
      BY <1>7 DEF EndAdmission, FlowsConsistent
    <2>3. \A g \in Flow : scope'[g] = Empty
      BY <2>1, <2>2 DEF AdmissionTypeOK, TypeOK
    <2>4. AdmissionTypeOK'
      BY <1>7, <2>2, <2>3 DEF AdmissionTypeOK, EndAdmission, Goto, submission, caches, Stage
    <2>5. FlowsConsistent'
      BY <1>7, <2>2, <2>3 DEF AdmissionTypeOK, FlowsConsistent, EndAdmission, Goto, submission, SubmissionStage
    <2> QED
      BY <2>4, <2>5
  <1> QED
    BY <1>1, <1>2, <1>3, <1>4, <1>5, <1>6, <1>7
-----------------------------------------------------------------------------
(* The steps of a submission that has begun and goes on. *)
LEMMA SubmissionStepIInv ==
  ASSUME TypeOK, FlowIInv, NEW f \in Flow,
         \/ Reserve(f) \/ Mark(f) \/ Charge(f) \/ Pin(f) \/ Refused(f) \/ Insert(f)
         \/ Evict(f) \/ Settle(f) \/ Unpin(f) \/ Drop(f)
  PROVE  FlowIInv'
  <1> USE AdmissionAssumption DEF FlowIInv
  <1>1. /\ outcome \in [Flow -> Outcome] /\ victim \in [Flow -> Tx \cup {None}]
        /\ pool \in SUBSET Tx /\ seen \in SUBSET Tx /\ known \in SUBSET Tx
        /\ phase \in {"open", "closing", "closed"}
    BY DEF AdmissionTypeOK
  <1>2. {"entering", "reserved", "marked", "filtered", "pinned", "evicting",
         "settling", "unpinning", "leaving"} = SubmissionStage
    BY DEF SubmissionStage, Stage
  <1>3. /\ stage[f] \in SubmissionStage => job[f] \in Tx
        /\ stage[f] = "evicting" => victim[f] \in Tx
    BY DEF FlowsConsistent
  <1>4. {"rejected", "missing", "pooled", "bounced", "thrown"} = Outcome
    BY DEF Outcome
  <1>5. /\ TxDeps \in [Tx -> SUBSET Dep] /\ TxSender \in [Tx -> Sender]
        /\ Unbound[f] \in Lease /\ Quota[f] \in Lease
    BY TxAssumption
  <1>6. ASSUME Reserve(f)
        PROVE  FlowIInv'
    <2>1. stage[f] = "entering" /\ job[f] \in Tx
      BY <1>2, <1>3, <1>6 DEF Reserve
    <2>2. scope' = scope
      BY <1>5, <1>6, <2>1, ScopeKept DEF Reserve
    <2>3. /\ UNCHANGED <<job, wrapping, victim, pool, seen, known, phase>>
          /\ outcome' \in [Flow -> Outcome]
      BY <1>1, <1>4, <1>6 DEF Reserve, caches
    <2>4. Goto(f, "reserved") \/ Goto(f, "leaving")
      BY <1>6 DEF Reserve
    <2> QED
      BY <1>1, <1>2, <2>1, <2>2, <2>3, <2>4, SubmissionMoves
  <1>7. ASSUME Mark(f)
        PROVE  FlowIInv'
    <2>1. stage[f] = "reserved" /\ job[f] \in Tx
      BY <1>2, <1>3, <1>7 DEF Mark
    <2>2. scope' = scope
      BY <1>7, ScopeKept DEF Mark
    <2>3. /\ UNCHANGED <<job, wrapping, victim, pool, known, phase>>
          /\ outcome' \in [Flow -> Outcome] /\ seen' \in SUBSET Tx
      BY <1>1, <1>4, <1>7, <2>1 DEF Mark
    <2>4. Goto(f, "marked") \/ Goto(f, "leaving")
      BY <1>7 DEF Mark
    <2> QED
      BY <1>1, <1>2, <2>1, <2>2, <2>3, <2>4, SubmissionMoves
  <1>8. ASSUME Charge(f)
        PROVE  FlowIInv'
    <2>1. stage[f] = "marked" /\ job[f] \in Tx
      BY <1>2, <1>3, <1>8 DEF Charge
    <2>2. scope' = scope
      BY <1>5, <1>8, <2>1, ScopeKept DEF Charge
    <2>3. /\ UNCHANGED <<job, wrapping, victim, pool, seen, known, phase>>
          /\ outcome' \in [Flow -> Outcome]
      BY <1>1, <1>4, <1>8 DEF Charge, caches
    <2>4. Goto(f, "filtered") \/ Goto(f, "leaving")
      BY <1>8 DEF Charge
    <2> QED
      BY <1>1, <1>2, <2>1, <2>2, <2>3, <2>4, SubmissionMoves
  <1>9. ASSUME Pin(f)
        PROVE  FlowIInv'
    <2>1. stage[f] = "filtered" /\ job[f] \in Tx
      BY <1>2, <1>3, <1>9 DEF Pin
    <2>2. scope' = scope
      BY <1>9, <2>1, ScopeKept DEF Pin
    <2>3. /\ UNCHANGED <<job, wrapping, victim, pool, seen, known, phase>>
          /\ outcome' \in [Flow -> Outcome]
      BY <1>1, <1>4, <1>9 DEF Pin, caches
    <2>4. Goto(f, "pinned") \/ Goto(f, "leaving")
      BY <1>9 DEF Pin
    <2> QED
      BY <1>1, <1>2, <2>1, <2>2, <2>3, <2>4, SubmissionMoves
  <1>10. ASSUME Refused(f)
         PROVE  FlowIInv'
    <2>1. stage[f] = "pinned"
      BY <1>10 DEF Refused
    <2>2. scope' = scope
      BY <1>10, ScopeKept DEF Refused
    <2>3. /\ UNCHANGED <<job, wrapping, victim, pool, seen, known, phase>>
          /\ outcome' \in [Flow -> Outcome]
      BY <1>1, <1>4, <1>10 DEF Refused, caches
    <2>4. Goto(f, "settling")
      BY <1>10 DEF Refused
    <2> QED
      BY <1>1, <1>2, <2>1, <2>2, <2>3, <2>4, SubmissionMoves
  <1>11. ASSUME Insert(f)
         PROVE  FlowIInv'
    <2>1. stage[f] = "pinned" /\ job[f] \in Tx
      BY <1>2, <1>3, <1>11 DEF Insert, Take
    <2>2. scope' = scope
      BY <1>11, <2>1, ScopeKept DEF Insert
    <2>3. UNCHANGED <<job, wrapping, seen, known, phase>>
      BY <1>11 DEF Insert, Take, caches
    <2>4. /\ outcome' \in [Flow -> Outcome] /\ pool' \in SUBSET Tx
          /\ \/ victim' = victim /\ Goto(f, "settling")
             \/ /\ \E v \in Tx : victim' = [victim EXCEPT ![f] = v]
                /\ Goto(f, "evicting")
      BY <1>1, <1>4, <1>11, <2>1 DEF Insert, Take
    <2>5. CASE victim' = victim /\ Goto(f, "settling")
      BY <1>1, <1>2, <2>1, <2>2, <2>3, <2>4, <2>5, SubmissionMoves
    <2>6. ASSUME NEW v \in Tx, victim' = [victim EXCEPT ![f] = v], Goto(f, "evicting")
          PROVE  FlowIInv'
      <3>1. /\ victim' \in [Flow -> Tx \cup {None}] /\ victim'[f] \in Tx
            /\ \A g \in Flow \ {f} : victim'[g] = victim[g]
        BY <1>1, <2>6
      <3> QED
        BY <1>1, <1>2, <2>1, <2>2, <2>3, <2>4, <2>6, <3>1, SubmissionMoves
    <2> QED
      BY <2>4, <2>5, <2>6
  <1>12. ASSUME Evict(f)
         PROVE  FlowIInv'
    <2>1. stage[f] = "evicting" /\ victim[f] \in Tx
      BY <1>3, <1>12 DEF Evict
    <2>2. scope' = scope
      BY <1>12, <2>1, ScopeKept DEF Evict
    <2>3. /\ UNCHANGED <<job, outcome, wrapping, pool, seen, phase>>
          /\ known' \in SUBSET Tx
      BY <1>1, <1>12 DEF Evict
    <2>4. /\ victim' \in [Flow -> Tx \cup {None}]
          /\ \A g \in Flow \ {f} : victim'[g] = victim[g]
      BY <1>1, <1>12 DEF Evict
    <2>5. Goto(f, "settling")
      BY <1>12 DEF Evict
    <2> QED
      BY <1>1, <1>2, <2>1, <2>2, <2>3, <2>4, <2>5, SubmissionMoves
  <1>13. ASSUME Settle(f)
         PROVE  FlowIInv'
    <2>1. stage[f] = "settling" /\ job[f] \in Tx
      BY <1>2, <1>3, <1>13 DEF Settle
    <2>2. scope' = scope
      BY <1>13, ScopeKept DEF Settle
    <2>3. UNCHANGED <<job, outcome, victim, wrapping, pool, seen, phase>>
      BY <1>13 DEF Settle, submission
    <2>4. known' \in SUBSET Tx
      BY <1>1, <1>13, <2>1 DEF Settle
    <2>5. Goto(f, "leaving") \/ Goto(f, "unpinning")
      BY <1>13 DEF Settle
    <2> QED
      BY <1>1, <1>2, <2>1, <2>2, <2>3, <2>4, <2>5, SubmissionMoves
  <1>14. ASSUME Unpin(f)
         PROVE  FlowIInv'
    <2>1. stage[f] = "unpinning" /\ job[f] \in Tx
      BY <1>2, <1>3, <1>14 DEF Unpin
    <2>2. scope' = scope
      BY <1>14, <2>1, ScopeKept DEF Unpin
    <2>3. UNCHANGED <<job, outcome, victim, wrapping, pool, seen, known, phase>>
      BY <1>14 DEF Unpin, submission, caches
    <2>4. Goto(f, "leaving")
      BY <1>14 DEF Unpin
    <2> QED
      BY <1>1, <1>2, <2>1, <2>2, <2>3, <2>4, SubmissionMoves
  <1>15. ASSUME Drop(f)
         PROVE  FlowIInv'
    <2>1. scope' = scope
      BY <1>5, <1>15, ScopeKept DEF Drop
    <2>2. UNCHANGED <<stage, submission, wrapping, pool, caches, phase>>
      BY <1>15 DEF Drop
    <2> QED
      BY <2>1, <2>2 DEF AdmissionTypeOK, FlowsConsistent, submission, wrapping, caches
  <1> QED
    BY <1>6, <1>7, <1>8, <1>9, <1>10, <1>11, <1>12, <1>13, <1>14, <1>15
-----------------------------------------------------------------------------
(* A submission begins, on its own, and ends. *)
LEMMA SubmitTxIInv ==
  ASSUME TypeOK, FlowIInv, NEW f \in Flow, NEW t \in Tx, SubmitTx(f, t)
  PROVE  FlowIInv'
  <1> USE DEF FlowIInv
  <1>1. scope' = scope
    BY ScopeKept DEF SubmitTx
  <1>2. AdmissionTypeOK'
    BY <1>1 DEF SubmitTx, Goto, AdmissionTypeOK, wrapping, caches, Stage
  <1>3. FlowsConsistent'
    BY <1>1 DEF SubmitTx, Goto, AdmissionTypeOK, FlowsConsistent, wrapping, SubmissionStage
  <1> QED
    BY <1>2, <1>3

LEMMA ReturnIInv ==
  ASSUME TypeOK, FlowIInv, NEW f \in Flow, Return(f)
  PROVE  FlowIInv'
  <1> USE DEF FlowIInv
  <1>1. stage[f] = "leaving" /\ job[f] \in Tx
    BY DEF Return, FlowsConsistent, SubmissionStage, Stage
  <1>2. scope' = scope
    BY ScopeKept DEF Return
  <1>3. /\ stage' = [stage EXCEPT ![f] = IF admissionActive = f THEN "looping" ELSE "idle"]
        /\ job' = [job EXCEPT ![f] = None]
        /\ outcome' = [outcome EXCEPT ![f] = "rejected"]
        /\ UNCHANGED <<victim, wrapper, admissionActive, pool, known, phase>>
    BY DEF Return, Goto
  <1>4. seen' \in SUBSET Tx
    BY DEF Return, AdmissionTypeOK
  <1>5. todo' \in [Flow -> Entries]
    BY EntryTypes DEF Return, AdmissionTypeOK, Entries
  <1>6. admitted' \in [Flow -> SUBSET Dep]
    <2>1. admitted \in [Flow -> SUBSET Dep] /\ TxDeps[job[f]] \in SUBSET Dep
      BY <1>1, TxAssumption DEF AdmissionTypeOK
    <2>2. [admitted EXCEPT ![f] = @ \cup TxDeps[job[f]]] \in [Flow -> SUBSET Dep]
      BY <2>1, DepsAdded
    <2> QED
      BY <2>1, <2>2 DEF Return
  <1>7. AdmissionTypeOK'
    <2>1. stage' \in [Flow -> Stage] /\ job' \in [Flow -> Tx \cup {None}]
      BY <1>3 DEF AdmissionTypeOK, Stage
    <2>2. outcome' \in [Flow -> Outcome]
      BY <1>3 DEF AdmissionTypeOK, Outcome
    <2>3. UNCHANGED <<victim, wrapper, admissionActive, pool, known, phase>>
      BY <1>3
    <2> QED
      BY <1>2, <1>4, <1>5, <1>6, <2>1, <2>2, <2>3 DEF AdmissionTypeOK, Entries
  <1>8. FlowsConsistent'
    BY <1>1, <1>2, <1>3 DEF AdmissionTypeOK, FlowsConsistent, SubmissionStage
  <1> QED
    BY <1>7, <1>8

(* What happens to the pool while the flows stand still. *)
LEMMA PoolStepIInv ==
  ASSUME TypeOK, FlowIInv,
         \/ \E t \in Tx, forget \in BOOLEAN : RemoveTransaction(t, forget)
         \/ \E back \in SUBSET Tx : NewHead(back)
         \/ Close \/ ReleasePool
         \/ UNCHANGED admissionVars
  PROVE  FlowIInv'
  <1> USE AdmissionAssumption DEF FlowIInv
  <1>1. scope' = scope /\ UNCHANGED <<stage, submission, wrapping>>
    <2>1. ASSUME NEW t \in Tx, NEW forget \in BOOLEAN, RemoveTransaction(t, forget)
          PROVE  scope' = scope /\ UNCHANGED <<stage, submission, wrapping>>
      BY <2>1, ScopeKept DEF RemoveTransaction
    <2>2. ASSUME NEW back \in SUBSET Tx, NewHead(back)
          PROVE  scope' = scope /\ UNCHANGED <<stage, submission, wrapping>>
      BY <2>2, ScopeKept DEF NewHead
    <2>3. CASE Close
      BY <2>3, ScopeKept DEF Close
    <2>4. CASE ReleasePool
      BY <2>4, ScopeKept DEF ReleasePool
    <2>5. CASE UNCHANGED admissionVars
      BY <2>5, ScopeKept DEF admissionVars
    <2> QED
      BY <2>1, <2>2, <2>3, <2>4, <2>5
  <1>2. /\ pool' \in SUBSET Tx /\ seen' \in SUBSET Tx /\ known' \in SUBSET Tx
        /\ phase' \in {"open", "closing", "closed"}
    <2>1. ASSUME NEW t \in Tx, NEW forget \in BOOLEAN, RemoveTransaction(t, forget)
          PROVE  /\ pool' \in SUBSET Tx /\ seen' \in SUBSET Tx /\ known' \in SUBSET Tx
                 /\ phase' \in {"open", "closing", "closed"}
      BY <2>1 DEF RemoveTransaction, AdmissionTypeOK
    <2>2. ASSUME NEW back \in SUBSET Tx, NewHead(back)
          PROVE  /\ pool' \in SUBSET Tx /\ seen' \in SUBSET Tx /\ known' \in SUBSET Tx
                 /\ phase' \in {"open", "closing", "closed"}
      BY <2>2 DEF NewHead, AdmissionTypeOK
    <2>3. CASE Close \/ ReleasePool
      BY <2>3 DEF Close, ReleasePool, AdmissionTypeOK, caches
    <2>4. CASE UNCHANGED admissionVars
      BY <2>4 DEF admissionVars, AdmissionTypeOK, caches
    <2> QED
      BY <2>1, <2>2, <2>3, <2>4
  <1>3. AdmissionTypeOK'
    BY <1>1, <1>2 DEF AdmissionTypeOK, submission, wrapping
  <1>4. FlowsConsistent'
    BY <1>1 DEF FlowsConsistent, submission, wrapping
  <1> QED
    BY <1>3, <1>4
-----------------------------------------------------------------------------
LEMMA StepFlowIInv == TypeOK /\ FlowIInv /\ [AdmissionNext]_admissionVars => FlowIInv'
  <1> SUFFICES ASSUME TypeOK, FlowIInv, [AdmissionNext]_admissionVars
               PROVE  FlowIInv'
    OBVIOUS
  <1>1. ASSUME NEW f \in Flow, Continue(f)
        PROVE  FlowIInv'
    BY <1>1, WrapperStepIInv, SubmissionStepIInv, ReturnIInv DEF Continue
  <1>2. ASSUME NEW f \in Flow, NEW w \in Wrapper, Accept(f, w)
        PROVE  FlowIInv'
    BY <1>2, WrapperStepIInv
  <1>3. ASSUME NEW f \in Flow, NEW t \in Tx, SubmitTx(f, t)
        PROVE  FlowIInv'
    BY <1>3, SubmitTxIInv
  <1> QED
    BY <1>1, <1>2, <1>3, PoolStepIInv DEF AdmissionNext

(* Each step of a flow leaves the store alone or is one of its operations. *)
LEMMA FlowStepMaps ==
  ASSUME FlowIInv, NEW f \in Flow, Continue(f)
  PROVE  [Next]_vars
  <1> USE AdmissionAssumption DEF FlowIInv
  <1>1. {"entering", "reserved", "marked", "filtered", "pinned", "evicting",
         "settling", "unpinning", "leaving"} = SubmissionStage
    BY DEF SubmissionStage, Stage
  <1>2. /\ stage[f] \in SubmissionStage => job[f] \in Tx
        /\ stage[f] = "evicting" => victim[f] \in Tx
    BY DEF FlowsConsistent
  <1>3. /\ TxDeps \in [Tx -> SUBSET Dep] /\ TxSender \in [Tx -> Sender]
        /\ Unbound[f] \in Lease /\ Quota[f] \in Lease
    BY TxAssumption
  <1>4. ASSUME NEW t \in Tx, PublishIfPending(t) \/ UnpinIfPending(t)
        PROVE  [Next]_vars
    BY <1>4 DEF PublishIfPending, UnpinIfPending, Next
  <1>5. ASSUME Admit(f)
        PROVE  [Next]_vars
    <2>1. wrapper[f] \in Wrapper
      BY <1>5 DEF Admit, AdmissionTypeOK, FlowsConsistent
    <2>2. wrapper[f].offer \in Offer /\ TryBeginAdmission(f, wrapper[f].offer)
      BY <1>5, <2>1 DEF Admit
    <2> QED
      BY <2>2 DEF Next
  <1>6. ASSUME Commit(f)
        PROVE  [Next]_vars
    <2>1. admitted[f] \in SUBSET Dep /\ CommitAdmission(f, admitted[f])
      BY <1>6 DEF Commit, AdmissionTypeOK
    <2> QED
      BY <2>1 DEF Next
  <1>7. ASSUME EndAdmission(f)
        PROVE  [Next]_vars
    BY <1>7 DEF EndAdmission, Next
  <1>8. ASSUME Reserve(f)
        PROVE  [Next]_vars
    <2>1. job[f] \in Tx /\ TxDeps[job[f]] \in SUBSET Dep
      BY <1>1, <1>2, <1>3, <1>8 DEF Reserve
    <2>2. UNCHANGED vars \/ TryReserveTransaction(f, Unbound[f], TxDeps[job[f]], None)
      BY <1>8 DEF Reserve
    <2> QED
      BY <1>3, <2>1, <2>2 DEF Next
  <1>9. ASSUME Charge(f)
        PROVE  [Next]_vars
    <2>1. job[f] \in Tx /\ TxDeps[job[f]] \in SUBSET Dep /\ TxSender[job[f]] \in Sender
      BY <1>1, <1>2, <1>3, <1>9 DEF Charge
    <2>2. \/ UNCHANGED vars
          \/ TryReserveTransaction(f, Quota[f], TxDeps[job[f]], TxSender[job[f]])
      BY <1>9 DEF Charge
    <2> QED
      BY <1>3, <2>1, <2>2 DEF Next
  <1>10. ASSUME Pin(f)
         PROVE  [Next]_vars
    <2>1. job[f] \in Tx
      BY <1>1, <1>2, <1>10 DEF Pin
    <2>2. UNCHANGED vars \/ PinPending(f, job[f], FALSE)
      BY <1>10 DEF Pin
    <2> QED
      BY <2>1, <2>2 DEF Next
  <1>11. ASSUME Insert(f)
         PROVE  [Next]_vars
    <2>1. job[f] \in Tx
      BY <1>1, <1>2, <1>11 DEF Insert, Take
    <2> QED
      BY <1>4, <1>11, <2>1 DEF Insert
  <1>12. ASSUME Evict(f)
         PROVE  [Next]_vars
    BY <1>2, <1>4, <1>12 DEF Evict
  <1>13. ASSUME Unpin(f)
         PROVE  [Next]_vars
    <2>1. job[f] \in Tx
      BY <1>1, <1>2, <1>13 DEF Unpin
    <2> QED
      BY <1>4, <1>13, <2>1 DEF Unpin
  <1>14. ASSUME Drop(f)
         PROVE  [Next]_vars
    BY <1>3, <1>14 DEF Drop, Next
  <1>15. CASE \/ Refuse(f) \/ NextEntry(f) \/ Cancel(f) \/ Mark(f) \/ Refused(f)
              \/ Settle(f) \/ Return(f)
    BY <1>15 DEF Refuse, NextEntry, Cancel, Mark, Refused, Settle, Return
  <1> QED
    BY <1>5, <1>6, <1>7, <1>8, <1>9, <1>10, <1>11, <1>12, <1>13, <1>14, <1>15 DEF Continue

LEMMA StepMaps == FlowIInv /\ [AdmissionNext]_admissionVars => [Next]_vars
  <1> SUFFICES ASSUME FlowIInv, [AdmissionNext]_admissionVars
               PROVE  [Next]_vars
    OBVIOUS
  <1>1. ASSUME NEW f \in Flow, Continue(f)
        PROVE  [Next]_vars
    BY <1>1, FlowStepMaps
  <1>2. ASSUME NEW t \in Tx, NEW forget \in BOOLEAN, RemoveTransaction(t, forget)
        PROVE  [Next]_vars
    BY <1>2 DEF RemoveTransaction, UnpinIfPending, Next
  <1>3. CASE ReleasePool
    BY <1>3, AdmissionAssumption DEF ReleasePool, Next
  <1>4. CASE \/ \E f \in Flow, w \in Wrapper : Accept(f, w)
             \/ \E f \in Flow, t \in Tx : SubmitTx(f, t)
             \/ \E back \in SUBSET Tx : NewHead(back)
             \/ Close
             \/ UNCHANGED admissionVars
    BY <1>4 DEF Accept, SubmitTx, NewHead, Close, admissionVars
  <1> QED
    BY <1>1, <1>2, <1>3, <1>4 DEF AdmissionNext
-----------------------------------------------------------------------------
LEMMA InitFlowIInv == AdmissionInit => FlowIInv
  <1> SUFFICES ASSUME AdmissionInit
               PROVE  FlowIInv
    OBVIOUS
  <1>1. \A f \in Flow : scope[f] = Empty
    BY DEF AdmissionInit, Init
  <1>2. AdmissionTypeOK
    BY <1>1, AdmissionAssumption, EntryTypes DEF AdmissionInit, AdmissionTypeOK, Stage, Outcome, Entries
  <1>3. FlowsConsistent
    BY <1>1, AdmissionAssumption DEF AdmissionInit, FlowsConsistent, SubmissionStage
  <1> QED
    BY <1>2, <1>3 DEF FlowIInv

AdmissionIInv == IInv /\ FlowIInv

LEMMA AdmissionInvariance == AdmissionSpec => []AdmissionIInv
  <1>1. AdmissionInit => AdmissionIInv
    BY InitIInv, InitFlowIInv DEF AdmissionInit, AdmissionIInv
  <1>2. AdmissionIInv /\ [AdmissionNext]_admissionVars => AdmissionIInv'
    <2>1. IInv => TypeOK
      BY DEF IInv
    <2> QED
      BY <2>1, StepMaps, StepFlowIInv, NextIInv DEF AdmissionIInv
  <1> QED
    BY <1>1, <1>2, PTL DEF AdmissionSpec

(* Every behaviour of admission is a behaviour of the witness store: however
   flows interleave, are cancelled, throw or lose a race, AcceptDetailedAsync
   and TxPool use the store only through its operations. *)
THEOREM AdmissionImplementsStore == AdmissionSpec => Spec
  <1>1. AdmissionInit => Init
    BY DEF AdmissionInit
  <1>2. AdmissionIInv /\ [AdmissionNext]_admissionVars => [Next]_vars
    BY StepMaps DEF AdmissionIInv
  <1> QED
    BY <1>1, <1>2, AdmissionInvariance, PTL DEF AdmissionSpec, Spec

(* A flow is inside the admission gate exactly while it has a wrapper, and
   only there has it an admission scope; so two wrappers are never admitted at
   the same time. *)
THEOREM AdmissionTypeCorrect == AdmissionSpec => []AdmissionTypeOK
  <1>1. AdmissionIInv => AdmissionTypeOK
    BY DEF AdmissionIInv, FlowIInv
  <1> QED
    BY <1>1, AdmissionInvariance, PTL

(* While transactions are admitted, replaced, removed and disposed of, what a
   flow, a reservation or a pool entry holds is never evicted. *)
THEOREM AdmissionKeepsWitnesses == AdmissionSpec => []HeldRecordsStored
  BY AdmissionImplementsStore, HeldNeverEvicted, PTL
-----------------------------------------------------------------------------
(* In a disposed pool no submission is past the lock and under the filters,
   where it could still pin. *)
DisposedIInv ==
  phase = "closed" =>
     /\ \A f \in Flow : stage[f] \in {"idle", "verifying", "looping", "entering", "leaving", "disposing"}
     /\ \A t \in Tx : TxOwner[t] = Pool => pending[t] = Empty

(* The store operations that a disposed pool still lets through keep the
   table of pool entries. *)
LEMMA PendingKept ==
  /\ \A f \in Flow, w \in Offer : TryBeginAdmission(f, w) => pending' = pending
  /\ \A f \in Flow, S \in SUBSET Dep : CommitAdmission(f, S) => pending' = pending
  /\ \A l \in Lease : DisposeLease(l) => pending' = pending
  /\ \A f \in Flow : DisposeAdmission(f) => pending' = pending
  /\ UNCHANGED vars => pending' = pending
  <1>1. \A f \in Flow, w \in Offer : TryBeginAdmission(f, w) => pending' = pending
    BY DEF TryBeginAdmission
  <1>2. \A f \in Flow, S \in SUBSET Dep : CommitAdmission(f, S) => pending' = pending
    BY DEF CommitAdmission, Publish
  <1>3. \A l \in Lease : DisposeLease(l) => pending' = pending
    BY DEF DisposeLease, Dispose
  <1>4. \A f \in Flow : DisposeAdmission(f) => pending' = pending
    BY DEF DisposeAdmission, Dispose
  <1>5. UNCHANGED vars => pending' = pending
    BY DEF vars
  <1> QED
    BY <1>1, <1>2, <1>3, <1>4, <1>5

LEMMA DisposedStays ==
  ASSUME FlowIInv, DisposedIInv, phase = "closed", NEW f \in Flow, Continue(f)
  PROVE  DisposedIInv'
  <1> USE AdmissionAssumption DEF FlowIInv
  <1> DEFINE quiet == {"idle", "verifying", "looping", "entering", "leaving", "disposing"}
  <1>1. /\ stage \in [Flow -> Stage] /\ \A g \in Flow : stage[g] \in quiet
        /\ Unbound[f] \in Lease /\ Quota[f] \in Lease
        /\ admitted[f] \in SUBSET Dep
    BY DEF AdmissionTypeOK, DisposedIInv
  <1>2. SUFFICES pending' = pending /\ \A g \in Flow : stage'[g] \in quiet
    BY DEF DisposedIInv
  <1> HIDE DEF quiet
  <1>3. \/ Refuse(f) \/ Admit(f) \/ NextEntry(f) \/ Cancel(f) \/ Commit(f) \/ EndAdmission(f)
        \/ Reserve(f) \/ Drop(f) \/ Return(f)
    BY <1>1 DEF Continue, Mark, Charge, Pin, Refused, Insert, Take, Evict, Settle, Unpin, quiet
  <1>4. ASSUME NEW s \in quiet, Goto(f, s) \/ stage' = stage
        PROVE  \A g \in Flow : stage'[g] \in quiet
    BY <1>1, <1>4 DEF Goto
  <1>5. CASE Refuse(f) \/ NextEntry(f) \/ Cancel(f) \/ Return(f)
    <2>1. pending' = pending
      BY <1>5, PendingKept DEF Refuse, NextEntry, Cancel, Return
    <2>2. \E s \in quiet : Goto(f, s) \/ stage' = stage
      BY <1>5 DEF Refuse, NextEntry, Cancel, Return, quiet
    <2> QED
      BY <1>4, <2>1, <2>2
  <1>6. CASE Admit(f)
    <2>1. wrapper[f].offer \in Offer
      BY <1>6 DEF Admit, AdmissionTypeOK, FlowsConsistent
    <2>2. pending' = pending
      BY <1>6, <2>1, PendingKept DEF Admit
    <2>3. \E s \in quiet : Goto(f, s)
      BY <1>6 DEF Admit, quiet
    <2> QED
      BY <1>4, <2>2, <2>3
  <1>7. CASE Commit(f) \/ EndAdmission(f)
    <2>1. pending' = pending
      BY <1>1, <1>7, PendingKept DEF Commit, EndAdmission
    <2>2. \E s \in quiet : Goto(f, s)
      BY <1>7 DEF Commit, EndAdmission, quiet
    <2> QED
      BY <1>4, <2>1, <2>2
  <1>8. CASE Reserve(f)
    <2>1. UNCHANGED vars /\ Goto(f, "leaving")
      BY <1>8 DEF Reserve
    <2> QED
      BY <1>4, <2>1, PendingKept DEF quiet
  <1>9. CASE Drop(f)
    <2>1. pending' = pending /\ stage' = stage
      BY <1>1, <1>9, PendingKept DEF Drop
    <2> QED
      BY <1>1, <2>1
  <1> QED
    BY <1>3, <1>5, <1>6, <1>7, <1>8, <1>9

LEMMA PhaseKept ==
  \A f \in Flow : Continue(f) => phase' = phase
  BY DEF Continue, Refuse, Admit, NextEntry, Cancel, Commit, EndAdmission, Reserve, Mark, Charge,
         Pin, Refused, Insert, Take, Evict, Settle, Unpin, Drop, Return

LEMMA StepDisposed == FlowIInv /\ DisposedIInv /\ [AdmissionNext]_admissionVars => DisposedIInv'
  <1> SUFFICES ASSUME FlowIInv, DisposedIInv, [AdmissionNext]_admissionVars
               PROVE  DisposedIInv'
    OBVIOUS
  <1>1. ASSUME NEW f \in Flow, Continue(f)
        PROVE  DisposedIInv'
    BY <1>1, DisposedStays, PhaseKept DEF DisposedIInv
  <1>2. ASSUME NEW f \in Flow, NEW w \in Wrapper, Accept(f, w)
        PROVE  DisposedIInv'
    BY <1>2, PendingKept DEF DisposedIInv, Accept, Goto, FlowIInv, AdmissionTypeOK
  <1>3. CASE \/ \E f \in Flow, t \in Tx : SubmitTx(f, t)
             \/ \E back \in SUBSET Tx : NewHead(back)
             \/ Close
    BY <1>3 DEF DisposedIInv, SubmitTx, NewHead, Close
  <1>4. ASSUME NEW t \in Tx, NEW forget \in BOOLEAN, RemoveTransaction(t, forget)
        PROVE  DisposedIInv'
    BY <1>4, PendingKept DEF DisposedIInv, RemoveTransaction
  <1>5. CASE ReleasePool
    <2>1. \A f \in Flow : stage'[f] \in {"idle", "verifying", "looping", "entering", "disposing"}
      BY <1>5 DEF ReleasePool, Reading
    <2>2. \A t \in Tx : TxOwner[t] = Pool => pending'[t] = Empty
      BY <1>5 DEF ReleasePool, ReleasePending, vars
    <2> QED
      BY <2>1, <2>2 DEF DisposedIInv
  <1>6. CASE UNCHANGED admissionVars
    BY <1>6, PendingKept DEF DisposedIInv, admissionVars
  <1> QED
    BY <1>1, <1>2, <1>3, <1>4, <1>5, <1>6 DEF AdmissionNext

(* DisposeAsync leaves nothing behind: once it has released the pins of the
   pool no submission can pin under it again, throwing subscribers and
   concurrent submissions of one transaction included. *)
THEOREM DisposedPoolHoldsNothing == AdmissionSpec => []DisposedHoldsNothing
  <1>1. AdmissionInit => DisposedIInv
    BY DEF AdmissionInit, DisposedIInv
  <1>2. AdmissionIInv => FlowIInv
    BY DEF AdmissionIInv
  <1>3. FlowIInv /\ DisposedIInv /\ [AdmissionNext]_admissionVars => DisposedIInv'
    BY StepDisposed
  <1>4. DisposedIInv => DisposedHoldsNothing
    BY DEF DisposedIInv, DisposedHoldsNothing
  <1> QED
    BY <1>1, <1>2, <1>3, <1>4, AdmissionInvariance, PTL DEF AdmissionSpec
-----------------------------------------------------------------------------
(* What a submission has in hand: reservations from the witness filter on, and
   a pin from AddCore until its finally block is through. *)
Pinning == {"pinned", "evicting", "settling", "unpinning"}
InHand == Pinning \cup {"reserved", "marked", "filtered", "leaving"}

Leaving(t) == \E f \in Flow : stage[f] = "evicting" /\ victim[f] = t

(* The pool holds the transaction, or delivers Removed for it. *)
Gone(t) == t \in pool \/ Leaving(t)

Submitted(t) == \E f \in Flow : job[f] = t /\ stage[f] \in Pinning

PinsHaveReason ==
  phase = "open" => \A t \in Tx : pending[t] # Empty => Gone(t) \/ Submitted(t)

LeasesHaveReason ==
  \A l \in Lease : lease[l] # Free =>
     \E f \in Flow : stage[f] \in InHand /\ l \in {Unbound[f], Quota[f]}

PendingTables ==
  \A t \in Tx : pending[t] # Empty => \A d \in Dep : pending[t][d] # None <=> d \in TxDeps[t]

(* What a pool entry pins is published, or is to be published from the scope
   of the flow that submits it. *)
Settled(t) == \A d \in Dep : pending[t][d] # None => coverage[d] = pending[t][d]

Agrees(f, t) ==
  \A d \in Dep : pending[t][d] # None =>
     \/ coverage[d] = pending[t][d]
     \/ coverage[d] = None /\ scope[f][d] = pending[t][d]

PublicationsAgree ==
  phase = "open" => \A t \in Tx : pending[t] # Empty /\ ~Gone(t) =>
     Settled(t) \/ \E f \in Flow : job[f] = t /\ stage[f] \in Pinning /\ Agrees(f, t)

(* Past the filters a flow holds the records that it resolves. *)
Charged1(f) ==
  /\ lease[Quota[f]].sender = TxSender[job[f]]
  /\ \A d \in TxDeps[job[f]] : Resolve(f, d) \in lease[Quota[f]].records

ChargeHolds == \A f \in Flow : stage[f] = "filtered" => Charged1(f)

CleanIInv == PinsHaveReason /\ LeasesHaveReason /\ PendingTables /\ PublicationsAgree /\ ChargeHolds

(* The records of a holder are pinned. *)
LEMMA HeldPinned ==
  ASSUME IInv, NEW h \in Holder, NEW r \in Held(h)
  PROVE  r \in Record /\ r # None /\ pins[r] > 0
  <1>1. r \in Record
    BY HeldCases DEF IInv, TypeOK, HeldRecordsStored
  <1>2. HoldersOf(r) # {} /\ pins[r] = Cardinality(HoldersOf(r))
    BY <1>1 DEF HoldersOf, IInv, PinAccounting
  <1>3. Cardinality(HoldersOf(r)) # 0 /\ Cardinality(HoldersOf(r)) \in Nat
    BY <1>2, HoldersFinite, FS_EmptySet
  <1> QED
    BY <1>1, <1>2, <1>3, NoneAssumption

LEMMA EntryHeld ==
  ASSUME IInv, NEW t \in Tx, NEW d \in Dep, pending[t][d] # None
  PROVE  pins[pending[t][d]] > 0
  <1>1. pending[t][d] \in Held(t) /\ t \in Holder
    BY HeldCases DEF IInv, TypeOK, Table, Used, Holder
  <1> QED
    BY <1>1, HeldPinned

(* What the other flows are about stays, while f makes its step. *)
OthersKeep(f) ==
  /\ \A g \in Flow : g # f =>
       /\ stage'[g] = stage[g] /\ job'[g] = job[g] /\ victim'[g] = victim[g]
       /\ scope'[g] = scope[g] /\ lease'[Quota[g]] = lease[Quota[g]]
  /\ \A l \in Lease : lease'[l] # lease[l] => f \in Flow /\ l \in {Unbound[f], Quota[f]}
  /\ phase' = "open" => phase = "open"

(* Coverage appears only from the scope of the one flow in the gate. *)
FromScope ==
  \A d \in Dep : coverage[d] = None /\ coverage'[d] # None =>
     \E g \in Flow : scope[g][d] = coverage'[d] /\ stage[g] # "filtered"

(* An entry stays, goes, or is pinned by f. *)
EntriesKeep(f) ==
  \A t \in Tx :
     \/ pending'[t] = pending[t]
     \/ pending'[t] = Empty
     \/ /\ f \in Flow /\ job'[f] = t /\ stage'[f] \in Pinning
        /\ \A d \in Dep : pending'[t][d] # None <=> d \in TxDeps[t]
        /\ Agrees(f, t)'

(* Nobody but f loses its reason to hold what it holds. *)
ReasonsKeep(f) ==
  /\ phase' = "open" =>
       /\ \A t \in Tx : Gone(t) => Gone(t)' \/ pending'[t] = Empty
       /\ f \in Flow /\ stage[f] \in Pinning => \A t \in Tx : job[f] = t =>
            \/ stage'[f] \in Pinning /\ job'[f] = job[f] /\ scope'[f] = scope[f]
            \/ Gone(t)'
            \/ pending'[t] = Empty
  /\ f \in Flow =>
       \/ stage'[f] \in InHand
       \/ lease'[Unbound[f]] = Free /\ lease'[Quota[f]] = Free
  /\ f \in Flow /\ stage'[f] = "filtered" => Charged1(f)'

LEMMA ScopeUnique ==
  ASSUME FlowIInv, NEW f \in Flow, NEW g \in Flow, NEW d \in Dep,
         scope[f][d] # None, scope[g][d] # None
  PROVE  f = g
  BY DEF FlowIInv, AdmissionTypeOK, Empty

LEMMA CleanStep ==
  ASSUME IInv, FlowIInv, CleanIInv, PinnedCoverageKept, NEW f,
         OthersKeep(f), FromScope, EntriesKeep(f), ReasonsKeep(f)
  PROVE  CleanIInv'
  <1> USE DEF CleanIInv
  <1>1. PinsHaveReason'
    <2> SUFFICES ASSUME phase' = "open", NEW t \in Tx, pending'[t] # Empty, ~Gone(t)'
                 PROVE  Submitted(t)'
      BY DEF PinsHaveReason, Empty
    <2>1. CASE pending'[t] = pending[t]
      <3>1. phase = "open" /\ ~Gone(t)
        BY DEF OthersKeep, ReasonsKeep
      <3>2. PICK g \in Flow : job[g] = t /\ stage[g] \in Pinning
        BY <2>1, <3>1 DEF PinsHaveReason, Submitted
      <3>3. job'[g] = t /\ stage'[g] \in Pinning
        BY <3>2 DEF OthersKeep, ReasonsKeep
      <3> QED
        BY <3>3 DEF Submitted
    <2>2. CASE f \in Flow /\ job'[f] = t /\ stage'[f] \in Pinning
      BY <2>2 DEF Submitted
    <2> QED
      BY <2>1, <2>2 DEF EntriesKeep
  <1>2. LeasesHaveReason'
    <2> SUFFICES ASSUME NEW l \in Lease, lease'[l] # Free
                 PROVE  \E g \in Flow : stage'[g] \in InHand /\ l \in {Unbound[g], Quota[g]}
      BY DEF LeasesHaveReason, Free
    <2>1. CASE f \in Flow /\ l \in {Unbound[f], Quota[f]}
      BY <2>1 DEF ReasonsKeep
    <2>2. CASE ~(f \in Flow /\ l \in {Unbound[f], Quota[f]})
      BY <2>2 DEF OthersKeep, LeasesHaveReason
    <2> QED
      BY <2>1, <2>2
  <1>3. PendingTables'
    BY DEF PendingTables, EntriesKeep, Empty
  <1>4. ASSUME NEW t \in Tx, NEW d \in Dep, pending[t][d] # None, coverage[d] = pending[t][d]
        PROVE  coverage'[d] = pending[t][d]
    BY <1>4, EntryHeld DEF PinnedCoverageKept
  <1>5. ASSUME NEW g \in Flow, NEW d \in Dep, coverage[d] = None, coverage'[d] # None,
               scope[g][d] # None
        PROVE  coverage'[d] = scope[g][d] /\ stage[g] # "filtered"
    BY <1>5, ScopeUnique DEF FromScope
  <1>6. PublicationsAgree'
    <2> SUFFICES ASSUME phase' = "open", NEW t \in Tx, pending'[t] # Empty, ~Gone(t)'
                 PROVE  \/ Settled(t)'
                        \/ \E g \in Flow : job'[g] = t /\ stage'[g] \in Pinning /\ Agrees(g, t)'
      BY DEF PublicationsAgree, Empty
    <2>1. CASE pending'[t] = pending[t]
      <3>1. phase = "open" /\ ~Gone(t)
        BY DEF OthersKeep, ReasonsKeep
      <3>2. CASE Settled(t)
        <4>1. Settled(t)'
          BY <1>4, <2>1, <3>2 DEF Settled
        <4> QED
          BY <4>1
      <3>3. ASSUME NEW g \in Flow, job[g] = t, stage[g] \in Pinning, Agrees(g, t)
            PROVE  job'[g] = t /\ stage'[g] \in Pinning /\ Agrees(g, t)'
        <4>1. job'[g] = t /\ stage'[g] \in Pinning /\ scope'[g] = scope[g]
          BY <3>3 DEF OthersKeep, ReasonsKeep
        <4>2. ASSUME NEW d \in Dep, pending[t][d] # None
              PROVE  \/ coverage'[d] = pending[t][d]
                     \/ coverage'[d] = None /\ scope[g][d] = pending[t][d]
          BY <1>4, <1>5, <3>3, <4>2 DEF Agrees
        <4> QED
          BY <2>1, <4>1, <4>2 DEF Agrees
      <3> QED
        BY <2>1, <3>1, <3>2, <3>3 DEF PublicationsAgree
    <2>2. CASE f \in Flow /\ job'[f] = t /\ stage'[f] \in Pinning /\ Agrees(f, t)'
      BY <2>2
    <2> QED
      BY <2>1, <2>2 DEF EntriesKeep
  <1>7. ChargeHolds'
    <2> SUFFICES ASSUME NEW g \in Flow, stage'[g] = "filtered", g # f
                 PROVE  Charged1(g)'
      BY DEF ChargeHolds, ReasonsKeep
    <2>1. /\ stage[g] = "filtered" /\ job'[g] = job[g] /\ scope'[g] = scope[g]
          /\ lease'[Quota[g]] = lease[Quota[g]] /\ Charged1(g)
      BY DEF OthersKeep, ChargeHolds
    <2>2. job[g] \in Tx /\ Quota[g] \in Lease
      BY <2>1, AdmissionAssumption DEF FlowIInv, FlowsConsistent, SubmissionStage, Stage
    <2>3. ASSUME NEW d \in TxDeps[job[g]]
          PROVE  Resolve(g, d)' = Resolve(g, d)
      <3>1. d \in Dep
        BY <2>2, TxAssumption
      <3>2. /\ Resolve(g, d) \in Record /\ Resolve(g, d) # None /\ pins[Resolve(g, d)] > 0
        BY <2>1, <2>2, HeldPinned, HeldCases DEF Charged1, Holder
      <3>3. CASE coverage[d] # None
        BY <3>1, <3>2, <3>3 DEF PinnedCoverageKept, Resolve
      <3>4. CASE coverage[d] = None
        <4>1. scope[g][d] # None
          BY <3>2, <3>4 DEF Resolve
        <4>2. coverage'[d] = None
          BY <1>5, <2>1, <3>1, <3>4, <4>1
        <4> QED
          BY <2>1, <3>4, <4>2 DEF Resolve
      <3> QED
        BY <3>3, <3>4
    <2> QED
      BY <2>1, <2>3 DEF Charged1
  <1> QED
    BY <1>1, <1>2, <1>3, <1>6, <1>7

(* The operations of the store, by what a submission can see of them. *)
LEMMA StoreEffects ==
  ASSUME IInv
  PROVE  /\ \A f \in Flow, w \in Offer : TryBeginAdmission(f, w) =>
              /\ UNCHANGED <<pending, lease>>
              /\ \A g \in Flow : g # f => scope'[g] = scope[g]
              /\ \A d \in Dep : coverage[d] = None => coverage'[d] = None
         /\ \A f \in Flow, l \in Lease, S \in SUBSET Dep, s \in Sender \cup {None} :
              TryReserveTransaction(f, l, S, s) =>
                /\ UNCHANGED <<coverage, pending, scope>>
                /\ lease' = [lease EXCEPT ![l] = [records |-> Used(Resolved(f, S)), sender |-> s]]
                /\ Resolvable(f, S)
         /\ \A t \in Tx : UnpinIfPending(t) =>
              /\ UNCHANGED <<coverage, scope, lease>>
              /\ pending'[t] = Empty /\ \A u \in Tx : u # t => pending'[u] = pending[u]
         /\ \A t \in Tx : PublishIfPending(t) =>
              /\ UNCHANGED <<pending, scope, lease>>
              /\ \A d \in Dep : coverage[d] = None /\ coverage'[d] # None =>
                                  pending[t] # Empty /\ coverage'[d] = pending[t][d]
         /\ \A f \in Flow, S \in SUBSET Dep : CommitAdmission(f, S) =>
              /\ UNCHANGED <<pending, scope, lease>>
              /\ \A d \in Dep : coverage[d] = None /\ coverage'[d] # None => coverage'[d] = scope[f][d]
         /\ \A l \in Lease : DisposeLease(l) =>
              /\ UNCHANGED <<pending, scope>> /\ lease' = [lease EXCEPT ![l] = Free]
              /\ \A d \in Dep : coverage[d] = None => coverage'[d] = None
         /\ \A f \in Flow : DisposeAdmission(f) =>
              /\ UNCHANGED <<pending, lease>> /\ scope' = [scope EXCEPT ![f] = Empty]
              /\ \A d \in Dep : coverage[d] = None => coverage'[d] = None
         /\ UNCHANGED vars => UNCHANGED <<coverage, pending, scope, lease, pins>>
  <1> USE DEF IInv
  <1>1. ASSUME NEW out PROVE \A d \in Dep : coverage[d] = None => Uncovered(out)[d] = None
    BY DEF Uncovered
  <1>2. ASSUME NEW f \in Flow, NEW w \in Offer, TryBeginAdmission(f, w)
        PROVE  /\ UNCHANGED <<pending, lease>>
               /\ \A g \in Flow : g # f => scope'[g] = scope[g]
               /\ \A d \in Dep : coverage[d] = None => coverage'[d] = None
    <2>1. UNCHANGED <<pending, lease>> /\ \E out : coverage' = Uncovered(out)
      BY <1>2 DEF TryBeginAdmission
    <2>2. scope' = scope \/ \E c : scope' = [scope EXCEPT ![f] = c]
      BY <1>2 DEF TryBeginAdmission
    <2> QED
      BY <1>1, <2>1, <2>2 DEF TypeOK
  <1>3. ASSUME NEW f \in Flow, NEW l \in Lease, NEW S \in SUBSET Dep, NEW s \in Sender \cup {None},
               TryReserveTransaction(f, l, S, s)
        PROVE  /\ UNCHANGED <<coverage, pending, scope>>
               /\ lease' = [lease EXCEPT ![l] = [records |-> Used(Resolved(f, S)), sender |-> s]]
               /\ Resolvable(f, S)
    BY <1>3 DEF TryReserveTransaction
  <1>4. ASSUME NEW t \in Tx, UnpinIfPending(t)
        PROVE  /\ UNCHANGED <<coverage, scope, lease>>
               /\ pending'[t] = Empty /\ \A u \in Tx : u # t => pending'[u] = pending[u]
    BY <1>4 DEF UnpinIfPending, UnpinPending, vars, TypeOK
  <1>5. ASSUME NEW t, NEW d \in Dep, coverage[d] = None, Published(coverage, pins, t)[d] # None
        PROVE  Published(coverage, pins, t)[d] = t[d]
    BY <1>5 DEF Published
  <1>6. ASSUME NEW t \in Tx, PublishIfPending(t)
        PROVE  /\ UNCHANGED <<pending, scope, lease>>
               /\ \A d \in Dep : coverage[d] = None /\ coverage'[d] # None =>
                                   pending[t] # Empty /\ coverage'[d] = pending[t][d]
    BY <1>5, <1>6 DEF PublishIfPending, PublishPending, Publish, vars
  <1>7. ASSUME NEW f \in Flow, NEW S \in SUBSET Dep, CommitAdmission(f, S)
        PROVE  /\ UNCHANGED <<pending, scope, lease>>
               /\ \A d \in Dep : coverage[d] = None /\ coverage'[d] # None => coverage'[d] = scope[f][d]
    <2>1. UNCHANGED <<pending, scope, lease>> /\ coverage' = Published(coverage, pins, Only(scope[f], S))
      BY <1>7 DEF CommitAdmission, Publish
    <2>2. \A d \in Dep : Only(scope[f], S)[d] # None => Only(scope[f], S)[d] = scope[f][d]
      BY DEF Only
    <2> QED
      BY <1>5, <2>1, <2>2
  <1>8. ASSUME NEW l \in Lease, DisposeLease(l)
        PROVE  /\ UNCHANGED <<pending, scope>> /\ lease' = [lease EXCEPT ![l] = Free]
               /\ \A d \in Dep : coverage[d] = None => coverage'[d] = None
    BY <1>1, <1>8 DEF DisposeLease, Dispose
  <1>9. ASSUME NEW f \in Flow, DisposeAdmission(f)
        PROVE  /\ UNCHANGED <<pending, lease>> /\ scope' = [scope EXCEPT ![f] = Empty]
               /\ \A d \in Dep : coverage[d] = None => coverage'[d] = None
    BY <1>1, <1>9 DEF DisposeAdmission, Dispose
  <1>10. UNCHANGED vars => UNCHANGED <<coverage, pending, scope, lease, pins>>
    BY DEF vars
  <1> QED
    BY <1>2, <1>3, <1>4, <1>6, <1>7, <1>8, <1>9, <1>10

(* A flow with nothing in hand has both its reservations free. *)
LEMMA LeasesFree ==
  ASSUME LeasesHaveReason, NEW f \in Flow, stage[f] \notin InHand
  PROVE  lease[Unbound[f]] = Free /\ lease[Quota[f]] = Free
  BY AdmissionAssumption, ReservationAssumption DEF LeasesHaveReason

LEMMA GoneKept ==
  ASSUME NEW f, \A g \in Flow : g # f => stage'[g] = stage[g] /\ victim'[g] = victim[g],
         f \in Flow => stage[f] # "evicting", pool \subseteq pool',
         NEW t, Gone(t)
  PROVE  Gone(t)'
  BY DEF Gone, Leaving

(* A step that leaves the store alone. *)
LEMMA QuietClean ==
  ASSUME IInv, FlowIInv, CleanIInv, NEW f \in Flow, UNCHANGED vars, phase' = phase, pool' = pool,
         \A g \in Flow : g # f => stage'[g] = stage[g] /\ job'[g] = job[g] /\ victim'[g] = victim[g],
         stage[f] # "evicting", stage'[f] # "filtered",
         stage[f] \in Pinning => \A t \in Tx : job[f] = t =>
            (stage'[f] \in Pinning /\ job'[f] = job[f]) \/ t \in pool,
         stage[f] \in InHand =>
            stage'[f] \in InHand \/ (lease[Unbound[f]] = Free /\ lease[Quota[f]] = Free)
  PROVE  CleanIInv'
  <1>1. UNCHANGED <<coverage, pending, scope, lease, pins>>
    BY StoreEffects
  <1>2. PinnedCoverageKept
    BY <1>1 DEF PinnedCoverageKept
  <1>3. OthersKeep(f)
    BY <1>1 DEF OthersKeep
  <1>4. FromScope /\ EntriesKeep(f)
    BY <1>1 DEF FromScope, EntriesKeep
  <1>5. \A t \in Tx : Gone(t) => Gone(t)'
    BY GoneKept
  <1>6. \A t \in Tx : t \in pool => Gone(t)'
    BY DEF Gone
  <1>7. \/ stage'[f] \in InHand
        \/ lease'[Unbound[f]] = Free /\ lease'[Quota[f]] = Free
    BY <1>1, LeasesFree DEF CleanIInv
  <1>8. ReasonsKeep(f)
    BY <1>1, <1>5, <1>6, <1>7 DEF ReasonsKeep
  <1> QED
    BY <1>2, <1>3, <1>4, <1>8, CleanStep

(* The steps between two calls of the store. *)
LEMMA QuietSteps ==
  ASSUME IInv, FlowIInv, CleanIInv, NEW f \in Flow,
         \/ Refuse(f) \/ NextEntry(f) \/ Cancel(f) \/ Mark(f) \/ Refused(f) \/ Settle(f) \/ Return(f)
         \/ \E w \in Wrapper : Accept(f, w)
         \/ \E t \in Tx : SubmitTx(f, t)
  PROVE  CleanIInv'
  <1>1. CASE \/ Refuse(f) \/ NextEntry(f) \/ Cancel(f)
             \/ \E w \in Wrapper : Accept(f, w)
             \/ \E t \in Tx : SubmitTx(f, t)
    <2>1. /\ UNCHANGED <<vars, victim, pool, phase>>
          /\ stage[f] \in {"idle", "verifying", "looping"}
          /\ stage'[f] \in {"idle", "verifying", "looping", "entering"}
          /\ \A g \in Flow : g # f => stage'[g] = stage[g] /\ job'[g] = job[g]
      BY <1>1 DEF Refuse, NextEntry, Cancel, Accept, SubmitTx, Goto, submission,
                      FlowIInv, AdmissionTypeOK, FlowsConsistent
    <2> QED
      BY <2>1, QuietClean DEF Pinning, InHand
  <1>2. CASE Mark(f) \/ Refused(f)
    <2>1. /\ UNCHANGED <<vars, job, victim, pool, phase>>
          /\ \/ stage[f] = "reserved" /\ stage'[f] \in {"marked", "leaving"}
             \/ stage[f] = "pinned" /\ stage'[f] = "settling"
          /\ \A g \in Flow : g # f => stage'[g] = stage[g]
      BY <1>2 DEF Mark, Refused, Goto, caches, FlowIInv, AdmissionTypeOK
    <2> QED
      BY <2>1, QuietClean DEF Pinning, InHand
  <1>3. CASE Settle(f)
    <2>1. /\ UNCHANGED <<vars, job, victim, pool, phase>>
          /\ stage[f] = "settling"
          /\ \/ job[f] \in pool /\ stage'[f] = "leaving"
             \/ stage'[f] = "unpinning"
          /\ \A g \in Flow : g # f => stage'[g] = stage[g]
      BY <1>3 DEF Settle, Goto, submission,
                      FlowIInv, AdmissionTypeOK, FlowsConsistent
    <2> QED
      BY <2>1, QuietClean DEF Pinning, InHand
  <1>4. CASE Return(f)
    <2>1. /\ UNCHANGED <<vars, victim, pool, phase>>
          /\ stage[f] = "leaving" /\ lease[Unbound[f]] = Free /\ lease[Quota[f]] = Free
          /\ stage'[f] \in {"looping", "idle"}
          /\ \A g \in Flow : g # f => stage'[g] = stage[g] /\ job'[g] = job[g]
      BY <1>4 DEF Return, Goto, FlowIInv, AdmissionTypeOK
    <2> QED
      BY <2>1, QuietClean DEF Pinning, InHand
  <1> QED
    BY <1>1, <1>2, <1>3, <1>4

(* The admission of a wrapper takes and gives back a scope. *)
LEMMA ScopeSteps ==
  ASSUME IInv, FlowIInv, CleanIInv, PinnedCoverageKept, NEW f \in Flow,
         Admit(f) \/ Commit(f) \/ EndAdmission(f)
  PROVE  CleanIInv'
  <1>1. /\ UNCHANGED <<job, victim, pool, phase>>
        /\ stage[f] \in {"verifying", "looping", "disposing"}
        /\ stage'[f] \in {"looping", "idle", "disposing"}
        /\ \A g \in Flow : g # f => stage'[g] = stage[g]
    BY DEF Admit, Commit, EndAdmission, Goto, submission, wrapping, FlowIInv, AdmissionTypeOK
  <1>2. /\ UNCHANGED <<pending, lease>>
        /\ \A g \in Flow : g # f => scope'[g] = scope[g]
        /\ FromScope
    <2>1. CASE Admit(f)
      <3>1. wrapper[f].offer \in Offer
        BY <2>1, AdmissionAssumption DEF Admit, FlowIInv, AdmissionTypeOK, FlowsConsistent
      <3>2. TryBeginAdmission(f, wrapper[f].offer)
        BY <2>1 DEF Admit
      <3> QED
        BY <3>1, <3>2, StoreEffects DEF FromScope
    <2>2. CASE Commit(f)
      <3>1. CommitAdmission(f, admitted[f]) /\ admitted[f] \in SUBSET Dep
        BY <2>2 DEF Commit, FlowIInv, AdmissionTypeOK
      <3>2. /\ UNCHANGED <<pending, scope, lease>>
            /\ \A d \in Dep : coverage[d] = None /\ coverage'[d] # None => coverage'[d] = scope[f][d]
        BY <3>1, StoreEffects
      <3> QED
        BY <1>1, <3>2 DEF FromScope
    <2>3. CASE EndAdmission(f)
      <3>1. DisposeAdmission(f)
        BY <2>3 DEF EndAdmission
      <3>2. /\ UNCHANGED <<pending, lease>> /\ scope' = [scope EXCEPT ![f] = Empty]
            /\ \A d \in Dep : coverage[d] = None => coverage'[d] = None
        BY <3>1, StoreEffects
      <3> QED
        BY <3>2 DEF FromScope
    <2> QED
      BY <2>1, <2>2, <2>3
  <1>3. OthersKeep(f)
    BY <1>1, <1>2 DEF OthersKeep
  <1>4. EntriesKeep(f)
    BY <1>2 DEF EntriesKeep
  <1>5. \A t \in Tx : Gone(t) => Gone(t)'
    BY <1>1, GoneKept
  <1>6. ReasonsKeep(f)
    BY <1>1, <1>2, <1>5, LeasesFree DEF ReasonsKeep, CleanIInv, Pinning, InHand
  <1> QED
    BY <1>2, <1>3, <1>4, <1>6, CleanStep

(* The filters reserve, and the end of the submission gives back. *)
LEMMA LeaseSteps ==
  ASSUME IInv, FlowIInv, CleanIInv, PinnedCoverageKept, NEW f \in Flow,
         Reserve(f) \/ Charge(f) \/ Drop(f)
  PROVE  CleanIInv'
  <1>1. /\ UNCHANGED <<job, victim, pool, phase>>
        /\ \A g \in Flow : g # f => stage'[g] = stage[g]
        /\ \/ stage[f] \in {"entering", "marked"} /\ stage'[f] \in {"reserved", "filtered", "leaving"}
           \/ stage[f] = "leaving" /\ stage'[f] = "leaving"
    BY DEF Reserve, Charge, Drop, Goto, submission, FlowIInv, AdmissionTypeOK
  <1>2. /\ job[f] \in Tx /\ Unbound[f] \in Lease /\ Quota[f] \in Lease
        /\ TxDeps[job[f]] \in SUBSET Dep /\ TxSender[job[f]] \in Sender
    BY <1>1, AdmissionAssumption, TxAssumption DEF FlowIInv, FlowsConsistent, SubmissionStage, Stage
  <1>3. /\ UNCHANGED <<pending, scope>> /\ FromScope
        /\ \A l \in Lease : lease'[l] # lease[l] => l \in {Unbound[f], Quota[f]}
        /\ stage'[f] = "filtered" => Charged1(f)'
    <2>1. CASE UNCHANGED vars
      <3>1. UNCHANGED <<coverage, pending, scope, lease, pins>>
        BY <2>1, StoreEffects
      <3>2. stage'[f] = "filtered" => Charge(f) /\ TryReserveTransaction(f, Quota[f], TxDeps[job[f]], TxSender[job[f]])
        BY <1>1 DEF Reserve, Charge, Drop, Goto, FlowIInv, AdmissionTypeOK
      <3>3. stage'[f] = "filtered" => lease'[Quota[f]] # Free /\ lease[Quota[f]] = Free
        BY <1>2, <3>2, NoneAssumption DEF TryReserveTransaction, IInv, TypeOK, Free
      <3> QED
        BY <3>1, <3>3 DEF FromScope
    <2>2. ASSUME NEW l \in {Unbound[f], Quota[f]}, NEW s \in Sender \cup {None},
                 TryReserveTransaction(f, l, TxDeps[job[f]], s),
                 stage'[f] = "filtered" => l = Quota[f] /\ s = TxSender[job[f]]
          PROVE  /\ UNCHANGED <<pending, scope>> /\ FromScope
                 /\ \A m \in Lease : lease'[m] # lease[m] => m \in {Unbound[f], Quota[f]}
                 /\ stage'[f] = "filtered" => Charged1(f)'
      <3>1. /\ UNCHANGED <<coverage, pending, scope>>
            /\ lease' = [lease EXCEPT ![l] = [records |-> Used(Resolved(f, TxDeps[job[f]])), sender |-> s]]
            /\ Resolvable(f, TxDeps[job[f]])
        BY <1>2, <2>2, StoreEffects
      <3>2. lease'[l] = [records |-> Used(Resolved(f, TxDeps[job[f]])), sender |-> s]
        BY <1>2, <3>1 DEF IInv, TypeOK
      <3>3. \A d \in TxDeps[job[f]] : Resolve(f, d) \in Used(Resolved(f, TxDeps[job[f]]))
        BY <1>2, <3>1 DEF Used, Resolved, Only, Resolvable, Resolve, IInv, TypeOK, Table
      <3>4. \A d : Resolve(f, d)' = Resolve(f, d)
        BY <3>1 DEF Resolve
      <3>5. stage'[f] = "filtered" => Charged1(f)'
        BY <1>1, <2>2, <3>2, <3>3, <3>4 DEF Charged1
      <3> QED
        BY <1>2, <3>1, <3>5 DEF FromScope
    <2>3. ASSUME NEW l \in {Unbound[f], Quota[f]}, DisposeLease(l), stage'[f] = "leaving"
          PROVE  /\ UNCHANGED <<pending, scope>> /\ FromScope
                 /\ \A m \in Lease : lease'[m] # lease[m] => m \in {Unbound[f], Quota[f]}
                 /\ stage'[f] = "filtered" => Charged1(f)'
      <3>1. /\ UNCHANGED <<pending, scope>> /\ lease' = [lease EXCEPT ![l] = Free]
            /\ \A d \in Dep : coverage[d] = None => coverage'[d] = None
        BY <1>2, <2>3, StoreEffects
      <3> QED
        BY <2>3, <3>1 DEF FromScope
    <2>4. CASE Reserve(f)
      <3>1. \/ UNCHANGED vars
            \/ TryReserveTransaction(f, Unbound[f], TxDeps[job[f]], None) /\ stage'[f] # "filtered"
        BY <2>4 DEF Reserve, Goto, FlowIInv, AdmissionTypeOK
      <3> QED
        BY <2>1, <2>2, <3>1
    <2>5. CASE Charge(f)
      <3>1. UNCHANGED vars \/ TryReserveTransaction(f, Quota[f], TxDeps[job[f]], TxSender[job[f]])
        BY <2>5 DEF Charge
      <3> QED
        BY <1>2, <2>1, <2>2, <3>1
    <2>6. CASE Drop(f)
      BY <1>1, <2>3, <2>6 DEF Drop
    <2> QED
      BY <2>4, <2>5, <2>6
  <1>4. OthersKeep(f)
    BY <1>1, <1>3, AdmissionAssumption, ReservationAssumption DEF OthersKeep
  <1>5. EntriesKeep(f)
    BY <1>3 DEF EntriesKeep
  <1>6. \A t \in Tx : Gone(t) => Gone(t)'
    BY <1>1, GoneKept
  <1>7. ReasonsKeep(f)
    BY <1>1, <1>3, <1>6 DEF ReasonsKeep, Pinning, InHand
  <1> QED
    BY <1>3, <1>4, <1>5, <1>7, CleanStep

(* AddCore pins what the flow resolves. *)
LEMMA PinStep ==
  ASSUME IInv, FlowIInv, CleanIInv, PinnedCoverageKept, NEW f \in Flow, Pin(f)
  PROVE  CleanIInv'
  <1>1. /\ UNCHANGED <<job, victim, pool, phase>>
        /\ \A g \in Flow : g # f => stage'[g] = stage[g]
        /\ stage[f] = "filtered" /\ stage'[f] \in {"pinned", "leaving"}
    BY DEF Pin, Goto, caches, FlowIInv, AdmissionTypeOK
  <1>2. CASE UNCHANGED vars
    BY <1>1, <1>2, QuietClean DEF Pinning, InHand
  <1>3. CASE PinPending(f, job[f], FALSE) /\ stage'[f] = "pinned"
    <2>1. job[f] \in Tx /\ TxDeps[job[f]] \in SUBSET Dep
      BY <1>1, TxAssumption DEF FlowIInv, FlowsConsistent, SubmissionStage, Stage
    <2>2. /\ UNCHANGED <<coverage, scope, lease>>
          /\ pending' = [pending EXCEPT ![job[f]] = Resolved(f, TxDeps[job[f]])]
          /\ Resolvable(f, TxDeps[job[f]])
      BY <1>3 DEF PinPending
    <2>3. \A d \in Dep : Resolved(f, TxDeps[job[f]])[d] = IF d \in TxDeps[job[f]] THEN Resolve(f, d) ELSE None
      BY DEF Resolved, Only
    <2>4. OthersKeep(f) /\ FromScope
      BY <1>1, <2>2 DEF OthersKeep, FromScope
    <2>5. /\ pending'[job[f]] = Resolved(f, TxDeps[job[f]])
          /\ \A t \in Tx : t # job[f] => pending'[t] = pending[t]
      BY <2>1, <2>2 DEF IInv, TypeOK
    <2>6. \A d \in Dep : pending'[job[f]][d] # None <=> d \in TxDeps[job[f]]
      BY <2>2, <2>3, <2>5 DEF Resolvable
    <2>7. ASSUME NEW t \in Tx, t = job[f] PROVE Agrees(f, t)'
      <3>1. \A d \in Dep : pending'[t][d] # None =>
               \/ coverage[d] = pending'[t][d]
               \/ coverage[d] = None /\ scope[f][d] = pending'[t][d]
        BY <2>3, <2>5, <2>7 DEF Resolve
      <3> QED
        BY <2>2, <3>1 DEF Agrees
    <2>8. EntriesKeep(f)
      BY <1>1, <1>3, <2>5, <2>6, <2>7 DEF EntriesKeep, Pinning
    <2>9. \A t \in Tx : Gone(t) => Gone(t)'
      BY <1>1, GoneKept
    <2>10. ReasonsKeep(f)
      BY <1>1, <1>3, <2>9 DEF ReasonsKeep, Pinning, InHand
    <2> QED
      BY <2>4, <2>8, <2>10, CleanStep
  <1> QED
    BY <1>1, <1>2, <1>3 DEF Pin, Goto, FlowIInv, AdmissionTypeOK

(* The sorted pool takes the transaction, whose witnesses are published. *)
LEMMA InsertStep ==
  ASSUME IInv, FlowIInv, CleanIInv, PinnedCoverageKept, NEW f \in Flow, Insert(f)
  PROVE  CleanIInv'
  <1>1. /\ UNCHANGED <<job, phase>>
        /\ \A g \in Flow : g # f => stage'[g] = stage[g] /\ victim'[g] = victim[g]
        /\ stage[f] = "pinned" /\ stage'[f] \in {"settling", "evicting"}
        /\ job[f] \notin pool /\ \A g \in Flow : stage[g] # "evicting"
        /\ \A t \in pool : t \in pool' \/ (stage'[f] = "evicting" /\ victim'[f] = t)
    BY DEF Insert, Take, Goto, caches, PoolLockFree, FlowIInv, AdmissionTypeOK
  <1>2. job[f] \in Tx
    BY <1>1 DEF FlowIInv, FlowsConsistent, SubmissionStage, Stage
  <1>3. UNCHANGED <<pending, scope, lease>> /\ FromScope
    <2>1. CASE UNCHANGED vars
      BY <2>1, StoreEffects DEF FromScope
    <2>2. CASE phase = "open" /\ PublishIfPending(job[f])
      <3>1. /\ UNCHANGED <<pending, scope, lease>>
            /\ \A d \in Dep : coverage[d] = None /\ coverage'[d] # None =>
                                pending[job[f]] # Empty /\ coverage'[d] = pending[job[f]][d]
        BY <1>2, <2>2, StoreEffects
      <3>2. ASSUME NEW d \in Dep, coverage[d] = None, coverage'[d] # None
            PROVE  \E g \in Flow : scope[g][d] = coverage'[d] /\ stage[g] # "filtered"
        <4>1. pending[job[f]] # Empty /\ coverage'[d] = pending[job[f]][d] /\ ~Gone(job[f])
          BY <1>1, <3>1, <3>2 DEF Gone, Leaving
        <4>2. ~Settled(job[f])
          BY <3>2, <4>1 DEF Settled
        <4>3. PICK g \in Flow : stage[g] \in Pinning /\ Agrees(g, job[f])
          BY <1>2, <2>2, <4>1, <4>2 DEF CleanIInv, PublicationsAgree
        <4> QED
          BY <3>2, <4>1, <4>3 DEF Agrees, Pinning
      <3> QED
        BY <3>1, <3>2 DEF FromScope
    <2> QED
      BY <2>1, <2>2 DEF Insert
  <1>4. OthersKeep(f) /\ EntriesKeep(f)
    BY <1>1, <1>3 DEF OthersKeep, EntriesKeep
  <1>5. \A t \in Tx : Gone(t) => Gone(t)'
    BY <1>1 DEF Gone, Leaving
  <1>6. ReasonsKeep(f)
    BY <1>1, <1>3, <1>5 DEF ReasonsKeep, Pinning, InHand
  <1> QED
    BY <1>3, <1>4, <1>6, CleanStep

(* Removed for the victim, and the finally block of AddCore, unpin. *)
LEMMA UnpinSteps ==
  ASSUME IInv, FlowIInv, CleanIInv, PinnedCoverageKept, NEW f \in Flow, Evict(f) \/ Unpin(f)
  PROVE  CleanIInv'
  <1>1. /\ UNCHANGED <<job, pool, phase>>
        /\ \A g \in Flow : g # f => stage'[g] = stage[g] /\ victim'[g] = victim[g]
        /\ \/ stage[f] = "evicting" /\ stage'[f] = "settling"
           \/ stage[f] = "unpinning" /\ stage'[f] = "leaving"
    BY DEF Evict, Unpin, Goto, submission, FlowIInv, AdmissionTypeOK
  <1> DEFINE t == IF stage[f] = "evicting" THEN victim[f] ELSE job[f]
  <1>2. t \in Tx
    BY <1>1 DEF FlowIInv, FlowsConsistent, SubmissionStage, Stage
  <1>3. UnpinIfPending(t) \/ (phase # "open" /\ UNCHANGED vars)
    BY <1>1 DEF Evict, Unpin
  <1> HIDE DEF t
  <1>4. /\ UNCHANGED <<coverage, scope, lease>>
        /\ \A u \in Tx : pending'[u] = IF u = t /\ phase = "open" THEN Empty ELSE pending'[u]
        /\ \A u \in Tx : pending'[u] = pending[u] \/ pending'[u] = Empty
    BY <1>2, <1>3, StoreEffects
  <1>5. OthersKeep(f) /\ FromScope /\ EntriesKeep(f)
    BY <1>1, <1>4 DEF OthersKeep, FromScope, EntriesKeep
  <1>6. ASSUME phase = "open", NEW u \in Tx, Gone(u) PROVE Gone(u)' \/ pending'[u] = Empty
    <2>1. CASE u \in pool
      BY <1>1, <2>1 DEF Gone
    <2>2. ASSUME NEW g \in Flow, stage[g] = "evicting", victim[g] = u, g # f
          PROVE  Gone(u)'
      BY <1>1, <2>2 DEF Gone, Leaving
    <2>3. CASE stage[f] = "evicting" /\ victim[f] = u
      BY <1>4, <1>6, <2>3 DEF t
    <2> QED
      BY <1>6, <2>1, <2>2, <2>3 DEF Gone, Leaving
  <1>7. stage[f] = "unpinning" => t = job[f]
    BY DEF t
  <1>8. ReasonsKeep(f)
    BY <1>1, <1>2, <1>4, <1>6, <1>7 DEF ReasonsKeep, Pinning, InHand
  <1> QED
    BY <1>5, <1>8, CleanStep

(* What happens to the pool while the flows stand still. *)
LEMMA PoolSteps ==
  ASSUME IInv, FlowIInv, CleanIInv, PinnedCoverageKept,
         \/ \E t \in Tx, forget \in BOOLEAN : RemoveTransaction(t, forget)
         \/ \E back \in SUBSET Tx : NewHead(back)
         \/ Close \/ ReleasePool
         \/ UNCHANGED admissionVars
  PROVE  CleanIInv'
  <1>1. UNCHANGED <<stage, job, victim, scope, lease, coverage>> /\ (phase' = "open" => phase = "open")
    <2>1. ASSUME NEW t \in Tx, NEW forget \in BOOLEAN, RemoveTransaction(t, forget)
          PROVE  UNCHANGED <<stage, job, victim, scope, lease, coverage, phase>>
      BY <2>1, StoreEffects DEF RemoveTransaction, submission
    <2>2. CASE \/ \E back \in SUBSET Tx : NewHead(back)
               \/ Close
               \/ UNCHANGED admissionVars
      BY <2>2, StoreEffects DEF NewHead, Close, admissionVars, submission
    <2>3. CASE ReleasePool
      BY <2>3, StoreEffects DEF ReleasePool, ReleasePending, submission
    <2> QED
      BY <2>1, <2>2, <2>3
  <1>2. /\ \A u \in Tx : pending'[u] = pending[u] \/ pending'[u] = Empty
        /\ phase = "open" => \A u \in Tx : u \in pool => u \in pool' \/ pending'[u] = Empty
    <2>1. ASSUME NEW t \in Tx, NEW forget \in BOOLEAN, RemoveTransaction(t, forget)
          PROVE  /\ \A u \in Tx : pending'[u] = pending[u] \/ pending'[u] = Empty
                 /\ phase = "open" => \A u \in Tx : u \in pool => u \in pool' \/ pending'[u] = Empty
      <3>1. pool' = pool \ {t} /\ (UnpinIfPending(t) \/ (phase # "open" /\ UNCHANGED vars))
        BY <2>1 DEF RemoveTransaction
      <3> QED
        BY <3>1, StoreEffects
    <2>2. CASE \/ \E back \in SUBSET Tx : NewHead(back)
               \/ Close
               \/ UNCHANGED admissionVars
      BY <2>2, StoreEffects DEF NewHead, Close, admissionVars
    <2>3. CASE ReleasePool
      BY <2>3, StoreEffects DEF ReleasePool, ReleasePending, IInv, TypeOK
    <2> QED
      BY <2>1, <2>2, <2>3
  <1>3. None \notin Flow
    BY AdmissionAssumption
  <1>4. OthersKeep(None) /\ FromScope /\ EntriesKeep(None)
    BY <1>1, <1>2 DEF OthersKeep, FromScope, EntriesKeep
  <1>5. ReasonsKeep(None)
    <2>1. phase' = "open" => \A t \in Tx : Gone(t) => Gone(t)' \/ pending'[t] = Empty
      BY <1>1, <1>2 DEF Gone, Leaving
    <2> QED
      BY <1>3, <2>1 DEF ReasonsKeep
  <1> QED
    BY <1>4, <1>5, CleanStep

LEMMA StepClean == AdmissionIInv /\ CleanIInv /\ [AdmissionNext]_admissionVars => CleanIInv'
  <1> SUFFICES ASSUME IInv, FlowIInv, CleanIInv, [AdmissionNext]_admissionVars
               PROVE  CleanIInv'
    BY DEF AdmissionIInv
  <1>1. PinnedCoverageKept
    BY StepMaps, StepKeepsPinnedCoverage
  <1>2. ASSUME NEW f \in Flow, Continue(f)
        PROVE  CleanIInv'
    BY <1>1, <1>2, QuietSteps, ScopeSteps, LeaseSteps, PinStep, InsertStep, UnpinSteps DEF Continue
  <1>3. ASSUME NEW f \in Flow, NEW w \in Wrapper, Accept(f, w)
        PROVE  CleanIInv'
    BY <1>3, QuietSteps
  <1>4. ASSUME NEW f \in Flow, NEW t \in Tx, SubmitTx(f, t)
        PROVE  CleanIInv'
    BY <1>4, QuietSteps
  <1> QED
    BY <1>1, <1>2, <1>3, <1>4, PoolSteps DEF AdmissionNext

LEMMA InitClean == AdmissionInit => CleanIInv
  <1> SUFFICES ASSUME AdmissionInit
               PROVE  CleanIInv
    OBVIOUS
  <1>1. /\ \A t \in Tx : pending[t] = Empty
        /\ \A l \in Lease : lease[l] = Free
        /\ \A f \in Flow : stage[f] = "idle"
    BY DEF AdmissionInit, Init
  <1> QED
    BY <1>1 DEF CleanIInv, PinsHaveReason, LeasesHaveReason, PendingTables, PublicationsAgree, ChargeHolds

LEMMA CleanInvariance == AdmissionSpec => [](AdmissionIInv /\ CleanIInv)
  <1>1. AdmissionInit => CleanIInv
    BY InitClean
  <1>2. AdmissionIInv /\ CleanIInv /\ [AdmissionNext]_admissionVars => CleanIInv'
    BY StepClean
  <1> QED
    BY <1>1, <1>2, AdmissionInvariance, PTL DEF AdmissionSpec

(* What a flow was charged for is charged already when it pins. *)
LEMMA ChargeCovers ==
  ASSUME IInv, FlowIInv, ChargeHolds
  PROVE  ReservationCoversPin
  <1> SUFFICES ASSUME NEW f \in Flow, stage[f] = "filtered"
               PROVE  /\ Resolvable(f, TxDeps[job[f]])
                      /\ CanTake(TxSender[job[f]], Used(Resolved(f, TxDeps[job[f]])))
    BY DEF ReservationCoversPin
  <1> DEFINE q == Quota[f]
             s == TxSender[job[f]]
             S == Used(Resolved(f, TxDeps[job[f]]))
  <1>1. /\ job[f] \in Tx /\ q \in Lease /\ s \in Sender /\ TxDeps[job[f]] \in SUBSET Dep
        /\ lease[q].sender = s
        /\ \A d \in TxDeps[job[f]] : Resolve(f, d) \in lease[q].records
    BY AdmissionAssumption, TxAssumption
       DEF FlowIInv, FlowsConsistent, SubmissionStage, Stage, ChargeHolds, Charged1
  <1> HIDE DEF q
  <1>2. q \in Holder /\ Held(q) = lease[q].records /\ ChargedTo(q) = s
    BY <1>1, HeldCases DEF Holder
  <1>3. \A d \in TxDeps[job[f]] : Resolve(f, d) # None
    BY <1>1, <1>2, HeldPinned
  <1>4. S \subseteq Held(q) /\ S \subseteq Record
    <2>1. \A d \in Dep : Resolved(f, TxDeps[job[f]])[d] = IF d \in TxDeps[job[f]] THEN Resolve(f, d) ELSE None
      BY DEF Resolved, Only
    <2> QED
      BY <1>1, <1>2, <2>1, NoneAssumption DEF Used
  <1>5. ASSUME NEW r \in S
        PROVE  senders[s][r] > 0
    <2>1. q \in {h \in HoldersOf(r) : ChargedTo(h) = s}
      BY <1>2, <1>4 DEF HoldersOf
    <2>2. senders[s][r] = Cardinality({h \in HoldersOf(r) : ChargedTo(h) = s})
      BY <1>1, <1>4 DEF IInv, SenderBounded
    <2>3. IsFiniteSet({h \in HoldersOf(r) : ChargedTo(h) = s})
      BY HoldersFinite, FS_Subset
    <2>4. /\ Cardinality({h \in HoldersOf(r) : ChargedTo(h) = s}) \in Nat
          /\ Cardinality({h \in HoldersOf(r) : ChargedTo(h) = s}) # 0
      BY <2>1, <2>3, FS_EmptySet, FS_CardinalityType
    <2> QED
      BY <2>2, <2>4
  <1> HIDE DEF S
  <1>6. Fresh(s, S) = {}
    BY <1>5 DEF Fresh
  <1>7. {r \in Record : senders[s][r] > 0} \cup S = {r \in Record : senders[s][r] > 0}
    BY <1>4, <1>5
  <1>8. /\ senderBytes[s] \in Nat /\ senderBytes[s] <= MaxSenderPinnedBytes
        /\ Cardinality({r \in Record : senders[s][r] > 0}) <= MaxSenderPinnedRecords
    BY <1>1 DEF IInv, TypeOK, SenderBounded
  <1>9. CanTake(s, S)
    <2>1. senderBytes[s] + Bytes[Fresh(s, S)] <= MaxSenderPinnedBytes
      BY <1>6, <1>8, BytesAssumption
    <2>2. Cardinality({r \in Record : senders[s][r] > 0} \cup S) <= MaxSenderPinnedRecords
      BY <1>7, <1>8
    <2> HIDE DEF s
    <2> QED
      BY <2>1, <2>2 DEF CanTake
  <1> QED
    BY <1>3, <1>9 DEF Resolvable, S

LEMMA IdleHoldsNothing ==
  ASSUME IInv, FlowIInv, CleanIInv
  PROVE  NothingLeaks
  <1> SUFFICES ASSUME phase = "open", \A f \in Flow : stage[f] = "idle"
               PROVE  /\ \A h \in Flow \cup Lease : Held(h) = {}
                      /\ \A t \in Tx \ pool : pending[t] = Empty
    BY DEF NothingLeaks
  <1>1. ASSUME NEW f \in Flow PROVE Held(f) = {}
    <2>1. scope[f] = Empty
      BY DEF FlowIInv, AdmissionTypeOK, FlowsConsistent
    <2> QED
      BY <2>1, HeldCases, UsedEmpty DEF IInv, TypeOK
  <1>2. ASSUME NEW l \in Lease PROVE Held(l) = {}
    <2>1. lease[l] = Free
      BY DEF CleanIInv, LeasesHaveReason, InHand, Pinning
    <2> QED
      BY <2>1, HeldCases DEF Free
  <1>3. ASSUME NEW t \in Tx \ pool PROVE pending[t] = Empty
    BY DEF CleanIInv, PinsHaveReason, Gone, Leaving, Submitted, Pinning
  <1> QED
    BY <1>1, <1>2, <1>3

(* However a submission is rejected, cancelled, evicted or ended by an
   exception, and however many of one transaction run together: past the
   filters it never lacks what it pins, and once all flows are through only
   pooled transactions hold witnesses. *)
THEOREM SubmissionsEndClean == AdmissionSpec => []InterruptionsClean
  <1>1. AdmissionIInv /\ CleanIInv => InterruptionsClean
    BY ChargeCovers, IdleHoldsNothing DEF AdmissionIInv, CleanIInv, InterruptionsClean
  <1> QED
    BY <1>1, CleanInvariance, PTL
-----------------------------------------------------------------------------
(* A pooled transaction keeps its pin, where no transaction is submitted twice
   at a time and no subscriber of Inserted throws.  The hash caches are what
   keeps a transaction of the pool from being pinned a second time. *)
Single == \A f, g \in Flow : job[f] = job[g] /\ job[f] # None => f = g

OneEvicts == \A f, g \in Flow : stage[f] = "evicting" /\ stage[g] = "evicting" => f = g

(* Past AlreadyKnownTxFilter the pool does not have the transaction yet. *)
Untaken == \A f \in Flow : stage[f] \in {"marked", "filtered", "pinned"} => ~Gone(job[f])

Inserting(t) ==
  \E f \in Flow :
     /\ job[f] = t
     /\ \/ stage[f] = "evicting" /\ victim[f] = t
        \/ stage[f] \in {"evicting", "settling"} /\ outcome[f] = "pooled"

PoolKnown == \A t \in Tx : Gone(t) => t \in known \/ Inserting(t)

OutOfPool ==
  \A f \in Flow :
     /\ stage[f] = "evicting" => victim[f] \notin pool
     /\ stage[f] = "unpinning" => job[f] \notin pool

PinnedHeld == phase = "open" => \A f \in Flow : stage[f] = "pinned" => pending[job[f]] # Empty

PoolSettled == phase = "open" => \A t \in pool : Settled(t)

NoneThrown == \A f \in Flow : outcome[f] # "thrown"

OnceIInv == /\ Single /\ OneEvicts /\ Untaken /\ PoolKnown /\ OutOfPool /\ NoneThrown
            /\ PinnedHeld /\ PooledPinned /\ PoolSettled

(* While f makes its step the other flows stand still. *)
OthersStand(f) ==
  /\ \A g \in Flow : g # f =>
       /\ stage'[g] = stage[g] /\ job'[g] = job[g]
       /\ victim'[g] = victim[g] /\ outcome'[g] = outcome[g]
  /\ phase' = "open" => phase = "open"

LEMMA SettledStays ==
  ASSUME IInv, PinnedCoverageKept, NEW t \in Tx, pending'[t] = pending[t], Settled(t)
  PROVE  Settled(t)'
  BY EntryHeld DEF Settled, PinnedCoverageKept

(* A step of a flow whose transaction is not past the filter for known ones, or
   that has nothing to do with the pool any more. *)
LEMMA ApartOnce ==
  ASSUME IInv, FlowIInv, PinnedCoverageKept, OnceIInv, NEW f \in Flow, OthersStand(f),
         UNCHANGED <<pool, pending, known>>,
         stage[f] \notin {"pinned", "evicting", "settling", "unpinning"},
         stage'[f] \notin {"pinned", "evicting", "settling", "unpinning"},
         stage'[f] = "filtered" => stage[f] = "marked" /\ job'[f] = job[f],
         stage'[f] = "marked" => ~Gone(job'[f]),
         outcome'[f] # "thrown",
         job'[f] = job[f] \/ job'[f] = None \/ (\A g \in Flow : g # f => job[g] # job'[f])
  PROVE  OnceIInv'
  <1> USE DEF OnceIInv, OthersStand
  <1>1. Single' /\ OneEvicts' /\ NoneThrown' /\ OutOfPool'
    BY DEF Single, OneEvicts, NoneThrown, OutOfPool
  <1>2. \A t : Gone(t)' <=> Gone(t)
    BY DEF Gone, Leaving
  <1>3. Untaken'
    <2> SUFFICES ASSUME NEW g \in Flow, stage'[g] \in {"marked", "filtered", "pinned"},
                        NEW t, t = job'[g]
                 PROVE  ~Gone(t)'
      BY DEF Untaken
    <2>1. ~Gone(t)
      BY DEF Untaken
    <2> QED
      BY <1>2, <2>1
  <1>4. PoolKnown'
    BY <1>2 DEF PoolKnown, Inserting
  <1>5. PinnedHeld' /\ PooledPinned'
    BY DEF PinnedHeld, PooledPinned, Empty
  <1>6. PoolSettled'
    BY SettledStays DEF PoolSettled, FlowIInv, AdmissionTypeOK
  <1> QED
    BY <1>1, <1>3, <1>4, <1>5, <1>6

LEMMA ApartSteps ==
  ASSUME ~Duplicates, IInv, FlowIInv, PinnedCoverageKept, OnceIInv, NEW f \in Flow,
         \/ Refuse(f) \/ Admit(f) \/ NextEntry(f) \/ Cancel(f) \/ Commit(f) \/ EndAdmission(f)
         \/ Reserve(f) \/ Charge(f) \/ Drop(f) \/ Return(f)
         \/ \E w \in Wrapper : Accept(f, w)
         \/ \E t \in Tx : SubmitTx(f, t)
  PROVE  OnceIInv'
  <1> USE DEF FlowIInv, AdmissionTypeOK
  <1>1. pending' = pending
    <2>1. CASE Admit(f)
      <3>1. wrapper[f].offer \in Offer
        BY <2>1, AdmissionAssumption DEF Admit, FlowsConsistent
      <3> QED
        BY <2>1, <3>1, StoreEffects DEF Admit
    <2>2. CASE Commit(f) \/ EndAdmission(f)
      BY <2>2, StoreEffects DEF Commit, EndAdmission
    <2>3. CASE Drop(f)
      BY <2>3, StoreEffects, AdmissionAssumption DEF Drop
    <2>4. CASE Reserve(f) \/ Charge(f)
      BY <2>4 DEF Reserve, Charge, TryReserveTransaction, vars
    <2>5. CASE \/ Refuse(f) \/ NextEntry(f) \/ Cancel(f) \/ Return(f)
               \/ \E w \in Wrapper : Accept(f, w)
               \/ \E t \in Tx : SubmitTx(f, t)
      BY <2>5, StoreEffects DEF Refuse, NextEntry, Cancel, Return, Accept, SubmitTx
    <2> QED
      BY <2>1, <2>2, <2>3, <2>4, <2>5
  <1>2. CASE Refuse(f) \/ Admit(f) \/ Cancel(f) \/ Commit(f) \/ EndAdmission(f) \/ \E w \in Wrapper : Accept(f, w)
    <2>1. /\ UNCHANGED <<submission, pool, known, phase>>
          /\ stage[f] \in {"idle", "verifying", "looping", "disposing"}
          /\ stage'[f] \in {"idle", "verifying", "looping", "disposing"}
          /\ \A g \in Flow : g # f => stage'[g] = stage[g]
      BY <1>2 DEF Refuse, Admit, Cancel, Commit, EndAdmission, Accept, Goto, caches
    <2> QED
      BY <1>1, <2>1, ApartOnce DEF OthersStand, submission, OnceIInv, NoneThrown
  <1>3. CASE NextEntry(f) \/ \E t \in Tx : SubmitTx(f, t)
    <2>1. /\ UNCHANGED <<outcome, victim, pool, known, phase>>
          /\ stage[f] \in {"idle", "looping"} /\ stage'[f] \in {"looping", "entering"}
          /\ \A g \in Flow : g # f => stage'[g] = stage[g] /\ job'[g] = job[g]
          /\ job'[f] = job[f] \/ \A g \in Flow : g # f => job[g] # job'[f]
      BY <1>3 DEF NextEntry, SubmitTx, Alone, Goto, caches
    <2> QED
      BY <1>1, <2>1, ApartOnce DEF OthersStand, OnceIInv, NoneThrown
  <1>4. CASE Reserve(f) \/ Charge(f) \/ Drop(f)
    <2>1. /\ UNCHANGED <<job, victim, pool, known, phase>>
          /\ \A g \in Flow : g # f => stage'[g] = stage[g] /\ outcome'[g] = outcome[g]
          /\ outcome'[f] \in {outcome[f], "missing", "rejected"}
          /\ \/ stage[f] = "entering" /\ stage'[f] \in {"reserved", "leaving"}
             \/ stage[f] = "marked" /\ stage'[f] \in {"filtered", "leaving"}
             \/ stage[f] = "leaving" /\ stage'[f] = "leaving"
      BY <1>4 DEF Reserve, Charge, Drop, Goto, submission, caches
    <2> QED
      BY <1>1, <2>1, ApartOnce DEF OthersStand, OnceIInv, NoneThrown
  <1>5. CASE Return(f)
    <2>1. /\ UNCHANGED <<victim, pool, known, phase>>
          /\ stage[f] = "leaving" /\ stage'[f] \in {"looping", "idle"}
          /\ job'[f] = None /\ outcome'[f] = "rejected"
          /\ \A g \in Flow : g # f => /\ stage'[g] = stage[g] /\ job'[g] = job[g]
                                     /\ outcome'[g] = outcome[g]
      BY <1>5 DEF Return, Goto
    <2> QED
      BY <1>1, <2>1, ApartOnce DEF OthersStand
  <1> QED
    BY <1>2, <1>3, <1>4, <1>5

(* AlreadyKnownTxFilter turns away what the pool has. *)
LEMMA MarkOnce ==
  ASSUME IInv, FlowIInv, PinnedCoverageKept, OnceIInv, NEW f \in Flow, Mark(f)
  PROVE  OnceIInv'
  <1>1. /\ UNCHANGED <<vars, job, victim, pool, known, phase>>
        /\ stage[f] = "reserved" /\ job[f] \in Tx
        /\ \/ stage'[f] = "marked" /\ job[f] \notin known
           \/ stage'[f] = "leaving"
        /\ outcome'[f] \in {outcome[f], "rejected"}
        /\ \A g \in Flow : g # f => stage'[g] = stage[g] /\ outcome'[g] = outcome[g]
    BY DEF Mark, Goto, FlowIInv, AdmissionTypeOK, FlowsConsistent, SubmissionStage, Stage
  <1>2. stage'[f] = "marked" => ~Gone(job[f])
    BY <1>1, AdmissionAssumption DEF OnceIInv, PoolKnown, Inserting, Single
  <1> QED
    BY <1>1, <1>2, StoreEffects, ApartOnce DEF OthersStand, OnceIInv, NoneThrown

LEMMA PinOnce ==
  ASSUME IInv, FlowIInv, PinnedCoverageKept, OnceIInv, NEW f \in Flow, Pin(f) \/ Refused(f)
  PROVE  OnceIInv'
  <1> USE DEF OnceIInv
  <1>1. /\ UNCHANGED <<job, victim, pool, known, phase>>
        /\ \/ stage[f] = "filtered" /\ stage'[f] \in {"pinned", "leaving"}
           \/ stage[f] = "pinned" /\ stage'[f] = "settling" /\ outcome'[f] = "rejected"
        /\ outcome'[f] \in {outcome[f], "missing", "rejected"}
        /\ \A g \in Flow : g # f => stage'[g] = stage[g] /\ outcome'[g] = outcome[g]
        /\ job[f] \in Tx
    BY DEF Pin, Refused, Goto, caches, FlowIInv, AdmissionTypeOK, FlowsConsistent, SubmissionStage, Stage
  <1>2. ~Gone(job[f]) /\ job[f] # None
    BY <1>1, AdmissionAssumption DEF Untaken
  <1>3. /\ \A t \in Tx : t # job[f] => pending'[t] = pending[t]
        /\ pending[job[f]] # Empty => pending'[job[f]] = pending[job[f]]
        /\ stage'[f] = "pinned" => pending'[job[f]] # Empty
    <2>1. CASE PinPending(f, job[f], FALSE)
      <3>1. /\ pending' = [pending EXCEPT ![job[f]] = Resolved(f, TxDeps[job[f]])]
            /\ TxDeps[job[f]] # {} /\ Resolvable(f, TxDeps[job[f]]) /\ pending[job[f]] = Empty
        BY <2>1 DEF PinPending
      <3>2. PICK d \in Dep : d \in TxDeps[job[f]] /\ Resolve(f, d) # None
        BY <1>1, <3>1, TxAssumption DEF Resolvable
      <3>3. Resolved(f, TxDeps[job[f]])[d] # Empty[d]
        BY <3>2 DEF Resolved, Only, Empty
      <3>4. pending'[job[f]] = Resolved(f, TxDeps[job[f]])
        BY <1>1, <3>1 DEF IInv, TypeOK
      <3> QED
        BY <3>1, <3>3, <3>4
    <2>2. CASE UNCHANGED vars /\ (stage'[f] = "pinned" => pending[job[f]] # Empty)
      BY <2>2, StoreEffects
    <2> QED
      BY <2>1, <2>2 DEF Pin, Refused, Goto, FlowIInv, AdmissionTypeOK
  <1>4. \A t : Gone(t)' <=> Gone(t)
    BY <1>1 DEF Gone, Leaving
  <1>5. Single' /\ OneEvicts' /\ NoneThrown' /\ OutOfPool'
    BY <1>1 DEF Single, OneEvicts, NoneThrown, OutOfPool
  <1>6. Untaken'
    <2> SUFFICES ASSUME NEW g \in Flow, stage'[g] \in {"marked", "filtered", "pinned"},
                        NEW t, t = job'[g]
                 PROVE  ~Gone(t)'
      BY DEF Untaken
    <2> QED
      BY <1>1, <1>4 DEF Untaken
  <1>7. PoolKnown'
    BY <1>1, <1>4 DEF PoolKnown, Inserting
  <1>8. PinnedHeld'
    <2> SUFFICES ASSUME phase = "open", NEW g \in Flow, stage'[g] = "pinned"
                 PROVE  pending'[job[g]] # Empty
      BY <1>1 DEF PinnedHeld, Empty
    <2>1. CASE g = f
      BY <2>1, <1>3
    <2>2. CASE g # f
      <3>1. stage[g] = "pinned" /\ job[g] # job[f]
        BY <1>1, <1>2, <2>2 DEF Single
      <3>2. job[g] \in Tx /\ pending[job[g]] # Empty
        BY <3>1 DEF PinnedHeld, FlowIInv, FlowsConsistent, SubmissionStage, Stage
      <3> QED
        BY <3>1, <3>2, <1>3
    <2> QED
      BY <2>1, <2>2
  <1>9. job[f] \notin pool /\ pool \subseteq Tx
    BY <1>2 DEF Gone, FlowIInv, AdmissionTypeOK
  <1>10. PooledPinned'
    BY <1>1, <1>3, <1>9 DEF PooledPinned, Empty
  <1>11. PoolSettled'
    BY <1>1, <1>3, <1>9, SettledStays DEF PoolSettled
  <1> QED
    BY <1>5, <1>6, <1>7, <1>8, <1>10, <1>11

LEMMA InsertOnce ==
  ASSUME ~Throws, IInv, FlowIInv, CleanIInv, PinnedCoverageKept, OnceIInv, NEW f \in Flow, Insert(f)
  PROVE  OnceIInv'
  <1> USE DEF OnceIInv
  <1>1. /\ UNCHANGED <<job, known, phase>>
        /\ \A g \in Flow : g # f => /\ stage'[g] = stage[g] /\ victim'[g] = victim[g]
                                   /\ outcome'[g] = outcome[g]
        /\ stage[f] = "pinned" /\ \A g \in Flow : stage[g] # "evicting"
        /\ job[f] \in Tx /\ job[f] \notin pool /\ pool \subseteq Tx
        /\ \/ /\ pool' = pool \cup {job[f]} /\ stage'[f] = "settling" /\ outcome'[f] = "pooled"
           \/ /\ stage'[f] = "evicting"
              /\ victim'[f] \in pool \cup {job[f]}
              /\ pool' = (pool \cup {job[f]}) \ {victim'[f]}
              /\ outcome'[f] = IF victim'[f] = job[f] THEN "bounced" ELSE "pooled"
    BY DEF Insert, Take, Goto, caches, PoolLockFree, FlowIInv, AdmissionTypeOK, FlowsConsistent,
           SubmissionStage, Stage
  <1>2. job[f] # None /\ \A g \in Flow : g # f => job[g] # job[f]
    BY <1>1, AdmissionAssumption DEF Single
  <1>3. \A t : Gone(t)' => Gone(t) \/ t = job[f]
    BY <1>1 DEF Gone, Leaving
  <1>4. Single' /\ OneEvicts' /\ NoneThrown' /\ OutOfPool'
    BY <1>1, <1>2 DEF Single, OneEvicts, NoneThrown, OutOfPool
  <1>5. Untaken'
    <2> SUFFICES ASSUME NEW g \in Flow, stage'[g] \in {"marked", "filtered", "pinned"},
                        NEW t, t = job'[g]
                 PROVE  ~Gone(t)'
      BY DEF Untaken
    <2> QED
      BY <1>1, <1>2, <1>3 DEF Untaken
  <1>6. PoolKnown'
    <2> SUFFICES ASSUME NEW t \in Tx, Gone(t)'
                 PROVE  t \in known \/ Inserting(t)'
      BY <1>1 DEF PoolKnown
    <2>1. CASE t = job[f]
      BY <1>1, <2>1 DEF Inserting
    <2>2. CASE t # job[f] /\ Gone(t)
      <3>1. CASE t \in known
        BY <3>1
      <3>2. ASSUME NEW g \in Flow, job[g] = t, stage[g] = "settling", outcome[g] = "pooled"
            PROVE  Inserting(t)'
        BY <1>1, <2>2, <3>2 DEF Inserting
      <3> QED
        BY <1>1, <2>2, <3>1, <3>2 DEF PoolKnown, Inserting
    <2> QED
      BY <1>3, <2>1, <2>2
  <1>7. UNCHANGED pending
    BY <1>1, StoreEffects DEF Insert
  <1>8. PinnedHeld'
    BY <1>1, <1>7 DEF PinnedHeld, Empty
  <1>9. PooledPinned'
    BY <1>1, <1>7 DEF PooledPinned, PinnedHeld, Empty
  <1>10. PoolSettled'
    <2> SUFFICES ASSUME phase = "open", NEW t \in pool \cup {job[f]}
                 PROVE  Settled(t)'
      BY <1>1 DEF PoolSettled
    <2>1. CASE t \in pool
      BY <1>1, <1>7, <2>1, SettledStays DEF PoolSettled
    <2>2. CASE t = job[f]
      <3>1. pending[t] # Empty /\ ~Gone(t)
        BY <1>1, <2>2 DEF PinnedHeld, Gone, Leaving
      <3>2. PublishPending(t)
        BY <2>2, <3>1 DEF Insert, PublishIfPending
      <3>3. coverage' = Published(coverage, pins, pending[t])
        BY <3>2 DEF PublishPending, Publish
      <3>4. \A d \in Dep : pending[t][d] # None => coverage[d] = None \/ coverage[d] = pending[t][d]
        BY <1>1, <2>2, <3>1 DEF CleanIInv, PublicationsAgree, Settled, Agrees
      <3>5. \A d \in Dep : pending[t][d] # None => coverage'[d] = pending[t][d]
        BY <3>3, <3>4 DEF Published
      <3> QED
        BY <1>7, <3>5 DEF Settled
    <2> QED
      BY <2>1, <2>2
  <1> QED
    BY <1>4, <1>5, <1>6, <1>8, <1>9, <1>10

LEMMA EvictOnce ==
  ASSUME IInv, FlowIInv, PinnedCoverageKept, OnceIInv, NEW f \in Flow, Evict(f)
  PROVE  OnceIInv'
  <1> USE DEF OnceIInv
  <1>1. /\ UNCHANGED <<job, outcome, pool, phase>> /\ known' = known \ {victim[f]}
        /\ \A g \in Flow : g # f => stage'[g] = stage[g] /\ victim'[g] = victim[g]
        /\ stage[f] = "evicting" /\ stage'[f] = "settling"
        /\ \A g \in Flow : g # f => stage[g] # "evicting"
        /\ victim[f] \in Tx /\ victim[f] \notin pool /\ pool \subseteq Tx
    BY DEF Evict, Goto, FlowIInv, AdmissionTypeOK, FlowsConsistent, OneEvicts, OutOfPool
  <1>2. Gone(victim[f])
    BY <1>1 DEF Gone, Leaving
  <1>3. \A t : Gone(t)' <=> t \in pool
    BY <1>1 DEF Gone, Leaving
  <1>4. Single' /\ OneEvicts' /\ NoneThrown' /\ OutOfPool'
    BY <1>1 DEF Single, OneEvicts, NoneThrown, OutOfPool
  <1>5. Untaken'
    <2> SUFFICES ASSUME NEW g \in Flow, stage'[g] \in {"marked", "filtered", "pinned"},
                        NEW t, t = job'[g]
                 PROVE  ~Gone(t)'
      BY DEF Untaken
    <2> QED
      BY <1>1, <1>3 DEF Untaken, Gone
  <1>6. PoolKnown'
    <2> SUFFICES ASSUME NEW t \in pool
                 PROVE  t \in known' \/ Inserting(t)'
      BY <1>3 DEF PoolKnown
    <2>1. t # victim[f] /\ Gone(t) /\ t \in Tx
      BY <1>1 DEF Gone
    <2>2. CASE t \in known
      BY <1>1, <2>1, <2>2
    <2>3. ASSUME NEW g \in Flow, job[g] = t, stage[g] \in {"evicting", "settling"}, outcome[g] = "pooled"
          PROVE  Inserting(t)'
      BY <1>1, <2>3 DEF Inserting
    <2> QED
      BY <1>1, <2>1, <2>2, <2>3 DEF PoolKnown, Inserting
  <1>7. \A t \in Tx : t # victim[f] => pending'[t] = pending[t]
    BY <1>1, StoreEffects DEF Evict
  <1>8. ASSUME NEW g \in Flow, stage'[g] = "pinned"
        PROVE  stage[g] = "pinned" /\ job[g] \in Tx /\ job[g] # victim[f]
    BY <1>1, <1>2, <1>8 DEF Untaken, FlowIInv, FlowsConsistent, SubmissionStage, Stage
  <1>9. PinnedHeld'
    BY <1>1, <1>7, <1>8 DEF PinnedHeld, Empty
  <1>10. PooledPinned'
    BY <1>1, <1>7 DEF PooledPinned, Empty
  <1>11. PoolSettled'
    BY <1>1, <1>7, SettledStays DEF PoolSettled
  <1> QED
    BY <1>4, <1>5, <1>6, <1>9, <1>10, <1>11

LEMMA SettleOnce ==
  ASSUME IInv, FlowIInv, PinnedCoverageKept, OnceIInv, NEW f \in Flow, Settle(f) \/ Unpin(f)
  PROVE  OnceIInv'
  <1> USE DEF OnceIInv
  <1>1. /\ UNCHANGED <<job, victim, outcome, pool, phase>> /\ known \subseteq known'
        /\ \A g \in Flow : g # f => stage'[g] = stage[g]
        /\ \/ /\ stage[f] = "settling" /\ UNCHANGED vars
              /\ \/ stage'[f] = "leaving"
                 \/ stage'[f] = "unpinning" /\ job[f] \notin pool
              /\ outcome[f] = "pooled" => job[f] \in known'
           \/ /\ stage[f] = "unpinning" /\ stage'[f] = "leaving" /\ UnpinIfPending(job[f])
        /\ job[f] \in Tx /\ pool \subseteq Tx
    BY DEF Settle, Unpin, Goto, submission, caches, FlowIInv, AdmissionTypeOK, FlowsConsistent,
           SubmissionStage, Stage
  <1>2. \A t : Gone(t)' <=> Gone(t)
    BY <1>1 DEF Gone, Leaving
  <1>3. Single' /\ OneEvicts' /\ NoneThrown' /\ OutOfPool'
    BY <1>1 DEF Single, OneEvicts, NoneThrown, OutOfPool
  <1>4. Untaken'
    <2> SUFFICES ASSUME NEW g \in Flow, stage'[g] \in {"marked", "filtered", "pinned"},
                        NEW t, t = job'[g]
                 PROVE  ~Gone(t)'
      BY DEF Untaken
    <2> QED
      BY <1>1, <1>2 DEF Untaken
  <1>5. PoolKnown'
    <2> SUFFICES ASSUME NEW t \in Tx, Gone(t)
                 PROVE  t \in known' \/ Inserting(t)'
      BY <1>2 DEF PoolKnown
    <2>1. ASSUME NEW g \in Flow, job[g] = t,
                 \/ stage[g] = "evicting" /\ victim[g] = t
                 \/ stage[g] \in {"evicting", "settling"} /\ outcome[g] = "pooled"
          PROVE  t \in known' \/ Inserting(t)'
      BY <1>1, <2>1 DEF Inserting
    <2> QED
      BY <1>1, <2>1 DEF PoolKnown, Inserting
  <1>6. /\ \A t \in Tx : t # job[f] => pending'[t] = pending[t]
        /\ pending'[job[f]] = pending[job[f]] \/ stage[f] = "unpinning"
    BY <1>1, StoreEffects
  <1>7. PinnedHeld'
    BY <1>1, <1>6, AdmissionAssumption
       DEF PinnedHeld, Single, Empty, FlowIInv, FlowsConsistent, SubmissionStage, Stage
  <1>8. \A t \in pool : pending'[t] = pending[t]
    BY <1>1, <1>6 DEF OutOfPool
  <1>9. PooledPinned'
    BY <1>1, <1>8 DEF PooledPinned, Empty
  <1>10. PoolSettled'
    BY <1>1, <1>8, SettledStays DEF PoolSettled
  <1> QED
    BY <1>3, <1>4, <1>5, <1>7, <1>9, <1>10

(* Transactions leave the pool, while the flows stand still. *)
LEMMA RemovalOnce ==
  ASSUME IInv, FlowIInv, PinnedCoverageKept, OnceIInv,
         UNCHANGED <<stage, job, victim, outcome>>, pool' \subseteq pool,
         phase' = "open" => phase = "open",
         \A t \in Tx : Gone(t)' /\ t \in known => t \in known',
         phase' = "open" => \A t \in Tx : pending'[t] = pending[t] \/ (t \in pool /\ t \notin pool')
  PROVE  OnceIInv'
  <1> USE DEF OnceIInv
  <1>1. \A t : Gone(t)' => Gone(t)
    BY DEF Gone, Leaving
  <1>2. Single' /\ OneEvicts' /\ NoneThrown' /\ OutOfPool'
    BY DEF Single, OneEvicts, NoneThrown, OutOfPool
  <1>3. Untaken'
    <2> SUFFICES ASSUME NEW g \in Flow, stage'[g] \in {"marked", "filtered", "pinned"},
                        NEW t, t = job'[g]
                 PROVE  ~Gone(t)'
      BY DEF Untaken
    <2> QED
      BY <1>1 DEF Untaken
  <1>4. PoolKnown'
    BY <1>1 DEF PoolKnown, Inserting
  <1>5. ASSUME NEW g \in Flow, stage[g] = "pinned"
        PROVE  job[g] \in Tx /\ job[g] \notin pool
    BY <1>5 DEF Untaken, Gone, FlowIInv, FlowsConsistent, SubmissionStage, Stage
  <1>6. PinnedHeld'
    BY <1>5 DEF PinnedHeld, Empty
  <1>7. pool \subseteq Tx
    BY DEF FlowIInv, AdmissionTypeOK
  <1>8. PooledPinned'
    BY <1>7 DEF PooledPinned, Empty
  <1>9. PoolSettled'
    BY <1>7, SettledStays DEF PoolSettled
  <1> QED
    BY <1>2, <1>3, <1>4, <1>6, <1>8, <1>9

LEMMA PoolOnce ==
  ASSUME IInv, FlowIInv, PinnedCoverageKept, OnceIInv,
         \/ \E t \in Tx, forget \in BOOLEAN : RemoveTransaction(t, forget)
         \/ \E back \in SUBSET Tx : NewHead(back)
         \/ Close \/ ReleasePool
         \/ UNCHANGED admissionVars
  PROVE  OnceIInv'
  <1>1. ASSUME NEW t \in Tx, NEW forget \in BOOLEAN, RemoveTransaction(t, forget)
        PROVE  OnceIInv'
    <2>1. /\ UNCHANGED <<stage, job, victim, outcome, phase>> /\ pool' = pool \ {t} /\ t \in pool
          /\ known' = known \/ known' = known \ {t}
          /\ \A g \in Flow : stage[g] # "evicting"
      BY <1>1 DEF RemoveTransaction, PoolLockFree, submission
    <2>2. ~Gone(t)'
      BY <2>1 DEF Gone, Leaving
    <2>3. \A u \in Tx : u # t => pending'[u] = pending[u]
      BY <1>1, StoreEffects DEF RemoveTransaction
    <2>4. \A u \in Tx : Gone(u)' /\ u \in known => u \in known'
      BY <2>1, <2>2
    <2> QED
      BY <2>1, <2>3, <2>4, RemovalOnce
  <1>2. ASSUME NEW back \in SUBSET Tx, NewHead(back)
        PROVE  OnceIInv'
    <2>1. /\ UNCHANGED <<vars, stage, job, victim, outcome, phase, pool>> /\ known' = known \ back
          /\ back \cap pool = {}
          /\ \A g \in Flow : stage[g] # "evicting"
      BY <1>2 DEF NewHead, Reading, submission
    <2>2. \A u \in Tx : Gone(u)' /\ u \in known => u \in known'
      BY <2>1 DEF Gone, Leaving
    <2> QED
      BY <2>1, <2>2, StoreEffects, RemovalOnce
  <1>3. CASE Close \/ UNCHANGED admissionVars
    <2>1. UNCHANGED <<vars, stage, job, victim, outcome, pool, known>> /\ (phase' = "open" => phase = "open")
      BY <1>3 DEF Close, admissionVars, submission, caches
    <2> QED
      BY <2>1, StoreEffects, RemovalOnce
  <1>4. CASE ReleasePool
    <2>1. UNCHANGED <<stage, job, victim, outcome, pool, known>> /\ phase' = "closed"
      BY <1>4 DEF ReleasePool, submission, caches
    <2> QED
      BY <2>1, RemovalOnce
  <1> QED
    BY <1>1, <1>2, <1>3, <1>4

LEMMA StepOnce ==
  ASSUME ~Duplicates, ~Throws, AdmissionIInv, CleanIInv, OnceIInv, [AdmissionNext]_admissionVars
  PROVE  OnceIInv'
  <1>1. IInv /\ FlowIInv /\ PinnedCoverageKept
    BY StepMaps, StepKeepsPinnedCoverage DEF AdmissionIInv
  <1>2. ASSUME NEW f \in Flow, Continue(f)
        PROVE  OnceIInv'
    BY <1>1, <1>2, ApartSteps, MarkOnce, PinOnce, InsertOnce, EvictOnce, SettleOnce DEF Continue
  <1>3. ASSUME NEW f \in Flow, NEW w \in Wrapper, Accept(f, w)
        PROVE  OnceIInv'
    BY <1>1, <1>3, ApartSteps
  <1>4. ASSUME NEW f \in Flow, NEW t \in Tx, SubmitTx(f, t)
        PROVE  OnceIInv'
    BY <1>1, <1>4, ApartSteps
  <1> QED
    BY <1>1, <1>2, <1>3, <1>4, PoolOnce DEF AdmissionNext

LEMMA InitOnce ==
  ASSUME AdmissionInit
  PROVE  OnceIInv
  <1>1. /\ \A f \in Flow : stage[f] = "idle" /\ job[f] = None /\ outcome[f] = "rejected"
        /\ pool = {}
    BY DEF AdmissionInit
  <1>2. \A t : ~Gone(t)
    BY <1>1 DEF Gone, Leaving
  <1> QED
    BY <1>1, <1>2 DEF OnceIInv, Single, OneEvicts, Untaken, PoolKnown, OutOfPool, NoneThrown,
                      PinnedHeld, PooledPinned, PoolSettled

(* Every transaction of an open pool has its pin, and block production finds for
   each of its dependencies the very witness that it pins, through replacement,
   eviction, reorganisation and rejection, so long as no two flows submit one
   transaction at a time and no subscriber of Inserted throws: with either of
   the two a transaction may be pooled without its pin. *)
THEOREM PooledStayProvable ==
  ASSUME ~Duplicates, ~Throws
  PROVE  AdmissionSpec => []PooledProvable
  <1>1. AdmissionInit => OnceIInv
    BY InitOnce
  <1>2. (AdmissionIInv /\ CleanIInv) /\ OnceIInv /\ [AdmissionNext]_admissionVars => OnceIInv'
    BY StepOnce
  <1>3. ASSUME AdmissionIInv, CleanIInv, OnceIInv
        PROVE  PooledProvable
    <2>1. PooledPinned
      BY <1>3 DEF OnceIInv
    <2>2. PooledCovered
      <3> SUFFICES ASSUME phase = "open", NEW t \in pool, NEW d \in TxDeps[t]
                   PROVE  coverage[d] # None /\ coverage[d] = pending[t][d]
        BY DEF PooledCovered
      <3>1. t \in Tx /\ d \in Dep
        BY <1>3, TxAssumption DEF AdmissionIInv, FlowIInv, AdmissionTypeOK
      <3>2. pending[t] # Empty /\ Settled(t)
        BY <1>3, <2>1 DEF OnceIInv, PooledPinned, PoolSettled
      <3>3. pending[t][d] # None
        BY <1>3, <3>1, <3>2 DEF CleanIInv, PendingTables
      <3> QED
        BY <3>1, <3>2, <3>3 DEF Settled
    <2> QED
      BY <2>1, <2>2 DEF PooledProvable
  <1> QED
    BY <1>1, <1>2, <1>3, CleanInvariance, PTL DEF AdmissionSpec
=============================================================================
