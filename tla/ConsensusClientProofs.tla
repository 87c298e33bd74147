----------------------- MODULE ConsensusClientProofs -----------------------
(* Theorems about the consensus client: the verdicts on proof wrappers, the calls
   of the execution engine, the streams of blocks and the import of blocks, for
   any blocks and payloads and for any number of tasks and calls.

   The proof rules move forward only: rank orders the programs by the forks that
   bring them.  A reorganisation across such a fork and back is the one case in
   which the second look at the program can be deceived. *)
EXTENDS WrapperVerdicts, EngineMethods, BlockStreamer, BlockImport,
        SubsequenceProofs, SequenceTheorems, TLAPS

ForwardBy(rank) ==
  /\ rank \in [Program -> Nat]
  /\ \A p \in Program : \A q \in Successors[p] : rank[p] < rank[q]

Forward == \E rank \in [Program -> Nat] : ForwardBy(rank)

-----------------------------------------------------------------------------
(* The queue of verdicts. *)
LEMMA AppendListed ==
  ASSUME NEW S, NEW q \in Seq(S), NEW k \in S, IsInjective(q), k \notin ToSet(q)
  PROVE  /\ Append(q, k) \in Seq(S) /\ IsInjective(Append(q, k))
         /\ ToSet(Append(q, k)) = ToSet(q) \cup {k}
         /\ Len(Append(q, k)) = Len(q) + 1
  <1>1. /\ Append(q, k) \in Seq(S) /\ Len(Append(q, k)) = Len(q) + 1
        /\ DOMAIN q = 1..Len(q) /\ DOMAIN Append(q, k) = 1..(Len(q) + 1) /\ Len(q) \in Nat
        /\ \A i \in 1..Len(q) : Append(q, k)[i] = q[i]
        /\ Append(q, k)[Len(q) + 1] = k
    BY AppendProperties, LenProperties
  <1>2. \A i \in 1..(Len(q) + 1) : i \in 1..Len(q) \/ i = Len(q) + 1
    BY <1>1
  <1>3. ToSet(Append(q, k)) = ToSet(q) \cup {k}
    BY <1>1, <1>2 DEF ToSet
  <1>4. IsInjective(Append(q, k))
    <2> SUFFICES ASSUME NEW a \in 1..(Len(q) + 1), NEW b \in 1..(Len(q) + 1),
                        Append(q, k)[a] = Append(q, k)[b]
                 PROVE  a = b
      BY <1>1 DEF IsInjective
    <2> QED
      BY <1>1, <1>2 DEF IsInjective, ToSet
  <1> QED
    BY <1>1, <1>3, <1>4

LEMMA TailListed ==
  ASSUME NEW S, NEW q \in Seq(S), q # <<>>, IsInjective(q)
  PROVE  /\ Tail(q) \in Seq(S) /\ IsInjective(Tail(q)) /\ Head(q) \in ToSet(q)
         /\ ToSet(Tail(q)) = ToSet(q) \ {Head(q)}
         /\ Len(Tail(q)) = Len(q) - 1
  <1>1. /\ Tail(q) \in Seq(S) /\ Len(Tail(q)) = Len(q) - 1 /\ Len(q) \in Nat \ {0}
        /\ DOMAIN q = 1..Len(q) /\ DOMAIN Tail(q) = 1..(Len(q) - 1)
        /\ \A i \in 1..(Len(q) - 1) : Tail(q)[i] = q[i + 1]
        /\ Head(q) = q[1]
    BY HeadTailProperties, LenProperties, EmptySeq
  <1>2. IsInjective(Tail(q))
    BY <1>1 DEF IsInjective
  <1>3. ASSUME NEW x PROVE x \in ToSet(Tail(q)) <=> x \in ToSet(q) /\ x # Head(q)
    <2>1. ASSUME x \in ToSet(Tail(q)) PROVE x \in ToSet(q) /\ x # Head(q)
      <3>1. PICK i \in 1..(Len(q) - 1) : x = q[i + 1]
        BY <1>1, <2>1 DEF ToSet
      <3> QED
        BY <1>1, <3>1 DEF ToSet, IsInjective
    <2>2. ASSUME x \in ToSet(q), x # Head(q) PROVE x \in ToSet(Tail(q))
      <3>1. PICK i \in 1..Len(q) : x = q[i] /\ i # 1
        BY <1>1, <2>2 DEF ToSet
      <3>2. i - 1 \in 1..(Len(q) - 1) /\ x = Tail(q)[i - 1]
        BY <1>1, <3>1
      <3> QED
        BY <1>1, <3>2 DEF ToSet
    <2> QED
      BY <2>1, <2>2
  <1>4. Head(q) \in ToSet(q)
    BY <1>1 DEF ToSet
  <1> QED
    BY <1>1, <1>2, <1>3, <1>4
-----------------------------------------------------------------------------
(* The inductive invariant, for a ranking of the programs. *)
Working(f) == stage[f] \notin {"idle", "preparing"}

(* A verdict that the current head would not give was worked out for a program
   the head has left for good. *)
CacheJustified(rank) ==
  \A k \in Key : verifiedWrappers[k] = "valid" =>
    Valid(k[1], k[2]) \/ rank[k[2]] < rank[program]

(* A call whose program still is the one of the head saw only that program. *)
FlowJustified(rank) ==
  \A f \in Flow : Working(f) =>
    \/ rank[admissionProgram[f]] < rank[program]
    \/ /\ admissionProgram[f] = program
       /\ stage[f] = "proving" => program \in Within[wrapper[f]]
       /\ stage[f] \in {"valid", "rechecking"} => Valid(wrapper[f], program)

(* A call works out only what is not in the cache. *)
FlowUnknown ==
  \A f \in Flow : stage[f] \in {"limiting", "proving", "valid", "invalid"} =>
    verifiedWrappers[KeyOf(f)] = "unknown"

IInv(rank) ==
  /\ TypeOK /\ VerdictsListed /\ AdmittedValid
  /\ CacheJustified(rank) /\ FlowJustified(rank) /\ FlowUnknown

LEMMA InitHolds ==
  ASSUME NEW rank, ForwardBy(rank), Init
  PROVE  IInv(rank)
  <1>1. TypeOK
    BY VerdictAssumption DEF Init, TypeOK
  <1>2. VerdictsListed
    BY VerdictAssumption DEF Init, VerdictsListed, ToSet, IsInjective, Key
  <1>3. AdmittedValid /\ CacheJustified(rank) /\ FlowJustified(rank) /\ FlowUnknown
    BY DEF Init, AdmittedValid, CacheJustified, FlowJustified, FlowUnknown, Working
  <1> QED
    BY <1>1, <1>2, <1>3 DEF IInv

(* A call that leaves gives up what it held and disturbs nobody. *)
LEMMA LeaveKeeps ==
  ASSUME NEW rank, ForwardBy(rank), IInv(rank), NEW f \in Flow, Leave(f),
         UNCHANGED <<program, verdicts>>, stage[f] # "idle",
         admitted' = admitted
  PROVE  IInv(rank)'
  <1> USE VerdictAssumption DEF IInv, Leave, verdicts
  <1>1. TypeOK'
    BY DEF TypeOK
  <1>2. VerdictsListed' /\ AdmittedValid' /\ CacheJustified(rank)'
    BY DEF VerdictsListed, AdmittedValid, CacheJustified, Valid
  <1>3. \A g \in Flow : stage'[g] = "idle"
    BY DEF TypeOK
  <1>4. FlowJustified(rank)' /\ FlowUnknown'
    BY <1>3 DEF FlowJustified, FlowUnknown, Working
  <1> QED
    BY <1>1, <1>2, <1>4

(* The same when the call only moves on and the cache stays. *)
LEMMA AcceptKeeps ==
  ASSUME NEW rank, ForwardBy(rank), IInv(rank), NEW f \in Flow, NEW w \in Wrapper,
         Accept(f, w)
  PROVE  IInv(rank)'
  <1> USE VerdictAssumption DEF IInv, Accept, verdicts, Goto
  <1>1. TypeOK'
    BY DEF TypeOK
  <1>2. VerdictsListed' /\ AdmittedValid' /\ CacheJustified(rank)'
    BY DEF VerdictsListed, AdmittedValid, CacheJustified, Valid
  <1>3. \A g \in Flow : stage'[g] \in {"idle", "preparing"}
    BY DEF TypeOK
  <1>4. FlowJustified(rank)' /\ FlowUnknown'
    BY <1>3 DEF FlowJustified, FlowUnknown, Working
  <1> QED
    BY <1>1, <1>2, <1>4

(* Of all the calls only the one inside the gate is not idle. *)
LEMMA OnlyOneInside ==
  ASSUME TypeOK, NEW f \in Flow, stage[f] # "idle", NEW g \in Flow, g # f
  PROVE  stage[g] = "idle"
  BY DEF TypeOK

LEMMA LookupKeeps ==
  ASSUME NEW rank, ForwardBy(rank), IInv(rank), NEW f \in Flow, Lookup(f)
  PROVE  IInv(rank)'
  <1> DEFINE k == <<wrapper[f], program>>
  <1>1. k \in Key /\ wrapper[f] \in Wrapper /\ program \in Program
    BY DEF IInv, TypeOK, Lookup, Key
  <1>2. CASE verifiedWrappers[k] = "invalid"
    BY <1>2, LeaveKeeps DEF Lookup
  <1>3. CASE verifiedWrappers[k] # "invalid"
    <2>1. /\ admissionProgram' = [admissionProgram EXCEPT ![f] = program]
          /\ stage' = [stage EXCEPT ![f] = IF verifiedWrappers[k] = "valid"
                                           THEN "rechecking" ELSE "limiting"]
          /\ UNCHANGED <<wrapper, admissionActive, program, verifiedWrappers,
                         verifiedWrapperOrder, admitted>>
          /\ stage[f] = "preparing"
      BY <1>3 DEF Lookup, Goto, verdicts
    <2>2. TypeOK'
      BY <2>1, <1>1, VerdictAssumption DEF IInv, TypeOK
    <2>3. VerdictsListed' /\ AdmittedValid' /\ CacheJustified(rank)'
      BY <2>1 DEF IInv, VerdictsListed, AdmittedValid, CacheJustified, Valid
    <2>4. /\ wrapper'[f] = wrapper[f] /\ admissionProgram'[f] = program
          /\ stage'[f] = IF verifiedWrappers[k] = "valid" THEN "rechecking" ELSE "limiting"
      BY <2>1 DEF IInv, TypeOK
    <2>5. \A g \in Flow : g # f => stage'[g] = "idle"
      BY <2>1, OnlyOneInside DEF IInv, TypeOK
    <2>6. verifiedWrappers[k] = "valid" => Valid(wrapper[f], program)
      BY <1>1 DEF IInv, CacheJustified, ForwardBy
    <2>7. FlowJustified(rank)'
      BY <2>1, <2>4, <2>5, <2>6 DEF FlowJustified, Working, Valid
    <2>8. FlowUnknown'
      <3>1. verifiedWrappers[k] \in {"unknown", "valid", "invalid"}
        BY <1>1 DEF IInv, TypeOK
      <3> QED
        BY <3>1, <1>3, <2>1, <2>4, <2>5 DEF FlowUnknown, KeyOf
    <2> QED
      BY <2>2, <2>3, <2>7, <2>8 DEF IInv
  <1> QED
    BY <1>2, <1>3

(* A check by the validator: the call moves on to a stage with a verdict. *)
LEMMA CheckKeeps ==
  ASSUME NEW rank, ForwardBy(rank), IInv(rank), NEW f \in Flow,
         CheckLimits(f) \/ CheckProof(f)
  PROVE  IInv(rank)'
  <1>1. /\ stage[f] \in {"limiting", "proving"}
        /\ UNCHANGED <<wrapper, admissionActive, admissionProgram, program, verifiedWrappers,
                       verifiedWrapperOrder, admitted>>
        /\ \E s \in {"proving", "valid", "invalid"} : stage' = [stage EXCEPT ![f] = s]
    BY DEF CheckLimits, CheckProof, verdicts, Goto
  <1>2. TypeOK'
    BY <1>1 DEF IInv, TypeOK
  <1>3. VerdictsListed' /\ AdmittedValid' /\ CacheJustified(rank)'
    BY <1>1 DEF IInv, VerdictsListed, AdmittedValid, CacheJustified, Valid
  <1>4. \A g \in Flow : g # f => stage'[g] = "idle"
    BY <1>1, OnlyOneInside DEF IInv, TypeOK
  <1>5. FlowUnknown'
    BY <1>1, <1>4 DEF IInv, TypeOK, FlowUnknown, KeyOf
  <1>6. /\ stage[f] = "limiting" /\ stage'[f] # "invalid" =>
             stage'[f] = "proving" /\ program \in Within[wrapper[f]]
        /\ stage[f] = "proving" /\ stage'[f] # "invalid" =>
             stage'[f] = "valid" /\ program \in Proves[wrapper[f]]
        /\ stage'[f] \in {"proving", "valid", "invalid"}
    BY DEF IInv, TypeOK, CheckLimits, CheckProof, Goto
  <1>7. \/ rank[admissionProgram[f]] < rank[program]
        \/ /\ admissionProgram[f] = program
           /\ stage[f] = "proving" => program \in Within[wrapper[f]]
    BY <1>1 DEF IInv, FlowJustified, Working
  <1>8. FlowJustified(rank)'
    BY <1>1, <1>4, <1>6, <1>7 DEF FlowJustified, Working, Valid
  <1> QED
    BY <1>2, <1>3, <1>5, <1>8 DEF IInv

(* Remembering a verdict that was not known: the oldest makes room for it. *)
LEMMA RememberListed ==
  ASSUME TypeOK, VerdictsListed, NEW k \in Key, verifiedWrappers[k] = "unknown",
         NEW v \in {"valid", "invalid"}, RememberVerification(k, v)
  PROVE  /\ verifiedWrappers' \in [Key -> {"unknown", "valid", "invalid"}]
         /\ verifiedWrapperOrder' \in Seq(Key)
         /\ VerdictsListed'
         /\ verifiedWrappers'[k] = v
         /\ \A j \in Key : j # k => verifiedWrappers'[j] \in {verifiedWrappers[j], "unknown"}
  <1> DEFINE full == Len(verifiedWrapperOrder) = MaxVerdicts
             old  == Head(verifiedWrapperOrder)
             kept == IF full THEN Tail(verifiedWrapperOrder) ELSE verifiedWrapperOrder
  <1>1. /\ verifiedWrapperOrder \in Seq(Key) /\ IsInjective(verifiedWrapperOrder)
        /\ ToSet(verifiedWrapperOrder) = {j \in Key : verifiedWrappers[j] # "unknown"}
        /\ Len(verifiedWrapperOrder) \in Nat /\ Len(verifiedWrapperOrder) <= MaxVerdicts
        /\ MaxVerdicts \in Nat \ {0} /\ k \notin ToSet(verifiedWrapperOrder)
    BY LenProperties, VerdictAssumption DEF TypeOK, VerdictsListed
  <1>2. /\ kept \in Seq(Key) /\ IsInjective(kept) /\ k \notin ToSet(kept)
        /\ Len(kept) \in Nat /\ Len(kept) + 1 <= MaxVerdicts
        /\ ToSet(kept) = IF full THEN ToSet(verifiedWrapperOrder) \ {old}
                         ELSE ToSet(verifiedWrapperOrder)
    <2>1. CASE full
      <3>1. verifiedWrapperOrder # <<>>
        BY <1>1, <2>1, EmptySeq
      <3> QED
        BY <1>1, <2>1, <3>1, TailListed
    <2>2. CASE ~full
      BY <1>1, <2>2
    <2> QED
      BY <2>1, <2>2
  <1>3. /\ verifiedWrapperOrder' = Append(kept, k)
        /\ verifiedWrappers' =
             [j \in Key |-> IF j = k THEN v
                            ELSE IF full /\ j = old THEN "unknown" ELSE verifiedWrappers[j]]
    BY DEF RememberVerification
  <1> HIDE DEF kept, full, old
  <1>4. /\ verifiedWrapperOrder' \in Seq(Key) /\ IsInjective(verifiedWrapperOrder')
        /\ ToSet(verifiedWrapperOrder') = ToSet(kept) \cup {k}
        /\ Len(verifiedWrapperOrder') <= MaxVerdicts
    BY <1>2, <1>3, <1>1, AppendListed
  <1>5. ToSet(verifiedWrapperOrder') = {j \in Key : verifiedWrappers'[j] # "unknown"}
    BY <1>1, <1>2, <1>3, <1>4
  <1> QED
    BY <1>3, <1>4, <1>5 DEF TypeOK, VerdictsListed

LEMMA DecideKeeps ==
  ASSUME NEW rank, ForwardBy(rank), IInv(rank), NEW f \in Flow, Decide(f)
  PROVE  IInv(rank)'
  <1> DEFINE k == KeyOf(f)
             v == stage[f]
  <1>1. /\ v \in {"valid", "invalid"} /\ RememberVerification(k, v)
        /\ UNCHANGED <<program, admitted>>
        /\ program \in Program /\ rank \in [Program -> Nat]
    BY DEF Decide, IInv, TypeOK, ForwardBy
  <1>2. k \in Key /\ wrapper[f] \in Wrapper /\ admissionProgram[f] \in Program
    BY <1>1 DEF IInv, TypeOK, Key, KeyOf
  <1>3. verifiedWrappers[k] = "unknown"
    BY <1>1 DEF IInv, FlowUnknown
  <1> HIDE DEF k, v
  <1>4. /\ verifiedWrappers' \in [Key -> {"unknown", "valid", "invalid"}]
        /\ verifiedWrapperOrder' \in Seq(Key)
        /\ VerdictsListed'
        /\ verifiedWrappers'[k] = v
        /\ \A j \in Key : j # k => verifiedWrappers'[j] \in {verifiedWrappers[j], "unknown"}
    BY <1>1, <1>2, <1>3, RememberListed DEF IInv
  <1>5. /\ \A g \in Flow : g # f => stage'[g] = "idle"
        /\ stage'[f] \in {"idle", "rechecking"}
        /\ stage'[f] = "rechecking" => /\ v = "valid"
                                       /\ UNCHANGED <<wrapper, admissionProgram>>
    BY <1>1, OnlyOneInside DEF Decide, IInv, TypeOK, Goto, Leave, v
  <1>6. TypeOK'
    <2>1. CASE stage[f] = "invalid" /\ Leave(f)
      BY <1>1, <1>4, <2>1, VerdictAssumption DEF IInv, TypeOK, Leave
    <2>2. CASE /\ stage[f] = "valid" /\ Goto(f, "rechecking")
               /\ UNCHANGED <<admissionActive, wrapper, admissionProgram>>
      BY <1>1, <1>4, <2>2 DEF IInv, TypeOK, Goto
    <2> QED
      BY <2>1, <2>2 DEF Decide
  <1>7. /\ rank[admissionProgram[f]] < rank[program]
        \/ /\ admissionProgram[f] = program
           /\ v = "valid" => Valid(wrapper[f], program)
    BY <1>1 DEF IInv, FlowJustified, Working, v
  <1>8. CacheJustified(rank)'
    <2> SUFFICES ASSUME NEW j \in Key, verifiedWrappers'[j] = "valid"
                 PROVE  Valid(j[1], j[2]) \/ rank[j[2]] < rank[program]
      BY <1>1 DEF CacheJustified, Valid
    <2>1. CASE j = k
      <3>1. j[1] = wrapper[f] /\ j[2] = admissionProgram[f] /\ v = "valid"
        BY <1>4, <2>1 DEF k, KeyOf
      <3> QED
        BY <1>7, <3>1
    <2>2. CASE j # k
      <3>1. verifiedWrappers[j] = "valid"
        BY <1>4, <2>2
      <3> QED
        BY <3>1 DEF IInv, CacheJustified
    <2> QED
      BY <2>1, <2>2
  <1>9. FlowJustified(rank)' /\ FlowUnknown'
    BY <1>1, <1>5, <1>7 DEF FlowJustified, FlowUnknown, Working, Valid
  <1>10. AdmittedValid'
    BY <1>1 DEF IInv, AdmittedValid, Valid
  <1> QED
    BY <1>4, <1>6, <1>8, <1>9, <1>10 DEF IInv

LEMMA RecheckKeeps ==
  ASSUME NEW rank, ForwardBy(rank), IInv(rank), NEW f \in Flow, Recheck(f)
  PROVE  IInv(rank)'
  <1>1. /\ stage[f] = "rechecking" /\ UNCHANGED <<program, verifiedWrappers, verifiedWrapperOrder>>
        /\ program \in Program /\ rank \in [Program -> Nat]
        /\ wrapper[f] \in Wrapper
    BY DEF Recheck, verdicts, IInv, TypeOK, ForwardBy
  <1>2. CASE program # admissionProgram[f]
    BY <1>1, <1>2, LeaveKeeps DEF Recheck, verdicts
  <1>3. CASE program = admissionProgram[f]
    <2>1. /\ stage' = [stage EXCEPT ![f] = "admitting"]
          /\ admitted' = admitted \cup {KeyOf(f)}
          /\ UNCHANGED <<admissionActive, wrapper, admissionProgram>>
      BY <1>3 DEF Recheck, Goto
    <2>2. Valid(wrapper[f], program)
      BY <1>1, <1>3 DEF IInv, FlowJustified, Working
    <2>3. TypeOK'
      BY <1>1, <1>3, <2>1 DEF IInv, TypeOK, KeyOf, Key
    <2>4. VerdictsListed' /\ CacheJustified(rank)'
      BY <1>1 DEF IInv, VerdictsListed, CacheJustified, Valid
    <2>5. AdmittedValid'
      BY <1>3, <2>1, <2>2 DEF IInv, AdmittedValid, KeyOf, Valid
    <2>6. /\ \A g \in Flow : g # f => stage'[g] = "idle"
          /\ stage'[f] = "admitting"
      BY <1>1, <2>1, OnlyOneInside DEF IInv, TypeOK
    <2>7. FlowJustified(rank)' /\ FlowUnknown'
      BY <1>1, <1>3, <2>1, <2>6 DEF FlowJustified, FlowUnknown, Working
    <2> QED
      BY <2>3, <2>4, <2>5, <2>7 DEF IInv
  <1> QED
    BY <1>2, <1>3

(* The head moves to a program of a later rank: what was worked out for the
   program it leaves is passed. *)
LEMMA HeadChangeKeeps ==
  ASSUME NEW rank, ForwardBy(rank), IInv(rank), NEW p \in Program, HeadChange(p)
  PROVE  IInv(rank)'
  <1>1. /\ program' = p /\ rank \in [Program -> Nat] /\ program \in Program
        /\ rank[program] < rank[p]
        /\ UNCHANGED <<admissionActive, stage, wrapper, admissionProgram, verifiedWrappers,
                       verifiedWrapperOrder, admitted>>
    BY DEF HeadChange, ForwardBy, IInv, TypeOK, verdicts
  <1>2. TypeOK' /\ VerdictsListed' /\ AdmittedValid' /\ FlowUnknown'
    BY <1>1 DEF IInv, TypeOK, VerdictsListed, AdmittedValid, Valid, FlowUnknown, KeyOf
  <1>3. \A q \in Program : rank[q] < rank[program] \/ q = program => rank[q] < rank[p]
    BY <1>1
  <1>4. CacheJustified(rank)'
    <2> SUFFICES ASSUME NEW k \in Key, verifiedWrappers[k] = "valid"
                 PROVE  Valid(k[1], k[2]) \/ rank[k[2]] < rank[p]
      BY <1>1 DEF CacheJustified, Valid
    <2> QED
      BY <1>3 DEF IInv, CacheJustified, Key
  <1>5. FlowJustified(rank)'
    <2> SUFFICES ASSUME NEW f \in Flow, Working(f)
                 PROVE  rank[admissionProgram[f]] < rank[p]
      BY <1>1 DEF FlowJustified, Working
    <2>1. admissionProgram[f] \in Program
      BY DEF IInv, TypeOK, Working
    <2> QED
      BY <1>3, <2>1 DEF IInv, FlowJustified
  <1> QED
    BY <1>2, <1>4, <1>5 DEF IInv

LEMMA NextKeeps ==
  ASSUME NEW rank, ForwardBy(rank), IInv(rank), [Next]_vars
  PROVE  IInv(rank)'
  <1>1. ASSUME NEW f \in Flow, NEW w \in Wrapper, Accept(f, w)
        PROVE  IInv(rank)'
    BY <1>1, AcceptKeeps
  <1>2. ASSUME NEW f \in Flow, GiveUp(f)
        PROVE  IInv(rank)'
    BY <1>2, LeaveKeeps DEF GiveUp
  <1>3. ASSUME NEW f \in Flow, Lookup(f)
        PROVE  IInv(rank)'
    BY <1>3, LookupKeeps
  <1>4. ASSUME NEW f \in Flow, CheckLimits(f) \/ CheckProof(f)
        PROVE  IInv(rank)'
    BY <1>4, CheckKeeps
  <1>5. ASSUME NEW f \in Flow, Decide(f)
        PROVE  IInv(rank)'
    BY <1>5, DecideKeeps
  <1>6. ASSUME NEW f \in Flow, Recheck(f)
        PROVE  IInv(rank)'
    BY <1>6, RecheckKeeps
  <1>7. ASSUME NEW f \in Flow, Finish(f)
        PROVE  IInv(rank)'
    BY <1>7, LeaveKeeps DEF Finish
  <1>8. ASSUME NEW p \in Program, HeadChange(p)
        PROVE  IInv(rank)'
    BY <1>8, HeadChangeKeeps
  <1>9. CASE UNCHANGED vars
    BY <1>9 DEF vars, verdicts, IInv, TypeOK, VerdictsListed, AdmittedValid, CacheJustified,
                FlowJustified, FlowUnknown, Working, Valid, KeyOf
  <1> QED
    BY <1>1, <1>2, <1>3, <1>4, <1>5, <1>6, <1>7, <1>8, <1>9 DEF Next

LEMMA IInvHolds ==
  ASSUME NEW CONSTANT rank, ForwardBy(rank)
  PROVE  Spec => []IInv(rank)
  <1>1. Init => IInv(rank)
    BY InitHolds
  <1>2. IInv(rank) /\ [Next]_vars => IInv(rank)'
    BY NextKeeps
  <1> QED
    BY <1>1, <1>2, PTL DEF Spec

-----------------------------------------------------------------------------
(* While the rules only move forward, the calls share the gate and the cache
   without harm: the queue and the cache agree, and a wrapper goes on to
   admission only if it is valid under the program it was looked up under
   (AcceptDetailedAsync, RememberVerification). *)
THEOREM VerdictsAreSound ==
  ASSUME Forward
  PROVE  Spec => []VerdictsSound
  <1>1. PICK rank \in [Program -> Nat] : ForwardBy(rank)
    BY DEF Forward
  <1>2. Spec => []IInv(rank)
    BY <1>1, IInvHolds
  <1>3. IInv(rank) => VerdictsSound
    BY DEF IInv, VerdictsSound
  <1> QED
    BY <1>2, <1>3, PTL
-----------------------------------------------------------------------------
(* Calls of the execution engine. *)
(* What was said of the engine, and when: of the start that runs, it is so. *)
Listing == [era : Nat, methods : Builds \cup {{}}]
Said(l) == l.era <= execution.era /\ (l.era = execution.era => l.methods = execution.methods)

Answers ==
  {"none", "ok", "error", "empty", "unsupported", "notFound", "unsupportedFork", "bellatrix"}
  \cup PayloadForks

Calling ==
  [at : {"rest", "capabilities", "choose", "exchange", "exchanged", "version", "sent", "asked", "done"},
   ask : Asks \cup {AtRest.ask}, used : Listing, floor : Nat, v : Nat, answer : Answers]

MethodTypes ==
  /\ execution \in [era : Nat \ {0}, methods : Builds]
  /\ capabilities \in Listing /\ capLock \in Asker \cup {NoAsker} /\ cleared \in Nat
  /\ request \in [Asker -> Calling]

(* What the cache holds was said after it was last cleared, and an exchange that
   is under way keeps it from being cleared. *)
ListingRecent ==
  /\ cleared <= execution.era /\ Said(capabilities)
  /\ capabilities # NotCached => capabilities.era >= cleared

(* A call goes by what was said after it began, and by a version of its own. *)
CallFits(c) ==
  LET r == request[c] IN
  /\ Said(r.used) /\ r.floor <= cleared
  /\ r.at \in {"exchange", "exchanged"} => capLock = c
  /\ r.at = "exchanged" => r.used.era >= cleared
  /\ r.at \in {"choose", "sent", "version", "asked"} => r.used.era >= r.floor
  /\ r.at # "done" => r.answer = "none"
  /\ r.at \notin {"rest", "done"} => r.ask \in Asks
  /\ r.at \in {"choose", "sent", "version", "asked"} => r.ask.kind # "refresh"
  /\ r.at \in {"version", "asked"} =>
       r.ask.kind = "clientVersion" /\ Method(r.ask, 1) \in r.used.methods
  /\ r.at = "asked" => r.v = 1
  /\ r.at = "sent" =>
       /\ Method(r.ask, r.v) \in r.used.methods
       /\ \E i \in DOMAIN Versions(r.ask) : r.v = Versions(r.ask)[i]

MethodInv == MethodTypes /\ ListingRecent /\ \A c \in Asker : CallFits(c)

(* What a call may be. *)
LEMMA AskKinds ==
  ASSUME NEW ask \in Asks
  PROVE  \/ ask.kind \in {"newPayload", "getPayload"} /\ ask.of \in PayloadForks
         \/ ask.kind = "forkchoice" /\ ask.of \in {"v1", "v2", "v3", "v4", "none"}
         \/ ask.kind \in {"clientVersion", "refresh"} /\ ask.of = "none"
  BY AsksAssumption

LEMMA VersionsListed ==
  ASSUME NEW ask \in Asks
  PROVE  Versions(ask) \in Seq(Nat)
  <1>1. Versions(ask) \in {<<2, 1>>, <<1>>, <<3>>, <<4>>, <<5>>, <<6>>, <<3, 2, 1>>}
    <2>1. CASE ask.kind = "newPayload" /\ ask.of \in PayloadForks
      BY <2>1 DEF Versions, PayloadForks
    <2>2. CASE ask.kind = "getPayload" /\ ask.of \in PayloadForks
      BY <2>2 DEF Versions, PayloadForks
    <2>3. CASE ask.kind = "forkchoice" /\ ask.of \in {"v1", "v2", "v3", "v4", "none"}
      BY <2>3 DEF Versions
    <2>4. CASE ask.kind \in {"clientVersion", "refresh"}
      BY <2>4 DEF Versions
    <2> QED
      BY <2>1, <2>2, <2>3, <2>4, AskKinds
  <1>2. <<2, 1>> \in Seq(Nat) /\ <<1>> \in Seq(Nat) /\ <<3>> \in Seq(Nat) /\ <<4>> \in Seq(Nat)
    OBVIOUS
  <1>3. <<5>> \in Seq(Nat) /\ <<6>> \in Seq(Nat) /\ <<3, 2, 1>> \in Seq(Nat)
    OBVIOUS
  <1> QED
    BY <1>1, <1>2, <1>3

(* The versions of a call that are listed: none, or its newest one first. *)
LEMMA CandidatesListed ==
  ASSUME NEW ask \in Asks, NEW methods, NEW found, found = Candidates(ask, methods)
  PROVE  /\ found = <<>> => \A i \in DOMAIN Versions(ask) : Method(ask, Versions(ask)[i]) \notin methods
         /\ found # <<>> => /\ Head(found) \in Nat /\ Method(ask, Head(found)) \in methods
                            /\ \E i \in DOMAIN Versions(ask) : Head(found) = Versions(ask)[i]
  <1>1. PICK versions \in Seq(Nat) : versions = Versions(ask)
    BY VersionsListed
  <1>2. PICK places \in SUBSET DOMAIN versions :
          places = {i \in DOMAIN versions : Method(ask, versions[i]) \in methods}
    OBVIOUS
  <1>3. found = PartAt(versions, places)
    BY <1>1, <1>2 DEF Candidates
  <1>4. /\ found \in Seq(Nat)
        /\ \A k \in DOMAIN found : \E i \in places : found[k] = versions[i]
        /\ \A i \in places : \E k \in DOMAIN found : found[k] = versions[i]
    BY <1>3, PartOfSequence
  <1>5. CASE found = <<>>
    BY <1>1, <1>2, <1>4, <1>5
  <1>6. CASE found # <<>>
    <2>1. 1 \in DOMAIN found /\ Head(found) = found[1] /\ found[1] \in Nat
      BY <1>4, <1>6
    <2>2. PICK i \in places : found[1] = versions[i]
      BY <1>4, <2>1
    <2> QED
      BY <2>1, <2>2, <1>1, <1>2, <1>6
  <1> QED
    BY <1>5, <1>6

LEMMA AnswerTyped ==
  ASSUME NEW ask \in Asks, NEW v, NEW methods
  PROVE  Answered(ask, v, methods) \in Answers
  BY AskKinds DEF Answered, Decoded, Answers

LEMMA MethodInitHolds ==
  ASSUME MethodInit
  PROVE  MethodInv
  <1>1. NotCached \in Listing /\ NotCached.era = 0
    BY DEF NotCached, Listing
  <1>2. AtRest \in Calling
    BY <1>1 DEF AtRest, Calling, Answers
  <1>3. execution \in [era : Nat \ {0}, methods : Builds] /\ execution.era = 1
    BY DEF MethodInit
  <1>4. MethodTypes
    BY <1>1, <1>2, <1>3 DEF MethodInit, MethodTypes
  <1>5. ListingRecent
    BY <1>1, <1>3 DEF MethodInit, ListingRecent, Said
  <1>6. ASSUME NEW c \in Asker PROVE CallFits(c)
    BY <1>1, <1>3 DEF MethodInit, CallFits, Said, AtRest
  <1> QED
    BY <1>4, <1>5, <1>6 DEF MethodInv

(* A step of one call leaves the engine, and what the other calls go by, alone. *)
LEMMA CallStep ==
  ASSUME MethodInv, NEW c \in Asker, NEW r \in Calling, request' = [request EXCEPT ![c] = r],
         UNCHANGED <<execution, cleared>>,
         capabilities' \in Listing, ListingRecent',
         capLock' = capLock \/ (capLock = NoAsker /\ capLock' = c) \/ (capLock = c /\ capLock' = NoAsker),
         CallFits(c)'
  PROVE  MethodInv'
  <1>1. MethodTypes'
    BY DEF MethodInv, MethodTypes
  <1>2. ASSUME NEW d \in Asker, d # c PROVE CallFits(d)'
    BY <1>2, AsksAssumption DEF MethodInv, MethodTypes, CallFits, Said
  <1> QED
    BY <1>1, <1>2 DEF MethodInv

LEMMA FinishedRests ==
  ASSUME MethodTypes, NEW c \in Asker, NEW answer \in Answers, request[c].at \notin {"rest", "done"}
  PROVE  [AtRest EXCEPT !.at = "done", !.ask = request[c].ask, !.answer = answer] \in Calling
  BY DEF MethodTypes, Calling, AtRest, Listing, NotCached

(* A call that ends holds nothing any more. *)
LEMMA FinishedKeeps ==
  ASSUME MethodInv, NEW c \in Asker, NEW answer \in Answers, Finished(c, answer),
         request[c].at \notin {"rest", "done"},
         UNCHANGED <<execution, cleared>>,
         capabilities' \in Listing, ListingRecent',
         capLock' = capLock \/ (capLock = c /\ capLock' = NoAsker)
  PROVE  MethodInv'
  <1> DEFINE r == [AtRest EXCEPT !.at = "done", !.ask = request[c].ask, !.answer = answer]
  <1>1. r \in Calling /\ request' = [request EXCEPT ![c] = r]
    BY FinishedRests DEF Finished, MethodInv
  <1>2. request'[c] = r
    BY <1>1 DEF MethodInv, MethodTypes
  <1>3. /\ r.at = "done" /\ r.used = NotCached /\ r.floor = 0
        /\ NotCached.era = 0 /\ execution.era \in Nat \ {0} /\ cleared \in Nat
    BY DEF AtRest, NotCached, MethodInv, MethodTypes
  <1> HIDE DEF r
  <1>4. CallFits(c)'
    BY <1>2, <1>3 DEF CallFits, Said
  <1> QED
    BY <1>1, <1>4, CallStep

LEMMA AskKeeps ==
  ASSUME MethodInv, NEW c \in Asker, Ask(c)
  PROVE  MethodInv'
  <1>1. PICK ask \in Asks :
          request' = [request EXCEPT ![c].at = "capabilities", ![c].ask = ask, ![c].floor = cleared]
    BY DEF Ask
  <1> DEFINE r == [request[c] EXCEPT !.at = "capabilities", !.ask = ask, !.floor = cleared]
  <1>2. r \in Calling /\ request' = [request EXCEPT ![c] = r] /\ request'[c] = r
    BY <1>1 DEF MethodInv, MethodTypes, Calling
  <1>3. /\ r.at = "capabilities" /\ r.ask = ask /\ r.floor = cleared /\ r.used = request[c].used
        /\ r.answer = request[c].answer /\ request[c].at = "rest"
    BY DEF MethodInv, MethodTypes, Calling, Ask
  <1> HIDE DEF r
  <1>4. CallFits(c)'
    BY <1>2, <1>3 DEF CallFits, Said, MethodInv, MethodTypes, Ask
  <1>5. ListingRecent'
    BY DEF Ask, ListingRecent, Said, MethodInv
  <1> QED
    BY <1>2, <1>4, <1>5, CallStep DEF Ask, MethodInv, MethodTypes

LEMMA FindCachedKeeps ==
  ASSUME MethodInv, NEW c \in Asker, FindCached(c)
  PROVE  MethodInv'
  <1> DEFINE r == [request[c] EXCEPT !.at = "choose", !.used = capabilities]
  <1>1. /\ r \in Calling /\ request' = [request EXCEPT ![c] = r] /\ request'[c] = r
        /\ r.at = "choose" /\ r.ask = request[c].ask /\ r.floor = request[c].floor
        /\ r.used = capabilities /\ r.answer = request[c].answer
        /\ request[c].at = "capabilities" /\ request[c].ask.kind # "refresh" /\ capabilities # NotCached
        /\ capabilities.era \in Nat /\ cleared \in Nat /\ request[c].floor \in Nat
    BY DEF MethodInv, MethodTypes, Calling, FindCached, Listing
  <1> HIDE DEF r
  <1>2. ListingRecent' /\ UNCHANGED <<execution, cleared, capabilities, capLock>>
    BY DEF FindCached, ListingRecent, Said, MethodInv
  <1>3. CallFits(c)'
    BY <1>1, <1>2 DEF CallFits, Said, MethodInv, ListingRecent
  <1> QED
    BY <1>1, <1>2, <1>3, CallStep DEF MethodInv, MethodTypes

LEMMA StartExchangeKeeps ==
  ASSUME MethodInv, NEW c \in Asker, StartExchange(c)
  PROVE  MethodInv'
  <1> DEFINE r == [request[c] EXCEPT !.at = "exchange"]
  <1>1. /\ r \in Calling /\ request' = [request EXCEPT ![c] = r] /\ request'[c] = r
        /\ r.at = "exchange" /\ r.ask = request[c].ask /\ r.floor = request[c].floor
        /\ r.used = request[c].used /\ r.answer = request[c].answer
        /\ request[c].at = "capabilities"
    BY DEF MethodInv, MethodTypes, Calling, StartExchange, Goes
  <1> HIDE DEF r
  <1>2. /\ ListingRecent' /\ UNCHANGED <<execution, cleared, capabilities>>
        /\ capLock = NoAsker /\ capLock' = c
    BY DEF StartExchange, HoldLock, ListingRecent, Said, MethodInv
  <1>3. CallFits(c)'
    BY <1>1, <1>2 DEF CallFits, Said, MethodInv
  <1> QED
    BY <1>1, <1>2, <1>3, CallStep DEF MethodInv, MethodTypes

LEMMA ReplyExchangeKeeps ==
  ASSUME MethodInv, NEW c \in Asker, ReplyExchange(c)
  PROVE  MethodInv'
  <1> DEFINE r == [request[c] EXCEPT !.at = "exchanged", !.used = execution]
  <1>0. execution \in Listing /\ execution.era \in Nat
    BY DEF MethodInv, MethodTypes, Listing
  <1>1. /\ r \in Calling /\ request' = [request EXCEPT ![c] = r] /\ request'[c] = r
        /\ r.at = "exchanged" /\ r.ask = request[c].ask /\ r.floor = request[c].floor
        /\ r.used = execution /\ r.answer = request[c].answer
        /\ request[c].at = "exchange"
    BY <1>0 DEF MethodInv, MethodTypes, Calling, ReplyExchange
  <1> HIDE DEF r
  <1>2. ListingRecent' /\ UNCHANGED <<execution, cleared, capabilities, capLock>>
    BY DEF ReplyExchange, ListingRecent, Said, MethodInv
  <1>3. CallFits(c)'
    BY <1>0, <1>1, <1>2 DEF CallFits, Said, MethodInv, ListingRecent, MethodTypes
  <1> QED
    BY <1>1, <1>2, <1>3, CallStep DEF MethodInv, MethodTypes

LEMMA StoreExchangeKeeps ==
  ASSUME MethodInv, NEW c \in Asker, StoreExchange(c)
  PROVE  MethodInv'
  <1>1. /\ request[c].at = "exchanged" /\ capabilities' = request[c].used
        /\ capLock = c /\ capLock' = NoAsker /\ UNCHANGED <<execution, cleared>>
        /\ request[c].used.era >= cleared /\ Said(request[c].used) /\ request[c].used \in Listing
    BY DEF StoreExchange, MethodInv, CallFits, MethodTypes, Calling
  <1>2. ListingRecent' /\ capabilities' \in Listing
    BY <1>1 DEF ListingRecent, Said, MethodInv
  <1>3. CASE request[c].ask.kind = "refresh"
    BY <1>1, <1>2, <1>3, FinishedKeeps DEF StoreExchange, Answers
  <1>4. CASE request[c].ask.kind # "refresh"
    <2> DEFINE r == [request[c] EXCEPT !.at = "choose"]
    <2>1. /\ r \in Calling /\ request' = [request EXCEPT ![c] = r] /\ request'[c] = r
          /\ r.at = "choose" /\ r.ask = request[c].ask /\ r.floor = request[c].floor
          /\ r.used = request[c].used /\ r.answer = request[c].answer
          /\ request[c].floor \in Nat /\ request[c].used.era \in Nat /\ cleared \in Nat
      BY <1>4 DEF MethodInv, MethodTypes, Calling, StoreExchange, Goes, Listing
    <2> HIDE DEF r
    <2>2. CallFits(c)'
      BY <1>1, <1>4, <2>1 DEF CallFits, Said, MethodInv
    <2> QED
      BY <1>1, <1>2, <2>1, <2>2, CallStep
  <1> QED
    BY <1>3, <1>4

LEMMA LoseExchangeKeeps ==
  ASSUME MethodInv, NEW c \in Asker, LoseExchange(c)
  PROVE  MethodInv'
  <1>1. /\ request[c].at \in {"exchange", "exchanged"} /\ capLock = c /\ capLock' = NoAsker
        /\ UNCHANGED <<execution, cleared, capabilities>>
    BY DEF LoseExchange, MethodInv, CallFits
  <1>2. ListingRecent' /\ capabilities' \in Listing
    BY <1>1 DEF ListingRecent, Said, MethodInv, MethodTypes
  <1> QED
    BY <1>1, <1>2, FinishedKeeps DEF LoseExchange, Answers

LEMMA OneVersion ==
  ASSUME NEW ask, ask.kind = "clientVersion"
  PROVE  Versions(ask) = <<1>>
  BY DEF Versions

LEMMA ChooseKeeps ==
  ASSUME MethodInv, NEW c \in Asker, Choose(c)
  PROVE  MethodInv'
  <1> DEFINE ask == request[c].ask
             found == Candidates(ask, request[c].used.methods)
  <1>1. /\ request[c].at = "choose" /\ ask \in Asks /\ ask.kind # "refresh"
        /\ UNCHANGED <<execution, capabilities, capLock, cleared>>
    BY DEF Choose, MethodInv, CallFits
  <1>2. ListingRecent' /\ capabilities' \in Listing
    BY <1>1 DEF ListingRecent, Said, MethodInv, MethodTypes
  <1>3. /\ found # <<>> => /\ Head(found) \in Nat /\ Method(ask, Head(found)) \in request[c].used.methods
                           /\ \E i \in DOMAIN Versions(ask) : Head(found) = Versions(ask)[i]
    BY <1>1, CandidatesListed
  <1>4. CASE found = <<>>
    <2>1. Finished(c, "empty") \/ Finished(c, "unsupported")
      <3>1. CASE ask.kind = "clientVersion"
        BY <1>4, <3>1 DEF Choose
      <3>2. CASE ask.kind # "clientVersion"
        BY <1>4, <3>2 DEF Choose
      <3> QED
        BY <3>1, <3>2
    <2> QED
      BY <1>1, <1>2, <2>1, FinishedKeeps DEF Answers
  <1>5. CASE found # <<>> /\ ask.kind = "clientVersion"
    <2>0. request' = [request EXCEPT ![c].at = "version"]
      BY <1>5 DEF Choose, Goes
    <2> HIDE DEF found, ask
    <2> DEFINE r == [request[c] EXCEPT !.at = "version"]
    <2>1. /\ r \in Calling /\ request' = [request EXCEPT ![c] = r] /\ request'[c] = r
          /\ r.at = "version" /\ r.ask = ask /\ r.floor = request[c].floor
          /\ r.used = request[c].used /\ r.answer = request[c].answer
      BY <2>0 DEF MethodInv, MethodTypes, Calling, ask
    <2> HIDE DEF r
    <2>2. Versions(ask) = <<1>>
      BY <1>5, OneVersion
    <2>3. Method(ask, 1) \in request[c].used.methods
      BY <1>3, <1>5, <2>2
    <2>4. CallFits(c)'
      BY <1>1, <1>5, <2>1, <2>3 DEF CallFits, Said, MethodInv
    <2> QED
      BY <1>1, <1>2, <2>1, <2>4, CallStep
  <1>6. CASE found # <<>> /\ ask.kind # "clientVersion"
    <2> DEFINE r == [request[c] EXCEPT !.at = "sent", !.v = Head(found)]
    <2>0. request' = [request EXCEPT ![c].at = "sent", ![c].v = Head(found)]
      BY <1>6 DEF Choose
    <2> HIDE DEF found
    <2>1. /\ r \in Calling /\ request' = [request EXCEPT ![c] = r] /\ request'[c] = r
          /\ r.at = "sent" /\ r.ask = ask /\ r.floor = request[c].floor
          /\ r.used = request[c].used /\ r.answer = request[c].answer /\ r.v = Head(found)
      BY <1>3, <1>6, <2>0 DEF MethodInv, MethodTypes, Calling
    <2> HIDE DEF r
    <2>4. CallFits(c)'
      BY <1>1, <1>3, <1>6, <2>1 DEF CallFits, Said, MethodInv
    <2> QED
      BY <1>1, <1>2, <2>1, <2>4, CallStep
  <1> QED
    BY <1>4, <1>5, <1>6

(* A call that was sent ends with what the engine answers, or with an error. *)
LEMMA SentEnds ==
  ASSUME MethodInv, NEW c \in Asker, Reply(c) \/ ReplyVersion(c) \/ TimeOut(c)
  PROVE  /\ MethodInv'
         /\ \E answer \in {"error", Answered(request[c].ask, request[c].v, execution.methods)} :
              Finished(c, answer)
  <1>1. /\ request[c].at \in {"sent", "asked"} /\ request[c].ask \in Asks
        /\ UNCHANGED <<execution, capabilities, capLock, cleared>>
    BY DEF Reply, ReplyVersion, TimeOut, TimesOut, MethodInv, CallFits
  <1>2. \E answer \in {"error", Answered(request[c].ask, request[c].v, execution.methods)} :
          Finished(c, answer)
    BY DEF Reply, ReplyVersion, TimeOut
  <1>3. Answered(request[c].ask, request[c].v, execution.methods) \in Answers /\ "error" \in Answers
    BY <1>1, AnswerTyped DEF Answers
  <1>4. ListingRecent' /\ capabilities' \in Listing
    BY <1>1 DEF ListingRecent, Said, MethodInv, MethodTypes
  <1> QED
    BY <1>1, <1>2, <1>3, <1>4, FinishedKeeps

LEMMA FindVersionKeeps ==
  ASSUME MethodInv, NEW c \in Asker, FindVersion(c)
  PROVE  MethodInv'
  <1>1. /\ request[c].at = "version" /\ UNCHANGED <<execution, capabilities, capLock, cleared>>
    BY DEF FindVersion
  <1>2. ListingRecent' /\ capabilities' \in Listing
    BY <1>1 DEF ListingRecent, Said, MethodInv, MethodTypes
  <1>3. CASE version # NotCached
    BY <1>1, <1>2, <1>3, FinishedKeeps DEF FindVersion, Answers
  <1>4. CASE version = NotCached
    <2> DEFINE r == [request[c] EXCEPT !.at = "asked", !.v = 1]
    <2>1. /\ r \in Calling /\ request' = [request EXCEPT ![c] = r] /\ request'[c] = r
          /\ r.at = "asked" /\ r.ask = request[c].ask /\ r.floor = request[c].floor
          /\ r.used = request[c].used /\ r.answer = request[c].answer /\ r.v = 1
      BY <1>4 DEF MethodInv, MethodTypes, Calling, FindVersion
    <2> HIDE DEF r
    <2>2. CallFits(c)'
      BY <1>1, <2>1 DEF CallFits, Said, MethodInv
    <2> QED
      BY <1>1, <1>2, <2>1, <2>2, CallStep
  <1> QED
    BY <1>3, <1>4

LEMMA GiveBackKeeps ==
  ASSUME MethodInv, NEW c \in Asker, GiveBack(c)
  PROVE  MethodInv'
  <1>1. /\ AtRest \in Calling /\ request' = [request EXCEPT ![c] = AtRest] /\ request'[c] = AtRest
        /\ NotCached.era = 0 /\ AtRest.used = NotCached /\ AtRest.floor = 0 /\ AtRest.at = "rest"
        /\ AtRest.answer = "none" /\ execution.era \in Nat \ {0} /\ cleared \in Nat
    BY DEF GiveBack, MethodInv, MethodTypes, AtRest, Calling, Answers, Listing, NotCached
  <1>2. UNCHANGED <<execution, capabilities, capLock, cleared>>
    BY DEF GiveBack
  <1>3. ListingRecent' /\ capabilities' \in Listing
    BY <1>2 DEF ListingRecent, Said, MethodInv, MethodTypes
  <1>4. CallFits(c)'
    BY <1>1, <1>2 DEF CallFits, Said
  <1> QED
    BY <1>1, <1>2, <1>3, <1>4, CallStep

LEMMA ClearKeeps ==
  ASSUME MethodInv, ClearCapabilities
  PROVE  MethodInv'
  <1>1. /\ capLock = NoAsker /\ capabilities' = NotCached /\ cleared' = execution.era
        /\ UNCHANGED <<execution, capLock, request>> /\ NotCached.era = 0
        /\ execution.era \in Nat \ {0} /\ cleared \in Nat /\ cleared <= execution.era
    BY DEF ClearCapabilities, NotCached, MethodInv, MethodTypes, ListingRecent
  <1>2. MethodTypes'
    BY <1>1 DEF MethodInv, MethodTypes, Listing, NotCached
  <1>3. ListingRecent'
    BY <1>1 DEF ListingRecent, Said
  <1>4. ASSUME NEW c \in Asker PROVE CallFits(c)'
    <2>1. request[c].at \notin {"exchange", "exchanged"} /\ request[c].floor \in Nat
      BY <1>1, AsksAssumption DEF MethodInv, MethodTypes, CallFits, Calling
    <2> QED
      BY <1>1, <2>1 DEF MethodInv, CallFits, Said
  <1> QED
    BY <1>2, <1>3, <1>4 DEF MethodInv

LEMMA RestartKeeps ==
  ASSUME MethodInv, Restart
  PROVE  MethodInv'
  <1>1. PICK methods \in Builds : execution' = [era |-> execution.era + 1, methods |-> methods]
    BY DEF Restart
  <1>2. /\ UNCHANGED <<capabilities, capLock, cleared, request>>
        /\ execution'.era = execution.era + 1 /\ execution.era \in Nat \ {0} /\ cleared \in Nat
        /\ capabilities.era \in Nat
    BY <1>1 DEF Restart, MethodInv, MethodTypes, Listing
  <1>3. MethodTypes'
    BY <1>1, <1>2 DEF MethodInv, MethodTypes
  <1>4. ListingRecent'
    BY <1>2 DEF MethodInv, ListingRecent, Said
  <1>5. ASSUME NEW c \in Asker PROVE CallFits(c)'
    <2>1. request[c].used.era \in Nat
      BY DEF MethodInv, MethodTypes, Calling, Listing
    <2> QED
      BY <1>2, <2>1 DEF MethodInv, CallFits, Said
  <1> QED
    BY <1>3, <1>4, <1>5 DEF MethodInv

LEMMA MethodKeeps ==
  ASSUME MethodInv, [MethodNext]_methodVars
  PROVE  MethodInv'
  <1>1. CASE UNCHANGED methodVars
    BY <1>1 DEF methodVars, MethodInv, MethodTypes, ListingRecent, CallFits, Said
  <1>2. CASE ClearCapabilities
    BY <1>2, ClearKeeps
  <1>3. CASE ClearVersion
    BY <1>3 DEF ClearVersion, MethodInv, MethodTypes, ListingRecent, CallFits, Said
  <1>4. CASE Restart
    BY <1>4, RestartKeeps
  <1>5. ASSUME NEW c \in Asker, Ask(c) \/ ReplyExchange(c) \/ Reply(c) \/ ReplyVersion(c) \/ Ends(c)
        PROVE  MethodInv'
    BY <1>5, AskKeeps, ReplyExchangeKeeps, SentEnds, FindCachedKeeps, StartExchangeKeeps,
       StoreExchangeKeeps, LoseExchangeKeeps, ChooseKeeps, FindVersionKeeps, GiveBackKeeps DEF Ends
  <1> QED
    BY <1>1, <1>2, <1>3, <1>4, <1>5 DEF MethodNext
-----------------------------------------------------------------------------
(* What a step may answer a call. *)
LEMMA AnswerStep ==
  ASSUME MethodInv, [MethodNext]_methodVars, NEW c \in Asker, request[c].at \in {"sent", "asked"}
  PROVE  request'[c].answer \in
           {"none", "error", Answered(request[c].ask, request[c].v, execution.methods)}
  <1>1. CASE request'[c] = request[c]
    BY <1>1 DEF MethodInv, CallFits
  <1>2. ASSUME NEW d \in Asker,
               Ask(d) \/ ReplyExchange(d) \/ Reply(d) \/ ReplyVersion(d) \/ Ends(d),
               d # c
        PROVE  request'[c] = request[c]
    BY <1>2 DEF MethodInv, MethodTypes, Ask, ReplyExchange, Reply, ReplyVersion, Ends, FindCached,
       StartExchange, StoreExchange, LoseExchange, Choose, FindVersion, TimeOut, GiveBack, Finished, Goes
  <1>3. CASE Reply(c) \/ ReplyVersion(c) \/ TimeOut(c)
    <2>1. PICK answer \in {"error", Answered(request[c].ask, request[c].v, execution.methods)} :
            Finished(c, answer)
      BY <1>3, SentEnds
    <2>2. request'[c].answer = answer
      BY <2>1 DEF Finished, AtRest, MethodInv, MethodTypes
    <2> QED
      BY <2>2
  <1>4. CASE Ask(c) \/ ReplyExchange(c) \/ FindCached(c) \/ StartExchange(c) \/ StoreExchange(c)
             \/ LoseExchange(c) \/ Choose(c) \/ FindVersion(c) \/ GiveBack(c)
    BY <1>4 DEF Ask, ReplyExchange, FindCached, StartExchange, StoreExchange, LoseExchange, Choose,
       FindVersion, GiveBack
  <1>5. CASE ClearCapabilities \/ ClearVersion \/ Restart \/ UNCHANGED methodVars
    BY <1>1, <1>5 DEF ClearCapabilities, ClearVersion, Restart, methodVars
  <1> QED
    BY <1>1, <1>2, <1>3, <1>4, <1>5 DEF MethodNext, Ends

(* The engine refuses a version it listed only when it has started anew, and a
   fork only when all it has for a Capella payload is the first version. *)
LEMMA AnswerFits ==
  ASSUME MethodInv, NEW c \in Asker, request[c].at \in {"sent", "asked"},
         NEW answer, answer = Answered(request[c].ask, request[c].v, execution.methods)
  PROVE  /\ answer = "notFound" => execution.era > request[c].used.era
         /\ answer = "unsupportedFork" =>
              request[c].ask = [kind |-> "newPayload", of |-> "capella"] /\ request[c].v = 1
         /\ request[c].at = "sent" /\ request[c].ask.kind = "getPayload" =>
              \/ answer \in {"notFound", request[c].ask.of}
              \/ request[c].ask.of = "capella" /\ request[c].v = 1
  <1> DEFINE ask == request[c].ask
             v == request[c].v
  <1>1. /\ ask \in Asks /\ Method(ask, v) \in request[c].used.methods /\ Said(request[c].used)
        /\ execution.era \in Nat /\ request[c].used.era \in Nat
        /\ \E i \in DOMAIN Versions(ask) : v = Versions(ask)[i]
    <2>1. CASE request[c].at = "asked"
      <3>1. Versions(ask) = <<1>> /\ v = 1
        BY <2>1, OneVersion DEF MethodInv, CallFits
      <3>2. 1 \in DOMAIN Versions(ask) /\ Versions(ask)[1] = 1
        BY <3>1
      <3> QED
        BY <2>1, <3>1, <3>2 DEF MethodInv, CallFits, MethodTypes, Calling, Listing
    <2>2. CASE request[c].at = "sent"
      BY <2>2 DEF MethodInv, CallFits, MethodTypes, Calling, Listing
    <2> QED
      BY <2>1, <2>2
  <1>2. answer = "notFound" => Method(ask, v) \notin execution.methods
    <2>1. ask.kind = "getPayload" => Decoded(ask.of, v) # "notFound"
      BY <1>1, AskKinds DEF Decoded, PayloadForks
    <2> QED
      BY <2>1 DEF Answered
  <1>3. answer = "notFound" => execution.era > request[c].used.era
    BY <1>1, <1>2 DEF Said
  <1> HIDE DEF ask, v
  <1>4. Speaks(ask, v) \/ (ask.kind = "newPayload" /\ ask.of = "capella" /\ v = 1)
    <2>1. CASE ask.kind = "newPayload" /\ ask.of \in PayloadForks
      <3>1. /\ ask.of = "capella" => Versions(ask) = <<2, 1>>
            /\ ask.of = "deneb" => Versions(ask) = <<3>>
            /\ ask.of \in {"electra", "daisugi", "fulu"} => Versions(ask) = <<4>>
            /\ ask.of = "gloas" => Versions(ask) = <<5>>
        BY <2>1 DEF Versions
      <3>2. /\ ask.of = "capella" => v \in {1, 2}
            /\ ask.of = "deneb" => v = 3
            /\ ask.of \in {"electra", "daisugi", "fulu"} => v = 4
            /\ ask.of = "gloas" => v = 5
        BY <1>1, <3>1
      <3> QED
        BY <2>1, <3>2 DEF Speaks, PayloadForks
    <2>2. CASE ask.kind = "getPayload" /\ ask.of \in PayloadForks
      <3>1. /\ ask.of = "capella" => Versions(ask) = <<2, 1>>
            /\ ask.of = "deneb" => Versions(ask) = <<3>>
            /\ ask.of \in {"electra", "daisugi"} => Versions(ask) = <<4>>
            /\ ask.of = "fulu" => Versions(ask) = <<5>>
            /\ ask.of = "gloas" => Versions(ask) = <<6>>
        BY <2>2 DEF Versions
      <3>2. /\ ask.of = "capella" => v \in {1, 2}
            /\ ask.of = "deneb" => v = 3
            /\ ask.of \in {"electra", "daisugi"} => v = 4
            /\ ask.of = "fulu" => v = 5
            /\ ask.of = "gloas" => v = 6
        BY <1>1, <3>1
      <3> QED
        BY <2>2, <3>2 DEF Speaks, PayloadForks
    <2>3. CASE ask.kind \notin {"newPayload", "getPayload"}
      BY <2>3 DEF Speaks
    <2> QED
      BY <2>1, <2>2, <2>3, <1>1, AskKinds
  <1>5. answer = "unsupportedFork" => ~Speaks(ask, v)
    <2>1. ask.kind = "getPayload" => Decoded(ask.of, v) # "unsupportedFork"
      BY <1>1, AskKinds DEF Decoded, PayloadForks
    <2> QED
      BY <2>1 DEF Answered, ask, v
  <1>6. ask.kind = "newPayload" /\ ask.of = "capella" => ask = [kind |-> "newPayload", of |-> "capella"]
    BY <1>1, AsksAssumption
  <1>7. ask.kind = "getPayload" => \/ answer \in {"notFound", "unsupportedFork", ask.of}
                                   \/ v = 1
    BY DEF Answered, Decoded, ask, v
  <1>8. ask.kind = "getPayload" /\ v = 1 => ask.of = "capella"
    <2> SUFFICES ASSUME ask.kind = "getPayload", v = 1, ask.of # "capella" PROVE FALSE
      OBVIOUS
    <2>0. ask.of \in PayloadForks
      BY <1>1, AskKinds
    <2>1. Versions(ask) \in {<<3>>, <<4>>, <<5>>, <<6>>}
      BY <2>0 DEF Versions, PayloadForks
    <2> QED
      BY <1>1, <2>1
  <1> QED
    BY <1>3, <1>4, <1>5, <1>6, <1>7, <1>8 DEF ask, v

(* A fork the engine is ready for has a version among those listed. *)
LEMMA ReadyListed ==
  ASSUME NEW ask \in Asks, ask.kind \in {"newPayload", "getPayload"}, NEW methods,
         Required(ask.of) \subseteq methods
  PROVE  Candidates(ask, methods) # <<>>
  <1>1. ask.of \in PayloadForks
    BY AskKinds
  <1>2. \E i \in DOMAIN Versions(ask) : Method(ask, Versions(ask)[i]) \in Required(ask.of)
    <2>1. CASE ask.kind = "newPayload"
      <3>1. /\ ask.of = "capella" => Versions(ask) = <<2, 1>> /\ <<"newPayload", 2>> \in Required(ask.of)
            /\ ask.of = "deneb" => Versions(ask) = <<3>> /\ <<"newPayload", 3>> \in Required(ask.of)
            /\ ask.of \in {"electra", "daisugi", "fulu"} =>
                 Versions(ask) = <<4>> /\ <<"newPayload", 4>> \in Required(ask.of)
            /\ ask.of = "gloas" => Versions(ask) = <<5>> /\ <<"newPayload", 5>> \in Required(ask.of)
        BY <2>1 DEF Versions, Required
      <3>2. ASSUME NEW u \in Nat, NEW t \in {<<u>>, <<u, 1>>}
            PROVE  1 \in DOMAIN t /\ t[1] = u
        OBVIOUS
      <3>3. 1 \in DOMAIN Versions(ask) /\ <<"newPayload", Versions(ask)[1]>> \in Required(ask.of)
        BY <1>1, <3>1, <3>2 DEF PayloadForks
      <3> QED
        BY <2>1, <3>3 DEF Method
    <2>2. CASE ask.kind = "getPayload"
      <3>1. /\ ask.of = "capella" => Versions(ask) = <<2, 1>> /\ <<"getPayload", 2>> \in Required(ask.of)
            /\ ask.of = "deneb" => Versions(ask) = <<3>> /\ <<"getPayload", 3>> \in Required(ask.of)
            /\ ask.of \in {"electra", "daisugi"} =>
                 Versions(ask) = <<4>> /\ <<"getPayload", 4>> \in Required(ask.of)
            /\ ask.of = "fulu" => Versions(ask) = <<5>> /\ <<"getPayload", 5>> \in Required(ask.of)
            /\ ask.of = "gloas" => Versions(ask) = <<6>> /\ <<"getPayload", 6>> \in Required(ask.of)
        BY <2>2 DEF Versions, Required
      <3>2. ASSUME NEW u \in Nat, NEW t \in {<<u>>, <<u, 1>>}
            PROVE  1 \in DOMAIN t /\ t[1] = u
        OBVIOUS
      <3>3. 1 \in DOMAIN Versions(ask) /\ <<"getPayload", Versions(ask)[1]>> \in Required(ask.of)
        BY <1>1, <3>1, <3>2 DEF PayloadForks
      <3> QED
        BY <2>2, <3>3 DEF Method
    <2> QED
      BY <2>1, <2>2
  <1> QED
    BY <1>2, CandidatesListed

(* Only the choice of a version tells a caller that it is not supported. *)
LEMMA ReadyStep ==
  ASSUME MethodInv, [MethodNext]_methodVars
  PROVE  ReadyServesStep
  <1> SUFFICES ASSUME NEW c \in Asker, request[c].at = "choose", request'[c].answer = "unsupported",
                      request[c].ask.kind \in {"newPayload", "getPayload"},
                      Required(request[c].ask.of) \subseteq request[c].used.methods
               PROVE  FALSE
    BY DEF ReadyServesStep
  <1>1. request[c].answer = "none" /\ request[c].ask \in Asks
    BY DEF MethodInv, CallFits
  <1>2. Candidates(request[c].ask, request[c].used.methods) # <<>>
    BY <1>1, ReadyListed
  <1>3. ASSUME NEW d \in Asker,
               Ask(d) \/ ReplyExchange(d) \/ Reply(d) \/ ReplyVersion(d) \/ Ends(d),
               d # c
        PROVE  FALSE
    BY <1>1, <1>3 DEF MethodInv, MethodTypes, Ask, ReplyExchange, Reply, ReplyVersion, Ends, FindCached,
       StartExchange, StoreExchange, LoseExchange, Choose, FindVersion, TimeOut, GiveBack, Finished, Goes
  <1>4. CASE Choose(c)
    <2>1. request'[c].answer = request[c].answer
      BY <1>2, <1>4 DEF Choose, Goes, MethodInv, MethodTypes, Calling
    <2> QED
      BY <1>1, <2>1
  <1>5. CASE Ask(c) \/ ReplyExchange(c) \/ Reply(c) \/ ReplyVersion(c) \/ FindCached(c) \/ StartExchange(c)
             \/ StoreExchange(c) \/ LoseExchange(c) \/ FindVersion(c) \/ TimeOut(c) \/ GiveBack(c)
    BY <1>5 DEF Ask, ReplyExchange, Reply, ReplyVersion, FindCached, StartExchange, StoreExchange,
       LoseExchange, FindVersion, TimeOut, TimesOut, GiveBack
  <1>6. CASE ClearCapabilities \/ ClearVersion \/ Restart \/ UNCHANGED methodVars
    BY <1>1, <1>6 DEF ClearCapabilities, ClearVersion, Restart, methodVars
  <1> QED
    BY <1>3, <1>4, <1>5, <1>6 DEF MethodNext, Ends

LEMMA FitSteps ==
  ASSUME MethodInv, [MethodNext]_methodVars
  PROVE  RequestsFitStep /\ PayloadOfForkStep
  BY AnswerStep, AnswerFits DEF RequestsFitStep, PayloadOfForkStep

(* What the node believes of the engine stays true of it, for any number of
   calls, any engine that comes in any number of builds, and any restarts. *)
THEOREM CallsOfTheEngine == MethodSpec => MethodsSound
  <1>1. MethodInit => MethodInv
    BY MethodInitHolds
  <1>2. MethodInv /\ [MethodNext]_methodVars => MethodInv'
    BY MethodKeeps
  <1>3. MethodInv => \A c \in Asker : AfterClear(c)
    BY DEF MethodInv, CallFits, AfterClear
  <1>4. MethodInv /\ [MethodNext]_methodVars => RequestsFitStep /\ PayloadOfForkStep /\ ReadyServesStep
    BY FitSteps, ReadyStep
  <1> QED
    BY <1>1, <1>2, <1>3, <1>4, PTL
    DEF MethodSpec, MethodsSound, RequestsFit, PayloadOfFork, ReadyServes
-----------------------------------------------------------------------------
(* Streams of blocks. *)
Results == [kind : {"block", "none", "error", "payload"}, of : BlockRoot \cup {NoBody}]
Items == [root : BlockRoot, result : Results]

StreamTypes ==
  /\ streaming \in {"idle", "asking", "loading", "fetching", "sending", "fallback", "ended"}
  /\ asked \in Seq(BlockRoot) /\ roots \in Seq(BlockRoot) /\ loaded \in Seq(Items) /\ sent \in Seq(Items)
  /\ bodies \in Seq(BlockRoot \cup {NoBody}) /\ unanswered \in Seq(Nat)
  /\ fetched \in {"yes", "error"} /\ lost \in BOOLEAN /\ listening \in BOOLEAN
  /\ inCaches \in SUBSET BlockRoot

(* A result is its root's, and says "not found" of nothing the database has. *)
Honest(item) ==
  /\ item.result.kind = "block" => item.result.of = item.root
  /\ item.result = NoBlock => Stored[item.root] = "missing"
AllHonest(items) == \A i \in DOMAIN items : Honest(items[i])

(* What was fetched and what is still to be fetched are the bodies that lack. *)
BodiesCounted ==
  /\ streaming \in {"idle", "asking", "loading"} => bodies = <<>> /\ fetched = "yes"
  /\ streaming = "fetching" =>
       /\ Len(bodies) + Len(unanswered) = Cardinality(Lacking(loaded))
       /\ \A i \in DOMAIN unanswered : unanswered[i] \in DOMAIN loaded
  /\ streaming = "sending" /\ fetched = "yes" => Len(bodies) = Cardinality(Lacking(loaded))

(* Which of the rows are in use at each stage. *)
Rows ==
  /\ streaming \in {"idle", "asking"} => loaded = <<>> /\ sent = <<>>
  /\ streaming = "idle" => roots = <<>> /\ asked = <<>>
  /\ streaming = "loading" => sent = <<>>
  /\ streaming = "fallback" => loaded = <<>>
  /\ streaming \in {"fetching", "sending"} => roots = <<>>

StreamInv ==
  /\ StreamTypes /\ AllHonest(loaded) /\ AllHonest(sent) /\ BodiesCounted /\ Rows /\ RootsAccounted
-----------------------------------------------------------------------------
LEMMA ConcatMoves ==
  ASSUME NEW S, NEW a \in Seq(S), NEW b \in Seq(S), b # <<>>
  PROVE  Append(a, Head(b)) \o Tail(b) = a \o b
  <1>1. /\ Append(a, Head(b)) = a \o <<Head(b)>> /\ <<Head(b)>> \in Seq(S) /\ Tail(b) \in Seq(S)
    BY HeadTailProperties, AppendIsConcat
  <1>2. Append(a, Head(b)) \o Tail(b) = a \o (<<Head(b)>> \o Tail(b))
    BY <1>1, ConcatAssociative
  <1>3. <<Head(b)>> \o Tail(b) = b
    <2> DEFINE t == <<Head(b)>> \o Tail(b)
    <2>1. /\ Len(<<Head(b)>>) = 1 /\ <<Head(b)>>[1] = Head(b) /\ Len(b) \in Nat \ {0}
          /\ Len(Tail(b)) = Len(b) - 1 /\ Head(b) = b[1]
          /\ \A i \in 1..(Len(b) - 1) : Tail(b)[i] = b[i + 1]
      BY HeadTailProperties, LenProperties, EmptySeq
    <2>2. /\ t \in Seq(S) /\ Len(t) = 1 + Len(Tail(b))
          /\ \A i \in 1..(1 + Len(Tail(b))) :
               t[i] = IF i <= 1 THEN <<Head(b)>>[i] ELSE Tail(b)[i - 1]
      BY <1>1, <2>1, ConcatProperties
    <2> HIDE DEF t
    <2>3. ASSUME NEW i \in 1..Len(b) PROVE t[i] = b[i]
      <3>1. CASE i = 1
        BY <2>1, <2>2, <3>1
      <3>2. CASE i # 1
        <4>1. i - 1 \in 1..(Len(b) - 1) /\ ~(i <= 1)
          BY <2>1, <3>2
        <4> QED
          BY <2>1, <2>2, <4>1
      <3> QED
        BY <3>1, <3>2
    <2>4. t = b
      BY <2>1, <2>2, <2>3, SeqEqual
    <2> QED
      BY <2>4 DEF t
  <1> QED
    BY <1>2, <1>3

LEMMA RootsListed ==
  ASSUME NEW items \in Seq(Items)
  PROVE  /\ RootsOf(items) \in Seq(BlockRoot) /\ Len(RootsOf(items)) = Len(items) /\ Len(items) \in Nat
         /\ \A i \in 1..Len(items) : RootsOf(items)[i] = items[i].root
  <1>1. Len(items) \in Nat /\ DOMAIN items = 1..Len(items) /\ \A i \in 1..Len(items) : items[i] \in Items
    BY LenProperties, ElementOfSeq
  <1>2. RootsOf(items) = [i \in 1..Len(items) |-> items[i].root]
    BY <1>1 DEF RootsOf
  <1>3. \A i \in 1..Len(items) : items[i].root \in BlockRoot
    BY <1>1 DEF Items
  <1>4. RootsOf(items) \in [1..Len(items) -> BlockRoot]
    BY <1>2, <1>3
  <1> QED
    BY <1>1, <1>2, <1>4, IsASeq, LenProperties

LEMMA RowOfRoots ==
  ASSUME NEW items \in Seq(Items)
  PROVE  /\ RootsOf(items) \in Seq(BlockRoot)
         /\ items = <<>> => RootsOf(items) = <<>>
         /\ \A x \in Items : RootsOf(Append(items, x)) = Append(RootsOf(items), x.root)
         /\ items # <<>> => /\ RootsOf(items) # <<>> /\ Head(RootsOf(items)) = Head(items).root
                            /\ RootsOf(Tail(items)) = Tail(RootsOf(items))
  <1>1. /\ RootsOf(items) \in Seq(BlockRoot) /\ Len(RootsOf(items)) = Len(items) /\ Len(items) \in Nat
        /\ \A i \in 1..Len(items) : RootsOf(items)[i] = items[i].root
    BY RootsListed
  <1>2. ASSUME NEW x \in Items
        PROVE  RootsOf(Append(items, x)) = Append(RootsOf(items), x.root)
    <2> DEFINE longer == Append(items, x)
               s == RootsOf(longer)
               t == Append(RootsOf(items), x.root)
    <2>1. /\ longer \in Seq(Items) /\ Len(longer) = Len(items) + 1
          /\ \A i \in 1..Len(items) : longer[i] = items[i]
          /\ longer[Len(items) + 1] = x /\ x.root \in BlockRoot
      BY <1>1, AppendProperties DEF Items
    <2>2. /\ t \in Seq(BlockRoot) /\ Len(t) = Len(items) + 1
          /\ \A i \in 1..Len(items) : t[i] = items[i].root
          /\ t[Len(items) + 1] = x.root
      BY <1>1, <2>1, AppendProperties
    <2> HIDE DEF longer
    <2>3. /\ s \in Seq(BlockRoot) /\ Len(s) = Len(items) + 1
          /\ \A i \in 1..(Len(items) + 1) : s[i] = longer[i].root
      BY <2>1, RootsListed
    <2> HIDE DEF s, t
    <2>4. \A i \in 1..Len(s) : s[i] = t[i]
      <3> SUFFICES ASSUME NEW i \in 1..Len(s) PROVE s[i] = t[i]
        OBVIOUS
      <3>1. i \in 1..Len(items) \/ i = Len(items) + 1
        BY <1>1, <2>3
      <3> QED
        BY <1>1, <2>1, <2>2, <2>3, <3>1
    <2>5. s = t
      BY <2>2, <2>3, <2>4, SeqEqual
    <2> QED
      BY <2>5 DEF s, t, longer
  <1>3. ASSUME items # <<>>
        PROVE  /\ RootsOf(items) # <<>> /\ Head(RootsOf(items)) = Head(items).root
               /\ RootsOf(Tail(items)) = Tail(RootsOf(items))
    <2> DEFINE s == RootsOf(Tail(items))
               t == Tail(RootsOf(items))
    <2>1. /\ Len(items) \in Nat \ {0} /\ Tail(items) \in Seq(Items) /\ Len(Tail(items)) = Len(items) - 1
          /\ \A i \in 1..(Len(items) - 1) : Tail(items)[i] = items[i + 1]
          /\ Head(items) = items[1]
      BY <1>3, HeadTailProperties, EmptySeq, LenProperties
    <2>2. RootsOf(items) # <<>>
      BY <1>1, <2>1, EmptySeq
    <2>3. /\ Head(RootsOf(items)) = RootsOf(items)[1]
          /\ t \in Seq(BlockRoot) /\ Len(t) = Len(items) - 1
          /\ \A i \in 1..(Len(items) - 1) : t[i] = RootsOf(items)[i + 1]
      BY <1>1, <2>1, <2>2, HeadTailProperties
    <2>4. /\ s \in Seq(BlockRoot) /\ Len(s) = Len(items) - 1
          /\ \A i \in 1..(Len(items) - 1) : s[i] = Tail(items)[i].root
      BY <2>1, RootsListed
    <2> HIDE DEF s, t
    <2>5. \A i \in 1..(Len(items) - 1) : s[i] = t[i]
      BY <1>1, <2>1, <2>3, <2>4
    <2>6. s = t
      BY <2>3, <2>4, <2>5, SeqEqual
    <2>7. Head(RootsOf(items)) = Head(items).root
      BY <1>1, <2>1, <2>3
    <2> QED
      BY <2>2, <2>6, <2>7 DEF s, t
  <1>4. items = <<>> => RootsOf(items) = <<>>
    BY <1>1, EmptySeq
  <1> QED
    BY <1>1, <1>2, <1>3, <1>4

LEMMA LackingCounted ==
  ASSUME NEW items \in Seq(Items)
  PROVE  /\ IsFiniteSet(Lacking(items)) /\ Cardinality(Lacking(items)) \in Nat
         /\ items = <<>> => Cardinality(Lacking(items)) = 0
         /\ items # <<>> =>
              Cardinality(Lacking(items)) = Cardinality(Lacking(Tail(items)))
                + IF Head(items).result = NeedsPayload THEN 1 ELSE 0
  <1>0. ASSUME NEW s \in Seq(Items) PROVE IsFiniteSet(Lacking(s))
    <2>0. Len(s) \in Nat /\ DOMAIN s = 1..Len(s)
      BY LenProperties
    <2>1. IsFiniteSet(1..Len(s)) /\ Lacking(s) \subseteq 1..Len(s)
      BY <2>0, FS_Interval DEF Lacking
    <2> QED
      BY <2>1, FS_Subset
  <1>1. IsFiniteSet(Lacking(items)) /\ Cardinality(Lacking(items)) \in Nat
    BY <1>0, FS_CardinalityType
  <1>2. CASE items = <<>>
    BY <1>1, <1>2, FS_EmptySet DEF Lacking
  <1>3. CASE items # <<>>
    <2> DEFINE rest == Lacking(Tail(items))
               later == Lacking(items) \ {1}
    <2>1. /\ Tail(items) \in Seq(Items) /\ Len(items) \in Nat \ {0} /\ Len(Tail(items)) = Len(items) - 1
          /\ \A i \in 1..(Len(items) - 1) : Tail(items)[i] = items[i + 1]
          /\ Head(items) = items[1]
      BY <1>3
    <2>2. \A i \in rest : i \in 1..(Len(items) - 1) /\ i + 1 \in later
      BY <2>1 DEF Lacking
    <2>3. \A j \in later : j - 1 \in rest
      BY <2>1 DEF Lacking
    <2>4. ExistsBijection(rest, later)
      <3> DEFINE f == [i \in rest |-> i + 1]
      <3>1. f \in [rest -> later]
        BY <2>2
      <3>2. \A i, j \in rest : f[i] = f[j] => i = j
        BY <2>2
      <3>3. \A j \in later : \E i \in rest : f[i] = j
        <4> SUFFICES ASSUME NEW j \in later PROVE \E i \in rest : f[i] = j
          OBVIOUS
        <4>1. j - 1 \in rest /\ j \in Nat
          BY <2>3 DEF Lacking
        <4> QED
          BY <4>1
      <3> QED
        <4>1. f \in Bijection(rest, later)
          BY <3>1, <3>2, <3>3 DEF Bijection, Injection, Surjection, IsInjective
        <4> QED
          BY <4>1 DEF ExistsBijection
    <2>5. IsFiniteSet(later) /\ Cardinality(later) = Cardinality(Lacking(items)) - IF 1 \in Lacking(items) THEN 1 ELSE 0
      BY <1>1, FS_RemoveElement
    <2>6. IsFiniteSet(rest)
      BY <2>1, <1>0
    <2>7. Cardinality(rest) = Cardinality(later) /\ Cardinality(rest) \in Nat
      BY <2>4, <2>6, FS_Bijection, FS_CardinalityType
    <2>8. 1 \in Lacking(items) <=> Head(items).result = NeedsPayload
      BY <2>1 DEF Lacking
    <2> QED
      BY <1>1, <1>3, <2>5, <2>7, <2>8
  <1> QED
    BY <1>1, <1>2, <1>3

LEMMA StreamInitHolds ==
  ASSUME StreamInit
  PROVE  StreamInv
  <1>1. <<>> \in Seq(BlockRoot) /\ <<>> \in Seq(Items) /\ <<>> \in Seq(BlockRoot \cup {NoBody}) /\ <<>> \in Seq(Nat)
    OBVIOUS
  <1>2. RootsOf(<<>>) = <<>>
    BY <1>1, RowOfRoots
  <1>3. RootsOf(<<>>) \o RootsOf(<<>>) \o <<>> = <<>>
    BY <1>1, <1>2, ConcatEmptySeq
  <1>4. StreamTypes
    BY <1>1 DEF StreamInit, StreamTypes
  <1>5. AllHonest(loaded) /\ AllHonest(sent) /\ BodiesCounted /\ Rows
    BY DEF StreamInit, AllHonest, BodiesCounted, Rows
  <1>6. RootsAccounted
    BY <1>3 DEF StreamInit, RootsAccounted
  <1> QED
    BY <1>4, <1>5, <1>6 DEF StreamInv

LEMMA ResultsTyped ==
  ASSUME inCaches \in SUBSET BlockRoot, NEW r \in BlockRoot
  PROVE  /\ BlockOf(r) \in Results /\ Load(r) \in Results /\ Error \in Results
         /\ Honest(Item(r, BlockOf(r))) /\ Honest(Item(r, Load(r))) /\ Honest(Item(r, Error))
         /\ Error # NeedsPayload
         /\ FallbackResult(r) \subseteq Results
         /\ \A result \in FallbackResult(r) : Honest(Item(r, result))
  <1>1. /\ BlockOf(r) \in Results /\ Error \in Results /\ NoBlock \in Results /\ NeedsPayload \in Results
        /\ Error # NeedsPayload /\ Error # NoBlock /\ BlockOf(r) # NoBlock /\ NeedsPayload # NoBlock
        /\ Error.kind # "block" /\ NeedsPayload.kind # "block" /\ NoBlock.kind # "block"
        /\ BlockOf(r).of = r
    BY DEF BlockOf, Error, NoBlock, NeedsPayload, Results
  <1>2. \/ Load(r) \in {BlockOf(r), Error, NeedsPayload}
        \/ Load(r) = NoBlock /\ Stored[r] = "missing"
    <2>1. Stored[r] \in {"missing", "full", "blinded", "empty", "broken"}
      BY StreamAssumption
    <2> QED
      BY <2>1 DEF Load
  <1>3. \A result : Item(r, result).root = r /\ Item(r, result).result = result
    BY DEF Item
  <1>4. \A result \in {BlockOf(r), Error, NeedsPayload} : Honest(Item(r, result))
    BY <1>1, <1>3 DEF Honest
  <1>5. Honest(Item(r, Load(r))) /\ Load(r) \in Results
    BY <1>1, <1>2, <1>3, <1>4 DEF Honest
  <1> QED
    BY <1>1, <1>4, <1>5 DEF FallbackResult

LEMMA Appended ==
  ASSUME NEW S, NEW s \in Seq(S), NEW x \in S
  PROVE  /\ Append(s, x) \in Seq(S)
         /\ \A i \in DOMAIN Append(s, x) : (i \in DOMAIN s /\ Append(s, x)[i] = s[i]) \/ Append(s, x)[i] = x
  BY AppendProperties, LenProperties

LEMMA Tailed ==
  ASSUME NEW S, NEW s \in Seq(S), s # <<>>
  PROVE  /\ Tail(s) \in Seq(S) /\ Head(s) \in S /\ 1 \in DOMAIN s /\ Head(s) = s[1]
         /\ \A i \in DOMAIN Tail(s) : i + 1 \in DOMAIN s /\ Tail(s)[i] = s[i + 1]
  BY HeadTailProperties, LenProperties, EmptySeq

LEMMA HonestTail ==
  ASSUME NEW items \in Seq(Items), AllHonest(items), items # <<>>
  PROVE  /\ Tail(items) \in Seq(Items) /\ AllHonest(Tail(items))
         /\ Head(items) \in Items /\ Honest(Head(items))
  BY Tailed DEF AllHonest

LEMMA HonestAppend ==
  ASSUME NEW items \in Seq(Items), AllHonest(items), NEW x \in Items, Honest(x)
  PROVE  Append(items, x) \in Seq(Items) /\ AllHonest(Append(items, x))
  BY Appended DEF AllHonest

LEMMA LaunchKeeps ==
  ASSUME StreamInv, LaunchStream
  PROVE  StreamInv'
  <1>1. /\ asked' \in Seq(BlockRoot) /\ roots' = asked' /\ streaming' = "asking" /\ streaming = "idle"
        /\ loaded = <<>> /\ sent = <<>>
        /\ UNCHANGED <<loaded, bodies, unanswered, sent, fetched, lost, listening, inCaches>>
    BY StreamAssumption DEF LaunchStream, StreamInv, Rows
  <1>2. StreamTypes' /\ AllHonest(loaded)' /\ AllHonest(sent)' /\ BodiesCounted' /\ Rows'
    BY <1>1 DEF StreamInv, StreamTypes, AllHonest, BodiesCounted, Rows
  <1>3. RootsOf(<<>>) = <<>> /\ <<>> \o <<>> \o asked' = asked'
    BY <1>1, RowOfRoots, EmptySeq, ConcatEmptySeq
  <1>4. RootsAccounted'
    BY <1>1, <1>3 DEF RootsAccounted
  <1> QED
    BY <1>2, <1>4 DEF StreamInv

LEMMA CapabilitiesKeep ==
  ASSUME StreamInv, GetCapabilities
  PROVE  StreamInv'
  <1>1. /\ streaming = "asking" /\ loaded = <<>> /\ sent = <<>> /\ roots \in Seq(BlockRoot)
        /\ bodies = <<>> /\ fetched = "yes"
        /\ UNCHANGED <<asked, bodies, unanswered, sent, fetched, lost, listening, inCaches>>
    BY DEF GetCapabilities, StreamInv, StreamTypes, Rows, BodiesCounted
  <1>2. CASE streaming' \in {"loading", "fallback"} /\ UNCHANGED <<loaded, roots>>
    BY <1>1, <1>2 DEF StreamInv, StreamTypes, AllHonest, BodiesCounted, Rows, RootsAccounted
  <1>3. CASE /\ streaming' = "sending" /\ roots' = <<>>
             /\ loaded' = [i \in DOMAIN roots |-> Item(roots[i], Error)]
    <2>1. Len(roots) \in Nat /\ DOMAIN roots = 1..Len(roots) /\ \A i \in 1..Len(roots) : roots[i] \in BlockRoot
      BY <1>1, LenProperties, ElementOfSeq
    <2>2. \A i \in 1..Len(roots) : /\ Item(roots[i], Error) \in Items /\ Honest(Item(roots[i], Error))
                                   /\ Item(roots[i], Error).root = roots[i]
                                   /\ Item(roots[i], Error).result # NeedsPayload
      BY <2>1, ResultsTyped DEF StreamInv, StreamTypes, Item, Items
    <2>3. /\ loaded' \in [1..Len(roots) -> Items] /\ DOMAIN loaded' = 1..Len(roots)
          /\ \A i \in 1..Len(roots) : loaded'[i] = Item(roots[i], Error)
      BY <1>3, <2>1, <2>2
    <2>4. loaded' \in Seq(Items) /\ AllHonest(loaded)' /\ Lacking(loaded') = {}
      BY <2>1, <2>2, <2>3, IsASeq DEF AllHonest, Lacking
    <2>5. RootsOf(loaded') = roots
      <3>1. RootsOf(loaded') = [i \in 1..Len(roots) |-> roots[i]]
        BY <2>2, <2>3 DEF RootsOf
      <3> QED
        BY <1>1, <2>1, <3>1
    <2>6. RootsOf(<<>>) = <<>> /\ <<>> \in Seq(BlockRoot)
      BY RowOfRoots, EmptySeq
    <2>7. <<>> \o roots \o <<>> = <<>> \o <<>> \o roots
      BY <1>1, <2>6, ConcatEmptySeq
    <2>8. RootsAccounted'
      BY <1>1, <1>3, <2>5, <2>6, <2>7 DEF StreamInv, RootsAccounted
    <2>9. StreamTypes' /\ AllHonest(sent)' /\ Rows'
      BY <1>1, <1>3, <2>4, <2>6 DEF StreamInv, StreamTypes, AllHonest, Rows
    <2>10. BodiesCounted'
      BY <1>1, <1>3, <2>4, FS_EmptySet, EmptySeq DEF BodiesCounted
    <2> QED
      BY <2>4, <2>8, <2>9, <2>10 DEF StreamInv
  <1> QED
    BY <1>2, <1>3 DEF GetCapabilities

LEMMA LoadKeeps ==
  ASSUME StreamInv, LoadBlock
  PROVE  StreamInv'
  <1> DEFINE x == Item(Head(roots), Load(Head(roots)))
  <1>1. /\ streaming = "loading" /\ sent = <<>> /\ loaded' = Append(loaded, x) /\ roots' = Tail(roots)
        /\ UNCHANGED <<asked, streaming, bodies, unanswered, sent, fetched, lost, listening, inCaches>>
        /\ roots \in Seq(BlockRoot) /\ roots # <<>> /\ loaded \in Seq(Items)
    BY DEF LoadBlock, StreamInv, StreamTypes, Rows
  <1>2. /\ Head(roots) \in BlockRoot /\ Tail(roots) \in Seq(BlockRoot)
    BY <1>1, Tailed
  <1>3. x \in Items /\ Honest(x) /\ x.root = Head(roots)
    BY <1>2, ResultsTyped DEF StreamInv, StreamTypes, Item, Items
  <1> HIDE DEF x
  <1>4. loaded' \in Seq(Items) /\ AllHonest(loaded)'
    <2>1. Append(loaded, x) \in Seq(Items) /\ AllHonest(Append(loaded, x))
      BY <1>1, <1>3, HonestAppend DEF StreamInv
    <2> QED
      BY <1>1, <2>1 DEF AllHonest
  <1>5. StreamTypes' /\ AllHonest(sent)' /\ Rows' /\ BodiesCounted'
    BY <1>1, <1>2, <1>4 DEF StreamInv, StreamTypes, AllHonest, Rows, BodiesCounted
  <1>6. RootsOf(loaded') = Append(RootsOf(loaded), Head(roots)) /\ RootsOf(loaded) \in Seq(BlockRoot)
    BY <1>1, <1>3, RowOfRoots
  <1>7. Append(RootsOf(loaded), Head(roots)) \o Tail(roots) = RootsOf(loaded) \o roots
    BY <1>1, <1>6, ConcatMoves
  <1>8. RootsOf(sent) \in Seq(BlockRoot) /\ Append(RootsOf(loaded), Head(roots)) \in Seq(BlockRoot)
    BY <1>1, <1>2, <1>6, RowOfRoots, Appended DEF StreamInv, StreamTypes
  <1>9. (RootsOf(sent) \o RootsOf(loaded')) \o roots' = (RootsOf(sent) \o RootsOf(loaded)) \o roots
    <2> DEFINE a == RootsOf(sent)
                 b == RootsOf(loaded)
                 c == Append(b, Head(roots))
    <2>2. a \in Seq(BlockRoot) /\ b \in Seq(BlockRoot) /\ c \in Seq(BlockRoot) /\ roots \in Seq(BlockRoot) /\ Tail(roots) \in Seq(BlockRoot)
      BY <1>1, <1>2, <1>6, <1>8
    <2>3. RootsOf(loaded') = c /\ roots' = Tail(roots) /\ c \o Tail(roots) = b \o roots
      BY <1>1, <1>6, <1>7
    <2> HIDE DEF a, b, c
    <2>4. (a \o c) \o Tail(roots) = a \o (c \o Tail(roots))
      BY <2>2, ConcatAssociative
    <2>5. (a \o b) \o roots = a \o (b \o roots)
      BY <2>2, ConcatAssociative
    <2>6. (a \o RootsOf(loaded')) \o roots' = (a \o b) \o roots
      BY <2>3, <2>4, <2>5
    <2> QED
      BY <2>6 DEF a, b
  <1>10. RootsAccounted'
    BY <1>1, <1>9 DEF StreamInv, RootsAccounted
  <1> QED
    BY <1>4, <1>5, <1>10 DEF StreamInv

LEMMA LoadedKeeps ==
  ASSUME StreamInv, Loaded
  PROVE  StreamInv'
  <1> DEFINE n == Len(loaded)
             t == [i \in DOMAIN loaded |-> i]
  <1>1. /\ streaming = "loading" /\ roots = <<>> /\ streaming' = "fetching"
        /\ unanswered' = PartAt(t, Lacking(loaded))
        /\ UNCHANGED <<asked, roots, loaded, bodies, sent, fetched, lost, listening, inCaches>>
        /\ loaded \in Seq(Items) /\ bodies = <<>> /\ fetched = "yes"
    BY DEF Loaded, StreamInv, StreamTypes, BodiesCounted
  <1>2. n \in Nat /\ DOMAIN loaded = 1..n
    BY <1>1, LenProperties
  <1>3. t \in Seq(1..n) /\ DOMAIN t = 1..n /\ Lacking(loaded) \in SUBSET DOMAIN t
    BY <1>2, IsASeq DEF Lacking
  <1> HIDE DEF t, n
  <1>4. unanswered' \in Seq(1..n) /\ Len(unanswered') = Cardinality(Lacking(loaded))
    BY <1>1, <1>3, PartOfSequence
  <1>5. unanswered' \in Seq(Nat) /\ \A i \in DOMAIN unanswered' : unanswered'[i] \in DOMAIN loaded
    <2>1. 1..n \subseteq Nat
      BY <1>2
    <2> QED
      BY <1>2, <1>4, <2>1, SeqMonotonic, ElementOfSeq, LenProperties
  <1>6. Cardinality(Lacking(loaded)) \in Nat /\ Len(bodies) = 0
    BY <1>1, LackingCounted, EmptySeq
  <1>7. BodiesCounted'
    BY <1>1, <1>4, <1>5, <1>6 DEF BodiesCounted
  <1>8. StreamTypes' /\ AllHonest(loaded)' /\ AllHonest(sent)' /\ Rows' /\ RootsAccounted'
    BY <1>1, <1>5 DEF StreamInv, StreamTypes, AllHonest, Rows, RootsAccounted
  <1> QED
    BY <1>7, <1>8 DEF StreamInv

LEMMA ChunkTaken ==
  ASSUME unanswered \in Seq(Nat), unanswered # <<>>
  PROVE  /\ Len(unanswered) \in Nat /\ Len(ThisChunk) \in 1..Len(unanswered)
         /\ DOMAIN unanswered = 1..Len(unanswered)
         /\ \A i \in 1..Len(ThisChunk) : ThisChunk[i] = unanswered[i]
  <1> DEFINE u == Len(unanswered)
  <1>1. u \in Nat \ {0} /\ DOMAIN unanswered = 1..u /\ \A i \in 1..u : unanswered[i] \in Nat
    BY LenProperties, EmptySeq, ElementOfSeq
  <1>2. Chunk \in Nat \ {0}
    BY StreamAssumption
  <1> HIDE DEF u
  <1>3. PICK e \in 1..u : e = IF u < Chunk THEN u ELSE Chunk
    BY <1>1, <1>2
  <1>4. ThisChunk = SubSeq(unanswered, 1, e)
    BY <1>3 DEF ThisChunk, u
  <1>5. e \in Int /\ 1 \in Int /\ \A i \in 1..e : unanswered[i] \in Nat
    BY <1>1, <1>3
  <1>6. Len(SubSeq(unanswered, 1, e)) = e
    BY <1>3, <1>5, SubSeqProperties
  <1>7. \A i \in 1..e : SubSeq(unanswered, 1, e)[i] = unanswered[i]
    BY <1>3, <1>5, SubSeqProperties
  <1> QED
    BY <1>1, <1>3, <1>4, <1>6, <1>7 DEF u

LEMMA RestOfChunks ==
  ASSUME NEW s \in Seq(Nat), NEW m \in 1..Len(s)
  PROVE  /\ SubSeq(s, m + 1, Len(s)) \in Seq(Nat) /\ Len(SubSeq(s, m + 1, Len(s))) = Len(s) - m
         /\ \A i \in 1..(Len(s) - m) : SubSeq(s, m + 1, Len(s))[i] = s[m + i]
  <1> DEFINE u == Len(s)
             t == SubSeq(s, m + 1, u)
  <1>1. u \in Nat /\ \A i \in 1..u : s[i] \in Nat
    BY LenProperties, ElementOfSeq
  <1>2. m + 1 \in Int /\ u \in Int /\ \A i \in (m + 1)..u : s[i] \in Nat
    BY <1>1
  <1>3. t \in Seq(Nat)
    BY <1>2, SubSeqProperties
  <1>4. Len(t) = IF m + 1 <= u THEN u - (m + 1) + 1 ELSE 0
    BY <1>2, SubSeqProperties
  <1>5. \A i \in 1..(u - (m + 1) + 1) : t[i] = s[m + 1 + i - 1]
    BY <1>2, SubSeqProperties
  <1> HIDE DEF t
  <1>6. Len(t) = u - m
    BY <1>1, <1>4
  <1>7. \A i \in 1..(u - m) : t[i] = s[m + i]
    <2> SUFFICES ASSUME NEW i \in 1..(u - m) PROVE t[i] = s[m + i]
      OBVIOUS
    <2>1. i \in 1..(u - (m + 1) + 1) /\ m + 1 + i - 1 = m + i
      BY <1>1
    <2> QED
      BY <1>5, <2>1
  <1> QED
    BY <1>3, <1>6, <1>7 DEF t

LEMMA FetchKeeps ==
  ASSUME StreamInv, FetchChunk
  PROVE  StreamInv'
  <1>1. /\ streaming = "fetching" /\ unanswered # <<>> /\ loaded \in Seq(Items) /\ roots = <<>>
        /\ bodies \in Seq(BlockRoot \cup {NoBody}) /\ unanswered \in Seq(Nat)
        /\ UNCHANGED <<asked, roots, loaded, sent, lost, listening, inCaches>>
        /\ Len(bodies) + Len(unanswered) = Cardinality(Lacking(loaded))
        /\ \A i \in DOMAIN unanswered : unanswered[i] \in DOMAIN loaded
    BY DEF FetchChunk, StreamInv, StreamTypes, Rows, BodiesCounted
  <1>2. CASE fetched' = "error" /\ streaming' = "sending" /\ UNCHANGED <<bodies, unanswered>>
    BY <1>1, <1>2 DEF StreamInv, StreamTypes, AllHonest, BodiesCounted, Rows, RootsAccounted
  <1>3. ASSUME NEW k \in 0..(Len(ThisChunk) + 1), NEW odd, NEW body \in BlockRoot \cup {NoBody}, NEW answer,
               answer = [i \in 1..k |-> IF i = odd \/ i > Len(ThisChunk) THEN body
                                        ELSE loaded[ThisChunk[i]].root],
               RightLength(answer),
               bodies' = bodies \o answer,
               unanswered' = SubSeq(unanswered, Len(ThisChunk) + 1, Len(unanswered)),
               UNCHANGED <<fetched, streaming>>
        PROVE  StreamInv'
    <2> DEFINE m == Len(ThisChunk)
               u == Len(unanswered)
    <2>1. /\ u \in Nat /\ m \in 1..u /\ DOMAIN unanswered = 1..u
          /\ \A i \in 1..m : ThisChunk[i] = unanswered[i]
      BY <1>1, ChunkTaken
    <2> HIDE DEF m, u
    <2>2. \A i \in 1..m : loaded[ThisChunk[i]].root \in BlockRoot
      <3> SUFFICES ASSUME NEW i \in 1..m PROVE loaded[ThisChunk[i]].root \in BlockRoot
        OBVIOUS
      <3>1. i \in DOMAIN unanswered /\ ThisChunk[i] \in DOMAIN loaded
        BY <1>1, <2>1
      <3>2. loaded[ThisChunk[i]] \in Items
        BY <1>1, <3>1, ElementOfSeq, LenProperties
      <3> QED
        BY <3>2 DEF Items
    <2>3. k \in Nat /\ \A i \in 1..k : ~(i > m) => i \in 1..m
      BY <2>1 DEF m
    <2>4. answer \in [1..k -> BlockRoot \cup {NoBody}]
      <3>1. answer = [i \in 1..k |-> IF i = odd \/ i > m THEN body ELSE loaded[ThisChunk[i]].root]
        BY <1>3 DEF m
      <3> QED
        BY <2>2, <2>3, <3>1
    <2>5. answer \in Seq(BlockRoot \cup {NoBody}) /\ Len(answer) = m
      <3>1. answer \in Seq(BlockRoot \cup {NoBody})
        BY <2>3, <2>4, IsASeq
      <3> QED
        BY <1>3, <3>1 DEF RightLength, m
    <2>6. bodies' \in Seq(BlockRoot \cup {NoBody}) /\ Len(bodies') = Len(bodies) + m /\ Len(bodies) \in Nat
      <3>1. Len(bodies) \in Nat
        BY <1>1, LenProperties
      <3>2. bodies \o answer \in Seq(BlockRoot \cup {NoBody}) /\ Len(bodies \o answer) = Len(bodies) + Len(answer)
        BY <1>1, <2>5, ConcatProperties
      <3> QED
        BY <1>3, <2>5, <3>1, <3>2
    <2>7. /\ unanswered' \in Seq(Nat) /\ Len(unanswered') = u - m
          /\ \A i \in 1..(u - m) : unanswered'[i] = unanswered[m + i]
      <3>1. unanswered' = SubSeq(unanswered, m + 1, u)
        BY <1>3 DEF m, u
      <3> QED
        BY <1>1, <2>1, <3>1, RestOfChunks DEF u
    <2>8. \A i \in DOMAIN unanswered' : unanswered'[i] \in DOMAIN loaded
      <3>1. DOMAIN unanswered' = 1..(u - m)
        BY <2>7, LenProperties
      <3> SUFFICES ASSUME NEW i \in 1..(u - m) PROVE unanswered'[i] \in DOMAIN loaded
        BY <3>1
      <3>2. m + i \in DOMAIN unanswered
        BY <2>1
      <3> QED
        BY <1>1, <2>7, <3>2
    <2>9. Len(bodies') + Len(unanswered') = Cardinality(Lacking(loaded))
      BY <1>1, <2>1, <2>6, <2>7 DEF u
    <2>10. BodiesCounted'
      BY <1>1, <1>3, <2>8, <2>9 DEF BodiesCounted
    <2>11. StreamTypes' /\ AllHonest(loaded)' /\ AllHonest(sent)' /\ Rows' /\ RootsAccounted'
      BY <1>1, <1>3, <2>6, <2>7 DEF StreamInv, StreamTypes, AllHonest, Rows, RootsAccounted
    <2> QED
      BY <2>10, <2>11 DEF StreamInv
  <1> QED
    BY <1>2, <1>3 DEF FetchChunk

LEMMA SendLoadedKeeps ==
  ASSUME StreamInv, SendLoaded
  PROVE  StreamInv'
  <1> DEFINE item == Head(loaded)
             needs == item.result = NeedsPayload
             body == IF bodies = <<>> THEN NoBody ELSE Head(bodies)
             x == IF ~needs THEN item
                  ELSE Item(item.root, IF fetched = "error" THEN SharedError ELSE Reconstruct(item.root, body))
  <1>1. /\ streaming = "sending" /\ loaded # <<>> /\ Send(x) /\ loaded' = Tail(loaded) /\ roots = <<>>
        /\ bodies' = IF needs /\ bodies # <<>> THEN Tail(bodies) ELSE bodies
        /\ UNCHANGED <<asked, roots, unanswered, fetched, lost, listening, inCaches>>
        /\ loaded \in Seq(Items) /\ bodies \in Seq(BlockRoot \cup {NoBody}) /\ sent \in Seq(Items)
    BY DEF SendLoaded, StreamInv, StreamTypes, Rows
  <1>2. Tail(loaded) \in Seq(Items) /\ AllHonest(Tail(loaded)) /\ item \in Items /\ Honest(item)
    BY <1>1, HonestTail DEF StreamInv
  <1>3. x \in Items /\ Honest(x) /\ x.root = item.root
    <2>1. item.root \in BlockRoot
      BY <1>2 DEF Items
    <2>2. /\ Item(item.root, SharedError) \in Items /\ Honest(Item(item.root, SharedError))
          /\ Item(item.root, SharedError).root = item.root
          /\ Item(item.root, BlockOf(item.root)) \in Items /\ Honest(Item(item.root, BlockOf(item.root)))
          /\ Item(item.root, BlockOf(item.root)).root = item.root
      BY <2>1, ResultsTyped DEF StreamInv, StreamTypes, SharedError, Item, Items
    <2>3. Reconstruct(item.root, body) \in {BlockOf(item.root), SharedError}
      BY DEF Reconstruct, SharedError
    <2> QED
      BY <1>2, <2>2, <2>3
  <1>4. bodies' \in Seq(BlockRoot \cup {NoBody})
    BY <1>1, Tailed
  <1> HIDE DEF x
  <1>5. /\ sent' \in Seq(Items) /\ AllHonest(sent') /\ streaming' \in {"sending", "ended"}
        /\ listening => sent' = Append(sent, x) /\ streaming' = "sending"
    BY <1>1, <1>3, HonestAppend DEF Send, StreamInv
  <1>6. StreamTypes' /\ AllHonest(loaded)' /\ AllHonest(sent)' /\ Rows'
    BY <1>1, <1>2, <1>4, <1>5 DEF StreamInv, StreamTypes, AllHonest, Rows
  <1>7. BodiesCounted'
    <2> SUFFICES ASSUME streaming' = "sending", fetched = "yes"
                 PROVE  Len(bodies') = Cardinality(Lacking(Tail(loaded)))
      BY <1>1, <1>5 DEF BodiesCounted
    <2>1. /\ Len(bodies) = Cardinality(Lacking(loaded))
          /\ Cardinality(Lacking(loaded)) = Cardinality(Lacking(Tail(loaded))) + IF needs THEN 1 ELSE 0
          /\ Cardinality(Lacking(Tail(loaded))) \in Nat
      BY <1>1, <1>2, LackingCounted DEF StreamInv, BodiesCounted
    <2>2. CASE needs
      <3>1. bodies # <<>>
        BY <1>1, <2>1, <2>2, EmptySeq
      <3>2. Len(Tail(bodies)) = Len(bodies) - 1
        BY <1>1, <3>1, HeadTailProperties
      <3> QED
        BY <1>1, <2>1, <2>2, <3>1, <3>2
    <2>3. CASE ~needs
      BY <1>1, <2>1, <2>3
    <2> QED
      BY <2>2, <2>3
  <1>8. RootsAccounted'
    <2> SUFFICES ASSUME listening, ~lost
                 PROVE  /\ RootsOf(Append(sent, x)) \o RootsOf(Tail(loaded)) \o roots = asked
                        /\ streaming' = "sending"
      BY <1>1, <1>5 DEF RootsAccounted
    <2>1. /\ RootsOf(Append(sent, x)) = Append(RootsOf(sent), x.root)
          /\ RootsOf(loaded) # <<>> /\ Head(RootsOf(loaded)) = item.root
          /\ RootsOf(Tail(loaded)) = Tail(RootsOf(loaded))
          /\ RootsOf(sent) \in Seq(BlockRoot) /\ RootsOf(loaded) \in Seq(BlockRoot)
      BY <1>1, <1>3, RowOfRoots
    <2>2. RootsOf(Append(sent, x)) \o RootsOf(Tail(loaded)) = RootsOf(sent) \o RootsOf(loaded)
      <3> DEFINE a == RootsOf(sent)
                 b == RootsOf(loaded)
      <3>1. RootsOf(Append(sent, x)) = Append(a, Head(b)) /\ RootsOf(Tail(loaded)) = Tail(b)
        BY <1>3, <2>1
      <3>2. a \in Seq(BlockRoot) /\ b \in Seq(BlockRoot) /\ b # <<>>
        BY <2>1
      <3> HIDE DEF a, b
      <3>3. Append(a, Head(b)) \o Tail(b) = a \o b
        BY <3>2, ConcatMoves
      <3> QED
        BY <3>1, <3>3 DEF a, b
    <2> QED
      BY <1>5, <2>2 DEF StreamInv, RootsAccounted
  <1> QED
    BY <1>6, <1>7, <1>8 DEF StreamInv

LEMMA SendFallbackKeeps ==
  ASSUME StreamInv, SendFallback
  PROVE  StreamInv'
  <1>1. PICK result \in FallbackResult(Head(roots)) : Send(Item(Head(roots), result))
    BY DEF SendFallback
  <1> DEFINE x == Item(Head(roots), result)
  <1>2. /\ streaming = "fallback" /\ roots # <<>> /\ roots' = Tail(roots) /\ loaded = <<>>
        /\ UNCHANGED <<asked, loaded, bodies, unanswered, fetched, lost, listening, inCaches>>
        /\ roots \in Seq(BlockRoot) /\ sent \in Seq(Items)
    BY DEF SendFallback, StreamInv, StreamTypes, Rows
  <1>3. Head(roots) \in BlockRoot /\ Tail(roots) \in Seq(BlockRoot)
    BY <1>2, Tailed
  <1>4. x \in Items /\ Honest(x) /\ x.root = Head(roots)
    BY <1>1, <1>3, ResultsTyped DEF StreamInv, StreamTypes, Item, Items
  <1>5. Send(x)
    BY <1>1
  <1> HIDE DEF x
  <1>6. /\ sent' \in Seq(Items) /\ AllHonest(sent') /\ streaming' \in {"fallback", "ended"}
        /\ listening => sent' = Append(sent, x) /\ streaming' = "fallback"
    BY <1>2, <1>4, <1>5, HonestAppend DEF Send, StreamInv
  <1>7. StreamTypes' /\ AllHonest(loaded)' /\ AllHonest(sent)' /\ Rows' /\ BodiesCounted'
    BY <1>2, <1>3, <1>6 DEF StreamInv, StreamTypes, AllHonest, Rows, BodiesCounted
  <1>8. RootsAccounted'
    <2> SUFFICES ASSUME listening, ~lost
                 PROVE  /\ RootsOf(Append(sent, x)) \o RootsOf(loaded) \o Tail(roots) = asked
                        /\ streaming' = "fallback"
      BY <1>2, <1>6 DEF RootsAccounted
    <2>1. /\ RootsOf(Append(sent, x)) = Append(RootsOf(sent), Head(roots))
          /\ RootsOf(loaded) = <<>> /\ RootsOf(sent) \in Seq(BlockRoot)
      <3>1. RootsOf(Append(sent, x)) = Append(RootsOf(sent), x.root) /\ RootsOf(sent) \in Seq(BlockRoot)
        BY <1>2, <1>4, RowOfRoots
      <3>2. <<>> \in Seq(Items)
        BY EmptySeq
      <3>3. RootsOf(loaded) = <<>>
        BY <1>2, <3>2, RowOfRoots
      <3> QED
        BY <1>4, <3>1, <3>3
    <2>2. Append(RootsOf(sent), Head(roots)) \in Seq(BlockRoot)
      BY <1>3, <2>1, Appended
    <2>3. /\ RootsOf(Append(sent, x)) \o RootsOf(loaded) = Append(RootsOf(sent), Head(roots))
          /\ RootsOf(sent) \o RootsOf(loaded) = RootsOf(sent)
      BY <2>1, <2>2, ConcatEmptySeq
    <2>4. Append(RootsOf(sent), Head(roots)) \o Tail(roots) = RootsOf(sent) \o roots
      BY <1>2, <2>1, ConcatMoves
    <2>5. RootsOf(sent) \o RootsOf(loaded) \o roots = asked
      BY DEF StreamInv, RootsAccounted
    <2> QED
      BY <1>6, <2>3, <2>4, <2>5
  <1> QED
    BY <1>7, <1>8 DEF StreamInv

LEMMA OtherStreamSteps ==
  ASSUME StreamInv,
         CachesChange \/ LoadFails \/ FetchedAll \/ StreamEnds \/ ReceiverDropped \/ UNCHANGED streamVars
  PROVE  StreamInv'
  <1> USE DEF StreamInv, StreamTypes, AllHonest, BodiesCounted, Rows, RootsAccounted
  <1>1. CASE CachesChange
    BY <1>1 DEF CachesChange
  <1>2. CASE LoadFails
    BY <1>2 DEF LoadFails
  <1>3. CASE FetchedAll
    <2>1. Len(bodies) \in Nat /\ Len(unanswered) = 0
      BY <1>3, EmptySeq, LenProperties DEF FetchedAll
    <2> QED
      BY <1>3, <2>1 DEF FetchedAll
  <1>4. CASE StreamEnds
    BY <1>4 DEF StreamEnds
  <1>5. CASE ReceiverDropped
    BY <1>5 DEF ReceiverDropped
  <1>6. CASE UNCHANGED streamVars
    BY <1>6 DEF streamVars
  <1> QED
    BY <1>1, <1>2, <1>3, <1>4, <1>5, <1>6

LEMMA StreamKeeps ==
  ASSUME StreamInv, [StreamNext]_streamVars
  PROVE  StreamInv'
  BY LaunchKeeps, CapabilitiesKeep, LoadKeeps, LoadedKeeps, FetchKeeps, SendLoadedKeeps,
     SendFallbackKeeps, OtherStreamSteps DEF StreamNext, StreamSteps

(* Every root a peer asked for gets one result, in order, and it is its own, for
   any blocks, any requests and chunks of any size, whatever the database holds
   and whatever the execution layer answers. *)
THEOREM StreamsAreSound == StreamSpec => []StreamSound
  <1>1. StreamInit => StreamInv
    BY StreamInitHolds
  <1>2. StreamInv /\ [StreamNext]_streamVars => StreamInv'
    BY StreamKeeps
  <1>3. StreamInv => StreamSound
    BY DEF StreamInv, AllHonest, Honest, BodiesCounted, StreamSound, ResultBelongs,
       MissingIsMissing, BodiesAligned
  <1> QED
    BY <1>1, <1>2, <1>3, PTL DEF StreamSpec
-----------------------------------------------------------------------------
(* Import of blocks. *)
Stages == {"idle", "signatures", "process", "execute", "import", "write"}
Works == [stage : Stages, kind : {"block", "segment", "data"}, rest : Seq(Block), imported : SUBSET Block]

ImportTypes ==
  /\ forkChoice \in SUBSET Block /\ finalized \in Block /\ disk \in SUBSET Block
  /\ persisted \in [blocks : SUBSET Block, finalized : Block]
  /\ corrupt \in BOOLEAN /\ writeLock \in Import \cup {Idle} /\ early \in Block \cup {Idle}
  /\ components \in [Block -> SUBSET {"block", "executed", "data"}]
  /\ importing \in [Import -> Works]

(* What fork choice holds is on disk but for the block being written, and so is
   what is persisted of it; neither has gaps. *)
Grounded ==
  /\ ForkChoiceOnDisk /\ EarlyKnown
  /\ ~corrupt => persisted.blocks \subseteq disk
  /\ Gapless(forkChoice) /\ Gapless(persisted.blocks)

(* A block that was executed was checked before. *)
ExecutedChecked == \A b \in Block : "executed" \in components[b] => b \notin Invalid

(* What is verified of the blocks of a task, by the kind of its work. *)
Verified(work) ==
  /\ work.stage = "idle" => work = NoWork
  /\ work.stage # "idle" => work.rest # <<>>
  /\ work.kind # "segment" => work = NoWork \/ Tail(work.rest) = <<>>
  /\ work.kind # "segment" /\ work.stage \in {"execute", "import", "write"} => work.rest[1] \notin Invalid
  /\ work.kind = "segment" /\ work.stage \in {"process", "execute", "import", "write"} =>
       SameEpoch(work.rest) \cap Invalid = {}

TasksFit ==
  \A t \in Import :
    /\ Verified(importing[t])
    /\ importing[t].stage = "write" <=> writeLock = t
    /\ importing[t].kind = "data" => "executed" \in components[importing[t].rest[1]]

ImportInv == ImportTypes /\ Grounded /\ WrittenChecked /\ ExecutedChecked /\ TasksFit
-----------------------------------------------------------------------------
LEMMA FirstOfEpoch ==
  ASSUME NEW rest \in Seq(Block), rest # <<>>
  PROVE  rest[1] \in SameEpoch(rest) /\ rest[1] \in Block
  <1>1. 1 \in DOMAIN rest /\ DOMAIN rest = 1..Len(rest) /\ rest[1] \in Block
    BY EmptySeq, LenProperties, ElementOfSeq
  <1>2. EpochOf[rest[1]] \in Nat
    BY <1>1, ImportAssumption
  <1>3. \A k \in 1..1 : EpochOf[rest[k]] <= EpochOf[rest[1]]
    BY <1>2
  <1> QED
    BY <1>1, <1>3 DEF SameEpoch

(* While no later epoch begins, the blocks checked together stay checked. *)
LEMMA SameEpochTail ==
  ASSUME NEW rest \in Seq(Block), rest # <<>>, Tail(rest) # <<>>,
         ~(EpochOf[Tail(rest)[1]] > EpochOf[rest[1]])
  PROVE  SameEpoch(Tail(rest)) \subseteq SameEpoch(rest)
  <1> DEFINE n == Len(rest)
             t == Tail(rest)
  <1>1. /\ n \in Nat \ {0} /\ DOMAIN rest = 1..n /\ DOMAIN t = 1..(n - 1)
        /\ \A i \in 1..(n - 1) : t[i] = rest[i + 1]
        /\ \A i \in 1..n : rest[i] \in Block
    BY HeadTailProperties, LenProperties, EmptySeq, ElementOfSeq
  <1>2. \A b \in Block : EpochOf[b] \in Nat
    BY ImportAssumption
  <1>3. 1 \in 1..(n - 1) /\ n - 1 >= 1
    <2>1. t \in Seq(Block) /\ t # <<>>
      BY HeadTailProperties
    <2>2. 1 \in DOMAIN t
      BY <2>1, EmptySeq, LenProperties
    <2> QED
      BY <1>1, <2>2
  <1>4. ~(EpochOf[t[1]] > EpochOf[rest[1]])
    OBVIOUS
  <1> HIDE DEF n, t
  <1>5. EpochOf[t[1]] <= EpochOf[rest[1]] /\ EpochOf[t[1]] \in Nat /\ EpochOf[rest[1]] \in Nat
    BY <1>1, <1>2, <1>3, <1>4
  <1> SUFFICES ASSUME NEW i \in 1..(n - 1), \A k \in 1..i : EpochOf[t[k]] <= EpochOf[t[1]]
               PROVE  t[i] \in SameEpoch(rest)
    BY <1>1 DEF SameEpoch, t
  <1>6. \A k \in 1..(i + 1) : EpochOf[rest[k]] <= EpochOf[rest[1]]
    <2> SUFFICES ASSUME NEW k \in 1..(i + 1) PROVE EpochOf[rest[k]] <= EpochOf[rest[1]]
      OBVIOUS
    <2>1. CASE k = 1
      BY <1>5, <2>1
    <2>2. CASE k # 1
      <3>1. k - 1 \in 1..i /\ k - 1 \in 1..(n - 1) /\ k - 1 + 1 = k
        BY <1>1, <2>2
      <3>2. t[k - 1] = rest[k] /\ EpochOf[t[k - 1]] <= EpochOf[t[1]]
        BY <1>1, <3>1
      <3>3. EpochOf[t[k - 1]] \in Nat
        BY <1>1, <1>2, <3>1, <3>2
      <3> QED
        BY <1>5, <3>2, <3>3
    <2> QED
      BY <2>1, <2>2
  <1>7. i + 1 \in 1..n /\ t[i] = rest[i + 1]
    BY <1>1
  <1> QED
    BY <1>1, <1>6, <1>7 DEF SameEpoch

LEMMA NoWorkFits ==
  NoWork \in Works /\ Verified(NoWork) /\ NoWork.stage = "idle" /\ NoWork.kind = "block"
  <1>1. <<>> \in Seq(Block)
    BY EmptySeq
  <1> QED
    BY <1>1 DEF NoWork, Works, Stages, Verified

LEMMA StageMoved ==
  ASSUME NEW work \in Works, NEW phase \in Stages
  PROVE  /\ [work EXCEPT !.stage = phase] \in Works
         /\ [work EXCEPT !.stage = phase].stage = phase
         /\ [work EXCEPT !.stage = phase].kind = work.kind
         /\ [work EXCEPT !.stage = phase].rest = work.rest
  BY DEF Works

(* What the work is once its first block is done. *)
Onward(work) ==
  IF Tail(work.rest) = <<>> THEN NoWork
  ELSE [work EXCEPT !.rest = Tail(work.rest), !.imported = @ \cup {Head(work.rest)},
                    !.stage = IF EpochOf[Tail(work.rest)[1]] > EpochOf[work.rest[1]] THEN "signatures"
                              ELSE "process"]

LEMMA OnwardFits ==
  ASSUME NEW work \in Works, Verified(work), work.stage \in {"process", "import", "write"}
  PROVE  /\ Onward(work) \in Works /\ Verified(Onward(work)) /\ Onward(work).stage # "write"
         /\ Onward(work).kind # "data"
  <1>1. CASE Tail(work.rest) = <<>>
    BY <1>1, NoWorkFits DEF Onward
  <1>2. CASE Tail(work.rest) # <<>>
    <2> DEFINE rest == work.rest
               phase == IF EpochOf[Tail(rest)[1]] > EpochOf[rest[1]] THEN "signatures" ELSE "process"
               next == Onward(work)
    <2>1. /\ rest \in Seq(Block) /\ rest # <<>> /\ work.kind = "segment" /\ SameEpoch(rest) \cap Invalid = {}
          /\ work.imported \in SUBSET Block
      BY <1>2, NoWorkFits DEF Verified, Works
    <2>2. Tail(rest) \in Seq(Block) /\ Head(rest) \in Block
      BY <2>1, HeadTailProperties
    <2>3. phase \in {"signatures", "process"}
      OBVIOUS
    <2>4. phase = "process" => SameEpoch(Tail(rest)) \subseteq SameEpoch(rest)
      BY <1>2, <2>1, SameEpochTail
    <2>5. /\ next = [work EXCEPT !.rest = Tail(rest), !.imported = @ \cup {Head(rest)}, !.stage = phase]
      BY <1>2 DEF Onward
    <2> HIDE DEF phase, rest, next
    <2>6. /\ next \in Works /\ next.stage = phase /\ next.kind = "segment" /\ next.rest = Tail(rest)
      BY <2>1, <2>2, <2>3, <2>5 DEF Works, Stages
    <2>7. Verified(next)
      BY <1>2, <2>1, <2>3, <2>4, <2>6 DEF Verified, rest
    <2> QED
      BY <2>3, <2>6, <2>7 DEF next
  <1> QED
    BY <1>1, <1>2

LEMMA OneTask ==
  ASSUME ImportTypes, NEW t \in Import, NEW work \in Works, Put(t, work)
  PROVE  /\ importing' \in [Import -> Works] /\ importing'[t] = work
         /\ \A u \in Import : u # t => importing'[u] = importing[u]
  BY DEF ImportTypes, Put

(* A step of one task that neither holds the lock nor takes it. *)
LEMMA WithoutLock ==
  ASSUME ImportInv, NEW t \in Import, importing[t].stage # "write",
         NEW work \in Works, Verified(work), work.stage # "write", Put(t, work),
         components' \in [Block -> SUBSET {"block", "executed", "data"}],
         \A b \in Block : "executed" \in components[b] => "executed" \in components'[b],
         \A b \in Block : "executed" \in components'[b] => b \notin Invalid,
         work.kind = "data" => "executed" \in components'[work.rest[1]],
         UNCHANGED <<forkChoice, finalized, disk, persisted, corrupt, writeLock, early>>
  PROVE  ImportInv'
  <1>1. /\ importing' \in [Import -> Works] /\ importing'[t] = work
        /\ \A u \in Import : u # t => importing'[u] = importing[u]
    BY OneTask DEF ImportInv
  <1>2. ImportTypes' /\ WrittenChecked' /\ ExecutedChecked'
    BY <1>1 DEF ImportInv, ImportTypes, WrittenChecked, ExecutedChecked
  <1>3. writeLock # t
    BY DEF ImportInv, TasksFit
  <1>4. writeLock # Idle => Current(writeLock)' = Current(writeLock)
    BY <1>1, <1>3 DEF ImportInv, ImportTypes, Current
  <1>5. Grounded'
    BY <1>4 DEF ImportInv, Grounded, ForkChoiceOnDisk, EarlyKnown, Gapless
  <1>6. TasksFit'
    <2> SUFFICES ASSUME NEW u \in Import
                 PROVE  /\ Verified(importing[u])'
                        /\ (importing[u].stage = "write" <=> writeLock = u)'
                        /\ (importing[u].kind = "data" => "executed" \in components[importing[u].rest[1]])'
      BY DEF TasksFit
    <2>1. CASE u = t
      BY <1>1, <1>3, <2>1 DEF Verified, SameEpoch, NoWork
    <2>2. CASE u # t
      <3>1. /\ Verified(importing[u]) /\ importing[u] \in Works
            /\ importing[u].stage = "write" <=> writeLock = u
            /\ importing[u].kind = "data" => "executed" \in components[importing[u].rest[1]]
        BY DEF ImportInv, TasksFit, ImportTypes
      <3>2. importing[u].kind = "data" => importing[u].rest[1] \in Block
        <4>1. importing[u].kind = "data" => importing[u].rest # <<>>
          BY <3>1, NoWorkFits DEF Verified
        <4>2. importing[u].rest \in Seq(Block)
          BY <3>1 DEF Works
        <4> QED
          BY <4>1, <4>2, FirstOfEpoch
      <3>3. importing'[u] = importing[u]
        BY <1>1, <2>2
      <3> QED
        BY <3>1, <3>2, <3>3 DEF Verified, SameEpoch, NoWork
    <2> QED
      BY <2>1, <2>2
  <1> QED
    BY <1>2, <1>5, <1>6 DEF ImportInv

LEMMA SingleBlock ==
  ASSUME NEW b \in Block
  PROVE  /\ <<b>> \in Seq(Block) /\ <<b>> # <<>> /\ Tail(<<b>>) = <<>> /\ <<b>>[1] = b
  OBVIOUS

LEMMA ReceiveBlockKeeps ==
  ASSUME ImportInv, NEW t \in Import, NEW b \in Block, ReceiveBlock(t, b)
  PROVE  ImportInv'
  <1> DEFINE work == [NoWork EXCEPT !.stage = "process", !.rest = <<b>>]
  <1>1. /\ importing[t].stage = "idle" /\ Put(t, work)
        /\ UNCHANGED <<forkChoice, finalized, disk, persisted, corrupt, writeLock, early, components>>
    BY DEF ReceiveBlock
  <1>2. /\ <<b>> \in Seq(Block) /\ <<b>> # <<>> /\ Tail(<<b>>) = <<>>
    BY SingleBlock
  <1>3. /\ work \in Works /\ work.stage = "process" /\ work.kind = "block" /\ work.rest = <<b>>
    BY <1>2, NoWorkFits DEF NoWork, Works, Stages
  <1> HIDE DEF work
  <1>4. Verified(work)
    BY <1>2, <1>3 DEF Verified
  <1>5. components' \in [Block -> SUBSET {"block", "executed", "data"}] /\ ExecutedChecked
    BY <1>1 DEF ImportInv, ImportTypes
  <1> QED
    BY <1>1, <1>3, <1>4, <1>5, WithoutLock DEF ExecutedChecked

LEMMA FilteredRow ==
  ASSUME NEW segment \in Segments
  PROVE  Filtered(segment) \in Seq(Block)
  <1> DEFINE places == {i \in DOMAIN segment : ~Irrelevant(segment[i])}
  <1>1. segment \in Seq(Block)
    BY ImportAssumption
  <1>2. places \in SUBSET DOMAIN segment
    OBVIOUS
  <1> HIDE DEF places
  <1>3. PartAt(segment, places) \in Seq(Block)
    BY <1>1, <1>2, PartOfSequence
  <1> QED
    BY <1>3 DEF Filtered, places

LEMMA ReceiveSegmentKeeps ==
  ASSUME ImportInv, NEW t \in Import, NEW segment \in Segments, ReceiveSegment(t, segment)
  PROVE  ImportInv'
  <1> DEFINE blocks == Filtered(segment)
             work == [NoWork EXCEPT !.stage = "signatures", !.kind = "segment", !.rest = blocks]
  <1>1. /\ importing[t].stage = "idle" /\ blocks # <<>> /\ Put(t, work)
        /\ UNCHANGED <<forkChoice, finalized, disk, persisted, corrupt, writeLock, early, components>>
    BY DEF ReceiveSegment
  <1>2. blocks \in Seq(Block)
    BY FilteredRow
  <1> HIDE DEF blocks
  <1>3. work \in Works /\ work.stage = "signatures" /\ work.kind = "segment" /\ work.rest = blocks
    BY <1>2, NoWorkFits DEF NoWork, Works, Stages
  <1> HIDE DEF work
  <1>4. Verified(work)
    BY <1>1, <1>3 DEF Verified
  <1>5. components' \in [Block -> SUBSET {"block", "executed", "data"}] /\ ExecutedChecked
    BY <1>1 DEF ImportInv, ImportTypes
  <1> QED
    BY <1>1, <1>3, <1>4, <1>5, WithoutLock DEF ExecutedChecked

(* The work of a task that is not idle. *)
LEMMA BusyWork ==
  ASSUME ImportInv, NEW t \in Import, importing[t].stage # "idle"
  PROVE  /\ importing[t] \in Works /\ Verified(importing[t]) /\ importing[t].rest # <<>>
         /\ importing[t].rest \in Seq(Block) /\ Current(t) \in Block
         /\ Current(t) = importing[t].rest[1] /\ Current(t) \in SameEpoch(importing[t].rest)
  <1>1. importing[t] \in Works /\ Verified(importing[t])
    BY DEF ImportInv, ImportTypes, TasksFit
  <1>2. importing[t].rest # <<>> /\ importing[t].rest \in Seq(Block)
    BY <1>1 DEF Verified, Works
  <1> QED
    BY <1>1, <1>2, FirstOfEpoch DEF Current

LEMMA AdvancePuts ==
  ASSUME ImportInv, NEW t \in Import, NEW phase \in Stages, Advance(t, phase)
  PROVE  Put(t, [importing[t] EXCEPT !.stage = phase])
  BY DEF Advance, Put, ImportInv, ImportTypes

LEMMA ProceedPuts ==
  ASSUME NEW t \in Import, Proceed(t)
  PROVE  Put(t, Onward(importing[t]))
  BY DEF Proceed, Onward, Current

LEMMA VerifySignaturesKeeps ==
  ASSUME ImportInv, NEW t \in Import, VerifySignatures(t)
  PROVE  ImportInv'
  <1>1. /\ importing[t].stage = "signatures"
        /\ UNCHANGED <<forkChoice, finalized, disk, persisted, corrupt, writeLock, early, components>>
    BY DEF VerifySignatures
  <1>2. components' \in [Block -> SUBSET {"block", "executed", "data"}] /\ ExecutedChecked
    BY <1>1 DEF ImportInv, ImportTypes
  <1>3. CASE Put(t, NoWork)
    BY <1>1, <1>2, <1>3, NoWorkFits, WithoutLock DEF ExecutedChecked
  <1>4. CASE SameEpoch(importing[t].rest) \cap Invalid = {} /\ Advance(t, "process")
    <2> DEFINE work == [importing[t] EXCEPT !.stage = "process"]
    <2>1. importing[t] \in Works /\ Verified(importing[t]) /\ importing[t].rest # <<>>
      BY <1>1, BusyWork
    <2>2. work \in Works /\ work.stage = "process" /\ work.kind = importing[t].kind /\ work.rest = importing[t].rest
      BY <2>1, StageMoved DEF Stages
    <2>3. Put(t, work)
      BY <1>4, AdvancePuts DEF Stages
    <2> HIDE DEF work
    <2>4. Verified(work)
      BY <1>1, <1>4, <2>1, <2>2, NoWorkFits DEF Verified
    <2>5. work.kind = "data" => "executed" \in components'[work.rest[1]]
      BY <1>1, <2>2 DEF ImportInv, TasksFit
    <2> QED
      BY <1>1, <1>2, <2>2, <2>3, <2>4, <2>5, WithoutLock DEF ExecutedChecked
  <1> QED
    BY <1>3, <1>4 DEF VerifySignatures

LEMMA ProcessBlockKeeps ==
  ASSUME ImportInv, NEW t \in Import, ProcessBlock(t)
  PROVE  ImportInv'
  <1> DEFINE was == importing[t]
             b == Current(t)
  <1>1. /\ was.stage = "process" /\ components' = [components EXCEPT ![b] = @ \cup {"block"}]
        /\ UNCHANGED <<forkChoice, finalized, disk, persisted, corrupt, writeLock, early>>
    BY DEF ProcessBlock
  <1>2. /\ was \in Works /\ Verified(was) /\ was.rest # <<>> /\ b = was.rest[1]
        /\ b \in Block /\ b \in SameEpoch(was.rest)
    BY <1>1, BusyWork
  <1>3. /\ components' \in [Block -> SUBSET {"block", "executed", "data"}]
        /\ \A c \in Block : "executed" \in components[c] => "executed" \in components'[c]
        /\ \A c \in Block : "executed" \in components'[c] => c \notin Invalid
    <2>1. components \in [Block -> SUBSET {"block", "executed", "data"}] /\ ExecutedChecked
      BY DEF ImportInv, ImportTypes
    <2>2. \A c \in Block : components'[c] = components[c] \/ components'[c] = components[c] \cup {"block"}
      BY <1>1, <1>2, <2>1
    <2> QED
      BY <1>1, <1>2, <2>1, <2>2 DEF ExecutedChecked
  <1>4. CASE Put(t, NoWork)
    BY <1>1, <1>3, <1>4, NoWorkFits, WithoutLock
  <1>5. CASE was.kind = "segment" /\ Proceed(t)
    BY <1>1, <1>2, <1>3, <1>5, OnwardFits, ProceedPuts, WithoutLock
  <1>6. CASE (was.kind = "segment" \/ b \notin Invalid) /\ Advance(t, "execute")
    <2> DEFINE work == [was EXCEPT !.stage = "execute"]
    <2>1. work \in Works /\ work.stage = "execute" /\ work.kind = was.kind /\ work.rest = was.rest
      BY <1>2, StageMoved DEF Stages
    <2>2. Put(t, work)
      BY <1>6, AdvancePuts DEF Stages
    <2>3. was.kind = "data" => "executed" \in components[b]
      BY <1>2 DEF ImportInv, TasksFit
    <2> HIDE DEF work
    <2>4. Verified(work)
      BY <1>1, <1>2, <1>6, <2>1, NoWorkFits DEF Verified
    <2> HIDE DEF was, b
    <2>5. work.kind = "data" => "executed" \in components'[work.rest[1]]
      BY <1>2, <1>3, <2>1, <2>3
    <2> QED
      BY <1>1, <1>3, <2>1, <2>2, <2>4, <2>5, WithoutLock DEF was
  <1> QED
    BY <1>4, <1>5, <1>6 DEF ProcessBlock, Fail

LEMMA ExecuteBlockKeeps ==
  ASSUME ImportInv, NEW t \in Import, ExecuteBlock(t)
  PROVE  ImportInv'
  <1> DEFINE was == importing[t]
             b == Current(t)
             work == [was EXCEPT !.stage = "import"]
  <1>1. /\ was.stage = "execute"
        /\ UNCHANGED <<forkChoice, finalized, disk, persisted, corrupt, writeLock, early>>
    BY DEF ExecuteBlock
  <1>2. /\ was \in Works /\ Verified(was) /\ was.rest # <<>> /\ b = was.rest[1]
        /\ b \in Block /\ b \in SameEpoch(was.rest)
    BY <1>1, BusyWork
  <1>3. work \in Works /\ work.stage = "import" /\ work.kind = was.kind /\ work.rest = was.rest
    BY <1>2, StageMoved DEF Stages
  <1>4. /\ components \in [Block -> SUBSET {"block", "executed", "data"}] /\ ExecutedChecked
        /\ was.kind = "data" => "executed" \in components[b]
    BY <1>2 DEF ImportInv, ImportTypes, TasksFit
  <1>5. Verified(work)
    BY <1>1, <1>2, <1>3, NoWorkFits DEF Verified
  <1>6. was.kind # "segment" => b \notin Invalid
    BY <1>1, <1>2 DEF Verified
  <1>7. Advance(t, "import") => Put(t, work)
    BY AdvancePuts DEF Stages
  <1> HIDE DEF work
  <1>8. CASE was.kind = "segment" /\ Advance(t, "import") /\ UNCHANGED components
    BY <1>1, <1>3, <1>4, <1>5, <1>7, <1>8, WithoutLock DEF ExecutedChecked
  <1>9. CASE /\ was.kind = "block" /\ components' = [components EXCEPT ![b] = @ \cup {"block", "executed"}]
             /\ Advance(t, "import") \/ Put(t, NoWork)
    <2>1. \A c \in Block : components'[c] = IF c = b THEN components[c] \cup {"block", "executed"} ELSE components[c]
      BY <1>2, <1>4, <1>9
    <2>2. /\ components' \in [Block -> SUBSET {"block", "executed", "data"}]
          /\ \A c \in Block : "executed" \in components[c] => "executed" \in components'[c]
      BY <1>2, <1>4, <1>9, <2>1
    <2>3. \A c \in Block : "executed" \in components'[c] => c \notin Invalid
      BY <1>4, <1>6, <1>9, <2>1 DEF ExecutedChecked
    <2>4. CASE Put(t, NoWork)
      BY <1>1, <2>2, <2>3, <2>4, NoWorkFits, WithoutLock
    <2>5. CASE Advance(t, "import")
      BY <1>1, <1>3, <1>5, <1>7, <1>9, <2>2, <2>3, <2>5, WithoutLock
    <2> QED
      BY <1>9, <2>4, <2>5
  <1>10. CASE components' = [components EXCEPT ![b] = DropUnexecuted(b)] /\ Put(t, NoWork)
    <2>1. DropUnexecuted(b) \in SUBSET {"block", "executed", "data"}
      BY <1>2, <1>4 DEF DropUnexecuted
    <2>2. "executed" \in components[b] <=> "executed" \in DropUnexecuted(b)
      BY DEF DropUnexecuted
    <2>3. \A c \in Block : components'[c] = IF c = b THEN DropUnexecuted(b) ELSE components[c]
      BY <1>2, <1>4, <1>10
    <2>4. /\ components' \in [Block -> SUBSET {"block", "executed", "data"}]
      BY <1>2, <1>4, <1>10, <2>1
    <2>5. \A c \in Block : "executed" \in components[c] <=> "executed" \in components'[c]
      BY <2>2, <2>3
    <2> HIDE DEF b, was
    <2> QED
      BY <1>1, <1>4, <1>10, <2>4, <2>5, NoWorkFits, WithoutLock DEF ExecutedChecked, was
  <1> QED
    BY <1>8, <1>9, <1>10 DEF ExecuteBlock, Fail

LEMMA ReceiveDataKeeps ==
  ASSUME ImportInv, NEW t \in Import, NEW b \in Block, ReceiveData(t, b)
  PROVE  ImportInv'
  <1> DEFINE work == [NoWork EXCEPT !.stage = "import", !.kind = "data", !.rest = <<b>>]
  <1>1. /\ importing[t].stage = "idle" /\ components' = [components EXCEPT ![b] = @ \cup {"data"}]
        /\ UNCHANGED <<forkChoice, finalized, disk, persisted, corrupt, writeLock, early>>
        /\ \/ "executed" \in components[b] /\ Put(t, work)
           \/ UNCHANGED importing
    BY DEF ReceiveData, Available
  <1>2. components \in [Block -> SUBSET {"block", "executed", "data"}] /\ ExecutedChecked
    BY DEF ImportInv, ImportTypes
  <1>3. \A c \in Block : components'[c] = components[c] \/ components'[c] = components[c] \cup {"data"}
    BY <1>1, <1>2
  <1>4. /\ components' \in [Block -> SUBSET {"block", "executed", "data"}]
        /\ \A c \in Block : "executed" \in components[c] <=> "executed" \in components'[c]
    BY <1>1, <1>2, <1>3
  <1>5. <<b>> \in Seq(Block) /\ <<b>> # <<>> /\ Tail(<<b>>) = <<>> /\ <<b>>[1] = b
    BY SingleBlock
  <1>6. work \in Works /\ work.stage = "import" /\ work.kind = "data" /\ work.rest = <<b>>
    BY <1>5, NoWorkFits DEF NoWork, Works, Stages
  <1> HIDE DEF work
  <1>7. CASE "executed" \in components[b] /\ Put(t, work)
    <2>1. b \notin Invalid
      BY <1>2, <1>7 DEF ExecutedChecked
    <2>2. Verified(work)
      BY <1>5, <1>6, <2>1 DEF Verified
    <2> QED
      BY <1>1, <1>2, <1>4, <1>5, <1>6, <1>7, <2>2, WithoutLock DEF ExecutedChecked
  <1>8. CASE UNCHANGED importing
    <2>1. importing[t] \in Works /\ Verified(importing[t]) /\ Put(t, importing[t])
      BY <1>8 DEF ImportInv, ImportTypes, TasksFit, Put
    <2>2. importing[t].kind = "block"
      BY <1>1, <2>1, NoWorkFits DEF Verified
    <2> QED
      BY <1>1, <1>2, <1>4, <2>1, <2>2, WithoutLock DEF ExecutedChecked
  <1> QED
    BY <1>1, <1>7, <1>8

(* A step of the task that holds the lock, or takes it or releases it. *)
LEMMA WithLock ==
  ASSUME ImportInv, NEW t \in Import, writeLock \in {Idle, t}, writeLock' \in {Idle, t},
         NEW work \in Works, Verified(work), Put(t, work), work.stage = "write" <=> writeLock' = t,
         work.kind = "data" => "executed" \in components[work.rest[1]],
         UNCHANGED components
  PROVE  importing' \in [Import -> Works] /\ importing'[t] = work /\ TasksFit'
  <1>1. /\ importing' \in [Import -> Works] /\ importing'[t] = work
        /\ \A u \in Import : u # t => importing'[u] = importing[u]
    BY OneTask DEF ImportInv
  <1>2. Idle \notin Import
    BY ImportAssumption
  <1>3. TasksFit'
    <2> SUFFICES ASSUME NEW u \in Import
                 PROVE  /\ Verified(importing[u])'
                        /\ (importing[u].stage = "write" <=> writeLock = u)'
                        /\ (importing[u].kind = "data" => "executed" \in components[importing[u].rest[1]])'
      BY DEF TasksFit
    <2>1. CASE u = t
      BY <1>1, <2>1 DEF Verified, SameEpoch, NoWork
    <2>2. CASE u # t
      <3>1. /\ Verified(importing[u])
            /\ importing[u].stage = "write" <=> writeLock = u
            /\ importing[u].kind = "data" => "executed" \in components[importing[u].rest[1]]
        BY DEF ImportInv, TasksFit
      <3>2. importing'[u] = importing[u]
        BY <1>1, <2>2
      <3>3. writeLock # u /\ writeLock' # u
        BY <1>2, <2>2
      <3> QED
        BY <3>1, <3>2, <3>3 DEF Verified, SameEpoch, NoWork
    <2> QED
      BY <2>1, <2>2
  <1> QED
    BY <1>1, <1>3

LEMMA AddToForkChoiceKeeps ==
  ASSUME ImportInv, NEW t \in Import, AddToForkChoice(t)
  PROVE  ImportInv'
  <1> DEFINE was == importing[t]
             b == Current(t)
             work == [was EXCEPT !.stage = "write"]
  <1>1. /\ was.stage = "import" /\ writeLock = Idle
        /\ UNCHANGED <<finalized, disk, persisted, corrupt, components>>
    BY DEF AddToForkChoice
  <1>2. /\ was \in Works /\ Verified(was) /\ was.rest # <<>> /\ b = was.rest[1]
        /\ b \in Block /\ b \in SameEpoch(was.rest)
    BY <1>1, BusyWork
  <1>3. was.kind = "data" => "executed" \in components[b]
    BY <1>2 DEF ImportInv, TasksFit
  <1>4. CASE (Proceed(t) \/ Put(t, NoWork)) /\ UNCHANGED <<forkChoice, writeLock, early>>
    <2>1. PICK next \in Works : /\ Put(t, next) /\ Verified(next) /\ next.stage # "write" /\ next.kind # "data"
      BY <1>1, <1>2, <1>4, OnwardFits, ProceedPuts, NoWorkFits
    <2>2. components' \in [Block -> SUBSET {"block", "executed", "data"}] /\ ExecutedChecked
      BY <1>1 DEF ImportInv, ImportTypes
    <2> HIDE DEF b, was
    <2> QED
      BY <1>1, <1>4, <2>1, <2>2, WithoutLock DEF ExecutedChecked, was
  <1>5. CASE /\ Importable(b) /\ forkChoice' = forkChoice \cup {b} /\ writeLock' = t
             /\ early' \in {early, b} /\ Advance(t, "write")
    <2>1. work \in Works /\ work.stage = "write" /\ work.kind = was.kind /\ work.rest = was.rest
      BY <1>2, StageMoved DEF Stages
    <2>2. Put(t, work)
      BY <1>5, AdvancePuts DEF Stages
    <2> HIDE DEF work
    <2>3. Verified(work)
      BY <1>1, <1>2, <2>1, NoWorkFits DEF Verified
    <2>4. importing' \in [Import -> Works] /\ importing'[t] = work /\ TasksFit'
      BY <1>1, <1>2, <1>3, <1>5, <2>1, <2>2, <2>3, WithLock
    <2>5. Current(t)' = b
      BY <1>2, <2>1, <2>4 DEF Current
    <2> HIDE DEF was, b
    <2>6. ImportTypes' /\ WrittenChecked' /\ ExecutedChecked'
      BY <1>1, <1>2, <1>5, <2>4 DEF ImportInv, ImportTypes, WrittenChecked, ExecutedChecked
    <2>7. Gapless(forkChoice)' /\ Gapless(persisted.blocks)'
      BY <1>1, <1>5 DEF ImportInv, Grounded, Gapless, Importable, Known
    <2>8. ForkChoiceOnDisk'
      <3>1. ~corrupt => forkChoice \subseteq disk
        BY <1>1 DEF ImportInv, Grounded, ForkChoiceOnDisk
      <3>2. t # Idle
        BY ImportAssumption
      <3>3. (IF writeLock = Idle THEN {} ELSE {Current(writeLock)})' = {b}
        BY <1>5, <2>5, <3>2
      <3> QED
        BY <1>1, <1>5, <3>1, <3>3 DEF ForkChoiceOnDisk
    <2>9. EarlyKnown'
      BY <1>5 DEF ImportInv, Grounded, EarlyKnown
    <2>10. Grounded'
      BY <1>1, <2>7, <2>8, <2>9 DEF ImportInv, Grounded
    <2> QED
      BY <2>4, <2>6, <2>10 DEF ImportInv
  <1> QED
    BY <1>4, <1>5 DEF AddToForkChoice, Fail

LEMMA WriteBlockKeeps ==
  ASSUME ImportInv, NEW t \in Import, WriteBlock(t)
  PROVE  ImportInv'
  <1> DEFINE was == importing[t]
             b == Current(t)
  <1>1. /\ was.stage = "write" /\ disk' = disk \cup {b} /\ writeLock' = Idle /\ Proceed(t)
        /\ UNCHANGED <<forkChoice, finalized, persisted, corrupt, early, components>>
    BY DEF WriteBlock
  <1>2. /\ was \in Works /\ Verified(was) /\ was.rest # <<>> /\ b = was.rest[1]
        /\ b \in Block /\ b \in SameEpoch(was.rest)
    BY <1>1, BusyWork
  <1>3. writeLock = t /\ t # Idle
    BY <1>1, ImportAssumption DEF ImportInv, TasksFit
  <1>4. PICK next \in Works : Put(t, next) /\ Verified(next) /\ next.stage # "write" /\ next.kind # "data"
    BY <1>1, <1>2, OnwardFits, ProceedPuts
  <1>5. importing' \in [Import -> Works] /\ TasksFit'
    BY <1>1, <1>3, <1>4, WithLock
  <1>6. b \notin Invalid
    BY <1>1, <1>2 DEF Verified
  <1> HIDE DEF was, b
  <1>7. ImportTypes' /\ WrittenChecked' /\ ExecutedChecked'
    BY <1>1, <1>2, <1>5, <1>6 DEF ImportInv, ImportTypes, WrittenChecked, ExecutedChecked
  <1>8. ForkChoiceOnDisk'
    BY <1>1, <1>3 DEF ImportInv, Grounded, ForkChoiceOnDisk, b
  <1>9. Grounded'
    BY <1>1, <1>8 DEF ImportInv, Grounded, EarlyKnown, Gapless
  <1> QED
    BY <1>5, <1>7, <1>9 DEF ImportInv

LEMMA WriteFailsKeeps ==
  ASSUME ImportInv, NEW t \in Import, WriteFails(t)
  PROVE  ImportInv'
  <1>1. /\ importing[t].stage = "write" /\ early' = Idle /\ writeLock' = Idle /\ Put(t, NoWork)
        /\ \/ /\ forkChoice' = persisted.blocks /\ finalized' = persisted.finalized
              /\ UNCHANGED corrupt
           \/ corrupt' = TRUE /\ UNCHANGED <<forkChoice, finalized>>
        /\ UNCHANGED <<disk, persisted, components>>
    BY DEF WriteFails, EarlyAfterFailure, Restored, Fail
  <1>2. writeLock = t /\ t # Idle
    BY <1>1, ImportAssumption DEF ImportInv, TasksFit
  <1>3. importing' \in [Import -> Works] /\ TasksFit'
    BY <1>1, <1>2, NoWorkFits, WithLock
  <1>4. ImportTypes' /\ WrittenChecked' /\ ExecutedChecked'
    BY <1>1, <1>3 DEF ImportInv, ImportTypes, WrittenChecked, ExecutedChecked
  <1>5. Grounded'
    BY <1>1 DEF ImportInv, Grounded, ForkChoiceOnDisk, EarlyKnown, Gapless
  <1> QED
    BY <1>3, <1>4, <1>5 DEF ImportInv

LEMMA RestartNodeKeeps ==
  ASSUME ImportInv, RestartNode
  PROVE  ImportInv'
  <1>1. /\ forkChoice' = persisted.blocks /\ finalized' = persisted.finalized
        /\ writeLock' = Idle /\ early' = Idle
        /\ components' = [b \in Block |-> {}] /\ importing' = [t \in Import |-> NoWork]
        /\ UNCHANGED <<disk, persisted, corrupt>>
    BY DEF RestartNode
  <1>2. ImportTypes'
    BY <1>1, NoWorkFits DEF ImportInv, ImportTypes
  <1>3. WrittenChecked' /\ ExecutedChecked'
    BY <1>1 DEF ImportInv, WrittenChecked, ExecutedChecked
  <1>4. TasksFit'
    <2>1. \A t \in Import : importing'[t] = NoWork /\ writeLock' # t
      BY <1>1, ImportAssumption
    <2> QED
      BY <2>1, NoWorkFits DEF TasksFit, Verified, SameEpoch, NoWork
  <1>5. Grounded'
    BY <1>1 DEF ImportInv, Grounded, ForkChoiceOnDisk, EarlyKnown, Gapless
  <1> QED
    BY <1>2, <1>3, <1>4, <1>5 DEF ImportInv

LEMMA OtherImportSteps ==
  ASSUME ImportInv,
         \/ PersistForkChoice
         \/ \E b \in Block : Finalize(b)
         \/ UNCHANGED importVars
  PROVE  ImportInv'
  <1>1. TasksFit'
    BY DEF PersistForkChoice, Finalize, importVars, ImportInv, TasksFit, Verified, SameEpoch, NoWork
  <1>2. ImportTypes' /\ WrittenChecked' /\ ExecutedChecked'
    BY DEF PersistForkChoice, Finalize, importVars, ImportInv, ImportTypes, WrittenChecked, ExecutedChecked
  <1>3. CASE (\E b \in Block : Finalize(b)) \/ UNCHANGED importVars
    <2>1. UNCHANGED <<forkChoice, disk, persisted, corrupt, writeLock, early, importing>>
      BY <1>3 DEF Finalize, importVars
    <2>2. Grounded'
      BY <2>1 DEF ImportInv, Grounded, ForkChoiceOnDisk, EarlyKnown, Gapless, Current
    <2> QED
      BY <1>1, <1>2, <2>2 DEF ImportInv
  <1>4. PersistForkChoice => Grounded'
    BY DEF PersistForkChoice, ImportInv, Grounded, ForkChoiceOnDisk, EarlyKnown, Gapless
  <1> QED
    BY <1>1, <1>2, <1>3, <1>4 DEF ImportInv

LEMMA ImportKeeps ==
  ASSUME ImportInv, [ImportNext]_importVars
  PROVE  ImportInv'
  BY ReceiveBlockKeeps, ReceiveSegmentKeeps, VerifySignaturesKeeps, ProcessBlockKeeps,
     ExecuteBlockKeeps, ReceiveDataKeeps, AddToForkChoiceKeeps, WriteBlockKeeps,
     WriteFailsKeeps, RestartNodeKeeps, OtherImportSteps DEF ImportNext

LEMMA ImportInitHolds ==
  ASSUME ImportInit
  PROVE  ImportInv
  <1>1. ImportTypes
    BY NoWorkFits, ImportAssumption DEF ImportInit, ImportTypes
  <1>2. Grounded /\ WrittenChecked /\ ExecutedChecked
    BY ImportAssumption DEF ImportInit, Grounded, ForkChoiceOnDisk, EarlyKnown, Gapless,
       WrittenChecked, ExecutedChecked
  <1>3. TasksFit
    BY NoWorkFits, ImportAssumption DEF ImportInit, TasksFit
  <1> QED
    BY <1>1, <1>2, <1>3 DEF ImportInv

LEMMA SetsWhole ==
  ASSUME NEW chain \in SUBSET Block, Gapless(chain), NEW b \in chain
  PROVE  Ancestors[b] \subseteq chain
  BY DEF Ancestors

LEMMA OneImports ==
  ASSUME [ImportNext]_importVars, ImportInv
  PROVE  ImportedOnceStep
  <1> SUFFICES ASSUME NEW t \in Import, writeLock' = t, writeLock = Idle
               PROVE  Current(t) \notin forkChoice
    BY DEF ImportedOnceStep
  <1>1. t # Idle
    BY ImportAssumption
  <1>2. PICK u \in Import : AddToForkChoice(u)
    BY <1>1 DEF ImportNext, importVars, PersistForkChoice, RestartNode, Finalize, ReceiveBlock,
       ReceiveData, ReceiveSegment, VerifySignatures, ProcessBlock, ExecuteBlock, WriteBlock, WriteFails
  <1>3. u = t /\ Importable(Current(t))
    BY <1>1, <1>2 DEF AddToForkChoice
  <1> QED
    BY <1>3 DEF Importable, Known

(* Whatever write fails and wherever the node restarts, fork choice and the
   database stay in agreement, without gaps; no block is written unchecked, none
   is imported for its data before the engine had its payload, and no block is
   imported twice: for any blocks, any segments and any number of tasks. *)
THEOREM ImportsAreSound == ImportSpec => ImportSound
  <1>1. ImportInit => ImportInv
    BY ImportInitHolds
  <1>2. ImportInv /\ [ImportNext]_importVars => ImportInv'
    BY ImportKeeps
  <1>3. ImportInv => ForkChoiceOnDisk /\ ChainsWhole /\ EarlyKnown /\ WrittenChecked /\ ExecutedFirst
    <2> SUFFICES ASSUME ImportInv
                 PROVE  ForkChoiceOnDisk /\ ChainsWhole /\ EarlyKnown /\ WrittenChecked /\ ExecutedFirst
      OBVIOUS
    <2>1. ChainsWhole
      <3>1. /\ forkChoice \in SUBSET Block /\ persisted.blocks \in SUBSET Block
            /\ Gapless(forkChoice) /\ Gapless(persisted.blocks)
        BY DEF ImportInv, ImportTypes, Grounded
      <3> QED
        BY <3>1, SetsWhole DEF ChainsWhole
    <2>2. ExecutedFirst
      BY DEF ImportInv, TasksFit, ExecutedFirst, Current
    <2> QED
      BY <2>1, <2>2 DEF ImportInv, Grounded
  <1>4. ImportInv /\ [ImportNext]_importVars => ImportedOnceStep
    BY OneImports
  <1>5. ImportInv /\ [ImportNext]_importVars => [ImportedOnceStep]_importVars
    BY <1>4
  <1> QED
    BY <1>1, <1>2, <1>3, <1>5, PTL DEF ImportSpec, ImportSound, ImportedOnce
=============================================================================
