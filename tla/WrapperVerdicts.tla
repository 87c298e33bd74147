--------------------------- MODULE WrapperVerdicts ---------------------------
(***************************************************************************)
(* The verdicts on proof wrappers, from                                    *)
(*   ProofWrapperService.cs (AcceptDetailedAsync, RememberVerification)    *)
(*   MempoolWrapperValidator.cs, VersionedLeanProofVerifier.cs.            *)
(*                                                                         *)
(* Whether a wrapper is valid depends on the program of the current chain  *)
(* head, and verification runs on another thread while the head moves.     *)
(* A verdict is cached under the wrapper and the program read before       *)
(* verification began; the gate _admissionActive is what keeps two callers *)
(* from the cache, which has no lock.  What admission does with the pool   *)
(* and the witness store is in ProofAdmission.                             *)
(***************************************************************************)
EXTENDS Integers, SequencesExt

CONSTANTS
  Flow,          \* concurrent calls of AcceptDetailedAsync
  Wrapper,       \* hashes of wrappers
  Program,       \* recursive programs, identified by their verification key
  Within,        \* Within[w]: the programs whose claim limit w respects
  Proves,        \* Proves[w]: the programs under which the proofs of w verify
  MaxVerdicts,   \* 128 in RememberVerification
  Successors,    \* Successors[p]: the programs a head change may lead to
  None

ASSUME VerdictAssumption ==
  /\ Within \in [Wrapper -> SUBSET Program]
  /\ Proves \in [Wrapper -> SUBSET Program]
  /\ Successors \in [Program -> SUBSET Program]
  /\ MaxVerdicts \in Nat \ {0}
  /\ None \notin Flow \cup Wrapper \cup Program

VARIABLES
  program,               \* ProductionVerificationKey of the current head
  admissionActive,       \* _admissionActive: the flow inside, or None
  stage,                 \* what each flow is about to do
  wrapper,               \* the wrapper it admits
  admissionProgram,      \* the program it read before verification
  verifiedWrappers,      \* _verifiedWrappers, "unknown" where there is no entry
  verifiedWrapperOrder,  \* _verifiedWrapperOrder, oldest first
  admitted               \* the keys under which wrappers went on to admission

verdicts == <<verifiedWrappers, verifiedWrapperOrder>>
vars == <<program, admissionActive, stage, wrapper, admissionProgram, verdicts, admitted>>

Key == Wrapper \X Program
KeyOf(f) == <<wrapper[f], admissionProgram[f]>>

(* What MempoolWrapperValidator would say were the head to stand still. *)
Valid(w, p) == p \in Within[w] \cap Proves[w]

Goto(f, s) == stage' = [stage EXCEPT ![f] = s]

Init ==
  /\ program \in Program
  /\ admissionActive = None
  /\ stage = [f \in Flow |-> "idle"]
  /\ wrapper = [f \in Flow |-> None]
  /\ admissionProgram = [f \in Flow |-> None]
  /\ verifiedWrappers = [k \in Key |-> "unknown"]
  /\ verifiedWrapperOrder = <<>>
  /\ admitted = {}
-----------------------------------------------------------------------------
(* The call gives the gate back, whatever became of it. *)
Leave(f) ==
  /\ admissionActive' = None
  /\ stage' = [stage EXCEPT ![f] = "idle"]
  /\ wrapper' = [wrapper EXCEPT ![f] = None]
  /\ admissionProgram' = [admissionProgram EXCEPT ![f] = None]

(* Mutant of Accept: the gate does not keep anybody out. *)
AcceptUngated(f, w) ==
  /\ stage[f] = "idle"
  /\ admissionActive' = f
  /\ wrapper' = [wrapper EXCEPT ![f] = w]
  /\ Goto(f, "preparing")
  /\ UNCHANGED <<program, admissionProgram, verdicts, admitted>>

Accept(f, w) ==
  /\ stage[f] = "idle" /\ admissionActive = None
  /\ admissionActive' = f
  /\ wrapper' = [wrapper EXCEPT ![f] = w]
  /\ Goto(f, "preparing")
  /\ UNCHANGED <<program, admissionProgram, verdicts, admitted>>

(* Decoding and preflight fail, or the caller cancels. *)
GiveUp(f) ==
  /\ stage[f] \in {"preparing", "limiting", "proving", "valid", "invalid", "rechecking"}
  /\ Leave(f)
  /\ UNCHANGED <<program, verdicts, admitted>>

(* A verdict that is known is not worked out again. *)
Lookup(f) ==
  /\ stage[f] = "preparing"
  /\ \/ /\ verifiedWrappers[<<wrapper[f], program>>] = "invalid"
        /\ Leave(f)
     \/ /\ verifiedWrappers[<<wrapper[f], program>>] # "invalid"
        /\ admissionProgram' = [admissionProgram EXCEPT ![f] = program]
        /\ Goto(f, IF verifiedWrappers[<<wrapper[f], program>>] = "valid"
                   THEN "rechecking" ELSE "limiting")
        /\ UNCHANGED <<wrapper, admissionActive>>
  /\ UNCHANGED <<program, verdicts, admitted>>

(* Validate asks for the program twice more: AdaptiveBatchingEnabled for the
   claim limit, then ProductionVerificationKey for the recursive proof. *)
CheckLimits(f) ==
  /\ stage[f] = "limiting"
  /\ Goto(f, IF program \in Within[wrapper[f]] THEN "proving" ELSE "invalid")
  /\ UNCHANGED <<program, admissionActive, wrapper, admissionProgram, verdicts, admitted>>

CheckProof(f) ==
  /\ stage[f] = "proving"
  /\ Goto(f, IF program \in Proves[wrapper[f]] THEN "valid" ELSE "invalid")
  /\ UNCHANGED <<program, admissionActive, wrapper, admissionProgram, verdicts, admitted>>

(* Mutant of RememberVerification: the full cache forgets a verdict but keeps
   its place in the queue. *)
RememberKeepingOrder(k, verdict) ==
  LET old == Head(verifiedWrapperOrder)
      full == Len(verifiedWrapperOrder) = MaxVerdicts
  IN  /\ verifiedWrapperOrder' = Append(verifiedWrapperOrder, k)
      /\ verifiedWrappers' =
           [j \in Key |-> IF j = k THEN verdict
                          ELSE IF full /\ j = old THEN "unknown" ELSE verifiedWrappers[j]]

RememberVerification(k, verdict) ==
  LET full == Len(verifiedWrapperOrder) = MaxVerdicts
      old  == Head(verifiedWrapperOrder)
      kept == IF full THEN Tail(verifiedWrapperOrder) ELSE verifiedWrapperOrder
  IN  /\ verifiedWrapperOrder' = Append(kept, k)
      /\ verifiedWrappers' =
           [j \in Key |-> IF j = k THEN verdict
                          ELSE IF full /\ j = old THEN "unknown" ELSE verifiedWrappers[j]]

Decide(f) ==
  /\ stage[f] \in {"valid", "invalid"}
  /\ RememberVerification(KeyOf(f), stage[f])
  /\ \/ stage[f] = "invalid" /\ Leave(f)
     \/ /\ stage[f] = "valid" /\ Goto(f, "rechecking")
        /\ UNCHANGED <<admissionActive, wrapper, admissionProgram>>
  /\ UNCHANGED <<program, admitted>>

(* Mutant of Recheck: the program is not compared. *)
RecheckNothing(f) ==
  /\ stage[f] = "rechecking"
  /\ Goto(f, "admitting")
  /\ admitted' = admitted \cup {KeyOf(f)}
  /\ UNCHANGED <<program, admissionActive, wrapper, admissionProgram, verdicts>>

(* "Proof rules changed during admission": the program must be the one read
   at the start. *)
Recheck(f) ==
  /\ stage[f] = "rechecking"
  /\ \/ /\ program = admissionProgram[f]
        /\ Goto(f, "admitting")
        /\ admitted' = admitted \cup {KeyOf(f)}
        /\ UNCHANGED <<admissionActive, wrapper, admissionProgram>>
     \/ /\ program # admissionProgram[f]
        /\ Leave(f)
        /\ UNCHANGED admitted
  /\ UNCHANGED <<program, verdicts>>

Finish(f) ==
  /\ stage[f] = "admitting"
  /\ Leave(f)
  /\ UNCHANGED <<program, verdicts, admitted>>

(* The head crosses the adaptive fork, forward or in a reorganisation. *)
HeadChange(p) ==
  /\ p \in Successors[program]
  /\ program' = p
  /\ UNCHANGED <<admissionActive, stage, wrapper, admissionProgram, verdicts, admitted>>

Next ==
  \/ \E f \in Flow, w \in Wrapper : Accept(f, w)
  \/ \E f \in Flow : \/ GiveUp(f) \/ Lookup(f) \/ CheckLimits(f) \/ CheckProof(f)
                     \/ Decide(f) \/ Recheck(f) \/ Finish(f)
  \/ \E p \in Program : HeadChange(p)

Spec == Init /\ [][Next]_vars
-----------------------------------------------------------------------------
TypeOK ==
  /\ program \in Program
  /\ admissionActive \in Flow \cup {None}
  /\ stage \in [Flow -> {"idle", "preparing", "limiting", "proving", "valid", "invalid",
                         "rechecking", "admitting"}]
  /\ wrapper \in [Flow -> Wrapper \cup {None}]
  /\ admissionProgram \in [Flow -> Program \cup {None}]
  /\ \A f \in Flow : stage[f] # "idle" <=> admissionActive = f
  /\ \A f \in Flow : stage[f] # "idle" <=> wrapper[f] \in Wrapper
  /\ \A f \in Flow : stage[f] \notin {"idle", "preparing"} <=> admissionProgram[f] \in Program
  /\ verifiedWrappers \in [Key -> {"unknown", "valid", "invalid"}]
  /\ verifiedWrapperOrder \in Seq(Key)
  /\ admitted \subseteq Key

(* The queue lists exactly the wrappers with a verdict, each of them once, and
   no more than the limit: an eviction removes the oldest verdict and not one
   that was worked out since. *)
VerdictsListed ==
  /\ ToSet(verifiedWrapperOrder) = {k \in Key : verifiedWrappers[k] # "unknown"}
  /\ IsInjective(verifiedWrapperOrder)
  /\ Len(verifiedWrapperOrder) <= MaxVerdicts

(* A wrapper goes on to admission under a program only if it is valid under
   that very program, however the head moved during verification. *)
AdmittedValid == \A k \in admitted : Valid(k[1], k[2])

(* The cache of verdicts forgets the oldest and none is used under a program it
   was not worked out for. *)
VerdictsSound == TypeOK /\ VerdictsListed /\ AdmittedValid
=============================================================================
