----------------------------- MODULE NativeCalls -----------------------------
(***************************************************************************)
(* Concurrent calls across the native boundary, from checked and the nlean *)
(* functions of native/ffi/src/lib.rs.                                     *)
(*                                                                         *)
(* A call registers itself, makes sure that the panic hook and the pool    *)
(* are set up (once, by whoever comes first), runs, and takes itself off   *)
(* the register however it ends.  Proving is serial under PROVER; a panic  *)
(* poisons that lock, which the next prover ignores.  The proof of no      *)
(* claims at all is answered without it.                                   *)
(***************************************************************************)
EXTENDS Integers, FiniteSets

CONSTANTS
  Thread,      \* threads of the client that call into the library
  Nobody

ASSUME NobodyAssumption == Nobody \notin Thread

VARIABLES
  at,          \* at[t]: where the call of t is
  work,        \* work[t]: "verify", "prove" or "empty"
  inAbi,       \* IN_ABI of each thread
  activeCalls,      \* ACTIVE_ABI_CALLS
  pool,        \* ABI_WORKERS: "unset", "set", or the thread that sets it up
  prover       \* PROVER: who holds it, or Nobody

nativeVars == <<at, work, inAbi, activeCalls, pool, prover>>
CallKinds == {"verify", "prove", "empty"}
Inside == {"entered", "ready", "running"}

NativeInit ==
  /\ at = [t \in Thread |-> "outside"]
  /\ work = [t \in Thread |-> "verify"]
  /\ inAbi = [t \in Thread |-> FALSE]
  /\ activeCalls = 0
  /\ pool = "unset"
  /\ prover = Nobody

Goto(t, place) == at' = [at EXCEPT ![t] = place]

(* CallGuard is made: the flag first, then the counter. *)
EnterAbi(t, w) ==
  /\ at[t] = "outside"
  /\ work' = [work EXCEPT ![t] = w]
  /\ inAbi' = [inAbi EXCEPT ![t] = TRUE]
  /\ activeCalls' = activeCalls + 1
  /\ Goto(t, "entered")
  /\ UNCHANGED <<pool, prover>>

(* OnceLock: one thread sets the pool up and the others wait for it. *)
BeginPool(t) ==
  /\ at[t] = "entered" /\ pool = "unset"
  /\ pool' = t
  /\ UNCHANGED <<at, work, inAbi, activeCalls, prover>>

EndPool(t) ==
  /\ pool = t
  /\ pool' = "set"
  /\ UNCHANGED <<at, work, inAbi, activeCalls, prover>>

PoolReady(t) ==
  /\ at[t] = "entered" /\ pool = "set"
  /\ Goto(t, "ready")
  /\ UNCHANGED <<work, inAbi, activeCalls, pool, prover>>

(* Mutant of NeedsProver: the empty request waits for the prover as well. *)
AllNeedProver(w) == w \in {"prove", "empty"}

NeedsProver(w) == w = "prove"

(* Mutant of ProverFree: whoever comes proves. *)
ProverAlwaysFree == TRUE

(* lock().unwrap_or_else(into_inner): a poisoned lock is taken all the same. *)
ProverFree == prover = Nobody

Run(t) ==
  /\ at[t] = "ready"
  /\ IF NeedsProver(work[t])
     THEN ProverFree /\ prover' = t
     ELSE UNCHANGED prover
  /\ Goto(t, "running")
  /\ UNCHANGED <<work, inAbi, activeCalls, pool>>

(* Mutant of LeaveAbi: a call that panics stays on the register. *)
LeaveAbiOnReturn(t, panicked) ==
  /\ inAbi' = [inAbi EXCEPT ![t] = FALSE]
  /\ activeCalls' = IF panicked THEN activeCalls ELSE activeCalls - 1

(* CallGuard is dropped. *)
LeaveAbi(t, panicked) ==
  /\ inAbi' = [inAbi EXCEPT ![t] = FALSE]
  /\ activeCalls' = activeCalls - 1

(* The call returns, or a panic unwinds to catch_unwind and drops the guards. *)
FinishCall(t, panicked) ==
  /\ at[t] = "running"
  /\ prover' = IF prover = t THEN Nobody ELSE prover
  /\ LeaveAbi(t, panicked)
  /\ Goto(t, "outside")
  /\ UNCHANGED <<work, pool>>

(* A call that proves nothing comes to its end. *)
Returns(t) == work[t] # "prove" /\ FinishCall(t, FALSE)

NativeNext ==
  \E t \in Thread :
    \/ \E w \in CallKinds : EnterAbi(t, w)
    \/ BeginPool(t) \/ EndPool(t) \/ PoolReady(t) \/ Run(t)
    \/ \E panicked \in BOOLEAN : FinishCall(t, panicked)

(* Setting up and starting are only a matter of being scheduled.  That a proof
   ends is not: only calls that prove nothing are sure to return. *)
CallProgress(t) ==
  /\ WF_nativeVars(BeginPool(t) \/ EndPool(t))
  /\ WF_nativeVars(PoolReady(t))
  /\ WF_nativeVars(Run(t) \/ Returns(t))

NativeSpec == NativeInit /\ [][NativeNext]_nativeVars /\ \A t \in Thread : CallProgress(t)
-----------------------------------------------------------------------------
(* The register tells which threads are inside, panics included: the hook
   swallows the message of a panic only while somebody is. *)
CallsRegistered ==
  /\ activeCalls = Cardinality({t \in Thread : at[t] \in Inside})
  /\ \A t \in Thread : inAbi[t] <=> at[t] \in Inside

(* Two proofs never share the arena of the prover. *)
OneProver == Cardinality({t \in Thread : at[t] = "running" /\ work[t] = "prove"}) <= 1

ProvesNothing(t) == at[t] = "entered" /\ work[t] # "prove"
Outside(t) == at[t] = "outside"

(* Nothing but a proof waits for a proof: every other call returns, whatever
   the prover is doing. *)
OthersReturn == \A t \in Thread : ProvesNothing(t) ~> Outside(t)
=============================================================================
