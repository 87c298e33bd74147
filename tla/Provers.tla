------------------------------- MODULE Provers -------------------------------
(***************************************************************************)
(* What proves: the isolated process with its owner, and the native library *)
(* with the threads that call it.  The two have no state in common; a       *)
(* request of the worker is one native call inside its process, so that     *)
(* whoever waits for a proof relies on both.                                *)
(***************************************************************************)
EXTENDS ProverWorker, NativeCalls

proverVars == <<workerVars, nativeVars>>

ProversInit == WorkerInit /\ NativeInit

ProversNext ==
  \/ WorkerNext /\ UNCHANGED nativeVars
  \/ NativeNext /\ UNCHANGED workerVars

ProversSpec == ProversInit /\ [][ProversNext]_proverVars
-----------------------------------------------------------------------------
(* One process serves all callers over two pipes that carry nothing to tell
   their requests apart (AdaptiveProofWorker.cs:36): a proof goes to the caller
   who asked for it, between two calls the pipes are empty, and no process
   outlives Dispose.  In the library two proofs never share the arena, and the
   register tells which threads are inside, panics included. *)
ProversSound ==
  /\ WorkerTypeOK /\ AnswerBelongs /\ PipesInStep /\ DisposedStopped
  /\ CallsRegistered /\ OneProver
=============================================================================
