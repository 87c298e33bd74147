---------------------------- MODULE ProverWorker ----------------------------
(***************************************************************************)
(* The isolated prover: the child process of worker.rs and the             *)
(* AdaptiveProofWorker of the execution client that owns it.               *)
(*                                                                         *)
(* Requests and answers cross two pipes in pieces and carry no identifier: *)
(* that an answer belongs to the request of its caller rests on the gate,  *)
(* and on killing the process after anything but a complete exchange.  A   *)
(* deadline cuts an exchange anywhere, also in the middle of a request.    *)
(***************************************************************************)
EXTENDS Integers, SequencesExt

CONSTANTS
  Caller,      \* threads that call Prove, once each
  Starts,      \* how many processes may be started in a behaviour (a bound)
  NoOne

ASSUME NoOneAssumption == NoOne \notin Caller /\ Starts \in Nat

(* What one request and one answer are made of, in the order of the reads. *)
RequestParts == <<"length", "hash", "key", "body">>
AnswerParts == <<"header", "proof">>

VARIABLES
  gate,        \* the caller inside lock (_gate), or NoOne
  call,        \* call[c]: where the call of c stands
  written,     \* how many parts of its request the holder of the gate has written
  answer,      \* answer[c]: whose proof c was given
  process,     \* "none" (_process is null), "running" or "exited" (HasExited)
  child,       \* the child: [reads: parts read, for: whose request, replying]
  stdin, stdout, \* the pipes of the current process
  workerDisposed,
  starts

pipes == <<stdin, stdout>>
workerVars == <<gate, call, written, answer, process, child, pipes, workerDisposed, starts>>

NewChild == [reads |-> 0, for |-> NoOne, replying |-> 0]
Ended == {"returned", "thrown"}
Exchanging(c) == gate = c /\ call[c] = "exchange"

WorkerInit ==
  /\ gate = NoOne
  /\ call = [c \in Caller |-> "idle"]
  /\ written = 0
  /\ answer = [c \in Caller |-> NoOne]
  /\ process = "none"
  /\ child = NewChild
  /\ stdin = <<>> /\ stdout = <<>>
  /\ workerDisposed = FALSE
  /\ starts = 0
-----------------------------------------------------------------------------
(* Stop: the process is killed and forgotten, and its pipes with it. *)
Stop ==
  /\ process' = "none"
  /\ child' = NewChild
  /\ stdin' = <<>> /\ stdout' = <<>>

(* Mutant of StopAfterFailure: the process of a failed exchange is kept. *)
KeepAfterFailure == UNCHANGED <<process, child, pipes>>

StopAfterFailure == Stop

(* Mutant of Leave: a call that throws does not give the gate back. *)
LeaveLocked(c, outcome) ==
  /\ gate' = IF outcome = "returned" THEN NoOne ELSE gate
  /\ call' = [call EXCEPT ![c] = outcome]
  /\ written' = 0

Leave(c, outcome) ==
  /\ gate' = NoOne
  /\ call' = [call EXCEPT ![c] = outcome]
  /\ written' = 0

(* Prove, its argument checks, and the wait for the gate. *)
Prove(c) ==
  /\ call[c] = "idle"
  /\ \E outcome \in {"waiting", "thrown"} : call' = [call EXCEPT ![c] = outcome]
  /\ UNCHANGED <<gate, written, answer, process, child, pipes, workerDisposed, starts>>

(* Mutant of IsDisposed: a disposed worker is not refused. *)
NeverDisposed == FALSE

(* Prove asks whether the worker is disposed once it is inside the gate. *)
IsDisposed == workerDisposed

Enter(c) ==
  /\ call[c] = "waiting" /\ gate = NoOne
  /\ IF IsDisposed
     THEN call' = [call EXCEPT ![c] = "thrown"] /\ UNCHANGED gate
     ELSE call' = [call EXCEPT ![c] = "start"] /\ gate' = c
  /\ UNCHANGED <<written, answer, process, child, pipes, workerDisposed, starts>>

(* Start: the living process, or a fresh one after Stop.  Starting one fails
   where the program is not installed or cannot be run. *)
Start(c) ==
  /\ gate = c /\ call[c] = "start"
  /\ \/ /\ process = "running"
        /\ call' = [call EXCEPT ![c] = "exchange"]
        /\ UNCHANGED <<gate, written, process, child, pipes, starts>>
     \/ /\ process # "running" /\ starts < Starts
        /\ process' = "running" /\ child' = NewChild
        /\ stdin' = <<>> /\ stdout' = <<>>
        /\ starts' = starts + 1
        /\ call' = [call EXCEPT ![c] = "exchange"]
        /\ UNCHANGED <<gate, written>>
     \/ /\ process # "running"
        /\ Stop /\ Leave(c, "thrown")
        /\ UNCHANGED starts
  /\ UNCHANGED <<answer, workerDisposed>>

(* WriteAsync: the request reaches the pipe part by part. *)
WriteRequest(c) ==
  /\ Exchanging(c) /\ process = "running" /\ written < Len(RequestParts)
  /\ written' = written + 1
  /\ stdin' = Append(stdin, <<RequestParts[written + 1], c>>)
  /\ UNCHANGED <<gate, call, answer, process, child, stdout, workerDisposed, starts>>

(* The deadline, a broken pipe, or an answer that is refused. *)
FailExchange(c) ==
  /\ Exchanging(c)
  /\ StopAfterFailure
  /\ Leave(c, "thrown")
  /\ UNCHANGED <<answer, workerDisposed, starts>>

(* The header with its valid byte, then the proof it announces. *)
ReadHeader(c) ==
  /\ Exchanging(c) /\ written = Len(RequestParts)
  /\ stdout # <<>> /\ Head(stdout)[1] = "header"
  /\ stdout' = Tail(stdout)
  /\ call' = [call EXCEPT ![c] = "proof"]
  /\ UNCHANGED <<gate, written, answer, process, child, stdin, workerDisposed, starts>>

ReadProof(c) ==
  /\ gate = c /\ call[c] = "proof"
  /\ \/ /\ stdout # <<>> /\ Head(stdout)[1] = "proof"
        /\ answer' = [answer EXCEPT ![c] = Head(stdout)[2]]
        /\ stdout' = Tail(stdout)
        /\ Leave(c, "returned")
        /\ UNCHANGED <<process, child, stdin>>
     \/ StopAfterFailure /\ Leave(c, "thrown") /\ UNCHANGED answer
  /\ UNCHANGED <<workerDisposed, starts>>

DisposeWorker ==
  /\ gate = NoOne /\ ~workerDisposed
  /\ workerDisposed' = TRUE
  /\ Stop
  /\ UNCHANGED <<gate, call, written, answer, starts>>
-----------------------------------------------------------------------------
(* The child reads the parts of a request in order; the next part in the pipe
   is taken for the part it waits for, whatever it was sent as.  A length that
   is out of bounds (here: a part that is no length) ends the process. *)
ChildReads ==
  /\ process = "running" /\ stdin # <<>> /\ child.for = NoOne
  /\ IF child.reads = 0 /\ Head(stdin)[1] # "length"
     THEN process' = "exited" /\ UNCHANGED <<child, stdin>>
     ELSE /\ stdin' = Tail(stdin)
          /\ child' = [child EXCEPT !.reads = @ + 1,
                         !.for = IF child.reads + 1 = Len(RequestParts)
                                 THEN Head(stdin)[2] ELSE NoOne]
          /\ UNCHANGED process
  /\ UNCHANGED <<gate, call, written, answer, stdout, workerDisposed, starts>>

(* Mutant of Served: the buffers of a request are not fresh for the next one. *)
ServedKeeping == [child EXCEPT !.for = NoOne, !.replying = 0]

(* The loop of worker.rs comes round: everything is read anew. *)
Served == NewChild

(* nlean_prove_recursive answers, and the answer is written and flushed. *)
ChildReplies ==
  /\ process = "running" /\ child.for # NoOne
  /\ stdout' = Append(stdout, <<AnswerParts[child.replying + 1], child.for>>)
  /\ child' = IF child.replying + 1 = Len(AnswerParts) THEN Served
              ELSE [child EXCEPT !.replying = @ + 1]
  /\ UNCHANGED <<gate, call, written, answer, process, stdin, workerDisposed, starts>>

(* The child dies: an abort inside the prover, or the system kills it. *)
ChildCrashes ==
  /\ process = "running"
  /\ process' = "exited"
  /\ UNCHANGED <<gate, call, written, answer, child, pipes, workerDisposed, starts>>

WorkerNext ==
  \/ \E c \in Caller : \/ Prove(c) \/ Enter(c) \/ Start(c) \/ WriteRequest(c)
                       \/ FailExchange(c) \/ ReadHeader(c) \/ ReadProof(c)
  \/ DisposeWorker \/ ChildReads \/ ChildReplies \/ ChildCrashes

(* A thread that may go on goes on; the deadline of an exchange fires. *)
CallerFairness(c) ==
  /\ WF_workerVars(Start(c)) /\ WF_workerVars(FailExchange(c))
  /\ WF_workerVars(ReadProof(c)) /\ SF_workerVars(Enter(c))

WorkerSpec == WorkerInit /\ [][WorkerNext]_workerVars /\ \A c \in Caller : CallerFairness(c)
-----------------------------------------------------------------------------
WorkerTypeOK ==
  /\ gate \in Caller \cup {NoOne}
  /\ call \in [Caller -> {"idle", "waiting", "start", "exchange", "proof"} \cup Ended]
  /\ written \in 0..Len(RequestParts)
  /\ answer \in [Caller -> Caller \cup {NoOne}]
  /\ process \in {"none", "running", "exited"}
  /\ child.reads \in 0..Len(RequestParts) /\ child.for \in Caller \cup {NoOne}
  /\ workerDisposed \in BOOLEAN /\ starts \in 0..Starts

(* A caller that is given a proof is given the proof of its own request, though
   answers carry nothing that says whose they are (AdaptiveProofWorker.cs:36). *)
AnswerBelongs == \A c \in Caller : call[c] = "returned" => answer[c] = c

(* Between two calls a living process waits for a length and neither pipe holds
   anything: what the next caller writes is read as a request of its own. *)
PipesInStep ==
  gate = NoOne /\ process = "running" => stdin = <<>> /\ stdout = <<>> /\ child = NewChild

(* No process outlives Dispose: no call that was waiting starts one again. *)
DisposedStopped == workerDisposed => process = "none"

Waits(c) == call[c] = "waiting"
HasEnded(c) == call[c] \in Ended

(* Every call that reached the gate ends, whatever becomes of the process. *)
WorkerCallsEnd == \A c \in Caller : Waits(c) ~> HasEnded(c)
=============================================================================
