----------------------------- MODULE MCProgress -----------------------------
(* Components that have to make progress, side by side: each behaviour is of one
   of them, "part", while the others rest in their initial states. *)
EXTENDS LeanProtocolHandler, AggregateTree, Provers, BlockStreamer, EngineMethods, TLC

CONSTANTS m1, m2, m3, m4, k1, k2, r1, r2, g1, c1, c2

(* Rows of recursive proofs, up to three of them. *)
MCChildRows == UNION {[1..n -> SUBSET {r1, r2, g1} \ {{}}] : n \in 0..3}

MCStored == ("b1" :> "blinded") @@ ("b3" :> "full")
MCRequests == {<<"b1", "b3", "b1">>}

(* An engine that lists what the calls need, and one that lists nothing. *)
New == {<<"newPayload", 4>>, <<"forkchoice", 3>>, <<"clientVersion", 1>>}
MCBuilds == {{}, New}
MCAsks ==
  {[kind |-> "newPayload", of |-> "daisugi"]} \cup [kind : {"clientVersion", "refresh"}, of : {"none"}]

VARIABLE part    \* the component a behaviour is of

all == <<part, vars, treeVars, workerVars, nativeVars, streamVars, methodVars>>

SideInit ==
  /\ part \in {"handler", "tree", "worker", "native", "stream", "methods"}
  /\ Init /\ TreeInit /\ ProversInit /\ StreamInit
  /\ MethodInit /\ (part # "methods" => execution.methods = New)

(* What the component at work does not have. *)
Resting ==
  /\ part # "handler" => UNCHANGED vars
  /\ part # "tree" => UNCHANGED treeVars
  /\ part # "worker" => UNCHANGED workerVars
  /\ part # "native" => UNCHANGED nativeVars
  /\ part # "stream" => UNCHANGED streamVars
  /\ part # "methods" => UNCHANGED methodVars

SideNext ==
  /\ UNCHANGED part
  /\ \/ part = "handler" /\ Next
     \/ part = "tree" /\ TreeNext
     \/ part = "worker" /\ WorkerNext
     \/ part = "native" /\ NativeNext
     \/ part = "stream" /\ StreamNext
     \/ part = "methods" /\ MethodNext
  /\ Resting

(* The steps each component is fair to, as its own module states them.  Fairness
   to one of them says nothing of a behaviour of another component, so that
   those of the same place share a formula. *)
Weak(i) ==
  \/ /\ part = "handler"
     /\ \/ i = 1 /\ Network
        \/ i = 2 /\ RemovePeer
        \/ i = 3 /\ DisposeClears
        \/ i = 4 /\ Work(k1)
        \/ i = 5 /\ Work(k2)
        \/ i = 6 /\ RetryEnds(k1)
        \/ i = 7 /\ RetryEnds(k2)
  \/ /\ part = "worker"
     /\ \/ i = 1 /\ Start(c1)
        \/ i = 2 /\ Start(c2)
        \/ i = 3 /\ FailExchange(c1)
        \/ i = 4 /\ FailExchange(c2)
        \/ i = 5 /\ ReadProof(c1)
        \/ i = 6 /\ ReadProof(c2)
  \/ /\ part = "native"
     /\ \/ i = 1 /\ (BeginPool(c1) \/ EndPool(c1))
        \/ i = 2 /\ (BeginPool(c2) \/ EndPool(c2))
        \/ i = 3 /\ PoolReady(c1)
        \/ i = 4 /\ PoolReady(c2)
        \/ i = 5 /\ (Run(c1) \/ Returns(c1))
        \/ i = 6 /\ (Run(c2) \/ Returns(c2))
  \/ part = "tree" /\ i = 1 /\ Steps
  \/ part = "stream" /\ i = 1 /\ StreamSteps

Strong(i) ==
  \/ /\ part = "worker"
     /\ \/ i = 1 /\ Enter(c1)
        \/ i = 2 /\ Enter(c2)
  \/ /\ part = "methods"
     /\ \/ i = 1 /\ Ends(c1)
        \/ i = 2 /\ Ends(c2)

SideSpec ==
  /\ SideInit /\ [][SideNext]_all
  /\ \A i \in 1..7 : WF_all(Weak(i) /\ Resting /\ UNCHANGED part)
  /\ \A i \in 1..2 : SF_all(Strong(i) /\ Resting /\ UNCHANGED part)
-----------------------------------------------------------------------------
(* Whoever calls gets an answer, however often others fail, cancel or panic: a
   request of the worker that reached the gate, a native call that proves
   nothing, a tree of proofs, a stream of blocks, a call of the engine. *)
CallsEnd ==
  /\ TreeEnds
  /\ \A c \in {c1, c2} :
       /\ Waits(c) ~> HasEnded(c)
       /\ ProvesNothing(c) ~> Outside(c)
       /\ Calls(c) ~> ~Calls(c)
  /\ Launched ~> StreamOver
=============================================================================
