---------------------------- MODULE MCInterrupted ----------------------------
(* Submissions that are interrupted and gossip, side by side, for what must come
   to an end: each behaviour is of one of them, "part", while the other rests. *)
EXTENDS MCProofAdmission

CONSTANTS p1, g1, w1, w2, Loop

VARIABLES
  part,    \* the component a behaviour is of
  x1, x2, x3, x4, x5, x6, x7, x8, x9, x10, x11, x12, x13, x14   \* the gossip's variables

Gossip == INSTANCE LeanProofGossip WITH
  Delegate <- {g1}, Peer <- {p1}, SendOf <- [p \in {p1} |-> g1], Wrapper <- {w1, w2},
  Loop <- Loop, MaxRecent <- 1,
  latest <- x1, peers <- x2, made <- x3, pending <- x4, workerOf <- x5,
  recent <- x6, tasks <- x7, buildWorker <- x8, loop <- x9, adding <- x10,
  pub <- x11, lastWrapper <- x12, disposal <- x13, awaited <- x14

gossipVars == <<x1, x2, x3, x4, x5, x6, x7, x8, x9, x10, x11, x12, x13, x14>>
all == <<part, admissionVars, gossipVars>>

SideInit == AdmissionInit /\ Gossip!Init /\ part \in {"admission", "gossip"}

Submitting(A) == part = "admission" /\ A /\ UNCHANGED <<part, gossipVars>>
Gossiping(A) == part = "gossip" /\ A /\ UNCHANGED <<part, admissionVars>>

SideNext == Submitting(AdmissionNext) \/ Gossiping(Gossip!Next)

(* The steps each component is fair to, as its own module states them.  Fairness
   to one of them says nothing of a behaviour of the other, so that those of the
   same place share a formula. *)
Weak(i) ==
  \/ i = 1 /\ Gossiping(Gossip!Tick)
  \/ i = 2 /\ Gossiping(Gossip!LoopEnds)
  \/ i = 3 /\ Gossiping(Gossip!Publication)
  \/ i = 4 /\ Gossiping(Gossip!CancelAsync)
  \/ i = 5 /\ Gossiping(Gossip!DisposeReturns)
  \/ i = 6 /\ Gossiping(Gossip!RefreshDue(p1))
  \/ i = 6 /\ Submitting(ReleasePool)

Serving(k) == Gossiping(Gossip!Worker(k))
Building(k) == Gossiping(\E w \in {w1, w2, None} : Gossip!Built(k, w))

Strong(i) ==
  \/ Gossiping(Gossip!Sent(i))
  \/ i = 1 /\ Submitting(Continue(f1))
  \/ i = 2 /\ Submitting(Continue(f2))

SideSpec ==
  /\ SideInit /\ [][SideNext]_all
  /\ \A i \in 1..6 : WF_all(Weak(i))
  /\ \A k \in Gossip!Task : WF_all(Serving(k)) /\ WF_all(Building(k)) /\ SF_all(Strong(k))
-----------------------------------------------------------------------------
Closing == IF part = "gossip" THEN x13 = "closing" ELSE phase = "closing"
Closed == IF part = "gossip" THEN x13 = "done" ELSE phase = "closed"

Waiting == IF part = "gossip" THEN p1 \in Gossip!Registered /\ x1 = w1 ELSE admissionActive # None
Served == part = "gossip" /\ Gossip!WasSentRecently(p1, w1)

(* Whatever lapses, is withdrawn, throws or is cancelled: a peer that stays
   connected while one wrapper stays on offer is sent it, again after each
   refresh delay (the wrappers are alike); the gate of admission is given back;
   and the disposals of both end. *)
WorkEnds ==
  /\ Closing ~> Closed
  /\ <>[]Waiting => []<>Served
=============================================================================
