-------------------------- MODULE LeanProofGossip --------------------------
(***************************************************************************)
(* Gossip of proof wrappers, from                                          *)
(*   Nethermind.Network/P2P/Subprotocols/Lean/LeanProofGossip.cs.           *)
(*                                                                         *)
(* A timer loop, one build at a time and every AddPeer publish the latest  *)
(* wrapper under _publicationLock; each Peer object has a mailbox of one   *)
(* wrapper and at most one worker, which sends outside the lock.  An       *)
(* action is one critical section of _lock, or what a thread does between  *)
(* two of them.                                                            *)
(*                                                                         *)
(* The service that builds wrappers and the sends of the protocol handlers *)
(* are the environment: the first changes what GetLatestWrapper returns at *)
(* any time, the second accept or refuse a wrapper whenever they like.     *)
(* The head has dependency proofs enabled (IsEnabled) throughout.          *)
(***************************************************************************)
EXTENDS Integers, SequencesExt

CONSTANTS
  Delegate,     \* the send delegates of the protocol handlers
  Peer,         \* the Peer objects, each made by one AddPeer
  SendOf,       \* [Peer -> Delegate]: the delegate a Peer object was made for
  Wrapper,      \* wrappers, identified with their hashes
  Loop,         \* the thread of RunAsync
  None,
  MaxRecent     \* the limit of Peer.Recent, 64 in the code

(* Tasks: a build and a worker for each peer may run at a time. *)
Task == 1..(Cardinality(Peer) + 1)

Build == "build"

(* What the theorems ask of the constants. *)
GossipAssumption ==
  /\ IsFiniteSet(Peer) /\ SendOf \in [Peer -> Delegate]
  /\ MaxRecent \in Nat \ {0}
  /\ None \notin Peer \cup Task \cup Wrapper \cup {Loop, Build}
  /\ Build \notin Peer /\ Loop \notin Peer \cup Task /\ Peer \cap Task = {}

VARIABLES
  latest,       \* the wrapper GetLatestWrapper offers, None when it fails
  peers,        \* _peers
  made,         \* the Peer objects made so far
  pending,      \* Peer.Pending
  workerOf,     \* Peer.Worker
  recent,       \* Peer.Recent: sent less than RefreshDelay ago, oldest first
  tasks,        \* the tasks of _workers: whom each serves, where it is, what it sends
  buildWorker,  \* _buildWorker
  loop,         \* where RunAsync is
  adding,       \* the AddPeer calls that are in PublishLatest
  pub,          \* the publication that holds _publicationLock
  lastWrapper,  \* _lastWrapper
  disposal,     \* how far DisposeAsync has come
  awaited       \* the tasks DisposeAsync waits for

mailbox == <<pending, workerOf, recent>>
ending  == <<disposal, awaited>>
vars == <<latest, peers, made, mailbox, tasks, buildWorker, loop, adding, pub, lastWrapper, ending>>
-----------------------------------------------------------------------------
Idle   == [for |-> None, at |-> "none", wrapper |-> None]
NoPub  == [by |-> None, at |-> "none", wrapper |-> None, same |-> FALSE, left |-> {}]

disposed == disposal # "no"

(* The Peer objects in _peers. *)
Registered == {p \in Peer : peers[SendOf[p]] = p}

FreeTask == CHOOSE k \in Task : tasks[k] = Idle

Started(who, at) == [for |-> who, at |-> at, wrapper |-> None]

WasSentRecently(p, w) == w \in ToSet(recent[p])

Init ==
  /\ latest = None
  /\ peers = [d \in Delegate |-> None] /\ made = {}
  /\ pending = [p \in Peer |-> None]
  /\ workerOf = [p \in Peer |-> None]
  /\ recent = [p \in Peer |-> <<>>]
  /\ tasks = [k \in Task |-> Idle]
  /\ buildWorker = None /\ loop = "none" /\ adding = {}
  /\ pub = NoPub /\ lastWrapper = None
  /\ disposal = "no" /\ awaited = {}
-----------------------------------------------------------------------------
(* The environment: a wrapper whose transactions have left the pool is not
   offered any more. *)
WrapperLapses ==
  /\ latest # None /\ latest' = None
  /\ UNCHANGED <<peers, made, mailbox, tasks, buildWorker, loop, adding, pub, lastWrapper, ending>>

(* RefreshDelay has passed since the oldest send.  Entries that old count for
   nothing: a newer one is never removed before them. *)
RefreshDue(p) ==
  /\ recent[p] # <<>>
  /\ recent' = [recent EXCEPT ![p] = Tail(@)]
  /\ UNCHANGED <<latest, peers, made, pending, workerOf, tasks, buildWorker, loop, adding, pub, lastWrapper, ending>>
-----------------------------------------------------------------------------
Start ==
  /\ ~disposed /\ loop = "none" /\ loop' = "waiting"
  /\ UNCHANGED <<latest, peers, made, mailbox, tasks, buildWorker, adding, pub, lastWrapper, ending>>

AddPeer(p) ==
  /\ p \notin made /\ ~disposed /\ peers[SendOf[p]] = None
  /\ made' = made \cup {p}
  /\ peers' = [peers EXCEPT ![SendOf[p]] = p]
  /\ loop' = IF loop = "none" THEN "waiting" ELSE loop
  /\ adding' = adding \cup {p}
  /\ UNCHANGED <<latest, mailbox, tasks, buildWorker, pub, lastWrapper, ending>>

(* A Peer that is no longer in _peers keeps its Recent, which nobody reads
   again: it is emptied here and in DisposeAsync. *)
RemovePeer(d) ==
  /\ peers[d] # None
  /\ peers' = [peers EXCEPT ![d] = None]
  /\ pending' = [pending EXCEPT ![peers[d]] = None]
  /\ recent' = [recent EXCEPT ![peers[d]] = <<>>]
  /\ UNCHANGED <<latest, made, workerOf, tasks, buildWorker, loop, adding, pub, lastWrapper, ending>>

(* One tick of RunAsync, up to PublishLatest; ScheduleBuild leaves a build
   that is running alone. *)
Tick ==
  /\ loop = "waiting" /\ disposal \in {"no", "closing"}
  /\ loop' = "publishing"
  /\ \/ /\ ~disposed /\ buildWorker = None
        /\ buildWorker' = FreeTask
        /\ tasks' = [tasks EXCEPT ![FreeTask] = Started(Build, "building")]
     \/ (disposed \/ buildWorker # None) /\ UNCHANGED <<buildWorker, tasks>>
  /\ UNCHANGED <<latest, peers, made, mailbox, adding, pub, lastWrapper, ending>>

LoopEnds ==
  /\ loop = "waiting" /\ disposal \in {"cancelled", "done"} /\ loop' = "ended"
  /\ UNCHANGED <<latest, peers, made, mailbox, tasks, buildWorker, adding, pub, lastWrapper, ending>>

(* RefreshWrapper answers with a wrapper, or fails. *)
Built(k, w) ==
  /\ tasks[k].at = "building"
  /\ \/ /\ w # None /\ latest' = w
        /\ tasks' = [tasks EXCEPT ![k].at = "publishing"]
     \/ /\ w = None
        /\ tasks' = [tasks EXCEPT ![k].at = "ending"]
        /\ UNCHANGED latest
  /\ UNCHANGED <<peers, made, mailbox, buildWorker, loop, adding, pub, lastWrapper, ending>>

(* Mutant of Completed: the task is removed and never completed. *)
CompletedNever(k) == awaited

(* worker.TrySetResult(): nobody waits for the task any more. *)
Completed(k) == awaited \ {k}

FinishBuild(k) ==
  /\ tasks[k].for = Build /\ tasks[k].at = "ending"
  /\ buildWorker' = None
  /\ tasks' = [tasks EXCEPT ![k] = Idle]
  /\ awaited' = Completed(k)
  /\ UNCHANGED <<latest, peers, made, mailbox, loop, adding, pub, lastWrapper, disposal>>
-----------------------------------------------------------------------------
Publishers ==
  (IF loop = "publishing" THEN {Loop} ELSE {})
    \cup {k \in Task : tasks[k].at = "publishing"} \cup adding

(* PublishLatest takes _publicationLock, reads the hash it published last and
   asks the service, which answers that this is still the latest, or with
   another wrapper, or not at all. *)
PublishLatest(c) ==
  /\ pub = NoPub /\ c \in Publishers
  /\ pub' = IF latest # None
            THEN [NoPub EXCEPT !.by = c, !.at = "asked", !.wrapper = latest, !.same = (latest = lastWrapper)]
            ELSE [NoPub EXCEPT !.by = c, !.at = "failed"]
  /\ UNCHANGED <<latest, peers, made, mailbox, tasks, buildWorker, loop, adding, lastWrapper, ending>>

(* The caller leaves PublishLatest. *)
Return(t) ==
  /\ pub' = NoPub
  /\ loop' = IF pub.by = Loop THEN "waiting" ELSE loop
  /\ adding' = adding \ {pub.by}
  /\ tasks' = [k \in Task |-> IF k = pub.by THEN [t[k] EXCEPT !.at = "ending"] ELSE t[k]]
  /\ UNCHANGED <<latest, peers, made, ending>>

(* Mutant of Withdrawn: what waits in the mailboxes is still sent. *)
WithdrawnNothing == pending

Withdrawn == [p \in Peer |-> IF p \in Registered THEN None ELSE pending[p]]

(* No wrapper is on offer: what waits for the peers is taken back. *)
WithdrawLatest ==
  /\ pub.at = "failed"
  /\ lastWrapper' = None
  /\ pending' = Withdrawn
  /\ Return(tasks)
  /\ UNCHANGED <<workerOf, recent, buildWorker>>

(* Mutant of Announces: what was published before is not offered again. *)
AnnouncesNew == ~disposed /\ ~pub.same

(* The wrapper is offered, a known one again if it is still the last. *)
Announces == ~disposed /\ (pub.same => lastWrapper = pub.wrapper)

AnnounceLatest ==
  /\ pub.at = "asked"
  /\ \/ ~Announces /\ Return(tasks) /\ UNCHANGED lastWrapper
     \/ /\ Announces
        /\ lastWrapper' = pub.wrapper
        /\ \/ Registered = {} /\ Return(tasks)
           \/ /\ Registered # {}
              /\ pub' = [pub EXCEPT !.at = "offering", !.left = Registered]
              /\ UNCHANGED <<latest, peers, made, tasks, loop, adding, ending>>
  /\ UNCHANGED <<mailbox, buildWorker>>

(* What TrySend goes on for. *)
Takes(p, w) == ~disposed /\ p \in Registered /\ ~WasSentRecently(p, w)

(* Mutant of NeedsWorker: each offer starts a worker. *)
AlwaysNeedsWorker(p) == TRUE

NeedsWorker(p) == workerOf[p] = None

(* TrySend, for the peers of the publication in any order: the last one ends
   the publication. *)
TrySend(p) ==
  LET w == pub.wrapper
      reserve == Takes(p, w) /\ NeedsWorker(p)
      t == IF reserve THEN [tasks EXCEPT ![FreeTask] = Started(p, "top")] ELSE tasks
  IN  /\ pub.at = "offering" /\ p \in pub.left
      /\ pending' = IF Takes(p, w) THEN [pending EXCEPT ![p] = w] ELSE pending
      /\ workerOf' = IF reserve THEN [workerOf EXCEPT ![p] = FreeTask] ELSE workerOf
      /\ \/ pub.left = {p} /\ Return(t)
         \/ /\ pub.left # {p}
            /\ pub' = [pub EXCEPT !.left = @ \ {p}]
            /\ tasks' = t
            /\ UNCHANGED <<latest, peers, made, loop, adding, ending>>
      /\ UNCHANGED <<recent, buildWorker, lastWrapper>>
-----------------------------------------------------------------------------
(* Mutant of Stays: the worker looks at its mailbox only. *)
StaysForPending(p) == pending[p] # None

(* Whether the worker goes on at the top of its loop. *)
Stays(p) == ~disposed /\ p \in Registered /\ pending[p] # None

(* Mutant of Sends: what waits is sent without a second look at Recent. *)
SendsAll(p) == pending[p] # None

(* Whether the worker sends what waits, or drops it as sent already. *)
Sends(p) == pending[p] # None /\ ~WasSentRecently(p, pending[p])

(* The top of the worker's loop. *)
TakePending(k) ==
  LET p == tasks[k].for
  IN  /\ tasks[k].at = "top"
      /\ \/ /\ ~Stays(p)
            /\ tasks' = [tasks EXCEPT ![k].at = "ending"]
            /\ UNCHANGED pending
         \/ /\ Stays(p)
            /\ pending' = [pending EXCEPT ![p] = None]
            /\ tasks' = IF Sends(p)
                        THEN [tasks EXCEPT ![k].at = "sending", ![k].wrapper = pending[p]]
                        ELSE tasks
      /\ UNCHANGED <<latest, peers, made, workerOf, recent, buildWorker, loop, adding, pub, lastWrapper, ending>>

(* Mutant of Remembered: the oldest entry stays. *)
RememberedAll(q, w) == Append(RemoveFirst(q, w), w)

(* Recent after w is sent. *)
Remembered(q, w) ==
  LET others == RemoveFirst(q, w)
  IN  Append(IF Len(others) = MaxRecent THEN Tail(others) ELSE others, w)

(* The send was accepted. *)
Sent(k) ==
  LET p == tasks[k].for
  IN  /\ tasks[k].at = "sending"
      /\ \/ /\ ~disposed /\ p \in Registered
            /\ recent' = [recent EXCEPT ![p] = Remembered(@, tasks[k].wrapper)]
            /\ tasks' = [tasks EXCEPT ![k] = Started(p, "top")]
         \/ /\ disposed \/ p \notin Registered
            /\ tasks' = [tasks EXCEPT ![k] = Started(p, "ending")]
            /\ UNCHANGED recent
      /\ UNCHANGED <<latest, peers, made, pending, workerOf, buildWorker, loop, adding, pub, lastWrapper, ending>>

(* The send was refused, failed, or was cancelled. *)
NotSent(k) ==
  /\ tasks[k].at = "sending"
  /\ tasks' = [tasks EXCEPT ![k] = Started(tasks[k].for, "ending")]
  /\ UNCHANGED <<latest, peers, made, mailbox, buildWorker, loop, adding, pub, lastWrapper, ending>>

(* Mutant of Continues: a worker that ends never starts the next. *)
ContinuesNever(p) == FALSE

(* Mutant of Continues: the worker does not ask whether the gossip stopped. *)
ContinuesDisposed(p) == pending[p] # None

(* Whether another worker follows one that ends. *)
Continues(p) == ~disposed /\ pending[p] # None /\ p \in Registered

FinishWorker(k) ==
  LET p == tasks[k].for
  IN  /\ p \in Peer /\ tasks[k].at = "ending"
      /\ \/ /\ Continues(p)
            /\ tasks' = [tasks EXCEPT ![k] = Started(p, "top")]
            /\ UNCHANGED workerOf
         \/ /\ ~Continues(p)
            /\ tasks' = [tasks EXCEPT ![k] = Idle]
            /\ workerOf' = [workerOf EXCEPT ![p] = None]
      /\ awaited' = Completed(k)
      /\ UNCHANGED <<latest, peers, made, pending, recent, buildWorker, loop, adding, pub, lastWrapper, disposal>>
-----------------------------------------------------------------------------
DisposeAsync ==
  /\ ~disposed /\ disposal' = "closing"
  /\ awaited' = {k \in Task : tasks[k] # Idle}
  /\ peers' = [d \in Delegate |-> None]
  /\ lastWrapper' = None
  /\ recent' = [p \in Peer |-> <<>>]
  /\ UNCHANGED <<latest, made, pending, workerOf, tasks, buildWorker, loop, adding, pub>>

CancelAsync ==
  /\ disposal = "closing" /\ disposal' = "cancelled"
  /\ UNCHANGED <<latest, peers, made, mailbox, tasks, buildWorker, loop, adding, pub, lastWrapper, awaited>>

DisposeReturns ==
  /\ disposal = "cancelled" /\ loop \in {"none", "ended"} /\ awaited = {}
  /\ disposal' = "done"
  /\ UNCHANGED <<latest, peers, made, mailbox, tasks, buildWorker, loop, adding, pub, lastWrapper, awaited>>

Worker(k) == TakePending(k) \/ Sent(k) \/ NotSent(k) \/ FinishWorker(k) \/ FinishBuild(k)

Publication ==
  \/ \E c \in {Loop} \cup Task \cup Peer : PublishLatest(c)
  \/ WithdrawLatest \/ AnnounceLatest
  \/ \E p \in Peer : TrySend(p)

Next ==
  \/ WrapperLapses \/ Start \/ Tick \/ LoopEnds
  \/ \E p \in Peer : RefreshDue(p) \/ AddPeer(p)
  \/ \E d \in Delegate : RemovePeer(d)
  \/ \E k \in Task, w \in Wrapper \cup {None} : Built(k, w)
  \/ \E k \in Task : Worker(k)
  \/ Publication
  \/ DisposeAsync \/ CancelAsync \/ DisposeReturns

Spec == Init /\ [][Next]_vars

(* The thread pool runs what was started and the timer ticks; a send ends, and
   one that is tried over and over is accepted at last; time passes. *)
FairSpec ==
  /\ Spec
  /\ WF_vars(Tick) /\ WF_vars(LoopEnds) /\ WF_vars(Publication)
  /\ WF_vars(CancelAsync) /\ WF_vars(DisposeReturns)
  /\ \A p \in Peer : WF_vars(RefreshDue(p))
  /\ \A k \in Task : WF_vars(Worker(k)) /\ SF_vars(Sent(k))
                     /\ WF_vars(\E w \in Wrapper \cup {None} : Built(k, w))
-----------------------------------------------------------------------------
TypeOK ==
  /\ latest \in Wrapper \cup {None}
  /\ peers \in [Delegate -> Peer \cup {None}] /\ made \subseteq Peer
  /\ \A d \in Delegate : peers[d] # None => SendOf[peers[d]] = d
  /\ pending \in [Peer -> Wrapper \cup {None}]
  /\ workerOf \in [Peer -> Task \cup {None}]
  /\ recent \in [Peer -> Seq(Wrapper)] /\ \A p \in Peer : Len(recent[p]) <= MaxRecent
  /\ tasks \in [Task -> [for : Peer \cup {Build, None},
                         at : {"none", "building", "publishing", "top", "sending", "ending"},
                         wrapper : Wrapper \cup {None}]]
  /\ buildWorker \in Task \cup {None}
  /\ loop \in {"none", "waiting", "publishing", "ended"}
  /\ adding \subseteq Peer
  /\ pub \in [by : {None, Loop} \cup Task \cup Peer,
              at : {"none", "asked", "failed", "offering"},
              wrapper : Wrapper \cup {None}, same : BOOLEAN, left : SUBSET Peer]
  /\ lastWrapper \in Wrapper \cup {None}
  /\ disposal \in {"no", "closing", "cancelled", "done"} /\ awaited \subseteq Task

(* Peer.Worker names the one worker of its peer that is running: no two sends
   to a peer overlap and no worker runs unknown to TrySend. *)
OneWorkerPerPeer ==
  \A p \in Peer : {k \in Task : tasks[k].for = p} = {workerOf[p]} \ {None}

(* Whatever waits for a connected peer has a worker to send it, one that ends
   at that very moment included. *)
PendingHasWorker == \A p \in Registered : pending[p] # None => workerOf[p] # None

(* While a wrapper is on its way to a peer it is not among those the peer was
   sent within the refresh delay. *)
SendsAreNew ==
  \A k \in Task : tasks[k].at = "sending" => ~WasSentRecently(tasks[k].for, tasks[k].wrapper)

(* "Rechecks pending membership": once a publication found no wrapper on
   offer, nothing waits for any peer until the next one is published. *)
WithdrawnNotWaiting ==
  lastWrapper = None => \A p \in Registered : pending[p] = None

(* When DisposeAsync has returned nothing it started is still running, so
   nothing can touch the disposed token source. *)
DisposedQuiet ==
  disposal = "done" => loop \in {"none", "ended"} /\ \A k \in Task : tasks[k] = Idle

(* One worker for each peer, whatever starts and ends meanwhile: it has what
   waits, sends nothing twice and is gone when the gossip is. *)
GossipSound ==
  TypeOK /\ OneWorkerPerPeer /\ PendingHasWorker /\ SendsAreNew /\ WithdrawnNotWaiting
    /\ DisposedQuiet

Feed == INSTANCE WrapperFeed WITH
  current <- lastWrapper,
  members <- Registered,
  next    <- [p \in Peer |-> IF p \in Registered THEN pending[p] ELSE None],
  sending <- [p \in Peer |-> {tasks[k].wrapper : k \in {j \in Task : tasks[j].for = p /\ tasks[j].at = "sending"}}],
  closed  <- disposed

(* The gossip keeps the promise of the feed. *)
ImplementsFeed == Feed!Spec

(* A peer that stays connected while one wrapper stays on offer is sent it,
   and again after each refresh delay, whatever else happens meanwhile. *)
LatestReachesPeers ==
  \A p \in Peer, w \in Wrapper :
     <>[](p \in Registered /\ latest = w) => []<>(WasSentRecently(p, w))

(* DisposeAsync returns. *)
DisposalEnds == disposal = "closing" ~> disposal = "done"
=============================================================================
