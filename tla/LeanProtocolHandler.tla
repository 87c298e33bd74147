------------------------ MODULE LeanProtocolHandler ------------------------
(***************************************************************************)
(* The receiving side of a lean connection, from                           *)
(*   Nethermind.Network/P2P/Subprotocols/Lean/LeanProtocolHandler.cs.       *)
(*                                                                         *)
(* The network thread takes the peer's status and then wrapper messages,   *)
(* one after the other.  A background task works on one message while one  *)
(* more waits, the newest that came.  Any thread may dispose the handler   *)
(* at any moment.  A message owns pooled memory and has to be disposed.    *)
(*                                                                         *)
(* External: the scheduler of background tasks, which takes a task,        *)
(* refuses it or throws, and may cancel it; AcceptDetailedAsync, which     *)
(* answers, is busy, or throws; and the gossip, of which only the          *)
(* registration of this handler is kept.  Packets that complete no message *)
(* or exceed the rate of a second change nothing here.                     *)
(***************************************************************************)
EXTENDS Integers, FiniteSets

CONSTANTS
  Message,      \* the wrapper messages of the peer, each decoded once
  Task,         \* background tasks
  None

ASSUME NoneAssumption == None \notin Message

VARIABLES
  initialized,  \* _initialized
  registered,   \* whether the gossip sends to this peer
  receiving,    \* _receiving
  active,       \* _active
  pending,      \* _pending
  network,      \* where the network thread is in HandleMessageCore, and its wrapper
  tasks,        \* where each Receive is, its message, and whether retryUntil has passed
  came,         \* the messages decoded so far
  releases,     \* how often each message was disposed
  disposal      \* how far Dispose has come

slot    == <<receiving, active, pending>>
session == <<initialized, registered>>
vars    == <<session, slot, network, tasks, came, releases, disposal>>
-----------------------------------------------------------------------------
disposed == disposal # "no"

Waiting == [at |-> "idle", msg |-> None]
NoTask  == [at |-> "none", msg |-> None, late |-> FALSE]

(* message?.Dispose() for each of a set. *)
Release(S) == releases' = [m \in Message |-> IF m \in S THEN releases[m] + 1 ELSE releases[m]]

Init ==
  /\ initialized = FALSE /\ registered = FALSE
  /\ receiving = FALSE /\ active = None /\ pending = None
  /\ network = Waiting /\ tasks = [k \in Task |-> NoTask]
  /\ came = {} /\ releases = [m \in Message |-> 0]
  /\ disposal = "no"

(* Mutant of ClearReceive: the fields keep what was given back. *)
ClearKeeping == receiving' = FALSE /\ Release({active, pending}) /\ UNCHANGED <<active, pending>>

ClearReceive ==
  /\ receiving' = FALSE /\ active' = None /\ pending' = None
  /\ Release({active, pending})
-----------------------------------------------------------------------------
(* The network thread.  A status that fits registers the handler, unless it
   was disposed meanwhile; another one disposes it. *)
Status ==
  /\ network = Waiting /\ ~disposed /\ ~initialized
  /\ \/ network' = [Waiting EXCEPT !.at = "status"] /\ UNCHANGED disposal
     \/ disposal' = "marked" /\ UNCHANGED network
  /\ UNCHANGED <<session, slot, tasks, releases, came>>

(* Mutant of MayInitialize: the lock is taken without a second look. *)
InitializeAlways == TRUE

MayInitialize == ~disposed

Initialize ==
  /\ network.at = "status" /\ network' = Waiting
  /\ \/ MayInitialize /\ initialized' = TRUE /\ registered' = TRUE
     \/ ~MayInitialize /\ UNCHANGED session
  /\ UNCHANGED <<slot, tasks, releases, disposal, came>>

(* The last packet of a message arrives and is decoded. *)
Decode(m) ==
  /\ network = Waiting /\ ~disposed /\ initialized
  /\ m \notin came /\ came' = came \cup {m}
  /\ network' = [at |-> "decoded", msg |-> m]
  /\ UNCHANGED <<session, slot, tasks, releases, disposal>>

(* Mutant of SlotTaken: the message, which Receive takes away, stands for the
   flag. *)
SlotActive == active # None

SlotTaken == receiving

(* The slot takes the message, or it waits instead of an older one. *)
Enqueue ==
  /\ network.at = "decoded"
  /\ \/ /\ disposed
        /\ Release({network.msg})
        /\ network' = Waiting
        /\ UNCHANGED slot
     \/ /\ ~disposed /\ SlotTaken
        /\ pending' = network.msg /\ Release({pending})
        /\ network' = Waiting
        /\ UNCHANGED <<receiving, active>>
     \/ /\ ~disposed /\ ~SlotTaken
        /\ receiving' = TRUE /\ active' = network.msg
        /\ network' = [Waiting EXCEPT !.at = "scheduling"]
        /\ UNCHANGED <<pending, releases>>
  /\ UNCHANGED <<session, tasks, disposal, came>>

(* The scheduler takes a Receive. *)
Queued(k, t) == tasks[k] = NoTask /\ tasks' = [t EXCEPT ![k].at = "queued"]

(* Mutant of Refused: a refusal leaves the slot taken. *)
RefusedQuietly == Waiting

(* The network thread clears the slot next. *)
Refused == [Waiting EXCEPT !.at = "refused"]

NetworkSchedules ==
  /\ network.at = "scheduling"
  /\ \/ network' = Waiting /\ \E k \in Task : Queued(k, tasks)
     \/ network' = Refused /\ UNCHANGED tasks
  /\ UNCHANGED <<session, slot, releases, disposal, came>>

NetworkClears ==
  /\ network.at = "refused" /\ network' = Waiting
  /\ ClearReceive
  /\ UNCHANGED <<session, tasks, disposal, came>>
-----------------------------------------------------------------------------
(* Receive takes the message, if nobody else took it away. *)
Receive(k) ==
  /\ tasks[k].at = "queued" /\ active' = None
  /\ \/ /\ active = None \/ disposed
        /\ Release({active})
        /\ receiving' = FALSE
        /\ tasks' = [tasks EXCEPT ![k] = NoTask]
     \/ /\ active # None /\ ~disposed
        /\ tasks' = [tasks EXCEPT ![k] = [at |-> "accepting", msg |-> active, late |-> FALSE]]
        /\ UNCHANGED <<receiving, releases>>
  /\ UNCHANGED <<session, pending, network, disposal, came>>

Leaves(k, at) ==
  /\ Release({tasks[k].msg})
  /\ tasks' = [tasks EXCEPT ![k] = [NoTask EXCEPT !.at = at]]

(* Mutant of RetryOver: the handler asks until it gets an answer. *)
RetryForEver(k) == FALSE

(* retryUntil has passed. *)
RetryOver(k) == tasks[k].late

(* The service is busy: ask again in 100 ms, for five seconds. *)
Busy(k) ==
  /\ tasks[k].at = "accepting"
  /\ \/ RetryOver(k) /\ Leaves(k, "finishing")
     \/ ~RetryOver(k) /\ tasks' = [tasks EXCEPT ![k].at = "delaying"] /\ UNCHANGED releases
  /\ UNCHANGED <<session, slot, network, disposal, came>>

Retry(k) ==
  /\ tasks[k].at = "delaying"
  /\ tasks' = [tasks EXCEPT ![k].at = "accepting"]
  /\ UNCHANGED <<session, slot, network, releases, disposal, came>>

RetryEnds(k) ==
  /\ tasks[k].at \in {"accepting", "delaying"} /\ ~tasks[k].late
  /\ tasks' = [tasks EXCEPT ![k].late = TRUE]
  /\ UNCHANGED <<session, slot, network, releases, disposal, came>>

(* The service has taken the wrapper or turned it down; or the wrapper is
   invalid, the service throws, or the task is cancelled. *)
Accepted(k) ==
  /\ tasks[k].at = "accepting" /\ Leaves(k, "finishing")
  /\ UNCHANGED <<session, slot, network, disposal, came>>

Fails(k) ==
  /\ tasks[k].at \in {"accepting", "delaying"} /\ Leaves(k, "clearing")
  /\ UNCHANGED <<session, slot, network, disposal, came>>

(* What waited is next. *)
Finish(k) ==
  /\ tasks[k].at = "finishing"
  /\ \/ /\ pending # None /\ ~disposed
        /\ receiving' = TRUE /\ active' = pending
        /\ tasks' = [tasks EXCEPT ![k].at = "scheduling"]
        /\ UNCHANGED releases
     \/ /\ pending = None \/ disposed
        /\ receiving' = FALSE /\ active' = None
        /\ Release({pending})
        /\ tasks' = [tasks EXCEPT ![k] = NoTask]
  /\ pending' = None
  /\ UNCHANGED <<session, network, disposal, came>>

TaskSchedules(k) ==
  /\ tasks[k].at = "scheduling"
  /\ \/ \E j \in Task \ {k} : Queued(j, [tasks EXCEPT ![k] = NoTask])
     \/ tasks' = [tasks EXCEPT ![k].at = "clearing"]
  /\ UNCHANGED <<session, slot, network, releases, disposal, came>>

TaskClears(k) ==
  /\ tasks[k].at = "clearing"
  /\ tasks' = [tasks EXCEPT ![k] = NoTask]
  /\ ClearReceive
  /\ UNCHANGED <<session, network, disposal, came>>
-----------------------------------------------------------------------------
(* Dispose, which only the first caller goes through. *)
Dispose ==
  /\ ~disposed /\ disposal' = "marked"
  /\ UNCHANGED <<session, slot, network, tasks, releases, came>>

RemovePeer ==
  /\ disposal = "marked" /\ disposal' = "removed"
  /\ registered' = FALSE
  /\ UNCHANGED <<initialized, slot, network, tasks, releases, came>>

DisposeClears ==
  /\ disposal = "removed" /\ disposal' = "done"
  /\ ClearReceive
  /\ UNCHANGED <<session, network, tasks, came>>

Network == Initialize \/ Enqueue \/ NetworkSchedules \/ NetworkClears

Work(k) == \/ Receive(k) \/ Busy(k) \/ Retry(k) \/ Accepted(k) \/ Fails(k)
           \/ Finish(k) \/ TaskSchedules(k) \/ TaskClears(k)

Next ==
  \/ Status \/ Network
  \/ \E m \in Message : Decode(m)
  \/ \E k \in Task : Work(k) \/ RetryEnds(k)
  \/ Dispose \/ RemovePeer \/ DisposeClears

Spec == Init /\ [][Next]_vars

(* Threads go on, and time passes. *)
FairSpec ==
  /\ Spec
  /\ WF_vars(Network) /\ WF_vars(RemovePeer) /\ WF_vars(DisposeClears)
  /\ \A k \in Task : WF_vars(Work(k)) /\ WF_vars(RetryEnds(k))
-----------------------------------------------------------------------------
(* Types; no message is disposed twice. *)
TypeOK ==
  /\ initialized \in BOOLEAN /\ registered \in BOOLEAN /\ receiving \in BOOLEAN
  /\ active \in Message \cup {None} /\ pending \in Message \cup {None}
  /\ network \in [at : {"idle", "status", "decoded", "scheduling", "refused"}, msg : Message \cup {None}]
  /\ tasks \in [Task -> [at : {"none", "queued", "accepting", "delaying", "finishing", "scheduling", "clearing"},
                         msg : Message \cup {None}, late : BOOLEAN]]
  /\ came \subseteq Message /\ releases \in [Message -> 0..1]
  /\ disposal \in {"no", "marked", "removed", "done"}

(* The places that hold a message. *)
Places(m) ==
  (IF active = m THEN {<<"active", None>>} ELSE {})
    \cup (IF pending = m THEN {<<"pending", None>>} ELSE {})
    \cup (IF network.msg = m THEN {<<"network", None>>} ELSE {})
    \cup {<<"task", k>> : k \in {j \in Task : tasks[j].msg = m}}

(* A message is in one place until it is disposed, once, and then nowhere: its
   memory is neither lost nor given back while somebody reads it. *)
MessagesAccounted == \A m \in came : Cardinality(Places(m)) + releases[m] = 1

(* One wrapper of a peer is worked on at a time, however often he sends. *)
OneReceive ==
  /\ Cardinality({k \in Task : tasks[k] # NoTask}) <= 1
  /\ network.at \in {"scheduling", "refused"} => \A k \in Task : tasks[k] = NoTask

(* When neither thread is at work the slot is free, so that the next wrapper is
   not refused for ever; only a Dispose that is under way may still find a
   waiting wrapper to drop. *)
SlotReleased ==
  network = Waiting /\ (\A k \in Task : tasks[k] = NoTask)
     => /\ ~receiving /\ active = None
        /\ pending = None \/ disposal \in {"marked", "removed"}

(* Once Dispose has removed it the handler is not registered with the gossip
   again, not even by a status that was being handled. *)
DisposedUnregistered == disposal \in {"removed", "done"} => ~registered

(* Two threads and Dispose share one slot: memory, work and registration are
   each taken and given back once. *)
HandlerSound ==
  TypeOK /\ MessagesAccounted /\ OneReceive /\ SlotReleased /\ DisposedUnregistered

(* A wrapper taken from the network is worked on, replaced or dropped: no busy
   service keeps it. *)
MessagesReleased == \A m \in Message : m \in came ~> releases[m] = 1
=============================================================================
