----------------------- MODULE LeanProofGossipProofs -----------------------
(* Theorems about the gossip of wrappers, for any number of peers, connections
   and wrappers, and for any limit of what is remembered.  GossipAssumption is
   what they ask of the constants. *)
EXTENDS LeanProofGossip, FiniteSetTheorems, SequenceTheorems, TLAPS

TaskState == [for : Peer \cup {Build, None},
              at : {"none", "building", "publishing", "top", "sending", "ending"},
              wrapper : Wrapper \cup {None}]

(* What the place of a task says of whom it serves and what it carries. *)
ShapeOf(t) ==
  \A k \in Task :
    /\ t[k].for = None <=> t[k].at = "none"
    /\ t[k].at \in {"building", "publishing"} => t[k].for = Build
    /\ t[k].at \in {"top", "sending"} => t[k].for \in Peer
    /\ t[k].wrapper # None <=> t[k].at = "sending"

(* The fields of the gossip and of its peers name the tasks that serve them. *)
OwnersOf(t, b, w) ==
  /\ \A k \in Task : t[k].for = Build <=> k = b
  /\ \A k \in Task, p \in Peer : t[k].for = p <=> k = w[p]

(* Whoever publishes is still there when the publication ends, and nobody else
   changes the last wrapper meanwhile, except that disposal forgets it. *)
Publishing ==
  /\ pub.at \in {"asked", "offering"} => pub.wrapper \in Wrapper
  /\ pub.by = Loop => loop = "publishing"
  /\ pub.by \in Task => tasks[pub.by].at = "publishing"
  /\ pub.at = "offering" /\ ~disposed => lastWrapper = pub.wrapper

Members == /\ Registered \subseteq made
           /\ \A p \in Peer \ made : pending[p] = None

(* Disposal waits for every task that still runs. *)
Closed ==
  /\ disposed => /\ Registered = {} /\ lastWrapper = None
                 /\ \A k \in Task : tasks[k].at # "none" => k \in awaited
  /\ disposal = "done" => loop \in {"none", "ended"} /\ awaited = {}

GInv ==
  /\ TypeOK /\ ShapeOf(tasks) /\ OwnersOf(tasks, buildWorker, workerOf)
  /\ Publishing /\ Members /\ Closed
  /\ PendingHasWorker /\ SendsAreNew /\ WithdrawnNotWaiting

-----------------------------------------------------------------------------
LEMMA IdleIs ==
  ASSUME NEW t \in [Task -> TaskState], ShapeOf(t), NEW k \in Task
  PROVE  t[k] = Idle <=> t[k].at = "none"
  <1>1. t[k] = [for |-> t[k].for, at |-> t[k].at, wrapper |-> t[k].wrapper]
    BY DEF TaskState
  <1>2. t[k].at = "none" => t[k].for = None /\ t[k].wrapper = None
    BY DEF ShapeOf
  <1>3. t[k].at = "none" => t[k] = Idle
    BY <1>1, <1>2 DEF Idle
  <1> QED
    BY <1>3 DEF Idle

LEMMA NotTaken ==
  ASSUME NEW S, IsFiniteSet(S), NEW f, NEW T, IsFiniteSet(T), Cardinality(T) > Cardinality(S)
  PROVE  \E t \in T : \A s \in S : f[s] # t
  <1> DEFINE g == [s \in S |-> f[s]]
             R == {f[s] : s \in S}
  <1>1. g \in Surjection(S, R)
    BY DEF Surjection
  <1>2. IsFiniteSet(R) /\ Cardinality(R) <= Cardinality(S)
    BY <1>1, FS_Surjection
  <1>3. ~(T \subseteq R)
    BY <1>2, FS_Subset, FS_CardinalityType
  <1> QED
    BY <1>3

(* There is a task for the build and for each peer, so that one is idle when
   any of them has none. *)
LEMMA FreeTaskIdle ==
  ASSUME GossipAssumption, TypeOK, ShapeOf(tasks), OwnersOf(tasks, buildWorker, workerOf),
         buildWorker = None \/ \E p \in Peer : workerOf[p] = None
  PROVE  FreeTask \in Task /\ tasks[FreeTask] = Idle
  <1> DEFINE f == [x \in Peer \cup {Build} |-> IF x = Build THEN buildWorker ELSE workerOf[x]]
  <1>1. /\ IsFiniteSet(Peer) /\ Cardinality(Peer) \in Nat /\ Build \notin Peer /\ None \notin Task
    BY FS_CardinalityType DEF GossipAssumption
  <1>2. /\ IsFiniteSet(Peer \cup {Build})
        /\ Cardinality(Peer \cup {Build}) = Cardinality(Peer) + 1
    BY <1>1, FS_AddElement
  <1>3. PICK x \in Peer \cup {Build} : f[x] = None
    BY <1>1
  <1> DEFINE S == (Peer \cup {Build}) \ {x}
  <1>4. IsFiniteSet(S) /\ Cardinality(S) = Cardinality(Peer)
    BY <1>1, <1>2, FS_RemoveElement
  <1>5. IsFiniteSet(Task) /\ Cardinality(Task) = Cardinality(Peer) + 1
    BY <1>1, FS_Interval DEF Task
  <1> HIDE DEF f, S
  <1>6. PICK k \in Task : \A s \in S : f[s] # k
    BY <1>1, <1>4, <1>5, NotTaken
  <1>7. \A s \in Peer \cup {Build} : f[s] # k
    BY <1>1, <1>3, <1>6 DEF S
  <1>8. buildWorker # k /\ \A p \in Peer : workerOf[p] # k
    BY <1>1, <1>7 DEF f
  <1>9. tasks[k].for # Build /\ tasks[k].for \notin Peer
    BY <1>8 DEF OwnersOf
  <1>10. tasks \in [Task -> TaskState]
    BY DEF TypeOK, TaskState
  <1>11. tasks[k].for \in Peer \cup {Build, None}
    BY <1>10 DEF TaskState
  <1>12. tasks[k] = Idle
    BY <1>9, <1>10, <1>11, IdleIs DEF ShapeOf
  <1> QED
    BY <1>12 DEF FreeTask

(* A task that was idle starts to serve somebody who had none. *)
LEMMA StartedIs ==
  ASSUME NEW who \in Peer \cup {Build}, NEW at \in {"building", "top", "ending"}
  PROVE  /\ Started(who, at) \in TaskState
         /\ Started(who, at).for = who /\ Started(who, at).at = at
         /\ Started(who, at).wrapper = None
  BY DEF Started, TaskState

LEMMA StartedBuild ==
  ASSUME GossipAssumption, NEW k \in Task,
         NEW t \in [Task -> TaskState], ShapeOf(t), t[k] = Idle,
         NEW w, OwnersOf(t, None, w),
         NEW u \in [Task -> TaskState], u[k] = Started(Build, "building"),
         \A j \in Task : j # k => u[j] = t[j]
  PROVE  ShapeOf(u) /\ u[k].at = "building" /\ OwnersOf(u, k, w)
  <1> USE DEF GossipAssumption
  <1>1. u[k].for = Build /\ u[k].at = "building" /\ u[k].wrapper = None
    BY StartedIs
  <1>2. t[k].for = None
    BY DEF Idle
  <1>3. OwnersOf(u, k, w)
    BY <1>1, <1>2 DEF OwnersOf
  <1>4. ShapeOf(u)
    BY <1>1 DEF ShapeOf
  <1> QED
    BY <1>1, <1>3, <1>4

LEMMA StartedWorker ==
  ASSUME GossipAssumption, NEW k \in Task, NEW p \in Peer,
         NEW t \in [Task -> TaskState], ShapeOf(t), t[k] = Idle,
         NEW b, NEW w, OwnersOf(t, b, w), w[p] = None,
         NEW u \in [Task -> TaskState], u[k] = Started(p, "top"),
         \A j \in Task : j # k => u[j] = t[j],
         NEW v, v[p] = k, \A q \in Peer : q # p => v[q] = w[q]
  PROVE  ShapeOf(u) /\ u[k].for = p /\ u[k].at = "top" /\ OwnersOf(u, b, v)
  <1> USE DEF GossipAssumption
  <1>1. u[k].for = p /\ u[k].at = "top" /\ u[k].wrapper = None /\ p # Build
    BY StartedIs
  <1>2. t[k].for = None
    BY DEF Idle
  <1>3. \A q \in Peer : w[q] # k
    BY <1>2 DEF OwnersOf
  <1>4. OwnersOf(u, b, v)
    BY <1>1, <1>2, <1>3 DEF OwnersOf
  <1>5. ShapeOf(u)
    BY <1>1 DEF ShapeOf
  <1> QED
    BY <1>1, <1>4, <1>5

(* The publication ends: its caller goes on, and a task moves on to its end. *)
LEMMA ReturnTasks ==
  ASSUME GossipAssumption, NEW t \in [Task -> TaskState], ShapeOf(t),
         NEW b, NEW w, OwnersOf(t, b, w),
         pub.by \in Task => t[pub.by].at = "publishing",
         Return(t)
  PROVE  /\ tasks' \in [Task -> TaskState] /\ ShapeOf(tasks') /\ OwnersOf(tasks', b, w)
         /\ \A k \in Task : /\ tasks'[k].for = t[k].for
                            /\ tasks'[k].wrapper = t[k].wrapper
                            /\ tasks'[k].at = "sending" <=> t[k].at = "sending"
                            /\ tasks'[k].at = "none" <=> t[k].at = "none"
  <1>1. tasks' = [k \in Task |-> IF k = pub.by THEN [t[k] EXCEPT !.at = "ending"] ELSE t[k]]
    BY DEF Return
  <1>2. \A k \in Task : /\ tasks'[k] \in TaskState
                        /\ tasks'[k].for = t[k].for /\ tasks'[k].wrapper = t[k].wrapper
                        /\ tasks'[k].at = IF k = pub.by THEN "ending" ELSE t[k].at
    BY <1>1 DEF TaskState
  <1>3. tasks' \in [Task -> TaskState]
    BY <1>1, <1>2
  <1>4. ShapeOf(tasks')
    BY <1>2 DEF ShapeOf
  <1>5. OwnersOf(tasks', b, w)
    BY <1>2 DEF OwnersOf
  <1> QED
    BY <1>2, <1>3, <1>4, <1>5

LEMMA ReturnKeeps ==
  ASSUME GossipAssumption, GInv, NEW t, Return(t)
  PROVE  /\ UNCHANGED <<latest, peers, made, disposal, awaited>>
         /\ pub' \in [by : {None}, at : {"none"}, wrapper : {None}, same : {FALSE}, left : {{}}]
         /\ pub'.at = "none" /\ pub'.by = None
         /\ loop' \in {"none", "waiting", "publishing", "ended"}
         /\ disposal' = "done" => loop' \in {"none", "ended"}
         /\ adding' \subseteq Peer
  <1>1. /\ pub' = NoPub /\ UNCHANGED <<latest, peers, made, disposal, awaited>>
        /\ loop' = IF pub.by = Loop THEN "waiting" ELSE loop
        /\ adding' \subseteq adding
    BY DEF Return, ending
  <1>2. pub' \in [by : {None}, at : {"none"}, wrapper : {None}, same : {FALSE}, left : {{}}]
        /\ pub'.at = "none" /\ pub'.by = None
    BY <1>1 DEF NoPub
  <1> QED
    BY <1>1, <1>2 DEF GInv, TypeOK, Publishing, Closed

LEMMA InitHolds ==
  ASSUME GossipAssumption, Init
  PROVE  GInv
  <1> USE DEF GossipAssumption
  <1>1. /\ Idle \in TaskState /\ Idle.for = None /\ Idle.at = "none" /\ Idle.wrapper = None
    BY DEF Idle, TaskState
  <1>2. /\ NoPub \in [by : {None}, at : {"none"}, wrapper : {None}, same : {FALSE}, left : {{}}]
        /\ NoPub.at = "none" /\ NoPub.by = None
    BY DEF NoPub
  <1>3. /\ tasks \in [Task -> TaskState] /\ \A k \in Task : tasks[k] = Idle
        /\ recent \in [Peer -> Seq(Wrapper)] /\ \A p \in Peer : recent[p] = <<>>
    BY <1>1, EmptySeq DEF Init
  <1>4. TypeOK
    <2>1. pub \in [by : {None, Loop} \cup Task \cup Peer,
                  at : {"none", "asked", "failed", "offering"},
                  wrapper : Wrapper \cup {None}, same : BOOLEAN, left : SUBSET Peer]
      BY <1>2 DEF Init
    <2>2. recent \in [Peer -> Seq(Wrapper)] /\ \A p \in Peer : Len(recent[p]) <= MaxRecent
      BY <1>3, EmptySeq
    <2>3. /\ pending \in [Peer -> Wrapper \cup {None}] /\ workerOf \in [Peer -> Task \cup {None}]
          /\ peers \in [Delegate -> Peer \cup {None}] /\ \A d \in Delegate : peers[d] = None
      BY DEF Init
    <2> QED
      BY <1>3, <2>1, <2>2, <2>3 DEF Init, TypeOK, TaskState
  <1>5. ShapeOf(tasks) /\ OwnersOf(tasks, buildWorker, workerOf)
    BY <1>1, <1>3 DEF Init, ShapeOf, OwnersOf
  <1>6. Registered = {}
    BY DEF Init, Registered
  <1> QED
    BY <1>1, <1>2, <1>3, <1>4, <1>5, <1>6
    DEF Init, GInv, Publishing, Members, Closed, PendingHasWorker, SendsAreNew,
        WithdrawnNotWaiting, disposed

(* What the gossip itself does not see. *)
LEMMA OutsideKeeps ==
  ASSUME GossipAssumption, GInv,
         \/ WrapperLapses \/ \E p \in Peer : RefreshDue(p)
         \/ Start \/ LoopEnds \/ CancelAsync \/ DisposeReturns
  PROVE  GInv'
  <1>1. UNCHANGED <<peers, made, pending, workerOf, tasks, buildWorker, adding, pub, lastWrapper,
                    awaited>>
    BY DEF WrapperLapses, RefreshDue, Start, LoopEnds, CancelAsync, DisposeReturns, mailbox, ending
  <1>2. latest' \in Wrapper \cup {None}
    BY DEF WrapperLapses, RefreshDue, Start, LoopEnds, CancelAsync, DisposeReturns, GInv, TypeOK
  <1>3. /\ recent' \in [Peer -> Seq(Wrapper)]
        /\ \A p \in Peer : Len(recent'[p]) <= MaxRecent /\ ToSet(recent'[p]) \subseteq ToSet(recent[p])
    <2>1. CASE UNCHANGED recent
      BY <2>1 DEF GInv, TypeOK
    <2>2. ASSUME NEW p \in Peer, RefreshDue(p)
          PROVE  <1>3
      <3>1. recent' = [recent EXCEPT ![p] = Tail(recent[p])] /\ recent[p] # <<>>
        BY <2>2 DEF RefreshDue
      <3>2. /\ recent[p] \in Seq(Wrapper) /\ Len(recent[p]) <= MaxRecent /\ MaxRecent \in Nat
        BY DEF GInv, TypeOK, GossipAssumption
      <3>3. /\ Tail(recent[p]) \in Seq(Wrapper) /\ Len(Tail(recent[p])) = Len(recent[p]) - 1
            /\ Len(recent[p]) \in Nat
            /\ DOMAIN recent[p] = 1..Len(recent[p])
            /\ DOMAIN Tail(recent[p]) = 1..(Len(recent[p]) - 1)
            /\ \A i \in 1..(Len(recent[p]) - 1) : Tail(recent[p])[i] = recent[p][i + 1]
        BY <3>1, <3>2, HeadTailProperties, LenProperties
      <3>4. ToSet(Tail(recent[p])) \subseteq ToSet(recent[p])
        BY <3>3 DEF ToSet
      <3>5. Len(Tail(recent[p])) <= MaxRecent
        BY <3>2, <3>3
      <3>6. \A q \in Peer : recent'[q] = IF q = p THEN Tail(recent[p]) ELSE recent[q]
        BY <3>1 DEF GInv, TypeOK
      <3> QED
        BY <3>1, <3>3, <3>4, <3>5, <3>6 DEF GInv, TypeOK
    <2> QED
      BY <2>1, <2>2 DEF WrapperLapses, Start, LoopEnds, CancelAsync, DisposeReturns, mailbox
  <1>4. /\ loop' \in {"none", "waiting", "publishing", "ended"}
        /\ disposal' \in {"no", "closing", "cancelled", "done"}
        /\ pub.by = Loop => loop' = "publishing"
        /\ disposed' = disposed
        /\ disposal' = "done" => loop' \in {"none", "ended"} /\ awaited = {}
    BY DEF WrapperLapses, RefreshDue, Start, LoopEnds, CancelAsync, DisposeReturns, mailbox, ending,
           GInv, TypeOK, Publishing, Closed, disposed
  <1>5. TypeOK'
    BY <1>1, <1>2, <1>3, <1>4 DEF GInv, TypeOK, TaskState
  <1>6. SendsAreNew'
    BY <1>1, <1>3 DEF GInv, SendsAreNew, WasSentRecently, ShapeOf
  <1>7. Publishing' /\ Members' /\ Closed' /\ PendingHasWorker' /\ WithdrawnNotWaiting'
    BY <1>1, <1>4 DEF GInv, Publishing, Members, Closed, PendingHasWorker, WithdrawnNotWaiting,
                      Registered
  <1>8. ShapeOf(tasks)' /\ OwnersOf(tasks, buildWorker, workerOf)'
    BY <1>1 DEF GInv, ShapeOf, OwnersOf
  <1> QED
    BY <1>5, <1>6, <1>7, <1>8 DEF GInv

LEMMA AddPeerKeeps ==
  ASSUME GossipAssumption, GInv, NEW p \in Peer, AddPeer(p)
  PROVE  GInv' /\ Registered' = Registered \cup {p}
  <1>1. /\ UNCHANGED <<latest, pending, workerOf, recent, tasks, buildWorker, pub, lastWrapper,
                       disposal, awaited>>
        /\ p \notin made /\ ~disposed /\ made' = made \cup {p}
        /\ peers' = [peers EXCEPT ![SendOf[p]] = p] /\ peers[SendOf[p]] = None
        /\ loop' = IF loop = "none" THEN "waiting" ELSE loop
        /\ adding' = adding \cup {p}
        /\ SendOf[p] \in Delegate
    BY DEF AddPeer, mailbox, ending, GossipAssumption
  <1>2. peers' \in [Delegate -> Peer \cup {None}]
        /\ \A d \in Delegate : peers'[d] = IF d = SendOf[p] THEN p ELSE peers[d]
    BY <1>1 DEF GInv, TypeOK
  <1>3. Registered' = Registered \cup {p}
    BY <1>1, <1>2 DEF Registered, GossipAssumption
  <1>4. TypeOK'
    BY <1>1, <1>2 DEF GInv, TypeOK
  <1>5. disposal # "done" /\ pending[p] = None
    BY <1>1 DEF GInv, Members, disposed
  <1>6. Publishing' /\ Members' /\ Closed' /\ PendingHasWorker' /\ WithdrawnNotWaiting'
    BY <1>1, <1>3, <1>5 DEF GInv, Publishing, Members, Closed, PendingHasWorker,
                            WithdrawnNotWaiting, disposed
  <1>7. ShapeOf(tasks)' /\ OwnersOf(tasks, buildWorker, workerOf)' /\ SendsAreNew'
    BY <1>1 DEF GInv, ShapeOf, OwnersOf, SendsAreNew, WasSentRecently
  <1> QED
    BY <1>3, <1>4, <1>6, <1>7 DEF GInv

LEMMA RemovePeerKeeps ==
  ASSUME GossipAssumption, GInv, NEW d \in Delegate, RemovePeer(d)
  PROVE  /\ GInv' /\ peers[d] \in Registered /\ Registered' = Registered \ {peers[d]}
         /\ pending' = [pending EXCEPT ![peers[d]] = None]
  <1> DEFINE p == peers[d]
  <1>1. /\ UNCHANGED <<latest, made, workerOf, tasks, buildWorker, loop, adding, pub, lastWrapper,
                       disposal, awaited>>
        /\ p # None /\ peers' = [peers EXCEPT ![d] = None]
        /\ pending' = [pending EXCEPT ![p] = None]
        /\ recent' = [recent EXCEPT ![p] = <<>>]
    BY DEF RemovePeer, ending
  <1>2. p \in Peer /\ SendOf[p] = d
    BY <1>1 DEF GInv, TypeOK
  <1>3. p \in Registered
    BY <1>2 DEF Registered
  <1>4. peers' \in [Delegate -> Peer \cup {None}]
        /\ \A e \in Delegate : peers'[e] = IF e = d THEN None ELSE peers[e]
    BY <1>1 DEF GInv, TypeOK
  <1>5. Registered' = Registered \ {p}
    BY <1>2, <1>4 DEF Registered, GossipAssumption
  <1>6. /\ recent' \in [Peer -> Seq(Wrapper)]
        /\ \A q \in Peer : recent'[q] = IF q = p THEN <<>> ELSE recent[q]
    BY <1>1, EmptySeq DEF GInv, TypeOK
  <1>7. \A q \in Peer : Len(recent'[q]) <= MaxRecent
    BY <1>6, EmptySeq DEF GInv, TypeOK, GossipAssumption
  <1>8. /\ pending' \in [Peer -> Wrapper \cup {None}]
        /\ \A q \in Peer : pending'[q] = IF q = p THEN None ELSE pending[q]
    BY <1>1 DEF GInv, TypeOK
  <1>9. TypeOK'
    <2>1. \A e \in Delegate : peers'[e] # None => SendOf[peers'[e]] = e
      BY <1>4 DEF GInv, TypeOK
    <2> QED
      BY <1>1, <1>4, <1>6, <1>7, <1>8, <2>1 DEF GInv, TypeOK
  <1>10. Publishing' /\ Members' /\ Closed' /\ PendingHasWorker' /\ WithdrawnNotWaiting'
    BY <1>1, <1>5, <1>8 DEF GInv, Publishing, Members, Closed, PendingHasWorker,
                            WithdrawnNotWaiting, disposed
  <1>11. ShapeOf(tasks)' /\ OwnersOf(tasks, buildWorker, workerOf)'
    BY <1>1 DEF GInv, ShapeOf, OwnersOf
  <1>12. SendsAreNew'
    <2>1. \A q \in Peer : ToSet(recent'[q]) \subseteq ToSet(recent[q])
      BY <1>6 DEF ToSet
    <2> QED
      BY <1>1, <2>1 DEF GInv, SendsAreNew, WasSentRecently, ShapeOf
  <1> QED
    BY <1>1, <1>3, <1>5, <1>9, <1>10, <1>11, <1>12 DEF GInv

(* No task begins or ends a send for a peer. *)
LEMMA TickKeeps ==
  ASSUME GossipAssumption, GInv, Tick
  PROVE  /\ GInv' /\ UNCHANGED <<peers, pending, lastWrapper, disposal>>
         /\ \A k \in Task : tasks'[k].at = "sending" \/ tasks[k].at = "sending" =>
                              tasks'[k] = tasks[k]
  <1>1. /\ UNCHANGED <<latest, peers, made, pending, workerOf, recent, adding, pub, lastWrapper,
                       disposal, awaited>>
        /\ loop = "waiting" /\ loop' = "publishing" /\ disposal # "done"
    BY DEF Tick, mailbox, ending
  <1>2. tasks \in [Task -> TaskState] /\ workerOf \in [Peer -> Task \cup {None}]
    BY DEF GInv, TypeOK, TaskState
  <1>3. /\ tasks' \in [Task -> TaskState] /\ ShapeOf(tasks') /\ buildWorker' \in Task \cup {None}
        /\ OwnersOf(tasks', buildWorker', workerOf)
        /\ \A k \in Task : \/ tasks'[k] = tasks[k]
                           \/ tasks[k] = Idle /\ tasks'[k].at = "building" /\ ~disposed
    <2>1. CASE /\ ~disposed /\ buildWorker = None
               /\ buildWorker' = FreeTask
               /\ tasks' = [tasks EXCEPT ![FreeTask] = Started(Build, "building")]
      <3>1. FreeTask \in Task /\ tasks[FreeTask] = Idle
        BY <2>1, FreeTaskIdle DEF GInv
      <3>2. /\ tasks' \in [Task -> TaskState] /\ ShapeOf(tasks')
            /\ tasks'[FreeTask].at = "building"
            /\ \A j \in Task : j # FreeTask => tasks'[j] = tasks[j]
            /\ OwnersOf(tasks', FreeTask, workerOf)
        <4>1. /\ tasks' \in [Task -> TaskState]
              /\ tasks'[FreeTask] = Started(Build, "building")
              /\ \A j \in Task : j # FreeTask => tasks'[j] = tasks[j]
          BY <1>2, <2>1, <3>1, StartedIs
        <4> QED
          BY <1>2, <2>1, <3>1, <4>1, StartedBuild DEF GInv
      <3> QED
        BY <2>1, <3>1, <3>2
    <2>2. CASE UNCHANGED <<buildWorker, tasks>>
      BY <1>2, <2>2 DEF GInv, TypeOK
    <2> QED
      BY <2>1, <2>2 DEF Tick
  <1>4. \A k \in Task : tasks'[k].at = "sending" \/ tasks[k].at = "sending" => tasks'[k] = tasks[k]
    BY <1>3 DEF Idle
  <1>5. TypeOK'
    BY <1>1, <1>3 DEF GInv, TypeOK, TaskState
  <1>6. SendsAreNew'
    BY <1>1, <1>4 DEF GInv, SendsAreNew, WasSentRecently
  <1>7. Members' /\ PendingHasWorker' /\ WithdrawnNotWaiting'
    BY <1>1 DEF GInv, Members, PendingHasWorker, WithdrawnNotWaiting, Registered
  <1>8. Publishing' /\ Closed'
    BY <1>1, <1>3 DEF GInv, Publishing, Closed, Idle, disposed, Registered
  <1> QED
    BY <1>1, <1>3, <1>4, <1>5, <1>6, <1>7, <1>8 DEF GInv

(* A task moves on and goes on serving the same. *)
LEMMA MovedTask ==
  ASSUME NEW k \in Task, NEW b, NEW w, ShapeOf(tasks), OwnersOf(tasks, b, w),
         NEW r \in TaskState, tasks' = [tasks EXCEPT ![k] = r], tasks \in [Task -> TaskState],
         r.for = tasks[k].for, r.for # None,
         \/ r.at \in {"building", "publishing"} /\ r.for = Build /\ r.wrapper = None
         \/ r.at = "sending" /\ r.for \in Peer /\ r.wrapper # None
         \/ r.at = "top" /\ r.for \in Peer /\ r.wrapper = None
         \/ r.at = "ending" /\ r.wrapper = None
  PROVE  /\ tasks' \in [Task -> TaskState] /\ ShapeOf(tasks') /\ OwnersOf(tasks', b, w)
         /\ tasks'[k] = r /\ \A j \in Task : j # k => tasks'[j] = tasks[j]
  <1>1. /\ tasks' \in [Task -> TaskState]
        /\ tasks'[k] = r /\ \A j \in Task : j # k => tasks'[j] = tasks[j]
    OBVIOUS
  <1>2. ShapeOf(tasks')
    BY <1>1 DEF ShapeOf
  <1>3. OwnersOf(tasks', b, w)
    BY <1>1 DEF OwnersOf
  <1> QED
    BY <1>1, <1>2, <1>3

LEMMA BuiltKeeps ==
  ASSUME GossipAssumption, GInv, NEW k \in Task, NEW w \in Wrapper \cup {None}, Built(k, w)
  PROVE  /\ GInv' /\ UNCHANGED <<peers, pending, lastWrapper, disposal>>
         /\ \A j \in Task : tasks'[j].at = "sending" \/ tasks[j].at = "sending" =>
                              tasks'[j] = tasks[j]
  <1>1. /\ UNCHANGED <<peers, made, pending, workerOf, recent, buildWorker, loop, adding, pub,
                       lastWrapper, disposal, awaited>>
        /\ tasks[k].at = "building"
        /\ latest' \in Wrapper \cup {None}
    BY DEF Built, mailbox, ending, GInv, TypeOK
  <1>2. tasks \in [Task -> TaskState] /\ tasks[k].for = Build /\ tasks[k].wrapper = None
    BY <1>1 DEF GInv, TypeOK, TaskState, ShapeOf
  <1>3. PICK at \in {"publishing", "ending"} : tasks' = [tasks EXCEPT ![k].at = at]
    BY DEF Built
  <1> DEFINE r == [tasks[k] EXCEPT !.at = at]
  <1>4. /\ r \in TaskState /\ r.for = Build /\ r.at = at /\ r.wrapper = None
        /\ tasks' = [tasks EXCEPT ![k] = r]
    BY <1>2, <1>3 DEF TaskState
  <1> HIDE DEF r
  <1>5. /\ tasks' \in [Task -> TaskState] /\ ShapeOf(tasks')
        /\ OwnersOf(tasks', buildWorker, workerOf)
        /\ tasks'[k] = r /\ \A j \in Task : j # k => tasks'[j] = tasks[j]
    BY <1>2, <1>4, MovedTask DEF GInv, GossipAssumption
  <1>6. \A j \in Task : tasks'[j].at = "sending" \/ tasks[j].at = "sending" => tasks'[j] = tasks[j]
    BY <1>1, <1>4, <1>5
  <1>7. TypeOK'
    BY <1>1, <1>5 DEF GInv, TypeOK, TaskState
  <1>8. SendsAreNew'
    BY <1>1, <1>6 DEF GInv, SendsAreNew, WasSentRecently
  <1>9. Members' /\ PendingHasWorker' /\ WithdrawnNotWaiting'
    BY <1>1 DEF GInv, Members, PendingHasWorker, WithdrawnNotWaiting, Registered
  <1>10. Publishing' /\ Closed'
    BY <1>1, <1>4, <1>5 DEF GInv, Publishing, Closed, disposed, Registered
  <1> QED
    BY <1>1, <1>5, <1>6, <1>7, <1>8, <1>9, <1>10 DEF GInv

(* A task becomes idle. *)
LEMMA StoppedTask ==
  ASSUME GossipAssumption, NEW k \in Task, ShapeOf(tasks),
         tasks \in [Task -> TaskState], tasks' = [tasks EXCEPT ![k] = Idle]
  PROVE  /\ tasks' \in [Task -> TaskState] /\ ShapeOf(tasks')
         /\ tasks'[k].at = "none" /\ tasks'[k].for = None
         /\ \A j \in Task : j # k => tasks'[j] = tasks[j]
  <1>1. Idle \in TaskState /\ Idle.at = "none" /\ Idle.for = None /\ Idle.wrapper = None
    BY DEF Idle, TaskState
  <1>2. /\ tasks' \in [Task -> TaskState] /\ tasks'[k] = Idle
        /\ \A j \in Task : j # k => tasks'[j] = tasks[j]
    BY <1>1
  <1>3. ShapeOf(tasks')
    BY <1>1, <1>2 DEF ShapeOf
  <1> QED
    BY <1>1, <1>2, <1>3

LEMMA FinishBuildKeeps ==
  ASSUME GossipAssumption, GInv, NEW k \in Task, FinishBuild(k)
  PROVE  /\ GInv' /\ UNCHANGED <<peers, pending, lastWrapper, disposal>>
         /\ \A j \in Task : tasks'[j].at = "sending" \/ tasks[j].at = "sending" =>
                              tasks'[j] = tasks[j]
  <1>1. /\ UNCHANGED <<latest, peers, made, pending, workerOf, recent, loop, adding, pub,
                       lastWrapper, disposal>>
        /\ tasks[k].for = Build /\ tasks[k].at = "ending"
        /\ buildWorker' = None /\ awaited' = awaited \ {k}
        /\ tasks' = [tasks EXCEPT ![k] = Idle]
    BY DEF FinishBuild, mailbox, Completed
  <1>2. tasks \in [Task -> TaskState]
    BY DEF GInv, TypeOK, TaskState
  <1>3. /\ tasks' \in [Task -> TaskState] /\ ShapeOf(tasks')
        /\ tasks'[k].at = "none" /\ tasks'[k].for = None
        /\ \A j \in Task : j # k => tasks'[j] = tasks[j]
    BY <1>1, <1>2, StoppedTask DEF GInv
  <1>4. OwnersOf(tasks', None, workerOf)
    BY <1>1, <1>3 DEF GInv, OwnersOf, GossipAssumption
  <1>5. \A j \in Task : tasks'[j].at = "sending" \/ tasks[j].at = "sending" => tasks'[j] = tasks[j]
    BY <1>1, <1>3
  <1>6. TypeOK'
    BY <1>1, <1>3 DEF GInv, TypeOK, TaskState
  <1>7. SendsAreNew'
    BY <1>1, <1>5 DEF GInv, SendsAreNew, WasSentRecently
  <1>8. Members' /\ PendingHasWorker' /\ WithdrawnNotWaiting'
    BY <1>1 DEF GInv, Members, PendingHasWorker, WithdrawnNotWaiting, Registered
  <1>9. Publishing' /\ Closed'
    BY <1>1, <1>3 DEF GInv, Publishing, Closed, disposed, Registered
  <1> QED
    BY <1>1, <1>3, <1>4, <1>5, <1>6, <1>7, <1>8, <1>9 DEF GInv

LEMMA PublishLatestKeeps ==
  ASSUME GossipAssumption, GInv, NEW c \in {Loop} \cup Task \cup Peer, PublishLatest(c)
  PROVE  GInv' /\ UNCHANGED <<peers, pending, lastWrapper, disposal, tasks>>
  <1>1. /\ UNCHANGED <<latest, peers, made, pending, workerOf, recent, tasks, buildWorker, loop,
                       adding, lastWrapper, disposal, awaited>>
        /\ c \in Publishers
    BY DEF PublishLatest, mailbox, ending
  <1>2. /\ NoPub \in [by : {None}, at : {"none"}, wrapper : {None}, same : {FALSE}, left : {{}}]
        /\ pub' = IF latest # None
                  THEN [NoPub EXCEPT !.by = c, !.at = "asked", !.wrapper = latest,
                                     !.same = (latest = lastWrapper)]
                  ELSE [NoPub EXCEPT !.by = c, !.at = "failed"]
    BY DEF PublishLatest, NoPub
  <1>3. /\ pub' \in [by : {c}, at : {"asked", "failed"}, wrapper : Wrapper \cup {None},
                     same : BOOLEAN, left : {{}}]
        /\ pub'.by = c /\ pub'.at \in {"asked", "failed"}
        /\ pub'.at = "asked" => pub'.wrapper \in Wrapper
    <2>1. latest \in Wrapper \cup {None}
      BY DEF GInv, TypeOK
    <2> QED
      BY <1>2, <2>1
  <1>4. TypeOK'
    BY <1>1, <1>3 DEF GInv, TypeOK
  <1>5. /\ c = Loop => loop = "publishing"
        /\ c \in Task => tasks[c].at = "publishing"
    BY <1>1 DEF Publishers, GInv, TypeOK, GossipAssumption
  <1>6. Publishing'
    BY <1>1, <1>3, <1>5 DEF Publishing
  <1>7. Members' /\ Closed' /\ PendingHasWorker' /\ WithdrawnNotWaiting' /\ SendsAreNew'
    BY <1>1 DEF GInv, Members, Closed, PendingHasWorker, WithdrawnNotWaiting, Registered,
                SendsAreNew, WasSentRecently, disposed
  <1>8. ShapeOf(tasks)' /\ OwnersOf(tasks, buildWorker, workerOf)'
    BY <1>1 DEF GInv, ShapeOf, OwnersOf
  <1> QED
    BY <1>1, <1>4, <1>6, <1>7, <1>8 DEF GInv

LEMMA WithdrawLatestKeeps ==
  ASSUME GossipAssumption, GInv, WithdrawLatest
  PROVE  /\ GInv' /\ UNCHANGED <<peers, disposal>> /\ lastWrapper' = None
         /\ \A p \in Peer : pending'[p] = IF p \in Registered THEN None ELSE pending[p]
         /\ \A j \in Task : /\ tasks'[j].for = tasks[j].for
                            /\ tasks'[j].wrapper = tasks[j].wrapper
                            /\ tasks'[j].at = "sending" <=> tasks[j].at = "sending"
  <1>1. /\ UNCHANGED <<workerOf, recent, buildWorker>>
        /\ Return(tasks) /\ lastWrapper' = None
        /\ pending' = [p \in Peer |-> IF p \in Registered THEN None ELSE pending[p]]
    BY DEF WithdrawLatest, Withdrawn
  <1>2. /\ UNCHANGED <<latest, peers, made, disposal, awaited>>
        /\ pub' \in [by : {None}, at : {"none"}, wrapper : {None}, same : {FALSE}, left : {{}}]
        /\ pub'.at = "none" /\ pub'.by = None
        /\ loop' \in {"none", "waiting", "publishing", "ended"}
        /\ disposal' = "done" => loop' \in {"none", "ended"}
        /\ adding' \subseteq Peer
    BY <1>1, ReturnKeeps
  <1>3. /\ tasks' \in [Task -> TaskState] /\ ShapeOf(tasks')
        /\ OwnersOf(tasks', buildWorker, workerOf)
        /\ \A k \in Task : /\ tasks'[k].for = tasks[k].for
                           /\ tasks'[k].wrapper = tasks[k].wrapper
                           /\ tasks'[k].at = "sending" <=> tasks[k].at = "sending"
                           /\ tasks'[k].at = "none" <=> tasks[k].at = "none"
    <2>1. tasks \in [Task -> TaskState]
      BY DEF GInv, TypeOK, TaskState
    <2> QED
      BY <1>1, <2>1, ReturnTasks DEF GInv, Publishing
  <1>4. pending' \in [Peer -> Wrapper \cup {None}]
    BY <1>1 DEF GInv, TypeOK
  <1>5. TypeOK'
    BY <1>1, <1>2, <1>3, <1>4 DEF GInv, TypeOK, TaskState
  <1>6. SendsAreNew'
    BY <1>1, <1>3 DEF GInv, SendsAreNew, WasSentRecently
  <1>7. Members' /\ PendingHasWorker' /\ WithdrawnNotWaiting'
    BY <1>1, <1>2 DEF GInv, Members, PendingHasWorker, WithdrawnNotWaiting, Registered
  <1>8. Publishing'
    BY <1>2 DEF Publishing, GossipAssumption
  <1>9. Closed'
    BY <1>1, <1>2, <1>3 DEF GInv, Closed, disposed, Registered
  <1> QED
    BY <1>1, <1>2, <1>3, <1>5, <1>6, <1>7, <1>8, <1>9 DEF GInv

LEMMA AnnounceLatestKeeps ==
  ASSUME GossipAssumption, GInv, AnnounceLatest
  PROVE  /\ GInv' /\ UNCHANGED <<peers, pending, disposal>>
         /\ lastWrapper' # lastWrapper => ~disposed /\ lastWrapper' \in Wrapper
         /\ \A j \in Task : /\ tasks'[j].for = tasks[j].for
                            /\ tasks'[j].wrapper = tasks[j].wrapper
                            /\ tasks'[j].at = "sending" <=> tasks[j].at = "sending"
  <1>1. /\ UNCHANGED <<pending, workerOf, recent, buildWorker>>
        /\ pub.at = "asked" /\ pub.wrapper \in Wrapper
        /\ lastWrapper' # lastWrapper => ~disposed /\ lastWrapper' = pub.wrapper
        /\ \/ Return(tasks)
           \/ /\ ~disposed /\ lastWrapper' = pub.wrapper
              /\ pub' = [pub EXCEPT !.at = "offering", !.left = Registered]
              /\ UNCHANGED <<latest, peers, made, tasks, loop, adding, disposal, awaited>>
    BY DEF AnnounceLatest, Announces, mailbox, ending, GInv, Publishing
  <1>2. tasks \in [Task -> TaskState] /\ Registered \subseteq Peer
    BY DEF GInv, TypeOK, TaskState, Registered
  <1>3. /\ UNCHANGED <<latest, peers, made, disposal, awaited>>
        /\ pub' \in [by : {None, Loop} \cup Task \cup Peer, at : {"none", "offering"},
                     wrapper : Wrapper \cup {None}, same : BOOLEAN, left : SUBSET Peer]
        /\ loop' \in {"none", "waiting", "publishing", "ended"}
        /\ disposal' = "done" => loop' \in {"none", "ended"}
        /\ adding' \subseteq Peer
        /\ Publishing'
    <2>1. CASE Return(tasks)
      <3>1. /\ UNCHANGED <<latest, peers, made, disposal, awaited>>
            /\ pub' \in [by : {None}, at : {"none"}, wrapper : {None}, same : {FALSE}, left : {{}}]
            /\ pub'.at = "none" /\ pub'.by = None
            /\ loop' \in {"none", "waiting", "publishing", "ended"}
            /\ disposal' = "done" => loop' \in {"none", "ended"}
            /\ adding' \subseteq Peer
        BY <2>1, ReturnKeeps
      <3> QED
        BY <3>1 DEF Publishing, GossipAssumption
    <2>2. CASE /\ ~disposed /\ lastWrapper' = pub.wrapper
               /\ pub' = [pub EXCEPT !.at = "offering", !.left = Registered]
               /\ UNCHANGED <<latest, peers, made, tasks, loop, adding, disposal, awaited>>
      <3>1. pub \in [by : {None, Loop} \cup Task \cup Peer,
                     at : {"none", "asked", "failed", "offering"},
                     wrapper : Wrapper \cup {None}, same : BOOLEAN, left : SUBSET Peer]
        BY DEF GInv, TypeOK
      <3>2. /\ pub' \in [by : {None, Loop} \cup Task \cup Peer, at : {"none", "offering"},
                         wrapper : Wrapper \cup {None}, same : BOOLEAN, left : SUBSET Peer]
            /\ pub'.by = pub.by /\ pub'.wrapper = pub.wrapper
        BY <1>2, <2>2, <3>1
      <3> QED
        BY <1>1, <2>2, <3>2 DEF GInv, TypeOK, Publishing, Closed
    <2> QED
      BY <1>1, <2>1, <2>2
  <1>4. /\ tasks' \in [Task -> TaskState] /\ ShapeOf(tasks')
        /\ OwnersOf(tasks', buildWorker, workerOf)
        /\ \A k \in Task : /\ tasks'[k].for = tasks[k].for
                           /\ tasks'[k].wrapper = tasks[k].wrapper
                           /\ tasks'[k].at = "sending" <=> tasks[k].at = "sending"
                           /\ tasks'[k].at = "none" <=> tasks[k].at = "none"
    <2>1. CASE Return(tasks)
      BY <1>2, <2>1, ReturnTasks DEF GInv, Publishing
    <2>2. CASE UNCHANGED tasks
      BY <1>2, <2>2 DEF GInv
    <2> QED
      BY <1>1, <2>1, <2>2
  <1>5. lastWrapper' \in Wrapper \cup {None}
    BY <1>1 DEF GInv, TypeOK
  <1>6. TypeOK'
    BY <1>1, <1>3, <1>4, <1>5 DEF GInv, TypeOK, TaskState
  <1>7. SendsAreNew'
    BY <1>1, <1>4 DEF GInv, SendsAreNew, WasSentRecently
  <1>8. Members' /\ PendingHasWorker' /\ WithdrawnNotWaiting'
    BY <1>1, <1>3 DEF GInv, Members, PendingHasWorker, WithdrawnNotWaiting, Registered,
                      GossipAssumption
  <1>9. Closed'
    BY <1>1, <1>3, <1>4 DEF GInv, Closed, disposed, Registered
  <1> QED
    BY <1>1, <1>3, <1>4, <1>6, <1>7, <1>8, <1>9 DEF GInv

LEMMA TrySendKeeps ==
  ASSUME GossipAssumption, GInv, NEW p \in Peer, TrySend(p)
  PROVE  /\ GInv' /\ UNCHANGED <<peers, lastWrapper, disposal>>
         /\ \/ pending' = pending
            \/ /\ p \in Registered /\ lastWrapper \in Wrapper
               /\ pending' = [pending EXCEPT ![p] = lastWrapper]
         /\ \A j \in Task : /\ tasks[j].at # "none" => tasks'[j].for = tasks[j].for
                            /\ tasks'[j].wrapper = tasks[j].wrapper
                            /\ tasks'[j].at = "sending" <=> tasks[j].at = "sending"
  <1> USE DEF GossipAssumption
  <1> DEFINE reserve == Takes(p, pub.wrapper) /\ NeedsWorker(p)
             t == IF reserve THEN [tasks EXCEPT ![FreeTask] = Started(p, "top")] ELSE tasks
  <1>1. /\ UNCHANGED <<recent, buildWorker, lastWrapper>>
        /\ pub.at = "offering" /\ p \in pub.left /\ pub.wrapper \in Wrapper
        /\ pending' = IF Takes(p, pub.wrapper) THEN [pending EXCEPT ![p] = pub.wrapper] ELSE pending
        /\ workerOf' = IF reserve THEN [workerOf EXCEPT ![p] = FreeTask] ELSE workerOf
        /\ \/ Return(t)
           \/ /\ pub' = [pub EXCEPT !.left = @ \ {p}]
              /\ tasks' = t
              /\ UNCHANGED <<latest, peers, made, loop, adding, disposal, awaited>>
    BY DEF TrySend, ending, GInv, Publishing
  <1>2. /\ tasks \in [Task -> TaskState] /\ workerOf \in [Peer -> Task \cup {None}]
        /\ pending \in [Peer -> Wrapper \cup {None}]
    BY DEF GInv, TypeOK, TaskState
  <1>3. reserve => ~disposed /\ p \in Registered /\ workerOf[p] = None
    BY DEF Takes, NeedsWorker
  <1>4. Takes(p, pub.wrapper) => ~disposed /\ p \in Registered /\ lastWrapper = pub.wrapper
    BY <1>1 DEF Takes, GInv, Publishing
  <1> HIDE DEF reserve
  <1>5. /\ t \in [Task -> TaskState] /\ ShapeOf(t) /\ OwnersOf(t, buildWorker, workerOf')
        /\ workerOf' \in [Peer -> Task \cup {None}]
        /\ \A q \in Peer : q # p => workerOf'[q] = workerOf[q]
        /\ workerOf[p] # None => workerOf'[p] # None
        /\ reserve => workerOf'[p] # None
        /\ \A k \in Task : \/ t[k] = tasks[k]
                           \/ /\ tasks[k] = Idle /\ t[k].for = p /\ t[k].at = "top"
                              /\ t[k].wrapper = None /\ ~disposed
    <2>1. CASE reserve
      <3>1. FreeTask \in Task /\ tasks[FreeTask] = Idle
        BY <1>3, <2>1, FreeTaskIdle DEF GInv
      <3>2. /\ t \in [Task -> TaskState] /\ t[FreeTask] = Started(p, "top")
            /\ \A j \in Task : j # FreeTask => t[j] = tasks[j]
        BY <1>2, <2>1, <3>1, StartedIs
      <3>3. /\ workerOf' \in [Peer -> Task \cup {None}] /\ workerOf'[p] = FreeTask
            /\ \A q \in Peer : q # p => workerOf'[q] = workerOf[q]
        BY <1>1, <1>2, <2>1, <3>1
      <3> HIDE DEF t
      <3>4. /\ ShapeOf(t) /\ OwnersOf(t, buildWorker, workerOf')
            /\ t[FreeTask].for = p /\ t[FreeTask].at = "top"
        BY <1>2, <1>3, <2>1, <3>1, <3>2, <3>3, StartedWorker DEF GInv
      <3>5. t[FreeTask].wrapper = None
        BY <3>2, StartedIs
      <3> QED
        BY <1>3, <2>1, <3>1, <3>2, <3>3, <3>4, <3>5
    <2>2. CASE ~reserve
      BY <1>1, <1>2, <2>2 DEF GInv
    <2> QED
      BY <2>1, <2>2
  <1>6. pub.by \in Task => t[pub.by].at = "publishing"
    BY <1>5 DEF GInv, Publishing, Idle
  <1> HIDE DEF t
  <1>7. /\ tasks' \in [Task -> TaskState] /\ ShapeOf(tasks')
        /\ OwnersOf(tasks', buildWorker, workerOf')
        /\ \A k \in Task : /\ tasks'[k].for = t[k].for
                           /\ tasks'[k].wrapper = t[k].wrapper
                           /\ tasks'[k].at = "sending" <=> t[k].at = "sending"
                           /\ tasks'[k].at = "none" <=> t[k].at = "none"
    <2>1. CASE Return(t)
      BY <1>5, <1>6, <2>1, ReturnTasks
    <2>2. CASE tasks' = t
      BY <1>5, <2>2
    <2> QED
      BY <1>1, <2>1, <2>2
  <1>8. \A k \in Task : /\ tasks[k].at # "none" => tasks'[k].for = tasks[k].for
                        /\ tasks'[k].wrapper = tasks[k].wrapper
                        /\ tasks'[k].at = "sending" <=> tasks[k].at = "sending"
                        /\ tasks'[k].at # "none" => tasks[k].at # "none" \/ ~disposed
    BY <1>5, <1>7 DEF Idle
  <1>9. /\ UNCHANGED <<latest, peers, made, disposal, awaited>>
        /\ pub' \in [by : {None, Loop} \cup Task \cup Peer, at : {"none", "offering"},
                     wrapper : Wrapper \cup {None}, same : BOOLEAN, left : SUBSET Peer]
        /\ loop' \in {"none", "waiting", "publishing", "ended"}
        /\ disposal' = "done" => loop' \in {"none", "ended"}
        /\ adding' \subseteq Peer
        /\ Publishing'
    <2>1. CASE Return(t)
      <3>1. /\ UNCHANGED <<latest, peers, made, disposal, awaited>>
            /\ pub' \in [by : {None}, at : {"none"}, wrapper : {None}, same : {FALSE}, left : {{}}]
            /\ pub'.at = "none" /\ pub'.by = None
            /\ loop' \in {"none", "waiting", "publishing", "ended"}
            /\ disposal' = "done" => loop' \in {"none", "ended"}
            /\ adding' \subseteq Peer
        BY <2>1, ReturnKeeps
      <3> QED
        BY <3>1 DEF Publishing
    <2>2. CASE /\ pub' = [pub EXCEPT !.left = @ \ {p}]
               /\ tasks' = t
               /\ UNCHANGED <<latest, peers, made, loop, adding, disposal, awaited>>
      <3>1. pub \in [by : {None, Loop} \cup Task \cup Peer,
                     at : {"none", "asked", "failed", "offering"},
                     wrapper : Wrapper \cup {None}, same : BOOLEAN, left : SUBSET Peer]
        BY DEF GInv, TypeOK
      <3>2. /\ pub' \in [by : {None, Loop} \cup Task \cup Peer, at : {"none", "offering"},
                         wrapper : Wrapper \cup {None}, same : BOOLEAN, left : SUBSET Peer]
            /\ pub'.by = pub.by /\ pub'.wrapper = pub.wrapper
        BY <1>1, <2>2, <3>1
      <3> QED
        BY <1>1, <1>6, <2>2, <3>2 DEF GInv, TypeOK, Publishing, Closed, disposed
    <2> QED
      BY <1>1, <2>1, <2>2
  <1>10. /\ pending' \in [Peer -> Wrapper \cup {None}]
         /\ \A q \in Peer : q # p => pending'[q] = pending[q]
         /\ pending'[p] # pending[p] => Takes(p, pub.wrapper)
    BY <1>1, <1>2
  <1>11. TypeOK'
    BY <1>1, <1>5, <1>7, <1>9, <1>10 DEF GInv, TypeOK, TaskState
  <1>12. SendsAreNew'
    BY <1>1, <1>8 DEF GInv, SendsAreNew, WasSentRecently, ShapeOf
  <1>13. Takes(p, pub.wrapper) => workerOf'[p] # None
    BY <1>5 DEF reserve, NeedsWorker
  <1>14. PendingHasWorker'
    BY <1>5, <1>9, <1>10, <1>13 DEF GInv, PendingHasWorker, Registered
  <1>15. Members' /\ WithdrawnNotWaiting'
    BY <1>1, <1>4, <1>9, <1>10 DEF GInv, Members, WithdrawnNotWaiting, Registered
  <1>16. Closed'
    BY <1>1, <1>8, <1>9 DEF GInv, Closed, disposed, Registered
  <1> QED
    BY <1>1, <1>4, <1>7, <1>8, <1>9, <1>11, <1>12, <1>14, <1>15, <1>16 DEF GInv

-----------------------------------------------------------------------------
(* The worker of a peer is the only task that sends to it. *)
LEMMA OneSends ==
  ASSUME GInv, NEW k \in Task, NEW j \in Task, tasks[k].for \in Peer, tasks[j].for = tasks[k].for
  PROVE  j = k
  BY DEF GInv, OwnersOf

LEMMA TakePendingKeeps ==
  ASSUME GossipAssumption, GInv, NEW k \in Task, TakePending(k)
  PROVE  LET p == tasks[k].for
         IN  /\ GInv' /\ UNCHANGED <<peers, lastWrapper, disposal>> /\ p \in Peer
             /\ tasks[k].at = "top"
             /\ \A j \in Task : /\ tasks'[j].for = tasks[j].for
                                /\ j # k => tasks'[j] = tasks[j]
             /\ \/ pending' = pending /\ tasks'[k].at # "sending"
                \/ /\ pending' = [pending EXCEPT ![p] = None] /\ pending[p] # None
                   /\ p \in Registered
                   /\ \/ tasks'[k].at # "sending"
                      \/ tasks'[k].at = "sending" /\ tasks'[k].wrapper = pending[p]
  <1> USE DEF GossipAssumption
  <1> DEFINE p == tasks[k].for
  <1>1. /\ UNCHANGED <<latest, peers, made, workerOf, recent, buildWorker, loop, adding, pub,
                       lastWrapper, disposal, awaited>>
        /\ tasks[k].at = "top"
        /\ \/ /\ tasks' = [tasks EXCEPT ![k].at = "ending"]
              /\ pending' = pending
           \/ /\ p \in Registered /\ pending[p] # None
              /\ pending' = [pending EXCEPT ![p] = None]
              /\ \/ tasks' = tasks
                 \/ /\ tasks' = [tasks EXCEPT ![k].at = "sending", ![k].wrapper = pending[p]]
                    /\ ~WasSentRecently(p, pending[p])
    BY DEF TakePending, ending, Stays, Sends
  <1>2. /\ tasks \in [Task -> TaskState] /\ tasks[k] \in TaskState
        /\ pending \in [Peer -> Wrapper \cup {None}]
        /\ p \in Peer /\ tasks[k].wrapper = None /\ p # None
    BY <1>1 DEF GInv, TypeOK, TaskState, ShapeOf
  <1>3. /\ tasks' \in [Task -> TaskState] /\ ShapeOf(tasks')
        /\ OwnersOf(tasks', buildWorker, workerOf)
        /\ \A j \in Task : /\ tasks'[j].for = tasks[j].for
                           /\ j # k => tasks'[j] = tasks[j]
        /\ tasks'[k].at # "none"
    <2>1. CASE tasks' = [tasks EXCEPT ![k].at = "ending"]
      <3> DEFINE r == [tasks[k] EXCEPT !.at = "ending"]
      <3>1. /\ r \in TaskState /\ r.for = p /\ r.at = "ending" /\ r.wrapper = None
            /\ tasks' = [tasks EXCEPT ![k] = r]
        BY <1>2, <2>1 DEF TaskState
      <3> HIDE DEF r
      <3> QED
        BY <1>2, <3>1, MovedTask DEF GInv
    <2>2. CASE tasks' = tasks
      BY <1>1, <1>2, <2>2 DEF GInv
    <2>3. CASE /\ tasks' = [tasks EXCEPT ![k].at = "sending", ![k].wrapper = pending[p]]
               /\ pending[p] # None
      <3> DEFINE r == [for |-> p, at |-> "sending", wrapper |-> pending[p]]
      <3>1. /\ r \in TaskState /\ r.for = p /\ r.at = "sending" /\ r.wrapper # None
            /\ tasks' = [tasks EXCEPT ![k] = r]
        BY <1>2, <2>3 DEF TaskState
      <3> HIDE DEF r
      <3> QED
        BY <1>2, <3>1, MovedTask DEF GInv
    <2> QED
      BY <1>1, <2>1, <2>2, <2>3
  <1>4. /\ pending' \in [Peer -> Wrapper \cup {None}]
        /\ \A q \in Peer : pending'[q] \in {pending[q], None}
    BY <1>1, <1>2
  <1>5. \/ pending' = pending /\ tasks'[k].at # "sending"
        \/ /\ pending' = [pending EXCEPT ![p] = None] /\ pending[p] # None
           /\ p \in Registered
           /\ \/ tasks'[k].at # "sending"
              \/ /\ tasks'[k].at = "sending" /\ tasks'[k].wrapper = pending[p]
                 /\ ~WasSentRecently(p, pending[p])
    BY <1>1, <1>2 DEF TaskState
  <1>6. SendsAreNew'
    BY <1>1, <1>3, <1>5 DEF GInv, SendsAreNew, WasSentRecently
  <1>7. TypeOK'
    BY <1>1, <1>3, <1>4 DEF GInv, TypeOK, TaskState
  <1>8. Members' /\ PendingHasWorker' /\ WithdrawnNotWaiting'
    BY <1>1, <1>4 DEF GInv, Members, PendingHasWorker, WithdrawnNotWaiting, Registered
  <1>9. Publishing' /\ Closed'
    BY <1>1, <1>3 DEF GInv, Publishing, Closed, disposed, Registered
  <1> QED
    BY <1>1, <1>2, <1>3, <1>5, <1>6, <1>7, <1>8, <1>9 DEF GInv

(* What is remembered of a send that was new. *)
LEMMA RememberedIs ==
  ASSUME GossipAssumption, NEW q \in Seq(Wrapper), NEW w \in Wrapper, w \notin ToSet(q),
         Len(q) <= MaxRecent
  PROVE  Remembered(q, w) \in Seq(Wrapper) /\ Len(Remembered(q, w)) <= MaxRecent
  <1>1. RemoveFirst(q, w) = q
    BY LenProperties DEF RemoveFirst, ToSet
  <1>2. Remembered(q, w) = Append(IF Len(q) = MaxRecent THEN Tail(q) ELSE q, w)
    BY <1>1 DEF Remembered
  <1>3. Len(q) \in Nat /\ MaxRecent \in Nat \ {0}
    BY LenProperties DEF GossipAssumption
  <1>4. CASE Len(q) = MaxRecent
    <2>1. q # <<>>
      BY <1>3, <1>4, EmptySeq
    <2>2. Tail(q) \in Seq(Wrapper) /\ Len(Tail(q)) = Len(q) - 1
      BY <2>1, HeadTailProperties
    <2> QED
      BY <1>2, <1>3, <1>4, <2>2, AppendProperties
  <1>5. CASE Len(q) # MaxRecent
    BY <1>2, <1>3, <1>5, AppendProperties
  <1> QED
    BY <1>4, <1>5

LEMMA SentKeeps ==
  ASSUME GossipAssumption, GInv, NEW k \in Task, Sent(k) \/ NotSent(k)
  PROVE  /\ GInv' /\ UNCHANGED <<peers, pending, lastWrapper, disposal>>
         /\ tasks[k].at = "sending" /\ tasks[k].for \in Peer /\ tasks'[k].at # "sending"
         /\ \A j \in Task : /\ tasks'[j].for = tasks[j].for
                            /\ j # k => tasks'[j] = tasks[j]
  <1> USE DEF GossipAssumption
  <1> DEFINE p == tasks[k].for
             w == tasks[k].wrapper
  <1>1. /\ UNCHANGED <<latest, peers, made, pending, workerOf, buildWorker, loop, adding, pub,
                       lastWrapper, disposal, awaited>>
        /\ tasks[k].at = "sending"
        /\ recent' = recent \/ recent' = [recent EXCEPT ![p] = Remembered(recent[p], w)]
    BY DEF Sent, NotSent, mailbox, ending
  <1>2. PICK at \in {"top", "ending"} : tasks' = [tasks EXCEPT ![k] = Started(p, at)]
    BY DEF Sent, NotSent
  <1>3. /\ tasks \in [Task -> TaskState] /\ tasks[k] \in TaskState
        /\ p \in Peer /\ p # None /\ w \in Wrapper
    BY <1>1 DEF GInv, TypeOK, TaskState, ShapeOf
  <1>4. /\ Started(p, at) \in TaskState
        /\ Started(p, at).for = p /\ Started(p, at).at = at /\ Started(p, at).wrapper = None
    BY <1>3 DEF Started, TaskState
  <1>5. /\ tasks' \in [Task -> TaskState] /\ ShapeOf(tasks')
        /\ OwnersOf(tasks', buildWorker, workerOf)
        /\ tasks'[k].at = at /\ tasks'[k].for = p
        /\ \A j \in Task : j # k => tasks'[j] = tasks[j]
    BY <1>2, <1>3, <1>4, MovedTask DEF GInv
  <1>6. w \notin ToSet(recent[p])
    BY <1>1 DEF GInv, SendsAreNew, WasSentRecently
  <1>7. /\ recent \in [Peer -> Seq(Wrapper)] /\ \A q \in Peer : Len(recent[q]) <= MaxRecent
    BY DEF GInv, TypeOK
  <1>8. Remembered(recent[p], w) \in Seq(Wrapper) /\ Len(Remembered(recent[p], w)) <= MaxRecent
    BY <1>3, <1>6, <1>7, RememberedIs
  <1>9. /\ recent' \in [Peer -> Seq(Wrapper)] /\ \A q \in Peer : Len(recent'[q]) <= MaxRecent
        /\ \A q \in Peer : q # p => recent'[q] = recent[q]
    BY <1>1, <1>3, <1>7, <1>8
  <1>10. SendsAreNew'
    <2> SUFFICES ASSUME NEW j \in Task, tasks'[j].at = "sending"
                 PROVE  ~WasSentRecently(tasks[j].for, tasks[j].wrapper)' /\ tasks'[j] = tasks[j]
      BY DEF SendsAreNew, WasSentRecently
    <2>1. j # k
      BY <1>5
    <2>2. tasks'[j] = tasks[j] /\ tasks[j].for \in Peer
      BY <1>5, <2>1 DEF GInv, ShapeOf
    <2>3. tasks[j].for # p
      BY <1>3, <2>1, OneSends
    <2> QED
      BY <1>9, <2>2, <2>3 DEF GInv, SendsAreNew, WasSentRecently
  <1>11. TypeOK'
    BY <1>1, <1>5, <1>9 DEF GInv, TypeOK, TaskState
  <1>12. Members' /\ PendingHasWorker' /\ WithdrawnNotWaiting'
    BY <1>1 DEF GInv, Members, PendingHasWorker, WithdrawnNotWaiting, Registered
  <1>13. Publishing' /\ Closed'
    BY <1>1, <1>5 DEF GInv, Publishing, Closed, disposed, Registered
  <1> QED
    BY <1>1, <1>3, <1>5, <1>10, <1>11, <1>12, <1>13 DEF GInv

LEMMA FinishWorkerKeeps ==
  ASSUME GossipAssumption, GInv, NEW k \in Task, FinishWorker(k)
  PROVE  /\ GInv' /\ UNCHANGED <<peers, pending, lastWrapper, disposal>>
         /\ \A j \in Task : tasks'[j].at = "sending" \/ tasks[j].at = "sending" =>
                              tasks'[j] = tasks[j]
  <1> USE DEF GossipAssumption
  <1> DEFINE p == tasks[k].for
  <1>1. /\ UNCHANGED <<latest, peers, made, pending, recent, buildWorker, loop, adding, pub,
                       lastWrapper, disposal>>
        /\ p \in Peer /\ tasks[k].at = "ending" /\ awaited' = awaited \ {k}
        /\ \/ /\ ~disposed /\ tasks' = [tasks EXCEPT ![k] = Started(p, "top")]
              /\ workerOf' = workerOf
           \/ /\ ~Continues(p)
              /\ tasks' = [tasks EXCEPT ![k] = Idle]
              /\ workerOf' = [workerOf EXCEPT ![p] = None]
    BY DEF FinishWorker, Completed, Continues
  <1>2. /\ tasks \in [Task -> TaskState] /\ workerOf \in [Peer -> Task \cup {None}]
    BY DEF GInv, TypeOK, TaskState
  <1>3. /\ tasks' \in [Task -> TaskState] /\ ShapeOf(tasks')
        /\ OwnersOf(tasks', buildWorker, workerOf') /\ workerOf' \in [Peer -> Task \cup {None}]
        /\ \A j \in Task : j # k => tasks'[j] = tasks[j]
        /\ tasks'[k].at \in {"top", "none"}
        /\ tasks'[k].at # "none" => ~disposed
        /\ \A q \in Registered : pending[q] # None => workerOf'[q] # None
    <2>1. CASE /\ ~disposed /\ tasks' = [tasks EXCEPT ![k] = Started(p, "top")]
               /\ workerOf' = workerOf
      <3>1. /\ Started(p, "top") \in TaskState
            /\ Started(p, "top").for = p /\ Started(p, "top").at = "top"
            /\ Started(p, "top").wrapper = None
        BY <1>1, StartedIs
      <3>2. /\ tasks' \in [Task -> TaskState] /\ ShapeOf(tasks')
            /\ OwnersOf(tasks', buildWorker, workerOf)
            /\ tasks'[k] = Started(p, "top") /\ \A j \in Task : j # k => tasks'[j] = tasks[j]
        BY <1>1, <1>2, <2>1, <3>1, MovedTask DEF GInv
      <3> QED
        BY <1>2, <2>1, <3>1, <3>2 DEF GInv, PendingHasWorker
    <2>2. CASE /\ ~Continues(p)
               /\ tasks' = [tasks EXCEPT ![k] = Idle]
               /\ workerOf' = [workerOf EXCEPT ![p] = None]
      <3>1. /\ tasks' \in [Task -> TaskState] /\ ShapeOf(tasks')
            /\ tasks'[k].at = "none" /\ tasks'[k].for = None
            /\ \A j \in Task : j # k => tasks'[j] = tasks[j]
        BY <1>2, <2>2, StoppedTask DEF GInv
      <3>2. /\ workerOf' \in [Peer -> Task \cup {None}] /\ workerOf'[p] = None
            /\ \A q \in Peer : q # p => workerOf'[q] = workerOf[q]
        BY <1>1, <1>2, <2>2
      <3>3. /\ \A j \in Task : tasks[j].for = Build <=> j = buildWorker
            /\ \A j \in Task, q \in Peer : tasks[j].for = q <=> j = workerOf[q]
        BY DEF GInv, OwnersOf
      <3>4. \A j \in Task : tasks'[j].for = Build <=> j = buildWorker
        BY <1>1, <3>1, <3>3
      <3>5. \A j \in Task, q \in Peer : tasks'[j].for = q <=> j = workerOf'[q]
        <4> SUFFICES ASSUME NEW j \in Task, NEW q \in Peer
                     PROVE  tasks'[j].for = q <=> j = workerOf'[q]
          OBVIOUS
        <4>1. CASE j = k
          BY <1>1, <3>1, <3>2, <3>3, <4>1
        <4>2. CASE j # k
          BY <1>1, <3>1, <3>2, <3>3, <4>2
        <4> QED
          BY <4>1, <4>2
      <3>6. \A q \in Registered : pending[q] # None => workerOf'[q] # None
        BY <1>1, <2>2, <3>2 DEF GInv, PendingHasWorker, Continues, Closed, Registered
      <3> QED
        BY <3>1, <3>2, <3>4, <3>5, <3>6 DEF OwnersOf
    <2> QED
      BY <1>1, <2>1, <2>2
  <1>4. \A j \in Task : tasks'[j].at = "sending" \/ tasks[j].at = "sending" => tasks'[j] = tasks[j]
    BY <1>1, <1>3
  <1>5. TypeOK'
    BY <1>1, <1>3 DEF GInv, TypeOK, TaskState
  <1>6. SendsAreNew'
    BY <1>1, <1>4 DEF GInv, SendsAreNew, WasSentRecently
  <1>7. Members' /\ PendingHasWorker' /\ WithdrawnNotWaiting'
    BY <1>1, <1>3 DEF GInv, Members, PendingHasWorker, WithdrawnNotWaiting, Registered
  <1>8. Publishing' /\ Closed'
    BY <1>1, <1>3 DEF GInv, Publishing, Closed, disposed, Registered
  <1> QED
    BY <1>1, <1>3, <1>4, <1>5, <1>6, <1>7, <1>8 DEF GInv

LEMMA DisposeAsyncKeeps ==
  ASSUME GossipAssumption, GInv, DisposeAsync
  PROVE  /\ GInv' /\ UNCHANGED <<pending, tasks>> /\ Registered' = {} /\ lastWrapper' = None
         /\ disposed'
  <1> USE DEF GossipAssumption
  <1>1. /\ UNCHANGED <<latest, made, pending, workerOf, tasks, buildWorker, loop, adding, pub>>
        /\ disposal' = "closing" /\ awaited' = {k \in Task : tasks[k] # Idle}
        /\ peers' = [d \in Delegate |-> None] /\ lastWrapper' = None
        /\ recent' = [p \in Peer |-> <<>>]
    BY DEF DisposeAsync
  <1>2. Registered' = {} /\ disposed'
    BY <1>1 DEF Registered, disposed
  <1>3. tasks \in [Task -> TaskState]
    BY DEF GInv, TypeOK, TaskState
  <1>4. \A k \in Task : tasks[k].at # "none" => k \in awaited'
    BY <1>1, <1>3, IdleIs DEF GInv
  <1>5. TypeOK'
    <2>1. recent' \in [Peer -> Seq(Wrapper)] /\ \A p \in Peer : Len(recent'[p]) <= MaxRecent
      BY <1>1, EmptySeq
    <2>2. peers' \in [Delegate -> Peer \cup {None}] /\ \A d \in Delegate : peers'[d] = None
      BY <1>1
    <2> QED
      BY <1>1, <2>1, <2>2 DEF GInv, TypeOK
  <1>6. SendsAreNew'
    BY <1>1 DEF GInv, SendsAreNew, WasSentRecently, ShapeOf, ToSet
  <1>7. ShapeOf(tasks)' /\ OwnersOf(tasks, buildWorker, workerOf)'
    BY <1>1 DEF GInv, ShapeOf, OwnersOf
  <1> QED
    BY <1>1, <1>2, <1>4, <1>5, <1>6, <1>7
    DEF GInv, Publishing, Members, Closed, PendingHasWorker, WithdrawnNotWaiting

LEMMA NextKeeps ==
  ASSUME GossipAssumption, GInv, [Next]_vars
  PROVE  GInv'
  <1>1. CASE \/ WrapperLapses \/ Start \/ LoopEnds \/ CancelAsync \/ DisposeReturns
             \/ \E p \in Peer : RefreshDue(p)
    BY <1>1, OutsideKeeps
  <1>2. CASE Tick
    BY <1>2, TickKeeps
  <1>3. ASSUME NEW p \in Peer, AddPeer(p) \/ TrySend(p) PROVE GInv'
    BY <1>3, AddPeerKeeps, TrySendKeeps
  <1>4. ASSUME NEW d \in Delegate, RemovePeer(d) PROVE GInv'
    BY <1>4, RemovePeerKeeps
  <1>5. ASSUME NEW k \in Task, NEW w \in Wrapper \cup {None}, Built(k, w) PROVE GInv'
    BY <1>5, BuiltKeeps
  <1>6. ASSUME NEW k \in Task, Worker(k) PROVE GInv'
    BY <1>6, TakePendingKeeps, SentKeeps, FinishWorkerKeeps, FinishBuildKeeps DEF Worker
  <1>7. CASE Publication
    BY <1>3, <1>7, PublishLatestKeeps, WithdrawLatestKeeps, AnnounceLatestKeeps DEF Publication
  <1>8. CASE DisposeAsync
    BY <1>8, DisposeAsyncKeeps
  <1>9. CASE UNCHANGED vars
    BY <1>9 DEF vars, mailbox, ending, GInv, TypeOK, ShapeOf, OwnersOf, Publishing, Members, Closed,
                PendingHasWorker, SendsAreNew, WithdrawnNotWaiting, WasSentRecently, Registered,
                disposed
  <1> QED
    BY <1>1, <1>2, <1>3, <1>4, <1>5, <1>6, <1>7, <1>8, <1>9 DEF Next

LEMMA GInvSuffices ==
  ASSUME GossipAssumption, GInv
  PROVE  GossipSound
  <1>1. OneWorkerPerPeer
    BY DEF GInv, OwnersOf, TypeOK, OneWorkerPerPeer, GossipAssumption
  <1>2. DisposedQuiet
    <2> SUFFICES ASSUME disposal = "done"
                 PROVE  loop \in {"none", "ended"} /\ \A k \in Task : tasks[k] = Idle
      BY DEF DisposedQuiet
    <2>1. /\ loop \in {"none", "ended"}
          /\ \A k \in Task : tasks[k].at = "none"
      BY DEF GInv, Closed, disposed
    <2>2. tasks \in [Task -> TaskState]
      BY DEF GInv, TypeOK, TaskState
    <2> QED
      BY <2>1, <2>2, IdleIs DEF GInv
  <1> QED
    BY <1>1, <1>2 DEF GInv, GossipSound

(* The timer, the builds, the workers, the connections and disposal share the
   mailboxes: a peer has one worker while something waits for it, is sent
   nothing twice within the refresh delay, and disposal leaves nothing running
   (LeanProofGossip.cs). *)
THEOREM GossipIsSound ==
  ASSUME GossipAssumption
  PROVE  Spec => []GossipSound
  <1>1. Init => GInv
    BY InitHolds
  <1>2. GInv /\ [Next]_vars => GInv'
    BY NextKeeps
  <1>3. GInv => GossipSound
    BY GInvSuffices
  <1> QED
    BY <1>1, <1>2, <1>3, PTL DEF Spec

-----------------------------------------------------------------------------
(* What the feed sees of the gossip. *)
NextOf(p) == IF p \in Registered THEN pending[p] ELSE None

Sending(p) == {tasks[k].wrapper : k \in {j \in Task : tasks[j].for = p /\ tasks[j].at = "sending"}}

FeedNext == [Feed!Next]_(Feed!feed)

LEMMA FeedActs ==
  ASSUME NEW p \in Peer,
         Feed!Join(p) \/ Feed!Leave(p) \/ Feed!Offer(p) \/ Feed!Skip(p) \/ Feed!Begin(p) \/ Feed!End(p)
  PROVE  FeedNext
  BY DEF FeedNext, Feed!Next

LEMMA SendingSame ==
  ASSUME \A j \in Task : tasks'[j].at = "sending" \/ tasks[j].at = "sending" => tasks'[j] = tasks[j]
  PROVE  \A p \in Peer : Sending(p)' = Sending(p)
  BY DEF Sending

LEMMA SendingSameFields ==
  ASSUME GInv,
         \A j \in Task : /\ tasks[j].at # "none" => tasks'[j].for = tasks[j].for
                         /\ tasks'[j].wrapper = tasks[j].wrapper
                         /\ tasks'[j].at = "sending" <=> tasks[j].at = "sending"
  PROVE  \A p \in Peer : Sending(p)' = Sending(p)
  BY DEF Sending

LEMMA FeedStutters ==
  ASSUME UNCHANGED <<peers, pending, lastWrapper>>, disposed' = disposed,
         \A p \in Peer : Sending(p)' = Sending(p)
  PROVE  FeedNext
  <1>1. Registered' = Registered
    BY DEF Registered
  <1>2. [p \in Peer |-> NextOf(p)]' = [p \in Peer |-> NextOf(p)]
    BY <1>1 DEF NextOf
  <1>3. [p \in Peer |-> Sending(p)]' = [p \in Peer |-> Sending(p)]
    OBVIOUS
  <1> QED
    BY <1>1, <1>2, <1>3 DEF FeedNext, Feed!feed, NextOf, Sending

LEMMA FeedInit ==
  ASSUME GossipAssumption, Init
  PROVE  Feed!Init
  <1>1. Registered = {}
    BY DEF Init, Registered, GossipAssumption
  <1>2. \A p \in Peer : Sending(p) = {}
    BY DEF Init, Sending, Idle
  <1> QED
    BY <1>1, <1>2 DEF Init, Feed!Init, Sending, disposed

LEMMA AddPeerJoins ==
  ASSUME GossipAssumption, GInv, NEW p \in Peer, AddPeer(p)
  PROVE  FeedNext
  <1>1. /\ Registered' = Registered \cup {p} /\ p \notin Registered
        /\ UNCHANGED <<pending, tasks, lastWrapper, disposal>> /\ ~disposed /\ pending[p] = None
    BY AddPeerKeeps DEF AddPeer, mailbox, ending, GInv, Members
  <1>2. [q \in Peer |-> NextOf(q)]' = [q \in Peer |-> NextOf(q)]
    BY <1>1 DEF NextOf
  <1>3. [q \in Peer |-> Sending(q)]' = [q \in Peer |-> Sending(q)]
    BY <1>1 DEF Sending
  <1>4. Feed!Join(p)
    BY <1>1, <1>2, <1>3 DEF Feed!Join, NextOf, Sending, disposed
  <1> QED
    BY <1>4 DEF FeedNext, Feed!Next

LEMMA RemovePeerLeaves ==
  ASSUME GossipAssumption, GInv, NEW d \in Delegate, RemovePeer(d)
  PROVE  FeedNext
  <1>p. PICK p \in Peer : p = peers[d]
    BY RemovePeerKeeps DEF RemovePeer, GInv, TypeOK
  <1>1. /\ Registered' = Registered \ {p} /\ p \in Registered /\ p \in Peer
        /\ pending' = [pending EXCEPT ![p] = None] /\ pending \in [Peer -> Wrapper \cup {None}]
        /\ UNCHANGED <<tasks, lastWrapper, disposal>>
    BY <1>p, RemovePeerKeeps DEF RemovePeer, ending, Registered, GInv, TypeOK
  <1>2. [q \in Peer |-> NextOf(q)]' = [[q \in Peer |-> NextOf(q)] EXCEPT ![p] = None]
    BY <1>1 DEF NextOf
  <1>3. [q \in Peer |-> Sending(q)]' = [q \in Peer |-> Sending(q)]
    BY <1>1 DEF Sending
  <1>4. Feed!Leave(p)
    BY <1>1, <1>2, <1>3 DEF Feed!Leave, NextOf, Sending, disposed
  <1> QED
    BY <1>1, <1>4, FeedActs

LEMMA WithdrawLatestWithdraws ==
  ASSUME GossipAssumption, GInv, WithdrawLatest
  PROVE  FeedNext
  <1>1. /\ UNCHANGED <<peers, disposal>> /\ lastWrapper' = None
        /\ \A p \in Peer : pending'[p] = IF p \in Registered THEN None ELSE pending[p]
        /\ \A p \in Peer : Sending(p)' = Sending(p)
    BY WithdrawLatestKeeps, SendingSameFields
  <1>2. Registered' = Registered
    BY <1>1 DEF Registered
  <1>3. [p \in Peer |-> NextOf(p)]' = [p \in Peer |-> None]
    BY <1>1, <1>2 DEF NextOf
  <1>4. [p \in Peer |-> Sending(p)]' = [p \in Peer |-> Sending(p)]
    BY <1>1
  <1>5. Feed!Withdraw
    BY <1>1, <1>2, <1>3, <1>4 DEF Feed!Withdraw, NextOf, Sending, disposed
  <1> QED
    BY <1>5 DEF FeedNext, Feed!Next

LEMMA AnnounceLatestAnnounces ==
  ASSUME GossipAssumption, GInv, AnnounceLatest
  PROVE  FeedNext
  <1>1. /\ UNCHANGED <<peers, pending, disposal>>
        /\ lastWrapper' # lastWrapper => ~disposed /\ lastWrapper' \in Wrapper
        /\ \A p \in Peer : Sending(p)' = Sending(p)
    BY AnnounceLatestKeeps, SendingSameFields
  <1>2. CASE lastWrapper' = lastWrapper
    BY <1>1, <1>2, FeedStutters DEF disposed
  <1>3. CASE lastWrapper' # lastWrapper
    <2>1. Registered' = Registered
      BY <1>1 DEF Registered
    <2>2. [p \in Peer |-> NextOf(p)]' = [p \in Peer |-> NextOf(p)]
      BY <1>1, <2>1 DEF NextOf
    <2>3. [p \in Peer |-> Sending(p)]' = [p \in Peer |-> Sending(p)]
      BY <1>1
    <2>4. Feed!Announce(lastWrapper')
      BY <1>1, <1>3, <2>1, <2>2, <2>3 DEF Feed!Announce, NextOf, Sending, disposed
    <2> QED
      BY <1>1, <1>3, <2>4 DEF FeedNext, Feed!Next
  <1> QED
    BY <1>2, <1>3

LEMMA TrySendOffers ==
  ASSUME GossipAssumption, GInv, NEW p \in Peer, TrySend(p)
  PROVE  FeedNext
  <1>1. /\ UNCHANGED <<peers, lastWrapper, disposal>>
        /\ \/ pending' = pending
           \/ /\ p \in Registered /\ lastWrapper \in Wrapper
              /\ pending' = [pending EXCEPT ![p] = lastWrapper]
        /\ \A q \in Peer : Sending(q)' = Sending(q)
        /\ pending \in [Peer -> Wrapper \cup {None}]
    BY TrySendKeeps, SendingSameFields DEF GInv, TypeOK
  <1>2. CASE pending' = pending
    BY <1>1, <1>2, FeedStutters DEF disposed
  <1>3. CASE /\ p \in Registered /\ lastWrapper \in Wrapper
             /\ pending' = [pending EXCEPT ![p] = lastWrapper]
    <2>1. Registered' = Registered
      BY <1>1 DEF Registered
    <2>2. [q \in Peer |-> NextOf(q)]' = [[q \in Peer |-> NextOf(q)] EXCEPT ![p] = lastWrapper]
      BY <1>1, <1>3, <2>1 DEF NextOf
    <2>3. [q \in Peer |-> Sending(q)]' = [q \in Peer |-> Sending(q)]
      BY <1>1
    <2>4. Feed!Offer(p)
      BY <1>1, <1>3, <2>1, <2>2, <2>3 DEF Feed!Offer, NextOf, Sending, disposed, GossipAssumption
    <2> QED
      BY <2>4 DEF FeedNext, Feed!Next
  <1> QED
    BY <1>1, <1>2, <1>3

LEMMA TakePendingBegins ==
  ASSUME GossipAssumption, GInv, NEW k \in Task, TakePending(k)
  PROVE  FeedNext
  <1>p. PICK p \in Peer : p = tasks[k].for
    BY TakePendingKeeps
  <1>1. /\ UNCHANGED <<peers, lastWrapper, disposal>> /\ p \in Peer
        /\ tasks[k].at = "top"
        /\ \A j \in Task : /\ tasks'[j].for = tasks[j].for
                           /\ j # k => tasks'[j] = tasks[j]
        /\ \/ pending' = pending /\ tasks'[k].at # "sending"
           \/ /\ pending' = [pending EXCEPT ![p] = None] /\ pending[p] # None
              /\ p \in Registered
              /\ \/ tasks'[k].at # "sending"
                 \/ tasks'[k].at = "sending" /\ tasks'[k].wrapper = pending[p]
        /\ pending \in [Peer -> Wrapper \cup {None}]
    BY <1>p, TakePendingKeeps DEF GInv, TypeOK
  <1>2. Registered' = Registered
    BY <1>1 DEF Registered
  <1>3. CASE tasks'[k].at # "sending"
    <2>1. \A j \in Task : tasks'[j].at = "sending" \/ tasks[j].at = "sending" =>
                            tasks'[j] = tasks[j]
      BY <1>1, <1>3
    <2>2. \A q \in Peer : Sending(q)' = Sending(q)
      BY <2>1, SendingSame
    <2>3. CASE pending' = pending
      BY <1>1, <2>2, <2>3, FeedStutters DEF disposed
    <2>4. CASE /\ pending' = [pending EXCEPT ![p] = None] /\ pending[p] # None
               /\ p \in Registered
      <3>1. [q \in Peer |-> NextOf(q)]' = [[q \in Peer |-> NextOf(q)] EXCEPT ![p] = None]
        BY <1>1, <1>2, <2>4 DEF NextOf
      <3>2. [q \in Peer |-> Sending(q)]' = [q \in Peer |-> Sending(q)]
        BY <2>2
      <3>3. Feed!Skip(p)
        BY <1>1, <1>2, <2>4, <3>1, <3>2 DEF Feed!Skip, NextOf, Sending, disposed
      <3> QED
        BY <1>1, <3>3, FeedActs
    <2> QED
      BY <1>1, <2>3, <2>4
  <1>4. CASE tasks'[k].at = "sending"
    <2>1. /\ pending' = [pending EXCEPT ![p] = None] /\ pending[p] # None /\ p \in Registered
          /\ tasks'[k].wrapper = pending[p]
      BY <1>1, <1>4
    <2>2. [q \in Peer |-> NextOf(q)]' = [[q \in Peer |-> NextOf(q)] EXCEPT ![p] = None]
      BY <1>1, <1>2, <2>1 DEF NextOf
    <2>3. \A j \in Task : tasks[j].for = p => j = k
      BY <1>p, <1>1, OneSends
    <2>4. Sending(p) = {} /\ Sending(p)' = {pending[p]}
      <3>1. {j \in Task : tasks[j].for = p /\ tasks[j].at = "sending"} = {}
        BY <1>p, <1>1, <2>3
      <3>2. {j \in Task : tasks'[j].for = p /\ tasks'[j].at = "sending"} = {k}
        BY <1>p, <1>1, <1>4, <2>3
      <3> QED
        BY <2>1, <3>1, <3>2 DEF Sending
    <2>5. \A q \in Peer : q # p => Sending(q)' = Sending(q)
      BY <1>p, <1>1 DEF Sending
    <2>6. [q \in Peer |-> Sending(q)]' = [[q \in Peer |-> Sending(q)] EXCEPT ![p] = {NextOf(p)}]
      BY <1>1, <2>1, <2>4, <2>5 DEF NextOf
    <2>7. Feed!Begin(p)
      BY <1>1, <1>2, <2>1, <2>2, <2>4, <2>6 DEF Feed!Begin, NextOf, Sending, disposed
    <2> QED
      BY <1>1, <2>7, FeedActs
  <1> QED
    BY <1>3, <1>4

LEMMA SentEnds ==
  ASSUME GossipAssumption, GInv, NEW k \in Task, Sent(k) \/ NotSent(k)
  PROVE  FeedNext
  <1>p. PICK p \in Peer : p = tasks[k].for
    BY SentKeeps
  <1>1. /\ UNCHANGED <<peers, pending, lastWrapper, disposal>>
        /\ tasks[k].at = "sending" /\ p \in Peer /\ tasks'[k].at # "sending"
        /\ \A j \in Task : /\ tasks'[j].for = tasks[j].for
                           /\ j # k => tasks'[j] = tasks[j]
    BY <1>p, SentKeeps
  <1>2. Registered' = Registered
    BY <1>1 DEF Registered
  <1>3. \A j \in Task : tasks[j].for = p => j = k
    BY <1>p, <1>1, OneSends
  <1>4. Sending(p)' = {}
    BY <1>p, <1>1, <1>3 DEF Sending
  <1>5. \A q \in Peer : q # p => Sending(q)' = Sending(q)
    BY <1>p, <1>1 DEF Sending
  <1>6. [q \in Peer |-> Sending(q)]' = [[q \in Peer |-> Sending(q)] EXCEPT ![p] = {}]
    BY <1>1, <1>4, <1>5
  <1>7. [q \in Peer |-> NextOf(q)]' = [q \in Peer |-> NextOf(q)]
    BY <1>1, <1>2 DEF NextOf
  <1>8. Feed!End(p)
    BY <1>1, <1>2, <1>6, <1>7 DEF Feed!End, NextOf, Sending, disposed
  <1> QED
    BY <1>1, <1>8, FeedActs

LEMMA DisposeAsyncCloses ==
  ASSUME GossipAssumption, GInv, DisposeAsync
  PROVE  FeedNext
  <1>1. /\ UNCHANGED <<pending, tasks>> /\ Registered' = {} /\ lastWrapper' = None
        /\ disposed' = TRUE
    BY DisposeAsyncKeeps DEF disposed
  <1>2. [p \in Peer |-> NextOf(p)]' = [p \in Peer |-> None]
    BY <1>1 DEF NextOf
  <1>3. [p \in Peer |-> Sending(p)]' = [p \in Peer |-> Sending(p)]
    BY <1>1 DEF Sending
  <1>4. Feed!Close
    BY <1>1, <1>2, <1>3 DEF Feed!Close, NextOf, Sending
  <1> QED
    BY <1>4 DEF FeedNext, Feed!Next

LEMMA FeedStep ==
  ASSUME GossipAssumption, GInv, [Next]_vars
  PROVE  FeedNext
  <1>1. CASE \/ WrapperLapses \/ Start \/ LoopEnds \/ CancelAsync \/ DisposeReturns
             \/ \E p \in Peer : RefreshDue(p)
    <2>1. /\ UNCHANGED <<peers, pending, lastWrapper, tasks>>
          /\ disposed' = disposed
      BY <1>1 DEF WrapperLapses, RefreshDue, Start, LoopEnds, CancelAsync, DisposeReturns, mailbox,
                  ending, disposed
    <2>2. \A p \in Peer : Sending(p)' = Sending(p)
      BY <2>1 DEF Sending
    <2> QED
      BY <2>1, <2>2, FeedStutters
  <1>2. ASSUME /\ UNCHANGED <<peers, pending, lastWrapper, disposal>>
               /\ \A j \in Task : tasks'[j].at = "sending" \/ tasks[j].at = "sending" =>
                                    tasks'[j] = tasks[j]
        PROVE  FeedNext
    BY <1>2, SendingSame, FeedStutters DEF disposed
  <1>3. CASE Tick
    BY <1>2, <1>3, TickKeeps
  <1>4. ASSUME NEW p \in Peer, AddPeer(p) \/ TrySend(p) PROVE FeedNext
    BY <1>4, AddPeerJoins, TrySendOffers
  <1>5. ASSUME NEW d \in Delegate, RemovePeer(d) PROVE FeedNext
    BY <1>5, RemovePeerLeaves
  <1>6. ASSUME NEW k \in Task, NEW w \in Wrapper \cup {None}, Built(k, w) PROVE FeedNext
    BY <1>2, <1>6, BuiltKeeps
  <1>7. ASSUME NEW k \in Task, Worker(k) PROVE FeedNext
    <2>1. ASSUME FinishWorker(k) \/ FinishBuild(k) PROVE FeedNext
      BY <1>2, <2>1, FinishWorkerKeeps, FinishBuildKeeps
    <2> QED
      BY <1>7, <2>1, TakePendingBegins, SentEnds DEF Worker
  <1>8. CASE Publication
    <2>1. ASSUME NEW c \in {Loop} \cup Task \cup Peer, PublishLatest(c) PROVE FeedNext
      BY <1>2, <2>1, PublishLatestKeeps
    <2> QED
      BY <1>4, <1>8, <2>1, WithdrawLatestWithdraws, AnnounceLatestAnnounces DEF Publication
  <1>9. CASE DisposeAsync
    BY <1>9, DisposeAsyncCloses
  <1>10. CASE UNCHANGED vars
    <2>1. /\ UNCHANGED <<peers, pending, lastWrapper, disposal, tasks>>
      BY <1>10 DEF vars, mailbox, ending
    <2> QED
      BY <1>2, <2>1
  <1> QED
    BY <1>1, <1>3, <1>4, <1>5, <1>6, <1>7, <1>8, <1>9, <1>10 DEF Next

(* The gossip implements the feed: whatever the timer, the connections and the
   workers do, each step of the gossip is a step of the feed or none of it. *)
THEOREM GossipImplementsFeed ==
  ASSUME GossipAssumption
  PROVE  Spec => ImplementsFeed
  <1>1. Init => GInv /\ Feed!Init
    BY InitHolds, FeedInit
  <1>2. GInv /\ [Next]_vars => GInv' /\ [Feed!Next]_(Feed!feed)
    BY NextKeeps, FeedStep DEF FeedNext
  <1> QED
    BY <1>1, <1>2, PTL DEF Spec, ImplementsFeed, Feed!Spec
=============================================================================
