---------------------- MODULE LeanProtocolHandlerProofs ----------------------
(* Theorems about the receiving side of a lean connection, for any number of
   messages and of background tasks. *)
EXTENDS LeanProtocolHandler, FiniteSetTheorems, TLAPS

-----------------------------------------------------------------------------
(* The inductive invariant.  First, what the states of the two threads say of
   the message in hand. *)
Shape ==
  /\ TypeOK
  /\ network.msg # None <=> network.at = "decoded"
  /\ \A k \in Task : /\ tasks[k].msg # None <=> tasks[k].at \in {"accepting", "delaying"}
                     /\ tasks[k].at \notin {"accepting", "delaying"} => ~tasks[k].late

NetworkOwns == network.at \in {"scheduling", "refused"}
TaskOwns(k) == tasks[k].at # "none"
Owned       == NetworkOwns \/ \E k \in Task : TaskOwns(k)

(* At most one thread owns the slot, and the flag says whether one does.  A
   disposed handler may have given the slot up before its owner knows. *)
SlotOwned ==
  /\ \A j, k \in Task : TaskOwns(j) /\ TaskOwns(k) => j = k
  /\ NetworkOwns => \A k \in Task : ~TaskOwns(k)
  /\ receiving => Owned
  /\ Owned /\ ~disposed => receiving
  /\ active # None =>
       NetworkOwns \/ \E k \in Task : tasks[k].at \in {"queued", "scheduling", "clearing"}
  /\ ~disposed /\ network.at = "scheduling" => active # None
  /\ ~disposed => \A k \in Task : tasks[k].at \in {"queued", "scheduling"} => active # None
  /\ pending # None /\ ~disposed => Owned
  /\ disposal = "done" => active = None /\ pending = None /\ ~receiving

(* No message is in two places, and those that were given back are in none. *)
Apart ==
  /\ active # None => active # pending /\ active # network.msg
  /\ pending # None => pending # network.msg
  /\ \A k \in Task : tasks[k].msg # None => tasks[k].msg \notin {active, pending, network.msg}

Held(m) == m \in {active, pending, network.msg} \/ \E k \in Task : tasks[k].msg = m

Accounted == \A m \in Message : Held(m) <=> m \in came /\ releases[m] = 0

Fresh == \A m \in Message : m \notin came => releases[m] = 0

IInv == Shape /\ SlotOwned /\ Apart /\ Accounted /\ Fresh /\ DisposedUnregistered

-----------------------------------------------------------------------------
LEMMA NoTaskIs ==
  ASSUME Shape, NEW k \in Task
  PROVE  tasks[k] = NoTask <=> ~TaskOwns(k)
  <1>1. tasks[k] \in [at : {"none", "queued", "accepting", "delaying", "finishing",
                            "scheduling", "clearing"},
                      msg : Message \cup {None}, late : BOOLEAN]
    BY DEF Shape, TypeOK
  <1>2. tasks[k].at = "none" => tasks[k].msg = None /\ tasks[k].late = FALSE
    BY <1>1 DEF Shape
  <1>3. tasks[k] = [at |-> tasks[k].at, msg |-> tasks[k].msg, late |-> tasks[k].late]
    BY <1>1
  <1>4. tasks[k].at = "none" => tasks[k] = NoTask
    BY <1>2, <1>3 DEF NoTask
  <1>5. NoTask.at = "none"
    BY DEF NoTask
  <1> QED
    BY <1>4, <1>5 DEF TaskOwns

LEMMA IInvSuffices ==
  ASSUME IInv
  PROVE  HandlerSound
  <1> USE NoneAssumption
  <1>1. ASSUME NEW m \in came
        PROVE  Cardinality(Places(m)) + releases[m] = 1
    <2>1. m \in Message /\ m # None /\ releases[m] \in 0..1
      BY DEF IInv, Shape, TypeOK
    <2>2. CASE ~Held(m)
      <3>1. Places(m) = {}
        BY <2>2 DEF Held, Places
      <3> QED
        BY <2>1, <2>2, <3>1, FS_EmptySet DEF IInv, Accounted
    <2>3. CASE Held(m)
      <3>1. releases[m] = 0
        BY <2>1, <2>3 DEF IInv, Accounted
      <3>2. PICK p : Places(m) = {p}
        <4>1. CASE active = m
          <5>1. Places(m) = {<<"active", None>>}
            BY <4>1, <2>1 DEF IInv, Apart, Places
          <5> QED
            BY <5>1
        <4>2. CASE pending = m
          <5>1. Places(m) = {<<"pending", None>>}
            BY <4>2, <2>1 DEF IInv, Apart, Places
          <5> QED
            BY <5>1
        <4>3. CASE network.msg = m
          <5>1. Places(m) = {<<"network", None>>}
            BY <4>3, <2>1 DEF IInv, Apart, Places
          <5> QED
            BY <5>1
        <4>4. ASSUME NEW k \in Task, tasks[k].msg = m
              PROVE  \E p : Places(m) = {p}
          <5>1. m \notin {active, pending, network.msg}
            BY <4>4, <2>1 DEF IInv, Apart
          <5>2. \A j \in Task : tasks[j].msg = m => j = k
            BY <4>4, <2>1 DEF IInv, Shape, SlotOwned, TaskOwns
          <5>3. {j \in Task : tasks[j].msg = m} = {k}
            BY <4>4, <5>2
          <5>4. Places(m) = {<<"task", k>>}
            BY <5>1, <5>3 DEF Places
          <5> QED
            BY <5>4
        <4> QED
          BY <2>3, <4>1, <4>2, <4>3, <4>4 DEF Held
      <3>3. Cardinality({p}) = 1
        BY FS_Singleton
      <3> QED
        BY <3>1, <3>2, <3>3
    <2> QED
      BY <2>2, <2>3
  <1>2. OneReceive
    <2>1. Cardinality({k \in Task : tasks[k] # NoTask}) <= 1
      <3>1. CASE \A k \in Task : ~TaskOwns(k)
        <4>1. {k \in Task : tasks[k] # NoTask} = {}
          BY <3>1, NoTaskIs DEF IInv
        <4> QED
          BY <4>1, FS_EmptySet
      <3>2. ASSUME NEW k \in Task, TaskOwns(k)
            PROVE  Cardinality({j \in Task : tasks[j] # NoTask}) <= 1
        <4>1. {j \in Task : tasks[j] # NoTask} = {k}
          BY <3>2, NoTaskIs DEF IInv, SlotOwned
        <4> QED
          BY <4>1, FS_Singleton
      <3> QED
        BY <3>1, <3>2
    <2> QED
      BY <2>1, NoTaskIs DEF OneReceive, IInv, SlotOwned, NetworkOwns
  <1>3. SlotReleased
    <2> SUFFICES ASSUME network = Waiting, \A k \in Task : tasks[k] = NoTask
                 PROVE  /\ ~receiving /\ active = None
                        /\ pending = None \/ disposal \in {"marked", "removed"}
      BY DEF SlotReleased
    <2>1. ~Owned
      BY NoTaskIs DEF IInv, Owned, NetworkOwns, Waiting
    <2>2. disposal \in {"no", "marked", "removed", "done"}
      BY DEF IInv, Shape, TypeOK
    <2> QED
      BY <2>1, <2>2 DEF IInv, SlotOwned, TaskOwns, disposed, Owned
  <1> QED
    BY <1>1, <1>2, <1>3 DEF HandlerSound, IInv, Shape, MessagesAccounted

LEMMA InitHolds == Init => IInv
  <1> SUFFICES ASSUME Init PROVE IInv
    OBVIOUS
  <1>1. \A k \in Task : tasks[k].at = "none" /\ tasks[k].msg = None /\ tasks[k].late = FALSE
    BY DEF Init, NoTask
  <1>2. network.at = "idle" /\ network.msg = None
    BY DEF Init, Waiting
  <1>3. TypeOK
    <2>1. /\ Waiting \in [at : {"idle", "status", "decoded", "scheduling", "refused"},
                          msg : Message \cup {None}]
          /\ NoTask \in [at : {"none", "queued", "accepting", "delaying", "finishing",
                               "scheduling", "clearing"},
                         msg : Message \cup {None}, late : BOOLEAN]
      BY DEF Waiting, NoTask
    <2> HIDE DEF Waiting, NoTask
    <2>2. tasks \in [Task -> [at : {"none", "queued", "accepting", "delaying", "finishing",
                                  "scheduling", "clearing"},
                            msg : Message \cup {None}, late : BOOLEAN]]
      BY <2>1 DEF Init
    <2>3. releases \in [Message -> 0..1]
      BY DEF Init
    <2> QED
      BY <2>1, <2>2, <2>3 DEF Init, TypeOK
  <1>4. Shape /\ SlotOwned /\ Apart
    BY <1>1, <1>2, <1>3 DEF Init, Shape, SlotOwned, Apart, NetworkOwns, TaskOwns, Owned, disposed
  <1>5. Accounted /\ Fresh /\ DisposedUnregistered
    BY <1>1, <1>2, NoneAssumption DEF Init, Accounted, Fresh, Held, DisposedUnregistered
  <1> QED
    BY <1>4, <1>5 DEF IInv

(* What giving back a set of messages that are all held does to the counts. *)
LEMMA ReleaseCounts ==
  ASSUME IInv, NEW S, Release(S), \A m \in S \cap Message : Held(m)
  PROVE  /\ releases' \in [Message -> 0..1]
         /\ \A m \in Message : releases'[m] = IF m \in S THEN 1 ELSE releases[m]
         /\ \A m \in Message \ came : releases'[m] = 0
  <1>1. \A m \in S \cap Message : releases[m] = 0 /\ m \in came
    BY DEF IInv, Accounted
  <1>2. releases \in [Message -> 0..1]
    BY DEF IInv, Shape, TypeOK
  <1>3. releases' = [m \in Message |-> IF m \in S THEN releases[m] + 1 ELSE releases[m]]
    BY DEF Release
  <1>4. \A m \in Message : releases'[m] = IF m \in S THEN 1 ELSE releases[m]
    BY <1>1, <1>2, <1>3
  <1>5. \A m \in Message : releases'[m] \in 0..1
    BY <1>2, <1>4
  <1>6. releases' \in [Message -> 0..1]
    BY <1>3, <1>5
  <1> QED
    BY <1>1, <1>4, <1>6 DEF IInv, Fresh

-----------------------------------------------------------------------------
LEMMA StatusKeeps ==
  ASSUME IInv, Status \/ Initialize
  PROVE  IInv'
  <1>1. /\ UNCHANGED <<receiving, active, pending, tasks, releases, came>>
        /\ network.at \in {"idle", "status"} /\ network.msg = None
        /\ network'.at \in {"idle", "status"} /\ network'.msg = None
        /\ network' \in [at : {"idle", "status"}, msg : {None}]
    BY DEF Status, Initialize, session, slot, Waiting, IInv, Shape, TypeOK
  <1>2. /\ initialized' \in BOOLEAN /\ registered' \in BOOLEAN
        /\ disposal' \in {"no", "marked", "removed", "done"}
        /\ disposal' # disposal => disposal = "no" /\ disposal' = "marked"
        /\ registered' # registered => disposal' = "no"
    BY DEF Status, Initialize, MayInitialize, session, IInv, Shape, TypeOK, disposed
  <1>3. Shape'
    BY <1>1, <1>2 DEF IInv, Shape, TypeOK
  <1>4. SlotOwned'
    BY <1>1, <1>2 DEF IInv, SlotOwned, Owned, NetworkOwns, TaskOwns, disposed
  <1>5. Apart' /\ Accounted' /\ Fresh' /\ DisposedUnregistered'
    BY <1>1, <1>2 DEF IInv, Apart, Accounted, Fresh, Held, DisposedUnregistered
  <1> QED
    BY <1>3, <1>4, <1>5 DEF IInv

LEMMA DecodeKeeps ==
  ASSUME IInv, NEW m \in Message, Decode(m)
  PROVE  IInv'
  <1>1. /\ UNCHANGED <<initialized, registered, receiving, active, pending, tasks, releases, disposal>>
        /\ network.at = "idle" /\ network.msg = None
        /\ network' = [at |-> "decoded", msg |-> m]
        /\ network'.at = "decoded" /\ network'.msg = m
        /\ m \notin came /\ came' = came \cup {m} /\ m # None
    BY NoneAssumption DEF Decode, session, slot, Waiting
  <1>2. Shape'
    BY <1>1 DEF IInv, Shape, TypeOK
  <1>3. SlotOwned'
    BY <1>1 DEF IInv, SlotOwned, Owned, NetworkOwns, TaskOwns, disposed
  <1>4. ~Held(m) /\ releases[m] = 0
    BY <1>1 DEF IInv, Accounted, Fresh
  <1>5. Apart'
    BY <1>1, <1>4 DEF IInv, Apart, Held
  <1>6. Accounted'
    <2> SUFFICES ASSUME NEW n \in Message
                 PROVE  Held(n)' <=> n \in came' /\ releases'[n] = 0
      BY DEF Accounted
    <2>1. Held(n) <=> n \in came /\ releases[n] = 0
      BY DEF IInv, Accounted
    <2>2. Held(n)' <=> Held(n) \/ n = m
      BY <1>1, NoneAssumption DEF Held
    <2> QED
      BY <1>1, <1>4, <2>1, <2>2
  <1>7. Fresh' /\ DisposedUnregistered'
    BY <1>1 DEF IInv, Fresh, DisposedUnregistered
  <1> QED
    BY <1>2, <1>3, <1>5, <1>6, <1>7 DEF IInv

(* What stays accounted for when a set of messages is given back and the rest
   change places at most. *)
LEMMA StillAccounted ==
  ASSUME IInv, NEW S, Release(S), came' = came,
         \A m \in S \cap Message : Held(m),
         \A m \in Message : Held(m)' <=> Held(m) /\ m \notin S
  PROVE  Accounted' /\ Fresh' /\ releases' \in [Message -> 0..1]
  <1>1. /\ releases' \in [Message -> 0..1]
        /\ \A m \in Message : releases'[m] = IF m \in S THEN 1 ELSE releases[m]
        /\ \A m \in Message \ came : releases'[m] = 0
    BY ReleaseCounts
  <1>2. Accounted'
    BY <1>1 DEF IInv, Accounted
  <1>3. Fresh'
    BY <1>1 DEF Fresh
  <1> QED
    BY <1>1, <1>2, <1>3

LEMMA StillAccountedUnchanged ==
  ASSUME IInv, releases' = releases, came' = came,
         \A m \in Message : Held(m)' <=> Held(m)
  PROVE  Accounted' /\ Fresh' /\ releases' \in [Message -> 0..1]
  BY DEF IInv, Accounted, Fresh, Shape, TypeOK

LEMMA EnqueueKeeps ==
  ASSUME IInv, Enqueue
  PROVE  IInv'
  <1> DEFINE m == network.msg
  <1>1. /\ UNCHANGED <<initialized, registered, tasks, disposal, came>>
        /\ network.at = "decoded" /\ m \in Message /\ m # None
        /\ m \notin {active, pending} /\ \A k \in Task : tasks[k].msg # m
        /\ pending # None => pending # active /\ \A k \in Task : tasks[k].msg # pending
        /\ ~NetworkOwns
    BY NoneAssumption DEF Enqueue, session, IInv, Shape, TypeOK, Apart, NetworkOwns
  <1>2. /\ Waiting.at = "idle" /\ Waiting.msg = None
        /\ Waiting \in [at : {"idle"}, msg : {None}]
        /\ [Waiting EXCEPT !.at = "scheduling"].at = "scheduling"
        /\ [Waiting EXCEPT !.at = "scheduling"].msg = None
        /\ [Waiting EXCEPT !.at = "scheduling"] \in [at : {"scheduling"}, msg : {None}]
    BY DEF Waiting
  <1>3. CASE /\ disposed
             /\ Release({m})
             /\ network' = Waiting
             /\ UNCHANGED slot
    <2>1. UNCHANGED <<receiving, active, pending>>
      BY <1>3 DEF slot
    <2>2. \A n \in Message : Held(n)' <=> Held(n) /\ n \notin {m}
      BY <1>1, <1>2, <1>3, <2>1, NoneAssumption DEF Held
    <2>3. Accounted' /\ Fresh' /\ releases' \in [Message -> 0..1]
      BY <1>1, <1>3, <2>2, StillAccounted DEF Held
    <2>4. Shape'
      BY <1>1, <1>2, <1>3, <2>1, <2>3 DEF IInv, Shape, TypeOK
    <2>5. SlotOwned'
      BY <1>1, <1>2, <1>3, <2>1 DEF IInv, SlotOwned, Owned, NetworkOwns, TaskOwns, disposed
    <2>6. Apart' /\ DisposedUnregistered'
      BY <1>1, <1>2, <1>3, <2>1 DEF IInv, Apart, DisposedUnregistered
    <2> QED
      BY <2>3, <2>4, <2>5, <2>6 DEF IInv
  <1>4. CASE /\ ~disposed /\ SlotTaken
             /\ pending' = m /\ Release({pending})
             /\ network' = Waiting
             /\ UNCHANGED <<receiving, active>>
    <2>1. \A n \in Message : Held(n)' <=> Held(n) /\ n \notin {pending}
      BY <1>1, <1>2, <1>4, NoneAssumption DEF Held
    <2>2. Accounted' /\ Fresh' /\ releases' \in [Message -> 0..1]
      BY <1>1, <1>4, <2>1, StillAccounted DEF Held
    <2>3. Shape'
      BY <1>1, <1>2, <1>4, <2>2 DEF IInv, Shape, TypeOK
    <2>4. Owned'
      BY <1>1, <1>4 DEF IInv, SlotOwned, SlotTaken, Owned, NetworkOwns, TaskOwns
    <2>5. SlotOwned'
      BY <1>1, <1>2, <1>4, <2>4 DEF IInv, SlotOwned, NetworkOwns, TaskOwns, disposed, Owned
    <2>6. Apart' /\ DisposedUnregistered'
      BY <1>1, <1>2, <1>4 DEF IInv, Apart, DisposedUnregistered
    <2> QED
      BY <2>2, <2>3, <2>5, <2>6 DEF IInv
  <1>5. CASE /\ ~disposed /\ ~SlotTaken
             /\ receiving' = TRUE /\ active' = m
             /\ network' = [Waiting EXCEPT !.at = "scheduling"]
             /\ UNCHANGED <<pending, releases>>
    <2>1. ~Owned /\ active = None
      BY <1>5 DEF IInv, SlotOwned, SlotTaken, Owned, TaskOwns
    <2>2. \A n \in Message : Held(n)' <=> Held(n)
      BY <1>1, <1>2, <1>5, <2>1, NoneAssumption DEF Held
    <2>3. Accounted' /\ Fresh' /\ releases' \in [Message -> 0..1]
      BY <1>1, <1>5, <2>2, StillAccountedUnchanged
    <2>4. Shape'
      BY <1>1, <1>2, <1>5, <2>3 DEF IInv, Shape, TypeOK
    <2>5. NetworkOwns' /\ \A k \in Task : tasks[k].at = "none"
      BY <1>2, <1>5, <2>1 DEF NetworkOwns, Owned, TaskOwns
    <2>6. disposal' # "done"
      BY <1>1, <1>5 DEF disposed
    <2>7. SlotOwned'
      BY <1>1, <1>5, <2>5, <2>6 DEF SlotOwned, TaskOwns, Owned
    <2>8. Apart' /\ DisposedUnregistered'
      BY <1>1, <1>2, <1>5 DEF IInv, Apart, DisposedUnregistered
    <2> QED
      BY <2>3, <2>4, <2>7, <2>8 DEF IInv
  <1> QED
    BY <1>3, <1>4, <1>5 DEF Enqueue

(* The slot is given back by its last owner, or by Dispose. *)
LEMMA ClearKeeps ==
  ASSUME IInv, ClearReceive,
         UNCHANGED <<initialized, registered, came>>,
         \/ /\ NetworkOwns /\ network' = Waiting /\ UNCHANGED <<tasks, disposal>>
         \/ /\ \E k \in Task : tasks[k].at = "clearing" /\ tasks' = [tasks EXCEPT ![k] = NoTask]
            /\ UNCHANGED <<network, disposal>>
         \/ disposal = "removed" /\ disposal' = "done" /\ UNCHANGED <<network, tasks>>
  PROVE  IInv'
  <1> USE NoneAssumption
  <1>1. /\ receiving' = FALSE /\ active' = None /\ pending' = None
        /\ Release({active, pending})
    BY DEF ClearReceive
  <1>2. /\ Waiting.at = "idle" /\ Waiting.msg = None
        /\ Waiting \in [at : {"idle"}, msg : {None}]
    BY DEF Waiting
  <1>3. /\ NoTask.at = "none" /\ NoTask.msg = None /\ NoTask.late = FALSE
        /\ NoTask \in [at : {"none"}, msg : {None}, late : {FALSE}]
    BY DEF NoTask
  <1>4. network'.msg = network.msg
    BY <1>2 DEF IInv, Shape, NetworkOwns
  <1>5. \A k \in Task : tasks'[k].msg = tasks[k].msg
    BY <1>3 DEF IInv, Shape, TypeOK
  <1>6. \A m \in Message : Held(m)' <=> Held(m) /\ m \notin {active, pending}
    BY <1>1, <1>4, <1>5 DEF Held, IInv, Apart
  <1>7. Accounted' /\ Fresh' /\ releases' \in [Message -> 0..1]
    BY <1>1, <1>6, StillAccounted DEF Held
  <1>8. Apart' /\ DisposedUnregistered'
    BY <1>1, <1>4, <1>5 DEF IInv, Apart, DisposedUnregistered
  <1>9. Shape' /\ SlotOwned'
    <2>1. CASE NetworkOwns /\ network' = Waiting /\ UNCHANGED <<tasks, disposal>>
      <3>1. Shape'
        BY <1>1, <1>2, <1>7, <2>1 DEF IInv, Shape, TypeOK
      <3>2. \A k \in Task : tasks[k].at = "none"
        BY <2>1 DEF IInv, SlotOwned, TaskOwns
      <3> QED
        BY <1>1, <1>2, <2>1, <3>1, <3>2 DEF SlotOwned, Owned, NetworkOwns, TaskOwns
    <2>2. ASSUME NEW k \in Task, tasks[k].at = "clearing", tasks' = [tasks EXCEPT ![k] = NoTask],
                 UNCHANGED <<network, disposal>>
          PROVE  Shape' /\ SlotOwned'
      <3>1. Shape'
        BY <1>1, <1>3, <1>7, <2>2 DEF IInv, Shape, TypeOK
      <3>2. \A j \in Task : tasks'[j].at = "none"
        BY <1>3, <2>2 DEF IInv, Shape, TypeOK, SlotOwned, TaskOwns
      <3>3. ~NetworkOwns
        BY <2>2 DEF IInv, SlotOwned, TaskOwns
      <3> QED
        BY <1>1, <2>2, <3>1, <3>2, <3>3 DEF SlotOwned, Owned, NetworkOwns, TaskOwns
    <2>3. CASE disposal = "removed" /\ disposal' = "done" /\ UNCHANGED <<network, tasks>>
      <3>1. Shape'
        BY <1>1, <1>7, <2>3 DEF IInv, Shape, TypeOK
      <3> QED
        BY <1>1, <2>3, <3>1 DEF IInv, SlotOwned, Owned, NetworkOwns, TaskOwns, disposed
    <2> QED
      BY <2>1, <2>2, <2>3
  <1> QED
    BY <1>7, <1>8, <1>9 DEF IInv

(* A step of the owning task within its call, which may give its message back. *)
LEMMA TaskMoves ==
  ASSUME IInv, NEW k \in Task, NEW r,
         r \in [at : {"accepting", "delaying", "finishing", "clearing"},
                msg : Message \cup {None}, late : BOOLEAN],
         tasks[k].at \in {"accepting", "delaying"},
         tasks' = [tasks EXCEPT ![k] = r],
         \/ r.at \in {"accepting", "delaying"} /\ r.msg = tasks[k].msg /\ releases' = releases
         \/ r.at \in {"finishing", "clearing"} /\ r.msg = None /\ ~r.late /\ Release({tasks[k].msg}),
         UNCHANGED <<session, slot, network, disposal, came>>
  PROVE  IInv'
  <1> USE NoneAssumption
  <1>1. UNCHANGED <<initialized, registered, receiving, active, pending, network, disposal, came>>
    BY DEF session, slot
  <1>2. /\ tasks'[k] = r /\ \A j \in Task : j # k => tasks'[j] = tasks[j]
        /\ tasks' \in [Task -> [at : {"none", "queued", "accepting", "delaying", "finishing",
                                      "scheduling", "clearing"},
                                msg : Message \cup {None}, late : BOOLEAN]]
        /\ tasks[k].msg \in Message /\ tasks[k].msg \notin {active, pending, network.msg}
        /\ r.at # "none" /\ r.at # "queued"
    BY DEF IInv, Shape, TypeOK, Apart
  <1>3. ~NetworkOwns /\ \A j \in Task : j # k => tasks[j].at = "none" /\ tasks[j].msg = None
    BY DEF IInv, Shape, TypeOK, SlotOwned, TaskOwns
  <1>4. Accounted' /\ Fresh' /\ releases' \in [Message -> 0..1]
    <2>1. CASE r.msg = tasks[k].msg /\ releases' = releases
      <3>1. \A m \in Message : Held(m)' <=> Held(m)
        BY <1>1, <1>2, <2>1 DEF Held
      <3> QED
        BY <1>1, <2>1, <3>1, StillAccountedUnchanged
    <2>2. CASE r.msg = None /\ Release({tasks[k].msg})
      <3>1. \A m \in Message : Held(m)' <=> Held(m) /\ m \notin {tasks[k].msg}
        BY <1>1, <1>2, <1>3, <2>2 DEF Held
      <3> QED
        BY <1>1, <2>2, <3>1, StillAccounted DEF Held
    <2> QED
      BY <2>1, <2>2
  <1>5. Shape'
    <2>1. TypeOK'
      BY <1>1, <1>2, <1>4 DEF IInv, Shape, TypeOK
    <2>2. \A j \in Task : /\ tasks'[j].msg # None <=> tasks'[j].at \in {"accepting", "delaying"}
                          /\ tasks'[j].at \notin {"accepting", "delaying"} => ~tasks'[j].late
      BY <1>2 DEF IInv, Shape
    <2> QED
      BY <1>1, <2>1, <2>2 DEF IInv, Shape
  <1>6. SlotOwned'
    BY <1>1, <1>2, <1>3 DEF IInv, SlotOwned, Owned, NetworkOwns, TaskOwns, disposed
  <1>7. Apart' /\ DisposedUnregistered'
    BY <1>1, <1>2, <1>3 DEF IInv, Apart, DisposedUnregistered
  <1> QED
    BY <1>4, <1>5, <1>6, <1>7 DEF IInv

LEMMA WorkingKeeps ==
  ASSUME IInv, NEW k \in Task,
         Busy(k) \/ Retry(k) \/ RetryEnds(k) \/ Accepted(k) \/ Fails(k)
  PROVE  IInv'
  <1>1. tasks[k] \in [at : {"none", "queued", "accepting", "delaying", "finishing",
                            "scheduling", "clearing"},
                      msg : Message \cup {None}, late : BOOLEAN]
    BY DEF IInv, Shape, TypeOK
  <1>2. ASSUME NEW a \in {"accepting", "delaying"}, tasks[k].at \in {"accepting", "delaying"},
               tasks' = [tasks EXCEPT ![k].at = a], releases' = releases,
               UNCHANGED <<session, slot, network, disposal, came>>
        PROVE  IInv'
    <2> DEFINE r == [tasks[k] EXCEPT !.at = a]
    <2>1. /\ r \in [at : {"accepting", "delaying", "finishing", "clearing"},
                    msg : Message \cup {None}, late : BOOLEAN]
          /\ r.at = a /\ r.msg = tasks[k].msg /\ tasks' = [tasks EXCEPT ![k] = r]
      BY <1>1, <1>2
    <2> HIDE DEF r
    <2> QED
      BY <1>2, <2>1, TaskMoves
  <1>3. ASSUME NEW a \in {"finishing", "clearing"}, tasks[k].at \in {"accepting", "delaying"},
               Leaves(k, a), UNCHANGED <<session, slot, network, disposal, came>>
        PROVE  IInv'
    <2> DEFINE r == [NoTask EXCEPT !.at = a]
    <2>1. /\ r \in [at : {"accepting", "delaying", "finishing", "clearing"},
                    msg : Message \cup {None}, late : BOOLEAN]
          /\ r.at = a /\ r.msg = None /\ ~r.late /\ tasks' = [tasks EXCEPT ![k] = r]
      BY <1>3 DEF NoTask, Leaves
    <2>2. Release({tasks[k].msg})
      BY <1>3 DEF Leaves
    <2> HIDE DEF r
    <2> QED
      BY <1>3, <2>1, <2>2, TaskMoves
  <1>4. ASSUME RetryEnds(k)
        PROVE  IInv'
    <2> DEFINE r == [tasks[k] EXCEPT !.late = TRUE]
    <2>1. /\ r \in [at : {"accepting", "delaying", "finishing", "clearing"},
                    msg : Message \cup {None}, late : BOOLEAN]
          /\ r.at = tasks[k].at /\ r.msg = tasks[k].msg /\ tasks' = [tasks EXCEPT ![k] = r]
      BY <1>1, <1>4 DEF RetryEnds
    <2>2. tasks[k].at \in {"accepting", "delaying"} /\ releases' = releases
      BY <1>4 DEF RetryEnds
    <2> HIDE DEF r
    <2> QED
      BY <1>4, <2>1, <2>2, TaskMoves DEF RetryEnds
  <1>5. CASE Busy(k)
    BY <1>2, <1>3, <1>5 DEF Busy
  <1>6. CASE Retry(k)
    BY <1>2, <1>6 DEF Retry
  <1>7. CASE Accepted(k) \/ Fails(k)
    BY <1>3, <1>7 DEF Accepted, Fails
  <1> QED
    BY <1>4, <1>5, <1>6, <1>7

TaskShape == [at : {"none", "queued", "accepting", "delaying", "finishing", "scheduling",
                    "clearing"},
              msg : Message \cup {None}, late : BOOLEAN]

LEMMA NetworkSchedulesKeeps ==
  ASSUME IInv, NetworkSchedules
  PROVE  IInv'
  <1> USE NoneAssumption
  <1>1. /\ UNCHANGED <<initialized, registered, receiving, active, pending, releases, disposal, came>>
        /\ network.at = "scheduling" /\ network.msg = None
        /\ \A k \in Task : tasks[k].at = "none" /\ tasks[k].msg = None
    BY DEF NetworkSchedules, session, slot, IInv, Shape, SlotOwned, NetworkOwns, TaskOwns
  <1>2. CASE network' = Refused /\ UNCHANGED tasks
    <2>1. network'.at = "refused" /\ network'.msg = None
          /\ network' \in [at : {"refused"}, msg : {None}]
      BY <1>2 DEF Refused, Waiting
    <2>2. Shape' /\ SlotOwned'
      BY <1>1, <1>2, <2>1 DEF IInv, Shape, TypeOK, SlotOwned, Owned, NetworkOwns, TaskOwns, disposed
    <2>3. Apart' /\ Accounted' /\ Fresh' /\ DisposedUnregistered'
      BY <1>1, <1>2, <2>1 DEF IInv, Apart, Accounted, Fresh, Held, DisposedUnregistered
    <2> QED
      BY <2>2, <2>3 DEF IInv
  <1>3. ASSUME network' = Waiting, NEW k \in Task, Queued(k, tasks)
        PROVE  IInv'
    <2>1. network'.at = "idle" /\ network'.msg = None
          /\ network' \in [at : {"idle"}, msg : {None}]
      BY <1>3 DEF Waiting
    <2>2. /\ tasks' \in [Task -> TaskShape]
          /\ tasks'[k].at = "queued" /\ tasks'[k].msg = None /\ ~tasks'[k].late
          /\ \A j \in Task : j # k => tasks'[j] = tasks[j]
      BY <1>1, <1>3 DEF Queued, IInv, Shape, TypeOK, NoTask, TaskShape
    <2>3. Shape'
      BY <1>1, <2>1, <2>2 DEF IInv, Shape, TypeOK, TaskShape
    <2>4. active # None \/ disposed
      BY <1>1 DEF IInv, SlotOwned, Owned, NetworkOwns, NetworkSchedules
    <2>5. SlotOwned'
      BY <1>1, <2>1, <2>2, <2>4 DEF IInv, SlotOwned, Owned, NetworkOwns, TaskOwns, disposed
    <2>6. Apart' /\ Accounted' /\ Fresh' /\ DisposedUnregistered'
      BY <1>1, <2>1, <2>2 DEF IInv, Apart, Accounted, Fresh, Held, DisposedUnregistered
    <2> QED
      BY <2>3, <2>5, <2>6 DEF IInv
  <1> QED
    BY <1>2, <1>3 DEF NetworkSchedules

LEMMA ReceiveKeeps ==
  ASSUME IInv, NEW k \in Task, Receive(k)
  PROVE  IInv'
  <1> USE NoneAssumption
  <1>1. /\ UNCHANGED <<initialized, registered, pending, network, disposal, came>>
        /\ active' = None
        /\ tasks[k].at = "queued" /\ tasks[k].msg = None
        /\ ~NetworkOwns
        /\ \A j \in Task : j # k => tasks[j].at = "none" /\ tasks[j].msg = None
    BY DEF Receive, session, IInv, Shape, SlotOwned, TaskOwns
  <1>2. CASE /\ active = None \/ disposed
             /\ Release({active})
             /\ receiving' = FALSE
             /\ tasks' = [tasks EXCEPT ![k] = NoTask]
    <2>1. /\ tasks' \in [Task -> TaskShape]
          /\ tasks'[k].at = "none" /\ tasks'[k].msg = None /\ ~tasks'[k].late
          /\ \A j \in Task : j # k => tasks'[j] = tasks[j]
      BY <1>2 DEF IInv, Shape, TypeOK, NoTask, TaskShape
    <2>2. \A m \in Message : Held(m)' <=> Held(m) /\ m \notin {active}
      BY <1>1, <2>1 DEF Held, IInv, Apart
    <2>3. Accounted' /\ Fresh' /\ releases' \in [Message -> 0..1]
      BY <1>1, <1>2, <2>2, StillAccounted DEF Held
    <2>4. Shape'
      BY <1>1, <1>2, <2>1, <2>3 DEF IInv, Shape, TypeOK, TaskShape
    <2>5. disposed
      BY <1>1, <1>2 DEF IInv, SlotOwned
    <2>6. SlotOwned'
      BY <1>1, <1>2, <2>1, <2>5 DEF IInv, SlotOwned, Owned, NetworkOwns, TaskOwns, disposed
    <2>7. Apart' /\ DisposedUnregistered'
      BY <1>1, <1>2, <2>1 DEF IInv, Apart, DisposedUnregistered
    <2> QED
      BY <2>3, <2>4, <2>6, <2>7 DEF IInv
  <1>3. CASE /\ active # None /\ ~disposed
             /\ tasks' = [tasks EXCEPT ![k] = [at |-> "accepting", msg |-> active, late |-> FALSE]]
             /\ UNCHANGED <<receiving, releases>>
    <2>1. /\ active \in Message /\ active \notin {pending, network.msg}
          /\ tasks' \in [Task -> TaskShape]
          /\ tasks'[k].at = "accepting" /\ tasks'[k].msg = active /\ ~tasks'[k].late
          /\ \A j \in Task : j # k => tasks'[j] = tasks[j]
      BY <1>3 DEF IInv, Shape, TypeOK, TaskShape, Apart
    <2>2. \A m \in Message : Held(m)' <=> Held(m)
      BY <1>1, <2>1 DEF Held
    <2>3. Accounted' /\ Fresh' /\ releases' \in [Message -> 0..1]
      BY <1>1, <1>3, <2>2, StillAccountedUnchanged
    <2>4. Shape'
      BY <1>1, <1>3, <2>1, <2>3 DEF IInv, Shape, TypeOK, TaskShape
    <2>5. SlotOwned'
      BY <1>1, <1>3, <2>1 DEF IInv, SlotOwned, Owned, NetworkOwns, TaskOwns, disposed
    <2>6. Apart' /\ DisposedUnregistered'
      BY <1>1, <1>3, <2>1 DEF IInv, Apart, DisposedUnregistered
    <2> QED
      BY <2>3, <2>4, <2>5, <2>6 DEF IInv
  <1> QED
    BY <1>2, <1>3 DEF Receive

LEMMA FinishKeeps ==
  ASSUME IInv, NEW k \in Task, Finish(k)
  PROVE  IInv'
  <1> USE NoneAssumption
  <1>1. /\ UNCHANGED <<initialized, registered, network, disposal, came>>
        /\ pending' = None /\ active = None
        /\ tasks[k].at = "finishing" /\ tasks[k].msg = None /\ ~tasks[k].late
        /\ ~NetworkOwns
        /\ \A j \in Task : j # k => tasks[j].at = "none" /\ tasks[j].msg = None
    BY DEF Finish, session, IInv, Shape, SlotOwned, TaskOwns
  <1>2. CASE /\ pending # None /\ ~disposed
             /\ receiving' = TRUE /\ active' = pending
             /\ tasks' = [tasks EXCEPT ![k].at = "scheduling"]
             /\ UNCHANGED releases
    <2>1. /\ pending \in Message /\ pending # network.msg
          /\ tasks' \in [Task -> TaskShape]
          /\ tasks'[k].at = "scheduling" /\ tasks'[k].msg = None /\ ~tasks'[k].late
          /\ \A j \in Task : j # k => tasks'[j] = tasks[j]
      BY <1>1, <1>2 DEF IInv, Shape, TypeOK, TaskShape, Apart
    <2>2. \A m \in Message : Held(m)' <=> Held(m)
      BY <1>1, <1>2, <2>1 DEF Held
    <2>3. Accounted' /\ Fresh' /\ releases' \in [Message -> 0..1]
      BY <1>1, <1>2, <2>2, StillAccountedUnchanged
    <2>4. Shape'
      BY <1>1, <1>2, <2>1, <2>3 DEF IInv, Shape, TypeOK, TaskShape
    <2>5. disposal' # "done"
      BY <1>1, <1>2 DEF disposed
    <2>6. SlotOwned'
      BY <1>1, <1>2, <2>1, <2>5 DEF SlotOwned, Owned, NetworkOwns, TaskOwns
    <2>7. Apart' /\ DisposedUnregistered'
      BY <1>1, <1>2, <2>1 DEF IInv, Apart, DisposedUnregistered
    <2> QED
      BY <2>3, <2>4, <2>6, <2>7 DEF IInv
  <1>3. CASE /\ pending = None \/ disposed
             /\ receiving' = FALSE /\ active' = None
             /\ Release({pending})
             /\ tasks' = [tasks EXCEPT ![k] = NoTask]
    <2>1. /\ tasks' \in [Task -> TaskShape]
          /\ tasks'[k].at = "none" /\ tasks'[k].msg = None /\ ~tasks'[k].late
          /\ \A j \in Task : j # k => tasks'[j] = tasks[j]
      BY <1>3 DEF IInv, Shape, TypeOK, NoTask, TaskShape
    <2>2. \A m \in Message : Held(m)' <=> Held(m) /\ m \notin {pending}
      BY <1>1, <1>3, <2>1 DEF Held, IInv, Apart
    <2>3. Accounted' /\ Fresh' /\ releases' \in [Message -> 0..1]
      BY <1>1, <1>3, <2>2, StillAccounted DEF Held
    <2>4. Shape'
      BY <1>1, <1>3, <2>1, <2>3 DEF IInv, Shape, TypeOK, TaskShape
    <2>5. SlotOwned'
      BY <1>1, <1>3, <2>1 DEF SlotOwned, Owned, NetworkOwns, TaskOwns
    <2>6. Apart' /\ DisposedUnregistered'
      BY <1>1, <1>3, <2>1 DEF IInv, Apart, DisposedUnregistered
    <2> QED
      BY <2>3, <2>4, <2>5, <2>6 DEF IInv
  <1> QED
    BY <1>2, <1>3 DEF Finish

LEMMA TaskSchedulesKeeps ==
  ASSUME IInv, NEW k \in Task, TaskSchedules(k)
  PROVE  IInv'
  <1> USE NoneAssumption
  <1>1. /\ UNCHANGED <<initialized, registered, receiving, active, pending, network, releases,
                       disposal, came>>
        /\ tasks[k].at = "scheduling" /\ tasks[k].msg = None /\ ~tasks[k].late
        /\ ~NetworkOwns
        /\ \A j \in Task : j # k => tasks[j].at = "none" /\ tasks[j].msg = None
    BY DEF TaskSchedules, session, slot, IInv, Shape, SlotOwned, TaskOwns
  <1>2. ASSUME NEW j \in Task, j # k, Queued(j, [tasks EXCEPT ![k] = NoTask])
        PROVE  IInv'
    <2>1. /\ tasks' \in [Task -> TaskShape]
          /\ tasks'[j].at = "queued" /\ tasks'[j].msg = None /\ ~tasks'[j].late
          /\ \A i \in Task : i # j => tasks'[i].at = "none" /\ tasks'[i].msg = None /\ ~tasks'[i].late
      BY <1>1, <1>2 DEF Queued, IInv, Shape, TypeOK, NoTask, TaskShape
    <2>2. active # None \/ disposed
      BY <1>1 DEF IInv, SlotOwned, Owned, NetworkOwns, TaskOwns
    <2>3. Shape'
      BY <1>1, <2>1 DEF IInv, Shape, TypeOK, TaskShape
    <2>4. SlotOwned'
      BY <1>1, <2>1, <2>2 DEF IInv, SlotOwned, Owned, NetworkOwns, TaskOwns, disposed
    <2>5. Apart' /\ Accounted' /\ Fresh' /\ DisposedUnregistered'
      BY <1>1, <2>1 DEF IInv, Apart, Accounted, Fresh, Held, DisposedUnregistered
    <2> QED
      BY <2>3, <2>4, <2>5 DEF IInv
  <1>3. CASE tasks' = [tasks EXCEPT ![k].at = "clearing"]
    <2>1. /\ tasks' \in [Task -> TaskShape]
          /\ tasks'[k].at = "clearing" /\ tasks'[k].msg = None /\ ~tasks'[k].late
          /\ \A j \in Task : j # k => tasks'[j] = tasks[j]
      BY <1>1, <1>3 DEF IInv, Shape, TypeOK, TaskShape
    <2>2. Shape'
      BY <1>1, <2>1 DEF IInv, Shape, TypeOK, TaskShape
    <2>3. SlotOwned'
      BY <1>1, <2>1 DEF IInv, SlotOwned, Owned, NetworkOwns, TaskOwns, disposed
    <2>4. Apart' /\ Accounted' /\ Fresh' /\ DisposedUnregistered'
      BY <1>1, <2>1 DEF IInv, Apart, Accounted, Fresh, Held, DisposedUnregistered
    <2> QED
      BY <2>2, <2>3, <2>4 DEF IInv
  <1> QED
    BY <1>2, <1>3 DEF TaskSchedules

LEMMA DisposeKeeps ==
  ASSUME IInv, Dispose \/ RemovePeer
  PROVE  IInv'
  <1>1. /\ UNCHANGED <<initialized, receiving, active, pending, network, tasks, releases, came>>
        /\ registered' \in BOOLEAN
        /\ \/ disposal = "no" /\ disposal' = "marked"
           \/ disposal = "marked" /\ disposal' = "removed" /\ registered' = FALSE
    BY DEF Dispose, RemovePeer, session, slot, disposed, IInv, Shape, TypeOK
  <1>2. Shape' /\ SlotOwned'
    BY <1>1 DEF IInv, Shape, TypeOK, SlotOwned, Owned, NetworkOwns, TaskOwns, disposed
  <1>3. Apart' /\ Accounted' /\ Fresh' /\ DisposedUnregistered'
    BY <1>1 DEF IInv, Apart, Accounted, Fresh, Held, DisposedUnregistered
  <1> QED
    BY <1>2, <1>3 DEF IInv

LEMMA NextKeeps ==
  ASSUME IInv, [Next]_vars
  PROVE  IInv'
  <1>1. CASE Status \/ Network
    <2>1. ASSUME NetworkClears PROVE IInv'
      BY <2>1, ClearKeeps DEF NetworkClears, NetworkOwns, session
    <2> QED
      BY <1>1, <2>1, StatusKeeps, EnqueueKeeps, NetworkSchedulesKeeps DEF Network
  <1>2. ASSUME NEW m \in Message, Decode(m) PROVE IInv'
    BY <1>2, DecodeKeeps
  <1>3. ASSUME NEW k \in Task, Work(k) \/ RetryEnds(k) PROVE IInv'
    <2>1. ASSUME TaskClears(k) PROVE IInv'
      BY <2>1, ClearKeeps DEF TaskClears, session
    <2> QED
      BY <1>3, <2>1, ReceiveKeeps, WorkingKeeps, FinishKeeps, TaskSchedulesKeeps DEF Work
  <1>4. CASE Dispose \/ RemovePeer
    BY <1>4, DisposeKeeps
  <1>5. CASE DisposeClears
    BY <1>5, ClearKeeps DEF DisposeClears, session
  <1>6. CASE UNCHANGED vars
    BY <1>6 DEF vars, session, slot, IInv, Shape, TypeOK, SlotOwned, Owned, NetworkOwns, TaskOwns,
                disposed, Apart, Accounted, Fresh, Held, DisposedUnregistered
  <1> QED
    BY <1>1, <1>2, <1>3, <1>4, <1>5, <1>6 DEF Next

-----------------------------------------------------------------------------
(* The network thread, the background tasks and Dispose share one slot: every
   message is in one place until it is disposed, once; one Receive runs at a
   time; the slot does not stay taken; and a disposed handler is not registered
   again (LeanProtocolHandler.cs). *)
THEOREM HandlerIsSound == Spec => []HandlerSound
  <1>1. IInv /\ [Next]_vars => IInv'
    BY NextKeeps
  <1>2. IInv => HandlerSound
    BY IInvSuffices
  <1> QED
    BY InitHolds, <1>1, <1>2, PTL DEF Spec
=============================================================================
