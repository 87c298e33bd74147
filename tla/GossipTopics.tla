---------------------------- MODULE GossipTopics ----------------------------
(***************************************************************************)
(* The gossip topics a consensus node subscribes to from fork to fork, and *)
(* how it reads what its peers publish on them (topics.rs, pubsub.rs).     *)
(*                                                                         *)
(* A topic is written into a name and read from it again; the name is a    *)
(* sequence of words, of which the last may be a subnet's number.  What a  *)
(* message is read as depends on the digest in the topic, not on the       *)
(* node's own fork.  When to subscribe and when to leave is decided by the *)
(* network service, which is external, as are the peers.                   *)
(***************************************************************************)
EXTENDS Forks

CONSTANTS
  Schedules,          \* configurations of the network
  LastEpoch,          \* a bound: the clock stops here
  AttestationSubnets, SyncSubnets, ColumnSubnets,
  MaxUncompressed     \* the longest message

VARIABLES
  config, clock,      \* the schedule, and the epoch of everybody's clock
  opts,               \* TopicConfig of the node
  topics,             \* the topics it is subscribed to
  flying,             \* a message on its way, if any
  heard               \* what became of the last one

topicVars == <<config, clock, opts, topics, flying, heard>>

\* The names of the topics without a subnet, and the prefixes of the others.
Names ==
  [BeaconBlock                 |-> <<"beacon", "block">>,
   BeaconAggregateAndProof     |-> <<"beacon", "aggregate", "and", "proof">>,
   VoluntaryExit               |-> <<"voluntary", "exit">>,
   ProposerSlashing            |-> <<"proposer", "slashing">>,
   AttesterSlashing            |-> <<"attester", "slashing">>,
   SignedContributionAndProof  |-> <<"sync", "committee", "contribution", "and", "proof">>,
   BlsToExecutionChange        |-> <<"bls", "to", "execution", "change">>,
   ExecutionPayload            |-> <<"execution", "payload">>,
   ExecutionPayloadBid         |-> <<"execution", "payload", "bid">>,
   PayloadAttestation          |-> <<"payload", "attestation", "message">>,
   ProposerPreferences         |-> <<"proposer", "preferences">>,
   LightClientFinalityUpdate   |-> <<"light", "client", "finality", "update">>,
   LightClientOptimisticUpdate |-> <<"light", "client", "optimistic", "update">>]

SubnetPrefix ==
  [Attestation          |-> <<"beacon", "attestation">>,
   SyncCommitteeMessage |-> <<"sync", "committee">>,
   DataColumnSidecar    |-> <<"data", "column", "sidecar">>]

Subnets(name) ==
  CASE name = "Attestation"          -> AttestationSubnets
    [] name = "SyncCommitteeMessage" -> SyncSubnets
    [] name = "DataColumnSidecar"    -> ColumnSubnets

Numbers == AttestationSubnets \cup SyncSubnets \cup ColumnSubnets

Plain(name) == [name |-> name, subnet |-> {}]

On(name, n) == [name |-> name, subnet |-> {n}]

-----------------------------------------------------------------------------
(* The name of a topic, and back.                                          *)
Display(kind) ==
  IF kind.name \in DOMAIN Names THEN Names[kind.name]
  ELSE Append(SubnetPrefix[kind.name], ToString(CHOOSE n \in kind.subnet : TRUE))

\* The kinds with a prefix before a number.
SubnetTopicIndex(words) ==
  {k \in {On(p, n) : p \in DOMAIN SubnetPrefix, n \in Numbers} : Display(k) = words}

KindOf(words) ==
  LET exact == {Plain(n) : n \in {m \in DOMAIN Names : Names[m] = words}}
  IN IF exact # {} THEN exact ELSE SubnetTopicIndex(words)

Written(topic) == [digest |-> topic.digest, words |-> Display(topic.kind)]

Read(name) == {[kind |-> k, digest |-> name.digest] : k \in KindOf(name.words)}

-----------------------------------------------------------------------------
CoreTopics(f, o) ==
  {Plain(n) : n \in {"BeaconBlock", "BeaconAggregateAndProof", "VoluntaryExit",
                     "ProposerSlashing", "AttesterSlashing"}}
  \cup (IF o.allSubnets THEN {On("Attestation", n) : n \in AttestationSubnets} ELSE {})
  \cup (IF ~Enabled(f, "altair") THEN {}
        ELSE {Plain("SignedContributionAndProof")}
             \cup (IF o.allSubnets THEN {On("SyncCommitteeMessage", n) : n \in SyncSubnets} ELSE {})
             \cup {Plain(n) : n \in IF o.lightClient THEN {"LightClientFinalityUpdate",
                                                           "LightClientOptimisticUpdate"} ELSE {}})
  \cup (IF Enabled(f, "capella") THEN {Plain("BlsToExecutionChange")} ELSE {})
  \cup (IF Enabled(f, "fulu") THEN {On("DataColumnSidecar", n) : n \in o.sampling} ELSE {})
  \cup (IF Enabled(f, "gloas")
        THEN {Plain(n) : n \in {"ExecutionPayload", "ExecutionPayloadBid",
                                "PayloadAttestation", "ProposerPreferences"}} ELSE {})

NonCore(kind) == kind.name \in {"Attestation", "SyncCommitteeMessage"}

AllTopicsAtFork(f) ==
  CoreTopics(f, [lightClient |-> TRUE, allSubnets |-> TRUE, sampling |-> ColumnSubnets])

\* The container a message has in a fork, "same" if it is that of every fork.
Container(name, f) ==
  CASE name = "BeaconBlock" -> IF f = "fulu" THEN "electra" ELSE f
    [] name \in {"BeaconAggregateAndProof", "AttesterSlashing"} ->
         IF Enabled(f, "electra") THEN "electra" ELSE "base"
    [] name = "DataColumnSidecar" -> f
    [] name \in {"LightClientFinalityUpdate", "LightClientOptimisticUpdate"} ->
         CASE f = "bellatrix" -> "altair" [] f = "fulu" -> "electra" [] OTHER -> f
    [] OTHER -> "same"

\* get_fork_from_context_bytes (external) knows the digests of the schedule.
ForksOf(c, digest) == {NameAt(c, e) : e \in {d \in DigestEpochs(c) : Digest(c, d) = digest}}

Versioned == {"BeaconBlock", "BeaconAggregateAndProof", "AttesterSlashing", "DataColumnSidecar",
              "LightClientFinalityUpdate", "LightClientOptimisticUpdate"}

(* Mutant of ReadableAs: by the fork of the node. *)
ReadableAsCurrent(c, topic) ==
  IF topic.kind.name \notin Versioned THEN {"same"}
  ELSE {Container(topic.kind.name, NameAt(c, clock))}

ReadableAs(c, topic) ==
  LET readable == {f \in ForksOf(c, topic.digest) :
                     topic.kind.name = "DataColumnSidecar" => Enabled(f, "fulu")}
  IN IF topic.kind.name \notin Versioned THEN {"same"}
     ELSE {Container(topic.kind.name, f) : f \in readable}

\* PubsubMessage::decode, after the transform: the message, or nothing.
Decode(c, m) ==
  {[kind |-> t.kind, container |-> m.container] :
     t \in {u \in Read(m.topic) : m.size <= MaxUncompressed /\ m.container \in ReadableAs(c, u)}}

-----------------------------------------------------------------------------
Topics(kinds, e) == {[kind |-> k, digest |-> Digest(config, e)] : k \in kinds}

TopicInit ==
  /\ config \in {c \in Schedules : Accepted(c)}
  /\ clock = 0
  /\ opts \in [lightClient : BOOLEAN, allSubnets : BOOLEAN, sampling : {{}, ColumnSubnets}]
  /\ topics = Topics(CoreTopics(NameAt(config, clock), opts), clock)
  /\ flying = {} /\ heard = [of |-> {}, got |-> {}]

\* A validator joins a subnet (external): only topics that are not core.
Join == \E n \in {"Attestation", "SyncCommitteeMessage"} : \E s \in Subnets(n) :
  LET now == Topics({On(n, s)}, clock)
  IN /\ NonCore(On(n, s)) /\ topics' = topics \cup now /\ topics' # topics
     /\ n = "SyncCommitteeMessage" => Enabled(NameAt(config, clock), "altair")
     /\ UNCHANGED <<config, clock, opts, flying, heard>>

Due == clock + 1 \in DigestEpochs(config)

Next1 == Topics(CoreTopics(NameAt(config, clock + 1), opts)
                  \cup {t.kind : t \in {u \in topics : NonCore(u.kind)}}, clock + 1)

\* Shortly before a boundary the node subscribes to the topics after it.
SubscribeNext ==
  /\ Due /\ ~(Next1 \subseteq topics) /\ topics' = topics \cup Next1
  /\ UNCHANGED <<config, clock, opts, flying, heard>>

\* Topics of a digest that ended more than an epoch ago are left.
Live(e) == {Digest(config, e)} \cup {Digest(config, IF e = 0 THEN 0 ELSE e - 1)}

Tick ==
  /\ clock < LastEpoch /\ (Due => Next1 \subseteq topics)
  /\ clock' = clock + 1
  /\ topics' = {t \in topics : t.digest \in Live(clock + 1)}
  /\ flying' = {m \in flying : m.at = clock}
  /\ UNCHANGED <<config, opts, heard>>

\* A peer that may be subscribed to everything publishes under its digest.
Publish == \E kind \in AllTopicsAtFork(NameAt(config, clock)), size \in 1..(MaxUncompressed + 1) :
  LET f == NameAt(config, clock)
  IN /\ flying = {}
     /\ kind.name \in {"LightClientFinalityUpdate", "LightClientOptimisticUpdate"} => f # "gloas"
     /\ size <= MaxUncompressed
     /\ flying' = {[topic |-> Written([kind |-> kind, digest |-> Digest(config, clock)]),
                    kind |-> kind, container |-> Container(kind.name, f), size |-> size, at |-> clock]}
     /\ heard' = [of |-> {}, got |-> {}]
     /\ UNCHANGED <<config, clock, opts, topics>>

Receive == \E m \in flying :
  /\ Read(m.topic) \cap topics # {}
  /\ flying' = {}
  /\ heard' = [of |-> {[kind |-> m.kind, container |-> m.container]}, got |-> Decode(config, m)]
  /\ UNCHANGED <<config, clock, opts, topics>>

TopicNext == Join \/ SubscribeNext \/ Tick \/ Publish \/ Receive

TopicSpec == TopicInit /\ [][TopicNext]_topicVars

-----------------------------------------------------------------------------
(* A message of a peer that runs the same schedule is read as what it was  *)
(* published as: on its own topic and in the container of its fork, on     *)
(* both sides of a boundary and also when it arrives after it.             *)
MessagesRead == heard.got = heard.of

(* What a node's peers publish under the present digest it hears: every    *)
(* kind its options ask for is among its topics at every epoch, no earlier *)
(* than its fork and no later, and a subnet it joined is carried over.     *)
TopicsFollow ==
  LET f == NameAt(config, clock)
      present == {t.kind : t \in {u \in topics : u.digest = Digest(config, clock)}}
  IN /\ {k \in present : ~NonCore(k)} \subseteq AllTopicsAtFork(f)
     /\ opts.allSubnets /\ opts.lightClient /\ opts.sampling = ColumnSubnets
          => AllTopicsAtFork(f) \subseteq present
     /\ CoreTopics(f, opts) \subseteq present
     /\ \A t \in topics : NonCore(t.kind) /\ Enabled(f, "altair") => t.kind \in present

(* A topic is read back from its name, no two share one, and what a node   *)
(* is subscribed to it can decode.                                         *)
NamesReturn ==
  \A t \in topics : Read(Written(t)) = {t} /\ ReadableAs(config, t) # {}
=============================================================================
