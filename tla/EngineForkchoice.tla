--------------------------- MODULE EngineForkchoice ---------------------------
(***************************************************************************)
(* What the execution engine is told of the head and of the next proposal, *)
(* from beacon_chain.rs (prepare_beacon_proposer,                          *)
(* update_execution_engine_forkchoice, overridden_forkchoice_update_params *)
(* and process_invalid_execution_payload) and from the caches of proposers *)
(* in execution_layer/src/lib.rs.                                          *)
(*                                                                         *)
(* A task reads the head, perhaps replaces it by its parent when the node  *)
(* means to re-org it, perhaps prepares the proposal of the next slot, and *)
(* only then waits for the lock under which the engine is called.  An      *)
(* epoch is a slot long, as it only decides when the caches are cleaned.   *)
(***************************************************************************)
EXTENDS Integers, Sequences

CONSTANTS
  Task,        \* calls that may run at the same time
  Idle,        \* no task
  Validator,   \* validators of the node and of others
  Proposer,    \* Proposer[s]: who proposes in slot s
  BadPayload,  \* places of heads whose payload the engine finds invalid
  Retain,      \* epochs the caches are kept for
  MaxSlot,     \* bound on the clock
  MaxHeads     \* bound on the heads there ever are

VARIABLES
  slot,        \* the slot clock
  lookahead,   \* the slot is in its tail, where proposals are prepared
  heads,       \* heads of the chain, the canonical one last: [slot, parent, late]
  preparation, \* preparation[v]: the epoch v last asked for its fee recipient, -1 if none
  proposers,   \* the cache of proposers: [slot, head, read], read being the slot in
               \* which the recipient was read
  task,        \* task[t]: [stage, kind, slot, head, seen], seen being the canonical head
  engineLock,  \* execution_engine_forkchoice_lock
  told,        \* the call the engine is at: [kind, slot, head, seen, attributes]
  newest,      \* the latest head that was canonical for a call the engine got before
  verdict      \* verdict[i]: what fork choice holds of heads[i]

fcuVars == <<slot, lookahead, heads, preparation, proposers, task, engineLock, told, newest, verdict>>

NoTask == [stage |-> "idle", kind |-> "head", slot |-> 0, head |-> 1, seen |-> 1]
NoAttributes == [slot |-> 0, head |-> 1, read |-> 0]
NoCall == [kind |-> "none", slot |-> 0, head |-> 1, seen |-> MaxHeads, attributes |-> NoAttributes]
Canonical == Len(heads)

FcuInit ==
  /\ slot = 1 /\ lookahead = FALSE
  /\ heads = <<[slot |-> 0, parent |-> 1, late |-> FALSE]>>
  /\ preparation = [v \in Validator |-> -1]
  /\ proposers = {}
  /\ task = [t \in Task |-> NoTask]
  /\ engineLock = Idle
  /\ told = NoCall
  /\ newest = 1
  /\ verdict = <<"valid">>
-----------------------------------------------------------------------------
Pass ==
  /\ IF lookahead THEN slot < MaxSlot /\ slot' = slot + 1 /\ lookahead' = FALSE
                  ELSE lookahead' = TRUE /\ UNCHANGED slot
  /\ UNCHANGED <<heads, preparation, proposers, task, engineLock, told, newest, verdict>>

(* A block becomes the head, on the head or, after a re-org, beside it. *)
ImportHead ==
  /\ Canonical < MaxHeads /\ heads[Canonical].slot < slot
  /\ \E parent \in {Canonical, heads[Canonical].parent}, late \in BOOLEAN :
       heads' = Append(heads, [slot |-> slot, parent |-> parent, late |-> late])
  /\ verdict' = Append(verdict, "optimistic")
  /\ UNCHANGED <<slot, lookahead, preparation, proposers, task, engineLock, told, newest>>

(* update_proposer_preparation. *)
UpdatePreparation(v) ==
  /\ preparation' = [preparation EXCEPT ![v] = slot]
  /\ UNCHANGED <<slot, lookahead, heads, proposers, task, engineLock, told, newest, verdict>>

(* clean_proposer_caches. *)
CleanProposerCaches ==
  /\ preparation' = [v \in Validator |-> IF preparation[v] >= slot - Retain THEN preparation[v] ELSE -1]
  /\ proposers' = {p \in proposers : p.slot >= slot - Retain}
  /\ UNCHANGED <<slot, lookahead, heads, task, engineLock, told, newest, verdict>>
-----------------------------------------------------------------------------
Registered(v) == preparation[v] >= 0

(* overridden_forkchoice_update_params: the heads the engine may be told instead
   of h.  The head must be late, the node must propose next, and no slot may have
   been missed; once that slot has begun the weights decide, and only before the
   cutoff, which a slot in its tail has passed. *)
Overridden(h) ==
  LET block == heads[h] IN
  IF block.late /\ block.slot + 1 <= MaxSlot /\ Registered(Proposer[block.slot + 1]) /\ h # 1
  THEN IF block.slot = slot THEN {block.parent}
       ELSE IF block.slot + 1 = slot /\ ~lookahead THEN {block.parent, h}
       ELSE {h}
  ELSE {h}

Goto(t, stage) == task' = [task EXCEPT ![t].stage = stage]

(* After a change of head: the parameters are read, then overridden. *)
ReadHead(t) ==
  /\ task[t].stage = "idle"
  /\ task' = [task EXCEPT ![t] = [NoTask EXCEPT !.stage = "override", !.slot = slot,
                                                !.head = Canonical, !.seen = Canonical]]
  /\ UNCHANGED <<slot, lookahead, heads, preparation, proposers, engineLock, told, newest, verdict>>

Override(t) ==
  /\ task[t].stage = "override"
  /\ \E h \in Overridden(task[t].head) :
       task' = [task EXCEPT ![t].stage = "waiting", ![t].head = h]
  /\ UNCHANGED <<slot, lookahead, heads, preparation, proposers, engineLock, told, newest, verdict>>

(* prepare_beacon_proposer up to the proposer, who must be registered. *)
ReadProposal(t) ==
  /\ task[t].stage = "idle" /\ slot < MaxSlot
  /\ Registered(Proposer[slot + 1])
  /\ \E h \in Overridden(Canonical) :
       task' = [task EXCEPT ![t] = [stage |-> "preparing", kind |-> "prepare", slot |-> slot, head |-> h,
                                    seen |-> Canonical]]
  /\ UNCHANGED <<slot, lookahead, heads, preparation, proposers, engineLock, told, newest, verdict>>

(* Mutant of SameProposal: the head alone finds the attributes. *)
SameHead(p, s, h) == p.head = h

SameProposal(p, s, h) == p.slot = s /\ p.head = h

Prepared(s, h) == {p \in proposers : SameProposal(p, s, h)}

(* The attributes in the cache are kept, or new ones go into it; an fcU is sent
   when the slot is in its tail, and neither if the next slot has begun. *)
Prepare(t) ==
  /\ task[t].stage = "preparing"
  /\ LET next == task[t].slot + 1
         new == [slot |-> next, head |-> task[t].head, read |-> slot]
     IN proposers' = IF Prepared(next, task[t].head) = {} THEN proposers \cup {new} ELSE proposers
  /\ task' = [task EXCEPT ![t] = IF slot = task[t].slot /\ lookahead
                                 THEN [task[t] EXCEPT !.stage = "waiting"] ELSE NoTask]
  /\ UNCHANGED <<slot, lookahead, heads, preparation, engineLock, told, newest, verdict>>

(* Mutant of AttributesFor: those of the slot the call is made in. *)
AttributesForThisSlot(s, h) == Prepared(s, h)

(* The attributes of the slot after the one the task began in. *)
AttributesFor(s, h) == Prepared(s + 1, h)

(* The lock is taken, the attributes are looked up and the call is sent. *)
NotifyForkchoiceUpdated(t) ==
  /\ task[t].stage = "waiting" /\ engineLock = Idle
  /\ engineLock' = t
  /\ LET found == AttributesFor(task[t].slot, task[t].head) IN
     \E a \in IF found = {} THEN {NoAttributes} ELSE found :
       told' = [kind |-> task[t].kind, slot |-> task[t].slot, head |-> task[t].head,
                seen |-> task[t].seen, attributes |-> a]
  /\ Goto(t, "told")
  /\ UNCHANGED <<slot, lookahead, heads, preparation, proposers, newest, verdict>>

RECURSIVE Chain(_)
Chain(h) == IF h = 1 THEN {1} ELSE {h} \cup Chain(heads[h].parent)

BadIn(h) == Chain(h) \cap BadPayload

(* Mutant of Judged: the verdict goes to the head there is by now. *)
JudgedNow(t) == Canonical

(* The head the engine was told. *)
Judged(t) == task[t].head

Descends(a, h) == a \in Chain(h)

(* on_valid_execution_payload: the block and its ancestors. *)
OnValid(h) == [i \in DOMAIN verdict |-> IF i \in Chain(h) /\ verdict[i] # "invalid" THEN "valid" ELSE verdict[i]]

(* on_invalid_execution_payload: the blocks named, and what descends from them. *)
OnInvalid(blocks) ==
  [i \in DOMAIN verdict |-> IF \E b \in blocks : Descends(b, i) THEN "invalid" ELSE verdict[i]]

(* The lock goes back as soon as there is an answer.  It is valid, syncing or an
   error, or invalid: with no ancestor or the zero hash the head alone is meant,
   with an ancestor all blocks after it. *)
EngineAnswers(t) ==
  /\ task[t].stage = "told"
  /\ engineLock' = Idle
  /\ told' = NoCall
  /\ newest' = IF told.seen > newest THEN told.seen ELSE newest
  /\ \/ task' = [task EXCEPT ![t] = NoTask]
     \/ BadIn(task[t].head) = {} /\ Goto(t, "valid")
     \/ BadIn(task[t].head) # {} /\ \E stage \in {"invalid", "invalidFrom"} : Goto(t, stage)
  /\ UNCHANGED <<slot, lookahead, heads, preparation, proposers, verdict>>

(* Fork choice hears of it afterwards, whatever else was answered in between. *)
ApplyVerdict(t) ==
  /\ task[t].stage \in {"valid", "invalid", "invalidFrom"}
  /\ task' = [task EXCEPT ![t] = NoTask]
  /\ LET h == Judged(t) IN
     verdict' = CASE task[t].stage = "valid"   -> OnValid(h)
                  [] task[t].stage = "invalid" -> OnInvalid({h})
                  [] OTHER -> OnInvalid({b \in Chain(h) : \E x \in BadIn(h) : Descends(x, b)})
  /\ UNCHANGED <<slot, lookahead, heads, preparation, proposers, engineLock, told, newest>>

FcuNext ==
  \/ Pass \/ ImportHead \/ CleanProposerCaches
  \/ \E v \in Validator : UpdatePreparation(v)
  \/ \E t \in Task :
       \/ ReadHead(t) \/ Override(t) \/ ReadProposal(t) \/ Prepare(t)
       \/ NotifyForkchoiceUpdated(t) \/ EngineAnswers(t)
       \/ ApplyVerdict(t)

FcuSpec == FcuInit /\ [][FcuNext]_fcuVars
-----------------------------------------------------------------------------
(* Attributes may be stale, but by no more than a slot, as the note on ProposerKey
   accepts: the recipient was read in the slot before the proposal, or later, and
   the block is for that slot, on the head the engine is told. *)
RecipientRecent ==
  LET a == told.attributes IN
  a # NoAttributes => a.read >= told.slot /\ a.slot = told.slot + 1 /\ a.head = told.head

(* A call made to prepare a proposal always finds the attributes that were put into
   the cache for it, whatever other tasks, the clock and the cleaning of it do. *)
PreparationSent == told.kind = "prepare" => told.attributes # NoAttributes

(* Fork choice never holds a payload valid that the engine finds invalid, nor the
   other way round, though the head moves while a call is under way. *)
VerdictsTrue ==
  \A i \in DOMAIN verdict :
    /\ verdict[i] = "valid" => BadIn(i) = {}
    /\ verdict[i] = "invalid" => BadIn(i) # {}

(* "We will never communicate a past head after communicating a later one." *)
NeverPastHead == told.seen >= newest
=============================================================================
