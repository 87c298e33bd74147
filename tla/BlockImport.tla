----------------------------- MODULE BlockImport -----------------------------
(***************************************************************************)
(* Importing blocks, from process_block, process_chain_segment and         *)
(* import_block of beacon_chain.rs, before Gloas.                          *)
(*                                                                         *)
(* A block is executed and its data must be available; both may come in    *)
(* any order and from several tasks.  It then enters fork choice, under    *)
(* the write lock that is held until the block is on disk as well.  When   *)
(* the write fails fork choice is read back from disk, where an older one  *)
(* is stored; the same happens when the node restarts.                     *)
(***************************************************************************)
EXTENDS Subsequences

CONSTANTS
  Block, Genesis,
  Parent,       \* Parent[b]
  SlotOf,       \* SlotOf[b]
  EpochOf,      \* EpochOf[b]
  Invalid,      \* blocks whose signature is bad
  Blobs,        \* blocks that have data beside them
  Segments,     \* the rows of blocks range sync hands over
  Import,       \* tasks that process blocks or their data
  Idle,         \* no task, and no block
  MaxFailures   \* bound on failed writes and on restarts

(* Genesis is signed by nobody; the rows are of blocks. *)
ASSUME ImportAssumption ==
  /\ Genesis \in Block \ Invalid
  /\ Parent \in [Block -> Block] /\ SlotOf \in [Block -> Nat] /\ EpochOf \in [Block -> Nat]
  /\ Segments \subseteq Seq(Block)
  /\ Idle \notin Block \cup Import

VARIABLES
  forkChoice,   \* blocks of fork choice
  finalized,    \* the finalized block
  disk,         \* blocks of the database
  persisted,    \* [blocks, finalized] of the fork choice on disk
  corrupt,      \* fork choice could not be read back, now or before a restart
  writeLock,    \* who holds the write lock of fork choice
  early,        \* the block in the early attester cache, or Idle
  components,   \* components[b]: what the availability checker has: "block", "executed", "data"
  importing,    \* importing[t]: [stage, kind, rest, imported]
  failures

importVars ==
  <<forkChoice, finalized, disk, persisted, corrupt, writeLock, early, components, importing,
    failures>>

NoWork == [stage |-> "idle", kind |-> "block", rest |-> <<>>, imported |-> {}]

ImportInit ==
  /\ forkChoice = {Genesis} /\ disk = {Genesis} /\ finalized = Genesis
  /\ persisted = [blocks |-> {Genesis}, finalized |-> Genesis]
  /\ corrupt = FALSE /\ writeLock = Idle /\ early = Idle
  /\ components = [b \in Block |-> {}]
  /\ importing = [t \in Import |-> NoWork]
  /\ failures = 0
-----------------------------------------------------------------------------
(* A set of blocks without gaps, down to genesis. *)
Gapless(chain) == \A b \in chain : b # Genesis => Parent[b] \in chain

(* Each block and those it builds upon: what every such set that has it has too. *)
Ancestors ==
  [b \in Block |-> {a \in Block : \A chain \in SUBSET Block : b \in chain /\ Gapless(chain) => a \in chain}]

Known(b) == b \in forkChoice
Late(b) == SlotOf[b] <= SlotOf[finalized]
Stray(b) == Known(Parent[b]) /\ finalized \notin Ancestors[b]

Linear(segment) ==
  \A i \in 1..(Len(segment) - 1) :
    Parent[segment[i + 1]] = segment[i] /\ SlotOf[segment[i + 1]] > SlotOf[segment[i]]

Irrelevant(b) == b = Genesis \/ Known(b) \/ Late(b)

(* filter_chain_segment, for a segment that is linear: what is left out is known,
   or finalized in one way or another; a stray block fails the whole segment. *)
Filtered(segment) == PartAt(segment, {i \in DOMAIN segment : ~Irrelevant(segment[i])})

Put(t, work) == importing' = [importing EXCEPT ![t] = work]
Advance(t, stage) == importing' = [importing EXCEPT ![t].stage = stage]
Current(t) == importing[t].rest[1]

(* A block from gossip, an RPC or the API. *)
ReceiveBlock(t, b) ==
  /\ importing[t].stage = "idle" /\ b # Genesis
  /\ Put(t, [NoWork EXCEPT !.stage = "process", !.rest = <<b>>])
  /\ UNCHANGED <<forkChoice, finalized, disk, persisted, corrupt, writeLock, early, components, failures>>

(* process_chain_segment up to the import of its first block. *)
ReceiveSegment(t, segment) ==
  /\ importing[t].stage = "idle"
  /\ LET blocks == Filtered(segment) IN
     /\ Linear(segment) /\ ~\E i \in DOMAIN blocks : Stray(blocks[i])
     /\ blocks # <<>>
     /\ Put(t, [NoWork EXCEPT !.stage = "signatures", !.kind = "segment", !.rest = blocks])
  /\ UNCHANGED <<forkChoice, finalized, disk, persisted, corrupt, writeLock, early, components, failures>>

(* Mutant of SameEpoch: only the first block is checked. *)
FirstOnly(blocks) == {blocks[1]}

(* The blocks before the first of a later epoch than that of the first. *)
SameEpoch(blocks) ==
  {blocks[i] : i \in {j \in DOMAIN blocks : \A k \in 1..j : EpochOf[blocks[k]] <= EpochOf[blocks[1]]}}

(* Their signatures are checked together before any of them is imported. *)
VerifySignatures(t) ==
  /\ importing[t].stage = "signatures"
  /\ IF /\ SameEpoch(importing[t].rest) \cap Invalid = {}
        /\ Known(Parent[Current(t)])
     THEN Advance(t, "process") ELSE Put(t, NoWork)
  /\ UNCHANGED <<forkChoice, finalized, disk, persisted, corrupt, writeLock, early, components, failures>>

(* The task ends, with a report of the blocks imported before; or a segment goes
   on, with the signatures of the next epoch when the block was the last of its. *)
Fail(t) == Put(t, NoWork)

Proceed(t) ==
  LET work == importing[t]
      rest == Tail(work.rest)
  IN Put(t, IF rest = <<>> THEN NoWork
            ELSE [work EXCEPT !.rest = rest, !.imported = @ \cup {Head(work.rest)},
                              !.stage = IF EpochOf[rest[1]] > EpochOf[Current(t)] THEN "signatures"
                                        ELSE "process"])

(* process_block: the block goes into the availability checker before it is
   verified, and stays there when it is refused. *)
ProcessBlock(t) ==
  /\ importing[t].stage = "process"
  /\ components' = [components EXCEPT ![Current(t)] = @ \cup {"block"}]
  /\ LET b == Current(t)
         acceptable == /\ ~Known(b) /\ ~Late(b) /\ ~Stray(b) /\ Known(Parent[b])
                       /\ importing[t].kind = "segment" \/ b \notin Invalid
     IN IF acceptable THEN Advance(t, "execute")
        ELSE IF Known(b) /\ importing[t].kind = "segment" THEN Proceed(t)
        ELSE Fail(t)
  /\ UNCHANGED <<forkChoice, finalized, disk, persisted, corrupt, writeLock, early, failures>>

(* remove_block_on_execution_error (external). *)
DropUnexecuted(b) ==
  IF "executed" \in components[b] THEN components[b] ELSE components[b] \ {"block"}

(* into_executed_block: the engine has the payload, or it fails. *)
ExecuteBlock(t) ==
  /\ importing[t].stage = "execute"
  /\ LET b == Current(t) IN
     \/ /\ importing[t].kind = "segment"
        /\ Advance(t, "import") /\ UNCHANGED components
     \/ /\ importing[t].kind = "block"
        /\ components' = [components EXCEPT ![b] = @ \cup {"block", "executed"}]
        /\ IF b \notin Blobs \/ "data" \in components[b] THEN Advance(t, "import") ELSE Put(t, NoWork)
     \/ /\ components' = [components EXCEPT ![b] = DropUnexecuted(b)]
        /\ Fail(t)
  /\ UNCHANGED <<forkChoice, finalized, disk, persisted, corrupt, writeLock, early, failures>>

(* Mutant of Available: data alone is enough. *)
AvailableUnexecuted(b) == TRUE

Available(b) == "executed" \in components[b]

(* Blobs and columns, from gossip, an RPC, the engine or reconstruction, that
   complete the data of b; the last thing missing starts the import. *)
ReceiveData(t, b) ==
  /\ importing[t].stage = "idle" /\ b \in Blobs /\ ~Known(b) /\ Known(Parent[b])
  /\ components' = [components EXCEPT ![b] = @ \cup {"data"}]
  /\ IF Available(b) THEN Put(t, [NoWork EXCEPT !.stage = "import", !.kind = "data", !.rest = <<b>>])
                     ELSE UNCHANGED importing
  /\ UNCHANGED <<forkChoice, finalized, disk, persisted, corrupt, writeLock, early, failures>>
-----------------------------------------------------------------------------
(* Mutant of Importable: the blocks of fork choice are not looked at again. *)
ImportableAgain(b) == finalized \in Ancestors[b] /\ Known(Parent[b])

(* Mutant of Importable: the parent was known when the block was verified. *)
ImportableOrphan(b) == ~Known(b) /\ finalized \in Ancestors[b]

(* What is checked once the lock is held; on_block knows the parent. *)
Importable(b) == ~Known(b) /\ finalized \in Ancestors[b] /\ Known(Parent[b])

(* import_block up to the write.  A recent block that becomes the head goes into
   the early attester cache. *)
AddToForkChoice(t) ==
  /\ importing[t].stage = "import" /\ writeLock = Idle
  /\ LET b == Current(t) IN
     IF Importable(b)
     THEN /\ forkChoice' = forkChoice \cup {b}
          /\ writeLock' = t
          /\ early' \in {early, b}
          /\ Advance(t, "write")
     ELSE /\ IF Known(b) /\ importing[t].kind = "segment" THEN Proceed(t) ELSE Fail(t)
          /\ UNCHANGED <<forkChoice, writeLock, early>>
  /\ UNCHANGED <<finalized, disk, persisted, corrupt, components, failures>>

WriteBlock(t) ==
  /\ importing[t].stage = "write"
  /\ disk' = disk \cup {Current(t)}
  /\ writeLock' = Idle
  /\ Proceed(t)
  /\ UNCHANGED <<forkChoice, finalized, persisted, corrupt, early, components, failures>>

(* Mutant of Restored: fork choice stays as it is. *)
RestoredNot == [blocks |-> forkChoice, finalized |-> finalized]

(* restore_from_store. *)
Restored == persisted

(* Mutant of EarlyAfterFailure: the cache keeps its block. *)
EarlyKept == early

EarlyAfterFailure == Idle

(* handle_import_block_db_write_error. *)
WriteFails(t) ==
  /\ importing[t].stage = "write" /\ failures < MaxFailures
  /\ failures' = failures + 1
  /\ early' = EarlyAfterFailure
  /\ \/ forkChoice' = Restored.blocks /\ finalized' = Restored.finalized /\ UNCHANGED corrupt
     \/ corrupt' = TRUE /\ UNCHANGED <<forkChoice, finalized>>
  /\ writeLock' = Idle
  /\ Fail(t)
  /\ UNCHANGED <<disk, persisted, components>>

(* Fork choice is persisted whole, by whoever finds it unlocked. *)
PersistForkChoice ==
  /\ writeLock = Idle
  /\ persisted' = [blocks |-> forkChoice, finalized |-> finalized]
  /\ UNCHANGED <<forkChoice, finalized, disk, corrupt, writeLock, early, components, importing, failures>>

(* The chain finalizes a block of fork choice (external). *)
Finalize(b) ==
  /\ writeLock = Idle /\ b \in forkChoice /\ finalized \in Ancestors[b] \ {b}
  /\ finalized' = b
  /\ UNCHANGED <<forkChoice, disk, persisted, corrupt, writeLock, early, components, importing, failures>>

(* The node stops at any moment and starts from what is on disk; a database that
   is "likely corrupt" is not repaired by that. *)
RestartNode ==
  /\ failures < MaxFailures /\ failures' = failures + 1
  /\ forkChoice' = persisted.blocks /\ finalized' = persisted.finalized
  /\ writeLock' = Idle /\ early' = Idle
  /\ components' = [b \in Block |-> {}]
  /\ importing' = [t \in Import |-> NoWork]
  /\ UNCHANGED <<disk, persisted, corrupt>>

ImportNext ==
  \/ PersistForkChoice \/ RestartNode
  \/ \E b \in Block : Finalize(b)
  \/ \E t \in Import :
       \/ \E b \in Block : ReceiveBlock(t, b) \/ ReceiveData(t, b)
       \/ \E segment \in Segments : ReceiveSegment(t, segment)
       \/ VerifySignatures(t) \/ ProcessBlock(t) \/ ExecuteBlock(t)
       \/ AddToForkChoice(t) \/ WriteBlock(t) \/ WriteFails(t)

ImportSpec == ImportInit /\ [][ImportNext]_importVars
-----------------------------------------------------------------------------
(* Fork choice holds nothing the database lacks, but for the block whose import
   holds the lock: neither a failed write nor a restart leaves a block that could
   not be read, unless fork choice itself could not be read back. *)
ForkChoiceOnDisk ==
  ~corrupt => forkChoice \subseteq disk \cup (IF writeLock = Idle THEN {} ELSE {Current(writeLock)})

(* Fork choice, the one on disk and the database are chains without gaps: no block
   is in without its parent, whichever of them was read back in between. *)
ChainsWhole ==
  \A chain \in {forkChoice, persisted.blocks} : \A b \in chain : Ancestors[b] \subseteq chain

(* A task that was let in to write is alone with its block: no block is put into
   fork choice twice, however many tasks complete it at the same time. *)
ImportedOnceStep == \A t \in Import : writeLock' = t /\ writeLock = Idle => Current(t) \notin forkChoice
ImportedOnce == [][ImportedOnceStep]_importVars

(* What the early attester cache offers for attestation is in fork choice. *)
EarlyKnown == early # Idle => early \in forkChoice

(* No block with a bad signature is written, on whichever way it came: that of a
   segment was checked with those of its epoch, that of a single block alone. *)
WrittenChecked == disk \cap Invalid = {}

(* A block is in fork choice only when the engine had its payload: data that comes
   first, or last, never stands in for it. *)
ExecutedFirst ==
  \A t \in Import : importing[t].kind = "data" => "executed" \in components[Current(t)]

(* Whatever write fails and wherever the node restarts, fork choice holds
   nothing the database lacks, neither has gaps, and the early attester cache
   offers nothing else.  Whichever way a block comes, alone or in a segment,
   before its data or after: its signatures were checked, the engine had its
   payload, and of two tasks that bring it one imports it. *)
ImportSound ==
  /\ [](/\ ForkChoiceOnDisk /\ ChainsWhole /\ EarlyKnown
        /\ WrittenChecked /\ ExecutedFirst)
  /\ ImportedOnce
=============================================================================
