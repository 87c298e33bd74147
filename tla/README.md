# A TLA+ model of AA-PQ

AA-PQ ("Daisugi") is a test network for post-quantum account abstraction. Its
accounts sign with hash-based signatures. A *dependency* is one such signature
claim, the triple of a scheme, a message and a key. The signature itself, the
*witness*, does not travel in the transaction. It travels in a *wrapper* next
to it, either as one direct witness for each dependency or as one recursive
proof of all of them. Nodes verify wrappers, keep the witnesses of pending
transactions in a bounded store, combine them into larger recursive proofs, and
put one proof into each block.

The core of the system is an overlay on the Nethermind execution client, a
prover in a process of its own, and an overlay on the Lighthouse consensus client
that carries the proof in its blocks and follows the fork that brings it in. This
directory models the parts of the three that several threads or processes share,
and the pure parts whose edges are hard to test.

In this file

    N = src/aggregation/frames/adaptive/overlay/files/src/Nethermind
    F = src/aggregation/frames/consensus/fork/overlays/nethermind/files/src/Nethermind
    L = src/aggregation/frames/consensus/fork/overlays/lighthouse/files
    A = src/aggregation/frames/adaptive

## 1. Inventory

| Part | State | Operations | Uses | What is hard | Correct when |
|---|---|---|---|---|---|
| **Witness store** `N/Nethermind.Core/Crypto/LeanProofStore.cs` | records in an eviction list with an identity index and a byte total, published coverage, pins and coverage counts of each record, ledger of each sender, pool entries; one lock | begin, commit and dispose an admission; reserve; pin, publish and unpin an entry; release a pool; add verified coverage; look up | called by admission, the pool, production and block processing; the scope is an `AsyncLocal` | calls of many flows interleave; eviction runs inside other calls; limits on bytes, records and senders | what is held is stored, counts and totals are exact, coverage never dangles or moves under a pin |
| **Admission** `N/Nethermind.Consensus/ProofAggregation/ProofWrapperService.cs`, `F/Nethermind.TxPool/TxPool.cs` | the flag `_admissionActive`; the sorted pool, the hash cache, `_isDisposed` | accept a wrapper, submit a transaction, remove, new head, dispose | store, sorted pool, `_newHeadLock`, `Inserted` and `Removed` events | filters, insertion and events are separate critical sections; cancellation, exceptions, disposal under way | a pooled transaction has its witness, nothing leaks, the gate comes free, disposal ends |
| **Verdicts** `ProofWrapperService.cs`, `MempoolWrapperValidator.cs`, `VersionedLeanProofVerifier.cs` | table and queue of 128 verdicts; the program of the chain head | accept, validate, remember, head change | verifier, chain head | the head moves while another thread verifies; the cache has no lock | nothing is admitted under a program that rejects it |
| **Production** `ProofWrapperService.BuildWrapperCore`, `ProductionProofCache.cs`, `AdaptiveBatchPolicy.cs`, `RecursiveStarkAggregator.cs`, `BlockProcessor.PrepareProductionProof` | cached wrapper, batch policy, caches of recursive proofs, a counter of producers | build a wrapper, prove in the background, prove for a block | store, pool, prover, gossip | the pool and the program change while a proof is computed; background work yields to blocks | a proof belongs to what it is published for and to the program of the block |
| **Gossip** `N/Nethermind.Network/P2P/Subprotocols/Lean/LeanProofGossip.cs` | the latest wrapper, one worker and one pending wrapper for each peer | publish, add and remove a peer, retry, dispose | protocol handlers, admission, timers | at most one worker for each peer and no wrapper forgotten as one ends | the latest wrapper reaches every willing peer |
| **Wire protocol** `LeanProtocolHandler.cs` in the same directory | status, the wrapper in work and the one waiting | handshake, receive, send, dispose | gossip, admission | messages are disposed exactly once; busy answers are retried | no wrapper is processed twice or lost for ever |
| **Inclusion lists** `InclusionListProofPackage.cs`, `InclusionListProofVerifier.cs` | none | encode, verify | admission | pure | round trip |
| **Picking and executing** `BlockProcessor.BlockProductionTransactionPicker.cs`, `...Executor.cs` | state of one block | choose, execute, roll back | store, production | a dropped transaction drops its dependencies | the block's proof covers exactly its transactions |
| **Prover worker** `N/Nethermind.Crypto/AdaptiveProofWorker.cs`, `A/worker.rs` | one child process and two pipes, a gate | prove, restart, dispose; on the other side read, prove, write | native prover | time limits with half a request in the pipe; nothing in an answer says whose it is | an answer belongs to its request, every call ends |
| **Native provers** `A/native/ffi/src/lib.rs`, `A/native/leanvm-overlay` | register of calls, pool, lock of the prover; the row of proofs of one request | prove, verify, merge, decode | called through C from many threads | panics unwind past registers and locks; trees of proofs within limits; two encoders of one program | one proof at a time, no claim lost, the two encoders agree |
| **Calls of the engine** `L/beacon_node/execution_layer/src/engine_api/http.rs`, `L/beacon_node/client/src/notifier.rs` | caches of capabilities and of the version, a lock each | exchange, clear, call | execution engine | the engine restarts as another version while an exchange is under way | a call goes by what the engine has now |
| **Fork choice told to the engine** `L/beacon_node/beacon_chain/src/beacon_chain.rs`, `execution_layer/src/lib.rs` | caches of proposers, the lock, the engine's verdicts | prepare a proposal, override a late head, tell, judge | engine calls, fork choice, clock | head, clock and other tasks move between the steps | no stale attributes, no wrong verdict |
| **Choice of the payload** `execution_layer/src/lib.rs` | one proposal, the cache of payloads | ask both, weigh, reveal | engine calls, builder | either side fails or cheats; saturating arithmetic | no proposal missed, no bid taken that earns less |
| **Import of blocks** `beacon_chain.rs` | fork choice, database, early attester cache, availability checker | import a block, a segment, data; restart | engine, disk | tasks complete one block together; writes fail | fork choice never ahead of the disk |
| **Fork schedule** `L/consensus/types/src/core/chain_spec.rs`, `fork_name.rs`, `L/consensus/state_processing` | the configuration; slot, variant and fork record of a state | accept, announce, upgrade | everything | forks in one epoch; Daisugi stands beside the order of forks | three answers about an epoch agree |
| **Queries of the history** `beacon_chain.rs` | head, store, backfill | roots by slot, attestations, shufflings | fork choice, store | the head moves between two paths | the answer was true of one branch |
| **Streams of blocks** `L/beacon_node/beacon_chain/src/beacon_block_streamer.rs` | one request | load, fetch bodies, send | store, engine | bodies carry no root; chunks fail | each root gets its own result |
| **Production of beacon blocks** `block_production/gloas.rs`, `beacon_chain.rs` 4874-6240, `L/consensus/state_processing/src/per_block_processing.rs` | one production; bids heard, payloads kept for signing; in the state the last bid, payments, withdrawals given out, slots whose payload came | load, pack, build, select, complete; process a header, a parent's payload, a bid | choice of payload, operation pool | a payload is settled a block later, in another epoch or after the fork; parts of a block are read at different times | builders pay once, withdrawals in turn, what is produced is accepted |
| **Requests to peers** `L/beacon_node/lighthouse_network/src/rpc/codec.rs`, `protocol.rs` | per stream: version, buffer, what is expected | negotiate, encode, decode, end | peers, store, clock | a stream is cut anywhere; a fork begins under way, and limits follow the receiver's fork | each chunk comes back in the container of its fork, nothing sound is refused |
| **Gossip topics** `lighthouse_network/src/types/topics.rs`, `pubsub.rs` | subscriptions | name, subscribe, publish, read | peers, clock | two forks' topics side by side around a boundary | a message is read as what it was |
| **Forms of a payload** `L/consensus/types/src/execution`, `execution_layer/src/engine_api/json_structures.rs`, `block_hash.rs` | none shared | blind, store, tell the engine, bid, rejoin, verify | engine, builder, database | a proof and its commitment in every form of five forks | what verifies is what was made |
| **Forms of a block** `L/consensus/types/src/block` | none shared | sign, blind, encode, read by slot, tag or trial, prove | database, peers | layouts of two forks may agree; Daisugi's tag and order differ | root and signature survive |
| **Duties of a state** `L/consensus/types/src/state/beacon_state.rs` | rings of roots and mixes, lookaheads, committees and caches | ask, advance, cache, rebase | fork schedule | answers ahead of time, on branches, from caches; three ways to draw a proposer | an answer once given stays |
| **Pace of exits** in the same file | an epoch being filled and what is left of it | exit, consolidate | | the limit changes with the balance | no epoch lets more leave than its limit |
| **Updates for light clients** `L/consensus/types/src/light_client` | the best update of each period, the latest ones | make, compare, read | import | blocks come in any order; branches differ in length by fork | the preferred one is kept, and proves what it is to |
| **Other overlay files of Lighthouse** accessors of containers, types of the HTTP API, test utilities with a mock engine and builder | none shared | encode, convert | | structural | round trip |
| **Frame transactions** `F/Nethermind.Core`, `F/Nethermind.Evm` | state of one transaction | validate, execute | EVM | many cases, sequential | EIP-8141 |
| **Portal, explorer** `src/frontend`, `src/explorer` | faucet cooldowns | filter requests, pay out | RPC | two requests of one address | one payment for each cooldown |
| **Wallet, bundler** `src/aggregation/frames/extension`, `src/native-wallet-original`, `src/bundler-source` | vault, cursors | sign, poll | RPC | reorganisations under a cursor | no transfer is missed |
| **Deployment** `src/scripts/portal_release.py`, `schedule-nethermind-frames.mjs` | links to releases | install, activate, roll back | file system | each step may fail | one consistent release is live |

How the first three parts work together: a flow (a peer's message, an RPC call,
a local submission) calls `AcceptDetailedAsync`. Behind the gate it decodes,
verifies on another thread, and compares the program. Then it opens an admission
scope in the store, which pins the records of the wrapper. It submits the
transactions one by one to the pool, publishes the coverage of those that were
accepted, and disposes of the scope. The pool itself reserves the witnesses of a
transaction before its filters run, and charges them to the sender when he is
known. It pins them for the pool entry before `TryInsert`, publishes them in the
`Inserted` event, and unpins them in `Removed` or when the insertion failed.

How production and gossip work together: on each cadence of its timer the gossip
starts a build, unless one is running. The build copies the pool, selects, proves
what is not proved yet, shares the proof with block production through the cache
of the store, and exposes a wrapper. The gossip publishes whatever is exposed and
still pending, and one worker for each peer sends it. A block producer looks for
a proof of exactly its dependencies in the same cache and otherwise proves them,
ahead of the builder.

How the prover works: C# callers queue at the gate of `AdaptiveProofWorker` and
exchange one request and one answer with the child process of `A/worker.rs`,
whose library makes a tree of recursive proofs, one call of the circuit after the
other. The node itself calls the same library from many threads to verify.

How the consensus client works: blocks and their data come from several tasks
and meet in the availability checker, and the task that completes a block imports
it under the lock of fork choice. The head then moves, and the engine is told of
it under a lock of its own, with attributes for the next proposal when one is due.
A proposal asks engine and builder for a payload. Peers and validators meanwhile
ask for roots, blocks and attestations, over streams and topics of their own, and
light clients for updates made of what was imported. What each of these may do
in an epoch, and in which shape, is decided by the fork schedule; who has which
duty in it, by the state of the branch.

## 2. The modules

| Module | Models | Extends |
|---|---|---|
| `Subsequences`, `SubsequenceProofs` | the part of a sequence at some of its places, and folds; lemmas about them | |
| `LeanProofStore` | the store: eleven variables, ten actions, one for each public method that changes state | `Subsequences` |
| `LeanProofStoreProofs` | theorems about it | `LeanProofStore`, `SubsequenceProofs` |
| `ProofAdmission` | admission and the pool over the store | `LeanProofStore` |
| `ProofAdmissionProofs` | theorems about it, and that it implements the store | `ProofAdmission`, `LeanProofStoreProofs` |
| `WrapperVerdicts` | the cache of verdicts and the change of program | |
| `ConsensusClientProofs` | theorems about the verdicts, the calls of the engine, streams and import | `WrapperVerdicts`, `EngineMethods`, `BlockStreamer`, `BlockImport`, `SubsequenceProofs` |
| `ProofProduction`, `ProofProductionProofs` | building wrappers, proving for blocks, the caches they share; theorems about it | `Subsequences`; `SubsequenceProofs` |
| `WrapperFeed` | what the gossip promises a peer, abstractly | |
| `LeanProofGossip`, `LeanProofGossipProofs` | the gossip, which implements it; theorems about it | `WrapperFeed` by `INSTANCE` |
| `LeanProtocolHandler`, `LeanProtocolHandlerProofs` | the receiving side of a connection; theorems about it | |
| `ProverWorker` | the gate, the child process and both pipes | |
| `NativeCalls` | concurrent calls of the native library | |
| `Provers` | the worker and the library together | `ProverWorker`, `NativeCalls` |
| `AggregateTree` | the tree of recursive proofs | `Subsequences` |
| `ProversProofs` | theorems about the tree, the worker and the library | `AggregateTree`, `Provers`, `SubsequenceProofs` |
| `ProofCodec` | the encoders of programs, the preflight, the envelope | |
| `EngineMethods` | calls of the engine and the caches they go by | `Subsequences` |
| `EngineForkchoice` | what the engine is told of the head | |
| `PayloadChoice` | engine or builder | |
| `BlockImport` | import, failed writes, restarts | `Subsequences` |
| `Forks` | the forks and what a configuration says of an epoch | |
| `ForkSchedule` | configurations that are accepted, and the upgrades | `Forks` |
| `ChainHistory` | queries while the head moves | |
| `BlockStreamer` | streams of blocks | `Subsequences` |
| `BlockProduction` | blocks produced and processed before and after Gloas | |
| `ReqResp` | a request to a peer and its answer | `Forks` |
| `GossipTopics` | topics from fork to fork | `Forks` |
| `PayloadForms`, `BlockForms` | a payload, a block, from form to form | `Forks` |
| `StateDuties` | who has which duty, and what a state remembers | `Forks` |
| `ExitChurn` | the pace at which balance leaves | |
| `LightClient` | updates for light clients | `Forks` |
| `MCSafety`, `MCConsensus`, `MCProgress`, `MCAdmission`, `MCInterrupted` | components side by side for TLC, section 3 | what theorems are about is extended, the rest instantiated |
| other `MC...` | instances of single modules for TLC | |

Definitions whose comment begins with "Mutant of" are faulty variants of the
next definition. They belong to no specification; `PROJECT.json` pairs each with
the property that notices it.

### LeanProofStore

Every public method of the store runs under one lock, so each is one action and
everything it calls (`MakeRoom`, `Insert`, `Remove`, `Publish`,
`TryTakeSender`) is part of it. A record is identified with its identity hash. A
dictionary from dependencies to records is a table with `None` where it has no
entry, and a holder's list of distinct records is the set `Used(table)`. What a
call does over a list is written over the set: `Published`, `Recounted`,
`Uncovered`, `Replace` give the state after the whole loop. The order in which a
wrapper's new records are appended to the eviction list is a free choice, for a
wrapper may list them in any order; `Victims` and `Evicted` keep the order in
which `MakeRoom` walks the list, from the oldest record.
`TryBeginAdmission` pins before it makes room, and gives the pins back when
there is none. What was evicted in a failed call stays evicted, as in the code.

Not modelled here: the cache of generated recursive proofs, which shares the
lock but no other state, lookups, and the wire limits that reject an input
before it reaches the lock. `Offer` is what `ValidateShape` lets through.

### ProofAdmission

| State | Code |
|---|---|
| `stage`, `job`, `outcome`, `victim` | the program counter and locals of a submission |
| `wrapper`, `todo`, `admitted` | locals of `AcceptDetailedAsync`, the loop, `admittedDependencies` |
| `admissionActive` | `_admissionActive` |
| `pool` | the sorted pool, with its insertion limit |
| `seen`, `known` | `_hashCache`: current block, and long term |
| `phase` | `_isDisposed` and the end of `DisposeAsync` |
| the variables of the store | shared |

Each stretch of code between two critical sections is a step of its own:
reserving (`Reserve`), marking the hash (`Mark`), charging the sender
(`Charge`), pinning (`Pin`), insertion with its event (`Insert`), the event for
whatever was pushed out (`Evict`, still under the lock of the sorted pool),
looking the transaction up afterwards (`Settle`) and unpinning it (`Unpin`), each
`Dispose` (`Drop`), and the return (`Return`). Other flows, removals, heads and
disposal run in between.

The sorted pool, its lock, and the hash cache belong to upstream Nethermind and
are modelled from how `TxPool.cs` uses them. `Reading` is the set of flows inside
the read lock of `_newHeadLock`; `NewHead` and `ReleasePool` take the write lock
and so need it empty. Removal merges taking the record out of the pool, its
event and the change of the long-term hash cache, which no other step tells
apart. Inclusion lists go through the same gate and the same steps.
Payer exposure, paymasters, nonces, blobs and the broadcaster are left out: they
only add reasons to turn a transaction away, and these are free choices in the
model.

Two constants describe the environment. `Duplicates` says whether two flows may
submit the same transaction at the same time. `Throws` says whether a subscriber
of `Inserted` may throw after the pool has taken the record. Each of them alone
breaks `PooledPinned`: duplicates as told in section 4, and a throw because the
subscriber that publishes may be cut off. A run that does not need them off has
them on.

### WrapperVerdicts

The program (identified by its verification key) is a function of the chain
head. `AcceptDetailedAsync` reads it for the cache key (`Lookup`), validation
reads it twice on another thread (`CheckLimits`, `CheckProof`), and it is
compared once more before admission (`Recheck`). `HeadChange` may happen between
any two of these. What a verifier says about a proof is a constant, `Proves`, and
so is the claim limit, `Within`.

### ProofProduction

One builder runs `BuildWrapperCore`; only the gossip starts it, one build at a
time. Block producers run `PrepareProductionProof`. They meet in three places:
the cache of generated proofs in the witness store (`cached`), the cache of
proved statements (`proved`), and the proving lock with its counter of waiting
producers (`proving`, `waiting`). All of them read the program from the head
(`program`), at different moments: the builder to clear its caches (`Collect`),
to choose how it selects (`Select`), and when it proves (`BuilderAsks`); a
producer for its key (`Produce`), to verify what it found (`BlockVerifies`), and
when it proves (`BlockAsks`). Each of these is a step, and the head, arrivals and
removals may come between any two.

A proof is represented by its dependencies and its program. `Chosen` is the
selection loop as a fold over the candidates: it skips what cannot be proved,
stops at the first candidate that does not fit, and says where the next wrapper
begins. `firstSeen` is the order in which candidates were first seen, which is
all that the arrival times decide. The grace period of a prepared group is the
flag `grace`, set when a wrapper is exposed and dropped by `GraceEnds`. The batch
clock is a free choice: an adaptive selection may always end as "still forming".

### LeanProofGossip and WrapperFeed

| State | Code |
|---|---|
| `peers`, `made` | `_peers`, and the `Peer` objects made so far |
| `pending`, `workerOf`, `recent` | the fields of a `Peer` |
| `tasks`, `buildWorker`, `loop` | `_workers`, `_buildWorker`, and where each task and the timer loop is |
| `pub` | the one publication inside `_publicationLock`, and the peers it has still to offer to |
| `latest`, `lastWrapper` | what `GetLatestWrapper` returns, and `_lastWrapper` |
| `disposal`, `awaited` | how far `DisposeAsync` has come, and the tasks it waits for |

An action is one critical section of `_lock`, or what a thread does between two
of them. A send itself is outside the lock: `TakePending` begins it, `Sent` or
`NotSent` ends it, and removal, return and disposal may come in between.
`Recent` holds only entries younger than the refresh delay. The oldest leaves
first, so dropping an entry when it lapses, and not when it is next looked at,
makes no difference.

`WrapperFeed` is the promise: one wrapper at a time is on its way to a peer; what
waits for it was on offer when it began to wait, is replaced by a newer one, and
is taken back when nothing is on offer; nothing begins after the end. The
mapping hides tasks, publication and disposal, and takes a peer's mailbox only
while it is connected.

### LeanProtocolHandler

One connection. The network thread (`network`) takes the status and then one
message after the other; a background task (`tasks`) works on one message; any
thread may run `Dispose` (`disposal`). They meet in the receive slot:
`receiving`, `active` and `pending` are the three fields under `_receiveLock`.
Each action is one critical section of that lock or what a thread does between
two. `releases` counts how often the pooled memory of a message was given back.

The scheduler is external: it takes a task, refuses it or throws, and cancels a
task or not. So is `AcceptDetailedAsync`, which answers, is busy, or throws. The
five seconds of retries are the flag `late`, which `RetryEnds` sets at any moment.
The limit on bytes and chunks of a second only drops packets, and a
message that is still incomplete has no slot, so both are left out.

### ProverWorker, NativeCalls

`ProverWorker` has both ends of the pipes. A request is four parts, an answer
two, as many as there are reads; the child reads, proves and writes in its own
steps, may exit at any of them or answer nonsense. The deadline or a failure may
cut the caller's exchange between any two parts, after which the process is
killed (`StopAfterFailure`). `answer` remembers whose proof a caller was given,
which nothing in the pipes says. Each process start is counted against `Starts`.

`NativeCalls` has one action for each stretch between two synchronisations of
`checked` and the functions around it: the register (`inAbi`, `activeCalls`), the set
up of the pool by whoever comes first, the lock of the prover and a panic at any
point. Whether a proof ever ends is left open.

### AggregateTree, ProofCodec

A proof is the set of claims it proves. `AggregateTree` follows `prove_aggregate`
from the request through the leaves and the rows above them; `calls` holds the
last call of `aggregate_mixed`, whose own checks are `Prepared`. The limits are
constants, so the theorems are about all of them.

`ProofCodec` looks at three things apart from each other: an instruction of a
program as decoded at the boundary and as encoded for the guest, a payload as
looked through by both preflights, and an envelope as wrapped and unwrapped. Field
values are the edges of each width, lengths are counted in a scaled-down
`MaxBytes`.

### EngineMethods, EngineForkchoice, PayloadChoice

`EngineMethods`: each caller takes the lock of the cache of capabilities, uses
what is there or asks the engine while it holds the lock, lets go, chooses a
version of the method and calls. The supervisor clears one cache after the other.
`era` counts starts of the engine, so that a cached answer says which start it is
of. Transport errors are the answers an engine of another build gives.

`EngineForkchoice`: `heads` lists the canonical heads there have been, late ones
with the parent they may be replaced by. A task reads, overrides, prepares, waits
for `engineLock`, tells the engine (`EngineAnswers`), lets go, and applies the
verdict afterwards (`ApplyVerdict`). An epoch is a slot long, for it only decides
when caches are cleaned. Whether weights allow a re-org is a free choice, and the
option `always_prepare_payload` is off.

`PayloadChoice`: one proposal, from the two requests to the reveal. Values are
small integers with a largest one at which arithmetic saturates, as `Uint256`
does.

### BlockImport, Forks, ForkSchedule, ChainHistory, BlockStreamer

`BlockImport`: a task executes a block, or brings its data, and whoever completes
it imports it; `writeLock` is held from fork choice to the database, as the code
does. A failed write or a restart reads fork choice back from `persisted`. When
that fails too the code calls the database "likely corrupt" (`beacon_chain.rs:4512`):
`corrupt` says so from then on, for the fork choice that is in memory may be persisted
later with a block that is not on disk, and a restart reads that back.
Signatures of a segment are checked in runs of one epoch. `Ancestors` is what every
set of blocks without gaps has of a block's past. Before Gloas only.

`Forks`: operators for every question the code asks about an epoch, named as
there. `ForkSchedule`: a configuration file is read (with defaults where it is
silent), refused, panicked over or put into a built-in configuration; then a state
runs through all slots under it, genesis included. What the code computes from
other fields is computed here, what it writes out for the built-in networks is
written out, and `SpecsReturn` compares the two; `ServedAgrees` is about a node
that takes its configuration from the API of another.

`ChainHistory`: a question takes its steps (the head's roots, the store, fork
choice) while head, backfill and verdicts move; `seen` remembers the heads it
met, for the properties only. One kind of question makes a state for any slot
(`state_at_slot`), the others name what the chain has.

`BlockStreamer`: one request through loading, fetching in chunks and the channel.
A body is identified with its block; a wrong one is one of another block.

### BlockProduction

The state is what the properties can tell apart: the last header, the last bid,
the hash of the last payload, the payments of builders in their window of two
epochs, what is owed and paid, exits, and the round of withdrawals. Hashes name
their slot and builder. `NextSlot` is `per_slot_processing` with the rotation of
payments and the upgrade; `ProcessOK` and `Post` are `per_block_processing` before
and after Gloas, with other operations reduced to exits and to the attestations
that give payments their quorum. A production takes its steps as the code awaits:
`Load`, `Pack` (head, pool), `BuildPayload` (engine), `Complete` (bids), `Publish`;
slots, blocks of others, bids, exits and payloads arrive in between. `executed` is
the execution chain, for the properties only: a payload of Gloas joins it with the
block that builds on it. `InTime` lets no chain rest for as many slots as the
state remembers availabilities.

Exits meet requests in one case the filter leaves: a partial withdrawal of a
validator that also exits. The test
`partial_withdrawal_request_does_not_filter_voluntary_exit` fixes that behaviour;
the block is then refused by its own processing, and `ProducedAccepted` names it
as the exception. That a payload is kept by slot, not by root, is a TODO in the
code, and `PayloadKept` promises it only where one block was produced for the
slot. `PreparedWithdrawals` is what the engine is told to prepare the slot before,
from the head; `PreparedAgrees` compares it with what `BuildPayload` asks for.
Not modelled: rewards and payload attestations.

### ReqResp, GossipTopics

`ReqResp` has one request over one stream. The stream is a sequence of pieces
(response code, digest in two, length, body in two), so that a decoder may be
called with half of anything; `Deliver` moves one at a time. Limits are those
of the receiver's current fork, the container is that of the chunk's digest, and
`Tick` begins the next epoch at any moment. Lengths keep the order of the real
ones. The handler of many streams, its timers and rate limits are not part of the
overlay.

`GossipTopics`: a topic is written into a name and read from it; the network
service, which is external, subscribes before a boundary and leaves after it.
Messages are in flight across the boundary.

### PayloadForms, BlockForms

A payload is a function of the fields its fork has; a block's body a sequence of
fields in the order of its container, for the bytes keep the layout only. Each
action takes what there is into another form, and readers are tried with every
fork, not only with the right one. Hashes and roots are free constructors. The
hash that the client computes of a payload of Gloas leaves out its access list
and its slot (`block_hash.rs`), so `VerifiedIsMade` says nothing of Gloas, whose
requests are not made of a block. Two more operations stand beside the actions
and are evaluated for every payload they make: putting a stored block together
with the payload the engine still has (`GetBlock`, `BlocksReturn`), and what the
engine is told to build a payload from (`AttributesFor`, `AttributesFit`).

`BlockForms` also puts a block together from the operations of the pool and what
the engine or a builder gave (`ProductionFits`), and follows it with its blobs
from the node to the validator client, its signer and back to be published
(`OffersPublished`): the headers of the answer, both encodings, the readers with
and without the fork.

### StateDuties, ExitChurn

`StateDuties` runs a state through its slots with blocks that slash, exit, reward
or deposit, and saves it or switches to another branch; what is asked is whatever
`Asked` allows: a dependent slot in the past, and an epoch of the state's own
fork. Hashes are injective: a root is the log of the blocks up to it, a draw the
record of all that it is drawn from, so two answers are equal exactly when they
are drawn from the same. Processing of epochs and blocks, external here, is
reduced to what a duty reads. A rebase is onto an ancestor, and a state is
advanced only when its caches are built, as its callers see to.

`ExitChurn` keeps only the queue being filled. A consolidation is asked for only
where the limit leaves room for one, as the processing of requests sees to.

### LightClient

The aggregates heard so far, from imported blocks in any order, and what the
cache keeps of them. A proof is the field it leads to and its length. Lengths of
messages, their JSON and when an update is broadcast are left out.

## 3. What TLC checks

| Run | Bounds | Shows |
|---|---|---|
| `store` | 2 dependencies, 4 records (two rival witnesses of one dependency, a recursive proof of both), 2 flows, 1 reservation, 2 transactions of one sender; 3 bytes and 3 records, 2 of each for a sender | types; exact pins; what is held is stored; coverage is sound, exactly counted and does not move under a pin; totals of the store and of the sender are exact and limited |
| `admission` | 2 flows, 3 wrappers, 3 transactions, a pool of 2, no `Duplicates`, no `Throws`; beside it the import of blocks, see below | a pooled transaction is pinned, and what is published for it is what it pins; imports keep fork choice and database together |
| `admission_interrupted` | 2 flows, 1 transaction, a pool of 1, one record for the sender, `Duplicates` and `Throws`; beside it the gossip with 1 peer and 2 wrappers | a reservation covers the pin that follows; nothing leaks; a disposed pool holds nothing; the gate comes free, the latest wrapper arrives, and again after each refresh delay, and both disposals end |
| `admission_twice` | 2 flows, `Duplicates`, no `Throws` | a violation, section 4 |
| `production` | 1 producer, 2 transactions that share a dependency (one proved under the old program before it came), 1 cached proof | the count of waiting producers is exact; a waiting producer gets the prover or gives up; a block's proof is never older than its proposal; the cache keeps its limit |
| `production_late` | 1 producer, 2 transactions | a violation, section 4 |
| `production_rotation` | no producer, 3 transactions, one claim for each wrapper, before the activation | every transaction of a settled pool gets into a wrapper, and none holds more claims than the limit |
| `production_starved` | no producer, 2 transactions, one claim, after the activation | a violation, section 4 |
| `safety` | components side by side, see below | safety of the gossip, the codecs and of those parts of the consensus client that run in parallel |
| `consensus` | components side by side, see below | safety of the verdicts, and of those parts of the consensus client that cross forks |
| `progress` | components side by side, see below | that calls end, and safety of the handler, the tree and the prover |
| `engine_order` | 2 tasks, 3 slots, 2 heads | a violation, section 4 |

`MCSafety`, `MCConsensus`, `MCProgress`, `MCAdmission` and `MCInterrupted` put components side by
side that do not interact: the variable `part` says which one a behaviour is of,
and the others rest. The variables `x1`, `x2`, ... stand for those of the component
at work. It is a way of checking many modules in one run, and adds no behaviour
and takes none away: every property is guarded by its part, and each component
has its own `Init` and `Next`. Where a module is extended and not instantiated,
its property has no guard: `GossipSound`, `StreamSound` and `MethodsSound` in
`safety`, `VerdictsSound` in `consensus`, `HandlerSound`, `TreeSound` and
`ProversSound` in `progress`, `ImportSound` in `admission` hold in every state, in
other parts of the initial state. They are the very formulas of the theorems.

| Run, part | Bounds | Properties |
|---|---|---|
| `safety` gossip | 2 registrations of one delegate, 2 wrappers, a memory of 1 | `GossipSound`, `ImplementsFeed` |
| codec | fields at the ends of every width, two at a time; payloads of up to 2 phases; `MaxBytes` 256 | `CodecsSound` |
| choice | 6 values up to the largest, 5 boosts, gas limits around every quotient | `ProposalsSound` |
| forkchoice, reorg | 1 task, 3 slots and 2 heads; 2 tasks, 2 slots and 3 heads, one of which may be re-orged | `EngineSound` |
| schedule | the built-in configurations; files with every order of four later forks over epochs 0 to 4 or never, Daisugi at any, 3 versions, 2 schedules of blobs; 5 epochs | `ScheduleSound` |
| history | 5 blocks with a fork, a window of 2, 6 slots, 2 heads seen by a question | `HistorySound` |
| stream | 4 requests over 5 blocks, chunks of 2 | `StreamSound`; its end in `progress` |
| chain, producing, racing | epochs of 2 slots, Gloas from genesis or slot 2; 6 slots with 4 blocks of others; 3 slots with a production, a validator, requests that exit or withdraw; 2 slots with two productions | `ChainSettled`, `ProductionSound` |
| methods | 2 callers, 2 builds, 2 starts of the engine | `MethodsSound`; the end of calls in `progress` |
| `consensus` verdicts | 2 flows, 4 wrappers, 2 programs, a queue of 3, the fork crossed once | `VerdictsSound` |
| rpc | 4 networks, each with two or three forks within 3 epochs; a peer of an older build or one that serves light clients; up to 2 chunks, counts up to 2 | `RequestsSound` |
| topics | the same networks; one subnet of each kind | `TopicsSound` |
| forms | payloads of every fork with 5 lists of transactions and 5 of requests, in and out of order | `FormsSound` |
| blocks | the same networks, 2 keys, a block of any epoch | `BlocksSound` |
| duties | the same networks; epochs of 2 slots, 7 slots, 3 validators (one leaves, one comes later), 1 slashing, exit, reward or deposit; 2 or 3 of them on two networks over 4 and 5 slots | `DutiesSound` |
| churn | Electra and Gloas, 2 totals, 3 balances, 3 that leave, 3 epochs | `DutiesSound` |
| clients | the same networks, 28 aggregates of which 3 are heard, periods of 3 slots, a committee of 4 | `BlocksSound` |
| `progress` handler | 4 messages, 2 tasks | `HandlerSound`, `MessagesReleased` |
| tree | 2 signatures, 1 STARK, rows of children, leaves of 2, calls of at most 3 | `TreeSound`, `CallsEnd` |
| worker | 2 callers, 2 processes | `ProversSound`, `CallsEnd` |
| native | 2 threads | `ProversSound`, `CallsEnd` |
| `admission` import | 4 blocks, one invalid, one with data, 2 segments, 2 tasks, 1 failure or restart | `ImportSound` |
| `admission_interrupted` gossip | 1 peer, 2 wrappers, a memory of 1 | `WorkEnds` |

Most of these properties are conjunctions of named parts, each stated and
explained in its module: `GossipSound`, for one, is `OneWorkerPerPeer`,
`PendingHasWorker`, `SendsAreNew`, `WithdrawnNotWaiting` and `DisposedQuiet`. The
modules hold a faulty variant for nearly every part; `PROJECT.json` names one for
each conjunction, and TLC found each of the others to violate its part as well.

Why these bounds are enough to meet the hard cases. With two witnesses for one
dependency, one is published while the other is in a scope. The recursive record
makes one record cover two dependencies, which is what separates counting
records from counting dependencies. Three bytes and three records force
eviction in nearly every admission, and let it fail. Two holders of each kind
share records, so that a pin given back by one must leave that of another. Two
flows are enough for each race here: between a submission and another one,
removal, a new head or disposal. A pool smaller than the number of transactions
makes insertion push out others and itself. The queue of verdicts is shorter
than the number of keys, so that it wraps. A cache of one generated proof with
two statements makes it forget in every run of production. One claim for each
wrapper makes every selection leave somebody out; the code's 16 and 40 claims do
the same once the pool is large enough. In the gossip a memory of one wrapper
makes a peer forget what it was sent while it may still be offered it, and a
second registration of one delegate is what a reconnecting peer does. Four
messages fill the receive slot, let one wait, replace it, and come once more. TLC
needs about two and a half minutes for the largest run. For the parts of
`safety`, `consensus`, `progress` and `admission`: two tasks, callers or threads are enough for each race,
since every race there is between two of them or between one and its environment
(clock, head, engine, disk). One failed write or restart reaches every step of an
import; for more of them, and for a restart after a fork choice that could not be
read back, there is the proof. Two starts of the engine are an exchange before and
after. A window of two slots has an inside, an end and an outside. Chunks of two
leave one that is full, one that is not, and a boundary between two blocks that
need a body. Four later forks over five epochs meet every order of two and of
three, in one epoch or in several. Epochs of two slots let a parent be settled in its
own epoch, the next and a later one within six slots, and the fork fall on a
boundary inside them; a builder with funds for two bids meets one it cannot
cover. In the tree three inputs of two kinds and
three children fill calls, leave one over, and need two levels; for other sizes
there are the proofs. Of the forks, each boundary from Altair to Gloas lies on one
of the four networks, Daisugi's on one, and two of them change the number of blobs
with the fork or after it. A stream of two chunks can have one on each side of a
boundary, and its limit crossed by the second. A duty looks at most two epochs
ahead or one back, and the rings of roots and mixes are shorter than a chain of
seven slots, so that they wrap. Three aggregates with a committee of four are a
weaker, an equal and a stronger update of one period, in any order. The forks a task
tells the engine of race in `reorg`, and over one more slot in `engine_order`; the
third slot of `forkchoice` is there for the caches, which one task reads and
cleans.

Every counter is bounded by the finite sets of holders, records, peers and
producers; no guard of any action cuts behaviour off. Each `Peer` object is made
once, so a run has as many registrations as `Peer` has members. `admission_interrupted`,
`safety`, `consensus`, `progress` and `engine_order` do not check deadlock, because their
components really stop: after disposal, at the end of a request, when the clock
is at its bound. `safety` takes peers, wrappers, tasks and callers of one kind as
alike (symmetry), which no definition tells apart; no run with a liveness property
does.

**Fairness.** `FairAdmissionSpec` gives each flow strong fairness of its steps.
A flow never waits for its caller once it has begun. It waits only for the lock
of the sorted pool, which other flows take again and again, and which a monitor
hands to each waiting thread eventually; that is strong fairness. Which of its
steps a flow takes is not subject to fairness: refusal, cancellation or
rejection may always or never happen. Disposal has weak fairness: `_isDisposed`
turns new submissions away, so the readers run dry and the write lock stays
free. No fairness is assumed of callers, removals or heads.

The gossip has weak fairness of what the thread pool runs (workers, builds,
publications, the timer), and strong fairness of `Sent`: a peer that is sent a
wrapper over and over accepts it in the end. Nothing is assumed of peers that
come and go, nor of builds succeeding. In production, `FairSpec` assumes that
the gossip starts builds, that a batch that keeps forming gets ready, and that a
transaction whose proof is tried over and over is proved at last.
`ProverFairSpec`, which run `production` uses, assumes only that the prover
answers, success or not, and that a waiting producer, which tries the lock every
50 ms, gets it when nobody takes it; it is checked with one producer, since the
lock promises no order among several.

In `progress` and `admission_interrupted` the formulas `Weak(i)` and `Strong(i)`
put the fairness of the parts next to each other: a conjunct for each `i`, and
in a behaviour of a part only its own disjunct can be enabled. The prover worker
has weak fairness of its steps (its process may hang; the deadline does not) and
strong fairness of entering the gate, a .NET monitor that others pass again and
again. Native calls have weak fairness of each thread's steps, but none that a
proof ends, so only calls that prove nothing are promised to return. The tree
and the stream have weak fairness of the one task that runs them. Engine calls
have strong fairness of each caller's steps: the locks of the caches are fair
queues (tokio), and every request has a time limit.

The handler has weak fairness of its threads (the scheduler runs what it has
taken, `AcceptDetailedAsync` returns) and of `RetryEnds`, for time passes. That
the service is ever free is not assumed.

**Assumptions of the passing runs that matter.** `admission` has one submission
of a transaction at a time and no throwing subscriber. The part `verdicts` lets the head
cross the fork only forward: with reorganisations `AdmittedValid` does not
hold, as the next section says. `ProofProduction` lets it cross
forward only too, and every transaction has its witnesses published.

## 4. Where the code departs from what it says

* **Two submissions of one transaction share one pin.** `PinPending` answers yes
  when the entry exists. If the first submission's insertion fails, or its
  transaction is removed, its unpin takes the entry away before the second has
  inserted, and the pool then holds a transaction whose witness may be evicted.
  Run `admission_twice`.
* **A late proof of the old program becomes the wrapper on offer.** A producer
  that was proving when the head activated the new program adds its proof to the
  cache after the builder has cleared it. The builder does not verify what it
  finds there, so it offers peers a wrapper they reject, until the group changes.
  Blocks are not affected: `PrepareProductionProof` verifies what it finds and
  removes it (`BlockProofFresh` holds). Run `production_late`.
* **After the activation a stuck group starves the others.** Selection always
  starts with the earliest arrivals, so when these fill a group and never enter a
  block, the grace period ends only for the same group to be selected again. The
  rotation that prevents this before the activation is not used. Run
  `production_starved`.

* **The engine may hear of a past head.** `update_execution_engine_forkchoice`
  takes the head from parameters that were read before it asked for the lock, so
  two tasks may tell the engine of their heads in the other order. The comment on
  that lock promises the opposite. Run `engine_order`.

More departures came up while modelling. They have no run of their own; the
modules contain the behaviour, except for what the notifier logs.

* **A call of `AddVerified` may uncover what it was asked to cover.** It decides
  which dependencies are missing, pins only the records for these, and makes
  room (`LeanProofStore.cs:305`). Making room may evict the record of another
  dependency of the same call, which stays uncovered even when the record just
  stored proves it. In this repository only tests call `AddVerified`. In the
  model this is a step of `AddVerified` after which a dependency in `S` has no
  coverage.
* **A verdict may be recorded under the wrong program.** The key holds the
  program read before verification, the verdict that of the head during
  verification, and it is recorded before the program is compared
  (`ProofWrapperService.cs:80-102`). The wrapper at hand is then sent away, but a
  later one with the same key meets the wrong verdict. Going forward this only
  rejects a wrapper needlessly or lies unused; after a reorganisation that
  crosses the fork backwards it admits one. Replacing `Forward` in `MCConsensus` by
  a relation of both directions shows it as a violation of `AdmittedValid`.
* **The search for the next fork stops too early.** `find_next_fork_to_prepare`
  walks the forks from the end of their list, which begins with Daisugi, and
  stops at the first one the head has reached (`L/beacon_node/client/src/notifier.rs:478`).
  A head on Fulu has reached Daisugi by the order of names, so from Fulu on the
  notifier finds no fork to prepare for, not even Gloas.
* **Readiness for Gloas leaves out a method.** The notifier does not require the
  fourth version of `forkchoiceUpdated` (`notifier.rs:565`), with which
  attributes of Gloas are sent. `ReadyServes` is therefore stated for payload
  calls only.
* **The announced version is that of the first of several forks.** When the next
  epoch starts several forks at once, the ENR names the version of the first in
  the list (`chain_spec.rs:376`), while the chain goes on with the last.
  `NextForkTrue` allows either.
* **A pooled transaction may be submitted again.** With a subscriber of `Inserted`
  that throws, the pool keeps the transaction but its hash does not reach the
  long-term cache (`TxPool.cs`), so after a new head it may be submitted, and
  pooled, once more, without its pin. `PooledStayProvable` assumes that none throws.
* **One reader of blocks does not try Daisugi.** `BeaconBlock::any_from_ssz_bytes`
  ("Try decoding each beacon block variant in sequence",
  `L/consensus/types/src/block/beacon_block.rs:155`) leaves it out. Nothing in
  this repository calls it.
* **Readers that know no fork take another one.** The store's reader of payloads
  answers Fulu for bytes of Deneb or Electra, which have the same layout, and the
  reader of the engine's JSON overlooks fields it does not know. `FormsReturn`
  says what is left: the fields are the same, or a block of it does not verify.
* **A hash of Gloas is not whole.** What `block_hash.rs` computes of a payload of
  Gloas leaves out its access list and its slot.
* **The proof of commitments is of another field at Gloas.** Its index, 11, is the
  place of the payload attestations there, and that of the payload, 9, of the
  changes of credentials. Neither is asked of a block of Gloas.
* **An update across a fork has no finality.** When the finalized block is of an
  older form than the attested one, an update takes a default header with the real
  branch (`light_client_update.rs:185`), which no client can verify, and a finality
  update is an error until a block of the new form is finalized.
* **Some limits are below what is sent.** Before Capella the limit of
  `LightClientUpdatesByRange` is that of a finality update
  (`rpc/protocol.rs:174`); the longest update of Bellatrix is counted as 0
  (`light_client_update.rs:521`); a schedule that lowers the blobs of a block makes
  earlier columns exceed the limit (`protocol.rs:741`). `RefusalsJustified` names
  the first and the last as its exceptions, and lengths of updates are not
  modelled otherwise. The same request announces one response where
  `max_responses` allows its count.
* **The payload that is prepared may not be the one asked for.** After a payload of
  Gloas that never came, `get_expected_withdrawals` of `beacon_chain.rs:5030`
  computes the next round of withdrawals for the attributes, while the production
  carries those of the missed payload forward (`gloas.rs:993`). The engine then
  builds anew. `PreparedAgrees` leaves this case out.
* **The randomness of a re-orged proposal.** From Gloas on the attributes take the
  head's randomness even when the parent is built on (`beacon_chain.rs:5001`, a TODO
  there). `AttributesFit` says so.
* **A slot that is no number of seconds is accepted but not read again.** A file
  may give the length of a slot in milliseconds only; what is written out of the
  configuration has both units, which then disagree, and is refused.
  `SpecsReturn` names it as its exception.
* **The reader by slot takes blobs for a slot.** `FullBlockContents::from_ssz_bytes`
  (`L/common/eth2/src/types.rs:1882`) reads the slot where a block begins, but where
  blobs follow the bytes begin with offsets, so it takes the newest scheduled fork.
  Requests in JSON before Gloas are read as contents of whichever kind fits.
* **Two tests do not count Daisugi.** The tests of payloads by fork in the same file
  list every fork but Daisugi and compare the number with `ForkName::list_all()`.
* **Proposers may be asked for too early.** `compute_proposer_indices` answers at
  the dependent slot, before that epoch is processed, and a state from before Fulu
  answers for an epoch of Fulu without the check of the lookahead
  (`beacon_state.rs:1149`). `Asked` leaves out both, which no caller here does.

## 5. What TLAPS proves

For every value of the constants that satisfies the named assumptions
(`FiniteAssumption`, `NoneAssumption`, `HolderAssumption`, `RecordAssumption`,
`TxAssumption`, `BytesAssumption`, `LimitAssumption`, `AdmissionAssumption`,
`ReservationAssumption`):
the sets are finite, kinds of holders are disjoint, sizes add up over disjoint
sets of records, and each flow has reservations of its own.

`LeanProofStoreProofs`:

* `TypeCorrectness`, `PinsAccounted`, `HeldNeverEvicted`,
  `CoverageLeadsToWitness`, `CoverageCountExact`, `BytesWithinLimit`,
  `SenderWithinLimits`. They rest on one inductive invariant `IInv`, their
  conjunction with the fact that each table a holder has maps a dependency to a
  record that proves it. None of them is inductive alone. That nothing held is
  evicted needs exact pins, since eviction looks at pins only. Exact coverage
  counts need sound coverage, since `Remove` looks only at the dependencies of
  the record it removes, and this in turn needs sound tables, since they are what
  is published. That types hold (no pin count goes below zero) needs exact pins
  and an exact sender ledger. `NextIInv` has one lemma for each action;
  the lemmas about `Published`, `Recounted`, `Uncovered`, `Evicted`, `Replace`
  and about taking and releasing pins and sender charges come first.
* `PinnedCoverageNeverMoves`, the action property, from `IInv`.

`ProofAdmissionProofs`:

* `AdmissionImplementsStore`: every behaviour of `ProofAdmission` is a behaviour
  of `LeanProofStore`, variable by variable. Each step is an operation of the
  store or leaves it alone; what has to be shown is that a flow calls an
  operation only with arguments it may have, which follows from `FlowIInv`: the
  stage of a flow determines whether it is inside the gate, and whether it has a
  transaction, a wrapper and a scope.
* `AdmissionKeepsWitnesses` follows, and every other theorem of the store carries
  over in the same way.
* `AdmissionTypeCorrect`: the gate, the wrapper and the scope of a flow agree.
* `DisposedPoolHoldsNothing`: with `DisposedIInv`, that in a disposed pool no
  flow stands between the lock and the end of the filters. It needs no
  assumption on `Duplicates` or `Throws`.

`ProversProofs`, under `TreeAssumption` (finite sets of claims of two
disjoint kinds, a leaf size no larger than a call takes, limits that are natural
numbers; nothing about their order), `NoOneAssumption` and `NobodyAssumption` (the
name for nobody is nobody's):

* `TreeTyped`, `CallsArePrepared`, `NoClaimLost`, `LeavesAreNew`,
  `LevelsAreNarrow`, and their sum `TreeIsSound`. The inductive invariant
  `TreeInv` adds `Working`: while the tree is made, every claim that waits for
  its leaf was asked for, every node is itself within the limits of a proof and
  proves something asked for, and nothing is lost. None is inductive without
  it: that the next call is within the limits needs the nodes to be within them,
  and what a leaf may select needs its claims to be asked for.
* `ProversAreSound`, for any number of callers, processes and threads. `WorkerInv`
  says what is in the pipes at each stage of an exchange: nothing while nobody
  holds the gate (`Quiet`), the parts of the holder's request that the child has
  not read while it asks, the parts of its answer afterwards (`InExchange`,
  `InProof`). That a proof is the caller's own is not inductive without this, since
  nothing in the pipes says whose it is. `NativeInv` ties the lock of the prover to
  the one call that proves, and the register to the threads inside, which stay
  finitely many whatever `Thread` is.

`CoverageIsExact` and `LimitsAreKept` sum up theorems of the store as the runs
state them.

`LeanProofStoreProofs` also has `ListIsBounded`. `ListIInv` adds that the list is
injective and has exactly the identities as its elements; that its length stays
within the limit then follows from `Victims`: a record is appended only once
enough of the older ones have been taken out. It needs what is left of a sequence
when some of its elements are taken out, which is what `SubsequenceProofs` is for.

`SubsequenceProofs`: `Subsequences` names the places of a sequence that are kept,
so that its lemmas are about counting places, not about the recursion of
`SelectSeq`. `IntervalInduction` is induction up to a number stated over a *set*
(the set of places at which a claim holds), by the well-foundedness of strict
subsets of a finite set; the library's theorems take a predicate and cannot be
instantiated here. From it come `FoldExists` (a function with the equations of a
fold exists) and `FoldKeeps` (what the base has and each step keeps, the fold has).

`ProofAdmissionProofs`, second part, with `ReservationAssumption` (reservations of
two flows are distinct):

* `SubmissionsEndClean`: `InterruptionsClean`, for `Duplicates` and `Throws` of
  either value. Its invariant `CleanIInv` gives a reason for every pin and every
  reservation: in an open pool an entry is pinned because a flow is submitting the
  transaction, or the pool has it, or its removal is being delivered; a reservation
  is in use only by a flow that has a transaction in hand. A pinned entry is for
  exactly the dependencies of its transaction (`PendingTables`); what it pins is
  published, or is about to be by the flow that submits it (`PublicationsAgree`);
  and past the filters a flow has reserved the records it will pin
  (`ChargeHolds`).
* `PooledStayProvable`: `PooledProvable`, assuming `~Duplicates` and `~Throws`, each
  of which breaks it (sections 2 and 4). `OnceIInv` says that a transaction has one
  flow at a time (`Single`), that one flow evicts at a time (the lock), that past the
  filter of known transactions the pool does not have it, that what the pool has is
  known or about to be, and that a flow holds the pin it inserts with.

`ConsensusClientProofs`: `VerdictsAreSound`, under `VerdictAssumption` and `Forward`:
there is a rank that rises with every change of program. The rank is what makes
the second look at the program conclusive: the program a flow read, the one its
verdict was found under and the one of the recheck are in order, so equal ends
mean that it was the same throughout. Without `Forward` the property is false
(section 4). Then, each from an invariant of its own:

* `CallsOfTheEngine`, under `AsksAssumption` (calls are of the kinds the code has).
  `MethodInv` says of each listing that is stored or in use that the engine of its
  start said it (`Said`), and at each stage of a call how old its listing may be
  (`CallFits`): the lock of the cache is what keeps a clearing from falling between
  an exchange and the moment its answer is stored.
* `StreamsAreSound`, under `StreamAssumption` (requests are rows of blocks, a chunk is
  not empty). `StreamInv` counts: the bodies that came and the places still to be
  asked for add up to the blocks that lack a payload (`BodiesCounted`), so that each
  body taken from the front is the one of the block it is taken for; and what was
  sent, what is loaded and what is left are the request, in order (`RootsAccounted`).
* `ImportsAreSound`, under `ImportAssumption` (the signature of genesis is not bad),
  for any tree of blocks and any number of failures. `ImportInv` says that what
  is persisted of fork choice is on disk, that neither has gaps (`Grounded`), that the
  task in the stage of writing is the one that has the lock, and what has been
  checked of each task's blocks at its stage (`Verified`). The proof showed that the
  invariant does not survive a restart after fork choice could not be read back,
  which one failure in the run never reaches: that case is now in `corrupt`, as above.

`LeanProtocolHandlerProofs`: `HandlerIsSound`. `IInv` says who owns the receive slot
(`SlotOwned`: the network thread or one task, and before disposal exactly while the
flag says so), that no message
is in two places (`Apart`), and that the messages that came and were not given back
are exactly the ones some place holds (`Accounted`).

`LeanProofGossipProofs`, under `GossipAssumption` (finitely many peers, a memory of
at least one wrapper, and names of different kinds that differ):

* `GossipIsSound`. `GInv` ties each task to what it works for (`OwnersOf`), a publication
  under way to the wrapper it offers (`Publishing`), and disposal to the tasks it
  waits for (`Closed`). That a worker can be started whenever something waits needs
  a free task among as many as there are peers and one more, which a pigeonhole
  lemma finds.
* `GossipImplementsFeed`: each step is a step of `WrapperFeed` or stutters, from `GInv`.
  This is the safety part; that wrappers arrive is left to TLC.

`ProofProductionProofs`, under the assumptions of `ProofProduction` (positive limits,
finite sets of dependencies and producers, an injective order):

* `ProductionTyped`, `ProducersAreSound`, `WrapperIsWithinLimit`, from one invariant
  `PInv`. `ProducerInv` says that the program a producer started with is not newer
  than that of the head nor than that of the proof it got, which the count of
  waiting producers does not give. `BuildFits` carries the limit from the selection
  to the wrapper across a change of program, and rests on `Chosen`, a fold, whose
  result fits because each step of the fold keeps that it does (`FoldKeeps`).

**Only model-checked.** `ProofCodec` (`CodecsSound`), and these modules of the
consensus client: `EngineForkchoice`, `PayloadChoice`, `ForkSchedule`, `ChainHistory`,
`BlockProduction`, `ReqResp`, `GossipTopics`, `PayloadForms`, `BlockForms`,
`StateDuties`, `ExitChurn`, `LightClient`. Most of these are about
finite tables of forks and fields, for which the run is the argument. Liveness
(`ProducerServed`, `EveryTransactionWrapped`, `WorkEnds`, `MessagesReleased`, `CallsEnd`)
and `ENABLED` are out of the prover's reach.

## 6. Plan

Done, each with its instance and runs: the store, admission, verdicts,
production, gossip and the handler with their proofs; the prover worker, the native
provers and the tree with theirs; the consensus client as far as section 2 goes, with
proofs about its streams, engine calls and imports.

Left, in this order:

1. The composition of `LeanProtocolHandler` with the gate of `WrapperVerdicts`.
2. `AdaptiveBatchPolicy` over integer ticks; the totals of `ProductionProofCache`.
3. The picker and executor, with the algebra of combining proofs
   (`RecursiveStarkAggregator.Combine`, discards) as operators checked against a
   reference definition.
4. The wallet: `TransferScan` (the forward and backfill cursors of
   `incoming-tx-poller.js` over blocks that fail to load) and `WalletSends` (the
   queue, the signing lock with its expiry, the history of activities).
5. `PortalRelease` and the faucet.

Not modelled, and not planned: the arithmetic of the proof systems (WHIR, sumcheck,
the circuits: numeric code beyond a model checker), the types of Lighthouse's HTTP
API and the accessors of its containers (structural), its test utilities with a mock
engine and builder, the handling of data columns in `beacon_chain.rs` 3264 to 4188
beyond what `BlockImport` has, frame transactions (sequential and covered by
upstream tests), the explorer and the bundler (no shared state), and the codecs of
inclusion lists.
