---------------------------- MODULE BlockStreamer ----------------------------
(***************************************************************************)
(* Streaming blocks by root, from beacon_block_streamer.rs.                *)
(*                                                                         *)
(* Blocks whose payload is not in the database are rebuilt from bodies the *)
(* execution layer is asked for, a chunk of hashes at a time.  A body      *)
(* carries no root: it meets its block by its place in the answer, and the *)
(* header that comes out must be the one the block committed to.           *)
(***************************************************************************)
EXTENDS Subsequences

CONSTANTS
  BlockRoot,    \* blocks; the payload of a block is identified with its root
  RootRequests, \* the rows of roots peers ask for
  Stored,       \* Stored[r]: "missing", "full", "blinded", "empty" (zero hash) or "broken"
  Chunk,        \* MAX_PAYLOAD_BODIES_PER_REQUEST
  NoBody        \* the entry for a payload the execution layer does not have

ASSUME StreamAssumption ==
  /\ RootRequests \subseteq Seq(BlockRoot) /\ NoBody \notin BlockRoot /\ Chunk \in Nat \ {0}
  /\ Stored \in [BlockRoot -> {"missing", "full", "blinded", "empty", "broken"}]

VARIABLES
  streaming,  \* "idle", "asking", "loading", "fetching", "sending", "fallback", "ended"
  asked,      \* the request
  roots,      \* roots that are not loaded, or not sent, yet
  loaded,     \* what was loaded, in order: [root, result], "payload" where it lacks one
  bodies,     \* the bodies fetched so far
  unanswered, \* places of loaded whose bodies are still to be fetched
  sent,       \* what went into the channel: [root, result]
  fetched,    \* "yes", or "error" when the execution layer failed
  lost,       \* the task that loads did not finish
  listening,  \* the receiver of the channel exists
  inCaches    \* blocks that are being imported, or were a moment ago

streamVars ==
  <<streaming, asked, roots, loaded, bodies, unanswered, sent, fetched, lost, listening, inCaches>>

BlockOf(r) == [kind |-> "block", of |-> r]
NoBlock == [kind |-> "none", of |-> NoBody]
Error == [kind |-> "error", of |-> NoBody]
NeedsPayload == [kind |-> "payload", of |-> NoBody]
Item(r, result) == [root |-> r, result |-> result]

RootsOf(items) == [i \in DOMAIN items |-> items[i].root]

(* The places of blocks whose payload is still to be had. *)
Lacking(items) == {i \in DOMAIN items : items[i].result = NeedsPayload}

StreamInit ==
  /\ streaming = "idle"
  /\ asked = <<>> /\ roots = <<>> /\ loaded = <<>> /\ bodies = <<>> /\ unanswered = <<>> /\ sent = <<>>
  /\ fetched = "yes" /\ lost = FALSE /\ listening = TRUE
  /\ inCaches = {}
-----------------------------------------------------------------------------
LaunchStream ==
  /\ streaming = "idle"
  /\ asked' \in RootRequests /\ roots' = asked'
  /\ streaming' = "asking"
  /\ UNCHANGED <<loaded, bodies, unanswered, sent, fetched, lost, listening, inCaches>>

(* Blocks enter and leave the caches of import while a stream runs. *)
CachesChange ==
  /\ streaming \in {"asking", "loading", "fallback"}
  /\ \E r \in BlockRoot : inCaches' = IF r \in inCaches THEN inCaches \ {r} ELSE inCaches \cup {r}
  /\ UNCHANGED <<asked, streaming, roots, loaded, bodies, unanswered, sent, fetched, lost, listening>>

(* get_engine_capabilities: bodies by hash, none of that, or an error, which
   becomes the result of every root (send_errors). *)
GetCapabilities ==
  /\ streaming = "asking"
  /\ \/ streaming' = "loading" /\ UNCHANGED <<loaded, roots>>
     \/ streaming' = "fallback" /\ UNCHANGED <<loaded, roots>>
     \/ /\ streaming' = "sending"
        /\ loaded' = [i \in DOMAIN roots |-> Item(roots[i], Error)]
        /\ roots' = <<>>
  /\ UNCHANGED <<asked, bodies, unanswered, sent, fetched, lost, listening, inCaches>>

(* load_block; a block with the zero hash is rebuilt from the default payload. *)
Load(r) ==
  CASE r \in inCaches -> BlockOf(r)
    [] r \notin inCaches /\ Stored[r] = "missing" -> NoBlock
    [] r \notin inCaches /\ Stored[r] = "broken" -> Error
    [] r \notin inCaches /\ Stored[r] \in {"full", "empty"} -> BlockOf(r)
    [] r \notin inCaches /\ Stored[r] = "blinded" -> NeedsPayload

LoadBlock ==
  /\ streaming = "loading" /\ roots # <<>>
  /\ loaded' = Append(loaded, Item(Head(roots), Load(Head(roots))))
  /\ roots' = Tail(roots)
  /\ UNCHANGED <<asked, streaming, bodies, unanswered, sent, fetched, lost, listening, inCaches>>

(* The blocking task is gone: the stream ends with nothing in it. *)
LoadFails ==
  /\ streaming = "loading"
  /\ streaming' = "ended" /\ lost' = TRUE
  /\ UNCHANGED <<asked, roots, loaded, bodies, unanswered, sent, fetched, listening, inCaches>>

Loaded ==
  /\ streaming = "loading" /\ roots = <<>>
  /\ streaming' = "fetching"
  /\ unanswered' = PartAt([i \in DOMAIN loaded |-> i], Lacking(loaded))
  /\ UNCHANGED <<asked, roots, loaded, bodies, sent, fetched, lost, listening, inCaches>>

ThisChunk == SubSeq(unanswered, 1, IF Len(unanswered) < Chunk THEN Len(unanswered) ELSE Chunk)

(* Mutant of RightLength: a short answer is taken. *)
AnyLength(answer) == TRUE

RightLength(answer) == Len(answer) = Len(ThisChunk)

(* One chunk: bodies in the order asked for, each perhaps missing or wrong, or
   too many or too few of them, or no answer. *)
FetchChunk ==
  /\ streaming = "fetching" /\ unanswered # <<>>
  /\ \/ \E n \in 0..(Len(ThisChunk) + 1), odd \in 0..(Len(ThisChunk) + 1), body \in BlockRoot \cup {NoBody} :
          LET answer == [i \in 1..n |-> IF i = odd \/ i > Len(ThisChunk) THEN body
                                        ELSE loaded[ThisChunk[i]].root]
          IN IF RightLength(answer)
             THEN /\ bodies' = bodies \o answer
                  /\ unanswered' = SubSeq(unanswered, Len(ThisChunk) + 1, Len(unanswered))
                  /\ UNCHANGED <<fetched, streaming>>
             ELSE fetched' = "error" /\ streaming' = "sending" /\ UNCHANGED <<bodies, unanswered>>
     \/ fetched' = "error" /\ streaming' = "sending" /\ UNCHANGED <<bodies, unanswered>>
  /\ UNCHANGED <<asked, roots, loaded, sent, lost, listening, inCaches>>

FetchedAll ==
  /\ streaming = "fetching" /\ unanswered = <<>>
  /\ streaming' = "sending"
  /\ UNCHANGED <<asked, roots, loaded, bodies, unanswered, sent, fetched, lost, listening, inCaches>>

(* Mutant of Reconstruct: the header that comes out is not compared. *)
ReconstructUnchecked(r, body) == IF body = NoBody THEN Error ELSE BlockOf(body)

(* reconstruct_block. *)
Reconstruct(r, body) == IF body = r THEN BlockOf(r) ELSE Error

(* Mutant of SharedError: a failure leaves the blocks out of the answer. *)
SharedAsMissing == NoBlock

SharedError == Error

(* Mutant of Send: a block that was not found is skipped. *)
SendFound(item) ==
  IF item.result = NoBlock THEN UNCHANGED <<sent, streaming>>
  ELSE sent' = Append(sent, item) /\ UNCHANGED streaming

(* The channel refuses a result once its receiver is gone, and the task stops. *)
Send(item) ==
  IF listening THEN sent' = Append(sent, item) /\ UNCHANGED streaming
  ELSE streaming' = "ended" /\ UNCHANGED sent

(* Bodies are taken from the front, one for each block that needs a payload. *)
SendLoaded ==
  /\ streaming = "sending" /\ loaded # <<>>
  /\ LET item == Head(loaded)
         needs == item.result = NeedsPayload
     IN /\ Send(IF ~needs THEN item
                ELSE Item(item.root,
                          IF fetched = "error" THEN SharedError
                          ELSE Reconstruct(item.root, IF bodies = <<>> THEN NoBody ELSE Head(bodies))))
        /\ bodies' = IF needs /\ bodies # <<>> THEN Tail(bodies) ELSE bodies
  /\ loaded' = Tail(loaded)
  /\ UNCHANGED <<asked, roots, unanswered, fetched, lost, listening, inCaches>>

(* stream_blocks_fallback: one root at a time, caches first, then get_block,
   which asks the execution layer for the whole block. *)
FallbackResult(r) ==
  IF Load(r) = NeedsPayload THEN {BlockOf(r), Error} ELSE {Load(r)}

SendFallback ==
  /\ streaming = "fallback" /\ roots # <<>>
  /\ \E result \in FallbackResult(Head(roots)) : Send(Item(Head(roots), result))
  /\ roots' = Tail(roots)
  /\ UNCHANGED <<asked, loaded, bodies, unanswered, fetched, lost, listening, inCaches>>

(* Mutant of StreamEnds: the fallback leaves the channel open. *)
StreamEndsAfterLoading ==
  /\ streaming = "sending" /\ loaded = <<>>
  /\ streaming' = "ended"
  /\ UNCHANGED <<asked, roots, loaded, bodies, unanswered, sent, fetched, lost, listening, inCaches>>

StreamEnds ==
  /\ \/ streaming = "sending" /\ loaded = <<>>
     \/ streaming = "fallback" /\ roots = <<>>
  /\ streaming' = "ended"
  /\ UNCHANGED <<asked, roots, loaded, bodies, unanswered, sent, fetched, lost, listening, inCaches>>

ReceiverDropped ==
  /\ listening /\ streaming \notin {"idle", "ended"}
  /\ listening' = FALSE
  /\ UNCHANGED <<asked, streaming, roots, loaded, bodies, unanswered, sent, fetched, lost, inCaches>>

StreamSteps ==
  \/ GetCapabilities \/ LoadBlock \/ Loaded \/ FetchChunk \/ FetchedAll
  \/ SendLoaded \/ SendFallback \/ StreamEnds

StreamNext == LaunchStream \/ CachesChange \/ StreamSteps \/ LoadFails \/ ReceiverDropped

StreamSpec == StreamInit /\ [][StreamNext]_streamVars /\ WF_streamVars(StreamSteps)
-----------------------------------------------------------------------------
(* A block that is sent for a root is the block of that root, whatever bodies
   the execution layer sent back and in whatever order. *)
ResultBelongs ==
  \A i \in DOMAIN sent : sent[i].result.kind = "block" => sent[i].result.of = sent[i].root

(* "Not found" is said only of blocks the database does not have: a payload that
   could not be fetched is an error, so a peer never takes the answer for complete. *)
MissingIsMissing ==
  \A i \in DOMAIN sent : sent[i].result = NoBlock => Stored[sent[i].root] = "missing"

(* A body is left for every block that still waits for one, and for no other:
   positions in the answer never shift, whichever blocks came out of caches. *)
BodiesAligned ==
  streaming = "sending" /\ fetched = "yes" /\ ~lost =>
    Len(bodies) = Cardinality(Lacking(loaded))

(* Unless the receiver leaves or loading is lost, every root that was asked for
   gets one result, in the order of the request: none is skipped on the way from
   the request through the database and the execution layer to the channel. *)
RootsAccounted ==
  listening /\ ~lost =>
    /\ RootsOf(sent) \o RootsOf(loaded) \o roots = asked
    /\ streaming = "ended" => loaded = <<>> /\ roots = <<>>

(* Every root a peer asked for gets one result, in order, and it is its own:
   "not found" only where the database has no block, and bodies from the
   execution layer never shift against the blocks that wait for them. *)
StreamSound == ResultBelongs /\ MissingIsMissing /\ BodiesAligned /\ RootsAccounted

Launched == streaming = "asking"
StreamOver == streaming = "ended"

(* A stream that was launched ends. *)
StreamsEnd == Launched ~> StreamOver
=============================================================================
