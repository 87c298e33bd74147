------------------------------ MODULE ReqResp ------------------------------
(***************************************************************************)
(* A request to a peer of the consensus client and the chunks of its       *)
(* answer, byte stream by byte stream (codec.rs), with the protocols,      *)
(* limits and terminations protocol.rs gives them.                         *)
(*                                                                         *)
(* A stream is a sequence of pieces: the response code is one byte, the    *)
(* context (a fork digest) two, the varint of the length one, the          *)
(* compressed body two, or none if the length is zero.  A decoder may be   *)
(* called after any of them.  The limits of a chunk are those of the       *)
(* receiver's current fork, while its container is that of its context.    *)
(*                                                                         *)
(* Lengths keep the order of the real ones.  The handler that owns the     *)
(* streams, the database the chunks come from, and the clock are external. *)
(***************************************************************************)
EXTENDS Forks

CONSTANTS
  Schedules,          \* configurations of the network
  LastEpoch,          \* a bound: the clock stops here
  Counts,             \* how many items a request may ask for
  Builds,             \* who may answer: an older build? a light client server?
  MaxChunks,          \* a bound: chunks per answer
  RequestBlocks,      \* MAX_REQUEST_BLOCKS, before Deneb
  RequestBlocksDeneb  \*                     and from Deneb on, no more than before

VARIABLES
  config, now,        \* the schedule and the clock of both nodes
  peer,               \* who answers
  phase,              \* "idle", "calling", "answering", "done", "failed"
  why,                \* why the stream failed
  request, version,   \* what is asked, and the negotiated version
  wire, buf,          \* pieces on their way, and in the decoder's buffer
  dec,                \* the state of the decoder
  asked,              \* the request the peer decoded
  sent, closed,       \* its chunks so far, and whether it ended the stream
  got                 \* the chunks decoded

rpcVars == <<config, now, peer, phase, why, request, version, wire, buf, dec, asked, sent, closed, got>>

Blocks == {"BlocksByRange", "BlocksByRoot", "BlocksByHead"}
Envelopes == {"PayloadEnvelopesByRange", "PayloadEnvelopesByRoot"}
Blobs == {"BlobsByRange", "BlobsByRoot"}
Columns == {"DataColumnsByRange", "DataColumnsByRoot"}
Light == {"LightClientBootstrap", "LightClientOptimisticUpdate",
          "LightClientFinalityUpdate", "LightClientUpdatesByRange"}
Alone == {"Status", "Ping", "MetaData"}
ByRoot == {"BlocksByRoot", "PayloadEnvelopesByRoot", "BlobsByRoot", "DataColumnsByRoot"}
Several == Blocks \cup Envelopes \cup Blobs \cup Columns

RequestType == Several \cup Light \cup Alone \cup {"Goodbye"}

\* Requests without content: the stream is handed on without reading it.
Silent == {"MetaData", "LightClientOptimisticUpdate", "LightClientFinalityUpdate"}

\* supported_protocols: the versions to dial with, the preferred ones first.
Versions(t) ==
  CASE t = "MetaData" -> <<3, 2, 1>>
    [] t \in {"Status", "BlocksByRange", "BlocksByRoot"} -> <<2, 1>>
    [] OTHER -> <<1>>

\* protocol_info: the protocols a node listens on.
Listens(c, server) ==
  {<<t, v>> \in RequestType \X (1..3) :
     /\ v \in ToSet(Versions(t))
     /\ v = 3 => c.epoch["fulu"] # Never
     /\ t \in Blobs => c.epoch["deneb"] # Never
     /\ t \in Columns \cup {"BlocksByHead"} => c.epoch["fulu"] # Never
     /\ t \in Envelopes => c.epoch["gloas"] # Never
     /\ t \in Light => server}

\* An older build does not know the last versions (external).
Known(p, t, v) == p.old => v = 1 \/ (t = "MetaData" /\ v = 2)

Common(c, p, t) == SelectSeq(Versions(t), LAMBDA v : <<t, v>> \in Listens(c, p.server) /\ Known(p, t, v))

HasContext(t, v) == t \in Several \cup Light /\ ~(t \in {"BlocksByRange", "BlocksByRoot"} /\ v = 1)

MaxResponses(r) ==
  CASE r.type = "Goodbye" -> 0
    [] r.type \in Several \cup {"LightClientUpdatesByRange"} -> r.count
    [] OTHER -> 1

ExpectExactlyOne(t) == t \in Alone \cup Light

\* stream_termination, defined only where several chunks may come.
StreamTermination == [t \in Several |-> t]

Terminator(t) == IF t \in Several THEN t ELSE "none"

-----------------------------------------------------------------------------
(* Lengths of containers, least and most, and the limits on them.          *)
BlockLengths(f) ==
  CASE f = "base"   -> <<1, 4>>
    [] f = "altair" -> <<2, 5>>
    [] f = "gloas"  -> <<3, 6>>
    [] OTHER        -> <<3, 40>>

MaxPacket == 30

LightRank(f) == [altair |-> 0, bellatrix |-> 0, capella |-> 1, deneb |-> 2,
                 electra |-> 3, fulu |-> 3, daisugi |-> 4][f]

\* Updates of the committee are longer than the other three by as much as it.
Committee(t) == IF t = "LightClientUpdatesByRange" THEN 10 ELSE 0

LightLengths(t, f) == <<2 + LightRank(f) + Committee(t), 2 + 2 * LightRank(f) + Committee(t)>>

ColumnLength(f, blobs) == (IF f = "gloas" THEN 1 ELSE 3) + blobs

VersionLength(t, v) == IF t = "Ping" THEN 1 ELSE v

(* Mutant of RpcBlockLimits: the blocks of the current fork only. *)
RpcBlockLimitsOfFork(f) == BlockLengths(f)

RpcBlockLimits(f) ==
  <<BlockLengths("base")[1],
    CASE f = "base"   -> BlockLengths("base")[2]
      [] f = "altair" -> BlockLengths("altair")[2]
      [] OTHER        -> BlockLengths("bellatrix")[2]>>

\* The least length is that of Altair's finality update, for all but the
\* bootstrap and the optimistic update; before Capella it is the most, too.
RpcLightLimits(t, f) ==
  CASE f = "base" -> <<0, 0>>
    [] f \in {"altair", "bellatrix"} -> <<2, 2>>
    [] f \in {"electra", "fulu", "gloas"} -> <<2, LightLengths(t, "electra")[2]>>
    [] OTHER -> <<2, LightLengths(t, f)[2]>>

RpcDataColumnLimits(c, e) ==
  <<ColumnLength(NameAt(c, e), 1), ColumnLength("fulu", MaxBlobs(c, e))>>

ResponseLimits(c, e, t) ==
  CASE t \in Blocks  -> RpcBlockLimits(NameAt(c, e))
    [] t \in Light   -> RpcLightLimits(t, NameAt(c, e))
    [] t \in Columns -> RpcDataColumnLimits(c, e)
    [] t \in Envelopes \cup Blobs -> <<7, 7>>
    [] t = "Goodbye" -> <<0, 0>>
    [] t = "Ping"    -> <<1, 1>>
    [] OTHER         -> <<1, 3>>

ErrorLimits == <<0, 2>>

RequestLimits(t) ==
  CASE t \in ByRoot -> <<0, RequestBlocks>>
    [] t \in Silent -> <<0, 0>>
    [] OTHER        -> <<1, 1>>

MaxRequestBlocks(f) == IF Enabled(f, "deneb") THEN RequestBlocksDeneb ELSE RequestBlocks

-----------------------------------------------------------------------------
(* Encoding.                                                               *)
MaxCompressed == 2

\* The pieces of a body name the item; a broken body decompresses to less than
\* its length says.
Body(item, broken) ==
  [i \in 1..MaxCompressed |-> [k |-> IF broken \/ i < MaxCompressed THEN "body" ELSE "end", v |-> item]]

Sized(n, item, broken) ==
  <<[k |-> "length", v |-> n]>> \o (IF n = 0 THEN <<>> ELSE Body(item, broken))

EncodeRequest(r) ==
  IF r.type \in Silent THEN <<>>
  ELSE Sized(IF r.type \in ByRoot THEN r.count ELSE 1, 1, FALSE)

ContextBytes(c, t, v, chunk) ==
  IF HasContext(t, v) /\ chunk.ok
  THEN [i \in 1..2 |-> [k |-> "context", v |-> Digest(c, chunk.epoch)]]
  ELSE <<>>

EncodeResponse(c, t, v, chunk, item) ==
  <<[k |-> "code", v |-> IF chunk.ok THEN "success" ELSE "error"]>>
    \o ContextBytes(c, t, v, chunk) \o Sized(chunk.size, item, chunk.broken)

-----------------------------------------------------------------------------
(* Decoding, stage after stage, as far as the buffer reaches.              *)
NewDecoder == [code |-> "none", fork |-> "none", len |-> -1]

Start == [dec |-> dec, buf |-> buf, out |-> "go", item |-> 0]

Stopped(s, o) == [s EXCEPT !.out = o]

TakeCode(s) ==
  IF Len(s.buf) <= 1 THEN Stopped(s, "wait")
  ELSE IF s.dec.code # "none" THEN s
  ELSE IF Head(s.buf).k # "code" THEN Stopped(s, "garbled")
  ELSE [s EXCEPT !.dec.code = Head(s.buf).v, !.buf = Tail(@)]

\* get_fork_from_context_bytes (external) knows the digests of the schedule.
ForksOf(c, digest) == {NameAt(c, e) : e \in {d \in DigestEpochs(c) : Digest(c, d) = digest}}

TakeContext(c, t, v, s) ==
  IF s.out # "go" \/ s.dec.code = "error" \/ ~HasContext(t, v) \/ s.dec.fork # "none" THEN s
  ELSE IF Len(s.buf) < 2 THEN Stopped(s, "wait")
  ELSE IF \E i \in 1..2 : s.buf[i].k # "context" THEN Stopped(s, "garbled")
  ELSE IF ForksOf(c, s.buf[1].v) = {} THEN Stopped(s, "context")
  ELSE [s EXCEPT !.dec.fork = CHOOSE f \in ForksOf(c, s.buf[1].v) : TRUE,
                 !.buf = SubSeq(@, 3, Len(@))]

HandleLength(s) ==
  IF s.out # "go" \/ s.dec.len >= 0 THEN s
  ELSE IF s.buf = <<>> THEN Stopped(s, "wait")
  ELSE IF Head(s.buf).k # "length" THEN Stopped(s, "garbled")
  ELSE [s EXCEPT !.dec.len = Head(s.buf).v, !.buf = Tail(@)]

OutOfBounds(limits, n) == n < limits[1] \/ n > limits[2] \/ n > MaxPacket

\* The reader sees no more than the longest compression of the length.
TakeBody(limits, s) ==
  LET seen == SubSeq(s.buf, 1, IF Len(s.buf) < MaxCompressed THEN Len(s.buf) ELSE MaxCompressed)
  IN IF s.out # "go" THEN s
     ELSE IF OutOfBounds(limits, s.dec.len) THEN Stopped(s, "limits")
     ELSE IF s.dec.len = 0 THEN [s EXCEPT !.dec.len = -1, !.out = "item"]
     ELSE IF \E i \in DOMAIN seen : seen[i].k \notin {"body", "end"} THEN Stopped(s, "garbled")
     ELSE IF \E i \in DOMAIN seen : seen[i].k = "end"
          THEN [s EXCEPT !.dec.len = -1, !.out = "item", !.item = seen[1].v,
                         !.buf = SubSeq(@, Len(seen) + 1, Len(@))]
     ELSE IF Len(seen) = MaxCompressed THEN Stopped(s, "overlong") ELSE Stopped(s, "wait")

\* Containers that are laid out alike.
Layout(t, f) ==
  CASE t \in Blocks /\ f = "fulu" -> "electra"
    [] t \in Light /\ f = "bellatrix" -> "altair"
    [] t \in Light /\ f = "fulu" -> "electra"
    [] t \in Columns /\ f # "gloas" -> "fulu"
    [] t \in Several \cup Light -> f
    [] OTHER -> "none"

\* handle_rpc_response: the fork whose container is read, if the type has one.
ReadAs(t, v, f) == IF t \in Blocks /\ ~HasContext(t, v) THEN "base" ELSE f

\* Containers that no block of the fork of the context comes with.
TooEarly(t, f) ==
  \/ t \in Envelopes /\ ~Enabled(f, "gloas")
  \/ t \in Blobs /\ ~Enabled(f, "deneb")
  \/ t \in Columns /\ ~Enabled(f, "fulu")

HandleRpcResponse(c, t, v, f, chunk) ==
  CASE t = "Goodbye" \/ TooEarly(t, f) -> "fork"
    [] t \in Several \cup Light
         /\ Layout(t, NameAt(c, chunk.epoch)) # Layout(t, ReadAs(t, v, f)) -> "ssz"
    [] OTHER -> "item"

\* decode_response and decode_error, by the code.
ResponseDecoded ==
  LET t == request.type
      s == HandleLength(TakeContext(config, t, version, TakeCode(Start)))
  IN IF s.dec.code = "error" THEN TakeBody(ErrorLimits, s)
     ELSE TakeBody(ResponseLimits(config, now, t), s)

RequestDecoded == TakeBody(RequestLimits(request.type), HandleLength(Start))

-----------------------------------------------------------------------------
RpcInit ==
  /\ config \in {c \in Schedules : Accepted(c)}
  /\ peer \in Builds
  /\ now = 0 /\ phase = "idle" /\ why = "none"
  /\ request = [type |-> "none"] /\ version = 0
  /\ wire = <<>> /\ buf = <<>> /\ dec = NewDecoder
  /\ asked = [type |-> "none"] /\ sent = <<>> /\ closed = FALSE /\ got = <<>>

Tick ==
  /\ now < LastEpoch /\ phase # "failed" /\ now' = now + 1
  /\ UNCHANGED <<config, peer, phase, why, request, version, wire, buf, dec, asked, sent, closed, got>>

Fail(reason) == phase' = "failed" /\ why' = reason

\* A request of roots is made no longer than its fork allows (external).
Call == phase = "idle" /\ \E t \in RequestType, n \in Counts :
  LET r == [type |-> t, count |-> n, at |-> now]
      common == Common(config, peer, t)
  IN /\ t \in Several \cup {"LightClientUpdatesByRange"} \/ n = 1
     /\ t \in ByRoot => n <= MaxRequestBlocks(NameAt(config, now))
     /\ request' = r
     /\ IF common = <<>> THEN Fail("unsupported") /\ UNCHANGED <<version, wire>>
        ELSE /\ version' = Head(common) /\ wire' = EncodeRequest(r)
             /\ phase' = "calling" /\ UNCHANGED why
     /\ UNCHANGED <<config, now, peer, buf, dec, asked, sent, closed, got>>

Deliver ==
  /\ wire # <<>> /\ phase \in {"calling", "answering"}
  /\ buf' = Append(buf, Head(wire)) /\ wire' = Tail(wire)
  /\ UNCHANGED <<config, now, peer, phase, why, request, version, dec, asked, sent, closed, got>>

Serve(r) ==
  /\ asked' = r /\ phase' = "answering" /\ buf' = <<>> /\ dec' = NewDecoder
  /\ UNCHANGED <<config, now, peer, why, request, version, wire, sent, closed, got>>

UpgradeSilent == phase = "calling" /\ request.type \in Silent /\ Serve(request)

\* handle_rpc_request reads a list of roots no longer than its own fork allows;
\* the limits on blobs and envelopes never fall.
Unreadable(r) ==
  r.type \in {"BlocksByRoot", "DataColumnsByRoot"}
    /\ r.count > MaxRequestBlocks(NameAt(config, now))

DecodeRequest ==
  LET s == RequestDecoded
      r == IF s.item = 0 THEN [request EXCEPT !.count = 0] ELSE request
  IN /\ phase = "calling" /\ request.type \notin Silent
     /\ CASE s.out = "wait" ->
               /\ s.dec # dec \/ s.buf # buf
               /\ dec' = s.dec /\ buf' = s.buf
               /\ UNCHANGED <<config, now, peer, phase, why, request, version, wire, asked, sent, closed, got>>
          [] s.out = "item" /\ ~Unreadable(r) -> Serve(r)
          [] OTHER ->
               /\ Fail(IF s.out = "item" THEN "ssz" ELSE s.out)
               /\ UNCHANGED <<config, now, peer, request, version, wire, buf, dec, asked, sent, closed, got>>

\* REQUEST_TIMEOUT, or the stream ends before the request is whole.
CallBroken == \E reason \in {"timeout", "incomplete"} :
  /\ phase = "calling" /\ request.type \notin Silent
  /\ Fail(reason)
  /\ UNCHANGED <<config, now, peer, request, version, wire, buf, dec, asked, sent, closed, got>>

\* What the database may answer with (external): items of epochs that began.
Lengths(t, v, e) ==
  LET f == NameAt(config, e)
  IN CASE t \in Blocks  -> ToSet(BlockLengths(f))
       [] t \in Columns -> {ColumnLength(f, 1), ColumnLength(f, MaxBlobs(config, e))}
       [] t \in Light   -> ToSet(LightLengths(t, f))
       [] t \in Envelopes \cup Blobs -> {7}
       [] OTHER -> {VersionLength(t, v)}

Serves(t, f) ==
  CASE t \in Envelopes -> f = "gloas"
    [] t \in Blobs     -> Enabled(f, "deneb") /\ ~Enabled(f, "fulu")
    [] t \in Columns   -> Enabled(f, "fulu")
    [] t \in Light     -> Enabled(f, "altair") /\ f # "gloas"
    [] OTHER           -> TRUE

Epochs(t, v) ==
  IF HasContext(t, v) \/ t \in Blocks THEN {e \in 0..now : Serves(t, NameAt(config, e))} ELSE {0}

Answers(t, v) ==
  UNION {{[ok |-> TRUE, epoch |-> e, size |-> n, broken |-> FALSE] : n \in Lengths(t, v, e)} : e \in Epochs(t, v)}
  \cup [ok : {FALSE}, epoch : {0}, size : {0, 2}, broken : {FALSE}]
  \cup [ok : {FALSE}, epoch : {0}, size : {2}, broken : {TRUE}]

Answer ==
  /\ phase = "answering" /\ ~closed
  /\ Len(sent) < MaxChunks /\ Len(sent) < MaxResponses(asked)
  /\ \E chunk \in Answers(asked.type, version) :
       IF chunk.size > MaxPacket THEN closed' = TRUE /\ UNCHANGED <<sent, wire>>
       ELSE /\ sent' = Append(sent, chunk) /\ closed' = ~chunk.ok
            /\ wire' = wire \o EncodeResponse(config, asked.type, version, chunk, Len(sent) + 1)
  /\ UNCHANGED <<config, now, peer, phase, why, request, version, buf, dec, asked, got>>

EndAnswer ==
  /\ phase = "answering" /\ ~closed /\ closed' = TRUE
  /\ UNCHANGED <<config, now, peer, phase, why, request, version, wire, buf, dec, asked, sent, got>>

Received(s) ==
  IF s.dec.code = "error" THEN [ok |-> FALSE, type |-> "error", fork |-> "none", item |-> s.item]
  ELSE [ok |-> TRUE, type |-> request.type, fork |-> ReadAs(request.type, version, s.dec.fork), item |-> s.item]

AfterChunk(s) == [s.dec EXCEPT !.code = "none", !.fork = "none"]

DecodeResponse ==
  LET s == ResponseDecoded
      result == IF s.out = "item" /\ s.dec.code = "success"
                THEN HandleRpcResponse(config, request.type, version, s.dec.fork, sent[s.item]) ELSE s.out
  IN /\ phase = "answering"
     /\ CASE result = "wait" ->
               /\ s.dec # dec \/ s.buf # buf
               /\ dec' = s.dec /\ buf' = s.buf
               /\ UNCHANGED <<phase, why, got>>
          [] result = "item" ->
               /\ got' = Append(got, Received(s))
               /\ dec' = AfterChunk(s) /\ buf' = s.buf
               /\ phase' = IF ExpectExactlyOne(request.type) THEN "done" ELSE phase
               /\ UNCHANGED why
          [] OTHER -> Fail(result) /\ UNCHANGED <<buf, dec, got>>
     /\ UNCHANGED <<config, now, peer, request, version, wire, asked, sent, closed>>

Drained == wire = <<>> /\ ResponseDecoded.out = "wait" /\ ResponseDecoded.buf = buf

\* The peer closed and nothing more can be decoded.
Finish ==
  /\ phase = "answering" /\ closed /\ Drained
  /\ IF buf = <<>> THEN phase' = "done" /\ UNCHANGED why ELSE Fail("incomplete")
  /\ UNCHANGED <<config, now, peer, request, version, wire, buf, dec, asked, sent, closed, got>>

RpcNext == \/ Tick \/ Call \/ Deliver \/ UpgradeSilent \/ DecodeRequest \/ CallBroken
           \/ Answer \/ EndAnswer \/ DecodeResponse \/ Finish

RpcSpec == RpcInit /\ [][RpcNext]_rpcVars

-----------------------------------------------------------------------------
(* The peer answers what was asked, in a version both know, however the    *)
(* request came through the stream (handle_rpc_request,                    *)
(* encode of SSZSnappyOutboundCodec).                                      *)
RequestKept == asked.type # "none" => asked = request /\ <<asked.type, version>> \in Listens(config, peer.server)

(* The chunks a node decodes are those the peer encoded, in order and      *)
(* once, each with the fork of its own epoch, across fork boundaries and   *)
(* however the stream is cut into pieces (SSZSnappyOutboundCodec).         *)
ChunksKept ==
  /\ Len(got) <= Len(sent)
  /\ \A i \in DOMAIN got :
       /\ got[i].ok = sent[i].ok
       /\ got[i].item = IF sent[i].size = 0 THEN 0 ELSE i
       /\ sent[i].ok /\ request.type \in Several \cup Light
            => Layout(request.type, got[i].fork) = Layout(request.type, NameAt(config, sent[i].epoch))

(* A decoder that has every byte there is waits for none: what is left is  *)
(* no whole chunk (the guard on one byte at the start of decode).          *)
NeverStalls ==
  phase = "answering" /\ Drained => buf = <<>> /\ dec = NewDecoder /\ Len(got) = Len(sent)

(* Updates of the committee before Capella are longer than their limit,    *)
(* which is that of a finality update.                                     *)
CommitteeRefused ==
  request.type = "LightClientUpdatesByRange" /\ NameAt(config, now) \in {"altair", "bellatrix"}

(* A schedule may lower the blobs per block; the columns of before are     *)
(* then longer than the limit.                                             *)
BlobsLowered ==
  request.type \in Columns /\ \E i \in DOMAIN sent : MaxBlobs(config, sent[i].epoch) > MaxBlobs(config, now)

(* A node that refuses a stream, which costs the peer its score, had a     *)
(* reason: for a peer that runs this code it is a change of forks while    *)
(* the request was under way, a block without context in a version that    *)
(* has none, or a body cut short.  No limit refuses a chunk of an earlier  *)
(* fork, no digest is unknown and no stream is read out of step.           *)
RefusalsJustified == phase = "failed" =>
  CASE why = "unsupported" -> Common(config, peer, request.type) = <<>>
    [] why = "ssz" ->
         \/ /\ request.type \in {"BlocksByRoot", "DataColumnsByRoot"} /\ asked.type = "none"
            /\ NameAt(config, request.at) # NameAt(config, now)
         \/ request.type \in Blocks /\ ~HasContext(request.type, version)
    [] why = "limits" -> CommitteeRefused \/ BlobsLowered
    [] why = "overlong" -> \E i \in DOMAIN sent : sent[i].broken
    [] OTHER -> why \in {"timeout", "incomplete"} /\ asked.type = "none"

(* A stream of which several chunks are expected has a termination to      *)
(* report when it ends (stream_termination is unreachable for the others), *)
(* and a stream of one chunk never yields a second.                        *)
TerminationDefined ==
  /\ phase = "done" /\ ~ExpectExactlyOne(request.type) /\ MaxResponses(request) > 0
       => request.type \in DOMAIN StreamTermination
          /\ Terminator(request.type) = StreamTermination[request.type]
  /\ ExpectExactlyOne(request.type) => Len(got) <= 1
=============================================================================
