----------------------------- MODULE BlockForms -----------------------------
(***************************************************************************)
(* A beacon block, how it is put together and the forms it takes: whole or *)
(* blinded, signed, with a tag of its fork in the database, as bytes whose *)
(* reader knows the slot, the fork or neither, and as a header with a      *)
(* proof of its commitments.                                               *)
(*                                                                         *)
(* A body is a sequence of fields in the order of its container.  Bytes    *)
(* keep the layout only: two forks with the same layout are alike.         *)
(***************************************************************************)
EXTENDS Forks, TLC

CONSTANTS
  Schedules,          \* the configurations of networks
  LastEpoch,          \* a bound on the epoch of a block
  Keys                \* who signs

VARIABLES
  config,             \* the configuration
  origin,             \* the signed block as its proposer made it
  item,               \* what has become of it
  payload             \* what is known of its payload apart from it

blockVars == <<config, origin, item, payload>>

Nothing == [kind |-> "nothing"]
Refusal == [kind |-> "refused"]

(***************************************************************************)
(* Bodies.                                                                 *)
(***************************************************************************)
HasPayload(f) == Enabled(f, "bellatrix") /\ f # "gloas"

\* Attestations and attester slashings are of one of two kinds.
AttestationKind(f) == IF Enabled(f, "electra") THEN "electra" ELSE "base"

BodyFields(f) ==
  <<"randao_reveal", "eth1_data", "graffiti", "proposer_slashings", "attester_slashings",
    "attestations", "deposits", "voluntary_exits">>
  \o (IF Enabled(f, "altair") THEN <<"sync_aggregate">> ELSE <<>>)
  \o (IF HasPayload(f) THEN <<"execution_payload">> ELSE <<>>)
  \o (IF Enabled(f, "capella") THEN <<"bls_to_execution_changes">> ELSE <<>>)
  \o (IF f = "gloas"
      THEN <<"signed_execution_payload_bid", "payload_attestations", "parent_execution_requests">>
      ELSE (IF Enabled(f, "deneb") THEN <<"blob_kzg_commitments">> ELSE <<>>)
             \o (IF Enabled(f, "electra") THEN <<"execution_requests">> ELSE <<>>))

\* The layout of a payload on its own, and of a body with it or its header.
PayloadLayout(f) ==
  CASE f = "daisugi"                       -> "with proof"
    [] Enabled(f, "deneb") /\ f # "gloas"  -> "with blob gas"
    [] f = "gloas"                         -> "with accesses"
    [] OTHER                               -> f

Layout(f, blinded) ==
  [fields |-> BodyFields(f), kind |-> AttestationKind(f),
   payload |-> IF HasPayload(f) THEN <<PayloadLayout(f), blinded>> ELSE <<>>]

(***************************************************************************)
(* Blocks.  A payload and its header have the same root.                   *)
(***************************************************************************)
Content(f, n) == <<f, n>>       \* the payload, or the bid, of block n
BodyRoot(b) == <<"body", BodyFields(b.fork), b.operations, b.holds>>
BlockHeader(b) == [slot |-> b.slot, state_root |-> b.state_root, body_root |-> BodyRoot(b)]
CanonicalRoot(b) == <<"root", BlockHeader(b)>>

\* BeaconBlock::empty: the container of the first epoch, at the slot its fork begins.
EmptyBlock(c) ==
  LET f == NameAt(c, 0)
  IN [fork |-> f, slot |-> IF f = "base" THEN 0 ELSE c.epoch[f], state_root |-> 0,
      operations |-> 0, holds |-> Content(f, 0), blinded |-> FALSE]

\* BeaconBlock::fork_name: a container that is not of its slot has none.
ConsistentFork(c, b) == NameAt(c, b.slot) = b.fork

\* get_domain: the version of the fork before it, or of the fork at it.
DomainOf(fork, slot) == IF slot < fork.epoch THEN fork.previous ELSE fork.current
Sign(b, key, fork) ==
  [message |-> b, signature |-> <<key, CanonicalRoot(b), DomainOf(fork, b.slot)>>]

(* Mutant of VerifySignature: the container is not compared with the slot. *)
VerifySignatureOfAny(c, s, key, fork) ==
  s.signature = <<key, CanonicalRoot(s.message), DomainOf(fork, s.message.slot)>>

VerifySignature(c, s, key, fork) ==
  /\ ConsistentFork(c, s.message)
  /\ s.signature = <<key, CanonicalRoot(s.message), DomainOf(fork, s.message.slot)>>

NumExpectedBlobs(b) ==
  IF ToSet(BodyFields(b.fork)) \cap {"blob_kzg_commitments", "signed_execution_payload_bid"} = {}
  THEN 0 ELSE b.operations

\* Block and payload apart; the root of the header is the payload's.
Blinded(s) == [s EXCEPT !.message.blinded = HasPayload(s.message.fork)]
PayloadOf(s) ==
  IF HasPayload(s.message.fork)
  THEN [kind |-> "payload", fork |-> s.message.fork, holds |-> s.message.holds] ELSE Nothing

TryIntoFullBlock(s, p) ==
  IF ~HasPayload(s.message.fork) THEN s
  ELSE IF p.kind # "payload" \/ p.fork # s.message.fork THEN Refusal
  ELSE [s EXCEPT !.message.blinded = FALSE, !.message.holds = p.holds]

(***************************************************************************)
(* Production before Gloas.  The contents come from the engine, or from a  *)
(* builder, which keeps the blobs; what may be missing is a set of none or *)
(* one.  The pool has attestations and attester slashings of both kinds.   *)
(***************************************************************************)
EngineContents(f, n) ==
  LET bundle == IF Enabled(f, "deneb") THEN {n} ELSE {}
  IN [kind |-> "contents", fork |-> f, holds |-> Content(f, n), blinded |-> FALSE,
      commitments |-> bundle, blobs |-> bundle, requests |-> Enabled(f, "electra")]
BlindContents(contents) == [contents EXCEPT !.blinded = TRUE, !.blobs = {}]
BuilderContents(f, n) == BlindContents(EngineContents(f, n))

PartialBlock(f, slot, n, kinds) ==
  [fork |-> f, slot |-> slot, operations |-> n, kinds |-> kinds, sync |-> f # "base"]

Operations == {"randao_reveal", "eth1_data", "graffiti", "proposer_slashings", "attester_slashings",
               "attestations", "deposits", "voluntary_exits"}
EarlyBody(f) == Operations \cup (IF f = "altair" THEN {"sync_aggregate"} ELSE {})
PayloadBody(f) ==
  Operations \cup {"sync_aggregate", "execution_payload"}
             \cup (IF f = "capella" THEN {"bls_to_execution_changes"} ELSE {})
BlobBody == PayloadBody("capella") \cup {"blob_kzg_commitments"}
RequestsBody == BlobBody \cup {"execution_requests"}

InnerFields(f) ==
  CASE f \in {"base", "altair"}              -> EarlyBody(f)
    [] f \in {"bellatrix", "capella"}        -> PayloadBody(f)
    [] f = "deneb"                           -> BlobBody
    [] f \in {"electra", "daisugi", "fulu"}  -> RequestsBody

\* The operations of the other kind are left behind.
OperationsFor(partial) ==
  partial.kinds \cap {IF partial.fork \in {"electra", "daisugi", "fulu"} THEN "electra" ELSE "base"}

\* What a field needs and the contents may not have; the payload is of the fork.
Lacking(partial, contents) ==
  LET fields == InnerFields(partial.fork) IN
  \/ "sync_aggregate" \in fields /\ ~partial.sync
  \/ "execution_payload" \in fields /\ (contents = Nothing \/ contents.fork # partial.fork)
  \/ "blob_kzg_commitments" \in fields /\ contents.commitments = {}
  \/ "execution_requests" \in fields /\ ~contents.requests

\* There are as many blobs as commitments.
BlobItems(contents) ==
  contents = Nothing \/ contents.blobs = {} \/ contents.blobs = contents.commitments

(* complete_partial_beacon_block, as produce_block_on_state calls it. *)
Produced(partial, contents) ==
  IF partial.fork = "gloas" \/ Lacking(partial, contents) \/ ~BlobItems(contents) THEN Refusal
  ELSE [kind |-> "produced", fields |-> InnerFields(partial.fork), kinds |-> OperationsFor(partial),
        blobs |-> IF "blob_kzg_commitments" \in InnerFields(partial.fork) THEN contents.blobs ELSE {},
        message |-> [fork |-> partial.fork, slot |-> partial.slot, state_root |-> partial.operations,
                     operations |-> partial.operations,
                     holds |-> IF HasPayload(partial.fork) THEN contents.holds
                               ELSE Content(partial.fork, partial.operations),
                     blinded |-> HasPayload(partial.fork) /\ contents.blinded]]

(***************************************************************************)
(* Bytes.                                                                  *)
(***************************************************************************)
AsBytes(s) ==
  [kind |-> "bytes", layout |-> Layout(s.message.fork, s.message.blinded),
   slot |-> s.message.slot, block |-> s, tag |-> <<>>]

\* Decoding a block as one of fork f, whole or blinded.
DecodeAs(b, f, blinded) ==
  IF Layout(f, blinded) = b.layout
  THEN [b.block EXCEPT !.message.fork = f, !.message.blinded = blinded /\ HasPayload(f)]
  ELSE Refusal

FromSszBytes(c, b, blinded) == DecodeAs(b, NameAt(c, b.slot), blinded)

\* The trial of one container after the other knows no Daisugi.
AnyOrder == <<"gloas", "fulu", "electra", "deneb", "capella", "bellatrix", "altair", "base">>
AnyFromSszBytes(b, blinded) ==
  LET fits == SelectSeq(AnyOrder, LAMBDA f : Layout(f, blinded) = b.layout)
  IN IF fits = <<>> THEN Refusal ELSE DecodeAs(b, fits[1], blinded)

\* The database's form has the tag of the fork before the bytes.
AsTaggedBytes(s) == [AsBytes(s) EXCEPT !.tag = <<Tag(s.message.fork)>>]
FromTaggedBytes(b, blinded) ==
  IF b.tag = <<>> THEN Refusal ELSE DecodeAs(b, ListAll[b.tag[1]], blinded)

(***************************************************************************)
(* Between the node and who signs.  A block goes out with its blobs, is    *)
(* signed with a key or by a remote signer, and comes back to be           *)
(* published; the builder answers a blinded one with the payload.          *)
(***************************************************************************)
\* A block not yet signed has the empty signature.
Unsigned(b) == [kind |-> "signed", message |-> b, signature |-> <<>>]
WithBlobs(f) == Enabled(f, "deneb") /\ f # "gloas"

\* FullBlockContents and PublishBlockRequest: blobs are none or those of a block.
BlockContents(block, blobs) ==
  [kind |-> IF blobs = {} THEN "block" ELSE "contents", block |-> block, blobs |-> blobs]
SignContents(contents, key, fork) ==
  BlockContents([kind |-> "signed"] @@ Sign(contents.block.message, key, fork), contents.blobs)

Wire(contents) == [contents EXCEPT !.block = AsBytes(contents.block)]
ContentsAs(wire, f) ==
  LET block == DecodeAs(wire.block, f, FALSE)
  IN IF block = Refusal THEN Refusal ELSE BlockContents(block, wire.blobs)

\* from_ssz_bytes_for_fork, from_ssz_bytes of a request, context_deserialize of contents.
FromWire(wire, f) ==
  IF WithBlobs(f) = (wire.kind = "contents") THEN ContentsAs(wire, f) ELSE Refusal

(* The reader by slot looks at the first bytes: those are the slot of a block *)
(* alone, but offsets where blobs follow, a slot after every fork.            *)
Newest(c) ==
  NameAt(c, CHOOSE e \in {c.epoch[f] : f \in ForkName} \ {Never} :
              \A f \in ForkName : c.epoch[f] # Never => c.epoch[f] <= e)
FromWireBySlot(c, wire) ==
  FromWire(wire, IF wire.kind = "contents" THEN Newest(c) ELSE NameAt(c, wire.block.slot))

\* A request in JSON before Gloas is first read as contents, then as a block.
FromJsonRequest(wire, f) ==
  IF f = "gloas" /\ wire.kind = "contents" THEN Refusal ELSE ContentsAs(wire, f)

TryFromBlock(s) == IF WithBlobs(s.message.fork) THEN Refusal ELSE BlockContents(s, {})

\* What the answer says of the block, in headers; each is required.
V3Metadata(made) ==
  [version |-> made.message.fork, blinded |-> made.message.blinded,
   payload_value |-> made.message.holds, block_value |-> made.message.operations]
FromHeaders(headers, required) ==
  IF required \subseteq DOMAIN headers THEN [h \in required |-> headers[h]] ELSE Refusal

\* A remote signer gets the block of the first two forks, and then its header.
SigningRequest(b, fork) ==
  [version |-> b.fork, signing_root |-> <<CanonicalRoot(b), DomainOf(fork, b.slot)>>,
   object  |-> IF b.fork \in {"base", "altair"} THEN Unsigned(b)
               ELSE [kind |-> "header", header |-> BlockHeader(b)]]

\* FullPayloadContents: the payload, from Deneb on with its blobs.
PayloadContents(p, blobs) == [layout |-> PayloadLayout(p.fork), payload |-> p, blobs |-> blobs]
PayloadFrom(wire, f) ==
  IF ~Enabled(f, "bellatrix") \/ PayloadLayout(f) # wire.layout
       \/ Enabled(f, "deneb") # (wire.blobs # {})
  THEN Refusal
  ELSE [wire.payload EXCEPT !.fork = f]

(***************************************************************************)
(* Proofs of a field of the body.                                          *)
(***************************************************************************)
CommitmentsIndex == 11
PayloadIndex == 9
LeavesOf(n) == CHOOSE m \in {1, 2, 4, 8, 16} : m >= n /\ \A k \in {1, 2, 4, 8, 16} : k >= n => m <= k

\* generate_proof at an index of a tree of so many leaves; a missing leaf is zero.
ProofOf(f, index, leaves) ==
  IF index >= leaves THEN Refusal
  ELSE [kind |-> "proof", index |-> index,
        leaf |-> IF index < Len(BodyFields(f)) THEN BodyFields(f)[index + 1] ELSE "zero"]

KzgCommitmentsMerkleProof(f) == ProofOf(f, CommitmentsIndex, LeavesOf(Len(BodyFields(f))))
BlockBodyMerkleProof(f) == ProofOf(f, PayloadIndex, 16)
CompleteKzgCommitmentMerkleProof(f) ==
  IF f \in {"base", "altair", "bellatrix", "capella", "gloas"} THEN Refusal
  ELSE KzgCommitmentsMerkleProof(f)

SignedBlockHeaderAndKzgCommitmentsProof(s) ==
  [header |-> BlockHeader(s.message), signature |-> s.signature,
   proof  |-> KzgCommitmentsMerkleProof(s.message.fork)]
-----------------------------------------------------------------------------
\* A proposer signs a block for its slot, in the container of that slot, with
\* the fork of its state; some operations and a payload are in it.
BlockInit ==
  \E c \in Schedules, slot \in 0..LastEpoch, n \in {1, 2}, key \in Keys :
    LET f == NameAt(c, slot)
        b == [fork |-> f, slot |-> slot, state_root |-> n, operations |-> n,
              holds |-> Content(f, n), blinded |-> FALSE]
    IN /\ config = c
       /\ origin = [kind |-> "signed"] @@ Sign(b, key, ForkAt(c, slot))
       /\ item = origin
       /\ payload = Nothing

Signed == item.kind = "signed"
Becomes(x) == item' = x /\ UNCHANGED <<config, origin>>

\* The node keeps the blinded block and its payload apart, or only the first.
BlindBlock ==
  /\ Signed /\ ~item.message.blinded
  /\ payload' \in {PayloadOf(item), Nothing}
  /\ Becomes(Blinded(item))

\* A payload comes from the database, which may read it as another fork of the
\* same layout, or from a peer that has another block in mind.
FindPayload ==
  /\ Signed /\ item.message.blinded
  /\ \E f \in {g \in ForkName : HasPayload(g) /\ PayloadLayout(g) = PayloadLayout(origin.message.fork)},
        n \in {1, 2} :
       payload' = [kind |-> "payload", fork |-> f, holds |-> Content(origin.message.fork, n)]
  /\ UNCHANGED <<config, origin, item>>

\* Who puts them together compares the header of the payload with the block's.
Unblind ==
  /\ Signed /\ (item.message.blinded \/ ~HasPayload(item.message.fork))
  /\ LET whole == TryIntoFullBlock(item, payload)
     IN Becomes(IF whole.kind = "refused" \/ whole.message.holds # item.message.holds
                THEN Refusal ELSE whole)
  /\ UNCHANGED payload

Encode == Signed /\ \E b \in {AsBytes(item), AsTaggedBytes(item)} : Becomes(b) /\ UNCHANGED payload

\* The reader knows whether the block is whole.
Whole == ~item.block.message.blinded
DecodeBySlot ==
  /\ item.kind = "bytes" /\ item.tag = <<>>
  /\ Becomes(FromSszBytes(config, item, ~Whole)) /\ UNCHANGED payload
DecodeAny ==
  /\ item.kind = "bytes" /\ item.tag = <<>>
  /\ Becomes(AnyFromSszBytes(item, ~Whole)) /\ UNCHANGED payload
DecodeTagged ==
  /\ item.kind = "bytes" /\ item.tag # <<>>
  /\ Becomes(FromTaggedBytes(item, ~Whole)) /\ UNCHANGED payload

BlockNext ==
  \/ BlindBlock \/ FindPayload \/ Unblind \/ Encode
  \/ DecodeBySlot \/ DecodeAny \/ DecodeTagged
-----------------------------------------------------------------------------
(* A block that comes back from any form is the one that was signed: its root *)
(* and signature are the same, and it is in the container of its slot unless  *)
(* a reader that knew neither slot nor fork took one of the same layout,      *)
(* which nobody verifies the signature of.  No reading that knows the slot or *)
(* the tag refuses a block; the one that knows neither refuses Daisugi only.  *)
BlocksReturn ==
  /\ Signed /\ item.message.fork = origin.message.fork =>
       /\ CanonicalRoot(item.message) = CanonicalRoot(origin.message)
       /\ item.signature = origin.signature
       /\ item.message.blinded \/ item = origin
  /\ Signed =>
       \A key \in Keys :
         VerifySignature(config, item, key, ForkAt(config, item.message.slot))
           <=> /\ item.message.fork = origin.message.fork
               /\ key = origin.signature[1]
  /\ item.kind = "bytes" /\ item.block.message.fork = origin.message.fork =>
       /\ FromSszBytes(config, item, ~Whole) = item.block
       /\ FromTaggedBytes(AsTaggedBytes(item.block), ~Whole) = item.block
       /\ AnyFromSszBytes(item, ~Whole).kind = "refused" <=> origin.message.fork = "daisugi"
  /\ Signed /\ item.message.fork # origin.message.fork =>
       Layout(item.message.fork, FALSE) = Layout(origin.message.fork, FALSE)

(* A blinded block becomes whole only with the payload it was blinded of; it  *)
(* waits for none where it has none.                                          *)
PayloadsRejoin ==
  Signed /\ (item.message.blinded \/ ~HasPayload(item.message.fork)) =>
    LET whole == TryIntoFullBlock(item, payload)
    IN /\ whole.kind # "refused" =>
            whole.message.holds = origin.message.holds
              \/ payload.holds = Content(origin.message.fork, 3 - origin.message.operations)
       /\ HasPayload(item.message.fork) /\ payload.kind = "payload"
            /\ payload.fork # item.message.fork => whole.kind = "refused"
       /\ payload = PayloadOf(origin) /\ item.message.fork = origin.message.fork => whole = origin

(* The proof that goes with columns and blobs proves the commitments of every *)
(* fork that has them in its body, the one that goes with headers for light   *)
(* clients the payload; the genesis block is of the fork of its slot.         *)
ProofsProve ==
  /\ \A f \in ForkName :
       /\ CompleteKzgCommitmentMerkleProof(f).kind = "proof" =>
            CompleteKzgCommitmentMerkleProof(f).leaf = "blob_kzg_commitments"
       /\ Enabled(f, "capella") /\ f # "gloas" =>
            BlockBodyMerkleProof(f).leaf = "execution_payload"
  /\ ConsistentFork(config, EmptyBlock(config))
  /\ Signed =>
       LET sidecar == SignedBlockHeaderAndKzgCommitmentsProof(item)
       IN /\ <<"root", sidecar.header>> = CanonicalRoot(origin.message)
          /\ sidecar.signature = origin.signature
  /\ Signed /\ Enabled(item.message.fork, "deneb") => NumExpectedBlobs(item.message) = origin.message.operations

(* Contents of the engine or of a builder make a block of the state's fork,   *)
(* the one that is signed, and contents of another fork or none make none     *)
(* where there is a payload: every field of the container is filled, and with *)
(* operations of its kind, whatever kinds the pool holds.                     *)
ProductionFits ==
  item = origin =>
    LET b == origin.message IN
    \A kinds \in SUBSET {"base", "electra"} :
      LET partial == PartialBlock(b.fork, b.slot, b.operations, kinds) IN
      /\ \A g \in ForkName :
           \A contents \in {EngineContents(g, b.operations), BuilderContents(g, b.operations), Nothing} :
             LET made == Produced(partial, contents) IN
             made.kind # "refused" =>
               /\ made.fields = ToSet(BodyFields(b.fork)) /\ made.kinds \subseteq {AttestationKind(b.fork)}
               /\ made.message = b \/ made.message = [b EXCEPT !.blinded = TRUE]
      /\ b.fork # "gloas" =>
           /\ Produced(partial, EngineContents(b.fork, b.operations)).message = b
           /\ Produced(partial, BuilderContents(b.fork, b.operations)).message = Blinded(origin).message

(* What a node offers is what is published: the blobs and the block come back *)
(* with the headers of the answer and through either encoding, signed with a  *)
(* key or by a signer that saw no more than a header; no other fork's reader  *)
(* takes it for a block that verifies, and only the reader by slot may miss   *)
(* it where blobs follow.  The payload of a builder completes the block under *)
(* its own fork only, and a blinded block is never read as a whole one.       *)
OffersPublished ==
  item = origin =>
    LET b == origin.message
        key == origin.signature[1]
        fork == ForkAt(config, b.slot)
        made(contents) == Produced(PartialBlock(b.fork, b.slot, b.operations, {"base", "electra"}), contents)
        full == made(EngineContents(b.fork, b.operations))
        offer == BlockContents(Unsigned(b), IF b.fork = "gloas" THEN {} ELSE full.blobs)
        request == SignContents(offer, key, fork)
        signing == SigningRequest(b, fork)
    IN
    /\ FromWire(Wire(offer), b.fork) = offer
    /\ FromWireBySlot(config, Wire(offer)) = offer <=> offer.blobs = {} \/ b.fork = Newest(config)
    /\ request.block = origin
    /\ FromWire(Wire(request), b.fork) = request /\ FromJsonRequest(Wire(request), b.fork) = request
    /\ TryFromBlock(origin) = (IF request.blobs = {} THEN request ELSE Refusal)
    /\ \A f \in ForkName \ {b.fork} : \A read \in {FromWire(Wire(request), f), FromJsonRequest(Wire(request), f)} :
         read # Refusal => ~VerifySignature(config, read.block, key, fork)
    /\ b.fork # "gloas" =>
         \A contents \in {EngineContents(b.fork, b.operations), BuilderContents(b.fork, b.operations)} :
           LET sent == V3Metadata(made(contents))
               read == FromHeaders(sent, {"version", "blinded", "payload_value", "block_value"})
           IN /\ read = sent
              /\ DecodeAs(AsBytes(Unsigned(made(contents).message)), read.version, read.blinded)
                   = Unsigned(made(contents).message)
    /\ signing.signing_root[1] = IF signing.object.kind = "header" THEN <<"root", signing.object.header>>
                                 ELSE CanonicalRoot(signing.object.message)
    /\ origin.signature = <<key>> \o signing.signing_root
    /\ HasPayload(b.fork) =>
         /\ \A f \in ForkName : ContentsAs(Wire(BlockContents(Blinded(origin), {})), f) = Refusal
         /\ \A f \in ForkName :
              LET p == PayloadFrom(PayloadContents(PayloadOf(origin), full.blobs), f)
              IN TryIntoFullBlock(Blinded(origin), p) = origin <=> f = b.fork
=============================================================================
