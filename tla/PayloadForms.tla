---------------------------- MODULE PayloadForms ----------------------------
(***************************************************************************)
(* An execution payload and the forms it takes in the consensus client:    *)
(* the container of its fork, its header, bytes in the database, a bid of  *)
(* a builder, the JSON of the engine, and a header with a body from the    *)
(* engine.  Daisugi adds a proof and a commitment to every one of them.    *)
(*                                                                         *)
(* A value is a function of the fields a form has; "base" stands for the   *)
(* fields every payload has and nothing treats apart (parent hash to base  *)
(* fee).  Hashes and roots are free constructors.                          *)
(***************************************************************************)
EXTENDS Forks, Functions, TLC

CONSTANTS
  Transactions,       \* the lists of transactions a payload may hold
  RequestLists        \* the lists of requests an engine may answer with

VARIABLES
  made,     \* the payload as it was made, with what its block says of it
  form,     \* what has become of it
  changed   \* the field in which it was replaced since, if any

formVars == <<made, form, changed>>

EmptySet == "empty-set envelope"   \* a proof of nothing, not an absent one
NoBytes == "no bytes"
Refused(why) == [kind |-> "refused", fork |-> "base", at |-> [reason |-> why]]

Merged == {"bellatrix", "capella", "deneb", "electra", "fulu", "gloas", "daisugi"}

(***************************************************************************)
(* Containers.                                                             *)
(***************************************************************************)
FieldsOf(f) ==
  {"base", "block_hash", "transactions"}
    \cup (IF Enabled(f, "capella") THEN {"withdrawals"} ELSE {})
    \cup (IF Enabled(f, "deneb") THEN {"blob_gas"} ELSE {})
    \cup (IF f = "daisugi" THEN {"proof", "deps"} ELSE {})
    \cup (IF f = "gloas" THEN {"access_list", "slot"} ELSE {})

\* The fields of a payload that its header has as roots.
Rooted == {"transactions", "withdrawals", "proof"}
Root(v) == <<"root", v>>
Zero == <<0>>

(* Mutant of ToHeader: the commitment is left at zero. *)
ToHeaderWithoutDeps(p) ==
  IF p.fork = "gloas" THEN Refused("no header")
  ELSE [kind |-> "header", fork |-> p.fork,
        at |-> [k \in FieldsOf(p.fork) |->
                  IF k = "deps" THEN Zero
                  ELSE IF k \in Rooted THEN Root(p.at[k]) ELSE p.at[k]]]

ToHeader(p) ==
  IF p.fork = "gloas" THEN Refused("no header")
  ELSE [kind |-> "header", fork |-> p.fork,
        at |-> [k \in FieldsOf(p.fork) |-> IF k \in Rooted THEN Root(p.at[k]) ELSE p.at[k]]]

DefaultAt(f) ==
  [k \in FieldsOf(f) |-> CASE k = "transactions" -> <<>> [] k = "proof" -> EmptySet [] OTHER -> Zero]
DefaultPayload(f) == [kind |-> "payload", fork |-> f, at |-> DefaultAt(f)]
DefaultHeader(f) == [kind |-> "header", fork |-> f, at |-> [k \in FieldsOf(f) |-> Zero]]

DefaultWithZeroRoots(x) ==
  x = IF x.kind = "header" THEN DefaultHeader(x.fork) ELSE DefaultPayload(x.fork)
DefaultWithEmptyRoots(x) ==
  x = IF x.kind = "header" THEN ToHeader(DefaultPayload(x.fork)) ELSE DefaultPayload(x.fork)

\* A header at a fork boundary: new fields are zero.
UpgradedTo(h, g) ==
  [kind |-> "header", fork |-> g, at |-> h.at @@ [k \in FieldsOf(g) \ FieldsOf(h.fork) |-> Zero]]

\* RecursiveProof: bytes, but not none.
ProofFits(at) == "proof" \in DOMAIN at => at.proof # NoBytes

(***************************************************************************)
(* The hash of the block of execution and what is checked against it.      *)
(***************************************************************************)
HashedHeader(p, root, requests) ==
  [fields   |-> Restrict(p.at, FieldsOf(p.fork)
                                \ {"block_hash", "proof", "deps", "access_list", "slot"}),
   root     |-> root,
   requests |-> requests]

BlockHash(p, root, requests) ==
  <<"keccak", HashedHeader(p, root, requests),
    IF p.fork = "daisugi" THEN <<"no list", "no slot", <<p.at.proof, p.at.deps>>>> ELSE <<>>>>

\* The engine hashes a list of accesses and a slot too, where there are any.
EngineHash(p, root, requests) ==
  IF p.fork = "gloas"
  THEN <<"keccak", HashedHeader(p, root, requests), <<p.at.access_list, p.at.slot>>>>
  ELSE BlockHash(p, root, requests)

\* The hash of an Electra payload that travels beside its proof.
AggregateBlockHash(p, proof, deps, root, requests) ==
  <<"keccak", HashedHeader(p, root, requests), <<"no list", "no slot", <<proof, deps>>>>>>

\* A frame transaction: chain, keys if any, nonce, sender, frames, signatures,
\* fees, blobs, and references if any.
FrameHashes(fields) ==
  LET at == IF fields[2].is = "list" THEN 3 ELSE 2
      kinds == [i \in 1..(Len(fields) - at + 1) |-> fields[at + i - 1].is]
      expected == <<"number", "sender", "list", "list", "fees", "blobs">>
  IN IF IsPrefix(expected, kinds)
          /\ Len(kinds) <= 7 /\ (Len(kinds) = 7 => kinds[7] = "list")
     THEN fields[at + 5].hashes ELSE <<Never>>

\* The hashes of blobs a list of transactions names; <<Never>> when one does not parse.
HashesOf(tx) ==
  CASE tx.is = "frame"   -> FrameHashes(tx.fields)
    [] tx.is = "eip4844" -> tx.hashes
    [] OTHER             -> <<>>
VersionedHashes(txs) == FoldLeft(\o, <<>>, [i \in DOMAIN txs |-> HashesOf(txs[i])])

Parses(txs) == \A i \in DOMAIN txs : HashesOf(txs[i]) # <<Never>>

\* NewPayloadRequest::try_from, of a block; a payload alone is enough for two forks.
RequestOf(p, block) ==
  IF p.fork = "gloas" THEN {}
  ELSE {[payload  |-> p,
         versions |-> IF Enabled(p.fork, "deneb") THEN block.commitments ELSE Never,
         root     |-> IF Enabled(p.fork, "deneb") THEN block.root ELSE Never,
         requests |-> IF Enabled(p.fork, "electra") THEN block.requests ELSE Never]}

RequestOfPayload(p) ==
  IF p.fork \in {"bellatrix", "capella"}
  THEN {[payload |-> p, versions |-> Never, root |-> Never, requests |-> Never]} ELSE {}

VerifiesBlockHash(r) ==
  /\ \A i \in DOMAIN r.payload.at.transactions : r.payload.at.transactions[i].is # "empty"
  /\ BlockHash(r.payload, r.root, r.requests) = r.payload.at.block_hash

VerifiesVersionedHashes(r) ==
  r.versions = Never
    \/ /\ Parses(r.payload.at.transactions)
       /\ VersionedHashes(r.payload.at.transactions) = r.versions

PerformOptimisticSyncVerifications(r) == VerifiesBlockHash(r) /\ VerifiesVersionedHashes(r)

(***************************************************************************)
(* The JSON of the engine.  A reader takes the fields it knows and leaves  *)
(* the others; the containers of the consensus types refuse them.          *)
(***************************************************************************)
\* Requests are a list of a type and its data; empty ones are left out.
RequestTypes == <<"deposit", "withdrawal", "consolidation">>
ListRequests(requests) ==
  LET some == SelectSeq(RequestTypes, LAMBDA t : t \in requests)
  IN [i \in DOMAIN some |-> [type |-> some[i], data |-> TRUE]]

RequestRank(t) == CHOOSE i \in DOMAIN RequestTypes : RequestTypes[i] = t
ListsRequests(list) ==
  /\ \A i \in DOMAIN list : list[i].data /\ list[i].type \in ToSet(RequestTypes)
  /\ \A i, j \in DOMAIN list : i < j => RequestRank(list[i].type) < RequestRank(list[j].type)
RequestsIn(list) == {list[i].type : i \in DOMAIN list}

Answered(f) ==
  {"value"} \cup (IF Enabled(f, "deneb") THEN {"blobs_bundle"} ELSE {})
            \cup (IF Enabled(f, "electra") THEN {"requests"} ELSE {})

ToJson(p) == [kind |-> "json", fork |-> p.fork, at |-> p.at]

\* An answer to getPayload: the payload and what comes with it.
ToResponse(p, list) ==
  [kind |-> "response", fork |-> p.fork,
   at   |-> p.at @@ [k \in Answered(p.fork) |-> IF k = "requests" THEN list ELSE k]]

FromJson(j, f) ==
  IF FieldsOf(f) \subseteq DOMAIN j.at /\ ProofFits(Restrict(j.at, FieldsOf(f)))
  THEN [kind |-> "payload", fork |-> f, at |-> Restrict(j.at, FieldsOf(f))]
  ELSE Refused("fields")

FromResponse(j, f) ==
  IF ~ Answered(f) \subseteq DOMAIN j.at THEN Refused("fields")
  ELSE IF "requests" \in Answered(f) /\ ~ListsRequests(j.at.requests) THEN Refused("requests")
  ELSE FromJson(j, f)

\* What the answer is taken apart into: the payload, its value, blobs, requests.
RequestsOf(j, f) == IF Enabled(f, "electra") THEN RequestsIn(j.at.requests) ELSE Never

\* The body of a payload, as the engine gives it for a hash.
BodyOf(p) == Restrict(p.at, {"transactions", "withdrawals", "proof", "deps"} \cap FieldsOf(p.fork))

ToPayload(header, body) ==
  LET f == header.fork
      parts == {"transactions", "withdrawals"} \cap FieldsOf(f)
  IN IF f = "bellatrix" /\ "withdrawals" \in DOMAIN body THEN Refused("withdrawals")
     ELSE IF f = "daisugi" /\ ~ {"proof", "deps"} \subseteq DOMAIN body THEN Refused("missing")
     ELSE IF f = "daisugi" /\ (Root(body.proof) # header.at.proof \/ body.deps # header.at.deps)
          THEN Refused("does not match")
     ELSE IF f # "bellatrix" /\ "withdrawals" \notin DOMAIN body THEN Refused("withdrawals")
     ELSE [kind |-> "payload", fork |-> f,
           at |-> [k \in FieldsOf(f) |-> IF k \in parts \cup {"proof"} THEN body[k] ELSE header.at[k]]]

\* get_payload_for_header: bodies is what the engine has for its number.
PayloadForHeader(header, bodies, supported) ==
  CASE header.at.block_hash = Zero -> DefaultPayload(header.fork)
    [] header.at.block_hash # Zero /\ ~supported -> Refused("not supported")
    [] header.at.block_hash # Zero /\ supported /\ (Len(bodies) # 1 \/ bodies[1] = {}) -> Refused("no body")
    [] OTHER -> LET body == CHOOSE b \in bodies[1] : TRUE IN ToPayload(header, body)

\* get_block: the store has the payload or its header, which it must give.
GetBlock(stored, bodies, supported) ==
  IF stored.kind # "header" THEN stored
  ELSE LET p == PayloadForHeader(stored, bodies, supported)
       IN IF p.kind = "refused" \/ ToHeader(p) = stored THEN p ELSE Refused("inconsistent")

(***************************************************************************)
(* What the engine is told to build, for a proposal of fork f on the head  *)
(* or, in a re-org, on its parent.  A value is named for its block.        *)
(***************************************************************************)
\* get_pre_payload_attributes: none for any other block.
PrePayloadAttributes(f, head, on) ==
  LET of == IF f # "gloas" /\ on = head.parent THEN head.parent ELSE head.root
  IN IF on \notin {head.root, head.parent} THEN {}
     ELSE {[prev_randao |-> <<"randao", of>>, root |-> on,
            number |-> IF f = "gloas" THEN Never
                       ELSE IF on = head.parent /\ head.number > 0 THEN head.number - 1 ELSE head.number]}

AttributesOf(v) ==
  {"timestamp", "prev_randao", "fee_recipient"}
    \cup (IF v >= 2 THEN {"withdrawals"} ELSE {}) \cup (IF v >= 3 THEN {"root"} ELSE {})
    \cup (IF v >= 4 THEN {"slot_number", "gas_limit"} ELSE {})

\* PayloadAttributes::new: the version is the one whose fields are all there.
NewAttributes(given) ==
  LET v == CHOOSE n \in 1..4 : /\ AttributesOf(n) \subseteq DOMAIN given
                               /\ \A m \in 1..4 : AttributesOf(m) \subseteq DOMAIN given => m <= n
  IN Restrict(given, AttributesOf(v))

\* prepare_beacon_proposer: what is given depends on the fork of the proposal.
AttributesFor(f, pre) ==
  LET given == {"timestamp", "prev_randao", "fee_recipient"}
                 \cup (IF Enabled(f, "capella") THEN {"withdrawals"} ELSE {})
                 \cup (IF Enabled(f, "deneb") THEN {"root"} ELSE {})
                 \cup (IF Enabled(f, "gloas") THEN {"slot_number", "gas_limit"} ELSE {})
  IN NewAttributes([k \in given |-> IF k \in DOMAIN pre THEN pre[k] ELSE <<k>>])

\* The event for builders leaves out what only the fourth version has.
ToEvent(attributes) == Restrict(attributes, DOMAIN attributes \cap AttributesOf(3))
FromEvent(event, f) ==
  LET fields == AttributesOf(CASE f = "bellatrix" -> 1 [] f = "capella" -> 2 [] OTHER -> 3)
  IN IF f \in {"base", "altair"} \/ ~ fields \subseteq DOMAIN event THEN Refused("event")
     ELSE Restrict(event, fields)

(***************************************************************************)
(* Bytes: a container is read only from bytes of its own layout.           *)
(***************************************************************************)
ToBytes(x) == [kind |-> "bytes", fork |-> x.fork, at |-> x.at, of |-> x.kind]

\* A bid carries the header, commitments and requests.
BidFieldsOf(f) ==
  FieldsOf(f) \cup (IF Enabled(f, "deneb") THEN {"commitments"} ELSE {})
              \cup (IF Enabled(f, "electra") THEN {"requests"} ELSE {})
ToBid(h, block) ==
  [kind |-> "bid", fork |-> h.fork,
   at |-> h.at @@ [k \in BidFieldsOf(h.fork) \ FieldsOf(h.fork) |-> block[k]]]

\* from_ssz_bytes_by_fork of a payload, a header and a bid.
LayoutOf(kind, f) == IF kind = "bid" THEN BidFieldsOf(f) ELSE FieldsOf(f)
Supports(kind, f) == f \in IF kind = "payload" THEN Merged ELSE Merged \ {"gloas"}
FromBytesByFork(b, f) ==
  IF Supports(b.of, f) /\ DOMAIN b.at = LayoutOf(b.of, f) /\ (b.of = "payload" => ProofFits(b.at))
  THEN [kind |-> b.of, fork |-> f, at |-> b.at] ELSE Refused("layout")

\* The reading of the database that knows no fork tries one after the other.
StoreOrder == <<"daisugi", "gloas", "fulu", "electra", "deneb", "capella", "bellatrix">>
FromStoreBytes(b) ==
  LET fits == SelectSeq(StoreOrder, LAMBDA f : FromBytesByFork(b, f).kind # "refused")
  IN IF fits = <<>> THEN Refused("layout") ELSE FromBytesByFork(b, fits[1])

\* context_deserialize of the consensus types: known fields only.
FromStrictJson(j, f) == IF DOMAIN j.at = FieldsOf(f) THEN FromJson(j, f) ELSE Refused("fields")

\* A header out of a bid, for a block of fork f.
HeaderFor(h, f) ==
  IF h.fork = f THEN [kind |-> "header", fork |-> f, at |-> Restrict(h.at, FieldsOf(f))]
  ELSE Refused("variant")
-----------------------------------------------------------------------------
\* What is in a field of a new payload, and what else it could hold.
FirstValue(k, txs) ==
  CASE k = "transactions" -> txs [] k = "proof" -> "proof 1" [] OTHER -> <<1>>
OtherValues(k) ==
  CASE k = "transactions" -> Transactions
    [] k = "proof"        -> {"proof 2", EmptySet, NoBytes}
    [] k = "block_hash"   -> {Zero}
    [] OTHER              -> {<<2>>}

FormInit ==
  \E f \in Merged, txs \in Transactions, requests \in {{}, {"deposit", "consolidation"}} :
    LET root == IF Enabled(f, "deneb") THEN 1 ELSE Never
        asked == IF Enabled(f, "electra") THEN requests ELSE Never
        p == [kind |-> "payload", fork |-> f, at |-> [k \in FieldsOf(f) |-> FirstValue(k, txs)]]
    IN /\ \A i \in DOMAIN txs : txs[i].is # "empty"
       /\ Parses(txs)
       /\ requests = {} \/ Enabled(f, "electra")
       /\ made = [payload |-> [p EXCEPT !.at.block_hash = EngineHash(p, root, asked)],
                  block   |-> [root |-> root, requests |-> asked,
                               commitments |-> VersionedHashes(txs)]]
       /\ form = made.payload
       /\ changed = "nothing"

Become(x) == form' = x /\ UNCHANGED <<made, changed>>

\* Another payload comes under the name of this one: one field of it is different.
Replace ==
  /\ form.kind = "payload" /\ changed = "nothing" /\ form.fork = made.payload.fork
  /\ \E k \in FieldsOf(form.fork) : \E v \in OtherValues(k) \ {form.at[k]} :
       /\ form' = [form EXCEPT !.at[k] = v]
       /\ changed' = k
  /\ UNCHANGED made

Blind == form.kind = "payload" /\ Become(ToHeader(form))
Store == form.kind \in {"payload", "header"} /\ Become(ToBytes(form))
Tell == form.kind \in {"payload", "header"} /\ Become(ToJson(form) @@ [of |-> form.kind])
Answer ==
  /\ form.kind = "payload"
  /\ \E list \in RequestLists \cup {ListRequests(IF made.block.requests = Never THEN {} ELSE made.block.requests)} :
       Become(ToResponse(form, list))

Load == form.kind = "bytes" /\ \E f \in ForkName : Become(FromBytesByFork(form, f))
LoadAny == form.kind = "bytes" /\ form.of = "payload" /\ Become(FromStoreBytes(form))
Receive == form.kind = "json" /\ form.of = "payload" /\ \E f \in Merged : Become(FromJson(form, f))
ReceiveStrict ==
  form.kind = "json" /\ \E f \in Merged \ {"gloas"} :
    LET x == FromStrictJson(form, f)
    IN Become(IF x.kind = "refused" THEN x ELSE [x EXCEPT !.kind = form.of])
ReceiveAnswer ==
  form.kind = "response" /\ \E f \in Merged :
    LET x == FromResponse(form, f)
    IN Become(IF x.kind = "refused" THEN x ELSE x @@ [requests |-> RequestsOf(form, f)])

Bid == form.kind = "header" /\ Become(ToBid(form, made.block))
ReadBid ==
  form.kind = "bid" /\ \E f \in ForkName : Become(FromBytesByFork(ToBytes(form), f))
TakeHeader == form.kind = "bid" /\ \E f \in Merged \ {"gloas"} : Become(HeaderFor(form, f))

\* The engine is asked for the body of a header; one that does not know of
\* proofs answers without them.
Rejoin ==
  /\ form.kind = "payload" /\ made.payload.fork # "gloas"
  /\ \E extended \in BOOLEAN :
       LET body == BodyOf(form)
           known == IF extended THEN DOMAIN body ELSE DOMAIN body \ {"proof", "deps"}
           whole == ToPayload(ToHeader(made.payload), Restrict(body, known))
       IN /\ form' = whole
          /\ changed' = IF whole = made.payload THEN "nothing" ELSE changed
  /\ UNCHANGED made

\* The payload stands in a block of its fork and is verified before the engine answers.
Verify ==
  /\ form.kind = "payload"
  /\ \E r \in (IF form.fork = "gloas" THEN {} ELSE RequestOf(form, made.block)) \cup RequestOfPayload(form) :
       Become([form EXCEPT !.kind = IF PerformOptimisticSyncVerifications(r)
                                    THEN "accepted" ELSE "rejected"])

FormNext ==
  \/ Replace \/ Blind \/ Store \/ Tell \/ Answer \/ Load \/ LoadAny
  \/ Receive \/ ReceiveStrict \/ ReceiveAnswer \/ Bid \/ ReadBid \/ TakeHeader
  \/ Rejoin \/ Verify
-----------------------------------------------------------------------------
(* Whatever forms a payload goes through, one that comes back whole has what  *)
(* its maker gave it, unless it was replaced on the way: read as another      *)
(* fork, by the engine's reader that overlooks fields or by the database's    *)
(* that knows no fork, it is refused, or it has the same fields, or a block   *)
(* of it would not verify.                                                    *)
SameLayout(f, g) == FieldsOf(f) = FieldsOf(g)

FormsReturn ==
  changed = "nothing" =>
    /\ form.kind = "payload" =>
         \/ form.at = made.payload.at /\ SameLayout(form.fork, made.payload.fork)
         \/ \A r \in RequestOf(form, made.block) : ~VerifiesBlockHash(r)
    /\ form.kind = "payload" /\ form.fork = made.payload.fork => form.at = made.payload.at
    /\ form.kind = "header" /\ SameLayout(form.fork, made.payload.fork) =>
         form.at = ToHeader(made.payload).at
    /\ form.kind = "payload" /\ "requests" \in DOMAIN form /\ form.fork = made.payload.fork =>
         form.requests = Never \/ form.requests \in {RequestsIn(l) : l \in RequestLists}
           \/ form.requests = made.block.requests

(* A payload whose block verifies is the one that was made, field by field,   *)
(* with its proof and commitment, and names the blobs of its block; the hash  *)
(* of a payload beside its proof is the same.  Gloas is not verified so.  A   *)
(* payload that differs in any field has another header.                      *)
VerifiedIsMade ==
  /\ form.kind = "header" /\ form.fork = made.payload.fork =>
       (form.at = ToHeader(made.payload).at <=> changed = "nothing")
  /\ form.kind = "accepted" /\ SameLayout(form.fork, made.payload.fork) => form.at = made.payload.at
  /\ form.kind = "accepted" /\ Enabled(form.fork, "deneb") =>
       VersionedHashes(form.at.transactions) = made.block.commitments
  /\ form.kind = "rejected" /\ form.fork = made.payload.fork => changed # "nothing"
  /\ form.kind \in {"payload", "accepted"} /\ form.fork = "daisugi" =>
       LET electra == [form EXCEPT !.fork = "electra", !.at = Restrict(form.at, FieldsOf("electra"))]
       IN AggregateBlockHash(electra, form.at.proof, form.at.deps, made.block.root, made.block.requests)
            = BlockHash(form, made.block.root, made.block.requests)

(* A body put to a header gives a payload with that header, except for lists  *)
(* of transactions and withdrawals the caller still compares: a proof or a    *)
(* commitment that is not the header's is never accepted.                     *)
RejoinedFits ==
  \A extended \in BOOLEAN :
    form.kind = "payload" /\ form.fork = made.payload.fork /\ form.fork # "gloas" =>
      LET header == ToHeader(made.payload)
          body == BodyOf(form)
          known == IF extended THEN DOMAIN body ELSE DOMAIN body \ {"proof", "deps"}
          p == ToPayload(header, Restrict(body, known))
      IN p.kind = "payload" =>
           \A k \in FieldsOf(p.fork) \ {"transactions", "withdrawals"} :
             ToHeader(p).at[k] = header.at[k]

(* A block that is stored without its payload comes back with the one it was  *)
(* made with or not at all, whatever the engine has under its number; it does *)
(* come back from its own body, and without the engine from before the merge. *)
BlocksReturn ==
  form.kind = "payload" /\ form.fork = made.payload.fork /\ form.fork # "gloas" =>
    LET header == ToHeader(made.payload)
        body == BodyOf(form)
        bodies == {body, Restrict(body, DOMAIN body \ {"proof", "deps"})}
        before == DefaultPayload(form.fork)
    IN /\ \A list \in {<<>>, <<{}>>, <<{body}, {body}>>} \cup {<<{b}>> : b \in bodies}, supported \in BOOLEAN :
            LET block == GetBlock(header, list, supported)
            IN block = made.payload \/ block.kind = "refused"
       /\ form.at = made.payload.at => GetBlock(header, <<{body}>>, TRUE) = made.payload
       /\ GetBlock(ToHeader(before), <<>>, FALSE) = before

(* The payload before the merge is known as such in every form: as a default  *)
(* with zero roots after each fork of the state, as a default with the roots  *)
(* of empty lists once blinded; no other payload is.                          *)
Boundary == [bellatrix |-> "capella", capella |-> "deneb", deneb |-> "electra",
             electra |-> "fulu"]
MergeKnown ==
  /\ \A f \in DOMAIN Boundary :
       \A g \in {Boundary[f]} \cup (IF f = "electra" THEN {"daisugi"} ELSE {}) :
         DefaultWithZeroRoots(UpgradedTo(DefaultHeader(f), g))
  /\ \A f \in Merged \ {"gloas"} :
       /\ DefaultWithEmptyRoots(ToHeader(DefaultPayload(f)))
       /\ ~DefaultWithZeroRoots(ToHeader(DefaultPayload(f)))
  /\ form.kind = "header" => ~DefaultWithZeroRoots(form) /\ ~DefaultWithEmptyRoots(form)

(* The engine is told what the payload of the proposal's fork is made from,   *)
(* neither less nor more, and of the block it is built on: the parent, with   *)
(* the parent's randomness, when the head is re-orged; from Gloas on the      *)
(* randomness is the head's in any case.  Builders are told all of it, with   *)
(* the number of that block, or, from Gloas on, nothing.                      *)
AttributesFit ==
  form = made.payload =>
    LET f == form.fork
        head == [root |-> "head", parent |-> "parent", number |-> 7]
    IN /\ PrePayloadAttributes(f, head, "other") = {}
       /\ \A on \in {"head", "parent"} : \A pre \in PrePayloadAttributes(f, head, on) :
            LET attributes == AttributesFor(f, pre) IN
            /\ \A pair \in {<<"withdrawals", "withdrawals">>, <<"root", "blob_gas">>, <<"slot_number", "slot">>} :
                 pair[1] \in DOMAIN attributes <=> pair[2] \in FieldsOf(f)
            /\ "gas_limit" \in DOMAIN attributes <=> f = "gloas"
            /\ "root" \in DOMAIN attributes => attributes.root = on
            /\ attributes.prev_randao = <<"randao", IF f = "gloas" THEN "head" ELSE on>>
            /\ IF f = "gloas" THEN pre.number = Never
               ELSE /\ FromEvent(ToEvent(attributes), f) = attributes
                    /\ pre.number = IF on = "head" THEN 7 ELSE 6
=============================================================================
