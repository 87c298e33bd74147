----------------------------- MODULE ProofCodec -----------------------------
(***************************************************************************)
(* What the native prover reads from strangers, twice over.                *)
(*                                                                         *)
(* The key of a STARK claim is the hash of the program's code.  The code   *)
(* is decoded by stark_program of native/ffi/src/lib.rs and encoded again  *)
(* by encode_program of eip8288_mixed.rs for the recursive guest: the two  *)
(* must mean the same programs.  A recursive proof is looked through by    *)
(* Preflight::mixed of the first and preflight_payload of the second before *)
(* anything is allocated, then wrapped in and out of an envelope.          *)
(***************************************************************************)
EXTENDS Integers, SequencesExt

CONSTANTS
  MaxBytes,      \* MAX_BYTES, MAX_PAYLOAD_BYTES
  MaxDeps,       \* MAX_DEPS
  StreamCap,     \* STREAM_CAP of the recursive verifier
  MaxPoints, MaxPhases, MaxRows,  \* 32, 128 and 4096
  Instructions,  \* encoded instructions that are tried
  Payloads,      \* payloads that are tried
  Lengths        \* lengths of payloads that a prover may come to

MaxDecode == 4 * MaxBytes    \* MAX_DECODE_BYTES

VARIABLES instruction, payload, envelope   \* what is being read
codecVars == <<instruction, payload, envelope>>
-----------------------------------------------------------------------------
(* An instruction is a tag and eleven fields: the operands 1 to 4, the halves
   5 to 10 of the three immediate limbs, the metadata 11. *)
Operands == 1..4
MaxOperand == 65535

(* The fields an operation of each tag has; encoding leaves the others zero. *)
Fields == [tag \in 0..6 |->
  CASE tag \in {0, 1, 4} -> 1..3
    [] tag = 2 -> {1} \cup 5..10
    [] tag = 3 -> 1..4
    [] tag = 5 -> 1..5 \cup {7, 11}
    [] tag = 6 -> 1..11]

(* The operation that is meant, and the bytes it has: a round trip drops every
   field the operation does not have. *)
Encoded(i) == [i EXCEPT !.field = [f \in 1..11 |-> IF f \in Fields[i.tag] THEN @[f] ELSE 0]]

(* Mutant of Sha3Bounds: the digest cell has the bound of any other operand. *)
Sha3BoundsOperands(x) == \A f \in 5..10 : x[f] <= MaxOperand

(* Sha3 writes cells beyond its last two operands. *)
Sha3Bounds(x) ==
  (\A f \in 5..8 : x[f] <= MaxOperand) /\ x[9] <= MaxOperand - 4 /\ x[10] <= MaxOperand - 12

(* stark_program: the bounds, the tag, and the round trip. *)
StarkReads(i) ==
  LET x == i.field IN
  /\ i.tag \in 0..6
  /\ \A f \in Operands \cup {11} : x[f] <= MaxOperand
  /\ i.tag = 3 => x[4] \in 0..2
  /\ i.tag = 5 => x[5] <= MaxOperand /\ x[6] = 0 /\ x[7] <= MaxOperand /\ x[8] = 0
  /\ i.tag = 6 => x[11] <= 1 /\ Sha3Bounds(x)
  /\ Encoded(i) = i

(* encode_program of eip8288_mixed.rs, of an operation that was decoded. *)
GuestEncodes(i) ==
  LET x == i.field IN
  /\ i.tag = 5 => x[5] <= 65535 /\ x[7] <= 65535
  /\ i.tag = 6 => (\A f \in 1..8 : x[f] <= 65535) /\ x[9] <= 65531 /\ x[10] <= 65523
  /\ \A f \in (Operands \cap Fields[i.tag]) \cup ({11} \cap Fields[i.tag]) : x[f] <= 65535
-----------------------------------------------------------------------------
(* A payload is three points, a scalar stream and phases of rows and digests,
   each a count and that many values; "extra" bytes may be missing or added. *)
RowsLength(p) == FoldLeft(LAMBDA n, row : n + 8 + 8 * row, 0, p.rows)
Length(p) ==
  FoldLeft(LAMBDA n, v : n + 8 + 24 * v, 0, p.points) + 8 + 24 * p.stream + 8
    + FoldLeft(LAMBDA n, ph : n + 16 + RowsLength(ph) + 32 * ph.digests, 0, p.phases) + p.extra

Take(s, n) == IF s.ok /\ n <= s.left THEN [s EXCEPT !.left = @ - n]
              ELSE [s EXCEPT !.ok = FALSE]

(* Both readers charge against a budget what decoding will allocate. *)
Charge(s, n) == IF s.ok /\ s.allocated + n <= MaxDecode THEN [s EXCEPT !.allocated = @ + n]
                ELSE [s EXCEPT !.ok = FALSE]

(* A count is believed only as far as the bytes that are left could hold it. *)
Count(s, n, max, width) ==
  LET after == Take(s, 8) IN
  [after EXCEPT !.ok = @ /\ n <= max /\ n <= after.left \div width]

(* Mutant of BoundaryCount: the budget is charged twice what a count takes. *)
BoundaryCountTwice(s, n, max, width) ==
  LET counted == Count(s, n, max, width) IN Charge(counted, 6 * n * width)

(* Preflight::count charges every count, preflight_payload none. *)
BoundaryCount(s, n, max, width) ==
  LET counted == Count(s, n, max, width) IN Charge(counted, n * width)

Scan(CountOf(_, _, _, _), p, streamMax) ==
  LET Vector(s, n, max, width) == Take(CountOf(s, n, max, width), n * width)
      Row(s, n) == Vector(s, n, MaxBytes \div 8, 8)
      Phase(s, ph) ==
        LET rows == Charge(CountOf(s, Len(ph.rows), MaxRows, 8), 24 * Len(ph.rows))
        IN Vector(FoldLeft(Row, rows, ph.rows), ph.digests, MaxBytes \div 32, 32)
      points == FoldLeft(LAMBDA s, n : Vector(s, n, MaxPoints, 24),
                         [ok |-> TRUE, left |-> Length(p), allocated |-> 0], p.points)
      stream == Vector(points, p.stream, streamMax, 24)
  IN FoldLeft(Phase, CountOf(stream, Len(p.phases) + p.more, MaxPhases, 16), p.phases)

(* Nothing may be left over, and a phase that is announced must be there. *)
Complete(s, p) == s.ok /\ s.left = 0 /\ p.more = 0

BoundaryAccepts(p) ==
  Length(p) <= MaxBytes /\ Complete(Scan(BoundaryCount, p, MaxBytes \div 24), p)
GuestAccepts(p) == Length(p) <= MaxBytes /\ Complete(Scan(Count, p, StreamCap), p)
-----------------------------------------------------------------------------
MaxMixed == MaxBytes - 12 - 96 * MaxDeps    \* MAX_MIXED_GUEST_BYTES

(* Mutant of Wrapped: only the whole envelope is bounded. *)
WrappedWhole(deps, length) == 12 + 96 * deps + length <= MaxBytes

(* The end of prove_aggregate: magic, claims and payload. *)
Wrapped(deps, length) == length <= MaxMixed /\ 12 + 96 * deps + length <= MaxBytes

(* decode_aggregate_with_hash, of an envelope that is what it says. *)
Unwrapped(deps, length) ==
  /\ 12 + 96 * deps + length <= MaxBytes
  /\ deps <= MaxDeps
  /\ length <= MaxMixed
  /\ (length = 0) = (deps = 0)
-----------------------------------------------------------------------------
Nothing == [none |-> TRUE]

CodecInit == instruction = Nothing /\ payload = Nothing /\ envelope = Nothing

ReadInstruction ==
  /\ instruction = Nothing /\ payload = Nothing /\ envelope = Nothing
  /\ instruction' \in Instructions
  /\ UNCHANGED <<payload, envelope>>

ReadPayload ==
  /\ instruction = Nothing /\ payload = Nothing /\ envelope = Nothing
  /\ payload' \in Payloads
  /\ UNCHANGED <<instruction, envelope>>

MakeEnvelope ==
  /\ instruction = Nothing /\ payload = Nothing /\ envelope = Nothing
  /\ \E deps \in 0..MaxDeps, length \in Lengths :
       /\ (length = 0) = (deps = 0)
       /\ Wrapped(deps, length)
       /\ envelope' = [deps |-> deps, length |-> length]
  /\ UNCHANGED <<instruction, payload>>

CodecNext == ReadInstruction \/ ReadPayload \/ MakeEnvelope
CodecSpec == CodecInit /\ [][CodecNext]_codecVars
-----------------------------------------------------------------------------
(* A program that is admitted as a STARK claim can be proved recursively under
   the same key: the second encoder neither refuses it nor writes other bytes. *)
CodecsAgree ==
  instruction # Nothing /\ StarkReads(instruction)
    => GuestEncodes(instruction) /\ Encoded(instruction) = instruction

(* The budget of the boundary never refuses what the verifier behind it reads:
   whatever fits into a proof fits into the budget. *)
BoundaryNoStricter == payload # Nothing /\ GuestAccepts(payload) => BoundaryAccepts(payload)

(* A proof the prover hands out is one the verifier takes in, at every number of
   claims: the bound on the payload leaves room for the largest set of claims. *)
EnvelopeReturns == envelope # Nothing => Unwrapped(envelope.deps, envelope.length)
=============================================================================
