------------------------ MODULE LeanProofStoreProofs ------------------------
(* Theorems about the witness store, for every value of its constants. *)
EXTENDS LeanProofStore, SubsequenceProofs, SequenceTheorems

-----------------------------------------------------------------------------
(* The records of a table and the tables built from one. *)
LEMMA UsedType == \A t \in Table : Used(t) \in SUBSET Record
  BY DEF Used

LEMMA UsedEmpty == \A t \in Table : Used(t) = {} <=> t = Empty
  <1> SUFFICES ASSUME NEW t \in Table PROVE Used(t) = {} <=> t = Empty
    OBVIOUS
  <1>1. ASSUME t = Empty PROVE Used(t) = {}
    BY <1>1, NoneAssumption DEF Empty, Used
  <1>2. ASSUME Used(t) = {} PROVE t = Empty
    BY <1>2 DEF Empty, Used, Table
  <1> QED
    BY <1>1, <1>2

LEMMA HeldCases ==
  /\ \A f \in Flow : Held(f) = Used(scope[f]) /\ ChargedTo(f) = None
  /\ \A l \in Lease : Held(l) = lease[l].records /\ ChargedTo(l) = lease[l].sender
  /\ \A t \in Tx : Held(t) = Used(pending[t]) /\ ChargedTo(t) = TxSender[t]
  BY HolderAssumption DEF Held, ChargedTo

LEMMA HoldersFinite == \A r : IsFiniteSet(HoldersOf(r)) /\ Cardinality(HoldersOf(r)) \in Nat
  <1> SUFFICES ASSUME NEW r
               PROVE  IsFiniteSet(HoldersOf(r)) /\ Cardinality(HoldersOf(r)) \in Nat
    OBVIOUS
  <1>1. HoldersOf(r) \in SUBSET Holder
    BY DEF HoldersOf
  <1> QED
    BY <1>1, FiniteAssumption, FS_Subset, FS_CardinalityType
-----------------------------------------------------------------------------
LEMMA TableTypes ==
  ASSUME TypeOK
  PROVE  /\ Empty \in Table
         /\ \A t \in Table : \A S : Only(t, S) \in Table
         /\ \A c, t \in Table : \A p : Published(c, p, t) \in Table
         /\ \A S : Uncovered(S) \in Table
         /\ \A f \in Flow : \A S : Resolved(f, S) \in Table
  BY DEF TypeOK, Empty, Table, Only, Published, Uncovered, Resolved, Resolve

(* A holder that had nothing takes the records S, pinning each once. *)
LEMMA AcquirePins ==
  ASSUME TypeOK, PinAccounting, NEW h \in Holder, NEW S \in SUBSET Record,
         Held(h) = {}, Held(h)' = S,
         \A g \in Holder \ {h} : Held(g)' = Held(g),
         pins' = AddPins(S)
  PROVE  PinAccounting' /\ pins' \in [Record -> Nat]
  <1> SUFFICES ASSUME NEW r \in Record
               PROVE  pins'[r] = Cardinality(HoldersOf(r)') /\ pins'[r] \in Nat
    BY DEF PinAccounting, AddPins
  <1>1. pins[r] = Cardinality(HoldersOf(r)) /\ pins[r] \in Nat
    BY DEF PinAccounting, TypeOK
  <1>2. CASE r \in S
    <2>1. HoldersOf(r)' = HoldersOf(r) \cup {h} /\ h \notin HoldersOf(r)
      BY <1>2 DEF HoldersOf
    <2>2. Cardinality(HoldersOf(r) \cup {h}) = Cardinality(HoldersOf(r)) + 1
      BY <2>1, HoldersFinite, FS_AddElement
    <2> QED
      BY <1>1, <1>2, <2>1, <2>2 DEF AddPins
  <1>3. CASE r \notin S
    <2>1. HoldersOf(r)' = HoldersOf(r)
      BY <1>3 DEF HoldersOf
    <2> QED
      BY <1>1, <1>3, <2>1 DEF AddPins
  <1> QED
    BY <1>2, <1>3

(* A holder gives up all it held, releasing each record once. *)
LEMMA ReleasePins ==
  ASSUME TypeOK, PinAccounting, NEW h \in Holder, Held(h) \in SUBSET Record,
         Held(h)' = {},
         \A g \in Holder \ {h} : Held(g)' = Held(g),
         pins' = DropPins(Held(h))
  PROVE  PinAccounting' /\ pins' \in [Record -> Nat]
  <1> SUFFICES ASSUME NEW r \in Record
               PROVE  pins'[r] = Cardinality(HoldersOf(r)') /\ pins'[r] \in Nat
    BY DEF PinAccounting, DropPins
  <1>1. pins[r] = Cardinality(HoldersOf(r)) /\ pins[r] \in Nat
    BY DEF PinAccounting, TypeOK
  <1>2. CASE r \in Held(h)
    <2>1. HoldersOf(r)' = HoldersOf(r) \ {h} /\ h \in HoldersOf(r)
      BY <1>2 DEF HoldersOf
    <2>2. /\ Cardinality(HoldersOf(r) \ {h}) = Cardinality(HoldersOf(r)) - 1
          /\ IsFiniteSet(HoldersOf(r) \ {h})
      BY <2>1, HoldersFinite, FS_RemoveElement
    <2>3. Cardinality(HoldersOf(r) \ {h}) \in Nat
      BY <2>2, FS_CardinalityType
    <2> QED
      BY <1>1, <1>2, <2>1, <2>2, <2>3 DEF DropPins
  <1>3. CASE r \notin Held(h)
    <2>1. HoldersOf(r)' = HoldersOf(r)
      BY <1>3 DEF HoldersOf
    <2> QED
      BY <1>1, <1>3, <2>1 DEF DropPins
  <1> QED
    BY <1>2, <1>3

(* Nobody holds what is not pinned. *)
LEMMA UnpinnedNotHeld ==
  ASSUME PinAccounting, NEW r \in Record, pins[r] = 0
  PROVE  \A h \in Holder : r \notin Held(h)
  <1>1. Cardinality(HoldersOf(r)) = 0
    BY DEF PinAccounting
  <1>2. HoldersOf(r) = {}
    BY <1>1, HoldersFinite, FS_EmptySet
  <1> QED
    BY <1>2 DEF HoldersOf

(* Removing records that end up unpinned takes nothing from a holder. *)
LEMMA RemovalKeepsHeld ==
  ASSUME PinAccounting', NEW out \in SUBSET Record, NEW in \in SUBSET Record,
         \A r \in out : pins'[r] = 0,
         identities' = (identities \ out) \cup in,
         \A h \in Holder : Held(h)' \subseteq identities \cup in
  PROVE  HeldRecordsStored'
  <1> SUFFICES ASSUME NEW h \in Holder, NEW r \in Held(h)'
               PROVE  r \in identities'
    BY DEF HeldRecordsStored
  <1>1. CASE r \in out
    <2>1. Cardinality(HoldersOf(r)') = 0
      BY <1>1 DEF PinAccounting
    <2>2. IsFiniteSet(HoldersOf(r)')
      BY FiniteAssumption, FS_Subset DEF HoldersOf
    <2>3. HoldersOf(r)' = {}
      BY <2>1, <2>2, FS_EmptySet
    <2> QED
      BY <2>3 DEF HoldersOf
  <1> QED
    BY <1>1
-----------------------------------------------------------------------------
(* MakeRoom removes stored records nobody pins, and nothing when nothing is
   to arrive. *)
LEMMA EvictedUnpinned ==
  ASSUME TypeOK, NEW p \in [Record -> Nat], NEW in \in SUBSET Record
  PROVE  /\ Evicted(p, in) \in SUBSET identities
         /\ Evicted(p, in) \in SUBSET Record
         /\ \A r \in Evicted(p, in) : p[r] = 0
         /\ in = {} => Evicted(p, in) = {}
  BY DEF Evicted, Victims, TypeOK

LEMMA ReplaceBytes ==
  ASSUME TypeOK, BytesBounded,
         NEW out \in SUBSET identities, NEW in \in SUBSET Record,
         in \cap identities = {}, Replace(out, in),
         in = {} \/ Fits(out, in)
  PROVE  BytesBounded' /\ storedBytes' \in Nat
  <1>1. /\ identities \in SUBSET Record /\ out \in SUBSET Record
        /\ identities \ out \in SUBSET Record /\ (identities \ out) \cup in \in SUBSET Record
    BY DEF TypeOK
  <1>2. Bytes[identities] = Bytes[identities \ out] + Bytes[out]
    <2>1. (identities \ out) \cup out = identities /\ (identities \ out) \cap out = {}
      OBVIOUS
    <2> QED
      BY <1>1, <2>1, BytesAssumption
  <1>3. Bytes[(identities \ out) \cup in] = Bytes[identities \ out] + Bytes[in]
    BY <1>1, BytesAssumption
  <1>4. /\ Bytes[identities] \in Nat /\ Bytes[out] \in Nat /\ Bytes[in] \in Nat
        /\ Bytes[identities \ out] \in Nat
    BY <1>1, BytesAssumption
  <1>5. storedBytes' = Bytes[identities']
    BY <1>2, <1>3, <1>4 DEF Replace, BytesBounded
  <1>6. storedBytes' <= MaxStoredBytes
    <2>1. CASE in = {}
      BY <2>1, <1>4, BytesAssumption, LimitAssumption DEF Replace, BytesBounded
    <2>2. CASE Fits(out, in)
      BY <2>2 DEF Fits, Replace
    <2> QED
      BY <2>1, <2>2
  <1>7. storedBytes' \in Nat
    BY <1>1, <1>5, BytesAssumption DEF Replace
  <1> QED
    BY <1>5, <1>6, <1>7 DEF BytesBounded

-----------------------------------------------------------------------------
(* Tables whose entries are stored and prove what they stand for, and counts
   of the entries that lead to a record. *)
Sound(c, ids) == \A d \in Dep : c[d] # None => c[d] \in ids /\ d \in DepsOf[c[d]]

Counted(c, ids, n) == \A r \in ids : n[r] = Cardinality({d \in Dep : c[d] = r})

LEMMA PublishedSound ==
  ASSUME NEW ids, NEW p, NEW c \in Table, NEW t \in Table, Sound(c, ids), Sound(t, ids)
  PROVE  Sound(Published(c, p, t), ids)
  BY DEF Sound, Published, Table

LEMMA DepsFinite ==
  \A S \in SUBSET Dep : IsFiniteSet(S) /\ Cardinality(S) \in Nat
  BY FiniteAssumption, FS_Subset, FS_CardinalityType

(* What a finite set gains and loses on the way to another one. *)
LEMMA CardinalityMove ==
  ASSUME NEW X, NEW Y, IsFiniteSet(X), IsFiniteSet(Y)
  PROVE  /\ Cardinality(X) \in Nat /\ Cardinality(Y) \in Nat
         /\ Cardinality(Y \ X) \in Nat /\ Cardinality(X \ Y) \in Nat
         /\ Cardinality(Y) = Cardinality(X) + Cardinality(Y \ X) - Cardinality(X \ Y)
  <1>1. Y \cap X = X \cap Y
    OBVIOUS
  <1>2. IsFiniteSet(X \ Y) /\ Cardinality(X \ Y) = Cardinality(X) - Cardinality(X \cap Y)
    BY FS_Difference
  <1>3. IsFiniteSet(Y \ X) /\ Cardinality(Y \ X) = Cardinality(Y) - Cardinality(X \cap Y)
    BY <1>1, FS_Difference
  <1>4. IsFiniteSet(X \cap Y)
    BY FS_Intersection
  <1> QED
    BY <1>2, <1>3, <1>4, FS_CardinalityType

LEMMA RecountedCounts ==
  ASSUME NEW ids \in SUBSET Record, NEW n \in [Record -> Nat],
         NEW c \in Table, NEW new \in Table, Sound(c, ids), Counted(c, ids, n)
  PROVE  /\ Counted(new, ids, Recounted(c, new, n))
         /\ Recounted(c, new, n) \in [Record -> Nat]
  <1> DEFINE A(r) == {d \in Dep : c[d] = r}
             B(r) == {d \in Dep : new[d] = r}
             Gained(r) == {d \in Dep : new[d] = r /\ c[d] # r}
             Lost(r) == {d \in Dep : c[d] = r /\ new[d] # r}
  <1>1. ASSUME NEW r \in Record
        PROVE  /\ Cardinality(A(r)) \in Nat /\ Cardinality(B(r)) \in Nat
               /\ Cardinality(Gained(r)) \in Nat /\ Cardinality(Lost(r)) \in Nat
               /\ Cardinality(B(r)) = Cardinality(A(r)) + Cardinality(Gained(r)) - Cardinality(Lost(r))
    <2>1. IsFiniteSet(A(r)) /\ IsFiniteSet(B(r))
      BY DepsFinite
    <2>2. Gained(r) = B(r) \ A(r) /\ Lost(r) = A(r) \ B(r)
      OBVIOUS
    <2> HIDE DEF A, B, Gained, Lost
    <2>3. /\ Cardinality(A(r)) \in Nat /\ Cardinality(B(r)) \in Nat
          /\ Cardinality(B(r) \ A(r)) \in Nat /\ Cardinality(A(r) \ B(r)) \in Nat
          /\ Cardinality(B(r)) = Cardinality(A(r)) + Cardinality(B(r) \ A(r)) - Cardinality(A(r) \ B(r))
      BY <2>1, CardinalityMove, Zenon
    <2> QED
      BY <2>2, <2>3
  <1>2. ASSUME NEW r \in Record
        PROVE  Recounted(c, new, n)[r] = n[r] + Cardinality(Gained(r)) - Cardinality(Lost(r))
    BY DEF Recounted
  <1>3. ASSUME NEW r \in ids
        PROVE  n[r] = Cardinality(A(r))
    BY DEF Counted
  <1>4. ASSUME NEW r \in Record, r \notin ids
        PROVE  Lost(r) = {}
    BY <1>4, NoneAssumption DEF Sound
  <1>5. Cardinality({}) = 0
    BY FS_EmptySet
  <1>6. \A r \in ids : Recounted(c, new, n)[r] = Cardinality(B(r))
    <2> HIDE DEF A, B, Gained, Lost
    <2> QED
      BY <1>1, <1>2, <1>3
  <1>7. ASSUME NEW r \in Record
        PROVE  Recounted(c, new, n)[r] \in Nat
    <2>1. CASE r \in ids
      BY <1>1, <1>6, <2>1
    <2>2. CASE r \notin ids
      <3>1. Cardinality(Lost(r)) = 0 /\ n[r] \in Nat /\ Cardinality(Gained(r)) \in Nat
        BY <1>1, <1>4, <1>5, <2>2
      <3> QED
        BY <1>2, <3>1
    <2> QED
      BY <2>1, <2>2
  <1>8. Recounted(c, new, n) = [r \in Record |-> Recounted(c, new, n)[r]]
    BY DEF Recounted
  <1> QED
    BY <1>6, <1>7, <1>8 DEF Counted

(* Records leave with the coverage that pointed at them; the records that
   arrive are covered by nothing. *)
LEMMA UncoveredSound ==
  ASSUME TypeOK, CoverageSound, NEW out \in SUBSET identities, NEW in \in SUBSET Record
  PROVE  Sound(Uncovered(out), (identities \ out) \cup in)
  BY DEF TypeOK, CoverageSound, Sound, Uncovered, Table

LEMMA UncoveredCounted ==
  ASSUME TypeOK, CoverageSound, CoverageCounted,
         NEW out \in SUBSET identities, NEW in \in SUBSET Record, in \cap identities = {},
         NEW n \in [Record -> Nat],
         \A r \in Record : n[r] = IF r \in in THEN 0 ELSE covered[r]
  PROVE  Counted(Uncovered(out), (identities \ out) \cup in, n)
  <1> SUFFICES ASSUME NEW r \in (identities \ out) \cup in
               PROVE  n[r] = Cardinality({d \in Dep : Uncovered(out)[d] = r})
    BY DEF Counted
  <1>1. r \in Record /\ r # None /\ r \notin out
    BY NoneAssumption DEF TypeOK
  <1>2. CASE r \in in
    <2>1. {d \in Dep : Uncovered(out)[d] = r} = {}
      BY <1>1, <1>2 DEF Uncovered, CoverageSound
    <2> QED
      BY <1>1, <1>2, <2>1, FS_EmptySet
  <1>3. CASE r \notin in
    <2>1. {d \in Dep : Uncovered(out)[d] = r} = {d \in Dep : coverage[d] = r}
      BY <1>1 DEF Uncovered
    <2> QED
      BY <1>1, <1>3, <2>1 DEF CoverageCounted
  <1> QED
    BY <1>2, <1>3
-----------------------------------------------------------------------------
(* The holders of a record that are charged to a sender, and the records a
   sender is charged for. *)
Charged(s, r) == {h \in HoldersOf(r) : ChargedTo(h) = s}
Charges(s) == {r \in Record : senders[s][r] > 0}

LedgerType == /\ senders \in [Sender -> [Record -> Nat]]
              /\ senderBytes \in [Sender -> Nat]

LEMMA ChargedFinite ==
  \A s, r : IsFiniteSet(Charged(s, r)) /\ Cardinality(Charged(s, r)) \in Nat
  <1> SUFFICES ASSUME NEW s, NEW r
               PROVE  IsFiniteSet(Charged(s, r)) /\ Cardinality(Charged(s, r)) \in Nat
    OBVIOUS
  <1>1. Charged(s, r) \in SUBSET HoldersOf(r)
    BY DEF Charged
  <1> QED
    BY <1>1, HoldersFinite, FS_Subset, FS_CardinalityType

LEMMA RecordsFinite ==
  \A S \in SUBSET Record : IsFiniteSet(S) /\ Cardinality(S) \in Nat
  BY FiniteAssumption, FS_Subset, FS_CardinalityType

LEMMA SenderUnchanged ==
  ASSUME SenderBounded, UNCHANGED ledger,
         \A s \in Sender, r \in Record : Charged(s, r)' = Charged(s, r)
  PROVE  SenderBounded'
  <1>1. senders' = senders /\ senderBytes' = senderBytes
    BY DEF ledger
  <1>2. ASSUME NEW s \in Sender, NEW r \in Record
        PROVE  senders'[s][r] = Cardinality(Charged(s, r)')
    BY <1>1 DEF SenderBounded, Charged
  <1> QED
    BY <1>1, <1>2 DEF SenderBounded, Charged

(* A holder charged to s takes the records S within the limits of s. *)
LEMMA TakeSenderBounded ==
  ASSUME TypeOK, SenderBounded,
         NEW h \in Holder, NEW s \in Sender, NEW S \in SUBSET Record,
         Held(h) = {}, Held(h)' = S, ChargedTo(h)' = s,
         \A g \in Holder \ {h} : Held(g)' = Held(g) /\ ChargedTo(g)' = ChargedTo(g),
         CanTake(s, S), TakeSender(s, S)
  PROVE  SenderBounded' /\ LedgerType'
  <1>1. /\ senders[s] \in [Record -> Nat] /\ senderBytes[s] \in Nat
        /\ senders' = [senders EXCEPT ![s] = [r \in Record |-> IF r \in S THEN senders[s][r] + 1 ELSE senders[s][r]]]
        /\ senderBytes' = [senderBytes EXCEPT ![s] = senderBytes[s] + Bytes[Fresh(s, S)]]
    BY DEF TypeOK, TakeSender
  <1>2. /\ Fresh(s, S) \in SUBSET Record /\ Charges(s) \in SUBSET Record
        /\ Bytes[Fresh(s, S)] \in Nat /\ Bytes[Charges(s)] \in Nat
    BY BytesAssumption DEF Fresh, Charges
  <1>3. LedgerType'
    BY <1>1, <1>2 DEF TypeOK, LedgerType
  <1>4. ASSUME NEW q \in Sender, NEW r \in Record
        PROVE  senders'[q][r] = Cardinality(Charged(q, r)')
    <2>1. senders[q][r] = Cardinality(Charged(q, r)) /\ senders[q][r] \in Nat
      BY DEF SenderBounded, Charged, TypeOK
    <2>2. CASE q = s /\ r \in S
      <3>1. Charged(q, r)' = Charged(q, r) \cup {h} /\ h \notin Charged(q, r)
        BY <2>2 DEF Charged, HoldersOf
      <3>2. Cardinality(Charged(q, r) \cup {h}) = Cardinality(Charged(q, r)) + 1
        BY <3>1, ChargedFinite, FS_AddElement
      <3>3. senders'[q][r] = senders[q][r] + 1
        BY <1>1, <2>2 DEF TypeOK
      <3> QED
        BY <2>1, <3>1, <3>2, <3>3
    <2>3. CASE ~(q = s /\ r \in S)
      <3>1. Charged(q, r)' = Charged(q, r)
        BY <2>3 DEF Charged, HoldersOf
      <3>2. senders'[q][r] = senders[q][r]
        BY <1>1, <2>3 DEF TypeOK
      <3> QED
        BY <2>1, <3>1, <3>2
    <2> QED
      BY <2>2, <2>3
  <1>5. ASSUME NEW q \in Sender \ {s}
        PROVE  Charges(q)' = Charges(q) /\ senderBytes'[q] = senderBytes[q]
    BY <1>1 DEF Charges, TypeOK
  <1>6. /\ Charges(s)' = Charges(s) \cup Fresh(s, S)
        /\ Charges(s)' = Charges(s) \cup S
        /\ Charges(s) \cap Fresh(s, S) = {}
    BY <1>1 DEF Charges, Fresh, TypeOK
  <1>7. senderBytes'[s] = Bytes[Charges(s)']
    <2>1. senderBytes[s] = Bytes[Charges(s)]
      BY DEF SenderBounded, Charges
    <2>2. Bytes[Charges(s) \cup Fresh(s, S)] = Bytes[Charges(s)] + Bytes[Fresh(s, S)]
      BY <1>2, <1>6, BytesAssumption
    <2>3. senderBytes'[s] = senderBytes[s] + Bytes[Fresh(s, S)]
      BY <1>1 DEF TypeOK
    <2> QED
      BY <1>6, <2>1, <2>2, <2>3
  <1>8. senderBytes'[s] <= MaxSenderPinnedBytes /\ Cardinality(Charges(s)') <= MaxSenderPinnedRecords
    <2>1. senderBytes'[s] = senderBytes[s] + Bytes[Fresh(s, S)]
      BY <1>1 DEF TypeOK
    <2>2. CASE S = {}
      <3>1. Fresh(s, S) = {} /\ Charges(s)' = Charges(s)
        BY <1>6, <2>2 DEF Fresh
      <3>2. senderBytes[s] <= MaxSenderPinnedBytes /\ Cardinality(Charges(s)) <= MaxSenderPinnedRecords
        BY DEF SenderBounded, Charges
      <3> QED
        BY <1>1, <2>1, <3>1, <3>2, BytesAssumption
    <2>3. CASE S # {}
      <3>1. /\ senderBytes[s] + Bytes[Fresh(s, S)] <= MaxSenderPinnedBytes
            /\ Cardinality(Charges(s) \cup S) <= MaxSenderPinnedRecords
        BY <2>3 DEF CanTake, Charges
      <3> QED
        BY <1>6, <2>1, <3>1
    <2> QED
      BY <2>2, <2>3
  <1>9. ASSUME NEW q \in Sender
        PROVE  /\ senderBytes'[q] = Bytes[Charges(q)']
               /\ senderBytes'[q] <= MaxSenderPinnedBytes
               /\ Cardinality(Charges(q)') <= MaxSenderPinnedRecords
    <2>1. CASE q = s
      BY <1>7, <1>8, <2>1
    <2>2. CASE q # s
      BY <1>5, <2>2 DEF SenderBounded, Charges
    <2> QED
      BY <2>1, <2>2
  <1> QED
    BY <1>3, <1>4, <1>9 DEF SenderBounded, Charges, Charged

(* A holder charged to s gives up all it held. *)
LEMMA ReleaseSenderBounded ==
  ASSUME TypeOK, SenderBounded,
         NEW h \in Holder, NEW s \in Sender, Held(h) \in SUBSET Record,
         Held(h)' = {}, ChargedTo(h) = s,
         \A g \in Holder \ {h} : Held(g)' = Held(g) /\ ChargedTo(g)' = ChargedTo(g),
         ReleaseSender(s, Held(h))
  PROVE  SenderBounded' /\ LedgerType'
  <1> DEFINE last == {r \in Held(h) : senders[s][r] = 1}
  <1>1. /\ senders[s] \in [Record -> Nat] /\ senderBytes[s] \in Nat
        /\ senders' = [senders EXCEPT ![s] = [r \in Record |-> IF r \in Held(h) THEN senders[s][r] - 1 ELSE senders[s][r]]]
        /\ senderBytes' = [senderBytes EXCEPT ![s] = senderBytes[s] - Bytes[last]]
    BY DEF TypeOK, ReleaseSender
  <1>2. ASSUME NEW q \in Sender, NEW r \in Record
        PROVE  senders'[q][r] = Cardinality(Charged(q, r)') /\ senders'[q][r] \in Nat
               /\ (q = s /\ r \in Held(h) => senders[q][r] > 0)
    <2>1. senders[q][r] = Cardinality(Charged(q, r)) /\ senders[q][r] \in Nat
      BY DEF SenderBounded, Charged, TypeOK
    <2>2. CASE q = s /\ r \in Held(h)
      <3>1. Charged(q, r)' = Charged(q, r) \ {h} /\ h \in Charged(q, r)
        BY <2>2 DEF Charged, HoldersOf
      <3>2. /\ Cardinality(Charged(q, r) \ {h}) = Cardinality(Charged(q, r)) - 1
            /\ Cardinality(Charged(q, r) \ {h}) \in Nat
        BY <3>1, ChargedFinite, FS_RemoveElement, FS_CardinalityType
      <3>3. senders'[q][r] = senders[q][r] - 1
        BY <1>1, <2>2 DEF TypeOK
      <3> QED
        BY <2>1, <3>1, <3>2, <3>3
    <2>3. CASE ~(q = s /\ r \in Held(h))
      <3>1. Charged(q, r)' = Charged(q, r)
        BY <2>3 DEF Charged, HoldersOf
      <3>2. senders'[q][r] = senders[q][r]
        BY <1>1, <2>3 DEF TypeOK
      <3> QED
        BY <2>1, <2>3, <3>1, <3>2
    <2> QED
      BY <2>2, <2>3
  <1>3. /\ last \in SUBSET Record /\ Charges(s) \in SUBSET Record /\ Charges(s)' \in SUBSET Record
        /\ Bytes[last] \in Nat /\ Bytes[Charges(s)] \in Nat /\ Bytes[Charges(s)'] \in Nat
    BY BytesAssumption DEF Charges
  <1>4. Charges(s) = Charges(s)' \cup last /\ Charges(s)' \cap last = {} /\ Charges(s)' \subseteq Charges(s)
    BY <1>1, <1>2 DEF Charges, TypeOK
  <1> HIDE DEF last
  <1>5. /\ senderBytes'[s] = Bytes[Charges(s)'] /\ senderBytes'[s] <= senderBytes[s]
        /\ senderBytes'[s] \in Nat
    <2>1. senderBytes[s] = Bytes[Charges(s)]
      BY DEF SenderBounded, Charges
    <2>2. Bytes[Charges(s)] = Bytes[Charges(s)'] + Bytes[last]
      BY <1>3, <1>4, BytesAssumption
    <2>3. senderBytes'[s] = senderBytes[s] - Bytes[last]
      BY <1>1 DEF TypeOK
    <2> QED
      BY <1>3, <2>1, <2>2, <2>3
  <1>6. Cardinality(Charges(s)') <= Cardinality(Charges(s))
    BY <1>3, <1>4, RecordsFinite, FS_Subset
  <1>7. ASSUME NEW q \in Sender
        PROVE  /\ senderBytes'[q] = Bytes[Charges(q)'] /\ senderBytes'[q] \in Nat
               /\ senderBytes'[q] <= MaxSenderPinnedBytes
               /\ Cardinality(Charges(q)') <= MaxSenderPinnedRecords
    <2>1. CASE q = s
      <3>1. senderBytes[s] <= MaxSenderPinnedBytes /\ Cardinality(Charges(s)) <= MaxSenderPinnedRecords
        BY DEF SenderBounded, Charges
      <3>2. Cardinality(Charges(s)') \in Nat /\ Cardinality(Charges(s)) \in Nat
        BY <1>3, RecordsFinite
      <3> QED
        BY <1>1, <1>5, <1>6, <2>1, <3>1, <3>2, LimitAssumption
    <2>2. CASE q # s
      <3>1. Charges(q)' = Charges(q) /\ senderBytes'[q] = senderBytes[q] /\ senderBytes[q] \in Nat
        BY <1>1, <2>2 DEF Charges, TypeOK
      <3> QED
        BY <3>1 DEF SenderBounded, Charges
    <2> QED
      BY <2>1, <2>2
  <1>8. LedgerType'
    <2>1. senders' \in [Sender -> [Record -> Nat]]
      <3>1. /\ DOMAIN senders' = Sender /\ senders' = [q \in Sender |-> senders'[q]]
            /\ \A q \in Sender : senders'[q] = [r \in Record |-> senders'[q][r]]
        BY <1>1 DEF TypeOK
      <3> QED
        BY <1>2, <3>1
    <2>2. senderBytes' = [q \in Sender |-> senderBytes'[q]]
      BY <1>1 DEF TypeOK
    <2> QED
      BY <1>7, <2>1, <2>2 DEF LedgerType
  <1> QED
    BY <1>2, <1>7, <1>8 DEF SenderBounded, Charges, Charged
-----------------------------------------------------------------------------
(* The inductive invariant: the checked properties, the types, and that the
   tables of scopes and pool entries map dependencies to records that prove
   them. *)
TablesSound == /\ \A f \in Flow : Sound(scope[f], Record)
               /\ \A t \in Tx : Sound(pending[t], Record)

IInv == /\ TypeOK /\ PinAccounting /\ HeldRecordsStored /\ CoverageSound
        /\ TablesSound /\ CoverageCounted /\ BytesBounded /\ SenderBounded

LEMMA InitIInv == Init => IInv
  <1> SUFFICES ASSUME Init PROVE IInv
    OBVIOUS
  <1> USE DEF Init
  <1>1. TypeOK
    BY BytesAssumption DEF TypeOK, Empty, Table, Free
  <1>2. Empty \in Table /\ Used(Empty) = {} /\ \A ids : Sound(Empty, ids)
    BY NoneAssumption DEF Empty, Table, Used, Sound
  <1>3. \A h \in Holder : Held(h) = {}
    BY <1>2 DEF Held, Holder, Free
  <1>4. /\ \A r : HoldersOf(r) = {}
        /\ \A s, r : {h \in HoldersOf(r) : ChargedTo(h) = s} = {}
    BY <1>3 DEF HoldersOf
  <1>5. PinAccounting /\ HeldRecordsStored
    BY <1>3, <1>4, FS_EmptySet DEF PinAccounting, HeldRecordsStored
  <1>6. CoverageSound /\ TablesSound /\ CoverageCounted
    BY <1>2 DEF CoverageSound, TablesSound, CoverageCounted, Sound
  <1>7. BytesBounded
    BY BytesAssumption, LimitAssumption DEF BytesBounded
  <1>8. SenderBounded
    <2> SUFFICES ASSUME NEW s \in Sender
                 PROVE  /\ \A r \in Record :
                              senders[s][r] = Cardinality({h \in HoldersOf(r) : ChargedTo(h) = s})
                        /\ senderBytes[s] = Bytes[{r \in Record : senders[s][r] > 0}]
                        /\ senderBytes[s] <= MaxSenderPinnedBytes
                        /\ Cardinality({r \in Record : senders[s][r] > 0}) <= MaxSenderPinnedRecords
      BY DEF SenderBounded
    <2>1. {r \in Record : senders[s][r] > 0} = {}
      OBVIOUS
    <2>2. senderBytes[s] = 0 /\ \A r \in Record : senders[s][r] = 0
      OBVIOUS
    <2> HIDE DEF Init
    <2>3. Cardinality({}) = 0
      BY FS_EmptySet
    <2>4. \A r \in Record : Cardinality({h \in HoldersOf(r) : ChargedTo(h) = s}) = 0
      BY <1>4, <2>3
    <2>5. Bytes[{r \in Record : senders[s][r] > 0}] = 0
      BY <2>1, BytesAssumption
    <2>6. Cardinality({r \in Record : senders[s][r] > 0}) = 0
      BY <2>1, <2>3
    <2>7. \A r \in Record : senders[s][r] = Cardinality({h \in HoldersOf(r) : ChargedTo(h) = s})
      BY <2>2, <2>4
    <2> QED
      BY <2>2, <2>5, <2>6, <2>7, LimitAssumption
  <1> QED
    BY <1>1, <1>5, <1>6, <1>7, <1>8 DEF IInv

LEMMA SoundForms ==
  /\ CoverageSound <=> Sound(coverage, identities)
  /\ CoverageCounted <=> Counted(coverage, identities, covered)
  BY DEF CoverageSound, CoverageCounted, Sound, Counted

(* What a flow resolves is stored and proves what it was asked for. *)
LEMMA ResolvedSound ==
  ASSUME IInv, NEW f \in Flow, NEW S
  PROVE  /\ Resolved(f, S) \in Table
         /\ Sound(Resolved(f, S), identities)
         /\ Used(Resolved(f, S)) \in SUBSET identities
         /\ Used(Resolved(f, S)) \in SUBSET Record
  <1>1. Resolved(f, S) \in Table
    BY TableTypes DEF IInv
  <1>2. \A d \in Dep : scope[f][d] # None => scope[f][d] \in identities /\ d \in DepsOf[scope[f][d]]
    <2>1. Used(scope[f]) \subseteq identities
      BY HeldCases DEF IInv, HeldRecordsStored, Holder
    <2> QED
      BY <2>1 DEF IInv, TypeOK, Table, TablesSound, Sound, Used
  <1>3. Sound(Resolved(f, S), identities)
    BY <1>2 DEF IInv, CoverageSound, Sound, Resolved, Resolve, Only
  <1>4. \A d \in Dep : Resolved(f, S)[d] \in Record => Resolved(f, S)[d] \in identities
    BY <1>3, NoneAssumption DEF Sound
  <1>5. Used(Resolved(f, S)) \in SUBSET identities
    BY <1>4 DEF Used
  <1> QED
    BY <1>1, <1>3, <1>5 DEF Used

(* Publishing stored records keeps coverage sound and counted. *)
LEMMA PublicationKeepsCoverage ==
  ASSUME IInv, NEW t \in Table, Sound(t, identities), NEW p,
         coverage' = Published(coverage, p, t),
         covered' = Recounted(coverage, coverage', covered),
         UNCHANGED identities
  PROVE  /\ CoverageSound' /\ CoverageCounted'
         /\ coverage' \in Table /\ covered' \in [Record -> Nat]
  <1>1. /\ coverage \in Table /\ covered \in [Record -> Nat] /\ identities \in SUBSET Record
        /\ Sound(coverage, identities) /\ Counted(coverage, identities, covered)
    BY SoundForms DEF IInv, TypeOK
  <1> DEFINE new == Published(coverage, p, t)
  <1>2. new \in Table /\ Sound(new, identities)
    BY <1>1, TableTypes, PublishedSound DEF IInv
  <1> HIDE DEF new
  <1>3. /\ Counted(new, identities, Recounted(coverage, new, covered))
        /\ Recounted(coverage, new, covered) \in [Record -> Nat]
    BY <1>1, <1>2, RecountedCounts
  <1>4. coverage' = new /\ covered' = Recounted(coverage, new, covered) /\ identities' = identities
    BY DEF new
  <1> QED
    BY <1>2, <1>3, <1>4 DEF CoverageSound, CoverageCounted, Sound, Counted

-----------------------------------------------------------------------------
LEMMA ReserveIInv ==
  ASSUME IInv, NEW f \in Flow, NEW l \in Lease, NEW S \in SUBSET Dep, NEW s \in Sender \cup {None},
         TryReserveTransaction(f, l, S, s)
  PROVE  IInv'
  <1> DEFINE held == Used(Resolved(f, S))
  <1>1. held \in SUBSET identities /\ held \in SUBSET Record
    BY ResolvedSound
  <1>2. /\ UNCHANGED <<stored, coverage, covered, pending, scope>>
        /\ lease[l] = Free /\ pins' = AddPins(held)
        /\ lease' = [lease EXCEPT ![l] = [records |-> held, sender |-> s]]
        /\ \/ s = None /\ UNCHANGED ledger
           \/ s # None /\ CanTake(s, held) /\ TakeSender(s, held)
    BY DEF TryReserveTransaction
  <1> HIDE DEF held
  <1>3. l \in Holder /\ l \notin Flow /\ l \notin Tx
    BY HolderAssumption DEF Holder
  <1>4. lease' \in [Lease -> [records : SUBSET Record, sender : Sender \cup {None}]]
    BY <1>1, <1>2 DEF IInv, TypeOK
  <1>5. /\ Held(l) = {} /\ Held(l)' = held /\ ChargedTo(l)' = s
        /\ \A g \in Holder \ {l} : Held(g)' = Held(g) /\ ChargedTo(g)' = ChargedTo(g)
    <2>1. Held(l) = {} /\ Held(l)' = held /\ ChargedTo(l)' = s
      BY <1>2, <1>3 DEF Held, ChargedTo, Free, IInv, TypeOK
    <2>2. ASSUME NEW g \in Holder \ {l}
          PROVE  Held(g)' = Held(g) /\ ChargedTo(g)' = ChargedTo(g)
      BY <1>2 DEF Held, ChargedTo, IInv, TypeOK, Used
    <2> QED
      BY <2>1, <2>2
  <1>6. PinAccounting' /\ pins' \in [Record -> Nat]
    BY <1>1, <1>2, <1>3, <1>5, AcquirePins DEF IInv
  <1>7. HeldRecordsStored'
    BY <1>1, <1>2, <1>5 DEF HeldRecordsStored, IInv, stored
  <1>8. SenderBounded' /\ LedgerType'
    <2>1. CASE s = None
      <3>1. UNCHANGED ledger
        BY <1>2, <2>1
      <3>2. \A q \in Sender, r \in Record : Charged(q, r)' = Charged(q, r)
        BY <1>5, <2>1, NoneAssumption DEF Charged, HoldersOf
      <3> QED
        BY <3>1, <3>2, SenderUnchanged DEF IInv, TypeOK, LedgerType, ledger
    <2>2. CASE s # None
      BY <1>1, <1>2, <1>3, <1>5, <2>2, TakeSenderBounded DEF IInv
    <2> QED
      BY <2>1, <2>2
  <1>9. TypeOK'
    BY <1>2, <1>4, <1>6, <1>8 DEF IInv, TypeOK, stored, LedgerType
  <1>10. CoverageSound' /\ TablesSound' /\ CoverageCounted' /\ BytesBounded'
    BY <1>2 DEF IInv, CoverageSound, TablesSound, Sound, CoverageCounted, BytesBounded, stored
  <1> QED
    BY <1>6, <1>7, <1>8, <1>9, <1>10 DEF IInv

LEMMA PinIInv ==
  ASSUME IInv, NEW f \in Flow, NEW t \in Tx, NEW publish \in BOOLEAN,
         PinPending(f, t, publish)
  PROVE  IInv'
  <1> DEFINE chosen == Resolved(f, TxDeps[t])
  <1>1. /\ chosen \in Table /\ Sound(chosen, identities)
        /\ Used(chosen) \in SUBSET identities /\ Used(chosen) \in SUBSET Record
    BY ResolvedSound
  <1>2. /\ UNCHANGED <<stored, scope, lease>>
        /\ pending[t] = Empty /\ pins' = AddPins(Used(chosen))
        /\ pending' = [pending EXCEPT ![t] = chosen]
        /\ CanTake(TxSender[t], Used(chosen)) /\ TakeSender(TxSender[t], Used(chosen))
        /\ coverage' = IF publish THEN Published(coverage, AddPins(Used(chosen)), chosen) ELSE coverage
        /\ covered' = Recounted(coverage, coverage', covered)
    BY DEF PinPending
  <1> HIDE DEF chosen
  <1>3. t \in Holder /\ t \notin Flow /\ t \notin Lease /\ TxSender[t] \in Sender
    BY HolderAssumption, TxAssumption DEF Holder
  <1>4. pending' \in [Tx -> Table]
    BY <1>1, <1>2 DEF IInv, TypeOK
  <1>5. /\ Held(t) = {} /\ Held(t)' = Used(chosen) /\ ChargedTo(t)' = TxSender[t]
        /\ \A g \in Holder \ {t} : Held(g)' = Held(g) /\ ChargedTo(g)' = ChargedTo(g)
    <2>1. Held(t) = {}
      BY <1>2, <1>3, UsedEmpty, TableTypes DEF Held, IInv
    <2>2. Held(t)' = Used(chosen) /\ ChargedTo(t)' = TxSender[t]
      BY <1>2, <1>3 DEF Held, ChargedTo, IInv, TypeOK, Used
    <2>3. ASSUME NEW g \in Holder \ {t}
          PROVE  Held(g)' = Held(g) /\ ChargedTo(g)' = ChargedTo(g)
      BY <1>2 DEF Held, ChargedTo, Holder, IInv, TypeOK, Used
    <2> QED
      BY <2>1, <2>2, <2>3
  <1>6. PinAccounting' /\ pins' \in [Record -> Nat]
    BY <1>1, <1>2, <1>3, <1>5, AcquirePins DEF IInv
  <1>7. HeldRecordsStored'
    BY <1>1, <1>2, <1>5 DEF HeldRecordsStored, IInv, stored
  <1>8. SenderBounded' /\ LedgerType'
    BY <1>1, <1>2, <1>3, <1>5, TakeSenderBounded DEF IInv
  <1>9. /\ CoverageSound' /\ CoverageCounted'
        /\ coverage' \in Table /\ covered' \in [Record -> Nat]
    <2>1. UNCHANGED identities
      BY <1>2 DEF stored
    <2>2. CASE publish
      BY <1>1, <1>2, <2>1, <2>2, PublicationKeepsCoverage
    <2>3. CASE ~publish
      <3>1. coverage' = coverage
        BY <1>2, <2>3
      <3>2. Empty \in Table /\ Sound(Empty, identities) /\ Published(coverage, 0, Empty) = coverage
        BY TableTypes DEF IInv, TypeOK, Empty, Sound, Published, Table
      <3> QED
        BY <1>2, <2>1, <3>1, <3>2, PublicationKeepsCoverage
    <2> QED
      BY <2>2, <2>3
  <1>10. TypeOK'
    BY <1>2, <1>4, <1>6, <1>8, <1>9 DEF IInv, TypeOK, stored, LedgerType
  <1>11. TablesSound' /\ BytesBounded'
    <2>1. Sound(chosen, Record)
      BY <1>1 DEF Sound, IInv, TypeOK
    <2>2. \A u \in Tx : Sound(pending'[u], Record)
      BY <1>2, <2>1 DEF IInv, TypeOK, TablesSound
    <2> QED
      BY <1>2, <2>2 DEF IInv, TablesSound, BytesBounded, stored
  <1> QED
    BY <1>6, <1>7, <1>8, <1>9, <1>10, <1>11 DEF IInv

(* Publication moves coverage only. *)
LEMMA PublishIInv ==
  ASSUME IInv, NEW t \in Table, Sound(t, identities), Publish(t)
  PROVE  IInv'
  <1>1. /\ UNCHANGED <<stored, pins, pending, ledger, scope, lease>>
        /\ coverage' = Published(coverage, pins, t)
        /\ covered' = Recounted(coverage, coverage', covered)
    BY DEF Publish
  <1>2. /\ CoverageSound' /\ CoverageCounted'
        /\ coverage' \in Table /\ covered' \in [Record -> Nat]
    BY <1>1, PublicationKeepsCoverage DEF stored
  <1>3. TypeOK'
    BY <1>1, <1>2 DEF IInv, TypeOK, stored, ledger
  <1>4. PinAccounting' /\ HeldRecordsStored' /\ SenderBounded'
    BY <1>1 DEF IInv, PinAccounting, HeldRecordsStored, SenderBounded, HoldersOf, Held,
                ChargedTo, Used, stored, ledger
  <1>5. TablesSound' /\ BytesBounded'
    BY <1>1 DEF IInv, TablesSound, BytesBounded, Sound, stored
  <1> QED
    BY <1>2, <1>3, <1>4, <1>5 DEF IInv

LEMMA HeldTablesSound ==
  ASSUME IInv
  PROVE  /\ \A f \in Flow : \A S : Only(scope[f], S) \in Table /\ Sound(Only(scope[f], S), identities)
         /\ \A t \in Tx : pending[t] \in Table /\ Sound(pending[t], identities)
  <1>1. ASSUME NEW f \in Flow, NEW S
        PROVE  Only(scope[f], S) \in Table /\ Sound(Only(scope[f], S), identities)
    <2>1. scope[f] \in Table /\ Used(scope[f]) \subseteq identities /\ Sound(scope[f], Record)
      BY HeldCases DEF IInv, TypeOK, HeldRecordsStored, TablesSound, Holder
    <2> QED
      BY <2>1 DEF Only, Table, Used, Sound
  <1>2. ASSUME NEW t \in Tx
        PROVE  pending[t] \in Table /\ Sound(pending[t], identities)
    <2>1. pending[t] \in Table /\ Used(pending[t]) \subseteq identities /\ Sound(pending[t], Record)
      BY HeldCases DEF IInv, TypeOK, HeldRecordsStored, TablesSound, Holder
    <2> QED
      BY <2>1 DEF Table, Used, Sound
  <1> QED
    BY <1>1, <1>2

LEMMA PublishPendingIInv ==
  ASSUME IInv, NEW t \in Tx, PublishPending(t)
  PROVE  IInv'
  BY HeldTablesSound, PublishIInv DEF PublishPending

LEMMA CommitIInv ==
  ASSUME IInv, NEW f \in Flow, NEW S \in SUBSET Dep, CommitAdmission(f, S)
  PROVE  IInv'
  BY HeldTablesSound, PublishIInv DEF CommitAdmission

LEMMA UnpinIInv ==
  ASSUME IInv, NEW t \in Tx, UnpinPending(t)
  PROVE  IInv'
  <1>1. /\ UNCHANGED <<stored, coverage, covered, scope, lease>>
        /\ ReleaseSender(TxSender[t], Used(pending[t]))
        /\ pins' = DropPins(Used(pending[t]))
        /\ pending' = [pending EXCEPT ![t] = Empty]
    BY DEF UnpinPending
  <1>2. t \in Holder /\ t \notin Flow /\ t \notin Lease /\ TxSender[t] \in Sender
    BY HolderAssumption, TxAssumption DEF Holder
  <1>3. Empty \in Table /\ Used(Empty) = {} /\ Sound(Empty, Record)
    BY TableTypes, UsedEmpty DEF IInv, Sound, Empty
  <1>4. /\ Held(t) = Used(pending[t]) /\ Held(t) \in SUBSET Record /\ Held(t)' = {}
        /\ ChargedTo(t) = TxSender[t]
        /\ \A g \in Holder \ {t} : Held(g)' = Held(g) /\ ChargedTo(g)' = ChargedTo(g)
    <2>1. Held(t) = Used(pending[t]) /\ Held(t) \in SUBSET Record /\ ChargedTo(t) = TxSender[t]
      BY HeldCases DEF Used
    <2>2. Held(t)' = {}
      BY <1>1, <1>2, <1>3 DEF Held, IInv, TypeOK, Used
    <2>3. ASSUME NEW g \in Holder \ {t}
          PROVE  Held(g)' = Held(g) /\ ChargedTo(g)' = ChargedTo(g)
      BY <1>1 DEF Held, ChargedTo, Holder, IInv, TypeOK, Used
    <2> QED
      BY <2>1, <2>2, <2>3
  <1>5. PinAccounting' /\ pins' \in [Record -> Nat]
    BY <1>1, <1>2, <1>4, ReleasePins DEF IInv
  <1>6. SenderBounded' /\ LedgerType'
    BY <1>1, <1>2, <1>4, ReleaseSenderBounded DEF IInv
  <1>7. HeldRecordsStored'
    BY <1>1, <1>4 DEF HeldRecordsStored, IInv, stored
  <1>8. TypeOK'
    BY <1>1, <1>3, <1>5, <1>6 DEF IInv, TypeOK, stored, LedgerType
  <1>9. CoverageSound' /\ CoverageCounted' /\ TablesSound' /\ BytesBounded'
    <2>1. \A u \in Tx : Sound(pending'[u], Record)
      BY <1>1, <1>3 DEF IInv, TypeOK, TablesSound
    <2> QED
      BY <1>1, <2>1 DEF IInv, CoverageSound, CoverageCounted, TablesSound, BytesBounded, stored
  <1> QED
    BY <1>5, <1>6, <1>7, <1>8, <1>9 DEF IInv

(* The last release of what a holder held: the records nobody else pins and
   nothing publishes leave the store. *)
LEMMA DisposeKeeps ==
  ASSUME IInv, NEW h \in Holder, Held(h) \in SUBSET Record, Held(h)' = {},
         \A g \in Holder \ {h} : Held(g)' = Held(g),
         Dispose(Held(h))
  PROVE  /\ PinAccounting' /\ HeldRecordsStored' /\ CoverageSound' /\ CoverageCounted'
         /\ BytesBounded'
         /\ pins' \in [Record -> Nat] /\ coverage' \in Table /\ storedBytes' \in Nat
         /\ identities' \in SUBSET Record
  <1> DEFINE out == Unreferenced(Held(h))
  <1>1. /\ pins' = DropPins(Held(h)) /\ coverage' = Uncovered(out) /\ Replace(out, {})
        /\ covered' = covered
    BY DEF Dispose
  <1>2. /\ out \in SUBSET identities /\ out \in SUBSET Record
        /\ \A r \in out : r \in Held(h) /\ pins[r] = 1 /\ covered[r] = 0
    BY DEF Unreferenced
  <1> HIDE DEF out
  <1>3. identities' = (identities \ out) \cup {}
    BY <1>1 DEF Replace
  <1>4. PinAccounting' /\ pins' \in [Record -> Nat]
    BY <1>1, ReleasePins DEF IInv
  <1>5. \A r \in out : pins'[r] = 0
    BY <1>1, <1>2 DEF DropPins
  <1>6. HeldRecordsStored'
    <2>1. \A g \in Holder : Held(g)' \subseteq identities \cup {}
      BY DEF IInv, HeldRecordsStored
    <2> QED
      BY <1>2, <1>3, <1>4, <1>5, <2>1, RemovalKeepsHeld
  <1>7. CoverageSound'
    <2>1. Sound(coverage', identities')
      BY <1>1, <1>2, <1>3, UncoveredSound DEF IInv
    <2> QED
      BY <2>1 DEF CoverageSound, Sound
  <1>8. CoverageCounted'
    <2>1. covered \in [Record -> Nat] /\ \A r \in Record : covered[r] = IF r \in {} THEN 0 ELSE covered[r]
      BY DEF IInv, TypeOK
    <2>2. Counted(Uncovered(out), (identities \ out) \cup {}, covered)
      BY <1>2, <2>1, UncoveredCounted DEF IInv
    <2> QED
      BY <1>1, <1>3, <2>2 DEF CoverageCounted, Counted
  <1>9. BytesBounded' /\ storedBytes' \in Nat
    BY <1>1, <1>2, ReplaceBytes DEF IInv
  <1>10. coverage' \in Table /\ identities' \in SUBSET Record
    BY <1>1, <1>3, TableTypes DEF IInv, TypeOK
  <1> QED
    BY <1>4, <1>6, <1>7, <1>8, <1>9, <1>10

LEMMA DisposeLeaseIInv ==
  ASSUME IInv, NEW l \in Lease, DisposeLease(l)
  PROVE  IInv'
  <1>1. /\ Dispose(lease[l].records)
        /\ lease' = [lease EXCEPT ![l] = Free]
        /\ UNCHANGED scope
        /\ \/ lease[l].sender = None /\ UNCHANGED ledger
           \/ lease[l].sender # None /\ ReleaseSender(lease[l].sender, lease[l].records)
    BY DEF DisposeLease
  <1>2. l \in Holder /\ l \notin Flow /\ l \notin Tx
    BY HolderAssumption DEF Holder
  <1>3. Free \in [records : SUBSET Record, sender : Sender \cup {None}]
    BY DEF Free
  <1>4. UNCHANGED <<covered, pending>>
    BY <1>1 DEF Dispose
  <1>5. /\ Held(l) = lease[l].records /\ Held(l) \in SUBSET Record /\ Held(l)' = {}
        /\ ChargedTo(l) = lease[l].sender /\ ChargedTo(l)' = None
        /\ \A g \in Holder \ {l} : Held(g)' = Held(g) /\ ChargedTo(g)' = ChargedTo(g)
    <2>1. Held(l) = lease[l].records /\ Held(l) \in SUBSET Record /\ ChargedTo(l) = lease[l].sender
      BY HeldCases DEF IInv, TypeOK
    <2>2. Held(l)' = {} /\ ChargedTo(l)' = None
      BY <1>1, <1>2 DEF Held, ChargedTo, Free, IInv, TypeOK
    <2>3. ASSUME NEW g \in Holder \ {l}
          PROVE  Held(g)' = Held(g) /\ ChargedTo(g)' = ChargedTo(g)
      BY <1>1, <1>4 DEF Held, ChargedTo, IInv, TypeOK, Used
    <2> QED
      BY <2>1, <2>2, <2>3
  <1>6. /\ PinAccounting' /\ HeldRecordsStored' /\ CoverageSound' /\ CoverageCounted'
        /\ BytesBounded'
        /\ pins' \in [Record -> Nat] /\ coverage' \in Table /\ storedBytes' \in Nat
        /\ identities' \in SUBSET Record
    BY <1>1, <1>2, <1>5, DisposeKeeps
  <1>7. SenderBounded' /\ LedgerType'
    <2>1. CASE lease[l].sender = None
      <3>1. UNCHANGED ledger
        BY <1>1, <2>1
      <3>2. \A q \in Sender, r \in Record : Charged(q, r)' = Charged(q, r)
        BY <1>5, <2>1, NoneAssumption DEF Charged, HoldersOf
      <3> QED
        BY <3>1, <3>2, SenderUnchanged DEF IInv, TypeOK, LedgerType, ledger
    <2>2. CASE lease[l].sender # None
      <3>1. lease[l].sender \in Sender
        BY <2>2 DEF IInv, TypeOK
      <3> QED
        BY <1>1, <1>2, <1>5, <2>2, <3>1, ReleaseSenderBounded DEF IInv
    <2> QED
      BY <2>1, <2>2
  <1>8. lease' \in [Lease -> [records : SUBSET Record, sender : Sender \cup {None}]]
    BY <1>1, <1>3 DEF IInv, TypeOK
  <1>9. TypeOK' /\ TablesSound'
    BY <1>1, <1>4, <1>6, <1>7, <1>8 DEF IInv, TypeOK, LedgerType, TablesSound, Sound
  <1> QED
    BY <1>6, <1>7, <1>9 DEF IInv

LEMMA DisposeAdmissionIInv ==
  ASSUME IInv, NEW f \in Flow, DisposeAdmission(f)
  PROVE  IInv'
  <1>1. /\ Dispose(Used(scope[f]))
        /\ scope' = [scope EXCEPT ![f] = Empty]
        /\ UNCHANGED <<ledger, lease>>
    BY DEF DisposeAdmission
  <1>2. f \in Holder /\ f \notin Lease /\ f \notin Tx
    BY HolderAssumption DEF Holder
  <1>3. Empty \in Table /\ Used(Empty) = {} /\ Sound(Empty, Record)
    BY TableTypes, UsedEmpty DEF IInv, Sound, Empty
  <1>4. UNCHANGED <<covered, pending>>
    BY <1>1 DEF Dispose
  <1>5. /\ Held(f) = Used(scope[f]) /\ Held(f) \in SUBSET Record /\ Held(f)' = {}
        /\ ChargedTo(f) = None /\ ChargedTo(f)' = None
        /\ \A g \in Holder \ {f} : Held(g)' = Held(g) /\ ChargedTo(g)' = ChargedTo(g)
    <2>1. Held(f) = Used(scope[f]) /\ Held(f) \in SUBSET Record /\ ChargedTo(f) = None
      BY HeldCases DEF Used
    <2>2. Held(f)' = {} /\ ChargedTo(f)' = None
      BY <1>1, <1>2, <1>3 DEF Held, ChargedTo, IInv, TypeOK, Used
    <2>3. ASSUME NEW g \in Holder \ {f}
          PROVE  Held(g)' = Held(g) /\ ChargedTo(g)' = ChargedTo(g)
      BY <1>1, <1>4 DEF Held, ChargedTo, IInv, TypeOK, Used
    <2> QED
      BY <2>1, <2>2, <2>3
  <1>6. /\ PinAccounting' /\ HeldRecordsStored' /\ CoverageSound' /\ CoverageCounted'
        /\ BytesBounded'
        /\ pins' \in [Record -> Nat] /\ coverage' \in Table /\ storedBytes' \in Nat
        /\ identities' \in SUBSET Record
    BY <1>1, <1>2, <1>5, DisposeKeeps
  <1>7. SenderBounded' /\ LedgerType'
    <2>1. \A q \in Sender, r \in Record : Charged(q, r)' = Charged(q, r)
      BY <1>5, NoneAssumption DEF Charged, HoldersOf
    <2> QED
      BY <1>1, <2>1, SenderUnchanged DEF IInv, TypeOK, LedgerType, ledger
  <1>8. scope' \in [Flow -> Table] /\ \A g \in Flow : Sound(scope'[g], Record)
    BY <1>1, <1>3 DEF IInv, TypeOK, TablesSound
  <1>9. TypeOK' /\ TablesSound'
    BY <1>1, <1>4, <1>6, <1>7, <1>8 DEF IInv, TypeOK, LedgerType, TablesSound
  <1> QED
    BY <1>6, <1>7, <1>9 DEF IInv

LEMMA OfferSound ==
  ASSUME NEW w \in Offer
  PROVE  w \in Table /\ Sound(w, Record)
  BY NoneAssumption DEF Offer, Sound, Table

(* Eviction with nothing pinned or held anew: what leaves is held by nobody. *)
LEMMA EvictionKeeps ==
  ASSUME IInv, NEW out \in SUBSET identities, \A r \in out : pins[r] = 0,
         NEW in \in SUBSET Record, in \cap identities = {}, in = {} \/ Fits(out, in),
         Replace(out, in), UNCHANGED <<pins, pending, scope, lease>>
  PROVE  /\ PinAccounting' /\ HeldRecordsStored' /\ BytesBounded'
         /\ storedBytes' \in Nat /\ identities' \in SUBSET Record
         /\ identities' = (identities \ out) \cup in
         /\ \A g \in Holder : Held(g)' = Held(g) /\ ChargedTo(g)' = ChargedTo(g)
  <1>1. identities' = (identities \ out) \cup in
    BY DEF Replace
  <1>2. \A g \in Holder : Held(g)' = Held(g) /\ ChargedTo(g)' = ChargedTo(g)
    BY DEF Held, ChargedTo, Used
  <1>3. PinAccounting'
    BY <1>2 DEF IInv, PinAccounting, HoldersOf
  <1>4. HeldRecordsStored'
    <2>1. \A g \in Holder : Held(g)' \subseteq identities \cup in
      BY <1>2 DEF IInv, HeldRecordsStored
    <2>2. out \in SUBSET Record
      BY DEF IInv, TypeOK
    <2> QED
      BY <1>1, <1>3, <2>1, <2>2, RemovalKeepsHeld
  <1>5. BytesBounded' /\ storedBytes' \in Nat
    BY ReplaceBytes DEF IInv
  <1> QED
    BY <1>1, <1>2, <1>3, <1>4, <1>5 DEF IInv, TypeOK

LEMMA BeginAdmissionIInv ==
  ASSUME IInv, NEW f \in Flow, NEW w \in Offer, TryBeginAdmission(f, w)
  PROVE  IInv'
  <1> DEFINE chosen == [d \in Dep |-> IF w[d] = None THEN None
                                      ELSE IF coverage[d] # None THEN coverage[d] ELSE w[d]]
             in == Used(chosen) \ identities
             p == AddPins(Used(chosen))
             out == Evicted(p, in)
  <1>1. chosen \in Table /\ Sound(chosen, Record)
    <2>1. w \in Table /\ Sound(w, Record)
      BY OfferSound
    <2> QED
      BY <2>1 DEF IInv, TypeOK, CoverageSound, Sound, Table
  <1>2. Used(chosen) \in SUBSET Record
    BY DEF Used
  <1>3. /\ scope[f] = Empty /\ coverage' = Uncovered(out)
        /\ \/ /\ in = {} \/ Fits(out, in)
              /\ Replace(out, in)
              /\ pins' = p
              /\ covered' = [r \in Record |-> IF r \in in THEN 0 ELSE covered[r]]
              /\ scope' = [scope EXCEPT ![f] = chosen]
           \/ /\ in # {} /\ ~Fits(out, in)
              /\ Replace(out, {})
              /\ UNCHANGED <<pins, covered, scope>>
        /\ UNCHANGED <<pending, ledger, lease>>
    BY DEF TryBeginAdmission
  <1> HIDE DEF chosen
  <1>4. in \in SUBSET Record /\ in \cap identities = {} /\ p \in [Record -> Nat]
    BY <1>2 DEF AddPins, IInv, TypeOK
  <1> HIDE DEF out
  <1>5. out \in SUBSET identities /\ \A r \in out : p[r] = 0 /\ r \in Record
    BY <1>4, EvictedUnpinned DEF out, IInv, TypeOK
  <1>6. ASSUME NEW r \in out
        PROVE  pins[r] = 0
    <2>1. r \in Record /\ pins[r] \in Nat /\ p[r] = 0
      BY <1>5 DEF IInv, TypeOK
    <2>2. p[r] = pins[r] + 1 \/ p[r] = pins[r]
      BY <2>1 DEF AddPins
    <2> QED
      BY <2>1, <2>2
  <1>7. coverage' \in Table
    BY <1>3, TableTypes DEF IInv
  <1>8. UNCHANGED <<pending, ledger, lease>>
    BY <1>3
  <1>9. f \in Holder /\ f \notin Lease /\ f \notin Tx
    BY HolderAssumption DEF Holder
  <1>10. CASE in # {} /\ ~Fits(out, in)
    <2>1. /\ Replace(out, {})
          /\ UNCHANGED <<pins, covered, scope>>
      BY <1>3, <1>10
    <2>2. /\ PinAccounting' /\ HeldRecordsStored' /\ BytesBounded'
          /\ storedBytes' \in Nat /\ identities' \in SUBSET Record
          /\ identities' = (identities \ out) \cup {}
          /\ \A g \in Holder : Held(g)' = Held(g) /\ ChargedTo(g)' = ChargedTo(g)
      BY <1>5, <1>6, <1>8, <2>1, EvictionKeeps
    <2>3. CoverageSound'
      <3>1. Sound(coverage', identities')
        BY <1>3, <1>5, <2>2, UncoveredSound DEF IInv
      <3> QED
        BY <3>1 DEF CoverageSound, Sound
    <2>4. CoverageCounted'
      <3>1. covered \in [Record -> Nat] /\ \A r \in Record : covered[r] = IF r \in {} THEN 0 ELSE covered[r]
        BY DEF IInv, TypeOK
      <3>2. Counted(Uncovered(out), (identities \ out) \cup {}, covered)
        BY <1>5, <3>1, UncoveredCounted DEF IInv
      <3> QED
        BY <1>3, <2>1, <2>2, <3>2 DEF CoverageCounted, Counted
    <2>5. SenderBounded'
      <3>1. \A q \in Sender, r \in Record : Charged(q, r)' = Charged(q, r)
        BY <2>2 DEF Charged, HoldersOf
      <3> QED
        BY <1>8, <3>1, SenderUnchanged DEF IInv
    <2>6. TypeOK' /\ TablesSound'
      BY <1>7, <1>8, <2>1, <2>2 DEF IInv, TypeOK, ledger, TablesSound
    <2> QED
      BY <2>2, <2>3, <2>4, <2>5, <2>6 DEF IInv
  <1>11. CASE in = {} \/ Fits(out, in)
    <2>1. /\ Replace(out, in)
          /\ pins' = p
          /\ covered' = [r \in Record |-> IF r \in in THEN 0 ELSE covered[r]]
          /\ scope' = [scope EXCEPT ![f] = chosen]
      BY <1>3, <1>11
    <2>2. identities' = (identities \ out) \cup in
      BY <2>1 DEF Replace
    <2>3. /\ Held(f) = {} /\ Held(f)' = Used(chosen)
          /\ ChargedTo(f) = None /\ ChargedTo(f)' = None
          /\ \A g \in Holder \ {f} : Held(g)' = Held(g) /\ ChargedTo(g)' = ChargedTo(g)
      <3>1. Held(f) = {}
        BY <1>3, <1>9, UsedEmpty, TableTypes DEF Held, IInv
      <3>2. Held(f)' = Used(chosen) /\ ChargedTo(f) = None /\ ChargedTo(f)' = None
        BY <1>9, <2>1 DEF Held, ChargedTo, IInv, TypeOK, Used
      <3>3. ASSUME NEW g \in Holder \ {f}
            PROVE  Held(g)' = Held(g) /\ ChargedTo(g)' = ChargedTo(g)
        BY <1>8, <2>1 DEF Held, ChargedTo, IInv, TypeOK, Used
      <3> QED
        BY <3>1, <3>2, <3>3
    <2>4. PinAccounting' /\ pins' \in [Record -> Nat]
      BY <1>2, <1>9, <2>1, <2>3, AcquirePins DEF IInv
    <2>5. HeldRecordsStored'
      <3>1. \A g \in Holder : Held(g)' \subseteq identities \cup in
        BY <2>3 DEF IInv, HeldRecordsStored
      <3>2. \A r \in out : pins'[r] = 0
        BY <1>5, <2>1
      <3>3. out \in SUBSET Record
        BY <1>5
      <3> QED
        BY <1>4, <2>2, <2>4, <3>1, <3>2, <3>3, RemovalKeepsHeld
    <2>6. BytesBounded' /\ storedBytes' \in Nat
      BY <1>4, <1>5, <1>11, <2>1, ReplaceBytes DEF IInv
    <2>7. CoverageSound'
      <3>1. Sound(coverage', identities')
        BY <1>3, <1>4, <1>5, <2>2, UncoveredSound DEF IInv
      <3> QED
        BY <3>1 DEF CoverageSound, Sound
    <2>8. CoverageCounted' /\ covered' \in [Record -> Nat]
      <3>1. /\ covered' \in [Record -> Nat]
            /\ \A r \in Record : covered'[r] = IF r \in in THEN 0 ELSE covered[r]
        BY <2>1 DEF IInv, TypeOK
      <3>2. Counted(Uncovered(out), (identities \ out) \cup in, covered')
        BY <1>4, <1>5, <3>1, UncoveredCounted DEF IInv
      <3> QED
        BY <1>3, <2>2, <3>1, <3>2 DEF CoverageCounted, Counted
    <2>9. SenderBounded'
      <3>1. \A q \in Sender, r \in Record : Charged(q, r)' = Charged(q, r)
        BY <2>3, NoneAssumption DEF Charged, HoldersOf
      <3> QED
        BY <1>8, <3>1, SenderUnchanged DEF IInv
    <2>10. TablesSound' /\ scope' \in [Flow -> Table]
      BY <1>1, <1>8, <2>1 DEF IInv, TypeOK, TablesSound
    <2>11. TypeOK'
      <3>1. identities' \in SUBSET Record
        BY <1>4, <2>2 DEF IInv, TypeOK
      <3> QED
        BY <1>7, <1>8, <2>4, <2>6, <2>8, <2>10, <3>1 DEF IInv, TypeOK, ledger
    <2> QED
      BY <2>4, <2>5, <2>6, <2>7, <2>8, <2>9, <2>10, <2>11 DEF IInv
  <1> QED
    BY <1>10, <1>11

LEMMA AddVerifiedIInv ==
  ASSUME IInv, NEW f \in Flow, NEW w \in Offer, NEW S \in SUBSET Dep, AddVerified(f, w, S)
  PROVE  IInv'
  <1> DEFINE missing == {d \in S : coverage[d] = None}
             request == Only(w, missing)
             in == Used(request) \ identities
             asked(r) == {d \in Dep : request[d] = r}
             p == [r \in Record |-> pins[r] + Cardinality(asked(r))]
             out == Evicted(p, in)
             kept == Uncovered(out)
             zeroed == [r \in Record |-> IF r \in in THEN 0 ELSE covered[r]]
             ids == (identities \ out) \cup in
  <1>1. \/ Publish(Only(scope[f], S))
        \/ /\ \/ /\ in = {} \/ Fits(out, in)
                 /\ Replace(out, in)
                 /\ coverage' = Published(kept, p, request)
                 /\ covered' = Recounted(kept, coverage', zeroed)
              \/ /\ in # {} /\ ~Fits(out, in)
                 /\ Replace(out, {})
                 /\ coverage' = kept
                 /\ UNCHANGED covered
           /\ UNCHANGED <<pins, pending, ledger, scope, lease>>
    BY DEF AddVerified
  <1>2. request \in Table /\ Sound(request, Record)
    <2>1. w \in Table /\ Sound(w, Record)
      BY OfferSound
    <2> QED
      BY <2>1, TableTypes DEF IInv, Sound, Only
  <1>3. \A r \in Record : Cardinality(asked(r)) \in Nat /\ (asked(r) # {} => Cardinality(asked(r)) # 0)
    <2>1. \A r \in Record : asked(r) \in SUBSET Dep
      OBVIOUS
    <2> HIDE DEF asked
    <2> QED
      BY <2>1, DepsFinite, FS_EmptySet
  <1> HIDE DEF request
  <1>4. p \in [Record -> Nat] /\ in \in SUBSET Record /\ in \cap identities = {}
    BY <1>3 DEF IInv, TypeOK, Used
  <1> HIDE DEF out, p
  <1>5. out \in SUBSET identities /\ \A r \in out : p[r] = 0 /\ r \in Record
    BY <1>4, EvictedUnpinned DEF out, IInv, TypeOK
  <1>6. ASSUME NEW r \in out
        PROVE  pins[r] = 0 /\ asked(r) = {}
    <2>1. r \in Record /\ pins[r] \in Nat /\ p[r] = 0
      BY <1>5 DEF IInv, TypeOK
    <2>2. p[r] = pins[r] + Cardinality(asked(r)) /\ Cardinality(asked(r)) \in Nat
      BY <1>3, <2>1 DEF p
    <2>3. pins[r] = 0 /\ Cardinality(asked(r)) = 0
      <3> HIDE DEF asked
      <3> QED
        BY <2>1, <2>2
    <2> QED
      BY <1>3, <2>1, <2>3
  <1>7. kept \in Table /\ Sound(kept, ids) /\ Sound(kept, identities \ out)
    <2>1. Sound(kept, (identities \ out) \cup {})
      BY <1>5, UncoveredSound DEF IInv
    <2>2. (identities \ out) \cup {} = identities \ out
      OBVIOUS
    <2> QED
      BY <1>4, <1>5, <2>1, <2>2, UncoveredSound, TableTypes DEF IInv
  <1>8. zeroed \in [Record -> Nat] /\ Counted(kept, ids, zeroed)
    <2>1. /\ zeroed \in [Record -> Nat]
          /\ \A r \in Record : zeroed[r] = IF r \in in THEN 0 ELSE covered[r]
      BY DEF IInv, TypeOK
    <2> HIDE DEF zeroed
    <2> QED
      BY <1>4, <1>5, <2>1, UncoveredCounted DEF IInv
  <1>9. Sound(request, ids)
    <2> SUFFICES ASSUME NEW d \in Dep, request[d] # None
                 PROVE  request[d] \in ids /\ d \in DepsOf[request[d]]
      BY DEF Sound
    <2>1. request[d] \in Record /\ d \in DepsOf[request[d]] /\ d \in asked(request[d])
      BY <1>2 DEF Sound
    <2>2. request[d] \notin out
      BY <1>6, <2>1
    <2>3. request[d] \in Used(request)
      BY <2>1 DEF Used
    <2> QED
      BY <2>1, <2>2, <2>3
  <1>10. CASE Publish(Only(scope[f], S))
    BY <1>10, HeldTablesSound, PublishIInv
  <1>11. ASSUME NEW new \in SUBSET Record, new \cap identities = {}, new = {} \/ Fits(out, new),
                Replace(out, new), UNCHANGED <<pins, pending, ledger, scope, lease>>,
                coverage' \in Table, covered' \in [Record -> Nat],
                Sound(coverage', (identities \ out) \cup new),
                Counted(coverage', (identities \ out) \cup new, covered')
         PROVE  IInv'
    <2>1. /\ PinAccounting' /\ HeldRecordsStored' /\ BytesBounded'
          /\ storedBytes' \in Nat /\ identities' \in SUBSET Record
          /\ identities' = (identities \ out) \cup new
          /\ \A g \in Holder : Held(g)' = Held(g) /\ ChargedTo(g)' = ChargedTo(g)
      BY <1>5, <1>6, <1>11, EvictionKeeps
    <2>2. CoverageSound' /\ CoverageCounted'
      BY <1>11, <2>1 DEF CoverageSound, CoverageCounted, Sound, Counted
    <2>3. SenderBounded'
      <3>1. \A q \in Sender, r \in Record : Charged(q, r)' = Charged(q, r)
        BY <2>1 DEF Charged, HoldersOf
      <3> QED
        BY <1>11, <3>1, SenderUnchanged DEF IInv
    <2>4. TypeOK' /\ TablesSound'
      BY <1>11, <2>1 DEF IInv, TypeOK, ledger, TablesSound
    <2> QED
      BY <2>1, <2>2, <2>3, <2>4 DEF IInv
  <1>12. CASE /\ in = {} \/ Fits(out, in)
              /\ Replace(out, in)
              /\ coverage' = Published(kept, p, request)
              /\ covered' = Recounted(kept, coverage', zeroed)
              /\ UNCHANGED <<pins, pending, ledger, scope, lease>>
    <2>1. coverage' \in Table /\ Sound(coverage', ids)
      <3> HIDE DEF kept, ids
      <3> QED
        BY <1>2, <1>7, <1>9, <1>12, PublishedSound, TableTypes DEF IInv
    <2>2. Counted(coverage', ids, covered') /\ covered' \in [Record -> Nat]
      <3>1. ids \in SUBSET Record
        BY <1>4 DEF IInv, TypeOK
      <3> HIDE DEF kept, ids, zeroed
      <3> QED
        BY <1>7, <1>8, <1>12, <2>1, <3>1, RecountedCounts
    <2> QED
      BY <1>4, <1>11, <1>12, <2>1, <2>2
  <1>13. CASE /\ Replace(out, {})
              /\ coverage' = kept
              /\ UNCHANGED covered
              /\ UNCHANGED <<pins, pending, ledger, scope, lease>>
    <2>1. Sound(coverage', (identities \ out) \cup {})
      BY <1>7, <1>13 DEF Sound
    <2>2. Counted(coverage', (identities \ out) \cup {}, covered')
      <3>1. covered \in [Record -> Nat] /\ \A r \in Record : covered[r] = IF r \in {} THEN 0 ELSE covered[r]
        BY DEF IInv, TypeOK
      <3>2. Counted(Uncovered(out), (identities \ out) \cup {}, covered)
        BY <1>5, <3>1, UncoveredCounted DEF IInv
      <3> QED
        BY <1>13, <3>2
    <2>3. {} \in SUBSET Record /\ {} \cap identities = {} /\ covered' \in [Record -> Nat]
      BY <1>13 DEF IInv, TypeOK
    <2> QED
      BY <1>7, <1>11, <1>13, <2>1, <2>2, <2>3
  <1> QED
    BY <1>1, <1>10, <1>12, <1>13

(* A finite set loses some of its elements. *)
LEMMA CardinalityLoss ==
  ASSUME NEW X, NEW R \in SUBSET X, IsFiniteSet(X)
  PROVE  /\ Cardinality(X \ R) = Cardinality(X) - Cardinality(R)
         /\ Cardinality(X \ R) \in Nat /\ Cardinality(X) \in Nat /\ Cardinality(R) \in Nat
  <1>1. IsFiniteSet(X \ R) /\ IsFiniteSet(R)
    BY FS_Subset, X \ R \in SUBSET X
  <1>2. Cardinality(X \ R) = Cardinality(X) - Cardinality(X \cap R)
    BY FS_Difference
  <1>3. X \cap R = R
    OBVIOUS
  <1>4. Cardinality(X \ R) \in Nat /\ Cardinality(X) \in Nat /\ Cardinality(R) \in Nat
    BY <1>1, FS_CardinalityType
  <1> QED
    BY <1>2, <1>3, <1>4

LEMMA ReleasePendingIInv ==
  ASSUME IInv, NEW o \in Owner, ReleasePending(o)
  PROVE  IInv'
  <1> DEFINE owned == {t \in Tx : TxOwner[t] = o /\ pending[t] # Empty}
             of(s) == {t \in owned : TxSender[t] = s}
             last(s) == {r \in Record : senders[s][r] > 0 /\ senders[s][r] = References(of(s), r)}
             Users(T, r) == {t \in T : r \in Used(pending[t])}
  <1>1. /\ pins' = [r \in Record |-> pins[r] - References(owned, r)]
        /\ senders' = [s \in Sender |-> [r \in Record |-> senders[s][r] - References(of(s), r)]]
        /\ senderBytes' = [s \in Sender |-> senderBytes[s] - Bytes[last(s)]]
        /\ pending' = [t \in Tx |-> IF t \in owned THEN Empty ELSE pending[t]]
        /\ UNCHANGED <<stored, coverage, covered, scope, lease>>
    BY DEF ReleasePending
  <1>2. Empty \in Table /\ Used(Empty) = {} /\ Sound(Empty, Record)
    BY TableTypes, UsedEmpty DEF IInv, Sound, Empty
  <1>3. owned \in SUBSET Tx /\ \A s : of(s) \in SUBSET Tx /\ \A t \in of(s) : t \in owned /\ TxSender[t] = s
    OBVIOUS
  <1>4. \A T, r : References(T, r) = Cardinality(Users(T, r))
    BY DEF References
  <1>5. \A t \in Tx : t \in Holder /\ t \notin Flow /\ t \notin Lease
    BY HolderAssumption DEF Holder
  <1>6. pending' \in [Tx -> Table] /\ \A t \in Tx : pending'[t] = IF t \in owned THEN Empty ELSE pending[t]
    <2> HIDE DEF owned
    <2> QED
      BY <1>1, <1>2 DEF IInv, TypeOK
  <1>7. ASSUME NEW g \in Holder
        PROVE  /\ ChargedTo(g)' = ChargedTo(g)
               /\ g \in owned => Held(g)' = {} /\ Held(g) = Used(pending[g]) /\ ChargedTo(g) = TxSender[g]
               /\ g \notin owned => Held(g)' = Held(g)
    <2>1. ChargedTo(g)' = ChargedTo(g)
      BY <1>1 DEF ChargedTo
    <2>2. CASE g \in owned
      <3>1. g \in Tx /\ g \notin Flow /\ g \notin Lease
        BY <1>5, <2>2
      <3> HIDE DEF owned
      <3>2. pending'[g] = Empty
        BY <1>6, <2>2, <3>1
      <3>3. Held(g)' = Used(pending'[g])
        BY <3>1 DEF Held, Used
      <3>4. Held(g) = Used(pending[g]) /\ ChargedTo(g) = TxSender[g]
        BY <3>1 DEF Held, ChargedTo
      <3> QED
        BY <1>2, <2>1, <2>2, <3>2, <3>3, <3>4
    <2>3. CASE g \notin owned
      <3> HIDE DEF owned
      <3>1. Held(g)' = Held(g)
        BY <1>1, <1>6, <2>3 DEF Held, Holder, Used
      <3> QED
        BY <2>1, <2>3, <3>1
    <2> QED
      BY <2>2, <2>3
  <1> HIDE DEF owned, last
  <1>8. ASSUME NEW r \in Record
        PROVE  /\ HoldersOf(r)' = HoldersOf(r) \ Users(owned, r)
               /\ Users(owned, r) \in SUBSET HoldersOf(r)
               /\ \A s : /\ Charged(s, r)' = Charged(s, r) \ Users(of(s), r)
                         /\ Users(of(s), r) \in SUBSET Charged(s, r)
    <2>1. Users(owned, r) \in SUBSET HoldersOf(r)
      BY <1>3, <1>5, <1>7 DEF HoldersOf
    <2>2. HoldersOf(r)' = HoldersOf(r) \ Users(owned, r)
      <3>1. HoldersOf(r)' = {g \in Holder : r \in Held(g)'}
        BY DEF HoldersOf
      <3> QED
        BY <1>7, <3>1 DEF HoldersOf
    <2>3. ASSUME NEW s
          PROVE  /\ Charged(s, r)' = Charged(s, r) \ Users(of(s), r)
                 /\ Users(of(s), r) \in SUBSET Charged(s, r)
      <3>1. Users(of(s), r) = {t \in Users(owned, r) : TxSender[t] = s}
        OBVIOUS
      <3>2. \A g \in Users(owned, r) : g \in Holder /\ ChargedTo(g) = TxSender[g]
        BY <1>3, <1>5, <1>7
      <3>3. Charged(s, r)' = {g \in HoldersOf(r)' : ChargedTo(g)' = s}
        BY DEF Charged
      <3>4. \A g \in HoldersOf(r) : ChargedTo(g)' = ChargedTo(g)
        BY <1>7 DEF HoldersOf
      <3> HIDE DEF Users, of
      <3> QED
        BY <2>1, <2>2, <3>1, <3>2, <3>3, <3>4 DEF Charged
    <2> QED
      BY <2>1, <2>2, <2>3
  <1> HIDE DEF Users, of
  <1>9. PinAccounting' /\ pins' \in [Record -> Nat]
    <2> SUFFICES ASSUME NEW r \in Record
                 PROVE  pins'[r] = Cardinality(HoldersOf(r)') /\ pins'[r] \in Nat
      BY <1>1 DEF PinAccounting
    <2>1. pins[r] = Cardinality(HoldersOf(r))
      BY DEF IInv, PinAccounting
    <2>2. /\ Cardinality(HoldersOf(r) \ Users(owned, r)) = Cardinality(HoldersOf(r)) - Cardinality(Users(owned, r))
          /\ Cardinality(HoldersOf(r) \ Users(owned, r)) \in Nat
      BY <1>8, HoldersFinite, CardinalityLoss
    <2>3. pins'[r] = pins[r] - Cardinality(Users(owned, r))
      BY <1>1, <1>4
    <2> QED
      BY <1>8, <2>1, <2>2, <2>3
  <1>10. ASSUME NEW s \in Sender, NEW r \in Record
         PROVE  /\ senders'[s][r] = Cardinality(Charged(s, r)') /\ senders'[s][r] \in Nat
                /\ senders'[s][r] = senders[s][r] - References(of(s), r)
                /\ senders[s][r] \in Nat /\ References(of(s), r) \in Nat
    <2>1. senders[s][r] = Cardinality(Charged(s, r)) /\ senders[s][r] \in Nat
      BY DEF IInv, TypeOK, SenderBounded, Charged
    <2>2. /\ Cardinality(Charged(s, r) \ Users(of(s), r)) = Cardinality(Charged(s, r)) - Cardinality(Users(of(s), r))
          /\ Cardinality(Charged(s, r) \ Users(of(s), r)) \in Nat
          /\ Cardinality(Users(of(s), r)) \in Nat
      BY <1>8, ChargedFinite, CardinalityLoss
    <2>3. senders'[s][r] = senders[s][r] - References(of(s), r)
      BY <1>1
    <2> QED
      BY <1>4, <1>8, <2>1, <2>2, <2>3
  <1>11. ASSUME NEW s \in Sender
         PROVE  /\ senderBytes'[s] = Bytes[Charges(s)'] /\ senderBytes'[s] \in Nat
                /\ senderBytes'[s] <= MaxSenderPinnedBytes
                /\ Cardinality(Charges(s)') <= MaxSenderPinnedRecords
    <2>1. /\ last(s) \in SUBSET Record /\ Charges(s) \in SUBSET Record /\ Charges(s)' \in SUBSET Record
          /\ Bytes[last(s)] \in Nat /\ Bytes[Charges(s)] \in Nat /\ Bytes[Charges(s)'] \in Nat
      BY BytesAssumption DEF Charges, last
    <2>2. /\ Charges(s) = Charges(s)' \cup last(s) /\ Charges(s)' \cap last(s) = {}
          /\ Charges(s)' \subseteq Charges(s)
      <3>1. ASSUME NEW r \in Record
            PROVE  /\ r \in Charges(s)' => r \in Charges(s) /\ r \notin last(s)
                   /\ r \in Charges(s) => r \in Charges(s)' \/ r \in last(s)
                   /\ r \in last(s) => r \in Charges(s)
        BY <1>10 DEF Charges, last
      <3> QED
        BY <2>1, <3>1
    <2>3. senderBytes[s] = Bytes[Charges(s)]
      BY DEF IInv, SenderBounded, Charges
    <2>4. Bytes[Charges(s)] = Bytes[Charges(s)'] + Bytes[last(s)]
      BY <2>1, <2>2, BytesAssumption
    <2>5. senderBytes'[s] = senderBytes[s] - Bytes[last(s)]
      BY <1>1
    <2>6. Cardinality(Charges(s)') <= Cardinality(Charges(s))
      BY <2>1, <2>2, RecordsFinite, FS_Subset
    <2>7. senderBytes[s] <= MaxSenderPinnedBytes /\ Cardinality(Charges(s)) <= MaxSenderPinnedRecords
      BY DEF IInv, SenderBounded, Charges
    <2>8. Cardinality(Charges(s)') \in Nat /\ Cardinality(Charges(s)) \in Nat
      BY <2>1, RecordsFinite
    <2>9. senderBytes'[s] = Bytes[Charges(s)']
      BY <2>1, <2>3, <2>4, <2>5
    <2>10. senderBytes'[s] <= MaxSenderPinnedBytes
      BY <2>1, <2>3, <2>5, <2>7, LimitAssumption
    <2>11. Cardinality(Charges(s)') <= MaxSenderPinnedRecords
      BY <2>6, <2>7, <2>8, LimitAssumption
    <2> QED
      BY <2>1, <2>9, <2>10, <2>11
  <1>12. SenderBounded' /\ LedgerType'
    <2>1. senders' \in [Sender -> [Record -> Nat]]
      <3>1. /\ senders' = [s \in Sender |-> senders'[s]]
            /\ \A s \in Sender : senders'[s] = [r \in Record |-> senders'[s][r]]
        BY <1>1
      <3> QED
        BY <1>10, <3>1
    <2>2. senderBytes' = [s \in Sender |-> senderBytes'[s]]
      BY <1>1
    <2>3. senderBytes' \in [Sender -> Nat]
      BY <1>11, <2>2
    <2> QED
      BY <1>10, <1>11, <2>1, <2>3 DEF SenderBounded, Charges, Charged, LedgerType
  <1>13. HeldRecordsStored'
    BY <1>1, <1>7 DEF HeldRecordsStored, IInv, stored
  <1>14. TypeOK'
    BY <1>1, <1>6, <1>9, <1>12 DEF IInv, TypeOK, stored, LedgerType
  <1>15. CoverageSound' /\ CoverageCounted' /\ TablesSound' /\ BytesBounded'
    <2>1. \A u \in Tx : Sound(pending'[u], Record)
      BY <1>2, <1>6 DEF IInv, TypeOK, TablesSound
    <2> QED
      BY <1>1, <2>1 DEF IInv, CoverageSound, CoverageCounted, TablesSound, BytesBounded, stored
  <1> QED
    BY <1>9, <1>12, <1>13, <1>14, <1>15 DEF IInv
-----------------------------------------------------------------------------
LEMMA StutterIInv ==
  ASSUME IInv, UNCHANGED vars
  PROVE  IInv'
  <1>1. UNCHANGED <<identities, storedBytes, coverage, pins, covered, pending, senders,
                    senderBytes, scope, lease>>
    BY DEF vars, stored, ledger
  <1>2. \A h \in Holder : Held(h)' = Held(h) /\ ChargedTo(h)' = ChargedTo(h)
    BY <1>1 DEF Held, ChargedTo, Used
  <1>3. PinAccounting' /\ HeldRecordsStored' /\ SenderBounded'
    BY <1>1, <1>2 DEF IInv, PinAccounting, HeldRecordsStored, SenderBounded, HoldersOf
  <1>4. TypeOK' /\ CoverageSound' /\ CoverageCounted' /\ BytesBounded' /\ TablesSound'
    BY <1>1 DEF IInv, TypeOK, CoverageSound, CoverageCounted, BytesBounded, TablesSound, Sound
  <1> QED
    BY <1>3, <1>4 DEF IInv

LEMMA NextIInv == IInv /\ [Next]_vars => IInv'
  <1> SUFFICES ASSUME IInv, [Next]_vars PROVE IInv'
    OBVIOUS
  <1>1. CASE \E f \in Flow, w \in Offer : TryBeginAdmission(f, w)
    BY <1>1, BeginAdmissionIInv
  <1>2. CASE \E f \in Flow, l \in Lease, S \in SUBSET Dep, s \in Sender \cup {None} :
               TryReserveTransaction(f, l, S, s)
    BY <1>2, ReserveIInv
  <1>3. CASE \E f \in Flow, t \in Tx, publish \in BOOLEAN : PinPending(f, t, publish)
    BY <1>3, PinIInv
  <1>4. CASE \E t \in Tx : PublishPending(t)
    BY <1>4, PublishPendingIInv
  <1>5. CASE \E t \in Tx : UnpinPending(t)
    BY <1>5, UnpinIInv
  <1>6. CASE \E o \in Owner : ReleasePending(o)
    BY <1>6, ReleasePendingIInv
  <1>7. CASE \E f \in Flow, S \in SUBSET Dep : CommitAdmission(f, S)
    BY <1>7, CommitIInv
  <1>8. CASE \E f \in Flow, w \in Offer, S \in SUBSET Dep : AddVerified(f, w, S)
    BY <1>8, AddVerifiedIInv
  <1>9. CASE \E l \in Lease : DisposeLease(l)
    BY <1>9, DisposeLeaseIInv
  <1>10. CASE \E f \in Flow : DisposeAdmission(f)
    BY <1>10, DisposeAdmissionIInv
  <1>11. CASE UNCHANGED vars
    BY <1>11, StutterIInv
  <1> QED
    BY <1>1, <1>2, <1>3, <1>4, <1>5, <1>6, <1>7, <1>8, <1>9, <1>10, <1>11 DEF Next

(* The inductive invariant holds in every reachable state of the store. *)
THEOREM Invariance == Spec => []IInv
  BY InitIInv, NextIInv, PTL DEF Spec

(* Every variable keeps its type; in particular no pin count, reference count
   or byte total ever goes below zero, although the code decrements them
   without a check. *)
THEOREM TypeCorrectness == Spec => []TypeOK
  BY Invariance, PTL DEF IInv

(* A record has exactly one pin for each scope, reservation and pool entry
   that relies on it. *)
THEOREM PinsAccounted == Spec => []PinAccounting
  BY Invariance, PTL DEF IInv

(* No eviction and no release takes away a witness that a scope, a
   reservation or a pool entry holds: "pending witnesses are never evicted". *)
THEOREM HeldNeverEvicted == Spec => []HeldRecordsStored
  BY Invariance, PTL DEF IInv

(* Published coverage leads to a stored record that proves the dependency. *)
THEOREM CoverageLeadsToWitness == Spec => []CoverageSound
  BY Invariance, PTL DEF IInv

(* CoveredDependencies is exact for every stored record. *)
THEOREM CoverageCountExact == Spec => []CoverageCounted
  BY Invariance, PTL DEF IInv

(* Both together, for any store: coverage never dangles and is counted right. *)
THEOREM CoverageIsExact == Spec => []CoverageExact
  BY CoverageLeadsToWitness, CoverageCountExact, PTL DEF CoverageExact

(* The byte total is exact and within MaxStoredBytes. *)
THEOREM BytesWithinLimit == Spec => []BytesBounded
  BY Invariance, PTL DEF IInv

(* No sender is ever charged beyond its byte and record limits, and what it is
   charged is what its reservations and pool entries hold. *)
THEOREM SenderWithinLimits == Spec => []SenderBounded
  BY Invariance, PTL DEF IInv

(* Both limits hold together, whatever is admitted, evicted and released. *)
THEOREM LimitsAreKept == Spec => []LimitsKept
  BY BytesWithinLimit, SenderWithinLimits, PTL DEF LimitsKept
-----------------------------------------------------------------------------
(* The eviction list: the stored records, each once, within the limit. *)
ListIInv == /\ records \in Seq(Record) /\ IsInjective(records) /\ ToSet(records) = identities
            /\ Len(records) <= MaxStoredRecords

LEMMA ListLength ==
  ASSUME NEW q \in Seq(Record), IsInjective(q)
  PROVE  IsFiniteSet(ToSet(q)) /\ Cardinality(ToSet(q)) = Len(q)
  BY LengthCounts DEF ToSet

(* The orders in which the records of a set can arrive. *)
LEMMA OrderOfSet ==
  ASSUME NEW S \in SUBSET Record, NEW q \in SetToSeqs(S)
  PROVE  q \in Seq(Record) /\ IsInjective(q) /\ ToSet(q) = S
  <1>1. IsFiniteSet(S)
    BY FiniteAssumption, FS_Subset
  <1>2. PICK n \in Nat : n = Cardinality(S)
    BY <1>1, FS_CardinalityType
  <1>3. q \in [1..n -> S] /\ IsInjective(q)
    BY <1>2 DEF SetToSeqs, IsInjective
  <1>4. ExistsBijection(1..n, S) /\ IsFiniteSet(1..n) /\ Cardinality(1..n) = Cardinality(S)
    BY <1>1, <1>2, FS_CardinalityType, FS_Interval
  <1>5. q \in Surjection(1..n, S)
    BY <1>1, <1>3, <1>4, FS_Injection DEF Injection
  <1> QED
    BY <1>3, <1>5 DEF ToSet, Surjection

LEMMA ReplaceList ==
  ASSUME TypeOK, ListIInv, NEW out \in SUBSET identities, NEW in \in SUBSET Record,
         in \cap identities = {}, Replace(out, in), in = {} \/ Fits(out, in)
  PROVE  ListIInv'
  <1>1. PICK q \in SetToSeqs(in) : records' = Without(records, out) \o q
    BY DEF Replace
  <1>2. q \in Seq(Record) /\ IsInjective(q) /\ ToSet(q) = in
    BY OrderOfSet
  <1> DEFINE t == Without(records, out)
  <1>3. /\ t \in Seq(Record) /\ IsInjective(t) /\ ToSet(t) = identities \ out
        /\ Len(t) <= Len(records)
    <2>1. IsInjective(records) /\ records \in Seq(Record) /\ {records[i] : i \in DOMAIN records} = identities
      BY DEF ListIInv, ToSet
    <2> HIDE DEF t
    <2>2. /\ Without(records, out) \in Seq(Record) /\ Len(Without(records, out)) <= Len(records)
          /\ {Without(records, out)[k] : k \in DOMAIN Without(records, out)}
               = {records[i] : i \in DOMAIN records} \ out
          /\ IsInjective(records) => IsInjective(Without(records, out))
      BY <2>1, WithoutSome
    <2>3. /\ t \in Seq(Record) /\ Len(t) <= Len(records) /\ IsInjective(t)
          /\ {t[k] : k \in DOMAIN t} = {records[i] : i \in DOMAIN records} \ out
      BY <2>1, <2>2 DEF t
    <2> QED
      BY <2>1, <2>3 DEF ToSet
  <1> HIDE DEF t
  <1>4. /\ t \o q \in Seq(Record) /\ Len(t \o q) = Len(t) + Len(q)
        /\ \A i \in 1..Len(t) + Len(q) : (t \o q)[i] = IF i <= Len(t) THEN t[i] ELSE q[i - Len(t)]
    BY <1>2, <1>3, ConcatProperties
  <1>5. /\ Len(t) \in Nat /\ DOMAIN t = 1..Len(t) /\ Len(q) \in Nat /\ DOMAIN q = 1..Len(q)
        /\ DOMAIN (t \o q) = 1..Len(t) + Len(q)
    BY <1>2, <1>3, <1>4
  <1>6. ToSet(t \o q) = (identities \ out) \cup in
    <2>1. ASSUME NEW i \in 1..Len(t) + Len(q)
          PROVE  (t \o q)[i] \in ToSet(t) \cup ToSet(q)
      <3>1. CASE i <= Len(t)
        BY <3>1, <1>4, <1>5 DEF ToSet
      <3>2. CASE ~(i <= Len(t))
        <4>1. i - Len(t) \in DOMAIN q /\ (t \o q)[i] = q[i - Len(t)]
          BY <3>2, <1>4, <1>5
        <4> QED
          BY <4>1 DEF ToSet
      <3> QED
        BY <3>1, <3>2
    <2>2. ASSUME NEW x \in ToSet(t)
          PROVE  x \in ToSet(t \o q)
      <3>1. PICK i \in DOMAIN t : x = t[i]
        BY <2>2 DEF ToSet
      <3>2. i \in DOMAIN (t \o q) /\ (t \o q)[i] = x
        BY <3>1, <1>4, <1>5
      <3> QED
        BY <3>2 DEF ToSet
    <2>3. ASSUME NEW x \in ToSet(q)
          PROVE  x \in ToSet(t \o q)
      <3>1. PICK i \in DOMAIN q : x = q[i]
        BY <2>3 DEF ToSet
      <3>2. Len(t) + i \in DOMAIN (t \o q) /\ (t \o q)[Len(t) + i] = x
        BY <3>1, <1>4, <1>5
      <3> QED
        BY <3>2 DEF ToSet
    <2>4. ToSet(t \o q) \subseteq ToSet(t) \cup ToSet(q)
      BY <2>1, <1>5 DEF ToSet
    <2> QED
      BY <2>2, <2>3, <2>4, <1>2, <1>3
  <1>7. IsInjective(t \o q)
    <2> SUFFICES ASSUME NEW i \in 1..Len(t) + Len(q), NEW j \in 1..Len(t) + Len(q),
                        (t \o q)[i] = (t \o q)[j]
                 PROVE  i = j
      BY <1>5 DEF IsInjective
    <2>1. \A k \in 1..Len(t) + Len(q) :
            IF k <= Len(t) THEN (t \o q)[k] = t[k] /\ k \in DOMAIN t /\ t[k] \in identities
            ELSE (t \o q)[k] = q[k - Len(t)] /\ k - Len(t) \in DOMAIN q /\ q[k - Len(t)] \in in
      BY <1>2, <1>3, <1>4, <1>5 DEF ToSet
    <2>2. CASE i <= Len(t) /\ j <= Len(t)
      BY <2>1, <2>2, <1>3 DEF IsInjective
    <2>3. CASE ~(i <= Len(t)) /\ ~(j <= Len(t))
      <3>1. i - Len(t) = j - Len(t)
        BY <2>1, <2>3, <1>2 DEF IsInjective
      <3> QED
        BY <3>1, <1>5
    <2>4. CASE (i <= Len(t)) # (j <= Len(t))
      BY <2>1, <2>4
    <2> QED
      BY <2>2, <2>3, <2>4
  <1>8. Len(t \o q) <= MaxStoredRecords
    <2>1. CASE in = {}
      <3>1. DOMAIN q = {}
        BY <2>1, <1>2 DEF ToSet
      <3>2. ~(1 \in 1..Len(q))
        BY <3>1, <1>5
      <3>3. Len(q) = 0
        BY <3>2, <1>5
      <3> QED
        BY <3>3, <1>3, <1>4, <1>5, LimitAssumption DEF ListIInv
    <2>2. CASE Fits(out, in)
      <3>1. /\ IsFiniteSet(identities) /\ Cardinality(identities) = Len(records)
            /\ Cardinality(identities \ out) = Len(t) /\ Cardinality(in) = Len(q)
        BY <1>2, <1>3, ListLength DEF ListIInv
      <3>2. Cardinality(identities \ out) = Cardinality(identities) - Cardinality(identities \cap out)
        BY <3>1, FS_Difference
      <3>3. identities \cap out = out
        OBVIOUS
      <3>4. Cardinality(out) \in Nat /\ Len(records) \in Nat
        BY <3>1, FS_Subset, FS_CardinalityType DEF ListIInv
      <3> QED
        BY <2>2, <3>1, <3>2, <3>3, <3>4, <1>4, <1>5, LimitAssumption DEF Fits
    <2> QED
      BY <2>1, <2>2
  <1> QED
    BY <1>1, <1>4, <1>6, <1>7, <1>8 DEF ListIInv, Replace, t

LEMMA EvictedStored == \A p, in : Evicted(p, in) \in SUBSET identities
  BY DEF Evicted, Victims

LEMMA DisposeList ==
  ASSUME TypeOK, ListIInv, NEW held, Dispose(held)
  PROVE  ListIInv'
  <1>1. Unreferenced(held) \in SUBSET identities /\ Replace(Unreferenced(held), {})
    BY DEF Dispose, Unreferenced
  <1> QED
    BY <1>1, ReplaceList

LEMMA StepList ==
  ASSUME IInv, ListIInv, [Next]_vars
  PROVE  ListIInv'
  <1>1. CASE UNCHANGED stored
    BY <1>1 DEF stored, ListIInv
  <1>2. ASSUME NEW f \in Flow, NEW w \in Offer, TryBeginAdmission(f, w)
        PROVE  ListIInv'
    <2> DEFINE chosen == [d \in Dep |-> IF w[d] = None THEN None
                                        ELSE IF coverage[d] # None THEN coverage[d] ELSE w[d]]
               in == Used(chosen) \ identities
               out == Evicted(AddPins(Used(chosen)), in)
    <2>1. out \in SUBSET identities /\ in \in SUBSET Record /\ in \cap identities = {}
      BY EvictedStored DEF Used
    <2>2. \/ (in = {} \/ Fits(out, in)) /\ Replace(out, in)
          \/ Replace(out, {})
      BY <1>2 DEF TryBeginAdmission
    <2> HIDE DEF in, out
    <2> QED
      BY <2>1, <2>2, ReplaceList DEF IInv
  <1>3. ASSUME NEW f \in Flow, NEW w \in Offer, NEW S \in SUBSET Dep, AddVerified(f, w, S)
        PROVE  ListIInv'
    <2> DEFINE missing == {d \in S : coverage[d] = None}
               request == Only(w, missing)
               in == Used(request) \ identities
               p  == [r \in Record |-> pins[r] + Cardinality({d \in Dep : request[d] = r})]
               out == Evicted(p, in)
    <2>1. out \in SUBSET identities /\ in \in SUBSET Record /\ in \cap identities = {}
      BY EvictedStored DEF Used
    <2>2. \/ UNCHANGED stored
          \/ (in = {} \/ Fits(out, in)) /\ Replace(out, in)
          \/ Replace(out, {})
      BY <1>3 DEF AddVerified, Publish
    <2> HIDE DEF in, out
    <2> QED
      BY <1>1, <2>1, <2>2, ReplaceList DEF IInv
  <1>4. ASSUME NEW l \in Lease, DisposeLease(l)
        PROVE  ListIInv'
    BY <1>4, DisposeList DEF IInv, DisposeLease
  <1>5. ASSUME NEW f \in Flow, DisposeAdmission(f)
        PROVE  ListIInv'
    BY <1>5, DisposeList DEF IInv, DisposeAdmission
  <1>6. CASE \/ \E f \in Flow, l \in Lease, S \in SUBSET Dep, s \in Sender \cup {None} :
                   TryReserveTransaction(f, l, S, s)
             \/ \E f \in Flow, t \in Tx, publish \in BOOLEAN : PinPending(f, t, publish)
             \/ \E t \in Tx : PublishPending(t) \/ UnpinPending(t)
             \/ \E o \in Owner : ReleasePending(o)
             \/ \E f \in Flow, S \in SUBSET Dep : CommitAdmission(f, S)
    BY <1>1, <1>6 DEF TryReserveTransaction, PinPending, PublishPending, UnpinPending, ReleasePending,
                      CommitAdmission, Publish
  <1> QED
    BY <1>1, <1>2, <1>3, <1>4, <1>5, <1>6 DEF Next, vars

LEMMA InitList == Init => ListIInv
  BY LimitAssumption DEF Init, ListIInv, IsInjective, ToSet

(* The eviction list and the identity index hold the same records, each once,
   and never more of them than the limit, in any store and whatever is evicted
   from the middle of the list. *)
THEOREM ListIsBounded == Spec => []ListBounded
  <1>1. IInv /\ ListIInv /\ [Next]_vars => ListIInv'
    BY StepList
  <1>2. ListIInv => ListBounded
    BY ListLength DEF ListIInv, ListBounded
  <1> QED
    BY InitList, Invariance, <1>1, <1>2, PTL DEF Spec
-----------------------------------------------------------------------------
(* The step of PinnedCoverageStable, action by action. *)
PinnedCoverageKept ==
  \A d \in Dep : coverage[d] # None /\ pins[coverage[d]] > 0 => coverage'[d] = coverage[d]

(* Publication under at least the current pins replaces no pinned record. *)
LEMMA PublicationKeepsPinned ==
  ASSUME IInv, NEW d \in Dep, coverage[d] # None, pins[coverage[d]] > 0,
         NEW c, c[d] = coverage[d], NEW t,
         NEW p, p[coverage[d]] \in Nat, p[coverage[d]] >= pins[coverage[d]]
  PROVE  Published(c, p, t)[d] = coverage[d]
  <1>1. coverage[d] \in Record /\ pins[coverage[d]] \in Nat
    BY DEF IInv, TypeOK, Table
  <1>2. p[coverage[d]] # 0
    BY <1>1
  <1> QED
    BY <1>2 DEF Published

(* A release throws away only what no dependency leads to. *)
LEMMA DisposalKeepsPinned ==
  ASSUME IInv, NEW held, Dispose(held), NEW d \in Dep, coverage[d] # None
  PROVE  coverage'[d] = coverage[d]
  <1>1. coverage[d] \in identities /\ coverage[d] \in Record
    BY DEF IInv, CoverageSound, TypeOK
  <1>2. covered[coverage[d]] = Cardinality({e \in Dep : coverage[e] = coverage[d]})
    BY <1>1 DEF IInv, CoverageCounted
  <1>3. covered[coverage[d]] # 0
    <2>1. {e \in Dep : coverage[e] = coverage[d]} \in SUBSET Dep
      OBVIOUS
    <2>2. {e \in Dep : coverage[e] = coverage[d]} # {}
      OBVIOUS
    <2>3. Cardinality({e \in Dep : coverage[e] = coverage[d]}) # 0
      BY <2>1, <2>2, DepsFinite, FS_EmptySet
    <2> QED
      BY <1>2, <2>3
  <1>4. coverage[d] \notin Unreferenced(held)
    BY <1>3 DEF Unreferenced
  <1> QED
    BY <1>4 DEF Dispose, Uncovered

LEMMA StepKeepsPinnedCoverage == IInv /\ [Next]_vars => PinnedCoverageKept
  <1> SUFFICES ASSUME IInv, [Next]_vars,
                      NEW d \in Dep, coverage[d] # None, pins[coverage[d]] > 0
               PROVE  coverage'[d] = coverage[d]
    BY DEF PinnedCoverageKept
  <1>1. coverage[d] \in Record /\ coverage[d] \in identities /\ pins[coverage[d]] \in Nat
    BY DEF IInv, TypeOK, CoverageSound, Table
  <1>2. ASSUME NEW t, Publish(t)
        PROVE  coverage'[d] = coverage[d]
    BY <1>1, <1>2, PublicationKeepsPinned DEF Publish
  <1>3. ASSUME NEW f \in Flow, NEW w \in Offer, TryBeginAdmission(f, w)
        PROVE  coverage'[d] = coverage[d]
    <2> DEFINE chosen == [e \in Dep |-> IF w[e] = None THEN None
                                        ELSE IF coverage[e] # None THEN coverage[e] ELSE w[e]]
               p == AddPins(Used(chosen))
               in == Used(chosen) \ identities
               out == Evicted(p, in)
    <2>1. coverage' = Uncovered(out)
      BY <1>3 DEF TryBeginAdmission
    <2>2. p \in [Record -> Nat] /\ p[coverage[d]] # 0 /\ in \in SUBSET Record
      BY <1>1 DEF AddPins, IInv, TypeOK, Used
    <2> HIDE DEF p, in
    <2>3. coverage[d] \notin out
      BY <2>2, EvictedUnpinned DEF IInv
    <2> QED
      BY <2>1, <2>3 DEF Uncovered
  <1>4. ASSUME NEW f \in Flow, NEW t \in Tx, NEW publish \in BOOLEAN, PinPending(f, t, publish)
        PROVE  coverage'[d] = coverage[d]
    <2> DEFINE chosen == Resolved(f, TxDeps[t])
               p == AddPins(Used(chosen))
    <2>1. coverage' = IF publish THEN Published(coverage, p, chosen) ELSE coverage
      BY <1>4 DEF PinPending
    <2>2. p[coverage[d]] \in Nat /\ p[coverage[d]] >= pins[coverage[d]]
      BY <1>1 DEF AddPins
    <2> HIDE DEF p, chosen
    <2> QED
      BY <2>1, <2>2, PublicationKeepsPinned
  <1>5. ASSUME NEW f \in Flow, NEW w \in Offer, NEW S \in SUBSET Dep, AddVerified(f, w, S)
        PROVE  coverage'[d] = coverage[d]
    <2> DEFINE missing == {e \in S : coverage[e] = None}
               request == Only(w, missing)
               in == Used(request) \ identities
               asked(r) == {e \in Dep : request[e] = r}
               p == [r \in Record |-> pins[r] + Cardinality(asked(r))]
               out == Evicted(p, in)
               kept == Uncovered(out)
    <2>1. \/ Publish(Only(scope[f], S))
          \/ coverage' = Published(kept, p, request)
          \/ coverage' = kept
      BY <1>5 DEF AddVerified
    <2>2. \A r \in Record : Cardinality(asked(r)) \in Nat
      <3>1. \A r \in Record : asked(r) \in SUBSET Dep
        OBVIOUS
      <3> HIDE DEF asked
      <3> QED
        BY <3>1, DepsFinite
    <2>3. p \in [Record -> Nat] /\ in \in SUBSET Record
      <3>1. in \in SUBSET Record
        BY DEF Used
      <3> HIDE DEF asked, request
      <3>2. \A r \in Record : pins[r] + Cardinality(asked(r)) \in Nat
        BY <2>2 DEF IInv, TypeOK
      <3> QED
        BY <3>1, <3>2
    <2>4. p[coverage[d]] \in Nat /\ p[coverage[d]] >= pins[coverage[d]]
      <3>1. p[coverage[d]] = pins[coverage[d]] + Cardinality(asked(coverage[d]))
        BY <1>1
      <3> HIDE DEF asked, p
      <3> QED
        BY <1>1, <2>2, <3>1
    <2> HIDE DEF p, in
    <2>5. coverage[d] \notin out
      BY <1>1, <2>3, <2>4, EvictedUnpinned DEF IInv
    <2>6. kept[d] = coverage[d]
      BY <2>5 DEF Uncovered
    <2> HIDE DEF kept, request
    <2> QED
      BY <1>2, <2>1, <2>4, <2>6, PublicationKeepsPinned
  <1>6. CASE \/ \E f \in Flow, l \in Lease, S \in SUBSET Dep, s \in Sender \cup {None} :
                  TryReserveTransaction(f, l, S, s)
             \/ \E t \in Tx : UnpinPending(t)
             \/ \E o \in Owner : ReleasePending(o)
             \/ UNCHANGED vars
    BY <1>6 DEF TryReserveTransaction, UnpinPending, ReleasePending, vars
  <1>7. ASSUME NEW t \in Tx, PublishPending(t)
        PROVE  coverage'[d] = coverage[d]
    BY <1>2, <1>7 DEF PublishPending
  <1>8. ASSUME NEW f \in Flow, NEW S \in SUBSET Dep, CommitAdmission(f, S)
        PROVE  coverage'[d] = coverage[d]
    BY <1>2, <1>8 DEF CommitAdmission
  <1>9. ASSUME NEW l \in Lease, DisposeLease(l)
        PROVE  coverage'[d] = coverage[d]
    BY <1>9, DisposalKeepsPinned DEF DisposeLease
  <1>10. ASSUME NEW f \in Flow, DisposeAdmission(f)
         PROVE  coverage'[d] = coverage[d]
    BY <1>10, DisposalKeepsPinned DEF DisposeAdmission
  <1> QED
    BY <1>3, <1>4, <1>5, <1>6, <1>7, <1>8, <1>9, <1>10 DEF Next

(* A dependency keeps its published record for as long as anybody pins it,
   the step that releases the last pin included. *)
THEOREM PinnedCoverageNeverMoves == Spec => PinnedCoverageStable
  <1>1. IInv /\ [Next]_vars => [PinnedCoverageKept]_vars
    BY StepKeepsPinnedCoverage
  <1>2. PinnedCoverageKept <=>
          (\A d \in Dep : coverage[d] # None /\ pins[coverage[d]] > 0 => coverage'[d] = coverage[d])
    BY DEF PinnedCoverageKept
  <1>3. IInv /\ [Next]_vars =>
          [\A d \in Dep : coverage[d] # None /\ pins[coverage[d]] > 0 => coverage'[d] = coverage[d]]_vars
    BY <1>1, <1>2
  <1> QED
    BY <1>3, Invariance, PTL DEF Spec, PinnedCoverageStable
====
