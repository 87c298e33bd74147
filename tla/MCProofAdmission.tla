-------------------------- MODULE MCProofAdmission --------------------------
(* Instances of ProofAdmission for TLC: two flows, up to three transactions of
   one sender, two rival direct witnesses of d1 and a recursive proof of both. *)
EXTENDS ProofAdmission

CONSTANTS d1, d2, a1, b1, r12, t1, t2, t3, s1, o1, f1, f2, q1, q2, u1, u2

MCDepsOf == (a1 :> {d1}) @@ (b1 :> {d1}) @@ (r12 :> {d1, d2})
MCSize(r) == IF r = r12 THEN 2 ELSE 1
MCBytes == [S \in SUBSET Record |-> MapThenSumSet(MCSize, S)]

MCTxDeps == [t \in Tx |-> (t1 :> {d1} @@ t2 :> {d2} @@ t3 :> {d1, d2})[t]]
MCTxSender == [t \in Tx |-> s1]
MCTxOwner == [t \in Tx |-> o1]
MCUnbound == (f1 :> u1) @@ (f2 :> u2)
MCQuota == (f1 :> q1) @@ (f2 :> q2)

Full(t) == [tx |-> t, full |-> TRUE]
Named(t) == [tx |-> t, full |-> FALSE]
Direct(r) == (d1 :> r) @@ (d2 :> None)
Both == (d1 :> r12) @@ (d2 :> r12)

MCWrapper ==
  {w \in
   { [offer |-> Direct(a1), entries |-> <<Full(t1)>>],
     [offer |-> Direct(b1), entries |-> <<Full(t1)>>],
     [offer |-> Both, entries |-> <<Named(t1), Full(t3)>>] } :
     \A i \in 1..Len(w.entries) : w.entries[i].tx \in Tx}
=============================================================================
