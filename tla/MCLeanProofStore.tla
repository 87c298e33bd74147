-------------------------- MODULE MCLeanProofStore --------------------------
(* Instances of LeanProofStore for TLC: two dependencies, d1 with two direct
   witnesses, d2 with one, and a recursive proof of both. *)
EXTENDS LeanProofStore

CONSTANTS d1, d2, a1, b1, a2, r12, t1, t2, s1, o1, f1, f2, l1

MCDepsOf == (a1 :> {d1}) @@ (b1 :> {d1}) @@ (a2 :> {d2}) @@ (r12 :> {d1, d2})
MCSize(r) == IF r = r12 THEN 2 ELSE 1
MCBytes == [S \in SUBSET Record |-> MapThenSumSet(MCSize, S)]

MCTxDeps == (t1 :> {d1}) @@ (t2 :> {d1, d2})
MCTxSender == (t1 :> s1) @@ (t2 :> s1)
MCTxOwner == (t1 :> o1) @@ (t2 :> o1)
=============================================================================
