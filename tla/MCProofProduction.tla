------------------------- MODULE MCProofProduction -------------------------
(* Instances of ProofProduction: t2 depends on what t1 depends on and on d2,
   which came in a recursive proof of the legacy program; or each transaction
   has a dependency of its own. *)
EXTENDS ProofProduction

CONSTANTS t1, t2, t3, d1, d2, d3

MCOrderTwo   == <<t1, t2>>
MCOrderThree == <<t1, t2, t3>>

MCDepsOf == [t \in Tx |-> IF t = t1 THEN {d1} ELSE {d1, d2}]

MCOneEach == [t \in Tx |-> IF t = t1 THEN {d1} ELSE IF t = t2 THEN {d2} ELSE {d3}]

MCDirect == [d \in Dep |-> None]
MCParent == [d \in Dep |-> IF d = d2 THEN Legacy ELSE None]

MCLegacyOnly   == {Legacy}
MCAdaptiveOnly == {Adaptive}
MCBoth         == {Legacy, Adaptive}
=============================================================================
