------------------------- MODULE MCEngineForkchoice -------------------------
(* Two tasks and the validator that proposes in every slot. *)
EXTENDS EngineForkchoice

CONSTANTS t1, t2, v1

MCProposer == [s \in 1..MaxSlot |-> v1]
=============================================================================
