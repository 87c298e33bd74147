----------------------------- MODULE MCAdmission -----------------------------
(* What comes into a node: submissions into the pool of transactions and blocks
   into fork choice, side by side, each behaviour of one of them, "part". *)
EXTENDS MCProofAdmission, BlockImport

CONSTANTS i1, i2

(* Two children of genesis' child: one with a bad signature, one of the next epoch. *)
MCParent == ("g" :> "g") @@ ("b1" :> "g") @@ ("b2" :> "b1") @@ ("c1" :> "b1")
MCSlotOf == ("g" :> 0) @@ ("b1" :> 1) @@ ("b2" :> 2) @@ ("c1" :> 3)
MCEpochOf == ("g" :> 0) @@ ("b1" :> 0) @@ ("b2" :> 0) @@ ("c1" :> 1)
MCSegments == {<<"b1", "b2">>, <<"b1", "c1">>}

VARIABLE part

SideInit == part \in {"admission", "import"} /\ AdmissionInit /\ ImportInit

SideNext ==
  /\ UNCHANGED part
  /\ \/ part = "admission" /\ AdmissionNext /\ UNCHANGED importVars
     \/ part = "import" /\ ImportNext /\ UNCHANGED admissionVars

SideSpec == SideInit /\ [][SideNext]_<<part, admissionVars, importVars>>
=============================================================================
