--------------------------- MODULE MC_Checkpoint ---------------------------
(* Instances of Checkpoint for TLC. *)
EXTENDS Checkpoint

KeepTwoAndThree == [ro \in {"actor", "critic"} |-> IF ro = "actor" THEN 2 ELSE 3]
=============================================================================
