--------------------------- MODULE MC_SandboxReward ---------------------------
(* Instances of SandboxReward for TLC. *)
EXTENDS SandboxReward, TLC

CONSTANTS r1, r2

TwoResponses == {r1, r2}
ThreeAndOne == [r \in TwoResponses |-> IF r = r1 THEN 3 ELSE 1]
=============================================================================
