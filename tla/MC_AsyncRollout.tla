-------------------------- MODULE MC_AsyncRollout --------------------------
(* Instances of AsyncRollout for TLC. *)
EXTENDS AsyncRollout

CONSTANTS r1, r2

TwoReqs == {r1, r2}
=============================================================================
