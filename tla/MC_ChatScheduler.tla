-------------------------- MODULE MC_ChatScheduler --------------------------
(* Instances of ChatScheduler for TLC. *)
EXTENDS ChatScheduler, TLC

CONSTANTS p1, p2, p3

ThreePrompts == {p1, p2, p3}
TwoPrompts == {p1, p2}
=============================================================================
