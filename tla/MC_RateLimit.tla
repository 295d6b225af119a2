---------------------------- MODULE MC_RateLimit ----------------------------
(* Instances of RateLimit for TLC. *)
EXTENDS RateLimit

TwoPools == {"search", "sandbox"}
FiveCalls == 1..5
FirstTwoSearch == [c \in FiveCalls |-> IF c <= 2 THEN "search" ELSE "sandbox"]
TwoWorkers == [p \in TwoPools |-> 2]
SearchTwoSandboxOne == [p \in TwoPools |-> IF p = "search" THEN 2 ELSE 1]
=============================================================================
