------------------------- MODULE MC_DynamicSampling -------------------------
(* Instances of DynamicSampling for TLC. *)
EXTENDS DynamicSampling, TLC

\* Off; on without and with a limit; on with a single response per prompt.  The
\* data is shuffled, as it is by default, but in one of them.
FourSettings ==
    {[filter |-> FALSE, n |-> 2, maxGen |-> 0, shuffle |-> TRUE],
     [filter |-> TRUE, n |-> 2, maxGen |-> 0, shuffle |-> TRUE],
     [filter |-> TRUE, n |-> 3, maxGen |-> 2, shuffle |-> FALSE],
     [filter |-> TRUE, n |-> 1, maxGen |-> 0, shuffle |-> TRUE]}

\* Every pass starts one item later than the one before it.
RotatedOrder(e, i) == ((i - 1 + e) % (BatchesPerEpoch * GenBatch)) + 1
=============================================================================
