---------------------------- MODULE MC_DataParallel ----------------------------
(* Instances of DataParallel for TLC. *)
EXTENDS DataParallel, TLC

\* Two ranks with three sequences each; mini-batches of all of them or of two
\* and one; micro-batches of one sequence or by tokens.  Four ranks in two
\* sequence parallel groups.  And the default mean over tokens.
FourShapes ==
    {[ranks |-> 2, sp |-> 1, rows |-> 6, mini |-> 3, micro |-> 1, dynamic |-> d,
      agg |-> "seq-mean", epochs |-> 1, test |-> 3] : d \in BOOLEAN}
    \cup {[ranks |-> 2, sp |-> 1, rows |-> 6, mini |-> 2, micro |-> 1, dynamic |-> TRUE,
           agg |-> "seq-mean", epochs |-> 2, test |-> 4]}
    \cup {[ranks |-> 4, sp |-> 2, rows |-> 4, mini |-> 2, micro |-> 2, dynamic |-> d,
           agg |-> "seq-mean", epochs |-> 1, test |-> 1] : d \in BOOLEAN}
    \cup {[ranks |-> 2, sp |-> 1, rows |-> 4, mini |-> 2, micro |-> 2, dynamic |-> d,
           agg |-> "token-mean", epochs |-> 1, test |-> 1] : d \in BOOLEAN}
=============================================================================
