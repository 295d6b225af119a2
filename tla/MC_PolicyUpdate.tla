--------------------------- MODULE MC_PolicyUpdate ---------------------------
(* Instances of PolicyUpdate for TLC. *)
EXTENDS PolicyUpdate

\* Two responses of up to two tokens in one mini-batch, twice; one micro-batch
\* or two.
Plain ==
    [rows |-> 2, length |-> 2, mini |-> 2, micro |-> 1, epochs |-> 2, adaptive |-> FALSE,
     cispo |-> FALSE, keep |-> 100, threshold |-> 0, reweight |-> FALSE,
     mode |-> "seq-mean-token-mean"]

Acpo == [Plain EXCEPT !.adaptive = TRUE]
TwoMinis(s, epochs) == [s EXCEPT !.mini = 1, !.epochs = epochs]

\* The methods of scripts/acpo, ACPO in one micro-batch and in two, and the
\* other ways to aggregate.
Methods ==
    {Plain, Acpo, [Acpo EXCEPT !.micro = 2],
     [Plain EXCEPT !.cispo = TRUE], [Acpo EXCEPT !.cispo = TRUE],
     [Plain EXCEPT !.keep = 20], [Plain EXCEPT !.keep = 80, !.micro = 2],
     TwoMinis([Plain EXCEPT !.threshold = 2, !.reweight = TRUE], 1),
     [Plain EXCEPT !.threshold = -2, !.epochs = 1, !.micro = 2],
     TwoMinis([Acpo EXCEPT !.mode = "token-mean"], 1),
     [Plain EXCEPT !.mode = "seq-mean-token-sum"],
     [Plain EXCEPT !.mode = "allavg"]}

\* ACPO as in scripts/acpo: several updates per rollout, one epoch, and
\* mini-batches of more than one micro-batch.
AcpoInTwo == {[Acpo EXCEPT !.rows = 4, !.length = 1, !.epochs = 1]}
=============================================================================
