---------------------------- MODULE PolicyUpdate ----------------------------
(***************************************************************************)
(* The update of the policy with the repository's own clipping: what the   *)
(* driver makes of the advantages (AR reweighting, the two passes of       *)
(* Lopti), and update_policy of one actor with compute_policy_loss (PPO    *)
(* and dual clipping, ACPO, CISPO, selection by entropy) over epochs,      *)
(* mini-batches and micro-batches of a fixed number of responses.          *)
(*                                                                         *)
(* A token is a place of a response that the response mask keeps.  Its     *)
(* probability is a number of parts of Whole, a ratio of probabilities and *)
(* everything that is compared with one a number of parts of One.  In the  *)
(* place of the loss stands its gradient: grad[t] is how much a step of    *)
(* the optimizer raises the log probability of token t.  The tokens share  *)
(* the parameters, so an optimizer step may move every probability.        *)
(***************************************************************************)
EXTENDS Integers, Sequences, FiniteSets, FiniteSetsExt

CONSTANTS
    Settings,      \* the configurations, see SettingsAssumption
    Probs,         \* the probabilities a token can have
    Whole,         \* the probability 1
    MaxTokens,     \* bound: tokens of a batch
    BaseClip, ClipMin, ClipMax, Alpha, Bins,    \* variance_*
    ClipLow, ClipHigh, ClipC,                   \* clip_ratio_low, _high, _c
    IsLow, IsHigh,                              \* CISPO's clip_ratio_is_low, _high
    ArAlpha, ArTau, ArUnit,                     \* ar_alpha and ar_tau, in parts of ArUnit
    Unit           \* a loss of 1

\* rows, length: the shape of the batch.  mini, micro: ppo_mini_batch_size and
\* ppo_micro_batch_size_per_gpu after normalisation.  epochs: ppo_epochs.
\* adaptive: use_variance_adaptive_clip.  cispo: use_cispo.  keep:
\* entropy_k_ratio in percent, 100 without a selection.  threshold:
\* lopti_prob_threshold, 0 without Lopti.  reweight: use_ar_lopti.
\* mode: loss_agg_mode, "allavg" with use_dr_grpo.
ASSUME SettingsAssumption ==
    \A s \in Settings :
        /\ DOMAIN s = {"rows", "length", "mini", "micro", "epochs", "adaptive", "cispo",
                       "keep", "threshold", "reweight", "mode"}
        /\ {s.rows, s.length, s.mini, s.micro, s.epochs} \subseteq Nat \ {0}
        /\ s.rows % s.mini = 0 /\ s.mini % s.micro = 0
        /\ s.keep \in Nat /\ s.threshold \in Int
        /\ {s.adaptive, s.cispo} \subseteq BOOLEAN
        /\ s.mode \in {"token-mean", "seq-mean-token-sum", "seq-mean-token-mean", "allavg"}

One == 10 * Whole

\* Ratios are whole numbers, and so is what a loss of 1 is divided by.
\* compute_policy_loss asserts the last conjunct.
ASSUME UnitsAssumption ==
    /\ Whole \in Nat \ {0} /\ Probs \subseteq 1..Whole
    /\ \A p, q \in Probs : (One * q) % p = 0
    /\ {ClipLow, ClipHigh, BaseClip, ClipMin, ClipMax, Alpha, IsHigh} \subseteq Nat
    /\ ClipMin <= ClipMax
    /\ {IsLow, ArAlpha, ArTau} \subseteq Int /\ {ArUnit, Unit} \subseteq Nat \ {0}
    /\ \A s \in Settings : \A d \in 1..(s.mini * s.length) : Unit % d = 0
    /\ ClipC \in Int /\ ClipC > One

VARIABLES
    setting,   \* no step changes it
    lens,      \* the tokens of each response
    old,       \* old_log_probs: the probability of each token when it was sampled
    prob,      \* what the policy gives it now
    (* the driver *)
    stage,     \* "advantage", "update", "done"
    kept,      \* original_advantages
    adv,       \* the advantages in the batch
    masks,     \* the passes over the batch still to do: the tokens of each
    (* the actor *)
    epoch, mini, micro,    \* the next micro-batch
    grad,      \* the accumulated gradient
    chosen,    \* observation: the tokens of this mini-batch that are in its loss
    turns      \* observation: the mini-batches in which a token had an advantage

vars == <<setting, lens, old, prob, stage, kept, adv, masks, epoch, mini, micro, grad,
          chosen, turns>>

Rows == 1..setting.rows
TokensOf(rows) == {t \in rows \X (1..setting.length) : t[2] <= lens[t[1]]}
Tokens == TokensOf(Rows)

\* The policy that recomputes old_log_probs is the one that is updated; GRPO
\* gives all tokens of a response the same advantage.
Init ==
    /\ setting \in Settings
    /\ lens \in {l \in [Rows -> 1..setting.length] :
                    MapThenSumSet(LAMBDA i : l[i], Rows) <= MaxTokens}
    /\ old \in [Tokens -> Probs]
    /\ prob = old
    /\ \E sign \in [Rows -> {-1, 0, 1}] : adv = [t \in Tokens |-> ArUnit * Whole * sign[t[1]]]
    /\ stage = "advantage"
    /\ kept = adv
    /\ masks = <<>>
    /\ epoch = 1 /\ mini = 1 /\ micro = 1
    /\ grad = [t \in Tokens |-> 0]
    /\ chosen = {}
    /\ turns = [t \in Tokens |-> 0]

(***************************************************************************)
(* The driver: compute_ar_reweight_advantage, compute_lopti_mask.          *)
(***************************************************************************)

Reweighted(t) ==
    IF setting.reweight THEN (adv[t] * (ArAlpha * old[t] + ArTau * Whole)) \div (ArUnit * Whole)
    ELSE adv[t]

Threshold == IF setting.threshold < 0 THEN -setting.threshold ELSE setting.threshold
LowProb == {t \in Tokens : old[t] < Threshold}
HighProb_Strict == {t \in Tokens : old[t] > Threshold}    \* seeded fault: between the masks
HighProb == {t \in Tokens : old[t] >= Threshold}

Passes ==
    CASE setting.threshold = 0 -> <<Tokens>>
      [] setting.threshold > 0 -> <<LowProb, HighProb>>
      [] OTHER -> <<HighProb, LowProb>>

Masked(values, mask) == [t \in Tokens |-> IF t \in mask THEN values[t] ELSE 0]

\* The advantages of the batch, and the first call of update_actor.
Prepare ==
    /\ stage = "advantage"
    /\ stage' = "update"
    /\ kept' = [t \in Tokens |-> Reweighted(t)]
    /\ masks' = Passes
    /\ adv' = Masked(kept', Head(masks'))
    /\ UNCHANGED <<setting, lens, old, prob, epoch, mini, micro, grad, chosen, turns>>

(***************************************************************************)
(* compute_policy_loss on a micro-batch, which has these rows.             *)
(***************************************************************************)

\* exp(log_prob - old_log_prob); the bounds of the clamp are far from here.
Ratio(t) == (One * prob[t]) \div old[t]
TopRatio == One * Whole

\* The equal intervals of compute_variance_adaptive_cliprange; the last one
\* includes the probability 1.
Bin(t) == Min({(Bins * prob[t]) \div Whole, Bins - 1})
Peers(t, rows) == {u \in TokensOf(rows) : Bin(u) = Bin(t)}

\* The standard deviation of the ratios of a set, rounded down to a part of One.
Std(set) ==
    LET n == Cardinality(set)
        sum == MapThenSumSet(LAMBDA u : Ratio(u), set)
        squares == MapThenSumSet(LAMBDA u : Ratio(u) * Ratio(u), set)
    IN Max({0} \cup {s \in 1..TopRatio : (s * n) * (s * n) <= n * squares - sum * sum})

Bounded(x, low, high) == Max({low, Min({high, x})})
AdaptiveClip_Unbounded(t, rows) == BaseClip + Alpha * Std(Peers(t, rows))    \* seeded fault
AdaptiveClip(t, rows) == Bounded(BaseClip + Alpha * Std(Peers(t, rows)), ClipMin, ClipMax)

LowClip(t, rows) == IF setting.adaptive THEN AdaptiveClip(t, rows) ELSE ClipLow
HighClip(t, rows) == IF setting.adaptive THEN AdaptiveClip(t, rows) ELSE ClipHigh

\* torch.maximum takes pg_losses2, the clipped one, through whose clamp no
\* gradient comes; and with a negative advantage torch.min takes pg_losses3,
\* which does not depend on the ratio.
Losses2Greater(t, rows) ==
    -adv[t] * Bounded(Ratio(t), One - LowClip(t, rows), One + HighClip(t, rows))
        > -adv[t] * Ratio(t)
Losses3Less(t) == adv[t] < 0 /\ -adv[t] * ClipC < -adv[t] * Ratio(t)

PushOfPPO(t, rows) ==
    IF Losses2Greater(t, rows) \/ Losses3Less(t) THEN 0 ELSE adv[t] * Ratio(t)

\* CISPO: the weight has no gradient.  The mask asks the clip ratios of the
\* configuration, with ACPO as well.
PushOfCISPO(t) ==
    IF (adv[t] > 0 /\ Ratio(t) > One + ClipHigh) \/ (adv[t] < 0 /\ Ratio(t) < One - ClipLow)
    THEN 0
    ELSE adv[t] * Bounded(Ratio(t), One - IsLow, One + IsHigh)

Push(t, rows) == IF setting.cispo THEN PushOfCISPO(t) ELSE PushOfPPO(t, rows)

\* compute_entropy_selection_mask.  The entropies can be anything, so those
\* of so many tokens of a response may be the highest, or the lowest.
NumSelect_Zero(n) == (n * setting.keep) \div 100    \* seeded fault: may be none
NumSelect(n) == Max({1, (n * setting.keep) \div 100})
Selections(rows) ==
    {sel \in SUBSET TokensOf(rows) :
        \A i \in rows : Cardinality(sel \cap TokensOf({i})) = NumSelect(lens[i])}

\* agg_loss and masked_mean_allavg: what the loss of a token is divided by.
\* No token of an empty selection is in the loss.
Divisor(t, rows, sel) ==
    CASE setting.mode = "token-mean" -> Cardinality(sel)
      [] setting.mode = "seq-mean-token-sum" -> Cardinality(rows)
      [] setting.mode = "seq-mean-token-mean" ->
             Cardinality(rows) * Cardinality(sel \cap TokensOf({t[1]}))
      [] setting.mode = "allavg" -> Cardinality(rows) * setting.length

\* The gradient of policy_loss / share for the micro-batch of these rows.
Gradient(rows, sel, share) ==
    [t \in Tokens |->
        IF t \in sel THEN Push(t, rows) * (Unit \div (Divisor(t, rows, sel) * share)) ELSE 0]

(***************************************************************************)
(* update_policy.                                                          *)
(***************************************************************************)

MiniRows == ((mini - 1) * setting.mini + 1)..(mini * setting.mini)
NumMicros == setting.mini \div setting.micro
MicroRows ==
    LET first == (mini - 1) * setting.mini + (micro - 1) * setting.micro
    IN (first + 1)..(first + setting.micro)

Accumulation_None == 1    \* seeded fault: the loss is not divided
Accumulation == NumMicros

\* Forward and backward pass of a micro-batch.
Backward ==
    /\ stage = "update" /\ micro <= NumMicros
    /\ \E sel \in Selections(MicroRows) :
          LET added == Gradient(MicroRows, sel, Accumulation)
          IN /\ grad' = [t \in Tokens |-> grad[t] + added[t]]
             /\ chosen' = chosen \cup sel
    /\ micro' = micro + 1
    /\ UNCHANGED <<setting, lens, old, prob, stage, kept, adv, masks, epoch, mini, turns>>

StepDue == stage = "update" /\ micro > NumMicros
LastMini == mini * setting.mini >= setting.rows
LastEpoch == epoch >= setting.epochs

\* _optimizer_step, and zero_grad of the next mini-batch.  After the last
\* epoch update_actor returns: the driver makes the second pass of Lopti, or
\* puts the advantages back.
OptimizerStep ==
    /\ StepDue
    /\ prob' \in [Tokens -> Probs]
    /\ turns' = [t \in Tokens |->
                    IF t \in TokensOf(MiniRows) /\ adv[t] # 0 THEN turns[t] + 1 ELSE turns[t]]
    /\ grad' = [t \in Tokens |-> 0]
    /\ chosen' = {}
    /\ micro' = 1
    /\ mini' = IF LastMini THEN 1 ELSE mini + 1
    /\ epoch' = IF ~LastMini THEN epoch ELSE IF LastEpoch THEN 1 ELSE epoch + 1
    /\ IF LastMini /\ LastEpoch
       THEN /\ masks' = Tail(masks)
            /\ IF masks' = <<>> THEN stage' = "done" /\ adv' = kept
               ELSE stage' = stage /\ adv' = Masked(kept, Head(masks'))
       ELSE UNCHANGED <<masks, stage, adv>>
    /\ UNCHANGED <<setting, lens, old, kept>>

Next == Prepare \/ Backward \/ OptimizerStep

Spec == Init /\ [][Next]_vars

(***************************************************************************)
(* Properties.                                                             *)
(***************************************************************************)

\* The least and the greatest range the code may clip with.
Adapts == setting.adaptive /\ ~setting.cispo
LeastClip(fixed) == IF Adapts THEN Bounded(BaseClip, ClipMin, ClipMax) ELSE fixed
GreatestClip(fixed) == IF Adapts THEN ClipMax ELSE fixed

\* A ratio has left a range on the side where its advantage drives it.
Left(t, low, high) ==
    \/ adv[t] > 0 /\ Ratio(t) > One + high
    \/ adv[t] < 0 /\ (Ratio(t) < One - low \/ (~setting.cispo /\ Ratio(t) > ClipC))

\* The trust region: whatever maxima and minima the loss is made of, a step
\* never drives a token further whose ratio has already left the range on that
\* side, or back for being too far on the other; and every selected token whose
\* ratio has not left it is driven the way of its advantage.  ACPO only widens:
\* it drives every token that clipping with the base range would drive, and
\* none beyond variance_clip_max.
TrustRegion ==
    StepDue =>
        \A t \in TokensOf(MiniRows) :
            /\ grad[t] * adv[t] >= 0
            /\ grad[t] # 0 =>
                  t \in chosen /\ ~Left(t, GreatestClip(ClipLow), GreatestClip(ClipHigh))
            /\ t \in chosen /\ adv[t] # 0 /\ ~Left(t, LeastClip(ClipLow), LeastClip(ClipHigh))
                   => grad[t] # 0

\* Each token with an advantage gets it in one mini-batch of each epoch, also
\* when Lopti splits the tokens over two passes and the first of them moves
\* the probabilities that the split is made by.
EachTokenOnce ==
    stage = "done" =>
        \A t \in Tokens : turns[t] = IF kept[t] = 0 THEN 0 ELSE setting.epochs

\* The modes that give each response of a mini-batch a divisor of its own.
OfEachResponse == setting.mode \in {"seq-mean-token-sum", "seq-mean-token-mean", "allavg"}

\* The first step after sampling is the plain policy gradient whatever clips the
\* ratios or selects the tokens (PPO, ACPO, CISPO, the entropy), because the
\* ratios are still 1: with seq-mean-token-mean, and advantages as they were
\* computed (no AR reweighting, no Lopti), all responses push in proportion to
\* their advantage, however many tokens they have or keep.
FirstStepPlain ==
    /\ StepDue /\ prob = old /\ epoch = 1 /\ mini = 1 /\ kept = adv
    /\ setting.mode = "seq-mean-token-mean" /\ ~setting.reweight
    => \A i \in MiniRows :
           MapThenSumSet(LAMBDA t : grad[t], TokensOf({i})) * setting.mini
               = Unit * One * adv[<<i, 1>>]

\* What docs/algo/ppo.md:24 says of micro_batch_size: its "value should not
\* change algorithmic/convergence behavior".  The gradient a step is made with
\* is that of the loss of its mini-batch as a whole.
MicroSizeIrrelevant == StepDue => grad = Gradient(MiniRows, chosen, 1)

\* The same without ACPO, in the modes that average over responses.
MicroSizeIrrelevantIfFixed ==
    OfEachResponse /\ ~Adapts => MicroSizeIrrelevant
=============================================================================
