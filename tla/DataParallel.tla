---------------------------- MODULE DataParallel ----------------------------
(***************************************************************************)
(* The way of a batch through the workers: padding for validation; the     *)
(* driver's reordering by _balance_batch; dispatch of DP_COMPUTE_PROTO,    *)
(* which gives every rank its chunk; the gathering of the chunks of a      *)
(* sequence parallel group; micro-batches, fixed or by tokens; and either  *)
(* the results back to the driver (compute_log_prob, compute_values) or    *)
(* the gradients of the mini-batches (update_policy, update_critic).       *)
(*                                                                         *)
(* Every forward pass of a sharded model is a collective of all ranks, and *)
(* a rank touches nothing shared between two collectives: all ranks go     *)
(* from one collective to the next in one step.  Where the ranks would not *)
(* be at the same collective there is no such step, and the call hangs.    *)
(* The ranks of a sequence parallel group have the same data and stand for *)
(* each other; the partitions of get_seqlen_balanced_partitions are any    *)
(* that keep the promise checked in SeqlenBalance.                         *)
(***************************************************************************)
EXTENDS Integers, Sequences, FiniteSets, SequencesExt, FiniteSetsExt

CONSTANTS
    Settings,     \* the configurations and batch sizes, see SettingsAssumption
    MaxRows,      \* bound: sequences of a batch
    MaxTokens,    \* bound: tokens of a sequence
    TokenLimit,   \* max_token_len of a micro-batch
    Unit          \* a weight of 1 / mini in the gradient

\* ranks: world_size.  sp: ulysses_sequence_parallel_size.  rows: sequences of
\* the batch.  mini, micro: ppo_mini_batch_size and ppo_micro_batch_size_per_gpu
\* after normalisation.  dynamic: use_dynamic_bsz.  agg: loss_agg_mode, the
\* default or one of the means over sequences (of token sums or token means).
\* epochs: ppo_epochs.  test: sequences of the validation batch.
Positive == Nat \ {0}
ASSUME SettingsAssumption ==
    /\ Settings \subseteq [ranks : Positive, sp : Positive, rows : Positive, mini : Positive,
                           micro : Positive, dynamic : BOOLEAN, agg : {"token-mean", "seq-mean"},
                           epochs : Positive, test : Positive]
    /\ \A s \in Settings :
          /\ s.ranks % s.sp = 0 /\ s.rows % s.ranks = 0 /\ s.mini % s.micro = 0
          /\ s.rows <= MaxRows
    /\ MaxRows \in Nat

\* asserted by rearrange_micro_batches
ASSUME LimitAssumption ==
    MaxTokens \in Positive /\ TokenLimit \in Nat /\ TokenLimit >= MaxTokens

\* A mean over n sequences gives each of them Unit * mini / n, which is whole;
\* and so is what a mean over the tokens of a micro-batch gives.
ASSUME UnitAssumption ==
    /\ Unit \in Positive
    /\ \A s \in Settings :
          /\ \A n \in 1..s.mini : (Unit * s.mini) % n = 0
          /\ s.agg = "token-mean" => \A n \in 1..(s.mini * MaxTokens) : Unit % n = 0

VARIABLES
    setting,   \* no step changes it
    tokens,    \* the tokens of each sequence
    response,  \* those of its response
    op,        \* the call that the driver is in
    seqs,      \* the sequences of the driver's batch, by row
    results,   \* what the last call returned, by row: the sequences it is about
    (* per group of sequence parallel ranks *)
    local,     \* the sequences it works on, by row
    minis,     \* the mini-batches still to do, the first one is being done
    at,        \* the collective that comes next
    micros,    \* the micro-batches of this mini-batch still to do: rows of it
    index,     \* micro_bsz_idx, flattened: the rows already computed
    (* all ranks together *)
    grad,      \* the weight of each sequence in the accumulated gradient
    times      \* observation: the optimizer steps each sequence was part of

groupVars == <<local, minis, at, micros, index>>
dpVars == <<setting, tokens, response, op, seqs, results, groupVars, grad, times>>

Rows == 1..setting.rows
Ranks == 0..(setting.ranks - 1)
Groups == 0..(setting.ranks \div setting.sp - 1)
FirstRows(n) == [i \in 1..n |-> i]
SeqMean == setting.agg = "seq-mean"

DPInit ==
    /\ setting \in Settings
    \* up to the names of the sequences
    /\ tokens \in {q \in [Rows -> 1..MaxTokens] : \A i, j \in Rows : i <= j => q[i] <= q[j]}
    \* only a mean over tokens tells the response from the prompt
    /\ response \in IF SeqMean THEN {tokens}
                    ELSE {q \in [Rows -> 1..MaxTokens] : \A i \in Rows : q[i] <= tokens[i]}
    /\ op = "validate"
    /\ seqs = FirstRows(setting.rows)
    /\ results = <<>>
    /\ local = [g \in Groups |-> <<>>] /\ minis = [g \in Groups |-> <<>>]
    /\ at = [g \in Groups |-> "none"]
    /\ micros = [g \in Groups |-> <<>>] /\ index = [g \in Groups |-> <<>>]
    /\ grad = [i \in Rows |-> 0] /\ times = [i \in Rows |-> 0]

(***************************************************************************)
(* DataProto, dispatch and collect.                                        *)
(***************************************************************************)

\* DataProto.chunk into n equal parts, of which this is part i.
Chunk(q, n, i) == SubSeq(q, (i * Len(q)) \div n + 1, ((i + 1) * Len(q)) \div n)

Dispatched(q, r) == Chunk(q, setting.ranks, r)

\* all_gather_data_proto: what the group of these ranks has together.
Gathered(q, g) ==
    FlattenSeq([i \in 1..setting.sp |-> Dispatched(q, g * setting.sp + i - 1)])

\* postprocess_data chunks the group's result again, and the driver concatenates
\* what the ranks return.
Chunked(q, r) == Chunk(q, setting.sp, r % setting.sp)
Collected(outs) ==
    FlattenSeq([i \in 1..setting.ranks |-> Chunked(outs[(i - 1) \div setting.sp], i - 1)])

CeilOf(a, b) == (a + b - 1) \div b

\* pad_dataproto_to_divisor repeats the first rows, all of them more than once
\* if need be; unpad_dataproto drops the last rows.
Padded(q, n) == [i \in 1..(CeilOf(Len(q), n) * n) |-> q[((i - 1) % Len(q)) + 1]]
Unpadded(q, n) == SubSeq(q, 1, n)

(***************************************************************************)
(* The driver.                                                             *)
(***************************************************************************)

\* _validate: the engine of each group generates for the prompts of its ranks.
\* chunk asserts that the rows can be split evenly.
Validate ==
    /\ op = "validate"
    /\ \E batch \in {Padded(FirstRows(setting.test), setting.ranks)} :
          /\ Len(batch) % setting.ranks = 0
          /\ results' = Unpadded(Collected([g \in Groups |-> Gathered(batch, g)]), setting.test)
    /\ op' = "balance"
    /\ UNCHANGED <<setting, tokens, response, seqs, groupVars, grad, times>>

InOrder(set) ==
    [p \in 1..Cardinality(set) |-> CHOOSE i \in set : Cardinality({j \in set : j < i}) = p - 1]

\* The ways to split n rows into count parts that are not empty: a row is given
\* to each part.
Partitions ==
    [n \in 0..MaxRows |-> [count \in 0..MaxRows |->
        {[j \in 1..count |-> {i \in 1..n : part[i] = j}] :
            part \in {f \in [1..n -> 1..count] : \A j \in 1..count : \E i \in 1..n : f[i] = j}}]]
Flat(ps) == FlattenSeq([i \in 1..Len(ps) |-> InOrder(ps[i])])

\* _balance_batch: partitions of one size, and the batch in their order.
Balance ==
    /\ op = "balance"
    /\ \E ps \in Partitions[setting.rows][setting.ranks] :
          /\ \A i, j \in DOMAIN ps : Cardinality(ps[i]) = Cardinality(ps[j])
          /\ seqs' = Flat(ps)
    /\ op' = "dispatch"
    /\ UNCHANGED <<setting, tokens, response, results, groupVars, grad, times>>

\* The call compute_log_prob: the whole share of a group is split into
\* micro-batches.
DispatchLogProb ==
    /\ op = "dispatch"
    /\ op' = "log_prob"
    /\ local' = [g \in Groups |-> Gathered(seqs, g)]
    /\ minis' = [g \in Groups |-> <<local'[g]>>]
    /\ at' = [g \in Groups |-> "split"]
    /\ micros' = [g \in Groups |-> <<>>] /\ index' = [g \in Groups |-> <<>>]
    /\ UNCHANGED <<setting, tokens, response, seqs, results, grad, times>>

\* The call update_actor: the share is split into mini-batches, of which the
\* last may be smaller, for each of the epochs.
Split(q, size) ==
    [i \in 1..CeilOf(Len(q), size) |-> SubSeq(q, (i - 1) * size + 1, Min({i * size, Len(q)}))]
Epochs(q) == FlattenSeq([e \in 1..setting.epochs |-> q])

DispatchUpdate ==
    /\ op = "union"
    /\ op' = "update"
    /\ local' = [g \in Groups |-> Gathered(seqs, g)]
    /\ minis' = [g \in Groups |-> Epochs(Split(local'[g], setting.mini))]
    /\ at' = [g \in Groups |-> "split"]
    /\ micros' = [g \in Groups |-> <<>>] /\ index' = [g \in Groups |-> <<>>]
    /\ UNCHANGED <<setting, tokens, response, seqs, results, grad, times>>

(***************************************************************************)
(* The workers.                                                            *)
(***************************************************************************)

Everyone(where) == \A g \in Groups : at[g] = where

Tokens(q) == FoldSeq(LAMBDA i, sum : sum + tokens[i], 0, q)

\* rearrange_micro_batches: all ranks take the largest number that one needs.
Wanted(q) == Min({Len(q), CeilOf(Tokens(q), TokenLimit)})
NumMicros_Own(g) == Wanted(minis[g][1])    \* seeded fault: no all_reduce
NumMicros(g) == Max({Wanted(minis[h][1]) : h \in Groups})

\* batch.split(micro_batch_size): consecutive rows.
FixedSplit(q) ==
    LET parts == Split(FirstRows(Len(q)), setting.micro)
    IN [i \in 1..Len(parts) |-> ToSet(parts[i])]

Cuts(g) ==
    IF setting.dynamic THEN Partitions[Len(minis[g][1])][NumMicros(g)]
    ELSE {FixedSplit(minis[g][1])}

\* The number of micro-batches is agreed on, and the gradient is cleared
\* (zero_grad): the one before has been applied or skipped.
SplitMicros ==
    /\ Everyone("split")
    /\ micros' \in {ms \in [Groups -> UNION {Cuts(g) : g \in Groups}] :
                        \A g \in Groups : ms[g] \in Cuts(g)}
    /\ at' = [g \in Groups |-> "forward"]
    /\ grad' = [i \in Rows |-> 0]
    /\ UNCHANGED <<setting, tokens, response, op, seqs, results, local, minis, index, times>>

\* The sequences of the micro-batch that a group is at.
Current(g) == {minis[g][1][j] : j \in micros[g][1]}

\* agg_loss: the weight of sequence i in the mean over the sequences of the
\* micro-batch, or over the tokens of their responses.
ResponseTokens(batch) == MapThenSumSet(LAMBDA i : response[i], batch)
MeanOf(i, g) ==
    IF SeqMean THEN (Unit * setting.mini) \div Cardinality(micros[g][1])
    ELSE (Unit * setting.mini * response[i]) \div ResponseTokens(Current(g))

\* loss * (len(data) / ppo_mini_batch_size), or loss / gradient_accumulation.
Scaled_ByAccumulation(i, g) ==    \* seeded fault: the same for micro-batches by tokens
    MeanOf(i, g) \div (setting.mini \div setting.micro)
Scaled(i, g) ==
    IF setting.dynamic THEN (MeanOf(i, g) * Cardinality(micros[g][1])) \div setting.mini
    ELSE MeanOf(i, g) \div (setting.mini \div setting.micro)

\* One micro-batch: a forward pass, and in an update the backward pass, which
\* adds up the gradients of all ranks.
Forward ==
    /\ Everyone("forward")
    /\ \A g \in Groups : micros[g] # <<>>
    /\ micros' = [g \in Groups |-> Tail(micros[g])]
    /\ index' = [g \in Groups |-> index[g] \o InOrder(micros[g][1])]
    /\ grad' = IF op = "update"
               THEN [i \in Rows |->
                        grad[i] + FoldSet(LAMBDA g, sum : sum + Scaled(i, g),
                                          0, {g \in Groups : i \in Current(g)})]
               ELSE grad
    /\ UNCHANGED <<setting, tokens, response, op, seqs, results, local, minis, at, times>>

\* get_reverse_idx puts the results of the micro-batches back in order.
Reverted_Not(idx) == FirstRows(Len(idx))    \* seeded fault: log_probs stay as they are
Reverted(idx) ==
    IF setting.dynamic THEN [j \in 1..Len(idx) |-> CHOOSE i \in 1..Len(idx) : idx[i] = j]
    ELSE FirstRows(Len(idx))

\* What a group returns: its results in the order they were computed, reverted.
Output(g) ==
    LET back == Reverted(index[g]) IN [j \in 1..Len(back) |-> local[g][index[g][back[j]]]]

ReturnLogProb ==
    /\ op = "log_prob" /\ Everyone("forward")
    /\ \A g \in Groups : micros[g] = <<>>
    /\ results' = Collected([g \in Groups |-> Output(g)])
    /\ op' = "union"
    /\ at' = [g \in Groups |-> "none"]
    /\ index' = [g \in Groups |-> <<>>]
    /\ UNCHANGED <<setting, tokens, response, seqs, local, minis, micros, grad, times>>

\* _optimizer_step, a collective for the norm of the gradient: all ranks step,
\* or none where the norm is not finite.  Then the next mini-batch.
OptimizerStep(finite) ==
    /\ op = "update" /\ Everyone("forward")
    /\ \A g \in Groups : micros[g] = <<>>
    /\ grad' = IF finite THEN grad ELSE [i \in Rows |-> 0]
    /\ times' = [i \in Rows |-> times[i] + (IF grad[i] # 0 THEN 1 ELSE 0)]
    /\ minis' = [g \in Groups |-> Tail(minis[g])]
    /\ index' = [g \in Groups |-> <<>>]
    /\ at' = [g \in Groups |-> IF minis'[g] = <<>> THEN "none" ELSE "split"]
    /\ UNCHANGED <<setting, tokens, response, op, seqs, results, local, micros>>

ReturnUpdate ==
    /\ op = "update" /\ Everyone("none")
    /\ op' = "done"
    /\ grad' = [i \in Rows |-> 0]    \* the last zero_grad
    /\ UNCHANGED <<setting, tokens, response, seqs, results, groupVars, times>>

DPNext ==
    \/ Validate \/ Balance \/ DispatchLogProb \/ DispatchUpdate
    \/ SplitMicros \/ Forward \/ ReturnLogProb
    \/ \E finite \in BOOLEAN : OptimizerStep(finite)
    \/ ReturnUpdate

DPSpec == DPInit /\ [][DPNext]_dpVars

\* The driver and the workers go on while they can.
FairDPSpec == DPSpec /\ WF_dpVars(DPNext)

(***************************************************************************)
(* Properties.                                                             *)
(***************************************************************************)

\* A call of the worker group is the function of the rank applied to the whole
\* batch: row i of what comes back is about row i of what was passed, through
\* padding, dispatch, gathering, micro-batches in any order and back; so union
\* puts the log probabilities beside their own sequence.
ResultsInPlace ==
    /\ op = "balance" => results = FirstRows(setting.test)
    /\ op = "union" => results = seqs

\* Every optimizer step is taken on one mini-batch of each group, and in each
\* epoch every sequence is part of exactly one.  Under a loss_agg_mode that is a
\* mean over sequences all of them weigh the same in the step, however they were
\* balanced over the ranks and grouped into micro-batches of different sizes.
\* Under token-mean, the default, a sequence weighs as its length and its
\* micro-batch have it; but a mini-batch as a whole weighs as its sequences, on
\* every rank, however it was cut.
EvenlyWeighted ==
    /\ op = "update" /\ Everyone("forward") /\ (\A g \in Groups : micros[g] = <<>>) =>
          IF SeqMean
          THEN \A i \in Rows :
                  grad[i] = IF \E g \in Groups : i \in ToSet(minis[g][1]) THEN Unit ELSE 0
          ELSE /\ \A i \in Rows :
                      grad[i] > 0 <=> \E g \in Groups : i \in ToSet(minis[g][1])
               /\ \A g \in Groups :
                      MapThenSumSet(LAMBDA i : grad[i], ToSet(minis[g][1]))
                          = Unit * Len(minis[g][1])
    /\ op = "done" => \A i \in Rows : times[i] = setting.epochs

\* No rank waits in a collective that another has no counterpart for, although
\* the micro-batches of each are cut by its own sequences; and no assertion of
\* chunk fails: every step of training ends.
StepEnds == <>(op = "done")
=============================================================================
