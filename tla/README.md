# Verification of ACPO (verl)

ACPO is a reinforcement-learning trainer for language models built on verl: a
driver process runs the PPO loop and calls groups of Ray workers for generation,
scoring and updates. This directory holds TLA+ specifications of the parts of it
that are protocols, and of its update of the policy, the TLC configurations that check them
on small instances, and TLAPS proofs of their most important properties for
every value of the constants. Definitions keep the names of the code;
`PROJECT.json` maps each of them to the lines it stands for.

## 1. Inventory

| Part | Code | State | Operations | What is hard | What makes it correct |
|---|---|---|---|---|---|
| Training loop and checkpoints | `verl/trainer/ppo/ray_trainer.py` (`fit`, `_save_checkpoint`, `_load_checkpoint`), `verl/utils/checkpoint/checkpoint_manager.py`, `fsdp_checkpoint_manager.py` | step and epoch counters, dataloader position, tracked rollouts; per rank the saved paths; on disk the shards, `data.pt`, the tracker, the pickles | one step; save on every rank; load; crash; resubmission | crashes between any two writes, ranks at barriers, rotation, what is lost with the process | there is a checkpoint to resume from; no batch skipped, as far as the order of the data is restored; bounded loss of work |
| DAPO trainer | `recipe/dapo/dapo_ray_trainer.py` | the batch collected so far, prompts kept, tries | generate, filter by group, collect on, align, update, save | the batch outlives generation batches and epochs; a limit of tries; a crash in the middle | whole groups, exactly the configured number; no prompt lost or used twice |
| FSDP workers and sharding managers, vLLM rollout | `verl/workers/fsdp_workers.py`, `sharding_manager/fsdp_vllm.py`, `fsdp_sglang.py`, `verl/utils/fsdp_utils.py`, `rollout/vllm_rollout/vllm_rollout_spmd.py` | where parameters and optimizers are, what the engine holds, flags of sleep and of LoRA synchronisation, two random streams | init, nine training calls, wake up, synchronise, generate, sleep, save, load | flags that must agree with an engine elsewhere; offloading around every call; ranks that return early beside ranks in a collective | generation with the actor's weights; everything in its place when used; memory never needed twice |
| Worker groups and dispatch, actor and critic updates | `verl/single_controller`, `verl/protocol.py`, `verl/workers/actor/dp_actor.py`, `critic/dp_critic.py` | the batch of each rank, micro-batches, the accumulated gradient | pad, balance, dispatch, gather, cut, forward, backward, step, collect | uneven batches, order, ranks that must reach the same collectives | results beside their own rows; sequences, or mini-batches, weigh what `loss_agg_mode` says |
| Sequence balancing | `verl/utils/seqlen_balancing.py` and its callers | none between calls | partition, micro-batches, inverse order | ties, rounding, empty partitions | assertions never fail, balance |
| Chat scheduler and servers | `verl/workers/rollout/chat_scheduler.py`, `async_server.py` | weights, LRU cache of addresses, depth and done of each conversation | start, wake up, sleep, generate, submit, reply, tools | coroutines in any order, failing requests and tools, eviction | sticky routing, the call returns exactly when all is done |
| SGLang multi-turn rollout | `verl/workers/rollout/sglang_rollout/sglang_rollout.py`, `schemas.py` | tokens and masks of each request, turns, shared sampling parameters | pending, running, tool calling, finalize | a shared dictionary across awaits, lengths at their limits | aligned loss mask, room in the engine |
| Tool pools and rate limiter | `verl/tools/search_tool.py`, `sandbox_fusion_tools.py` | semaphore and count of a named actor | acquire, release, execute | blocking inside an actor, two tools on one actor, failures | limit kept, nobody waits for ever |
| Sandbox fusion reward and reward managers | `verl/utils/reward_score/sandbox_fusion/`, `verl/workers/reward_manager/prime.py` | a semaphore shared by processes, verdicts, a pool of processes | submit, call, retry, read, score, time out, kill | threads of killed processes, retries that hold a slot, verdicts in any order | limit of concurrent requests, a score that does not depend on the order |
| Advantages and losses, policy update | `verl/trainer/ppo/core_algos.py`, `dp_actor.py` (`update_policy`), the update of the actor in `fit` | advantages, masks of Lopti, the accumulated gradient | reweight, mask, forward and backward of a micro-batch, step | maxima and minima of losses of either sign, ranges and selections that depend on the batch at hand, a second pass after the policy has moved | the trust region is kept, every token has its turn, micro-batches are only a matter of memory |
| Megatron workers and managers, reward service, models, kernels, data sets, scripts | see `PROJECT.json` | | | | not modelled |

How they meet: the driver's `fit` (of PPO, or of DAPO, which collects over
generation batches) makes one call at a time on a worker group. Generation wakes
up the engine, which is given the actor's weights, and goes through the
scheduler or through SGLang's own multi-turn loop; the rollout calls the tools,
which share the rate limiter; the reward manager scores the responses in a pool
of processes; the driver balances the batch over the ranks, whose actors cut it
into micro-batches and clip what each token may change; after the update it calls `save_checkpoint` on every rank
and then writes `data.pt` and the tracker itself. The parts share no state
besides these calls, so every part has a specification of its own.
`HybridEngine` composes the calls of one step in the order `fit` makes them, and
`DataParallel` one batch's way through all of them; `DataParallel` takes from
`SeqlenBalance` that partitions are complete, disjoint and not empty (proved there, section 5), and
`HybridEngine` and `DynamicSampling` take from `Checkpoint` that there is one
checkpoint to resume from. `PolicyUpdate` looks into the update of one rank, which
is a single call in `HybridEngine` and a weighted sum in `DataParallel`.

## 2. Modules

| Module | What it is |
|---|---|
| `Checkpoint` | driver, ranks and file system of a job that is submitted again and again |
| `ResumePoint` | abstract specification: what checkpointing promises to whoever submits the job |
| `DynamicSampling` | the loop of the DAPO trainer with its groups, epochs, checkpoints and crashes |
| `HybridEngine` | ranks with actor, critic and inference engine on one GPU, call by call |
| `DataParallel` | a batch through padding, dispatch, micro-batches, gradients and back |
| `SeqlenBalance` | the differencing method as a state machine over all small inputs |
| `ChatScheduler` | server manager, event loop, routing and conversations |
| `AsyncRollout` | requests of SGLang's multi-turn loop, tokens and sampling parameters |
| `RateLimit` | the pools of the two tools and the token bucket |
| `SandboxReward` | the process pool, the threads and the semaphore of the sandbox reward |
| `PolicyUpdate` | one update of the policy: AR-Lopti, PPO, ACPO, CISPO, selection by entropy, token by token |
| `MC_*` | constants for TLC, one for each module that needs model values (`SeqlenBalance` does not) |
| `Checkpoint_proofs`, `DynamicSampling_proofs`, `HybridEngine_proofs`, `ChatScheduler_proofs`, `AsyncRollout_proofs`, `Limiters_proofs` (of `RateLimit` and `SandboxReward`), `PolicyUpdate_proofs`, `Batches_proofs` (of `SeqlenBalance` and `DataParallel`) | theorems |

Operators with a suffix after an underscore (`KeepStart_TooLate`) are seeded
faults: plausible mistakes in the definition that follows. Putting one in the
place of the definition must break a property; `PROJECT.json` lists which.

### Checkpoint

`phase` says where the driver is: in the training part of a step, waiting for a
role to be saved, or writing `data.pt` or the tracker. `TrainStep` is one iteration of
`fit` up to the save, tracking of rollouts (`TrackRollouts`) included; `EpochEnd` the exhausted
dataloader. Inside `save_checkpoint` every rank has a program counter `wpc`: rank
0 removes rotated directories shard by shard (`RemoveShard`), every rank makes
the directory (`MakeDir`), passes the first barrier, writes its files
(`BeginShard`, `EndShard`: between them the shard is torn), and `RoleSaved` is
the second barrier, the append to `previous_saved_paths`, and the return.
`BeginData`, `EndData`, `TruncateTracker` and `WriteTracker` are the driver's
writes; `WriteTracker` also ends the step. `Crash` may happen before and after
any of these, and loses everything but the files. `StartFromScratch`, `Resume`
and `LoadFails` are the outcomes of `_load_checkpoint`.

A shard stands for the model, optimizer and extra-state files of one rank; its
value is the number of the run that wrote it, which is enough to see a
checkpoint of mixed origin. A write is two steps, so that a crash can tear it;
writes of one file are not reordered by the file system. Errors that
`rmtree(ignore_errors=True)` hides are not modelled. Ranks other than 0 keep
their own, never used list of paths, which is left out. `SaveFreq = 0` stands for
every setting that never saves.

Which batch lies at a position of a pass is known up to the permutation of
the pass (`Batch`). With `data.shuffle`, the default, `RandomSampler` draws a
permutation for each pass from a generator that every process seeds alike
(`main_ppo.py:235`), so the permutation is that of the number of the pass in its process, and
a resumed process starts with the first one again; `data.pt` restores the position
in it. That is the behaviour of torch's `RandomSampler` and torchdata's
`StatefulDataLoader`, which are outside the repository, as far as the code relies on it: within the pass
that was interrupted first the order is brought back, of a later pass it is
not. `start`, an observation, is the step a run was resumed from; `SameOrder` says
whether the run draws in the order of a job that is never interrupted. `DataAligned`
claims the position of every run, and the very batch under `SameOrder` only.

`OneResumePoint` is the refinement: with `status`, `step` and `point` computed from
`phase`, `gstep` and `tracker`, every step of the protocol is a step of
`ResumePoint` or leaves its variables alone. It fixes that a run continues with
the step after the point, that a due step is left only by publishing it, and that
the only unsafe window is the one in which the tracker is truncated. In that
window a crash does cost the job its resume point; the abstract specification says
so instead of hiding it. The run checks the refinement in mode `auto` only: the
other modes do not read the resume point.

### ChatScheduler

The event loop is one thread, so an action is what one coroutine does between
two awaits. `stage` says where the task of a conversation is; `depth` and `done`
are the entries of its `info`. A request id is drawn afresh for every
request, so the cache entry is named by the conversation. The queue of the event
loop is first-in first-out and all first requests are created before
`generate_sequences` awaits, so they are all sent before a reply is read
(`AllSent`). Requests may fail (`RequestFails`), tools may fail (`ToolFails`),
and the assertion on the request id fails when the entry is gone (`SendFails`), in
which case the task is lost. Only completion callbacks that submit at most one
request per reply, as the repository's own does, are modelled. The tools of a
reply are one step: that a tool can outlive its conversation when another tool of
the same reply raises out of `gather` is not visible (it changes no message).

### AsyncRollout

A token is only what put it there: prompt, generation prompt (one token), model
or tool. `EnterEngine` is the iteration of the loop from the test of the
length to the await of the engine; `EngineReturns` from there to the end of the
iteration; `ToolsReturn` the tool branch; `Finalize` the end with stripping and
truncation. A reply of n tokens may grow by the end-of-turn token when it is put
through the chat template. `RequestRaises` covers whatever raises in a coroutine: the engine, and a
tool that is created, called, asked for its reward or released. The engine reads the dictionary before its
first await; that is an assumption about the library. Of the sampling parameters the model
keeps how to sample and the number of new tokens.

### DynamicSampling

A step of `fit` is one or more generation batches (`TakeAll` with the filter
off, `Collect` with it on) and an `Update`. `Collect` filters the groups, adds
what is kept to `batch`, and goes on, draws again, or raises when
`max_num_gen_batches` are used up. Only equality of metrics decides about a
group, so two metrics are enough, and which groups are mixed is chosen freely.
A prompt is an item of the data together with the number of passes over the
data, so that drawing it again in the next epoch is another prompt. The item at a
place of a pass is `Order(e, i)`, any permutation for each pass e of a process, where the
data is shuffled; a resumed process counts its passes from 0 again while `pass`, which
is the job's, goes on, and then the items come in another order than in a job that is
not interrupted. `PromptsAccounted` speaks of the processes for which the two agree (`SameOrder`).
`used`, `surplus` and `dropped` are observation variables that no guard reads; a
checkpoint keeps a copy of them, because a resumed run repeats what came after
it. The way of a checkpoint to disk is `Checkpoint`'s subject and is one step
here.

### HybridEngine

`op` is the call the driver is in, `pc[r]` how far rank r is in it; `Follows` is the
order in which `fit` makes the calls. `device` and `opt` say where parameters and
optimizer states are, `memory`, `base` and `adapter` what the engine of a rank holds.
A training call is `Onload`, the computation, `Offload`; a generation is `WakeUp`,
`Sync`, `Free`, `Enter`, `Generate`, `Exit`, which in asynchronous mode are the calls
`wake_up`, the completions and `sleep`, and otherwise the sharding manager's
`__enter__` and `__exit__` around one call. Collectives are guards
(`Arrived`). A weight is the number of updates in it; -1 stands for the random
weights of a dummy load format. A random stream is its origin and the number of
draws made from it.

With SGLang only the first rank of a tensor-parallel group has a handle of the
engine, and the engine, although `is_sleep` is set when it is built, keeps its memory
until `resume_memory_occupation` is first called, which releases it (`KeepsMemory`). An
asynchronous SGLang rollout reaches only the ranks of `Called`: the server asks its
configuration for `rollout` (`async_sglang_server.py:33`), but gets the whole one
(`async_server.py:139`), in which that is a key of `actor_rollout_ref`, and so takes the tensor parallel
size for 1. The ranks it does not call are `uncalled`, and collectives wait for them in vain. All ranks are on one
node. `tags` says whether vLLM can wake up its weights alone; where it cannot, the KV
cache is there before the actor is offloaded. Saving LoRA adapters moves the actor to
the GPU, from where `offload_policy` does not take it back. `LayeredRaises` is the `ValueError` for LoRA with `layered_summon` but
without a preloaded base model.

### DataParallel

The driver's batch is the sequence `seqs`; `Validate` pads and unpads, `Balance` is
`_balance_batch`, `DispatchLogProb` and `DispatchUpdate` are the two kinds of call,
`SplitMicros`, `Forward` and `OptimizerStep` what the ranks do together. Between two
collectives a rank touches nothing shared, so all ranks take such a step at once; where
they would not be at the same collective no step is possible, and
`StepEnds` fails. A gradient is the weight of each sequence in it; the constant `Unit`
stands for one sequence's part of a mini-batch, and is chosen (60 in the run) such that
every mean is a whole number of it. `MeanOf` is `agg_loss`, of the actor's loss or the
critic's: under `token-mean`, the default, the share of a sequence's response tokens
in those of its micro-batch, under `seq-mean-token-sum` and `seq-mean-token-mean` one part of as
many as the micro-batch has sequences. `EvenlyWeighted` claims of
the latter that all sequences of a step weigh the same; of `token-mean`, where they do
not, that every mini-batch of every rank weighs as many sequences as it has, however it was cut,
and that each of its sequences has some weight and no other has. An infinite norm (`OptimizerStep(FALSE)`) skips the
step but counts as one. `DPInit`, `DPNext`, `FirstRows`, `InOrder` and `CeilOf` have these names
because `Batches_proofs` extends `SeqlenBalance` as well.

### RateLimit

`call` is `execute` on a thread of a pool, `acquire` and `release` its two tasks
on the bucket's actor; the semaphore and the count are changed in separate
steps, because other threads run in between. Each `+=` is one step: no
thread switch happens inside it on the interpreters the project supports.

### SandboxReward

`row` is the scoring of a response in its process, `case` the thread of each of its
test cases. A slot is taken by `Acquire` and given back by `Return`, over any number
of gateway timeouts in between: the thread sleeps with the slot held. `Read` takes
finished threads in any order (`as_completed`). `TimeOut` gives up on a response, but its
process goes on (`Busy`) until `Finish`, when all processes are killed;
the semaphore is not given back what they held. That is harmless to
`WithinLimit`, and the limit holds on in the next batch; but `BatchScored` has to ask for a slot that is left. The
batches share the semaphore, as they do where the driver calls the reward function itself: with
`launch_reward_fn_async` every batch makes another one (`reward.py:133`), which is not modelled.

### PolicyUpdate

This is the repository's own contribution. The tokens that the response mask keeps
are the state: what probability the sampling policy gave each (`old`), what the
policy gives it now (`prob`), its advantage, and the gradient accumulated for it
(`grad`: how much a step raises its log probability). `Prepare` is what `fit` does to the
advantages before the first `update_actor`; `Backward` one micro-batch through
`compute_policy_loss`; `OptimizerStep` the step, the next mini-batch, epoch or pass.
The model works with the gradient and not with the loss, because that is what
maxima, clamps and `detach` decide about (`PushOfPPO`, `PushOfCISPO`). Probabilities
are fractions with a small denominator, such that ratios are whole numbers of parts
of `One`; the standard deviation is rounded down to such a part. The network between
the gradient and the new probabilities is not modelled: a step may move every
probability anywhere, also nowhere (an infinite norm), and the entropies may select any
tokens. A gradient of exactly a tie (a ratio equal to `clip_ratio_c`), where PyTorch
takes the mean of both sides, does not occur with these numbers, and a response has at
least one token. `chosen` and `turns` are observations that no guard reads.

### SeqlenBalance

The initial states are all inputs within the bounds, for `_balance_batch` (equal
sizes) and for micro-batches; `MergeTwo` is one turn of the merge loop and `Return`
the sorting of the result. A sort gives every place its rank (`Places`), which is what a
stable sort does. The heap is the set of states: two states that
compare equal do not exist, because their largest sets differ in their items.

## 3. Runs

| Run | Shows | Bounds |
|---|---|---|
| `checkpoint_auto` | `TrackedRestorable`: what the tracker names can be loaded, wherever the job crashes; `RunKeepsAtMost`: a run leaves no more directories than the limit; `WorkLossBounded`: a crash costs at most a save interval; `DataAligned`: every step trains at its own place in the data, and on its own batch as long as the order of the data is restored; `RunEnds`; `OneResumePoint`: the refinement | 2 ranks, actor and critic with limits 2 and 3, 7 steps saved every second one, 2 epochs of 3 shuffled batches, 3 submissions |
| `scheduler` | `StickyRouting`; `KeepsItsAddress`: no more conversations lose their server than the cache is too small for; `QuietWhenReturned` and `GenerateEnds`: the call returns when, and only when, every task is over, but for a conversation whose address was evicted | 3 conversations, 2 servers, 2 calls, cache of 2, 1 failure, 2 tool calls per reply, 4 turns |
| `rollout` | `EngineHasRoom`, `LossOnModelTokens`, `FollowsTemplate`, `FinalizeAccepts`, `BatchEnds` | 2 requests, 2 turns, prompts of 2, 4 and 9 tokens, prompt length 4, response length 5, model length 9, training and greedy, 1 batch |
| `ratelimit` | `WithinBucket`: the bucket's limit is kept whatever fails; `CallsReturn` | 2 tools, 5 calls, limits 2 and 1, 2 workers each, 2 release threads |
| `seqlen` | `PartitionsUsable`: the assertions hold and every item is in one partition; `Balanced`: the imbalance is bounded by the input's | all batches of at most 6 sequences of at most 4 tokens, 2 and 3 ranks; as micro-batches with limits 4 and 6, minima 0 and 3, divisors 1 and 2 |
| `dapo` | `UpdateReady`: an update sees whole groups, as many as configured; `PromptsAccounted`: every drawn prompt is in exactly one place, as long as the order of the data is restored; `FitEnds` | generation batches of 2, training batches of 3, 2 batches an epoch, 2 epochs, 3 steps, a checkpoint each step, 4 settings of the filter, 3 of them shuffled (each pass rotated by one item more), 3 submissions |
| `hybrid` | `EngineCurrent`: generation uses the actor's weights; `OnDevice`, `OneTenant`: parameters and optimizer are where they are used and nowhere they must not be; `StreamsApart`: generation does not disturb the training randomness; `CallsEnd`: a call that reaches all ranks ends | 4 ranks, tensor parallel size 2 (1 in one setting), 11 settings, 2 updates, 2 submissions |
| `hybrid_async` | violated: the asynchronous vLLM engine generates with the initial weights after a resumption | the same with the asynchronous engine |
| `dataparallel` | `ResultsInPlace`: what comes back is beside its own row; `EvenlyWeighted`: every sequence, or under `token-mean` every mini-batch, weighs the same and is used once an epoch; `StepEnds` | 6 rows on 2 ranks and 4 rows on 2 groups of 2, with means over sequences; 4 rows on 2 ranks with a mean over tokens, responses of 1 to 3 tokens; fixed micro-batches and by tokens, 1 or 2 epochs, sequences of at most 3 tokens, limit 3 |
| `sandbox` | `WithinLimit`, `ScoreOfCases`, `BatchScored` | 2 responses with 3 and 1 cases, 2 of them scored, 2 processes, 1 slot, 2 batches, 1 timeout |
| `policy` | `TrustRegion`: no step drives a token further from the sampling policy once its ratio has left the range, nor any token the wrong way, and every other one is driven; `EachTokenOnce`; `FirstStepPlain`: the first step is the plain policy gradient in every method (with `seq-mean-token-mean`, and advantages that AR reweighting or Lopti has not changed); `MicroSizeIrrelevantIfFixed` | 2 responses of at most 2 tokens, at most 3 together, probabilities 1/4, 1/2 and 1, 12 configurations of method, mini- and micro-batches, epochs and aggregation |
| `policy_micro` | violated: with ACPO the gradient of a mini-batch depends on how it is cut into micro-batches | 4 responses of 1 token, mini-batch of 2, micro-batch of 1 |

Every property has a seeded fault that breaks it under the same bounds. The type
invariants of `ChatScheduler`, `AsyncRollout`, `RateLimit`, `HybridEngine` and
`SandboxReward` are in no run, because section 5 proves them; that of `PolicyUpdate`
stands in its proofs.

Why these bounds are enough. Rotation needs three saves in a run with a limit of
two and another role with another limit, and a third run to see what a second
left: 7 steps, three submissions. The save interval does not divide 7, so the
last step is saved out of turn, and checkpoints fall within, between and after the two epochs. Two
epochs and three runs are the least in which a run resumed in the second
pass follows one that was resumed in the first. With three
conversations and a cache of two one address is evicted, and in the second call
the entries of finished conversations compete with live ones. A prompt of the
length of the model (9), one that leaves less than a response, and one that leaves
more are the three cases of the budget; two requests suffice for every overlap of
two engine calls. Five calls over a limit of two have waiting acquires while
releases arrive. Training batches of 3 from generation batches of 2 need two to
four draws, leave a surplus, and cross the end of an epoch; a limit of two
tries is met and exceeded. Two groups of two ranks are the least in which a
collective of all ranks and one of a group differ; two updates, because the
first synchronisation of LoRA differs from the second and the critic's optimizer has
no state in the first; a second submission, for what a resumed run
starts with. Three rows a rank can be cut into one, two or three micro-batches, evenly
and unevenly. Two responses of which one has a single case, with one slot, make the
threads of two processes wait for each other's retries, and the second
batch begins with what the first one's killing has left. `PartitionsUsable` is about inputs with at
least as many sequences as partitions, which is the assertion at `seqlen_balancing.py:279` and for micro-batches what
`MicroBatches` computes.
Three tokens in two responses are the least in which a response has a token whose
interval of probabilities it shares with the other response and one whose it does not; of
the ratios 1/4 to 4 the middle one lies inside every range, 1/4, 1/2 and 2 between the
base range and the widest ACPO may use, and 4 beyond that and beyond `clip_ratio_c`.
Deadlock checking is off where a system stops by itself: the job is finished,
the bounded number of calls or batches has been made, the step or the
partitioning is done.

Fairness. `Checkpoint`, `DynamicSampling`: the running job takes its next step
(processes run, barriers open when everybody is there); neither crashes nor
resubmissions are fair. `HybridEngine`: every rank that can go on does, each by
weak fairness of its own; the driver need not make another call. `DataParallel`:
the one driver and its workers go on. `ChatScheduler` and `AsyncRollout`: every
coroutine that can go on is resumed; a request or a tool that does not fail
answers. The code has no timeout there (`ClientTimeout(total=None)`), so a
server that never answers does hang the batch: that is an assumption and not a
result. `RateLimit`: threads run, functions return (they have timeouts), the actor
serves tasks as soon as a thread of their group is free. `SandboxReward`: threads
and processes run, requests end (they have a timeout); the semaphore is strongly
fair: many threads come and go, and one that waits gets a slot if slots are free again
and again. Nobody has to run out of time: `BatchScored` holds without, as long as there is a slot.

## 4. Findings

Each is a run that ends with a counterexample to what the repository says of
itself.

* `hybrid_async`: `vLLMAsyncRollout.is_sleep` starts as `False`, so the first
  `wake_up` returns without copying the actor's weights into the engine. After a
  resumption the first validation and generation sample from the initial model.
  The `hybrid` run leaves the asynchronous vLLM engine to this run.
* `policy_micro`: ACPO's ranges are statistics of a micro-batch, so a parameter of which
  the documentation says that it does not change the algorithm does change it. The
  scripts of the main experiments cut their mini-batches into micro-batches of 8.

Seen while reading, without a run:

* Checkpoints. With `max_ckpt_to_keep = 1`, which the deprecated
  `remove_previous_ckpt_in_save` selects, rotation removes the only checkpoint, which the
  tracker names, before its successor is written (`fsdp_checkpoint_manager.py:171`), although
  `ray_trainer.py:815` calls the tracker one for atomic usage; a crash in between leaves
  nothing to resume from. This is why the run keeps at least two. `previous_saved_paths` is not kept over restarts
  (`checkpoint_manager.py:61`), so over several runs more than
  `max_ckpt_to_keep` directories stay; `RunKeepsAtMost` speaks of one run. An empty
  tracker makes `int("")` raise even in mode `resume_path`, which does not need it.
  Every resubmission of a finished job trains one more step. With
  `launch_reward_fn_async` and `track_dataset` the step reads an unbound
  `reward_tensor` (`ray_trainer.py:1058`), and asynchronous rewards with REMAX
  raise as well.
* Order of the data. `main_ppo.py:237` says of the sampler: "Use a sampler to facilitate checkpoint
  resumption." But with `data.shuffle` the generator of `RandomSampler` is
  seeded afresh in every process, and the loop over epochs starts at 0, so a run that is resumed in the
  second pass or later goes on at the right position of the first pass's permutation:
  some prompts of that pass are drawn twice, as many are left out, and the passes after it have other permutations than
  those of the uninterrupted job. Without the condition `SameOrder`, `DataAligned` and
  `PromptsAccounted` are violated in their runs.
* Scheduler. With `max_cache_size` below the number of conversations of a batch an
  evicted one is lost, because the assertion on its id stands outside the `try`, and
  `generate_sequences` waits for ever; `GenerateEnds` names that case. The default
  of 10000 is less than 1024 prompts with 16 samples. When one tool
  of a reply raises, `gather` leaves the other tools running
  (`chat_scheduler.py:125`).
* SGLang. Overlapping coroutines of one batch that does not sample like the
  configuration save and restore each other's sampling parameters, so a later
  batch can sample with them; after an exception nothing is restored. A request whose
  tool has no `tools_kwargs` fails its whole batch (`sglang_rollout.py:743`).
* Tools. Both tools ask for the actor named `rate-limiter`, and the limit is that of
  whoever asks first. The limiter of `SandboxFusionTool` cannot be switched off, as
  `execute` uses it without asking.
* Balancing. Micro-batches are balanced, not bounded: one can exceed
  `max_token_len`, against the docstring of `rearrange_micro_batches`, which
  also says that empty micro-batches are padded while the code asserts that there are none.
* Updates. With fixed micro-batches of which the last one of a mini-batch is smaller, its sequences
  weigh more: each micro-batch is a mean divided by `gradient_accumulation`
  (`dp_actor.py:372`, `:471`), and nothing asserts that a rank's share is a
  multiple of the micro-batch. With multi-modal inputs and `use_dynamic_bsz`, `len(data)` is the number
  of keys of a dictionary (`dp_actor.py:466`, and the same in the critic). Where a
  share is no multiple of the mini-batch, the last mini-batch takes a step that is smaller than its
  mean, as the sum is divided by the configured size. `docs/algo/dapo.md:116` speaks of a mean over the tokens
  of a mini-batch, while the code takes it over each micro-batch of each rank. So under
  `token-mean`, the default, a token weighs more the fewer tokens share its micro-batch, and a sequence
  weighs as its length and its micro-batch have it.
* Dispatch. The padding of keyword arguments (`decorator.py:117`) does not
  remove what it pads, positional padding changes its argument in place, and
  `collect_megatron_pp_as_dp` collects every rank with `tp == 0`, against its comment.
* DAPO. `docs/algo/dapo.md:82` says that running out of generation batches is an
  error; running out of data ends the job silently, without a last step or a last checkpoint.
* Engines. After a resumption the generation stream starts again from its seed. LoRA without
  `layered_summon` on a dummy `load_format` sends the base model once, before the first checkpoint is
  loaded into it or after, and adapters only from then on; `docs/advance/ppo_lora.rst` asks for
  `load_format=safetensors`, and the runs and theorems about the engine's weights take that (or
  `layered_summon`, which refuses the rest) for granted. vLLM 0.6.3 and earlier never offload the
  actor after `__enter__`; the HF rollout does not load an offloaded one.
* LoRA with FSDP2's `offload_policy`: saving the adapters calls `.cuda()` on the actor
  (`fsdp_workers.py:790`), and as `offload_policy` switches off the worker's own offloading nothing moves it back. Hence
  the hypothesis `NoLoraUnderPolicy` of `AlwaysOnDevice`; no setting of the run combines the two.
* SGLang's engine occupies its memory from `init_model` to its first use, because
  `sglang_rollout.py:386` only says that it sleeps. In a resumed job the checkpoint is loaded in between,
  with the actor and the critic on the GPU; `OneTenant` excepts these two calls.
* Asynchronous SGLang with tensor parallelism hangs in the first `wake_up`, as section 2 says under `HybridEngine`:
  of 4 ranks in groups of 2, workers 0 and 1 are called and wait in collectives for 2 and 3. `CallsEnd` leaves
  out the calls that do not reach all ranks; one setting of the run is of this kind, and its other properties hold
  up to there.
* Losses. With `use_cispo` the adaptive ranges are computed and not used: the mask asks
  the configured ones (`core_algos.py:800`), although the docstring says that ranges are
  adjusted when ACPO is enabled. `token-mean` depends on the micro-batches as ACPO does,
  and `seq-mean-token-sum-norm` sums over the micro-batch and is then divided by their number, or
  with micro-batches by tokens multiplied by a share of sequences that is not its divisor. Neither `PolicyUpdate` nor
  `DataParallel` has this mode.
* Rewards. The prime manager terminates the processes of its pool (`prime.py:56`) while
  threads of theirs may hold slots of the sandbox semaphore, which lives as long as the trainer:
  the slots are lost for good, and after `max_concurrent` such losses every batch runs
  into its time limit (`BatchScored` without its condition is violated in the run). The 300 s of a response in the prime manager include its time in the queue.

## 5. Proofs

All theorems hold for every value of the constants that the named assumptions of the
modules allow.

`Checkpoint_proofs`, for every number of ranks, steps, epochs and submissions, with
and without a critic:

* `TypeCorrect`: `Spec => []TypeOK`. The step counter's bound is not inductive:
  a run starts one step after whatever the tracker or a directory names.
  `TypeInv` adds that everything on disk is at most the last step plus one per run.
* `TrackedStaysRestorable`: `Spec => []TrackedRestorable`, for jobs in mode `auto`
  whose limits are not 1 (`RotationSafe`; section 4 shows that the
  assumption is needed). The inductive invariant `RestoreInv` says that the
  tracker is behind the step of the running job; that the paths a manager
  remembers are increasing and that at most the last of them can be the tracked
  one, so that with a limit of at least 2 the rotation never removes it
  (`DoomedNotTracked`); that a directory being written belongs to a later
  step than the tracked one; and that when the driver reaches the tracker all
  shards and `data.pt` of the step are of this run.
* `RunAlwaysKeepsAtMost`: `Spec => []RunKeepsAtMost`, in every resume mode and for
  every limit. `KeepInv` says that a directory this run has written is one its
  manager remembers or the current one, and that rank 0 has made room for the current
  one before any rank passes the first barrier; after the run has ended nothing of this
  changes, and a new run has no directory yet.

and under `RotationSafe`:

* `ImplementsResumePoint`: `Spec => OneResumePoint`, the refinement: Init implies the
  abstract Init and every step is an abstract step or leaves the abstract variables
  alone. `PublishInv` adds to `RestoreInv` what the abstract guards need: that a
  step is saved only when it is due, that the point is behind a running step, and that
  an unreadable point means a truncated tracker.
* `AlwaysDataAligned`: `AlignInv` counts the batches consumed before each step
  (`Consumed`) and ties the position in `data.pt` to the step it was
  written at, modulo the length of an epoch (`NextRemainder` and its
  neighbours); `OrderInv` ties the pass of the process to the step for a run that was resumed within
  or at the end of the first pass. About the order of runs resumed later the theorem says nothing.
* `AlwaysWorkLossBounded`: `LossInv` says that no due step lies strictly between
  the tracked step and the running one; a window of `SaveFreq` steps
  holds a due one (`MultipleInWindow`).

`HybridEngine_proofs`, for every number of ranks and tensor-parallel size, every
setting, and any number of updates and submissions:

* `AlwaysOnDevice` under `NoLoraUnderPolicy` (no setting has both LoRA and `offload_policy`,
  section 4). Where parameters must be is the GPU, and under `offload_policy` the CPU. `ModuleInv` says where each module
  and each optimizer state is, as a function of the call and of how far a rank is in it.
* `AlwaysEngineCurrent` and `AlwaysOneTenant` under `SoundSettings`: no asynchronous
  vLLM engine (`hybrid_async` shows why), and with LoRA a preloaded base model
  or `layered_summon` (which refuses the rest). `EngineInv` ties `is_sleep` to
  what the engine holds and to the place of the rank in the call; `WeightInv` says which
  weights the engine has from `Sync` on. `HangInv` says how far a call gets that does not reach all ranks:
  rank 0 stops before `Sync`, the first collective, so that the driver stays in the call.

* `AlwaysStreamsApart`, under `SoundSettings`. A rank has two random states, one in the generator and
  one put away; `StreamInv` follows them through `Enter` and `Exit` (`TrainState`,
  `GenState`). That of training has seen two draws for every update in the rank's
  weights, and one more between the critic's update and the actor's, which after a
  resumption holds because the checkpoint has the draws of its own version; that of
  generation is common to the group but for the draw of the call the ranks are in.
* `TypeCorrect`, from the same invariant: no stream is drawn from more than the number of
  updates allows.

`ChatScheduler_proofs`, for every number of prompts, servers, turns and calls and
every size of the cache:

* `TypeCorrect`: with `TaskInv` (what a task's stage says of its depth and the
  length of its conversation) and `CallInv`.
* `AlwaysQuietWhenReturned`: the same invariant gives that only a task that has
  ended is done.
* `AlwaysStickyRouting`: `RoutingInv` says that an entry of this call names the
  one server that has served its conversation; inserting keeps it whatever is
  evicted, because an entry is removed or kept but never changed.
* `AlwaysKeepsItsAddress`: `CacheInv` says that in the cache the entries of earlier
  calls come first, that a conversation of this call has at most one entry, and that
  until the first of them is evicted every conversation that has sent a request
  has one, while afterwards the whole cache is theirs. `FewLost` then counts the
  lost ones by an injection.
* `ConversationsRunOut`, if `max_turns` is set: each step of a conversation, of whichever of its tasks,
  lowers a bound (`StepsLeft`) that starts at three for each turn. `ToolsInv` is what this needs: tools
  are called only if a reply asked for some and the limit is still ahead, so that a
  resubmitted conversation is longer by at least one message. Without `max_turns` nothing in the code bounds it.

`AsyncRollout_proofs`, for every number of requests and turns and all lengths of
prompts, replies, tool answers and of the model, from one invariant of each
request: `LoopAt` (a request in its loop has turns left, one that has left it a
finish reason that is accepted, and an engine call has room), `TokensAt` (the mask
selects the model's tokens, and behind the prompt only what may follow follows) and
`OutputAt` (the same of a finished response):

* `TypeCorrect`, `AlwaysEngineHasRoom` and `AlwaysFinalizeAccepts`;
* `AlwaysLossOnModelTokens` and `AlwaysFollowsTemplate`. `Finalized` is the lemma on
  stripping and truncation: tokens and mask are cut at the same places
  (`ResponseIs`), and a response ends with a generation prompt only where it was
  cut, since one that stood at the end of the request has been stripped and
  there are no two in a row;
* `RequestsRunOut`: each step of a request lowers a bound that starts at three for each turn,
  and leaves that of every other request alone.

`Limiters_proofs`, about the token bucket of `RateLimit` (whose definitions carry
`Bucket` in their names because the module extends `SandboxReward` as well), for every number
of calls, threads and tools:

* `BucketTypeCorrect`, `AlwaysTokensConserved` (every token is in the bucket, with a call, or
  on its way back) and from it `AlwaysWithinBucket`.

and about `SandboxReward`, for every number of responses, cases, processes and slots:

* `TypeCorrect`; `AlwaysWithinLimit`: slots and holders together are at most
  `max_concurrent`; they are fewer once a holder has been killed, so the invariant is an
  inequality. `AlwaysScoreOfCases`: `compile` is the least case read so far that did not
  compile.
* `CasesRunOut`: each step of a thread lowers a bound of at most `2 * MAX_RETRIES + 2`, so a slot
  is held for a bounded number of requests. It needs `RetryInv`: a case that will
  be sent again has an attempt left.

`PolicyUpdate_proofs`, for every shape of the batch, every method and all probabilities:

* `AlwaysEachTokenOnce`: `PassInv` says that the masks still to do share no token and
  cover, with those done, the batch; `TurnInv` computes how often a token has had its turn
  from the pass, the epoch and the mini-batch.
* `AlwaysMicroSizeIrrelevantIfFixed`: `MicroInv` says that the gradient accumulated so far is
  that of the tokens chosen so far in the whole mini-batch. `DivisorOfMicro` is
  the arithmetic: divisor of the micro-batch times accumulation steps is the divisor of the
  mini-batch, in the three modes that average over responses.
* `AlwaysTrustRegion`: `RegionInv` says it of every token chosen so far (`Driven`), and that the
  other tokens have no gradient. The ranges enter only through their
  bounds (`ClipFacts`: ACPO's never leave `ClipMin`..`ClipMax`, whatever the standard
  deviation of the ratios), and the losses through which of two or three is greater
  (`PushOfPPOFacts`, `PushOfCISPOFacts`).
* `AlwaysFirstStepPlain`, if `IsLow >= 0` (and, as the property has it, with `seq-mean-token-mean` and unchanged
  advantages): as long as no step has been made all probabilities are
  the old ones (`AlikeInv`), so every loss is the plain one, and the gradient accumulated
  for a token is its advantage divided by what the mode divides by (`PlainInv`). A sum over a
  finite set is defined by recursion over the set; `SumOfConstant`, for what all
  tokens of a response share, is proved by induction on its size. The configuration's value is 1.0 and
  nothing asserts it; with a negative one the ratio 1 would itself be clipped.

`DynamicSampling_proofs`, for every size of the batches, every filter and limit of tries, any
number of epochs, steps and runs, from one invariant, `SampleInv`:

* `AlwaysTypeOK` from its part `CounterInv`.
* `AlwaysUpdateReady`. The property speaks of the moment of the update and is not
  inductive: `BatchInv` says of every batch that has been collected that it consists of whole
  groups in a row (`Blocks`), as many as `numPrompts` counts, each under a `uid` of its
  own and with the filter of mixed results (`MixedBlocks`). `KeptBlocks` shows that the loop over the rows of
  a generation batch (`Kept`, by induction on the rows) keeps groups as a whole, `ConcatBlocks` that batches of
  groups may be joined, and `FirstBlocks` that cutting at `train_batch_size` times
  `n` rows cuts between groups.
* `AlwaysPromptsAccounted`, which is inductive only with `SavedAccounted`: what a checkpoint
  has as used, left over and filtered out is, without any batch, all that had been drawn
  when it was written, because a checkpoint is written when the batch is empty. It holds for
  any `Order` that is a permutation in each pass (`OrderAssumption`), under the condition `SameOrder` of the property.
* `DrawingRunsOut`, with a limit on the tries or without: each step of a submission lowers a bound
  made of two for each generation batch that the dataloader still gives out, and one for
  the end of each epoch.

`Batches_proofs`, about `SeqlenBalance`, for batches of any size and any lengths, any number of ranks and every
way to count micro-batches, from one invariant, `SplitInv`, of the states in the heap:

* `AlwaysPartitionsUsable`: every item is in some set of some state (`Covered`) and at
  one place only (`Once`). `IsEven` is what keeps a partition from ending up empty: a state
  with an empty set has no set of two items, and merging preserves that because the
  empty sets of a sorted state are its last ones, and meet the first ones of the other. At the
  end an empty partition would leave fewer places than items (`NoneEmpty`). With equal
  sizes the places are counted by a bijection (`SizesMultiply`).
* `AlwaysBalanced`: `IsWithin` says that no state has a wider spread than some
  initial one. `MergedWithin` is the argument of the differencing method: in two sets of the merged
  state the two summands differ in opposite directions, so the difference is at most that of
  one of them.
* `AlwaysTypeOK`; the arithmetic of `rearrange_micro_batches` is in `MicroBatchesPositive`.

These rest on lemmas about sums and sorting, which have to be proved first. `Total` folds over the
places of a set in whatever order: `TotalMoved` and `TotalOfJoined` say that it does not depend on the
order, and of a concatenation is the sum of both. They are proved by induction over
finite sets, in the form of `SubsetInduction`: a family of sets that has the empty
one and is closed under adding a place has them all. `sorted` is defined by ranks
(`Places`): the place of an item is the number of those ahead of it. `PlacesSort` shows that
this is a permutation in order whenever `ahead` is an order, and `KeysOrder`
that comparing sums, then lengths, then first items is one.

and about `DataParallel`, for any number of ranks and of groups, batches of any size, mini- and
micro-batches of any size or by tokens, and any number of epochs, from one invariant, `BatchInv`:

* `CallInv` says how far the driver and the groups are: what a group works on is its
  share of the driver's batch (`Share`), all groups have the same number of mini-batches
  ahead, which are the last ones of all (`Ahead`), and a row has been part of as many
  steps as the mini-batches behind contain it (`PartOf`).
* `MicroInv` says of the cut of a mini-batch that the rows computed so far (`index`) and the
  micro-batches still to do have every row once (`CutOf`).
* `WeightInv` says that the rows computed so far have the weight `Unit` and the others none.

`AlwaysResultsInPlace` rests on three facts: to dispatch a sequence of rows and to collect what the
groups return is the identity (`RoundTrip`, with `FlattenEqual` about joining parts of one size);
the rows of all micro-batches, in whatever order these were computed, are a permutation
(`FlatPermutes`, `InOrderEnumerates`); and `Reverted` inverts it. `AlwaysEvenlyWeighted` rests on
`OneWeight` and `NoWeight` (a row gets the weight of the one micro-batch that has it, because the parts
of a partition are disjoint), `ScaledIsUnit` (the arithmetic of both ways to scale a loss), and
`NextDone` (a step adds one for the rows of its mini-batch). It is about the settings that are `Even`:
the loss is a mean over sequences, and micro-batches are cut by tokens, or those of a fixed size cut the share of a
group without rest. Otherwise sequences do not weigh the same, as section 4 says; what `EvenlyWeighted` claims of
`token-mean` is only model-checked.

The two meet in `AlwaysKeepsPromise`: whatever `SeqlenBalance` returns is, as sets of rows, one of the
partitions that `Balance` and `SplitMicros` choose from (`PartitionIs`, the converse of
`PartitionFacts`), with parts of one size where that was asked for; and
its sorted partitions one after the other are what `Balance` makes of these sets, since there is
only one way to write a set of numbers in order (`InOrderUnique`). So the abstraction by which
`DataParallel` does without the differencing method leaves out nothing that it can return.
This theorem relates two modules, so no run states it.

Only model-checked: everything about liveness (`RunEnds`, `GenerateEnds`, `BatchEnds`,
`CallsReturn`, `FitEnds`, `CallsEnd`, `StepEnds`, `BatchScored`), which is out of the
prover's reach. Of four of them the part is proved that is not about fairness: the theorems named `...RunOut` or `...RunsOut` say
that there are only finitely many steps to take (for `GenerateEnds`, `BatchEnds`, `BatchScored` and
`FitEnds`, in this order, those of a conversation, of a request, of a test case and of
a submission). That some step can be taken until the end is
reached, and that the scheduler takes it, only the runs show.

A leaf of a proof names the few facts it needs, and is split until the provers need a small
part of their default time for it, so that the proofs do not depend on the machine.

## 6. Not modelled

The notes in `PROJECT.json` say for each part what is left out. The arithmetic
of advantage estimators, KL penalties and critic losses, model code, kernels, data sets, verifiers and launch
scripts have no protocol to check; they are most of the repository's lines. The Megatron
workers drive pipelines and weight conversion of Megatron-LM, which is outside the
repository. Engines (vLLM, SGLang), Ray and PyTorch appear only as what the
code uses of them: an actor serves tasks with its thread groups, a
barrier opens when every rank has arrived, an engine call returns or raises.
Callbacks of users that submit several requests for one conversation, and the
recipes besides DAPO (PRIME, SPIN, SPPO), which follow `fit` of the PPO trainer, are
left out as well.

## 7. Plan

Done: the modules above. What would come next:

1. The Megatron variant of saving, in which every rank rotates.
2. Asynchronous rewards in `fit`, and callbacks that submit several requests.
3. Abstract specifications of generation (one result per prompt) for `ChatScheduler`
   and `AsyncRollout`, and the driver's step composed with them.
