----------------------------- MODULE HybridEngine -----------------------------
(***************************************************************************)
(* The colocated workers of fsdp_workers.py: on every GPU an actor and a   *)
(* critic, whose parameters and optimizer states may be offloaded to the   *)
(* CPU between calls, share the memory with an inference engine that is    *)
(* woken up for generation, given the actor's weights by the sharding      *)
(* manager and put to sleep again.                                         *)
(*                                                                         *)
(* The driver (fit) makes one call at a time on all ranks and waits for    *)
(* all of them; a rank goes through a call in several steps, and the       *)
(* collectives in a call keep the ranks together.  The job may crash and   *)
(* be started again from its last checkpoint.                              *)
(***************************************************************************)
EXTENDS Integers, FiniteSets

CONSTANTS
    NumRanks,    \* world_size
    Settings,    \* the configurations, see SettingsAssumption
    MaxUpdates,  \* bound: updates of the actor
    MaxRuns      \* bound: submissions of the job

Modules == {"actor", "critic"}

ASSUME RanksAssumption == NumRanks \in Nat \ {0}
ASSUME BoundsAssumption == MaxUpdates \in Nat \ {0} /\ MaxRuns \in Nat \ {0}

\* engine and async: rollout.name and rollout.mode.  tp: its
\* tensor_model_parallel_size, a divisor of the number of ranks by an assertion
\* of _build_rollout.  tags: vLLM's wake_up can wake up the weights alone.
\* preloaded: load_format is not one of the dummy ones.  offloadParam,
\* offloadOptimizer: the modules with param_offload and optimizer_offload.
\* cpuPolicy: FSDP2 with offload_policy.
ASSUME SettingsAssumption ==
    /\ Settings \subseteq
           [engine : {"vllm", "sglang"}, async : BOOLEAN, tp : Nat \ {0}, tags : BOOLEAN,
            preloaded : BOOLEAN, lora : BOOLEAN, layered : BOOLEAN,
            offloadParam : SUBSET Modules, offloadOptimizer : SUBSET Modules,
            cpuPolicy : BOOLEAN]
    /\ \A s \in Settings : NumRanks % s.tp = 0

VARIABLES
    setting,   \* the configuration of the job: no step changes it
    op,        \* the call the driver is in
    pc,        \* how far each rank is in it
    (* per rank: the modules *)
    version,   \* the updates that the actor's shard contains
    device,    \* device[m][r]: where the parameters of m are
    opt,       \* opt[m][r]: where its optimizer's state is, if there is one yet
    (* per rank: the inference engine and the sharding manager *)
    memory,    \* what the engine holds on the GPU
    base,      \* the version of the engine's weights, of which each rank has a
               \* shard; -1 is random ones
    adapter,   \* the version of the engine's LoRA adapter; 0 is none
    baseSync,  \* base_sync_done
    isSleep,   \* vLLMAsyncRollout.is_sleep, SGLangRollout.is_sleep
    rng,       \* the state of the GPU's random number generator
    trainRng,  \* torch_random_states
    genRng,    \* gen_random_states
    (* across runs *)
    saved,     \* the last complete checkpoint; version 0 is none
    run        \* which submission of the job this is

moduleVars == <<version, device, opt>>
managerVars == <<memory, base, adapter, baseSync, isSleep, rng, trainRng, genRng>>
vars == <<setting, op, pc, moduleVars, managerVars, saved, run>>

Ranks == 0..(NumRanks - 1)
TpSize == setting.tp
DpRank(r) == r \div TpSize
TpGroup(r) == {q \in Ranks : DpRank(q) = DpRank(r)}

\* The calls, and the module that a training call works on.
ActorCalls == {"load_actor", "log_prob", "ref", "update_actor", "save_actor"}
CriticCalls == {"load_critic", "values", "update_critic", "save_critic"}
TrainingCalls == ActorCalls \cup CriticCalls
Generating == {"generate", "validate"}
Calls == TrainingCalls \cup Generating \cup {"init"}
ModuleOf(call) == IF call \in ActorCalls THEN "actor" ELSE "critic"

\* The states of a stream are numbered by the draws made from it so far.
Stream(kind, id, n) == [kind |-> kind, id |-> id, draws |-> n]
Streams == [kind : {"train"}, id : Ranks, draws : 0..(2 * MaxUpdates)]
               \cup [kind : {"gen"}, id : Ranks, draws : 0..(2 * MaxUpdates + 1)]
Drawn(s) == [s EXCEPT !.draws = @ + 1]

TypeOK ==
    /\ setting \in Settings
    /\ op \in Calls \cup {"down", "failed"}
    /\ pc \in [Ranks -> {"todo", "uncalled", "loaded", "synced", "freed", "entered", "skipped",
                         "generated", "used", "done"}]
    /\ version \in [Ranks -> 0..MaxUpdates]
    /\ device \in [Modules -> [Ranks -> {"cpu", "gpu"}]]
    /\ opt \in [Modules -> [Ranks -> {"none", "cpu", "gpu"}]]
    /\ memory \in [Ranks -> {"asleep", "weights", "all"}]
    /\ base \in [Ranks -> -1..MaxUpdates]
    /\ adapter \in [Ranks -> 0..MaxUpdates]
    /\ baseSync \in [Ranks -> BOOLEAN] /\ isSleep \in [Ranks -> BOOLEAN]
    /\ rng \in [Ranks -> Streams]
    /\ trainRng \in [Ranks -> Streams] /\ genRng \in [Ranks -> Streams]
    /\ saved \in [version : 0..MaxUpdates, rng : [Ranks -> Streams]]
    /\ run \in 0..MaxRuns

All(value) == [r \in Ranks |-> value]
TrainStreams == [r \in Ranks |-> Stream("train", r, 0)]

Init ==
    /\ setting \in Settings
    /\ op = "down" /\ pc = All("done")
    /\ version = All(0)
    /\ device = [m \in Modules |-> All("cpu")] /\ opt = [m \in Modules |-> All("none")]
    /\ memory = All("asleep") /\ base = All(-1) /\ adapter = All(0)
    /\ baseSync = All(FALSE) /\ isSleep = All(FALSE)
    /\ rng = TrainStreams /\ trainRng = TrainStreams /\ genRng = TrainStreams
    /\ saved = [version |-> 0, rng |-> TrainStreams]
    /\ run = 0

\* The processes are gone; these values stand for nothing.
Down(how) ==
    /\ op' = how /\ pc' = All("done")
    /\ version' = All(0)
    /\ device' = [m \in Modules |-> All("cpu")] /\ opt' = [m \in Modules |-> All("none")]
    /\ memory' = All("asleep") /\ base' = All(-1) /\ adapter' = All(0)
    /\ baseSync' = All(FALSE) /\ isSleep' = All(FALSE)
    /\ rng' = TrainStreams /\ trainRng' = TrainStreams /\ genRng' = TrainStreams

(***************************************************************************)
(* The driver.                                                             *)
(***************************************************************************)

\* fit: which call may follow which.  Validation comes before the first step
\* or after an update, and a checkpoint after an update.
Follows(call) ==
    CASE call = "init" ->
            IF saved.version > 0 THEN {"load_actor"} ELSE Generating
      [] call = "load_actor" -> {"load_critic"}
      [] call = "load_critic" -> Generating
      [] call = "validate" ->
            {"generate"} \cup (IF version[0] > saved.version THEN {"save_actor"} ELSE {})
      [] call = "generate" -> {"log_prob"}
      [] call = "log_prob" -> IF setting.lora THEN {"ref"} ELSE {"values"}
      [] call = "ref" -> {"values"}
      [] call = "values" -> {"update_critic"}
      [] call = "update_critic" -> {"update_actor"}
      [] call = "update_actor" -> Generating \cup {"save_actor"}
      [] call = "save_actor" -> {"save_critic"}
      [] call = "save_critic" -> {"generate"}
      [] OTHER -> {}

\* Each call goes to all ranks, but those of an asynchronous SGLang rollout:
\* the server of a replica looks for the ranks of its own tensor parallel group
\* as if that size were 1, in configuration keys that are not where it looks, so
\* that with dp_size servers (on one node) the first dp_size ranks are called.
Called(r, call) ==
    call \in Generating /\ setting.engine = "sglang" /\ setting.async =>
        r < NumRanks \div TpSize

AllDone == \A r \in Ranks : pc[r] \in {"done", "uncalled"}

\* The worker group calls the ranks and gets all results.
Call(next) ==
    /\ op \in Calls /\ AllDone
    /\ next \in Follows(op)
    /\ next = "generate" => version[0] < MaxUpdates
    /\ op' = next
    /\ pc' = [r \in Ranks |-> IF Called(r, next) THEN "todo" ELSE "uncalled"]
    /\ saved' = IF op = "save_critic"
                THEN [version |-> version[0], rng |-> rng]    \* the tracker is written
                ELSE saved
    /\ UNCHANGED <<setting, moduleVars, managerVars, run>>

Submit ==
    /\ op \in {"down", "failed"} /\ run < MaxRuns
    /\ op' = "init"
    /\ pc' = [r \in Ranks |-> "todo"]
    /\ run' = run + 1
    /\ UNCHANGED <<setting, moduleVars, managerVars, saved>>

Crash ==
    /\ op \in Calls
    /\ Down("down")
    /\ UNCHANGED <<setting, saved, run>>

Goes(r, from, to) == pc[r] = from /\ pc' = [pc EXCEPT ![r] = to]

\* A collective over the ranks in who: each of them takes part.
Arrived(who, before) == \A q \in who : pc[q] \notin before \cup {"uncalled"}

(***************************************************************************)
(* init_model, of the critic and then of the actor with its rollout.       *)
(***************************************************************************)

\* FSDP2's offload_policy does the offloading itself: the flags are reset, and
\* the sharding manager is built after that.
Offloads(m) == m \in setting.offloadParam /\ ~setting.cpuPolicy
OffloadsOptimizer(m) == m \in setting.offloadOptimizer /\ ~setting.cpuPolicy

\* Where the module must be when it is computed with, and between two calls.
Home == IF setting.cpuPolicy THEN "cpu" ELSE "gpu"
Rest(m) == IF Offloads(m) THEN "cpu" ELSE Home

\* The synchronous vLLM engine sleeps once it is built; the asynchronous one is
\* started later, by its server, and stays awake.
StaysAwake == setting.engine = "vllm" /\ setting.async

\* Of an SGLang engine only the process of the group's first rank has a handle.
\* It is said to be asleep once it is built, but keeps all its memory until it
\* is first resumed: resume_memory_occupation releases it then.
EngineOf(r) == IF setting.engine = "sglang" THEN DpRank(r) * TpSize ELSE r
KeepsMemory(r) == StaysAwake \/ (setting.engine = "sglang" /\ r = EngineOf(r))

\* The asynchronous vLLM server loads the model whatever rollout.load_format says.
LoadsModel == setting.preloaded \/ StaysAwake

InitModel(r) ==
    /\ op = "init" /\ Goes(r, "todo", "done")
    /\ device' = [m \in Modules |-> [device[m] EXCEPT ![r] = Rest(m)]]
    /\ memory' = [memory EXCEPT ![r] = IF KeepsMemory(r) THEN "all" ELSE "asleep"]
    /\ base' = [base EXCEPT ![r] = IF LoadsModel THEN 0 ELSE -1]
    /\ baseSync' = [baseSync EXCEPT ![r] = setting.preloaded]
    /\ isSleep' = [isSleep EXCEPT ![r] = ~StaysAwake]
    /\ trainRng' = [trainRng EXCEPT ![r] = rng[r]]
    /\ genRng' = [genRng EXCEPT ![r] = Stream("gen", DpRank(r), 0)]
    /\ UNCHANGED <<setting, op, version, opt, adapter, rng, saved, run>>

(***************************************************************************)
(* Training calls: load what is offloaded, use it, offload it again.       *)
(***************************************************************************)

Updating == op \in {"update_actor", "update_critic"}

\* load_fsdp_model_to_gpu, and load_fsdp_optimizer before an update: it leaves
\* an optimizer without a state alone.
NeedsOptimizer_Never(m) == FALSE    \* seeded fault: the optimizer is not loaded
NeedsOptimizer(m) == Updating /\ OffloadsOptimizer(m)
Onload(r, m) ==
    /\ op \in TrainingCalls /\ m = ModuleOf(op) /\ Goes(r, "todo", "loaded")
    /\ device' = [device EXCEPT ![m][r] = IF Offloads(m) THEN "gpu" ELSE @]
    /\ opt' = [opt EXCEPT ![m][r] = IF NeedsOptimizer(m) /\ @ # "none" THEN "gpu" ELSE @]
    /\ UNCHANGED <<setting, op, version, managerVars, saved, run>>

\* The computation of the call is one step of each rank, once all are ready
\* for its collectives.
Computes(r, call) ==
    /\ op = call /\ Goes(r, "loaded", "used")
    /\ Arrived(Ranks, {"todo"})
    /\ UNCHANGED <<setting, op, memory, base, adapter, baseSync, isSleep,
                   trainRng, genRng, saved, run>>

ComputeLogProb(r) == Computes(r, "log_prob") /\ UNCHANGED <<moduleVars, rng>>
ComputeRefLogProb(r) == Computes(r, "ref") /\ UNCHANGED <<moduleVars, rng>>
ComputeValues(r) == Computes(r, "values") /\ UNCHANGED <<moduleVars, rng>>

\* The first step of an optimizer creates its state, beside the parameters.
Stepped(m, r) == IF opt[m][r] = "none" THEN device[m][r] ELSE opt[m][r]

UpdateActor(r) ==
    /\ Computes(r, "update_actor")
    /\ version' = [version EXCEPT ![r] = @ + 1]
    /\ opt' = [opt EXCEPT !["actor"][r] = Stepped("actor", r)]
    /\ rng' = [rng EXCEPT ![r] = Drawn(@)]
    /\ UNCHANGED device

UpdateCritic(r) ==
    /\ Computes(r, "update_critic")
    /\ opt' = [opt EXCEPT !["critic"][r] = Stepped("critic", r)]
    /\ rng' = [rng EXCEPT ![r] = Drawn(@)]
    /\ UNCHANGED <<version, device>>

\* To save the LoRA adapter the actor is moved to the GPU; offload_policy does
\* not move it back.
SaveCheckpoint(r) ==
    /\ \/ /\ Computes(r, "save_actor")
          /\ device' = [device EXCEPT !["actor"][r] = IF setting.lora THEN "gpu" ELSE @]
       \/ Computes(r, "save_critic") /\ UNCHANGED device
    /\ UNCHANGED <<version, opt, rng>>

\* Parameters, optimizer and the random state are those of the checkpoint; the
\* optimizer's state is put beside the parameters.
RestoredRng_Kept(r) == rng[r]    \* seeded fault: load_rng_state is not called
RestoredRng(r) == saved.rng[r]

LoadCheckpoint(r, m) ==
    /\ m = ModuleOf(op)
    /\ Computes(r, "load_actor") \/ Computes(r, "load_critic")
    /\ version' = [version EXCEPT ![r] = IF m = "actor" THEN saved.version ELSE @]
    /\ opt' = [opt EXCEPT ![m][r] = device[m][r]]
    /\ rng' = [rng EXCEPT ![r] = RestoredRng(r)]
    /\ UNCHANGED device

\* offload_fsdp_model_to_cpu, and offload_fsdp_optimizer where the call has it:
\* after an update and after loading a checkpoint.
OffloadsAfter_NotOnSave(m) == Offloads(m) /\ op \notin {"save_actor", "save_critic"}    \* seeded fault
OffloadsAfter(m) == Offloads(m)
Offload(r, m) ==
    /\ op \in TrainingCalls /\ m = ModuleOf(op) /\ Goes(r, "used", "done")
    /\ device' = [device EXCEPT ![m][r] = IF OffloadsAfter(m) THEN "cpu" ELSE @]
    /\ opt' = [opt EXCEPT ![m][r] =
                   IF /\ Updating \/ op \in {"load_actor", "load_critic"}
                      /\ OffloadsOptimizer(m) /\ @ # "none"
                   THEN "cpu" ELSE @]
    /\ UNCHANGED <<setting, op, version, managerVars, saved, run>>

(***************************************************************************)
(* Generation: __enter__ of the sharding manager, the engine, __exit__.    *)
(* In asynchronous mode these are the calls wake_up, chat completions and  *)
(* sleep, each on all ranks; otherwise one call of generate_sequences.     *)
(***************************************************************************)

Together(r) == IF setting.async THEN Ranks ELSE TpGroup(r)

\* if not self.is_sleep: return.  Otherwise the actor is loaded and its
\* parameters are collected.
AlreadyAwake(r) == setting.async /\ ~isSleep[r]
WakeUp(r) ==
    /\ op \in Generating /\ pc[r] = "todo"
    /\ pc' = [pc EXCEPT ![r] = IF AlreadyAwake(r) THEN "skipped" ELSE "loaded"]
    /\ device' = [device EXCEPT !["actor"][r] =
                      IF Offloads("actor") /\ ~AlreadyAwake(r) THEN "gpu" ELSE @]
    /\ UNCHANGED <<setting, op, version, opt, managerVars, saved, run>>

\* LoRA with layered_summon: ValueError when the base model is not preloaded.
LayeredRaises(r) ==
    /\ op \in Generating /\ pc[r] = "loaded"
    /\ setting.lora /\ setting.layered /\ ~baseSync[r]
    /\ Down("failed")
    /\ UNCHANGED <<setting, saved, run>>

\* update_params: with LoRA the base model the first time, unless it is
\* preloaded, and the adapter afterwards.
AdapterOnly_Never(r) == FALSE    \* seeded fault: always the base model
AdapterOnly(r) == setting.lora /\ baseSync[r]
NewBase(r) == IF setting.lora THEN 0 ELSE version[r]

\* What wakes up for the weights: resume_memory_occupation, and a wake_up
\* without tags, wake up everything.
TwoStage == setting.engine = "vllm" /\ setting.tags

\* The engine's weights wake up and the parameters, gathered over all ranks,
\* are copied into it.
Sync(r) ==
    /\ op \in Generating /\ Goes(r, "loaded", "synced")
    /\ ~(setting.lora /\ setting.layered /\ ~baseSync[r])
    /\ Arrived(Ranks, {"todo", "skipped"})
    /\ IF r = EngineOf(r)
       THEN memory' = [memory EXCEPT ![r] = IF TwoStage THEN "weights" ELSE "all"]
       ELSE UNCHANGED memory
    /\ IF AdapterOnly(r)
       THEN adapter' = [adapter EXCEPT ![r] = version[r]] /\ UNCHANGED <<base, baseSync>>
       ELSE /\ base' = [base EXCEPT ![r] = NewBase(r)]
            /\ baseSync' = [baseSync EXCEPT ![r] = TRUE]
            /\ UNCHANGED adapter
    /\ UNCHANGED <<setting, op, moduleVars, isSleep, rng, trainRng, genRng, saved, run>>

Free(r) ==
    /\ op \in Generating /\ Goes(r, "synced", "freed")
    /\ device' = [device EXCEPT !["actor"][r] = IF Offloads("actor") THEN "cpu" ELSE @]
    /\ UNCHANGED <<setting, op, version, opt, managerVars, saved, run>>

\* The KV cache is allocated, and the random state of generation takes over.
Enter(r) ==
    /\ op \in Generating /\ Goes(r, "freed", "entered")
    /\ memory' = [memory EXCEPT ![r] = IF r = EngineOf(r) THEN "all" ELSE @]
    /\ trainRng' = [trainRng EXCEPT ![r] = rng[r]]
    /\ rng' = [rng EXCEPT ![r] = genRng[r]]
    /\ isSleep' = [isSleep EXCEPT ![r] = FALSE]
    /\ UNCHANGED <<setting, op, moduleVars, base, adapter, baseSync, genRng, saved, run>>

\* The engine of the group samples the responses.
NotEntered == {"todo", "loaded", "synced", "freed"}
Generate(r) ==
    /\ op \in Generating
    /\ Goes(r, "entered", "generated") \/ Goes(r, "skipped", "generated")
    /\ Arrived(Together(r), NotEntered)
    /\ rng' = [rng EXCEPT ![r] = Drawn(@)]
    /\ UNCHANGED <<setting, op, moduleVars, memory, base, adapter, baseSync, isSleep,
                   trainRng, genRng, saved, run>>

\* sleep, and the random state of training comes back.
SleepsNow_FirstOnly(r) == DpRank(r) = 0    \* seeded fault: only one server is told to sleep
SleepsNow(r) == TRUE
TrainStateBack(r) == trainRng[r]
Exit(r) ==
    /\ op \in Generating /\ Goes(r, "generated", "done")
    /\ Arrived(Together(r), NotEntered \cup {"entered", "skipped"})
    /\ memory' = [memory EXCEPT ![r] = "asleep"]
    /\ genRng' = [genRng EXCEPT ![r] = rng[r]]
    /\ rng' = [rng EXCEPT ![r] = TrainStateBack(r)]
    /\ isSleep' = [isSleep EXCEPT ![r] = SleepsNow(r)]
    /\ UNCHANGED <<setting, op, moduleVars, base, adapter, baseSync, trainRng, saved, run>>

TrainingStep(r) ==
    \/ \E m \in Modules : Onload(r, m) \/ Offload(r, m) \/ LoadCheckpoint(r, m)
    \/ ComputeLogProb(r) \/ ComputeRefLogProb(r) \/ ComputeValues(r)
    \/ UpdateActor(r) \/ UpdateCritic(r) \/ SaveCheckpoint(r)

GenerationStep(r) ==
    \/ WakeUp(r) \/ LayeredRaises(r) \/ Sync(r)
    \/ Free(r) \/ Enter(r) \/ Generate(r) \/ Exit(r)

RankStep(r) == InitModel(r) \/ TrainingStep(r) \/ GenerationStep(r)

Next ==
    \/ \E next \in Calls : Call(next)
    \/ Submit \/ Crash
    \/ \E r \in Ranks : RankStep(r)

Spec == Init /\ [][Next]_vars

\* Every rank that can go on does.  The driver need not make another call.
FairSpec == Spec /\ \A r \in Ranks : WF_vars(RankStep(r))

(***************************************************************************)
(* Properties.                                                             *)
(***************************************************************************)

\* What the weights in the engine amount to: an adapter on a base model that is
\* not there is worth nothing, and no adapter is the model without an update.
Effective(r) ==
    IF setting.lora /\ base[r] = 0 THEN adapter[r] ELSE base[r]

\* Every response is generated with the weights the actor has at that moment,
\* after any number of updates and in the first generation after a resumption:
\* fit trains on-policy. It is so where vLLM is synchronous and where LoRA, not
\* summoned layer by layer, starts from a preloaded base model.
EngineCurrent ==
    \A r \in Ranks :
        op \in Generating /\ pc[r] \in {"entered", "skipped"} => Effective(r) = version[r]

\* A module is computed with where its parameters must be (on the GPU, or with
\* offload_policy on the CPU), and with its optimizer's state beside them,
\* although both move between the calls. LoRA and offload_policy together break
\* it, after a checkpoint.
OnDevice ==
    \A r \in Ranks, m \in Modules :
        op \in TrainingCalls /\ m = ModuleOf(op) /\ pc[r] = "loaded" =>
            /\ device[m][r] = Home
            /\ Updating => opt[m][r] \in {"none", Home}

\* The tenants of a GPU take turns.  The engine sleeps during every training
\* call, but SGLang's while a checkpoint is loaded, before it was ever used; no
\* offloaded module is on the GPU but the one that is computed with, and none
\* when the KV cache is there if the engine can wake up in two stages; and what
\* may be offloaded is offloaded between the calls.
OneTenant ==
    \A r \in Ranks :
        /\ op \in TrainingCalls =>
              \/ memory[r] = "asleep"
              \/ setting.engine = "sglang" /\ op \in {"load_actor", "load_critic"}
        /\ \A m \in Modules :
              Offloads(m) /\ device[m][r] = "gpu" =>
                  \/ op \in TrainingCalls /\ m = ModuleOf(op) /\ pc[r] \in {"loaded", "used"}
                  \/ /\ op \in Generating /\ m = "actor"
                     /\ pc[r] \in {"loaded", "synced"}
                     /\ TwoStage => memory[r] # "all"
        /\ \A m \in Modules :
              OffloadsOptimizer(m) /\ pc[r] = "done" => opt[m][r] # "gpu"

\* Generation never draws from the training stream, and all ranks of a tensor
\* parallel group sample from one stream (vLLM's, which sample in the worker
\* processes); so the random numbers of an update depend only on how many
\* updates there were, in a resumed job as in one that was never stopped.
StreamsApart ==
    \A r \in Ranks :
        /\ op \in {"update_critic", "update_actor"} /\ pc[r] = "loaded" =>
              rng[r] = Stream("train", r,
                              2 * version[r] + (IF op = "update_actor" THEN 1 ELSE 0))
        /\ op \in Generating /\ pc[r] \in {"entered", "skipped"} =>
              /\ rng[r].kind = "gen"
              /\ \A q \in TpGroup(r) : pc[q] = "entered" => rng[q] = rng[r]

\* A call that reaches all ranks and has begun ends on every one of them: the
\* collectives in it and the early returns around it never leave one waiting for
\* another. The one call that does not reach them all, of an asynchronous
\* SGLang rollout with tensor parallelism, hangs.
CallsEnd ==
    (op \in Calls /\ ~AllDone /\ \A r \in Ranks : Called(r, op)) ~> AllDone
=============================================================================
