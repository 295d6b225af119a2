------------------------- MODULE HybridEngine_proofs -------------------------
(***************************************************************************)
(* Theorems about HybridEngine, for every number of ranks, every set of    *)
(* configurations, and every number of updates and submissions.            *)
(***************************************************************************)
EXTENDS HybridEngine, TLAPS

(***************************************************************************)
(* The inductive invariants.                                               *)
(***************************************************************************)

Locations == {"todo", "uncalled", "loaded", "synced", "freed", "entered",
              "skipped", "generated", "used", "done"}

\* The variables the theorems speak of have the right shape.
Typed ==
    /\ setting \in Settings
    /\ op \in Calls \cup {"down", "failed"}
    /\ pc \in [Ranks -> Locations]
    /\ version \in [Ranks -> Nat] /\ saved.version \in Nat
    /\ device \in [Modules -> [Ranks -> {"cpu", "gpu"}]]
    /\ opt \in [Modules -> [Ranks -> {"none", "cpu", "gpu"}]]
    /\ memory \in [Ranks -> {"asleep", "weights", "all"}]
    /\ base \in [Ranks -> Int] /\ adapter \in [Ranks -> Nat]
    /\ baseSync \in [Ranks -> BOOLEAN] /\ isSleep \in [Ranks -> BOOLEAN]

\* A rank is where the call it is in can bring it.
PhaseAt(r) ==
    /\ op \in {"down", "failed"} => pc[r] = "done"
    /\ op = "init" => pc[r] \in {"todo", "done"}
    /\ op \in TrainingCalls => pc[r] \in {"todo", "loaded", "used", "done"}
    /\ op \in Generating => pc[r] # "used"
PhaseInv == \A r \in Ranks : PhaseAt(r)

\* init_model has built the modules of the rank.
Built(r) == op \in Calls /\ ~(op = "init" /\ pc[r] = "todo")

\* The call of the rank has loaded module m, or its optimizer's state.
Loaded(m, r) ==
    \/ op \in TrainingCalls /\ m = ModuleOf(op) /\ pc[r] \in {"loaded", "used"}
    \/ op \in Generating /\ m = "actor" /\ pc[r] \in {"loaded", "synced"}

OptimizerLoaded(m, r) ==
    /\ m = ModuleOf(op)
    /\ \/ Updating /\ pc[r] \in {"loaded", "used"}
       \/ op \in {"load_actor", "load_critic"} /\ pc[r] = "used"

\* LoRA with FSDP2's offload_policy: saving moves parameters for good.
Adrift == setting.lora /\ setting.cpuPolicy

\* Where the parameters and the optimizer's state of a module are.
DeviceAt(r, m) ==
    /\ ~Built(r) => device[m][r] = "cpu" /\ opt[m][r] = "none"
    /\ ~Adrift =>
          /\ Built(r) => device[m][r] = IF Offloads(m) /\ ~Loaded(m, r) THEN "cpu" ELSE Home
          /\ opt[m][r] \in
                 {"none", IF OffloadsOptimizer(m) /\ ~OptimizerLoaded(m, r) THEN "cpu" ELSE Home}
DeviceInv == \A r \in Ranks, m \in Modules : DeviceAt(r, m)

ModuleInv == Typed /\ PhaseInv /\ DeviceInv

\* Every configuration loads its base model if it must, and none has the
\* asynchronous vLLM engine, whose first wake_up is lost.
SoundSettings ==
    \A s \in Settings :
        /\ ~(s.engine = "vllm" /\ s.async)
        /\ s.lora => s.preloaded \/ s.layered

\* The engine is up between Sync and Exit, and is_sleep agrees with that; but
\* SGLang's keeps its memory until it is first used.
InEngine == {"synced", "freed", "entered", "generated"}
Unused(r) ==
    \/ op \in {"init", "load_actor", "load_critic"}
    \/ op \in Generating /\ pc[r] \in {"todo", "uncalled", "loaded"}

EngineAt(r) ==
    /\ pc[r] # "skipped"
    /\ pc[r] \notin InEngine => memory[r] = "asleep" \/ (setting.engine = "sglang" /\ Unused(r))
    /\ Built(r) => isSleep[r] = (pc[r] \notin {"entered", "generated"})
    /\ TwoStage /\ pc[r] = "synced" => memory[r] = "weights"
EngineInv == \A r \in Ranks : EngineAt(r)

\* A call that some rank is not called for stops before the first collective.
HangInv == (\E r \in Ranks : pc[r] = "uncalled") => pc[0] \in {"todo", "loaded"}

\* What the engine's weights amount to.
WeightAt(r) ==
    /\ Built(r) /\ setting.lora =>
          /\ baseSync[r] = setting.preloaded
          /\ setting.preloaded => base[r] = 0
    /\ pc[r] \in {"synced", "freed", "entered"} => Effective(r) = version[r]
WeightInv == \A r \in Ranks : WeightAt(r)

IndInv == ModuleInv /\ EngineInv /\ WeightInv /\ HangInv

(***************************************************************************)
(* Constants.                                                              *)
(***************************************************************************)

LEMMA Shape ==
    /\ 0 \in Ranks
    /\ Modules = {"actor", "critic"}
    /\ \A s \in Settings : s.async \in BOOLEAN /\ s.preloaded \in BOOLEAN
           /\ s.lora \in BOOLEAN /\ s.layered \in BOOLEAN /\ s.cpuPolicy \in BOOLEAN
           /\ s.tags \in BOOLEAN /\ s.engine \in {"vllm", "sglang"}
           /\ s.tp \in Nat \ {0} /\ NumRanks % s.tp = 0
  BY RanksAssumption, SettingsAssumption DEF Ranks, Modules

\* The tensor parallel groups are those of the configuration.
LEMMA SameGroups ==
    ASSUME setting' = setting
    PROVE  \A r : DpRank(r)' = DpRank(r)
  BY DEF DpRank, TpSize

\* The first rank is called for every call.
LEMMA FirstCalled ==
    ASSUME setting \in Settings, NEW call
    PROVE  Called(0, call)
<1>1. NumRanks \in Nat \ {0} /\ TpSize \in Nat \ {0} /\ NumRanks % TpSize = 0
  BY RanksAssumption, Shape DEF TpSize
<1> DEFINE d == NumRanks \div TpSize
<1>2. d \in Nat /\ NumRanks = TpSize * d + (NumRanks % TpSize)
  BY <1>1
<1>3. d # 0
  BY <1>1, <1>2
<1>4. 0 < d
  BY <1>2, <1>3
<1> QED
  BY <1>4 DEF Called

LEMMA CallNames ==
    /\ TrainingCalls = {"load_actor", "log_prob", "ref", "update_actor", "save_actor",
                        "load_critic", "values", "update_critic", "save_critic"}
    /\ Calls = TrainingCalls \cup {"generate", "validate", "init"}
    /\ \A call : ModuleOf(call) \in Modules
  BY DEF TrainingCalls, ActorCalls, CriticCalls, Calls, Generating, ModuleOf, Modules

\* The driver never goes back to init_model.
LEMMA FollowsCalls ==
    ASSUME NEW next \in Follows(op)
    PROVE  next \in Calls \ {"init"}
  BY CallNames DEF Follows, Generating

(***************************************************************************)
(* Initial states and the loss of the processes.                           *)
(***************************************************************************)

LEMMA InitInv == Init => IndInv
<1> SUFFICES ASSUME Init PROVE IndInv
  OBVIOUS
<1> USE DEF Init, All
<1>1. op \notin Calls
  BY CallNames
<1>2. Typed
  BY Shape DEF Typed, Locations
<1>3. PhaseInv /\ DeviceInv
  BY <1>1, CallNames DEF PhaseInv, PhaseAt, DeviceInv, DeviceAt, Built, Generating
<1>4. EngineInv /\ WeightInv /\ HangInv
  BY <1>1 DEF EngineInv, EngineAt, WeightInv, WeightAt, Built, InEngine, HangInv
<1> QED
  BY <1>2, <1>3, <1>4 DEF IndInv, ModuleInv

LEMMA DownInv ==
    ASSUME ModuleInv, NEW how \in {"down", "failed"}, Down(how),
           UNCHANGED <<setting, saved, run>>
    PROVE  IndInv'
<1> USE DEF Down, All
<1>1. op' \notin Calls
  BY CallNames
<1>2. Typed'
  BY Shape DEF ModuleInv, Typed, Locations
<1>3. PhaseInv' /\ DeviceInv'
  BY <1>1, CallNames DEF PhaseInv, PhaseAt, DeviceInv, DeviceAt, Built, Generating
<1>4. EngineInv' /\ WeightInv' /\ HangInv'
  BY <1>1 DEF EngineInv, EngineAt, WeightInv, WeightAt, Built, InEngine, HangInv
<1> QED
  BY <1>2, <1>3, <1>4 DEF IndInv, ModuleInv

(***************************************************************************)
(* The shape of the variables.                                             *)
(***************************************************************************)

\* Parameters or an optimizer's state move on one rank.
LEMMA Moves ==
    ASSUME NEW S, NEW f \in [Modules -> [Ranks -> S]], NEW m \in Modules, NEW r \in Ranks,
           NEW x \in S
    PROVE  /\ [f EXCEPT ![m][r] = x] \in [Modules -> [Ranks -> S]]
           /\ \A k \in Modules, q \in Ranks :
                  [f EXCEPT ![m][r] = x][k][q] = IF k = m /\ q = r THEN x ELSE f[k][q]
  OBVIOUS

LEMMA TrainingTyped ==
    ASSUME Typed, NEW r \in Ranks, TrainingStep(r)
    PROVE  Typed'
<1> USE DEF Typed, Locations, Goes, managerVars
<1> DEFINE Places == {"cpu", "gpu"}
           OptPlaces == {"none", "cpu", "gpu"}
<1>1. ASSUME NEW m \in Modules, Onload(r, m) PROVE Typed'
  <2>1. /\ device[m][r] \in Places /\ opt[m][r] \in OptPlaces
        /\ "gpu" \in Places /\ "gpu" \in OptPlaces
    OBVIOUS
  <2>2. device' \in [Modules -> [Ranks -> Places]]
    BY <1>1, <2>1, Moves DEF Onload
  <2>3. opt' \in [Modules -> [Ranks -> OptPlaces]]
    BY <1>1, <2>1, Moves DEF Onload
  <2> QED
    BY <1>1, <2>2, <2>3 DEF Onload
<1>2. ASSUME NEW m \in Modules, Offload(r, m) PROVE Typed'
  <2>1. device[m][r] \in Places /\ opt[m][r] \in OptPlaces
    OBVIOUS
  <2>2. device' \in [Modules -> [Ranks -> Places]]
    BY <1>2, <2>1, Moves DEF Offload
  <2>3. opt' \in [Modules -> [Ranks -> OptPlaces]]
    BY <1>2, <2>1, Moves DEF Offload
  <2> QED
    BY <1>2, <2>2, <2>3 DEF Offload
<1>3. ASSUME NEW m \in Modules, LoadCheckpoint(r, m) PROVE Typed'
  <2>1. device[m][r] \in OptPlaces
    OBVIOUS
  <2>2. opt' \in [Modules -> [Ranks -> OptPlaces]]
    BY <1>3, <2>1, Moves DEF LoadCheckpoint
  <2> QED
    BY <1>3, <2>2 DEF LoadCheckpoint, Computes
<1>4. ASSUME UpdateActor(r) PROVE Typed'
  <2>1. "actor" \in Modules /\ Stepped("actor", r) \in OptPlaces
    BY Shape DEF Stepped
  <2>2. opt' \in [Modules -> [Ranks -> OptPlaces]]
    BY <1>4, <2>1, Moves DEF UpdateActor
  <2> QED
    BY <1>4, <2>2 DEF UpdateActor, Computes
<1>5. ASSUME UpdateCritic(r) PROVE Typed'
  <2>1. "critic" \in Modules /\ Stepped("critic", r) \in OptPlaces
    BY Shape DEF Stepped
  <2>2. opt' \in [Modules -> [Ranks -> OptPlaces]]
    BY <1>5, <2>1, Moves DEF UpdateCritic
  <2> QED
    BY <1>5, <2>2 DEF UpdateCritic, Computes
<1>6. ASSUME ComputeLogProb(r) \/ ComputeRefLogProb(r) \/ ComputeValues(r) PROVE Typed'
  BY <1>6 DEF ComputeLogProb, ComputeRefLogProb, ComputeValues, Computes, moduleVars
<1>7. ASSUME SaveCheckpoint(r) PROVE Typed'
  <2>1. "actor" \in Modules /\ device["actor"][r] \in Places /\ "gpu" \in Places
    BY Shape
  <2>2. \/ device' = device
        \/ device' = [device EXCEPT !["actor"][r] =
                          IF setting.lora THEN "gpu" ELSE device["actor"][r]]
    BY <1>7 DEF SaveCheckpoint, Computes
  <2>3. device \in [Modules -> [Ranks -> Places]]
    OBVIOUS
  <2>4. device' \in [Modules -> [Ranks -> Places]]
    <3>1. CASE device' = device
      BY <2>3, <3>1
    <3>2. CASE device' # device
      <4> DEFINE x == IF setting.lora THEN "gpu" ELSE device["actor"][r]
      <4>1. x \in Places /\ device' = [device EXCEPT !["actor"][r] = x]
        BY <2>1, <2>2, <3>2
      <4> HIDE DEF x, Places
      <4> QED
        BY <2>1, <2>3, <4>1, Moves
    <3> QED
      BY <3>1, <3>2
  <2> QED
    BY <1>7, <2>4 DEF SaveCheckpoint, Computes
<1> QED
  BY <1>1, <1>2, <1>3, <1>4, <1>5, <1>6, <1>7 DEF TrainingStep

LEMMA GenerationTyped ==
    ASSUME Typed, NEW r \in Ranks, GenerationStep(r), op' = op
    PROVE  Typed'
<1> USE DEF Typed, Locations, Goes, moduleVars, managerVars
<1> DEFINE Places == {"cpu", "gpu"}
<1>1. "actor" \in Modules /\ device["actor"][r] \in Places
  BY Shape
<1>2. CASE WakeUp(r)
  <2>1. device' \in [Modules -> [Ranks -> Places]]
    BY <1>1, <1>2, Moves DEF WakeUp
  <2> QED
    BY <1>2, <2>1 DEF WakeUp
<1>3. CASE Sync(r)
  <2>1. memory' \in [Ranks -> {"asleep", "weights", "all"}]
    BY <1>3 DEF Sync
  <2>2. NewBase(r) \in Int /\ version[r] \in Nat
    BY DEF NewBase
  <2>3. /\ base' \in [Ranks -> Int] /\ adapter' \in [Ranks -> Nat]
        /\ baseSync' \in [Ranks -> BOOLEAN]
    <3>1. CASE AdapterOnly(r)
      BY <1>3, <2>2, <3>1 DEF Sync
    <3>2. CASE ~AdapterOnly(r)
      BY <1>3, <2>2, <3>2 DEF Sync
    <3> QED
      BY <3>1, <3>2
  <2>4. pc' \in [Ranks -> Locations]
    BY <1>3 DEF Sync
  <2> QED
    BY <1>3, <2>1, <2>3, <2>4 DEF Sync
<1>4. CASE Free(r)
  <2>1. device' \in [Modules -> [Ranks -> Places]]
    BY <1>1, <1>4, Moves DEF Free
  <2> QED
    BY <1>4, <2>1 DEF Free
<1>5. CASE Enter(r)
  BY <1>5 DEF Enter
<1>6. CASE Generate(r)
  BY <1>6 DEF Generate
<1>7. CASE Exit(r)
  BY <1>7 DEF Exit, SleepsNow
<1>8. CASE LayeredRaises(r)
  <2>1. op' \notin Calls /\ op \in Calls
    BY <1>8, CallNames DEF LayeredRaises, Down, Calls
  <2> QED
    BY <2>1
<1> QED
  BY <1>2, <1>3, <1>4, <1>5, <1>6, <1>7, <1>8 DEF GenerationStep

LEMMA InitModelTyped ==
    ASSUME Typed, NEW r \in Ranks, InitModel(r)
    PROVE  Typed'
<1> USE DEF Typed, Locations, Goes
<1>1. \A m \in Modules : Rest(m) \in {"cpu", "gpu"}
  BY DEF Rest, Home
<1>2. device' \in [Modules -> [Ranks -> {"cpu", "gpu"}]]
  BY <1>1 DEF InitModel
<1>3. setting.preloaded \in BOOLEAN /\ LoadsModel \in BOOLEAN /\ StaysAwake \in BOOLEAN
  BY Shape DEF LoadsModel, StaysAwake
<1> QED
  BY <1>2, <1>3 DEF InitModel

(***************************************************************************)
(* Modules on their devices.                                               *)
(***************************************************************************)

\* A step leaves the modules of another rank alone.
LEMMA ModuleElsewhere ==
    ASSUME ModuleInv, op' = op, setting' = setting, NEW q \in Ranks, pc'[q] = pc[q],
           \A m \in Modules : device'[m][q] = device[m][q] /\ opt'[m][q] = opt[m][q]
    PROVE  PhaseAt(q)' /\ \A m \in Modules : DeviceAt(q, m)'
<1>1. PhaseAt(q)'
  BY DEF ModuleInv, PhaseInv, PhaseAt
<1>2. ASSUME NEW m \in Modules PROVE DeviceAt(q, m)'
  BY <1>2 DEF ModuleInv, DeviceInv, DeviceAt, Built, Loaded, OptimizerLoaded, Offloads,
              OffloadsOptimizer, Home, Updating, Adrift
<1> QED
  BY <1>1, <1>2

\* A rank that goes on in its call: what is to be shown of its modules.
LEMMA ModuleHere ==
    ASSUME ModuleInv, Typed', op' = op, setting' = setting, NEW r \in Ranks,
           NEW to \in Locations, pc' = [pc EXCEPT ![r] = to],
           \A m \in Modules, q \in Ranks :
               q # r => device'[m][q] = device[m][q] /\ opt'[m][q] = opt[m][q],
           PhaseAt(r)', \A m \in Modules : DeviceAt(r, m)'
    PROVE  ModuleInv'
<1>1. \A q \in Ranks : q # r => pc'[q] = pc[q]
  BY DEF ModuleInv, Typed
<1>2. ASSUME NEW q \in Ranks, q # r PROVE PhaseAt(q)' /\ \A m \in Modules : DeviceAt(q, m)'
  BY <1>1, <1>2, ModuleElsewhere
<1> QED
  BY <1>2 DEF ModuleInv, PhaseInv, DeviceInv

\* The kinds of calls exclude each other.
LEMMA CallKinds ==
    /\ op \in TrainingCalls =>
          op \in Calls /\ op \notin Generating /\ op \notin {"init", "down", "failed"}
    /\ op \in Generating =>
          op \in Calls /\ op \notin TrainingCalls /\ ~Updating
          /\ op \notin {"init", "down", "failed", "load_actor", "load_critic"}
    /\ Updating => op \in TrainingCalls
  BY CallNames DEF Generating, Updating

LEMMA TrainingModules ==
    ASSUME ModuleInv, NEW r \in Ranks, TrainingStep(r)
    PROVE  ModuleInv'
<1>1. Typed' /\ op' = op /\ setting' = setting /\ op \in TrainingCalls
  <2>1. Typed'
    BY TrainingTyped DEF ModuleInv
  <2> QED
    BY <2>1, CallNames DEF TrainingStep, Onload, Offload, LoadCheckpoint, Computes,
       ComputeLogProb, ComputeRefLogProb, ComputeValues, UpdateActor, UpdateCritic, SaveCheckpoint
<1>2. PICK to \in {"loaded", "used", "done"} : pc' = [pc EXCEPT ![r] = to]
  BY DEF TrainingStep, Onload, Offload, LoadCheckpoint, Computes, Goes,
     ComputeLogProb, ComputeRefLogProb, ComputeValues, UpdateActor, UpdateCritic, SaveCheckpoint
<1>3. pc'[r] = to /\ to \in Locations
  BY <1>2 DEF ModuleInv, Typed, Locations
<1>4. PhaseAt(r)'
  BY <1>1, <1>3, CallKinds DEF PhaseAt
<1>5. Built(r) /\ Built(r)'
  BY <1>1, CallKinds DEF Built
<1>6. ModuleOf(op) \in Modules /\ ModuleOf(op)' = ModuleOf(op)
  BY <1>1, CallNames DEF ModuleOf
<1>7. \A m \in Modules : m # ModuleOf(op) =>
          ~Loaded(m, r) /\ ~OptimizerLoaded(m, r) /\ ~Loaded(m, r)' /\ ~OptimizerLoaded(m, r)'
  BY <1>1, <1>6, CallKinds DEF Loaded, OptimizerLoaded
<1>8. \A m \in Modules : DeviceAt(r, m)
  BY DEF ModuleInv, DeviceInv
<1> USE DEF Offloads, OffloadsOptimizer, Home, Adrift
<1>9. \A m \in Modules, q \in Ranks :
          m # ModuleOf(op) \/ q # r => device'[m][q] = device[m][q] /\ opt'[m][q] = opt[m][q]
  <2>1. CASE \E m \in Modules : Onload(r, m) \/ Offload(r, m) \/ LoadCheckpoint(r, m)
    BY <2>1 DEF Onload, Offload, LoadCheckpoint, Computes, ModuleInv, Typed
  <2>2. CASE UpdateActor(r) \/ UpdateCritic(r)
    BY <2>2, CallNames DEF UpdateActor, UpdateCritic, Computes, ModuleInv, Typed, ModuleOf,
       ActorCalls, CriticCalls
  <2>3. CASE ComputeLogProb(r) \/ ComputeRefLogProb(r) \/ ComputeValues(r)
    BY <2>3 DEF ComputeLogProb, ComputeRefLogProb, ComputeValues, Computes, moduleVars
  <2>4. CASE SaveCheckpoint(r)
    <3>1. opt' = opt
      BY <2>4 DEF SaveCheckpoint
    <3>2. CASE op = "save_actor"
      <4>1. ModuleOf(op) = "actor"
        BY <3>2 DEF ModuleOf, ActorCalls
      <4>2. device' = [device EXCEPT !["actor"][r] =
                          IF setting.lora THEN "gpu" ELSE device["actor"][r]]
        BY <2>4, <3>2 DEF SaveCheckpoint, Computes
      <4>3. device \in [Modules -> [Ranks -> {"cpu", "gpu"}]]
        BY DEF ModuleInv, Typed
      <4> QED
        BY <3>1, <4>1, <4>2, <4>3
    <3>3. CASE op # "save_actor"
      BY <2>4, <3>1, <3>3 DEF SaveCheckpoint, Computes
    <3> QED
      BY <3>2, <3>3
  <2> QED
    BY <2>1, <2>2, <2>3, <2>4 DEF TrainingStep
<1>10. \A m \in Modules : m # ModuleOf(op) => DeviceAt(r, m)'
  BY <1>1, <1>5, <1>7, <1>8, <1>9 DEF DeviceAt
<1> DEFINE own == ModuleOf(op)
<1>11. DeviceAt(r, own)'
  <2>a. device[own] \in [Ranks -> {"cpu", "gpu"}] /\ opt[own] \in [Ranks -> {"none", "cpu", "gpu"}]
        /\ own \in DOMAIN device /\ own \in DOMAIN opt /\ r \in DOMAIN pc
    BY <1>6 DEF ModuleInv, Typed
  <2>b. /\ Loaded(own, r) <=> pc[r] \in {"loaded", "used"}
        /\ Loaded(own, r)' <=> to \in {"loaded", "used"}
    BY <1>1, <1>3, <1>6, CallKinds DEF Loaded
  <2>c. /\ OptimizerLoaded(own, r) <=>
               \/ Updating /\ pc[r] \in {"loaded", "used"}
               \/ op \in {"load_actor", "load_critic"} /\ pc[r] = "used"
        /\ OptimizerLoaded(own, r)' <=>
               \/ Updating /\ to \in {"loaded", "used"}
               \/ op \in {"load_actor", "load_critic"} /\ to = "used"
    BY <1>1, <1>3, <1>6 DEF OptimizerLoaded, Updating
  <2>d. DeviceAt(r, own)
    BY <1>6, <1>8
  <2>1. CASE Onload(r, own)
    <3>1. pc[r] = "todo" /\ to = "loaded"
      BY <1>3, <2>a, <2>1 DEF Onload, Goes
    <3>2. /\ device'[own][r] = IF Offloads(own) THEN "gpu" ELSE device[own][r]
          /\ opt'[own][r] = IF Updating /\ OffloadsOptimizer(own) /\ opt[own][r] # "none"
                            THEN "gpu" ELSE opt[own][r]
      BY <2>a, <2>1 DEF Onload, NeedsOptimizer
    <3> QED
      BY <1>1, <1>5, <2>b, <2>c, <2>d, <3>1, <3>2 DEF DeviceAt, Updating
  <2>2. CASE Offload(r, own)
    <3>1. pc[r] = "used" /\ to = "done"
      BY <1>3, <2>a, <2>2 DEF Offload, Goes
    <3>2. /\ device'[own][r] = IF Offloads(own) THEN "cpu" ELSE device[own][r]
          /\ opt'[own][r] = IF /\ Updating \/ op \in {"load_actor", "load_critic"}
                               /\ OffloadsOptimizer(own) /\ opt[own][r] # "none"
                            THEN "cpu" ELSE opt[own][r]
      BY <2>a, <2>2 DEF Offload, OffloadsAfter
    <3> QED
      BY <1>1, <1>5, <2>b, <2>c, <2>d, <3>1, <3>2 DEF DeviceAt
  <2>3. CASE LoadCheckpoint(r, own)
    <3>1. pc[r] = "loaded" /\ to = "used" /\ op \in {"load_actor", "load_critic"}
      BY <1>3, <2>a, <2>3 DEF LoadCheckpoint, Computes, Goes
    <3>2. device' = device /\ opt'[own][r] = device[own][r]
      BY <2>a, <2>3 DEF LoadCheckpoint, Computes
    <3> QED
      BY <1>1, <1>5, <2>b, <2>c, <2>d, <3>1, <3>2 DEF DeviceAt
  <2>4. CASE UpdateActor(r) \/ UpdateCritic(r)
    <3>1. pc[r] = "loaded" /\ to = "used" /\ Updating
      BY <1>3, <2>a, <2>4 DEF UpdateActor, UpdateCritic, Computes, Goes, Updating
    <3>2. device' = device /\ opt'[own][r] = Stepped(own, r)
      BY <2>a, <2>4 DEF UpdateActor, UpdateCritic, Computes, ModuleOf, ActorCalls
    <3> QED
      BY <1>1, <1>5, <2>b, <2>c, <2>d, <3>1, <3>2 DEF DeviceAt, Stepped
  <2>5. CASE ComputeLogProb(r) \/ ComputeRefLogProb(r) \/ ComputeValues(r) \/ SaveCheckpoint(r)
    <3>1. /\ pc[r] = "loaded" /\ to = "used"
          /\ ~Updating /\ op \notin {"load_actor", "load_critic"}
      BY <1>3, <2>a, <2>5 DEF ComputeLogProb, ComputeRefLogProb, ComputeValues, SaveCheckpoint,
         Computes, Goes, Updating
    <3>2. opt' = opt
      BY <2>5 DEF ComputeLogProb, ComputeRefLogProb, ComputeValues, SaveCheckpoint, moduleVars
    <3>3. \/ device'[own][r] = device[own][r]
          \/ setting.lora /\ device'[own][r] = "gpu"
      <4>1. CASE SaveCheckpoint(r) /\ op = "save_actor"
        <5>1. own = "actor"
          BY <4>1 DEF ModuleOf, ActorCalls
        <5>2. device' = [device EXCEPT !["actor"][r] =
                            IF setting.lora THEN "gpu" ELSE device["actor"][r]]
          BY <4>1 DEF SaveCheckpoint, Computes
        <5> QED
          BY <2>a, <5>1, <5>2
      <4>2. CASE ~(SaveCheckpoint(r) /\ op = "save_actor")
        BY <2>5, <4>2
           DEF ComputeLogProb, ComputeRefLogProb, ComputeValues, SaveCheckpoint, Computes, moduleVars
      <4> QED
        BY <4>1, <4>2
    <3> QED
      BY <1>1, <1>5, <2>b, <2>c, <2>d, <3>1, <3>2, <3>3 DEF DeviceAt
  <2> QED
    BY <2>1, <2>2, <2>3, <2>4, <2>5 DEF TrainingStep, Onload, Offload, LoadCheckpoint
<1> QED
  BY <1>1, <1>2, <1>3, <1>4, <1>9, <1>10, <1>11, ModuleHere

LEMMA GenerationModules ==
    ASSUME ModuleInv, NEW r \in Ranks, GenerationStep(r), op' = op
    PROVE  ModuleInv'
<1>1. Typed' /\ setting' = setting /\ op \in Generating
  <2>1. Typed'
    BY GenerationTyped DEF ModuleInv
  <2> QED
    BY <2>1 DEF GenerationStep, WakeUp, LayeredRaises, Sync, Free, Enter, Generate, Exit
<1>2. ~LayeredRaises(r)
  BY <1>1, CallKinds DEF LayeredRaises, Down
<1>3. PICK to \in {"loaded", "skipped", "synced", "freed", "entered", "generated", "done"} :
          pc' = [pc EXCEPT ![r] = to]
  BY <1>2 DEF GenerationStep, WakeUp, Sync, Free, Enter, Generate, Exit, Goes
<1>4. pc'[r] = to /\ to \in Locations
  BY <1>3 DEF ModuleInv, Typed, Locations
<1>5. PhaseAt(r)'
  BY <1>1, <1>4, CallKinds DEF PhaseAt
<1>6. Built(r) /\ Built(r)' /\ opt' = opt
  BY <1>1, <1>2, CallKinds
     DEF Built, GenerationStep, WakeUp, Sync, Free, Enter, Generate, Exit, moduleVars
<1>7. \A m \in Modules :
          /\ DeviceAt(r, m) /\ ~OptimizerLoaded(m, r) /\ ~OptimizerLoaded(m, r)'
          /\ Loaded(m, r) <=> m = "actor" /\ pc[r] \in {"loaded", "synced"}
          /\ Loaded(m, r)' <=> m = "actor" /\ to \in {"loaded", "synced"}
  BY <1>1, <1>4, CallKinds DEF ModuleInv, DeviceInv, OptimizerLoaded, Loaded, Updating
<1>8. device \in [Modules -> [Ranks -> {"cpu", "gpu"}]] /\ "actor" \in Modules /\ r \in DOMAIN pc
  BY Shape DEF ModuleInv, Typed
<1>9. /\ \A m \in Modules, q \in Ranks :
            m # "actor" \/ q # r => device'[m][q] = device[m][q]
      /\ device'["actor"][r] =
            IF ~Offloads("actor") THEN device["actor"][r]
            ELSE IF to = "loaded" THEN "gpu"
            ELSE IF to = "freed" THEN "cpu" ELSE device["actor"][r]
      /\ pc[r] \in {"loaded", "synced"} <=> to \in {"synced", "freed"}
  <2>1. CASE WakeUp(r)
    BY <1>4, <1>8, <2>1 DEF WakeUp
  <2>2. CASE Sync(r)
    BY <1>4, <1>8, <2>2 DEF Sync, Goes, moduleVars
  <2>3. CASE Free(r)
    BY <1>4, <1>8, <2>3 DEF Free, Goes
  <2>4. CASE Enter(r) \/ Generate(r) \/ Exit(r)
    BY <1>4, <1>8, <2>4 DEF Enter, Generate, Exit, Goes, moduleVars
  <2> QED
    BY <1>2, <2>1, <2>2, <2>3, <2>4 DEF GenerationStep
<1>10. ASSUME NEW m \in Modules PROVE DeviceAt(r, m)'
  BY <1>1, <1>6, <1>7, <1>9 DEF DeviceAt, Offloads, OffloadsOptimizer, Home, Adrift
<1> QED
  BY <1>1, <1>3, <1>4, <1>5, <1>6, <1>9, <1>10, ModuleHere

LEMMA InitModelModules ==
    ASSUME ModuleInv, NEW r \in Ranks, InitModel(r)
    PROVE  ModuleInv'
<1>1. Typed' /\ setting' = setting /\ op = "init" /\ op' = op
  BY InitModelTyped DEF ModuleInv, InitModel
<1>2. pc' = [pc EXCEPT ![r] = "done"] /\ pc[r] = "todo" /\ "done" \in Locations
  BY DEF InitModel, Goes, Locations
<1>3. pc'[r] = "done"
  BY <1>2 DEF ModuleInv, Typed
<1>4. PhaseAt(r)'
  BY <1>1, <1>3, CallKinds DEF PhaseAt
<1>5. \A m \in Modules, q \in Ranks :
          device'[m][q] = (IF q = r THEN Rest(m) ELSE device[m][q]) /\ opt'[m][q] = opt[m][q]
  BY DEF InitModel, ModuleInv, Typed
<1>6. ~Built(r) /\ Built(r)' /\ \A m \in Modules : ~Loaded(m, r)' /\ opt[m][r] = "none"
  BY <1>1, <1>2, <1>3, CallKinds, CallNames DEF Built, Loaded, ModuleInv, DeviceInv, DeviceAt
<1>7. ASSUME NEW m \in Modules PROVE DeviceAt(r, m)'
  BY <1>1, <1>5, <1>6 DEF DeviceAt, Rest, Offloads, Home, Adrift
<1> QED
  BY <1>1, <1>2, <1>4, <1>5, <1>7, ModuleHere

\* The driver makes a call when the one before is over, or submits the job.
LEMMA DriverModules ==
    ASSUME ModuleInv, Submit \/ \E next \in Calls : Call(next)
    PROVE  ModuleInv'
<1> USE DEF Offloads, OffloadsOptimizer, Home, Adrift
<1>1. CASE Submit
  <2>1. Typed'
    BY <1>1, CallNames DEF Submit, ModuleInv, Typed, Locations, moduleVars, managerVars
  <2>2. PhaseInv'
    BY <1>1, CallKinds DEF Submit, PhaseInv, PhaseAt, Generating, TrainingCalls,
       ActorCalls, CriticCalls
  <2>3. /\ op \notin Calls /\ op' = "init" /\ pc' = [r \in Ranks |-> "todo"]
        /\ device' = device /\ opt' = opt /\ setting' = setting
    BY <1>1, CallNames DEF Submit, moduleVars
  <2>4. ASSUME NEW r \in Ranks, NEW m \in Modules PROVE DeviceAt(r, m)'
    <3>1. ~Built(r) /\ ~Built(r)'
      BY <2>3, CallNames DEF Built
    <3> QED
      BY <2>3, <3>1 DEF ModuleInv, DeviceInv, DeviceAt
  <2> QED
    BY <2>1, <2>2, <2>4 DEF ModuleInv, DeviceInv
<1>2. ASSUME NEW next \in Calls, Call(next) PROVE ModuleInv'
  <2>1. /\ op \in Calls /\ op' = next /\ next \in Calls \ {"init"}
        /\ pc' = [r \in Ranks |-> IF Called(r, next) THEN "todo" ELSE "uncalled"]
        /\ next \notin Generating => \A r \in Ranks : Called(r, next)
        /\ device' = device /\ opt' = opt /\ setting' = setting
        /\ \A r \in Ranks : pc[r] \in {"done", "uncalled"}
    BY <1>2, FollowsCalls DEF Call, Called, moduleVars, AllDone
  <2>2. Typed'
    <3>1. pc' \in [Ranks -> Locations]
      BY <2>1 DEF Locations
    <3>2. saved'.version \in Nat
      BY <1>2, Shape DEF Call, ModuleInv, Typed
    <3> QED
      BY <1>2, <3>1, <3>2 DEF Call, ModuleInv, Typed, moduleVars, managerVars
  <2>3. PhaseInv'
    <3>1. next \notin {"init", "down", "failed"} /\ (next \in TrainingCalls => next \notin Generating)
      BY <2>1, CallNames DEF Generating
    <3> SUFFICES ASSUME NEW r \in Ranks PROVE PhaseAt(r)'
      BY DEF PhaseInv
    <3>2. pc'[r] \in {"todo", "uncalled"} /\ (next \notin Generating => pc'[r] = "todo")
      BY <2>1
    <3> QED
      BY <2>1, <3>1, <3>2 DEF PhaseAt
  <2>4. ASSUME NEW r \in Ranks, NEW m \in Modules PROVE DeviceAt(r, m)'
    <3>1. /\ Built(r) /\ Built(r)' /\ ~Loaded(m, r) /\ ~Loaded(m, r)'
          /\ ~OptimizerLoaded(m, r) /\ ~OptimizerLoaded(m, r)'
      BY <2>1 DEF Built, Loaded, OptimizerLoaded
    <3> QED
      BY <2>1, <3>1 DEF ModuleInv, DeviceInv, DeviceAt
  <2> QED
    BY <2>2, <2>3, <2>4 DEF ModuleInv, DeviceInv
<1> QED
  BY <1>1, <1>2

LEMMA ModuleStep == ModuleInv /\ [Next]_vars => ModuleInv'
<1> SUFFICES ASSUME ModuleInv, [Next]_vars PROVE ModuleInv'
  OBVIOUS
<1>1. CASE Submit \/ \E next \in Calls : Call(next)
  BY <1>1, DriverModules
<1>2. CASE Crash
  BY <1>2, DownInv DEF Crash, IndInv
<1>3. ASSUME NEW r \in Ranks, LayeredRaises(r) PROVE ModuleInv'
  BY <1>3, DownInv DEF LayeredRaises, IndInv
<1>4. ASSUME NEW r \in Ranks, GenerationStep(r), ~LayeredRaises(r) PROVE ModuleInv'
  <2>1. op' = op
    BY <1>4 DEF GenerationStep, WakeUp, Sync, Free, Enter, Generate, Exit
  <2> QED
    BY <1>4, <2>1, GenerationModules
<1>5. CASE UNCHANGED vars
  BY <1>5 DEF vars, moduleVars, managerVars, ModuleInv, Typed, PhaseInv, PhaseAt, DeviceInv,
     DeviceAt, Built, Loaded, OptimizerLoaded, Offloads, OffloadsOptimizer, Home, Updating, Adrift
<1> QED
  BY <1>1, <1>2, <1>3, <1>4, <1>5, TrainingModules, InitModelModules DEF Next, RankStep

\* No configuration trains LoRA adapters with FSDP2's offload_policy, under which
\* saving a checkpoint moves the actor to the GPU and leaves it there.
NoLoraUnderPolicy == \A s \in Settings : ~(s.lora /\ s.cpuPolicy)

\* Whatever is offloaded and wherever the job crashes, a module is computed
\* with where its parameters must be, its optimizer's state beside them, in
\* every configuration without both LoRA and offload_policy.
THEOREM AlwaysOnDevice ==
    ASSUME NoLoraUnderPolicy PROVE Spec => []OnDevice
<1>1. Init => ModuleInv
  BY InitInv DEF IndInv
<1>2. ModuleInv => OnDevice
  <2> SUFFICES ASSUME ModuleInv, NEW r \in Ranks, NEW m \in Modules,
                      op \in TrainingCalls, m = ModuleOf(op), pc[r] = "loaded"
               PROVE  device[m][r] = Home /\ (Updating => opt[m][r] \in {"none", Home})
    BY DEF OnDevice
  <2>1. Built(r) /\ Loaded(m, r) /\ (Updating => OptimizerLoaded(m, r)) /\ DeviceAt(r, m)
    BY CallKinds DEF Built, Loaded, OptimizerLoaded, ModuleInv, DeviceInv
  <2>2. ~Adrift
    BY DEF NoLoraUnderPolicy, Adrift, ModuleInv, Typed
  <2> QED
    BY <2>1, <2>2 DEF DeviceAt
<1> QED
  BY <1>1, <1>2, ModuleStep, PTL DEF Spec

(***************************************************************************)
(* The engine and its weights.                                             *)
(***************************************************************************)

\* A step leaves the engine of another rank alone.
LEMMA EngineElsewhere ==
    ASSUME IndInv, op' = op, setting' = setting, NEW q \in Ranks, pc'[q] = pc[q],
           memory'[q] = memory[q], isSleep'[q] = isSleep[q], base'[q] = base[q],
           adapter'[q] = adapter[q], baseSync'[q] = baseSync[q], version'[q] = version[q]
    PROVE  EngineAt(q)' /\ WeightAt(q)'
<1>1. EngineAt(q) /\ WeightAt(q) /\ (Built(q)' <=> Built(q))
  BY DEF IndInv, EngineInv, WeightInv, Built
<1>2. Effective(q)' = Effective(q)
  BY DEF Effective
<1> QED
  BY <1>1, <1>2 DEF EngineAt, WeightAt, Unused, TwoStage

\* A rank that goes on in its call: what is to be shown of its engine.
LEMMA EngineHere ==
    ASSUME IndInv, op' = op, setting' = setting, NEW r \in Ranks,
           \A q \in Ranks : q # r =>
               /\ pc'[q] = pc[q] /\ memory'[q] = memory[q] /\ isSleep'[q] = isSleep[q]
               /\ base'[q] = base[q] /\ adapter'[q] = adapter[q]
               /\ baseSync'[q] = baseSync[q] /\ version'[q] = version[q],
           EngineAt(r)', WeightAt(r)'
    PROVE  EngineInv' /\ WeightInv'
<1>1. ASSUME NEW q \in Ranks, q # r PROVE EngineAt(q)' /\ WeightAt(q)'
  BY <1>1, EngineElsewhere
<1> QED
  BY <1>1 DEF EngineInv, WeightInv

\* No rank finds the engine awake.
LEMMA NotAwake ==
    ASSUME IndInv, NEW r \in Ranks, op \in Generating, pc[r] = "todo"
    PROVE  ~AlreadyAwake(r)
  BY CallKinds DEF IndInv, EngineInv, EngineAt, Built, AlreadyAwake

LEMMA TrainingEngine ==
    ASSUME IndInv, NEW r \in Ranks, TrainingStep(r)
    PROVE  EngineInv' /\ WeightInv'
<1>1. /\ op' = op /\ setting' = setting /\ op \in TrainingCalls
      /\ memory' = memory /\ isSleep' = isSleep /\ base' = base /\ adapter' = adapter
      /\ baseSync' = baseSync
  BY CallNames DEF TrainingStep, Onload, Offload, LoadCheckpoint, Computes, managerVars,
     ComputeLogProb, ComputeRefLogProb, ComputeValues, UpdateActor, UpdateCritic, SaveCheckpoint
<1>2. PICK to \in {"loaded", "used", "done"} : pc' = [pc EXCEPT ![r] = to]
  BY DEF TrainingStep, Onload, Offload, LoadCheckpoint, Computes, Goes,
     ComputeLogProb, ComputeRefLogProb, ComputeValues, UpdateActor, UpdateCritic, SaveCheckpoint
<1>3. pc'[r] = to /\ \A q \in Ranks : q # r => pc'[q] = pc[q]
  BY <1>2 DEF IndInv, ModuleInv, Typed
<1>4. \A q \in Ranks : q # r => version'[q] = version[q]
  BY DEF TrainingStep, Onload, Offload, LoadCheckpoint, Computes, IndInv, ModuleInv, Typed,
     ComputeLogProb, ComputeRefLogProb, ComputeValues, UpdateActor, UpdateCritic, SaveCheckpoint,
     moduleVars
<1>5. Built(r) /\ Built(r)' /\ pc[r] \in {"todo", "loaded", "used", "done"}
  BY <1>1, CallKinds DEF Built, IndInv, ModuleInv, PhaseInv, PhaseAt
<1>6. EngineAt(r) /\ WeightAt(r)
  BY DEF IndInv, EngineInv, WeightInv
<1>7. EngineAt(r)' /\ WeightAt(r)'
  BY <1>1, <1>3, <1>5, <1>6, CallKinds DEF EngineAt, WeightAt, InEngine, Unused, TwoStage
<1> QED
  BY <1>1, <1>3, <1>4, <1>7, EngineHere

LEMMA InitModelEngine ==
    ASSUME SoundSettings, IndInv, NEW r \in Ranks, InitModel(r)
    PROVE  EngineInv' /\ WeightInv'
<1>1. /\ op' = op /\ setting' = setting /\ op = "init" /\ ~StaysAwake
      /\ setting.preloaded \in BOOLEAN
  BY Shape DEF InitModel, StaysAwake, SoundSettings, IndInv, ModuleInv, Typed
<1>2. /\ pc'[r] = "done" /\ isSleep'[r] = TRUE
      /\ memory'[r] = "asleep" \/ setting.engine = "sglang"
      /\ base'[r] = IF setting.preloaded THEN 0 ELSE -1
      /\ baseSync'[r] = setting.preloaded
  BY <1>1 DEF InitModel, Goes, LoadsModel, KeepsMemory, IndInv, ModuleInv, Typed
<1>3. \A q \in Ranks : q # r =>
          /\ pc'[q] = pc[q] /\ memory'[q] = memory[q] /\ isSleep'[q] = isSleep[q]
          /\ base'[q] = base[q] /\ adapter'[q] = adapter[q]
          /\ baseSync'[q] = baseSync[q] /\ version'[q] = version[q]
  BY DEF InitModel, Goes, IndInv, ModuleInv, Typed
<1>4. EngineAt(r)' /\ WeightAt(r)'
  BY <1>1, <1>2 DEF EngineAt, WeightAt, InEngine, Unused
<1> QED
  BY <1>1, <1>3, <1>4, EngineHere

\* A call that some rank was not called for is never over.
LEMMA AllDoneCalled ==
    ASSUME IndInv, AllDone, NEW r \in Ranks
    PROVE  pc[r] = "done"
  BY Shape DEF IndInv, HangInv, AllDone

\* A rank that is not in generation yet has not used the engine.
LEMMA DriverUnused ==
    ASSUME NEW next \in Follows(op), NEW r \in Ranks, pc[r] = "done", Unused(r),
           op' = next, pc'[r] \in {"todo", "uncalled"}
    PROVE  Unused(r)'
<1>1. op \in {"init", "load_actor", "load_critic"}
  BY DEF Unused
<1>2. next \in {"load_actor", "load_critic"} \cup Generating
  BY <1>1 DEF Follows
<1> QED
  BY <1>2 DEF Unused

LEMMA DriverEngine ==
    ASSUME IndInv, Submit \/ \E next \in Calls : Call(next)
    PROVE  EngineInv' /\ WeightInv'
<1>1. UNCHANGED <<setting, version, memory, base, adapter, baseSync, isSleep>>
  BY DEF Submit, Call, moduleVars, managerVars
<1>2. ASSUME NEW r \in Ranks
      PROVE  /\ pc[r] = "done" /\ pc'[r] \in {"todo", "uncalled"}
             /\ Built(r)' => Built(r)
             /\ Unused(r) => Unused(r)'
  <2>1. CASE Submit
    BY <2>1, CallKinds DEF Submit, Built, Unused, IndInv, ModuleInv, PhaseInv, PhaseAt
  <2>2. ASSUME NEW next \in Calls, Call(next)
        PROVE  /\ pc[r] = "done" /\ pc'[r] \in {"todo", "uncalled"}
               /\ Built(r)' => Built(r)
               /\ Unused(r) => Unused(r)'
    <3>1. pc[r] = "done" /\ pc'[r] \in {"todo", "uncalled"} /\ op' = next /\ next \in Follows(op)
      BY <2>2, AllDoneCalled DEF Call
    <3> QED
      BY <2>2, <3>1, DriverUnused DEF Call, Built
  <2> QED
    BY <2>1, <2>2
<1>3. ASSUME NEW r \in Ranks PROVE EngineAt(r)' /\ WeightAt(r)'
  <2>1. EngineAt(r) /\ WeightAt(r)
    BY DEF IndInv, EngineInv, WeightInv
  <2> QED
    BY <1>1, <1>2, <2>1 DEF EngineAt, WeightAt, InEngine
<1> QED
  BY <1>3 DEF EngineInv, WeightInv

LEMMA GenerationEngine ==
    ASSUME SoundSettings, IndInv, NEW r \in Ranks, GenerationStep(r), ~LayeredRaises(r)
    PROVE  EngineInv' /\ WeightInv'
<1>1. op' = op /\ setting' = setting /\ version' = version /\ op \in Generating
  BY DEF GenerationStep, WakeUp, Sync, Free, Enter, Generate, Exit, moduleVars
<1>2. Built(r) /\ Built(r)' /\ EngineAt(r) /\ WeightAt(r)
  BY <1>1, CallKinds DEF Built, IndInv, EngineInv, WeightInv
<1>3. /\ setting.lora \in BOOLEAN /\ setting.preloaded \in BOOLEAN
      /\ setting.lora => setting.preloaded \/ setting.layered
      /\ setting.engine = "vllm" => ~setting.async
  BY Shape DEF SoundSettings, IndInv, ModuleInv, Typed
<1>4. /\ pc \in [Ranks -> Locations] /\ memory \in [Ranks -> {"asleep", "weights", "all"}]
      /\ base \in [Ranks -> Int] /\ adapter \in [Ranks -> Nat]
      /\ baseSync \in [Ranks -> BOOLEAN] /\ isSleep \in [Ranks -> BOOLEAN]
  BY DEF IndInv, ModuleInv, Typed
<1>5. \A q \in Ranks : q # r =>
          /\ pc'[q] = pc[q] /\ memory'[q] = memory[q] /\ isSleep'[q] = isSleep[q]
          /\ base'[q] = base[q] /\ adapter'[q] = adapter[q]
          /\ baseSync'[q] = baseSync[q] /\ version'[q] = version[q]
  <2>1. CASE Sync(r)
    BY <1>4, <2>1 DEF Sync, Goes, moduleVars
  <2>2. CASE ~Sync(r)
    BY <1>4, <2>2 DEF GenerationStep, WakeUp, Free, Enter, Generate, Exit, Goes, moduleVars,
       managerVars
  <2> QED
    BY <2>1, <2>2
<1>6. EngineAt(r)' /\ WeightAt(r)'
  <2>1. CASE WakeUp(r)
    <3>1. pc[r] = "todo" /\ pc'[r] = "loaded" /\ UNCHANGED managerVars
      BY <1>1, <1>4, <2>1, NotAwake DEF WakeUp
    <3> QED
      BY <1>1, <1>2, <3>1 DEF EngineAt, WeightAt, InEngine, Unused, managerVars
  <2>2. CASE Sync(r)
    <3>1. /\ pc[r] = "loaded" /\ pc'[r] = "synced" /\ isSleep' = isSleep
          /\ TwoStage => memory'[r] = "weights"
      BY <1>4, <2>2 DEF Sync, Goes, EngineOf, TwoStage
    <3>2. EngineAt(r)'
      BY <1>1, <1>2, <3>1 DEF EngineAt, InEngine, TwoStage
    <3>3. CASE setting.lora
      <4>1. setting.preloaded /\ baseSync[r]
        BY <1>2, <1>3, <2>2, <3>3 DEF WeightAt, Sync
      <4>2. adapter'[r] = version[r] /\ base' = base /\ baseSync' = baseSync
        BY <1>4, <2>2, <3>3, <4>1 DEF Sync, AdapterOnly
      <4> QED
        BY <1>1, <1>2, <3>2, <3>3, <4>1, <4>2 DEF WeightAt, Effective
    <3>4. CASE ~setting.lora
      <4>1. base'[r] = version[r]
        BY <1>4, <2>2, <3>4 DEF Sync, AdapterOnly, NewBase
      <4> QED
        BY <1>1, <1>2, <3>2, <3>4, <4>1 DEF WeightAt, Effective
    <3> QED
      BY <1>3, <3>3, <3>4
  <2>3. CASE Free(r)
    <3>1. pc[r] = "synced" /\ pc'[r] = "freed" /\ UNCHANGED managerVars
      BY <1>4, <2>3 DEF Free, Goes
    <3>2. Effective(r)' = Effective(r)
      BY <1>1, <3>1 DEF Effective, managerVars
    <3> QED
      BY <1>1, <1>2, <3>1, <3>2 DEF EngineAt, WeightAt, InEngine, managerVars
  <2>4. CASE Enter(r)
    <3>1. /\ pc[r] = "freed" /\ pc'[r] = "entered" /\ isSleep'[r] = FALSE
          /\ UNCHANGED <<base, adapter, baseSync>>
      BY <1>4, <2>4 DEF Enter, Goes
    <3>2. Effective(r)' = Effective(r)
      BY <1>1, <3>1 DEF Effective
    <3> QED
      BY <1>1, <1>2, <3>1, <3>2 DEF EngineAt, WeightAt, InEngine
  <2>5. CASE Generate(r)
    <3>1. /\ pc[r] = "entered" /\ pc'[r] = "generated"
          /\ UNCHANGED <<memory, isSleep, base, adapter, baseSync>>
      BY <1>2, <1>4, <2>5 DEF Generate, Goes, EngineAt
    <3> QED
      BY <1>1, <1>2, <3>1 DEF EngineAt, WeightAt, InEngine
  <2>6. CASE Exit(r)
    <3>1. /\ pc[r] = "generated" /\ pc'[r] = "done" /\ isSleep'[r] = TRUE
          /\ memory'[r] = "asleep" /\ UNCHANGED <<base, adapter, baseSync>>
      BY <1>4, <2>6 DEF Exit, Goes, SleepsNow
    <3> QED
      BY <1>1, <1>2, <3>1 DEF EngineAt, WeightAt, InEngine
  <2> QED
    BY <2>1, <2>2, <2>3, <2>4, <2>5, <2>6 DEF GenerationStep
<1> QED
  BY <1>1, <1>5, <1>6, EngineHere

\* A step of a rank in its call that some rank was not called for.
LEMMA HangHere ==
    ASSUME IndInv, NEW r \in Ranks, NEW to \in Locations \ {"uncalled"},
           pc' = [pc EXCEPT ![r] = to],
           r = 0 /\ (\E q \in Ranks : pc[q] = "uncalled") => to = "loaded"
    PROVE  HangInv'
<1>1. pc \in [Ranks -> Locations]
  BY DEF IndInv, ModuleInv, Typed
<1>2. \A q \in Ranks : pc'[q] = "uncalled" => pc[q] = "uncalled"
  BY <1>1
<1>3. pc'[0] = IF r = 0 THEN to ELSE pc[0]
  BY <1>1, Shape
<1> QED
  BY <1>2, <1>3 DEF IndInv, HangInv

LEMMA HangStep ==
    ASSUME SoundSettings, IndInv, Next, ~Crash, \A r \in Ranks : ~LayeredRaises(r)
    PROVE  HangInv'
<1>1. CASE Submit
  BY <1>1, Shape DEF Submit, HangInv
<1>2. ASSUME NEW next \in Calls, Call(next) PROVE HangInv'
  <2>1. Called(0, next)
    BY FirstCalled DEF IndInv, ModuleInv, Typed
  <2>2. pc'[0] = "todo"
    BY <1>2, <2>1, Shape DEF Call
  <2> QED
    BY <2>2 DEF HangInv
<1>3. ASSUME NEW r \in Ranks, InitModel(r) PROVE HangInv'
  <2>1. pc' = [pc EXCEPT ![r] = "done"] /\ \A q \in Ranks : pc[q] # "uncalled"
    BY <1>3 DEF InitModel, Goes, IndInv, ModuleInv, PhaseInv, PhaseAt
  <2> QED
    BY <2>1, HangHere DEF Locations
<1>4. ASSUME NEW r \in Ranks, TrainingStep(r) PROVE HangInv'
  <2>1. op \in TrainingCalls /\ \E to \in {"loaded", "used", "done"} : pc' = [pc EXCEPT ![r] = to]
    BY <1>4, CallNames DEF TrainingStep, Onload, Offload, LoadCheckpoint, Computes, Goes,
       ComputeLogProb, ComputeRefLogProb, ComputeValues, UpdateActor, UpdateCritic, SaveCheckpoint
  <2>2. \A q \in Ranks : pc[q] # "uncalled"
    BY <2>1 DEF IndInv, ModuleInv, PhaseInv, PhaseAt
  <2> QED
    BY <2>1, <2>2, HangHere DEF Locations
<1>5. ASSUME NEW r \in Ranks, GenerationStep(r) PROVE HangInv'
  <2>1. CASE WakeUp(r)
    <3>1. pc' = [pc EXCEPT ![r] = "loaded"]
      BY <2>1, NotAwake DEF WakeUp
    <3> QED
      BY <3>1, HangHere DEF Locations
  <2>2. CASE Sync(r)
    <3>1. pc' = [pc EXCEPT ![r] = "synced"] /\ \A q \in Ranks : pc[q] # "uncalled"
      BY <2>2 DEF Sync, Goes, Arrived
    <3> QED
      BY <3>1, HangHere DEF Locations
  <2>3. CASE Free(r) \/ Enter(r) \/ Generate(r) \/ Exit(r)
    <3>1. /\ pc[r] \notin {"todo", "loaded"}
          /\ \E to \in {"freed", "entered", "generated", "done"} : pc' = [pc EXCEPT ![r] = to]
      BY <2>3 DEF Free, Enter, Generate, Exit, Goes
    <3>2. ~(r = 0 /\ \E q \in Ranks : pc[q] = "uncalled")
      BY <3>1 DEF IndInv, HangInv
    <3> QED
      BY <3>1, <3>2, HangHere DEF Locations
  <2> QED
    BY <1>5, <2>1, <2>2, <2>3 DEF GenerationStep
<1> QED
  BY <1>1, <1>2, <1>3, <1>4, <1>5 DEF Next, RankStep

LEMMA IndStep == SoundSettings /\ IndInv /\ [Next]_vars => IndInv'
<1> SUFFICES ASSUME SoundSettings, IndInv, [Next]_vars PROVE IndInv'
  OBVIOUS
<1>1. ModuleInv'
  BY ModuleStep DEF IndInv
<1>2. CASE Crash \/ \E r \in Ranks : LayeredRaises(r)
  BY <1>2, DownInv DEF Crash, LayeredRaises, IndInv
<1>3. CASE UNCHANGED vars
  <2>1. ASSUME NEW r \in Ranks PROVE EngineAt(r)' /\ WeightAt(r)'
    BY <1>3, EngineElsewhere DEF vars, moduleVars, managerVars
  <2>2. HangInv'
    BY <1>3 DEF vars, IndInv, HangInv
  <2> QED
    BY <1>1, <2>1, <2>2 DEF IndInv, EngineInv, WeightInv
<1>4. CASE Next /\ ~Crash /\ \A r \in Ranks : ~LayeredRaises(r)
  <2>1. HangInv'
    BY <1>4, HangStep
  <2>2. EngineInv' /\ WeightInv'
    BY <1>4, GenerationEngine, TrainingEngine, InitModelEngine, DriverEngine DEF Next, RankStep
  <2> QED
    BY <1>1, <2>1, <2>2 DEF IndInv
<1> QED
  BY <1>2, <1>3, <1>4

\* In every sound configuration each response is generated with the weights the
\* actor has at that moment, in the first generation after a resumption too.
THEOREM AlwaysEngineCurrent ==
    ASSUME SoundSettings PROVE Spec => []EngineCurrent
<1>1. IndInv => EngineCurrent
  BY DEF IndInv, EngineInv, EngineAt, WeightInv, WeightAt, EngineCurrent
<1> QED
  BY <1>1, InitInv, IndStep, PTL DEF Spec

\* In every sound configuration the tenants of a GPU take turns: the engine
\* sleeps during training (SGLang's from its first use on, so not while a
\* checkpoint is loaded), and what may be offloaded is on the GPU only while it
\* is used.
THEOREM AlwaysOneTenant ==
    ASSUME SoundSettings PROVE Spec => []OneTenant
<1>1. IndInv => OneTenant
  <2> SUFFICES ASSUME IndInv, NEW r \in Ranks
               PROVE  /\ op \in TrainingCalls =>
                            \/ memory[r] = "asleep"
                            \/ setting.engine = "sglang" /\ op \in {"load_actor", "load_critic"}
                      /\ \A m \in Modules :
                            Offloads(m) /\ device[m][r] = "gpu" =>
                              \/ op \in TrainingCalls /\ m = ModuleOf(op)
                                 /\ pc[r] \in {"loaded", "used"}
                              \/ /\ op \in Generating /\ m = "actor"
                                 /\ pc[r] \in {"loaded", "synced"}
                                 /\ TwoStage => memory[r] # "all"
                      /\ \A m \in Modules :
                            OffloadsOptimizer(m) /\ pc[r] = "done" => opt[m][r] # "gpu"
    BY DEF OneTenant
  <2>1. EngineAt(r) /\ PhaseAt(r) /\ \A m \in Modules : DeviceAt(r, m)
    BY DEF IndInv, ModuleInv, EngineInv, PhaseInv, DeviceInv
  <2>2. op \in TrainingCalls =>
            \/ memory[r] = "asleep"
            \/ setting.engine = "sglang" /\ op \in {"load_actor", "load_critic"}
    BY <2>1, CallKinds DEF PhaseAt, EngineAt, InEngine, Unused
  <2>3. ASSUME NEW m \in Modules, Offloads(m), device[m][r] = "gpu"
        PROVE  \/ op \in TrainingCalls /\ m = ModuleOf(op) /\ pc[r] \in {"loaded", "used"}
               \/ /\ op \in Generating /\ m = "actor" /\ pc[r] \in {"loaded", "synced"}
                  /\ TwoStage => memory[r] # "all"
    <3>1. Loaded(m, r)
      BY <2>1, <2>3, CallKinds DEF DeviceAt, Offloads, Adrift
    <3> QED
      BY <2>1, <3>1 DEF Loaded, EngineAt, InEngine, TwoStage
  <2>4. ASSUME NEW m \in Modules, OffloadsOptimizer(m), pc[r] = "done" PROVE opt[m][r] # "gpu"
    BY <2>1, <2>4 DEF DeviceAt, OptimizerLoaded, OffloadsOptimizer, Adrift
  <2> QED
    BY <2>2, <2>3, <2>4
<1> QED
  BY <1>1, InitInv, IndStep, PTL DEF Spec


(***************************************************************************)
(* The random numbers, for every number of ranks, updates and submissions: *)
(* how many draws each stream has seen is a function of the version of the *)
(* weights and of the place in the step.                                   *)
(***************************************************************************)


\* A rank samples while it is between Enter and Exit; then the state of
\* training is put away, and otherwise that of generation is.
Sampling(r) == pc[r] \in {"entered", "generated"}
TrainState(r) == IF Sampling(r) THEN trainRng[r] ELSE rng[r]
GenState(r) == IF Sampling(r) THEN rng[r] ELSE genRng[r]

\* Between the update of the critic and that of the actor.
HalfWay(r) ==
    \/ op = "update_critic" /\ pc[r] \in {"used", "done"}
    \/ op = "update_actor" /\ pc[r] \in {"todo", "loaded"}
Updated(r) == op = "update_actor" /\ pc[r] \in {"used", "done"}
Restored(r) == op = "load_actor" /\ pc[r] \in {"used", "done"}
Sampled(r) == op \in Generating /\ pc[r] \in {"generated", "done"}

\* The calls of a step until the actor has been updated.
StepCalls == {"generate", "log_prob", "ref", "values", "update_critic", "update_actor"}

\* The weights of a rank.
VersionAt(r) ==
    /\ version[r] <= MaxUpdates
    /\ op \in {"init", "down", "failed"} => version[r] = 0
    /\ op = "load_actor" => version[r] = IF Restored(r) THEN saved.version ELSE 0
    /\ op = "load_critic" => version[r] = saved.version
    /\ op \in StepCalls /\ ~Updated(r) => version[r] < MaxUpdates

\* The stream of training: two draws for every update of the actor.
TrainAt(r) ==
    TrainState(r) = Stream("train", r, 2 * version[r] + IF HalfWay(r) THEN 1 ELSE 0)

\* The stream of generation, which its group shares.
Before(r) == GenState(r).draws - IF Sampled(r) THEN 1 ELSE 0
Spare(r) ==
    IF op \in {"generate", "save_actor", "save_critic"} THEN 1
    ELSE IF op \in StepCalls /\ ~Updated(r) THEN 2
    ELSE 0
GenAt(r) ==
    Built(r) =>
        /\ GenState(r) = Stream("gen", DpRank(r), GenState(r).draws)
        /\ Before(r) \in Nat
        /\ Before(r) <= 2 * version[r] + Spare(r)

RankAt(r) == VersionAt(r) /\ TrainAt(r) /\ GenAt(r)

\* All ranks had the same weights before the call, and those of a group the
\* same stream of generation.
Common(r) == version[r] - IF Updated(r) THEN 1 ELSE 0
Agreed ==
    /\ op # "load_actor" => \A r \in Ranks : Common(r) = Common(0)
    /\ \A r \in Ranks, q \in Ranks :
          DpRank(q) = DpRank(r) /\ Built(q) /\ Built(r) => Before(q) = Before(r)

SavedStreams ==
    /\ saved.version \in 0..MaxUpdates
    /\ saved = [version |-> saved.version, rng |-> saved.rng]
    /\ saved.rng = [r \in Ranks |-> Stream("train", r, 2 * saved.version)]

StreamsTyped ==
    /\ rng \in [Ranks -> Streams] /\ trainRng \in [Ranks -> Streams]
    /\ genRng \in [Ranks -> Streams]

StreamInv ==
    /\ IndInv /\ StreamsTyped /\ SavedStreams /\ Agreed
    /\ \A r \in Ranks : RankAt(r)

(***************************************************************************)
(* Streams.                                                                *)
(***************************************************************************)

LEMMA StreamFields ==
    ASSUME NEW kind, NEW id, NEW n \in Nat
    PROVE  /\ Stream(kind, id, n).kind = kind /\ Stream(kind, id, n).draws = n
           /\ Drawn(Stream(kind, id, n)) = Stream(kind, id, n + 1)
  BY DEF Stream, Drawn

LEMMA StreamTypes ==
    ASSUME NEW r \in Ranks, NEW n \in Nat
    PROVE  /\ n <= 2 * MaxUpdates => Stream("train", r, n) \in Streams
           /\ setting \in Settings /\ n <= 2 * MaxUpdates + 1 =>
                  Stream("gen", DpRank(r), n) \in Streams
<1>1. setting \in Settings => r \div TpSize \in Ranks
  <2> SUFFICES ASSUME setting \in Settings PROVE r \div TpSize \in Ranks
    OBVIOUS
  <2>1. r \in Nat /\ r < NumRanks /\ TpSize \in Nat /\ TpSize > 0 /\ NumRanks \in Nat
    BY RanksAssumption, Shape DEF Ranks, TpSize
  <2>2. r \div TpSize \in Int /\ r \div TpSize >= 0 /\ r \div TpSize <= r
    BY <2>1
  <2> QED
    BY <2>1, <2>2 DEF Ranks
<1>2. MaxUpdates \in Nat
  BY BoundsAssumption
<1>3. n <= 2 * MaxUpdates => n \in 0..(2 * MaxUpdates)
  BY <1>2
<1>4. n <= 2 * MaxUpdates + 1 => n \in 0..(2 * MaxUpdates + 1)
  BY <1>2
<1> QED
  BY <1>1, <1>3, <1>4 DEF Stream, Streams, DpRank

\* Two draws for an update, and what a step may leave over, are within TypeOK.
LEMMA VersionNumbers ==
    ASSUME StreamInv, NEW r \in Ranks
    PROVE  version[r] \in Nat /\ version[r] <= MaxUpdates /\ MaxUpdates \in Nat
  BY BoundsAssumption DEF StreamInv, IndInv, ModuleInv, Typed, RankAt, VersionAt

\* Which call comes after which.
LEMMA FollowsShape ==
    ASSUME NEW next \in Follows(op)
    PROVE  /\ next = "load_actor" => op = "init"
           /\ next = "load_critic" <=> op = "load_actor"
           /\ next = "update_actor" <=> op = "update_critic"
           /\ next \in StepCalls \ {"generate"} => op \in StepCalls \ {"update_actor"}
           /\ next = "generate" =>
                  op \in {"init", "load_critic", "validate", "update_actor", "save_critic"}
           /\ next = "validate" => op \in {"init", "load_critic", "update_actor"}
           /\ next = "save_actor" => op \in {"validate", "update_actor"}
           /\ next = "save_critic" => op = "save_actor"
           /\ op = "save_critic" => next = "generate"
           /\ next \notin {"init", "down", "failed"}
  BY DEF Follows, Generating, StepCalls

(***************************************************************************)
(* Initial states, the loss of the processes, and the driver.              *)
(***************************************************************************)

\* Without processes the streams stand for nothing.
LEMMA NoProcesses ==
    ASSUME NEW r \in Ranks, op \in {"down", "failed"}, pc = [q \in Ranks |-> "done"],
           version = [q \in Ranks |-> 0], rng = TrainStreams
    PROVE  RankAt(r) /\ Common(r) = 0 /\ ~Built(r)
<1>1. op \notin Calls /\ MaxUpdates \in Nat
  BY CallNames, BoundsAssumption
<1>2. /\ ~Sampling(r) /\ ~HalfWay(r) /\ ~Updated(r) /\ ~Restored(r) /\ ~Built(r)
      /\ version[r] = 0 /\ op \notin StepCalls
  BY <1>1 DEF Sampling, HalfWay, Updated, Restored, Built, StepCalls
<1>3. VersionAt(r)
  BY <1>1, <1>2 DEF VersionAt
<1>4. TrainAt(r)
  BY <1>2 DEF TrainAt, TrainState, TrainStreams
<1>5. GenAt(r) /\ Common(r) = 0
  BY <1>2 DEF GenAt, Common
<1> QED
  BY <1>2, <1>3, <1>4, <1>5 DEF RankAt

LEMMA InitialStreams == TrainStreams \in [Ranks -> Streams]
<1>1. MaxUpdates \in Nat /\ 0 \in Nat
  BY BoundsAssumption
<1>2. \A r \in Ranks : Stream("train", r, 0) \in Streams
  BY <1>1, StreamTypes
<1> QED
  BY <1>2 DEF TrainStreams

LEMMA StreamInit == Init => StreamInv
<1> SUFFICES ASSUME Init PROVE StreamInv
  OBVIOUS
<1>1. IndInv
  BY InitInv
<1>2. StreamsTyped
  BY InitialStreams DEF Init, StreamsTyped
<1>3. SavedStreams
  BY BoundsAssumption DEF Init, SavedStreams, TrainStreams
<1>4. ASSUME NEW r \in Ranks PROVE RankAt(r) /\ Common(r) = 0 /\ ~Built(r)
  BY NoProcesses DEF Init, All
<1>5. Agreed
  BY <1>4, Shape DEF Agreed
<1> QED
  BY <1>1, <1>2, <1>3, <1>4, <1>5 DEF StreamInv

LEMMA StreamDown ==
    ASSUME StreamInv, IndInv', NEW how \in {"down", "failed"}, Down(how),
           UNCHANGED <<setting, saved, run>>
    PROVE  StreamInv'
<1>1. /\ op' = how /\ pc' = [q \in Ranks |-> "done"] /\ version' = [q \in Ranks |-> 0]
      /\ rng' = TrainStreams /\ trainRng' = TrainStreams /\ genRng' = TrainStreams
  BY DEF Down, All
<1>2. StreamsTyped'
  BY <1>1, InitialStreams DEF StreamsTyped
<1>3. SavedStreams'
  BY DEF StreamInv, SavedStreams
<1>4. op' \notin Calls /\ MaxUpdates \in Nat
  BY <1>1, CallNames, BoundsAssumption
<1>5. ASSUME NEW r \in Ranks PROVE RankAt(r)' /\ Common(r)' = 0 /\ ~Built(r)'
  <2>1. /\ ~Sampling(r)' /\ ~HalfWay(r)' /\ ~Updated(r)' /\ ~Restored(r)' /\ ~Built(r)'
        /\ version'[r] = 0 /\ op' \notin StepCalls /\ op' \notin {"load_actor", "load_critic"}
    BY <1>1, <1>4 DEF Sampling, HalfWay, Updated, Restored, Built, StepCalls
  <2>2. VersionAt(r)'
    BY <1>4, <2>1 DEF VersionAt
  <2>3. TrainAt(r)'
    BY <1>1, <2>1 DEF TrainAt, TrainState, TrainStreams
  <2>4. GenAt(r)' /\ Common(r)' = 0
    <3>1. GenAt(r)'
      BY <2>1 DEF GenAt
    <3>2. version'[r] = 0 /\ ~Updated(r)'
      BY <2>1
    <3>3. Common(r)' = 0 - 0
      BY <3>2 DEF Common
    <3> QED
      BY <3>1, <3>3, SMT
  <2> QED
    BY <2>1, <2>2, <2>3, <2>4 DEF RankAt
<1>6. Agreed'
  BY <1>5, Shape DEF Agreed
<1> QED
  BY <1>2, <1>3, <1>5, <1>6 DEF StreamInv

LEMMA StreamSubmit ==
    ASSUME StreamInv, IndInv', Submit
    PROVE  StreamInv'
<1>1. /\ op \in {"down", "failed"} /\ op' = "init" /\ pc' = [r \in Ranks |-> "todo"]
      /\ UNCHANGED <<version, rng, trainRng, genRng, saved>>
  BY DEF Submit, moduleVars, managerVars
<1>2. StreamsTyped' /\ SavedStreams'
  BY <1>1 DEF StreamInv, StreamsTyped, SavedStreams
<1>3. ASSUME NEW r \in Ranks PROVE RankAt(r)' /\ Common(r)' = 0 /\ ~Built(r)'
  <2>1. pc[r] = "done" /\ VersionAt(r) /\ TrainAt(r) /\ MaxUpdates \in Nat
    BY <1>1, BoundsAssumption DEF StreamInv, RankAt, IndInv, ModuleInv, PhaseInv, PhaseAt
  <2>2. /\ ~Sampling(r) /\ ~HalfWay(r) /\ version[r] = 0
        /\ ~Sampling(r)' /\ ~HalfWay(r)' /\ ~Updated(r)' /\ ~Restored(r)' /\ ~Built(r)'
        /\ op' \notin StepCalls
    BY <1>1, <2>1 DEF Sampling, HalfWay, Updated, Restored, Built, StepCalls, VersionAt
  <2>3. VersionAt(r)'
    BY <1>1, <2>1, <2>2 DEF VersionAt
  <2>4. TrainAt(r)'
    BY <1>1, <2>1, <2>2 DEF TrainAt, TrainState
  <2>5. GenAt(r)' /\ Common(r)' = 0
    <3>1. GenAt(r)'
      BY <1>1, <2>2 DEF GenAt
    <3>2. version'[r] = 0 /\ ~Updated(r)'
      BY <1>1, <2>2
    <3>3. Common(r)' = 0 - 0
      BY <3>2 DEF Common
    <3> QED
      BY <3>1, <3>3, SMT
  <2> QED
    BY <2>2, <2>3, <2>4, <2>5 DEF RankAt
<1>4. Agreed'
  BY <1>3, Shape DEF Agreed
<1> QED
  BY <1>2, <1>3, <1>4 DEF StreamInv

LEMMA StreamCall ==
    ASSUME StreamInv, IndInv', NEW next \in Calls, Call(next)
    PROVE  StreamInv'
<1>1. /\ op \in Calls /\ op' = next /\ next \in Follows(op)
      /\ pc' = [r \in Ranks |-> IF Called(r, next) THEN "todo" ELSE "uncalled"] /\ AllDone
      /\ setting' = setting
      /\ next = "generate" => version[0] < MaxUpdates
      /\ saved' = IF op = "save_critic" THEN [version |-> version[0], rng |-> rng] ELSE saved
      /\ UNCHANGED <<version, rng, trainRng, genRng>>
  BY DEF Call, moduleVars, managerVars
<1>2. /\ next \notin {"init", "down", "failed"}
      /\ next = "load_actor" => op = "init"
      /\ next = "load_critic" <=> op = "load_actor"
      /\ next = "update_actor" <=> op = "update_critic"
      /\ next \in StepCalls \ {"generate"} => op \in StepCalls \ {"update_actor"}
      /\ next = "generate" =>
             op \in {"init", "load_critic", "validate", "update_actor", "save_critic"}
      /\ next = "validate" => op \in {"init", "load_critic", "update_actor"}
      /\ next = "save_actor" => op \in {"validate", "update_actor"}
      /\ next = "save_critic" => op = "save_actor"
      /\ op = "save_critic" => next = "generate"
  BY <1>1, FollowsShape
<1>3. ASSUME NEW r \in Ranks
      PROVE  /\ ~Sampling(r) /\ Built(r) /\ ~Sampling(r)' /\ Built(r)'
             /\ HalfWay(r) <=> op = "update_critic"
             /\ HalfWay(r)' <=> next = "update_actor"
             /\ Updated(r) <=> op = "update_actor"
             /\ Restored(r) <=> op = "load_actor"
             /\ Sampled(r) <=> op \in Generating
             /\ ~Updated(r)' /\ ~Restored(r)' /\ ~Sampled(r)'
             /\ VersionAt(r) /\ TrainAt(r) /\ GenAt(r)
             /\ version[r] \in Nat /\ version[r] <= MaxUpdates /\ MaxUpdates \in Nat
  <2>1. /\ RankAt(r) /\ pc[r] = "done"
        /\ pc'[r] \in {"todo", "uncalled"} /\ (next \notin Generating => pc'[r] = "todo")
    BY <1>1, AllDoneCalled DEF StreamInv, Called
  <2>2. version[r] \in Nat /\ version[r] <= MaxUpdates /\ MaxUpdates \in Nat
    BY VersionNumbers
  <2> QED
    BY <1>1, <1>2, <2>1, <2>2
       DEF RankAt, Sampling, Built, HalfWay, Updated, Restored, Sampled, Generating
<1>4. ASSUME NEW r \in Ranks PROVE version[r] = version[0]
  <2>1. 0 \in Ranks
    BY Shape
  <2>2. CASE op = "load_actor"
    BY <1>3, <2>1, <2>2 DEF VersionAt
  <2>3. CASE op # "load_actor"
    <3>1. Common(r) = Common(0)
      BY <2>3 DEF StreamInv, Agreed
    <3>2. Updated(r) <=> Updated(0)
      BY <1>3, <2>1
    <3>3. version[r] \in Nat /\ version[0] \in Nat
      BY <1>3, <2>1
    <3> QED
      BY <3>1, <3>2, <3>3 DEF Common
  <2> QED
    BY <2>2, <2>3
<1>5. ASSUME NEW r \in Ranks PROVE VersionAt(r)'
  <2>1. next \in StepCalls => version[r] < MaxUpdates
    <3>1. CASE next = "generate"
      BY <1>1, <1>4, <3>1
    <3>2. CASE next \in StepCalls \ {"generate"}
      BY <1>2, <1>3, <3>2 DEF VersionAt, StepCalls
    <3> QED
      BY <3>1, <3>2
  <2>2. next = "load_actor" => version[r] = 0
    BY <1>2, <1>3 DEF VersionAt
  <2>3. next = "load_critic" => version[r] = saved'.version
    BY <1>1, <1>2, <1>3 DEF VersionAt
  <2> QED
    BY <1>1, <1>2, <1>3, <2>1, <2>2, <2>3 DEF VersionAt
<1>6. ASSUME NEW r \in Ranks PROVE TrainAt(r)'
  <2>1. TrainState(r)' = TrainState(r)
    BY <1>1, <1>3 DEF TrainState
  <2> QED
    BY <1>1, <1>2, <1>3, <2>1 DEF TrainAt
<1>7. ASSUME NEW r \in Ranks PROVE GenAt(r)'
  <2>1. GenState(r)' = GenState(r)
    BY <1>1, <1>3 DEF GenState
  <2>2. /\ GenState(r) = Stream("gen", DpRank(r), GenState(r).draws)
        /\ Before(r) \in Nat /\ Before(r) <= 2 * version[r] + Spare(r)
    BY <1>3 DEF GenAt
  <2>3. Before(r)' = Before(r) + IF op \in Generating THEN 1 ELSE 0
    <3>1. GenState(r).draws \in Int
      <4>1. GenState(r) \in Streams
        BY <1>3 DEF GenState, StreamInv, StreamsTyped
      <4> QED
        BY <4>1, BoundsAssumption DEF Streams
    <3> QED
      BY <1>3, <2>1, <3>1 DEF Before
  <2>4. /\ Before(r)' \in Nat
        /\ Before(r)' <= 2 * version[r] + Spare(r) + IF op \in Generating THEN 1 ELSE 0
        /\ Spare(r) \in Nat /\ Spare(r)' \in Nat
    BY <1>3, <2>2, <2>3 DEF Spare
  <2>5. Spare(r) + (IF op \in Generating THEN 1 ELSE 0) <= Spare(r)'
    BY <1>1, <1>2, <1>3, CallNames DEF Spare, StepCalls, Generating
  <2>6. Before(r)' <= 2 * version[r] + Spare(r)'
    BY <1>3, <2>4, <2>5
  <2>7. DpRank(r)' = DpRank(r)
    BY <1>1, SameGroups
  <2> QED
    BY <1>1, <2>1, <2>2, <2>4, <2>6, <2>7 DEF GenAt
<1>8. SavedStreams'
  <2>1. CASE op = "save_critic"
    <3>1. \A r \in Ranks : rng[r] = Stream("train", r, 2 * version[0])
      <4> SUFFICES ASSUME NEW r \in Ranks PROVE rng[r] = Stream("train", r, 2 * version[0])
        OBVIOUS
      <4>1. TrainState(r) = rng[r] /\ ~HalfWay(r) /\ version[r] = version[0] /\ version[r] \in Nat
        BY <1>3, <1>4, <2>1 DEF TrainState
      <4>2. 2 * version[r] + 0 = 2 * version[0]
        BY <4>1
      <4> QED
        BY <1>3, <4>1, <4>2 DEF TrainAt
    <3>2. rng = [r \in Ranks |-> Stream("train", r, 2 * version[0])]
      BY <3>1 DEF StreamInv, StreamsTyped
    <3>3. version[0] \in 0..MaxUpdates
      BY <1>3, Shape
    <3>4. saved' = [version |-> version[0], rng |-> rng]
      BY <1>1, <2>1
    <3> QED
      BY <3>2, <3>3, <3>4 DEF SavedStreams
  <2>2. CASE op # "save_critic"
    BY <1>1, <2>2 DEF StreamInv, SavedStreams
  <2> QED
    BY <2>1, <2>2
<1>9. Agreed'
  <2>1. \A r \in Ranks : Common(r)' = Common(0)'
    BY <1>1, <1>3, <1>4, Shape DEF Common
  <2>2. ASSUME NEW r \in Ranks, NEW q \in Ranks, DpRank(q) = DpRank(r)
        PROVE  Before(q)' = Before(r)'
    <3>1. Before(q) = Before(r)
      BY <1>3, <2>2 DEF StreamInv, Agreed
    <3>2. GenState(q)' = GenState(q) /\ GenState(r)' = GenState(r)
      BY <1>1, <1>3 DEF GenState
    <3>3. GenState(q).draws \in Int /\ GenState(r).draws \in Int
      BY <1>3, BoundsAssumption DEF GenState, StreamInv, StreamsTyped, Streams
    <3> QED
      BY <1>3, <3>1, <3>2, <3>3 DEF Before
  <2>3. \A r \in Ranks : DpRank(r)' = DpRank(r)
    BY <1>1, SameGroups
  <2> QED
    BY <2>1, <2>2, <2>3 DEF Agreed
<1>10. StreamsTyped'
  BY <1>1 DEF StreamInv, StreamsTyped
<1> QED
  BY <1>5, <1>6, <1>7, <1>8, <1>9, <1>10 DEF StreamInv, RankAt

(***************************************************************************)
(* The steps of a rank.                                                    *)
(***************************************************************************)

\* A step leaves the streams and the weights of another rank alone.
LEMMA StreamElsewhere ==
    ASSUME StreamInv, NEW q \in Ranks, setting' = setting, op' = op, saved' = saved,
           pc'[q] = pc[q],
           version'[q] = version[q], rng'[q] = rng[q], trainRng'[q] = trainRng[q],
           genRng'[q] = genRng[q]
    PROVE  /\ RankAt(q)' /\ Common(q)' = Common(q) /\ Before(q)' = Before(q)
           /\ Built(q)' <=> Built(q)
<1>1. /\ HalfWay(q)' <=> HalfWay(q)
      /\ Updated(q)' <=> Updated(q)
      /\ Restored(q)' <=> Restored(q)
      /\ Sampled(q)' <=> Sampled(q)
      /\ Built(q)' <=> Built(q)
  BY DEF HalfWay, Updated, Restored, Sampled, Built
<1>2. TrainState(q)' = TrainState(q) /\ GenState(q)' = GenState(q)
  BY DEF TrainState, GenState, Sampling
<1>3. VersionAt(q) /\ TrainAt(q) /\ GenAt(q)
  BY DEF StreamInv, RankAt
<1>4. VersionAt(q)'
  BY <1>1, <1>3 DEF VersionAt
<1>5. TrainAt(q)'
  BY <1>1, <1>2, <1>3 DEF TrainAt
<1>6. Before(q)' = Before(q) /\ Spare(q)' = Spare(q)
  BY <1>1, <1>2 DEF Before, Spare
<1>7. GenAt(q)'
  BY <1>1, <1>2, <1>3, <1>6, SameGroups DEF GenAt
<1>8. Common(q)' = Common(q)
  BY <1>1 DEF Common
<1> QED
  BY <1>1, <1>4, <1>5, <1>6, <1>7, <1>8 DEF RankAt

\* A rank that goes on in its call: what is to be shown of its streams.
LEMMA StreamHere ==
    ASSUME StreamInv, IndInv', StreamsTyped', NEW r \in Ranks, setting' = setting,
           op' = op, saved' = saved,
           \A q \in Ranks : q # r =>
               /\ pc'[q] = pc[q] /\ version'[q] = version[q] /\ rng'[q] = rng[q]
               /\ trainRng'[q] = trainRng[q] /\ genRng'[q] = genRng[q],
           RankAt(r)', Built(r), Before(r)' = Before(r),
           op = "load_actor" \/ Common(r)' = Common(r)
    PROVE  StreamInv'
<1>1. ASSUME NEW q \in Ranks
      PROVE  /\ RankAt(q)' /\ Before(q)' = Before(q) /\ (Built(q)' => Built(q))
             /\ op = "load_actor" \/ Common(q)' = Common(q)
  <2>1. CASE q = r
    BY <2>1
  <2>2. CASE q # r
    BY <2>2, StreamElsewhere
  <2> QED
    BY <2>1, <2>2
<1>2. Agreed'
  <2>1. op # "load_actor" => \A q \in Ranks : Common(q)' = Common(0)'
    BY <1>1, Shape DEF StreamInv, Agreed
  <2>2. ASSUME NEW p \in Ranks, NEW q \in Ranks, DpRank(q) = DpRank(p), Built(q)', Built(p)'
        PROVE  Before(q)' = Before(p)'
    <3>1. Before(q) = Before(p)
      BY <1>1, <2>2 DEF StreamInv, Agreed
    <3> QED
      BY <1>1, <3>1
  <2> QED
    BY <2>1, <2>2, SameGroups DEF Agreed
<1>3. SavedStreams'
  BY DEF StreamInv, SavedStreams
<1> QED
  BY <1>1, <1>2, <1>3 DEF StreamInv

\* A step that draws nothing and leaves the weights alone.
LEMMA StreamQuiet ==
    ASSUME StreamInv, IndInv', NEW r \in Ranks, NEW to, setting' = setting, op' = op,
           saved' = saved,
           pc' = [pc EXCEPT ![r] = to],
           UNCHANGED <<version, rng, trainRng, genRng>>,
           \/ op \in Generating /\ pc[r] \in {"todo", "loaded", "synced"}
              /\ to \in {"loaded", "synced", "freed"}
           \/ op \in TrainingCalls /\ pc[r] = "todo" /\ to = "loaded"
           \/ op \in TrainingCalls \ {"update_critic", "update_actor", "load_actor"}
              /\ pc[r] = "loaded" /\ to = "used"
           \/ op \in TrainingCalls /\ pc[r] = "used" /\ to = "done"
    PROVE  StreamInv'
<1>1. pc'[r] = to /\ \A q \in Ranks : q # r => pc'[q] = pc[q]
  BY DEF StreamInv, IndInv, ModuleInv, Typed
<1>2. /\ op \in Generating => op \notin {"update_critic", "update_actor", "load_actor"}
      /\ op \in TrainingCalls => op \notin Generating
  BY CallKinds DEF Updating
<1>3. /\ ~Sampling(r) /\ ~Sampling(r)'
      /\ HalfWay(r)' <=> HalfWay(r)
      /\ Updated(r)' <=> Updated(r)
      /\ Restored(r)' <=> Restored(r)
      /\ ~Sampled(r) /\ ~Sampled(r)'
  BY <1>1, <1>2 DEF Sampling, HalfWay, Updated, Restored, Sampled
<1>4. Built(r) /\ Built(r)'
  BY <1>1, CallKinds DEF Built
<1>5. TrainState(r)' = TrainState(r) /\ GenState(r)' = GenState(r)
  BY <1>3 DEF TrainState, GenState
<1>6. VersionAt(r) /\ TrainAt(r) /\ GenAt(r)
  BY DEF StreamInv, RankAt
<1>7. Before(r)' = Before(r) /\ Spare(r)' = Spare(r) /\ Common(r)' = Common(r)
  BY <1>3, <1>5 DEF Before, Spare, Common
<1>8. VersionAt(r)'
  BY <1>3, <1>6 DEF VersionAt
<1>9. TrainAt(r)'
  BY <1>3, <1>5, <1>6 DEF TrainAt
<1>10. GenAt(r)'
  BY <1>4, <1>5, <1>6, <1>7, SameGroups DEF GenAt
<1>11. StreamsTyped'
  BY DEF StreamInv, StreamsTyped
<1>12. \A q \in Ranks : q # r =>
           /\ pc'[q] = pc[q] /\ version'[q] = version[q] /\ rng'[q] = rng[q]
           /\ trainRng'[q] = trainRng[q] /\ genRng'[q] = genRng[q]
  BY <1>1
<1> QED
  BY <1>4, <1>7, <1>8, <1>9, <1>10, <1>11, <1>12, StreamHere DEF RankAt

LEMMA StreamInitModel ==
    ASSUME StreamInv, IndInv', NEW r \in Ranks, InitModel(r)
    PROVE  StreamInv'
<1>1. /\ setting' = setting /\ setting \in Settings /\ DpRank(r)' = DpRank(r)
      /\ op = "init" /\ op' = op /\ saved' = saved /\ version' = version /\ rng' = rng
      /\ pc[r] = "todo" /\ pc' = [pc EXCEPT ![r] = "done"]
      /\ trainRng' = [trainRng EXCEPT ![r] = rng[r]]
      /\ genRng' = [genRng EXCEPT ![r] = Stream("gen", DpRank(r), 0)]
  BY SameGroups DEF InitModel, Goes, StreamInv, IndInv, ModuleInv, Typed
<1>2. StreamsTyped'
  <2>1. Stream("gen", DpRank(r), 0) \in Streams
    BY <1>1, StreamTypes, BoundsAssumption
  <2> QED
    BY <1>1, <2>1 DEF StreamInv, StreamsTyped
<1>3. /\ pc'[r] = "done" /\ genRng'[r] = Stream("gen", DpRank(r), 0)
      /\ \A q \in Ranks : q # r =>
             /\ pc'[q] = pc[q] /\ version'[q] = version[q] /\ rng'[q] = rng[q]
             /\ trainRng'[q] = trainRng[q] /\ genRng'[q] = genRng[q]
  BY <1>1 DEF StreamInv, StreamsTyped, IndInv, ModuleInv, Typed
<1>4. /\ ~Sampling(r) /\ ~Sampling(r)' /\ ~HalfWay(r) /\ ~HalfWay(r)'
      /\ ~Updated(r) /\ ~Updated(r)' /\ ~Restored(r) /\ ~Restored(r)' /\ ~Sampled(r)'
      /\ Built(r)'
  BY <1>1, <1>3, CallNames
     DEF Sampling, HalfWay, Updated, Restored, Sampled, Built, Generating
<1>5. VersionAt(r) /\ TrainAt(r) /\ version[r] \in Nat
  BY VersionNumbers DEF StreamInv, RankAt
<1>6. VersionAt(r)'
  BY <1>1, <1>4, <1>5 DEF VersionAt
<1>7. TrainAt(r)'
  BY <1>1, <1>4, <1>5 DEF TrainAt, TrainState
<1>8. GenState(r)' = Stream("gen", DpRank(r), 0)
  BY <1>3, <1>4 DEF GenState
<1>9. GenState(r)'.draws = 0
  BY <1>8, StreamFields
<1>10. Before(r)' = 0
  <2>1. Before(r)' = 0 - 0
    BY <1>4, <1>9 DEF Before
  <2> QED
    BY <2>1, SMT
<1>11. Spare(r)' = 0 /\ version'[r] = 0
  BY <1>1, <1>5 DEF Spare, StepCalls, VersionAt
<1>12. GenAt(r)'
  <2>1. Before(r)' \in Nat /\ Before(r)' <= 2 * version'[r] + Spare(r)'
    BY <1>10, <1>11
  <2>2. GenState(r)' = Stream("gen", DpRank(r)', GenState(r)'.draws)
    BY <1>1, <1>8, <1>9
  <2> QED
    BY <2>1, <2>2 DEF GenAt
<1>13. ASSUME NEW q \in Ranks
       PROVE  RankAt(q)' /\ Common(q)' = Common(q) /\ (Built(q)' => Before(q)' = 0)
  <2>1. CASE q = r
    <3>1. Common(q)' = Common(q)
      BY <1>1, <1>4, <2>1 DEF Common
    <3> QED
      BY <1>6, <1>7, <1>10, <1>12, <2>1, <3>1 DEF RankAt
  <2>2. CASE q # r
    <3>1. /\ RankAt(q)' /\ Common(q)' = Common(q) /\ Before(q)' = Before(q)
          /\ Built(q)' <=> Built(q)
      BY <1>1, <1>3, <2>2, StreamElsewhere
    <3>2. Spare(q) = 0 /\ version[q] = 0
      BY <1>1 DEF Spare, StepCalls, StreamInv, RankAt, VersionAt
    <3>3. Built(q) => Before(q) \in Nat /\ Before(q) <= 2 * version[q] + Spare(q)
      BY DEF StreamInv, RankAt, GenAt
    <3>4. Built(q) => Before(q) = 0
      BY <3>2, <3>3
    <3> QED
      BY <3>1, <3>4
  <2> QED
    BY <2>1, <2>2
<1>14. Agreed'
  <2>1. \A q \in Ranks : Common(q)' = Common(0)'
    BY <1>1, <1>13, Shape DEF StreamInv, Agreed
  <2> QED
    BY <1>13, <2>1 DEF Agreed
<1>15. SavedStreams'
  BY <1>1 DEF StreamInv, SavedStreams
<1> QED
  BY <1>2, <1>13, <1>14, <1>15 DEF StreamInv

\* The random state of one rank is set.
LEMMA Sets ==
    ASSUME NEW f \in [Ranks -> Streams], NEW r \in Ranks, NEW x \in Streams
    PROVE  /\ [f EXCEPT ![r] = x] \in [Ranks -> Streams]
           /\ [f EXCEPT ![r] = x][r] = x
           /\ \A q \in Ranks : q # r => [f EXCEPT ![r] = x][q] = f[q]
  OBVIOUS

LEMMA StreamUpdate ==
    ASSUME StreamInv, IndInv', NEW r \in Ranks, UpdateActor(r) \/ UpdateCritic(r)
    PROVE  StreamInv'
<1>1. /\ setting' = setting
      /\ op' = op /\ saved' = saved /\ pc[r] = "loaded" /\ pc' = [pc EXCEPT ![r] = "used"]
      /\ trainRng' = trainRng /\ genRng' = genRng
      /\ rng' = [rng EXCEPT ![r] = Drawn(rng[r])]
      /\ \/ op = "update_actor" /\ version' = [version EXCEPT ![r] = version[r] + 1]
         \/ op = "update_critic" /\ version' = version
  BY DEF UpdateActor, UpdateCritic, Computes, Goes
<1>2. /\ pc'[r] = "used"
      /\ \A q \in Ranks : q # r => pc'[q] = pc[q] /\ version'[q] = version[q]
      /\ op = "update_actor" => version'[r] = version[r] + 1
      /\ op = "update_critic" => version'[r] = version[r]
  BY <1>1 DEF StreamInv, IndInv, ModuleInv, Typed
<1>3. op \notin Generating /\ op \in StepCalls /\ op \in Calls
  BY <1>1, CallNames DEF Generating, StepCalls
<1>4. /\ ~Sampling(r) /\ ~Sampling(r)' /\ Built(r) /\ Built(r)'
      /\ ~Updated(r) /\ ~Restored(r) /\ ~Restored(r)' /\ ~Sampled(r) /\ ~Sampled(r)'
      /\ HalfWay(r) <=> op = "update_actor"
      /\ HalfWay(r)' <=> op = "update_critic"
      /\ Updated(r)' <=> op = "update_actor"
  BY <1>1, <1>2, <1>3 DEF Sampling, HalfWay, Updated, Restored, Sampled, Built
<1>5. VersionAt(r) /\ TrainAt(r) /\ GenAt(r)
  BY DEF StreamInv, RankAt
<1>6. version[r] \in Nat /\ version[r] < MaxUpdates /\ MaxUpdates \in Nat
  BY <1>3, <1>4, <1>5, VersionNumbers DEF VersionAt
<1> DEFINE n == 2 * version[r] + IF op = "update_actor" THEN 1 ELSE 0
<1>7. /\ n \in Nat /\ n + 1 \in Nat /\ n + 1 <= 2 * MaxUpdates
      /\ n + 1 = 2 * version'[r] + IF op = "update_critic" THEN 1 ELSE 0
  BY <1>1, <1>2, <1>6
<1>8. rng[r] = Stream("train", r, n)
  BY <1>4, <1>5 DEF TrainAt, TrainState
<1> HIDE DEF n
<1>9. Drawn(rng[r]) = Stream("train", r, n + 1) /\ Drawn(rng[r]) \in Streams
  BY <1>7, <1>8, StreamFields, StreamTypes
<1>10. /\ StreamsTyped' /\ rng'[r] = Drawn(rng[r])
       /\ \A q \in Ranks : q # r => rng'[q] = rng[q]
  BY <1>1, <1>9, Sets DEF StreamInv, StreamsTyped
<1>11. TrainAt(r)'
  <2>1. TrainState(r)' = Stream("train", r, n + 1)
    BY <1>4, <1>9, <1>10 DEF TrainState
  <2>2. HalfWay(r)' <=> op = "update_critic"
    BY <1>4
  <2> QED
    BY <1>7, <2>1, <2>2 DEF TrainAt
<1>12. VersionAt(r)'
  BY <1>1, <1>2, <1>3, <1>4, <1>6 DEF VersionAt
<1>13. GenState(r)' = GenState(r)
  BY <1>1, <1>4 DEF GenState
<1>14. Before(r)' = Before(r)
  BY <1>4, <1>13 DEF Before
<1>15. 2 * version'[r] + Spare(r)' = 2 * version[r] + Spare(r)
  BY <1>1, <1>2, <1>3, <1>4, <1>6 DEF Spare
<1>16. GenAt(r)'
  BY <1>1, <1>4, <1>5, <1>13, <1>14, <1>15, SameGroups DEF GenAt
<1>17. Common(r)' = Common(r)
  BY <1>1, <1>2, <1>4, <1>6 DEF Common
<1> QED
  BY <1>1, <1>2, <1>4, <1>10, <1>11, <1>12, <1>14, <1>16, <1>17, StreamHere DEF RankAt

\* A resumed rank goes on with the stream of the checkpoint: two draws for each
\* update it contains.
LEMMA StreamLoad ==
    ASSUME StreamInv, IndInv', NEW r \in Ranks, NEW m \in Modules, LoadCheckpoint(r, m)
    PROVE  StreamInv'
<1>1. /\ setting' = setting
      /\ op' = op /\ saved' = saved /\ pc[r] = "loaded" /\ pc' = [pc EXCEPT ![r] = "used"]
      /\ trainRng' = trainRng /\ genRng' = genRng
      /\ rng' = [rng EXCEPT ![r] = saved.rng[r]]
      /\ \/ op = "load_actor" /\ version' = [version EXCEPT ![r] = saved.version]
         \/ op = "load_critic" /\ version' = [version EXCEPT ![r] = version[r]]
  BY CallNames DEF LoadCheckpoint, Computes, Goes, RestoredRng, ModuleOf, ActorCalls
<1>2. /\ op \in {"load_actor", "load_critic"}
      /\ pc'[r] = "used"
      /\ \A q \in Ranks : q # r => pc'[q] = pc[q] /\ version'[q] = version[q]
      /\ op = "load_actor" => version'[r] = saved.version
      /\ op = "load_critic" => version'[r] = version[r]
  BY <1>1 DEF StreamInv, IndInv, ModuleInv, Typed
<1>3. op \notin Generating /\ op \notin StepCalls /\ op \in Calls
  BY <1>2, CallNames DEF Generating, StepCalls
<1>4. /\ ~Sampling(r) /\ ~Sampling(r)' /\ Built(r) /\ Built(r)'
      /\ ~Updated(r) /\ ~Updated(r)' /\ ~Restored(r) /\ ~Sampled(r) /\ ~Sampled(r)'
      /\ ~HalfWay(r) /\ ~HalfWay(r)'
      /\ Restored(r)' <=> op = "load_actor"
  BY <1>1, <1>2, <1>3 DEF Sampling, HalfWay, Updated, Restored, Sampled, Built
<1>5. VersionAt(r) /\ TrainAt(r) /\ GenAt(r) /\ SavedStreams
  BY DEF StreamInv, RankAt
<1>6. /\ version[r] \in Nat /\ MaxUpdates \in Nat
      /\ saved.version \in Nat /\ saved.version <= MaxUpdates
      /\ saved.rng[r] = Stream("train", r, 2 * saved.version)
  BY <1>5, VersionNumbers DEF SavedStreams
<1>7. version'[r] = saved.version /\ version[r] <= version'[r]
  BY <1>2, <1>4, <1>5, <1>6 DEF VersionAt
<1>8. saved.rng[r] \in Streams
  <2>1. 2 * saved.version \in Nat /\ 2 * saved.version <= 2 * MaxUpdates
    BY <1>6
  <2> QED
    BY <1>6, <2>1, StreamTypes
<1>9. /\ StreamsTyped' /\ rng'[r] = saved.rng[r]
      /\ \A q \in Ranks : q # r => rng'[q] = rng[q]
  BY <1>1, <1>8, Sets DEF StreamInv, StreamsTyped
<1>10. TrainAt(r)'
  <2>1. TrainState(r)' = Stream("train", r, 2 * saved.version) /\ ~HalfWay(r)'
    BY <1>4, <1>6, <1>9 DEF TrainState
  <2>2. 2 * version'[r] + 0 = 2 * saved.version
    BY <1>6, <1>7
  <2> QED
    BY <2>1, <2>2 DEF TrainAt
<1>11. VersionAt(r)'
  BY <1>1, <1>2, <1>3, <1>4, <1>6, <1>7 DEF VersionAt
<1>12. GenState(r)' = GenState(r) /\ Spare(r)' = Spare(r) /\ Spare(r) = 0
  BY <1>1, <1>2, <1>3, <1>4 DEF GenState, Spare
<1>13. Before(r)' = Before(r)
  BY <1>4, <1>12 DEF Before
<1>14. GenAt(r)'
  <2>1. Before(r) \in Nat /\ Before(r) <= 2 * version[r]
    BY <1>4, <1>5, <1>6, <1>12 DEF GenAt
  <2>2. Before(r)' \in Nat /\ Before(r)' <= 2 * version'[r] + Spare(r)'
    BY <1>6, <1>7, <1>12, <1>13, <2>1
  <2> QED
    BY <1>1, <1>4, <1>5, <1>12, <2>2, SameGroups DEF GenAt
<1>15. op = "load_actor" \/ Common(r)' = Common(r)
  BY <1>2, <1>4 DEF Common
<1> QED
  BY <1>1, <1>2, <1>4, <1>9, <1>10, <1>11, <1>13, <1>14, <1>15, StreamHere DEF RankAt

\* The states of training and of generation change places at Enter and Exit.
LEMMA StreamSwap ==
    ASSUME StreamInv, IndInv', NEW r \in Ranks, Enter(r) \/ Exit(r)
    PROVE  StreamInv'
<1>1. /\ setting' = setting
      /\ op \in Generating /\ op' = op /\ saved' = saved /\ version' = version
      /\ \/ /\ pc[r] = "freed" /\ pc' = [pc EXCEPT ![r] = "entered"]
            /\ trainRng' = [trainRng EXCEPT ![r] = rng[r]]
            /\ rng' = [rng EXCEPT ![r] = genRng[r]] /\ genRng' = genRng
         \/ /\ pc[r] = "generated" /\ pc' = [pc EXCEPT ![r] = "done"]
            /\ genRng' = [genRng EXCEPT ![r] = rng[r]]
            /\ rng' = [rng EXCEPT ![r] = trainRng[r]] /\ trainRng' = trainRng
  BY DEF Enter, Exit, Goes, TrainStateBack, moduleVars
<1>2. rng[r] \in Streams /\ genRng[r] \in Streams /\ trainRng[r] \in Streams
  BY DEF StreamInv, StreamsTyped
<1>3. /\ StreamsTyped'
      /\ \A q \in Ranks : q # r =>
             rng'[q] = rng[q] /\ trainRng'[q] = trainRng[q] /\ genRng'[q] = genRng[q]
      /\ pc[r] = "freed" => trainRng'[r] = rng[r] /\ rng'[r] = genRng[r]
      /\ pc[r] = "generated" => genRng'[r] = rng[r] /\ rng'[r] = trainRng[r]
  BY <1>1, <1>2, Sets DEF StreamInv, StreamsTyped
<1>4. /\ \A q \in Ranks : q # r => pc'[q] = pc[q]
      /\ pc[r] = "freed" => pc'[r] = "entered"
      /\ pc[r] = "generated" => pc'[r] = "done"
      /\ pc[r] \in {"freed", "generated"}
  BY <1>1 DEF StreamInv, IndInv, ModuleInv, Typed
<1>5. /\ op \in Calls /\ op \notin {"init", "update_critic", "update_actor", "load_actor"}
  BY <1>1, CallNames DEF Generating
<1>6. /\ Built(r) /\ Built(r)' /\ ~Updated(r) /\ ~Updated(r)' /\ ~Restored(r) /\ ~Restored(r)'
      /\ ~HalfWay(r) /\ ~HalfWay(r)' /\ (Sampled(r)' <=> Sampled(r))
  BY <1>1, <1>4, <1>5 DEF HalfWay, Updated, Restored, Sampled, Built
<1>7. TrainState(r)' = TrainState(r) /\ GenState(r)' = GenState(r)
  BY <1>1, <1>3, <1>4 DEF TrainState, GenState, Sampling
<1>8. VersionAt(r) /\ TrainAt(r) /\ GenAt(r)
  BY DEF StreamInv, RankAt
<1>9. Before(r)' = Before(r) /\ Spare(r)' = Spare(r) /\ Common(r)' = Common(r)
  BY <1>1, <1>6, <1>7 DEF Before, Spare, Common
<1>10. VersionAt(r)'
  BY <1>1, <1>6, <1>8 DEF VersionAt
<1>11. TrainAt(r)'
  BY <1>1, <1>6, <1>7, <1>8 DEF TrainAt
<1>12. GenAt(r)'
  BY <1>1, <1>6, <1>7, <1>8, <1>9, SameGroups DEF GenAt
<1> QED
  BY <1>1, <1>3, <1>4, <1>6, <1>9, <1>10, <1>11, <1>12, StreamHere DEF RankAt

LEMMA StreamGenerate ==
    ASSUME StreamInv, IndInv', NEW r \in Ranks, Generate(r)
    PROVE  StreamInv'
<1>1. /\ setting' = setting
      /\ op \in Generating /\ op' = op /\ saved' = saved /\ version' = version
      /\ pc[r] \in {"entered", "skipped"} /\ pc' = [pc EXCEPT ![r] = "generated"]
      /\ rng' = [rng EXCEPT ![r] = Drawn(rng[r])]
      /\ trainRng' = trainRng /\ genRng' = genRng
  BY DEF Generate, Goes, moduleVars
<1>2. pc[r] = "entered"
  BY <1>1 DEF StreamInv, IndInv, EngineInv, EngineAt
<1>3. pc'[r] = "generated" /\ \A q \in Ranks : q # r => pc'[q] = pc[q]
  BY <1>1 DEF StreamInv, IndInv, ModuleInv, Typed
<1>4. /\ op \in Calls /\ op \in {"generate", "validate"}
      /\ op \notin {"init", "update_critic", "update_actor", "load_actor"}
  BY <1>1, CallNames DEF Generating
<1>5. /\ Built(r) /\ Built(r)' /\ ~Updated(r) /\ ~Updated(r)' /\ ~Restored(r) /\ ~Restored(r)'
      /\ ~HalfWay(r) /\ ~HalfWay(r)' /\ ~Sampled(r) /\ Sampled(r)'
      /\ Sampling(r) /\ Sampling(r)'
  BY <1>1, <1>2, <1>3, <1>4 DEF HalfWay, Updated, Restored, Sampled, Built, Sampling
<1>6. VersionAt(r) /\ TrainAt(r) /\ GenAt(r)
  BY DEF StreamInv, RankAt
<1>7. version[r] \in Nat /\ version[r] <= MaxUpdates /\ MaxUpdates \in Nat
  BY VersionNumbers
<1>8. op = "generate" => version[r] < MaxUpdates
  BY <1>5, <1>6 DEF VersionAt, StepCalls
<1> DEFINE n == rng[r].draws
<1>9. GenState(r) = rng[r] /\ Before(r) = n - 0 /\ n \in Int
  <2>1. rng[r].draws \in Int
    BY BoundsAssumption DEF StreamInv, StreamsTyped, Streams
  <2> QED
    BY <1>5, <2>1 DEF GenState, Before
<1>10. rng[r] = Stream("gen", DpRank(r), n)
  BY <1>5, <1>6, <1>9 DEF GenAt
<1>11. Spare(r) = IF op = "generate" THEN 1 ELSE 0
  BY <1>4 DEF Spare, StepCalls
<1>12. Before(r) \in Nat /\ Before(r) <= 2 * version[r] + Spare(r)
  BY <1>5, <1>6 DEF GenAt
<1> HIDE DEF n
<1>13. n \in Nat /\ n <= 2 * version[r] + Spare(r)
  BY <1>9, <1>12
<1>14. n + 1 \in Nat /\ n + 1 <= 2 * MaxUpdates + 1
  BY <1>7, <1>8, <1>11, <1>13
<1>15. Drawn(rng[r]) = Stream("gen", DpRank(r), n + 1) /\ Drawn(rng[r]) \in Streams
  <2>1. setting \in Settings
    BY DEF StreamInv, IndInv, ModuleInv, Typed
  <2> QED
    BY <1>10, <1>13, <1>14, <2>1, StreamFields, StreamTypes
<1>16. /\ StreamsTyped' /\ rng'[r] = Drawn(rng[r])
       /\ \A q \in Ranks : q # r => rng'[q] = rng[q]
  BY <1>1, <1>15, Sets DEF StreamInv, StreamsTyped
<1>17. GenState(r)' = Stream("gen", DpRank(r), n + 1)
  BY <1>5, <1>15, <1>16 DEF GenState
<1>18. GenState(r)'.draws = n + 1
  BY <1>14, <1>17, StreamFields
<1>19. Before(r)' = Before(r)
  <2>1. Before(r)' = (n + 1) - 1
    BY <1>5, <1>18 DEF Before
  <2> QED
    BY <1>9, <1>13, <2>1, SMT
<1>20. Spare(r)' = Spare(r) /\ Common(r)' = Common(r) /\ TrainState(r)' = TrainState(r)
  BY <1>1, <1>5 DEF Spare, Common, TrainState
<1>21. VersionAt(r)'
  BY <1>1, <1>5, <1>6 DEF VersionAt
<1>22. TrainAt(r)'
  BY <1>1, <1>5, <1>6, <1>20 DEF TrainAt
<1>23. GenAt(r)'
  <2>1. GenState(r)' = Stream("gen", DpRank(r)', GenState(r)'.draws)
    BY <1>1, <1>17, <1>18, SameGroups
  <2>2. Before(r)' \in Nat /\ Before(r)' <= 2 * version'[r] + Spare(r)'
    BY <1>1, <1>12, <1>19, <1>20
  <2> QED
    BY <2>1, <2>2 DEF GenAt
<1> QED
  BY <1>1, <1>3, <1>5, <1>16, <1>19, <1>20, <1>21, <1>22, <1>23, StreamHere DEF RankAt

LEMMA StreamStep == SoundSettings /\ StreamInv /\ [Next]_vars => StreamInv'
<1> SUFFICES ASSUME SoundSettings, StreamInv, [Next]_vars PROVE StreamInv'
  OBVIOUS
<1>0. IndInv'
  BY IndStep DEF StreamInv
<1>1. CASE Submit \/ \E next \in Calls : Call(next)
  BY <1>0, <1>1, StreamSubmit, StreamCall
<1>2. CASE Crash \/ \E r \in Ranks : LayeredRaises(r)
  BY <1>0, <1>2, StreamDown DEF Crash, LayeredRaises
<1>3. ASSUME NEW r \in Ranks, InitModel(r) PROVE StreamInv'
  BY <1>0, <1>3, StreamInitModel
<1>4. ASSUME NEW r \in Ranks, TrainingStep(r) PROVE StreamInv'
  <2>1. CASE UpdateActor(r) \/ UpdateCritic(r)
    BY <1>0, <2>1, StreamUpdate
  <2>2. CASE \E m \in Modules : LoadCheckpoint(r, m)
    BY <1>0, <2>2, StreamLoad
  <2>3. CASE \E m \in Modules : Onload(r, m)
    <3>1. /\ setting' = setting /\ op \in TrainingCalls /\ op' = op /\ saved' = saved
          /\ pc[r] = "todo" /\ pc' = [pc EXCEPT ![r] = "loaded"]
          /\ UNCHANGED <<version, rng, trainRng, genRng>>
      BY <2>3 DEF Onload, Goes, managerVars
    <3> QED
      BY <1>0, <3>1, StreamQuiet
  <2>4. CASE \E m \in Modules : Offload(r, m)
    <3>1. /\ setting' = setting /\ op \in TrainingCalls /\ op' = op /\ saved' = saved
          /\ pc[r] = "used" /\ pc' = [pc EXCEPT ![r] = "done"]
          /\ UNCHANGED <<version, rng, trainRng, genRng>>
      BY <2>4 DEF Offload, Goes, managerVars
    <3> QED
      BY <1>0, <3>1, StreamQuiet
  <2>5. CASE ComputeLogProb(r) \/ ComputeRefLogProb(r) \/ ComputeValues(r) \/ SaveCheckpoint(r)
    <3>1. /\ op \in TrainingCalls \ {"update_critic", "update_actor", "load_actor"}
          /\ setting' = setting /\ op' = op /\ saved' = saved
          /\ pc[r] = "loaded" /\ pc' = [pc EXCEPT ![r] = "used"]
          /\ UNCHANGED <<version, rng, trainRng, genRng>>
      BY <2>5, CallNames DEF ComputeLogProb, ComputeRefLogProb, ComputeValues, SaveCheckpoint,
         Computes, Goes, moduleVars
    <3> QED
      BY <1>0, <3>1, StreamQuiet
  <2> QED
    BY <1>4, <2>1, <2>2, <2>3, <2>4, <2>5 DEF TrainingStep
<1>5. ASSUME NEW r \in Ranks, GenerationStep(r), ~LayeredRaises(r) PROVE StreamInv'
  <2>1. CASE WakeUp(r)
    <3>1. pc[r] = "todo" /\ pc' = [pc EXCEPT ![r] = "loaded"]
      BY <2>1, NotAwake DEF WakeUp, StreamInv
    <3>2. /\ setting' = setting /\ op \in Generating /\ op' = op /\ saved' = saved
          /\ UNCHANGED <<version, rng, trainRng, genRng>>
      BY <2>1 DEF WakeUp, managerVars
    <3> QED
      BY <1>0, <3>1, <3>2, StreamQuiet
  <2>2. CASE Sync(r)
    <3>1. /\ setting' = setting /\ op \in Generating /\ op' = op /\ saved' = saved
          /\ pc[r] = "loaded" /\ pc' = [pc EXCEPT ![r] = "synced"]
          /\ UNCHANGED <<version, rng, trainRng, genRng>>
      BY <2>2 DEF Sync, Goes, moduleVars
    <3> QED
      BY <1>0, <3>1, StreamQuiet
  <2>3. CASE Free(r)
    <3>1. /\ setting' = setting /\ op \in Generating /\ op' = op /\ saved' = saved
          /\ pc[r] = "synced" /\ pc' = [pc EXCEPT ![r] = "freed"]
          /\ UNCHANGED <<version, rng, trainRng, genRng>>
      BY <2>3 DEF Free, Goes, managerVars
    <3> QED
      BY <1>0, <3>1, StreamQuiet
  <2>4. CASE Enter(r) \/ Exit(r)
    BY <1>0, <2>4, StreamSwap
  <2>5. CASE Generate(r)
    BY <1>0, <2>5, StreamGenerate
  <2> QED
    BY <1>5, <2>1, <2>2, <2>3, <2>4, <2>5 DEF GenerationStep
<1>6. CASE UNCHANGED vars
  <2>1. /\ setting' = setting /\ op' = op /\ saved' = saved /\ StreamsTyped'
        /\ UNCHANGED <<pc, version, rng, trainRng, genRng>>
    BY <1>6 DEF vars, moduleVars, managerVars, StreamInv, StreamsTyped
  <2>2. ASSUME NEW q \in Ranks
        PROVE  /\ RankAt(q)' /\ Common(q)' = Common(q) /\ Before(q)' = Before(q)
               /\ Built(q)' <=> Built(q)
    BY <2>1, StreamElsewhere
  <2>3. Agreed'
    BY <2>1, <2>2, Shape, SameGroups DEF StreamInv, Agreed
  <2>4. SavedStreams'
    BY <2>1 DEF StreamInv, SavedStreams
  <2> QED
    BY <1>0, <2>1, <2>2, <2>3, <2>4 DEF StreamInv
<1> QED
  BY <1>1, <1>2, <1>3, <1>4, <1>5, <1>6 DEF Next, RankStep

\* In every sound configuration generation never draws from the training
\* stream, the ranks of a tensor-parallel group sample from one stream, and the
\* random numbers of an update depend only on how many updates there were,
\* wherever the job crashed and was resumed.
THEOREM AlwaysStreamsApart ==
    ASSUME SoundSettings PROVE Spec => []StreamsApart
<1>1. StreamInv => StreamsApart
  <2> SUFFICES ASSUME StreamInv, NEW r \in Ranks
               PROVE  /\ op \in {"update_critic", "update_actor"} /\ pc[r] = "loaded" =>
                            rng[r] = Stream("train", r, 2 * version[r] +
                                                (IF op = "update_actor" THEN 1 ELSE 0))
                      /\ op \in Generating /\ pc[r] \in {"entered", "skipped"} =>
                            /\ rng[r].kind = "gen"
                            /\ \A q \in TpGroup(r) : pc[q] = "entered" => rng[q] = rng[r]
    BY DEF StreamsApart
  <2>1. op \in {"update_critic", "update_actor"} /\ pc[r] = "loaded" =>
            rng[r] = Stream("train", r, 2 * version[r] + (IF op = "update_actor" THEN 1 ELSE 0))
    <3> SUFFICES ASSUME op \in {"update_critic", "update_actor"}, pc[r] = "loaded"
                 PROVE  rng[r] = Stream("train", r, 2 * version[r] +
                                             (IF op = "update_actor" THEN 1 ELSE 0))
      OBVIOUS
    <3>1. ~Sampling(r) /\ (HalfWay(r) <=> op = "update_actor") /\ TrainAt(r)
      BY DEF Sampling, HalfWay, StreamInv, RankAt
    <3> QED
      BY <3>1 DEF TrainAt, TrainState
  <2>2. ASSUME op \in Generating, pc[r] \in {"entered", "skipped"}
        PROVE  /\ rng[r].kind = "gen"
               /\ \A q \in TpGroup(r) : pc[q] = "entered" => rng[q] = rng[r]
    <3>1. ASSUME NEW q \in Ranks, pc[q] = "entered"
          PROVE  /\ Built(q) /\ rng[q] = Stream("gen", DpRank(q), rng[q].draws)
                 /\ Before(q) = rng[q].draws - 0 /\ rng[q].draws \in Int
      <4>1. Built(q) /\ Sampling(q) /\ ~Sampled(q) /\ GenAt(q) /\ GenState(q) = rng[q]
        BY <2>2, <3>1, CallKinds DEF Built, Sampling, Sampled, StreamInv, RankAt, GenState
      <4>2. rng[q].draws \in Int
        BY BoundsAssumption DEF StreamInv, StreamsTyped, Streams
      <4> QED
        BY <4>1, <4>2 DEF GenAt, Before
    <3>2. pc[r] = "entered"
      BY <2>2 DEF StreamInv, IndInv, EngineInv, EngineAt
    <3>3. rng[r].kind = "gen"
      <4>1. \A id, n : Stream("gen", id, n).kind = "gen"
        BY DEF Stream
      <4> QED
        BY <3>1, <3>2, <4>1, Zenon
    <3>4. ASSUME NEW q \in TpGroup(r), pc[q] = "entered" PROVE rng[q] = rng[r]
      <4>1. q \in Ranks /\ DpRank(q) = DpRank(r)
        BY DEF TpGroup
      <4>2. Before(q) = Before(r)
        BY <3>1, <3>2, <3>4, <4>1 DEF StreamInv, Agreed
      <4>3. rng[q].draws = rng[r].draws
        BY <3>1, <3>2, <3>4, <4>1, <4>2
      <4> QED
        BY <3>1, <3>2, <3>4, <4>1, <4>3
    <3> QED
      BY <3>3, <3>4
  <2> QED
    BY <2>1, <2>2
<1> QED
  BY <1>1, StreamInit, StreamStep, PTL DEF Spec

(***************************************************************************)
(* Type correctness.                                                       *)
(***************************************************************************)

\* The engine's weights are some version of the actor's.
WeightsTyped ==
    /\ base \in [Ranks -> -1..MaxUpdates] /\ adapter \in [Ranks -> 0..MaxUpdates]
    /\ run \in 0..MaxRuns

LEMMA WeightsInit == Init => WeightsTyped
  BY BoundsAssumption DEF Init, All, WeightsTyped

LEMMA WeightsStep == StreamInv /\ WeightsTyped /\ [Next]_vars => WeightsTyped'
<1> SUFFICES ASSUME StreamInv, WeightsTyped, [Next]_vars PROVE WeightsTyped'
  OBVIOUS
<1>1. MaxUpdates \in Nat /\ MaxRuns \in Nat
  BY BoundsAssumption
<1>2. CASE Crash \/ \E r \in Ranks : LayeredRaises(r)
  BY <1>1, <1>2 DEF Crash, LayeredRaises, Down, All, WeightsTyped
<1>3. CASE Submit \/ \E next \in Calls : Call(next)
  BY <1>1, <1>3 DEF Submit, Call, managerVars, WeightsTyped
<1>4. ASSUME NEW r \in Ranks, InitModel(r) PROVE WeightsTyped'
  BY <1>1, <1>4 DEF InitModel, WeightsTyped
<1>5. ASSUME NEW r \in Ranks, TrainingStep(r) PROVE WeightsTyped'
  BY <1>5 DEF TrainingStep, Onload, Offload, LoadCheckpoint, Computes, ComputeLogProb,
     ComputeRefLogProb, ComputeValues, UpdateActor, UpdateCritic, SaveCheckpoint, managerVars,
     WeightsTyped
<1>6. ASSUME NEW r \in Ranks, Sync(r) PROVE WeightsTyped'
  <2>1. version[r] \in 0..MaxUpdates /\ NewBase(r) \in -1..MaxUpdates
    BY VersionNumbers DEF NewBase
  <2>2. CASE AdapterOnly(r)
    BY <1>6, <2>1, <2>2 DEF Sync, WeightsTyped
  <2>3. CASE ~AdapterOnly(r)
    BY <1>6, <2>1, <2>3 DEF Sync, WeightsTyped
  <2> QED
    BY <2>2, <2>3
<1>7. ASSUME NEW r \in Ranks, WakeUp(r) \/ Free(r) \/ Enter(r) \/ Generate(r) \/ Exit(r)
      PROVE  WeightsTyped'
  BY <1>7 DEF WakeUp, Free, Enter, Generate, Exit, managerVars, WeightsTyped
<1>8. CASE UNCHANGED vars
  BY <1>8 DEF vars, managerVars, WeightsTyped
<1> QED
  BY <1>2, <1>3, <1>4, <1>5, <1>6, <1>7, <1>8 DEF Next, RankStep, GenerationStep

\* Type correctness of the hybrid engine in every sound configuration: every
\* stream, the saved ones too, has been drawn from at most twice per update.
THEOREM TypeCorrect ==
    ASSUME SoundSettings PROVE Spec => []TypeOK
<1>1. StreamInv /\ WeightsTyped => TypeOK
  <2> SUFFICES ASSUME StreamInv, WeightsTyped PROVE TypeOK
    OBVIOUS
  <2>1. version \in [Ranks -> 0..MaxUpdates]
    <3>1. \A r \in Ranks : version[r] \in 0..MaxUpdates
      BY VersionNumbers
    <3> QED
      BY <3>1 DEF StreamInv, IndInv, ModuleInv, Typed
  <2>2. saved \in [version : 0..MaxUpdates, rng : [Ranks -> Streams]]
    <3>1. SavedStreams
      BY DEF StreamInv
    <3>2. 2 * saved.version \in Nat /\ 2 * saved.version <= 2 * MaxUpdates
      BY <3>1, BoundsAssumption DEF SavedStreams
    <3>3. \A r \in Ranks : Stream("train", r, 2 * saved.version) \in Streams
      BY <3>2, StreamTypes
    <3>4. saved.rng \in [Ranks -> Streams]
      BY <3>1, <3>3 DEF SavedStreams
    <3> QED
      BY <3>1, <3>4 DEF SavedStreams
  <2> QED
    BY <2>1, <2>2
       DEF TypeOK, StreamInv, IndInv, ModuleInv, Typed, Locations, StreamsTyped, WeightsTyped
<1> QED
  BY <1>1, StreamInit, StreamStep, WeightsInit, WeightsStep, PTL DEF Spec
=============================================================================
