----------------------------- MODULE Checkpoint -----------------------------
(***************************************************************************)
(* The PPO driver loop of RayPPOTrainer.fit with the checkpoint protocol   *)
(* it runs against the file system: FSDPCheckpointManager on every rank of *)
(* the actor's and the critic's worker group, the data.pt file, and the    *)
(* tracker file latest_checkpointed_iteration.txt, with crashes anywhere   *)
(* and resubmitted runs that load what the earlier runs left behind.       *)
(*                                                                         *)
(* A shard is the model, optimizer and extra-state files one rank writes   *)
(* into global_step_<s>/<role>; its value is the run that wrote all of it, *)
(* Missing, or Torn while only some of it has been written.                *)
(***************************************************************************)
EXTENDS Integers, Sequences, FiniteSets

CONSTANTS
    WorldSize,        \* ranks of a worker group
    UseCritic,        \* self.use_critic
    MaxKeep,          \* max_actor_ckpt_to_keep, max_critic_ckpt_to_keep; 0 is null
    SaveFreq,         \* trainer.save_freq; 0 stands for every value <= 0
    BatchesPerEpoch,  \* len(self.train_dataloader)
    TotalEpochs,      \* trainer.total_epochs
    TotalSteps,       \* self.total_training_steps
    Shuffle,          \* data.shuffle
    TrackDataset,     \* actor_rollout_ref.track_dataset
    Modes,            \* values of trainer.resume_mode the runs may be started with
    MaxRuns           \* bound: how many times the job is submitted

ASSUME WorldSizeAssumption == WorldSize \in Nat \ {0}
ASSUME FlagAssumption == {UseCritic, Shuffle, TrackDataset} \subseteq BOOLEAN
ASSUME KeepAssumption == MaxKeep \in [{"actor", "critic"} -> Nat]
ASSUME ScheduleAssumption ==
    /\ SaveFreq \in Nat
    /\ BatchesPerEpoch \in Nat \ {0}
    /\ TotalEpochs \in Nat \ {0}
    /\ TotalSteps \in Nat \ {0}
ASSUME ModesAssumption == Modes \subseteq {"auto", "disable", "resume_path"}
ASSUME RunsAssumption == MaxRuns \in Nat \ {0}

Ranks == 0..(WorldSize - 1)
Roles == IF UseCritic THEN {"actor", "critic"} ELSE {"actor"}
\* A run started from global_step_<s> makes at least step s + 1, so each run
\* can go one step past the last.
Steps == 1..(TotalSteps + MaxRuns)

Missing == 0
Torn == -1
NoTracker == 0        \* the tracker file does not exist
EmptyTracker == -1    \* open(..., "w") has truncated it

VARIABLES
    (* the driver process *)
    phase,      \* "down", "train", a role being saved, ..., "finished", "failed"
    gstep,      \* self.global_steps
    epoch,      \* the loop variable of fit
    pos,        \* batches the dataloader has yielded in this epoch
    trackList,  \* the steps in self.track_list
    (* the workers *)
    wpc,        \* where each rank is inside save_checkpoint
    prev,       \* previous_saved_paths of rank 0, for each role
    (* the file system *)
    folders,    \* the global_step_<s> directories that exist
    ckpt,       \* ckpt[s][role][rank]: the shard
    data,       \* data[s]: data.pt, the run that wrote it and the position in it
    tracker,    \* latest_checkpointed_iteration.txt
    pickles,    \* tracked_pickle_<s>.pkl: the steps it records
    (* observation *)
    run,        \* which submission of the job this is
    start,      \* the step this run was resumed from; 0 from scratch
    trained     \* the largest step whose update was ever applied

memory == <<gstep, epoch, pos, trackList, wpc, prev>>
disk == <<folders, ckpt, data, tracker, pickles>>
vars == <<phase, memory, disk, run, start, trained>>

Running == {"train", "actor", "critic", "data", "data_torn", "tracker", "tracker_torn"}
Stopped == {"down", "finished", "failed"}

TypeOK ==
    /\ phase \in Running \cup Stopped
    /\ phase = "critic" => UseCritic
    /\ gstep \in 0..(TotalSteps + MaxRuns)
    /\ epoch \in 0..(TotalEpochs - 1)
    /\ pos \in 0..BatchesPerEpoch
    /\ trackList \subseteq Steps
    /\ wpc \in [Ranks -> {"idle", "enter", "ready", "writing", "wrote"}]
    /\ prev \in [Roles -> Seq(Steps)]
    /\ folders \subseteq Steps
    /\ ckpt \in [Steps -> [Roles -> [Ranks -> -1..MaxRuns]]]
    /\ data \in [Steps -> [run : -1..MaxRuns, pos : 0..BatchesPerEpoch]]
    /\ tracker \in -1..(TotalSteps + MaxRuns)
    /\ pickles \in [Steps -> SUBSET Steps]
    /\ run \in 0..MaxRuns
    /\ start \in 0..(TotalSteps + MaxRuns)
    /\ trained \in 0..(TotalSteps + MaxRuns)

Init ==
    /\ phase = "down"
    /\ gstep = 0 /\ epoch = 0 /\ pos = 0 /\ trackList = {}
    /\ wpc = [k \in Ranks |-> "idle"]
    /\ prev = [ro \in Roles |-> <<>>]
    /\ folders = {}
    /\ ckpt = [s \in Steps |-> [ro \in Roles |-> [k \in Ranks |-> Missing]]]
    /\ data = [s \in Steps |-> [run |-> Missing, pos |-> 0]]
    /\ tracker = NoTracker
    /\ pickles = [s \in Steps |-> {}]
    /\ run = 0
    /\ start = 0
    /\ trained = 0

(***************************************************************************)
(* Starting a run: _load_checkpoint.                                       *)
(***************************************************************************)

\* find_latest_ckpt_path: 0 is None. int("") raises on an empty tracker.
LatestRaises == tracker = EmptyTracker
Latest_ByListing ==    \* seeded fault: the newest directory, not the tracked one
    IF folders = {} THEN 0 ELSE CHOOSE s \in folders : \A t \in folders : t <= s
Latest == IF tracker \in folders THEN tracker ELSE 0

\* Which folder a run in this mode loads; 0 is "from scratch".
LoadTargets(mode) ==
    {s \in {0} \cup Steps :
        \/ mode = "disable" /\ s = 0
        \/ mode = "auto" /\ s = Latest
        \/ mode = "resume_path" /\ s \in folders}

ShardsLoad(s) == \A ro \in Roles, k \in Ranks : ckpt[s][ro][k] >= 1

\* The process ends, however it ends: nothing in memory survives.
Stop(how) ==
    /\ phase' = how
    /\ gstep' = 0 /\ epoch' = 0 /\ pos' = 0 /\ trackList' = {}
    /\ wpc' = [k \in Ranks |-> "idle"]
    /\ prev' = [ro \in Roles |-> <<>>]

\* The run enters the training loop: self.global_steps += 1, epoch 0.
EnterLoop(s, p) ==
    /\ phase' = "train"
    /\ gstep' = s + 1
    /\ epoch' = 0 /\ pos' = p
    /\ run' = run + 1
    /\ start' = s
    /\ UNCHANGED <<trackList, wpc, prev, disk, trained>>

StartFromScratch ==
    /\ phase \in Stopped /\ run < MaxRuns
    /\ \E mode \in Modes :
          /\ mode = "disable" \/ ~LatestRaises
          /\ 0 \in LoadTargets(mode)
    /\ EnterLoop(0, 0)

\* load_state_dict restores the position in the pass. The dataloader starts
\* from scratch when there is no data.pt.
RestoredPos_NotLoaded(s) == 0    \* seeded fault: load_state_dict is not called
RestoredPos(s) == IF data[s].run = Missing THEN 0 ELSE data[s].pos

Resume(s) ==
    /\ phase \in Stopped /\ run < MaxRuns
    /\ ~LatestRaises
    /\ \E mode \in Modes : s \in LoadTargets(mode)
    /\ ShardsLoad(s)
    /\ data[s].run # Torn
    /\ EnterLoop(s, RestoredPos(s))

\* int("") in find_latest_ckpt_path, or torch.load of a missing or torn file.
LoadFails ==
    /\ phase \in Stopped /\ run < MaxRuns
    /\ \E mode \in Modes \ {"disable"} :
          \/ LatestRaises
          \/ \E s \in LoadTargets(mode) \ {0} : ~ShardsLoad(s) \/ data[s].run = Torn
    /\ Stop("failed")
    /\ run' = run + 1
    /\ UNCHANGED <<disk, start, trained>>

(***************************************************************************)
(* The training loop of fit.                                               *)
(***************************************************************************)

IsLastStep == gstep >= TotalSteps
DueToSave_LastOnly(s) == SaveFreq > 0 /\ s >= TotalSteps    \* seeded fault: save_freq is ignored
DueToSave(s) == SaveFreq > 0 /\ (s >= TotalSteps \/ s % SaveFreq = 0)
SaveNow == DueToSave(gstep)

\* The end of the loop body: global_steps += 1, return after the last step.
FinishStep ==
    IF IsLastStep
    THEN Stop("finished")
    ELSE /\ phase' = "train"
         /\ gstep' = gstep + 1
         /\ UNCHANGED <<epoch, wpc, prev>>

\* The tracked rollouts are appended, and dumped when the step is one that
\* saves: before the update, and so before the checkpoint of the same step.
Tracked == trackList \cup {gstep}

TrackRollouts ==
    \/ /\ ~TrackDataset
       /\ UNCHANGED <<trackList, pickles>>
    \/ /\ TrackDataset /\ SaveNow
       /\ pickles' = [pickles EXCEPT ![gstep] = Tracked]
       /\ trackList' = {}
    \/ /\ TrackDataset /\ ~SaveNow
       /\ trackList' = IF IsLastStep THEN {} ELSE Tracked
       /\ UNCHANGED pickles

BatchLeft_OffByOne == pos <= BatchesPerEpoch    \* seeded fault
BatchLeft == pos < BatchesPerEpoch

\* One iteration up to the save: a batch is drawn, generated, scored and
\* the critic and the actor are updated with it.
TrainStep ==
    /\ phase = "train" /\ BatchLeft
    /\ trained' = IF gstep > trained THEN gstep ELSE trained
    /\ TrackRollouts
    /\ IF SaveNow
       THEN /\ phase' = "actor"
            /\ pos' = pos + 1
            /\ wpc' = [k \in Ranks |-> "enter"]
            /\ UNCHANGED <<gstep, epoch, prev>>
       ELSE /\ FinishStep
            /\ ~IsLastStep => pos' = pos + 1
    /\ UNCHANGED <<folders, ckpt, data, tracker, run, start>>

\* The dataloader is exhausted: the next epoch, or the end of fit without a
\* last step.
EpochEnd ==
    /\ phase = "train" /\ pos = BatchesPerEpoch
    /\ IF epoch + 1 < TotalEpochs
       THEN /\ epoch' = epoch + 1
            /\ pos' = 0
            /\ UNCHANGED <<phase, gstep, trackList, wpc, prev>>
       ELSE Stop("finished")
    /\ UNCHANGED <<disk, run, start, trained>>

(***************************************************************************)
(* save_checkpoint of the role being saved, run by every rank.             *)
(***************************************************************************)

KeepStart_TooLate(ro) ==    \* seeded fault: > for >=
    IF MaxKeep[ro] > 0 /\ Len(prev[ro]) > MaxKeep[ro]
    THEN Len(prev[ro]) - MaxKeep[ro]
    ELSE 0
KeepStart_OneTooMany(ro) ==    \* seeded fault: + 2 for + 1
    IF MaxKeep[ro] > 0 /\ Len(prev[ro]) >= MaxKeep[ro]
    THEN Len(prev[ro]) - MaxKeep[ro] + 2
    ELSE 0
KeepStart(ro) ==
    IF MaxKeep[ro] > 0 /\ Len(prev[ro]) >= MaxKeep[ro]
    THEN Len(prev[ro]) - MaxKeep[ro] + 1
    ELSE 0

\* previous_saved_paths[:keep_start]
Doomed(ro) == {prev[ro][i] : i \in 1..KeepStart(ro)}

\* shutil.rmtree of the rotated paths, shard by shard.
RemoveShard(s, k) ==
    /\ phase \in Roles /\ wpc[0] = "enter"
    /\ s \in Doomed(phase)
    /\ ckpt[s][phase][k] # Missing
    /\ ckpt' = [ckpt EXCEPT ![s][phase][k] = Missing]
    /\ UNCHANGED <<phase, memory, folders, data, tracker, pickles, run, start, trained>>

\* Rank 0 forgets the rotated paths once they are removed; every rank makes
\* the new directory and then waits at the first barrier.
MakeDir(k) ==
    /\ phase \in Roles /\ wpc[k] = "enter"
    /\ IF k = 0
       THEN /\ \A s \in Doomed(phase), j \in Ranks : ckpt[s][phase][j] = Missing
            /\ prev' = [prev EXCEPT ![phase] =
                            SubSeq(@, KeepStart(phase) + 1, Len(@))]
       ELSE UNCHANGED prev
    /\ folders' = folders \cup {gstep}
    /\ wpc' = [wpc EXCEPT ![k] = "ready"]
    /\ UNCHANGED <<phase, gstep, epoch, pos, trackList, ckpt, data, tracker, pickles,
                   run, start, trained>>

\* torch.distributed.barrier: open once every rank has made the directory.
EntryBarrierOpen_Again == \A j \in Ranks : wpc[j] = "ready"    \* seeded fault: waits for ranks that left
EntryBarrierOpen == \A j \in Ranks : wpc[j] # "enter"

\* The barrier has opened: this rank writes its files.
BeginShard(k) ==
    /\ phase \in Roles /\ wpc[k] = "ready"
    /\ EntryBarrierOpen
    /\ ckpt' = [ckpt EXCEPT ![gstep][phase][k] = Torn]
    /\ wpc' = [wpc EXCEPT ![k] = "writing"]
    /\ UNCHANGED <<phase, gstep, epoch, pos, trackList, prev, folders, data, tracker,
                   pickles, run, start, trained>>

EndShard(k) ==
    /\ phase \in Roles /\ wpc[k] = "writing"
    /\ ckpt' = [ckpt EXCEPT ![gstep][phase][k] = run]
    /\ wpc' = [wpc EXCEPT ![k] = "wrote"]
    /\ UNCHANGED <<phase, gstep, epoch, pos, trackList, prev, folders, data, tracker,
                   pickles, run, start, trained>>

\* The second barrier has opened, the path is remembered and the call returns
\* to the driver, which saves the critic next or goes on to data.pt.
RoleSaved ==
    /\ phase \in Roles
    /\ \A k \in Ranks : wpc[k] = "wrote"
    /\ prev' = [prev EXCEPT ![phase] = Append(@, gstep)]
    /\ IF phase = "actor" /\ UseCritic
       THEN phase' = "critic" /\ wpc' = [k \in Ranks |-> "enter"]
       ELSE phase' = "data" /\ wpc' = [k \in Ranks |-> "idle"]
    /\ UNCHANGED <<gstep, epoch, pos, trackList, disk, run, start, trained>>

(***************************************************************************)
(* The rest of _save_checkpoint, on the driver.                            *)
(***************************************************************************)

BeginData ==
    /\ phase = "data"
    /\ phase' = "data_torn"
    /\ folders' = folders \cup {gstep}
    /\ data' = [data EXCEPT ![gstep].run = Torn]
    /\ UNCHANGED <<memory, ckpt, tracker, pickles, run, start, trained>>

EndData ==
    /\ phase = "data_torn"
    /\ phase' = "tracker"
    /\ data' = [data EXCEPT ![gstep] = [run |-> run, pos |-> pos]]
    /\ UNCHANGED <<memory, folders, ckpt, tracker, pickles, run, start, trained>>

TruncateTracker ==
    /\ phase = "tracker"
    /\ phase' = "tracker_torn"
    /\ tracker' = EmptyTracker
    /\ UNCHANGED <<memory, folders, ckpt, data, pickles, run, start, trained>>

\* The new iteration is in the file, and the step ends.
WriteTracker ==
    /\ phase = "tracker_torn"
    /\ tracker' = gstep
    /\ FinishStep
    /\ ~IsLastStep => UNCHANGED <<pos, trackList>>
    /\ UNCHANGED <<folders, ckpt, data, pickles, run, start, trained>>

(***************************************************************************)
(* A worker or the driver dies: the job goes down as a whole.              *)
(***************************************************************************)

Crash ==
    /\ phase \in Running
    /\ Stop("down")
    /\ UNCHANGED <<disk, run, start, trained>>

RunStep ==
    \/ TrainStep \/ EpochEnd
    \/ \E s \in Steps, k \in Ranks : RemoveShard(s, k)
    \/ \E k \in Ranks : MakeDir(k) \/ BeginShard(k) \/ EndShard(k)
    \/ RoleSaved \/ BeginData \/ EndData \/ TruncateTracker \/ WriteTracker

Next ==
    \/ StartFromScratch
    \/ \E s \in Steps : Resume(s)
    \/ LoadFails
    \/ RunStep
    \/ Crash

Spec == Init /\ [][Next]_vars

\* The driver and the ranks keep running while the job is up. Nothing in the
\* code resubmits a job or makes it crash, so neither is fair.
FairSpec == Spec /\ WF_vars(RunStep)

(***************************************************************************)
(* Properties.                                                             *)
(***************************************************************************)

\* Step s can be restored: every shard of every role and data.pt were written,
\* and by one and the same run.
RestorableFrom(s, r) ==
    /\ \A ro \in Roles, k \in Ranks : ckpt[s][ro][k] = r
    /\ data[s].run = r

\* The step the tracker names can be restored, whenever the job dies: neither
\* the rotation of old checkpoints nor the writing of a new one, on any rank
\* of either role, ever touches the checkpoint a resumed run would load.
TrackedRestorable ==
    tracker > 0 => \E r \in 1..run : RestorableFrom(tracker, r)

\* A run never has more checkpoints of a role on disk than the limit it was
\* given, the one it is writing included.
DirsOfRun(ro) ==
    {s \in Steps : \E k \in Ranks :
        ckpt[s][ro][k] = run \/ (s = gstep /\ phase = ro /\ wpc[k] = "writing")}

RunKeepsAtMost ==
    \A ro \in Roles :
        run > 0 /\ MaxKeep[ro] > 0 => Cardinality(DirsOfRun(ro)) <= MaxKeep[ro]

\* A crash costs at most one save interval: a run that has resumed re-does no
\* more than SaveFreq of the steps that were ever trained.
WorkLossBounded ==
    phase = "train" /\ SaveFreq > 0 => trained - (gstep - 1) <= SaveFreq

\* The batch the dataloader yields next. RandomSampler permutes the data anew
\* in every pass of a process, from a generator the process seeds alike: the
\* permutation is known by its number in the process.
Batch == <<IF Shuffle THEN epoch ELSE 0, pos>>

\* The batch step g trains on in a job that is never interrupted.
OwnBatch(g) ==
    <<IF Shuffle THEN (g - 1) \div BatchesPerEpoch ELSE 0, (g - 1) % BatchesPerEpoch>>

\* The run draws its data in the order of the uninterrupted job: no data.pt
\* brings back the permutation of a later pass than the first.
SameOrder == Shuffle => start <= BatchesPerEpoch

\* Whatever crashes happened, step g trains at the place in the pass where it
\* would have been in a run that never crashed; and it trains on the very same
\* batch, none skipped or repeated, where the data is not shuffled or the run
\* was resumed from within, or at the end of, the first pass. With data.shuffle
\* a run resumed later draws its prompts in another order, and some again.
DataAligned ==
    phase = "train" /\ pos < BatchesPerEpoch =>
        /\ pos = (gstep - 1) % BatchesPerEpoch
        /\ SameOrder => Batch = OwnBatch(gstep)

\* A running fit either crashes or returns: no rank is left at a barrier, and
\* the rotation ends.
RunEnds == phase \in Running ~> phase \in Stopped

\* The files, the barriers and the rotation implement the one resume point.
Point == INSTANCE ResumePoint WITH
    LastStep <- TotalSteps,
    Due <- DueToSave,
    status <- IF phase \in Running THEN "up" ELSE phase,
    step <- gstep,
    point <- tracker

OneResumePoint == Point!RPSpec
=============================================================================
