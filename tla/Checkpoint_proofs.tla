-------------------------- MODULE Checkpoint_proofs --------------------------
(***************************************************************************)
(* Theorems about Checkpoint, for every number of ranks, every schedule    *)
(* and every number of runs.                                               *)
(***************************************************************************)
EXTENDS Checkpoint, FiniteSetTheorems, TLAPS

\* TypeOK is not inductive alone: a run's global_steps stays within its bound
\* because neither the tracker nor any directory is more than one step per run
\* past the last one.
StepsUpTo(r) == 1..(TotalSteps + r)

Bounds ==
    /\ phase \in Running => gstep \in StepsUpTo(run) /\ run >= 1
    /\ folders \subseteq StepsUpTo(run)
    /\ tracker \in StepsUpTo(run) \cup {NoTracker, EmptyTracker}

TypeInv == TypeOK /\ Bounds

LEMMA TypeInit == Init => TypeInv
BY WorldSizeAssumption, FlagAssumption, KeepAssumption, ScheduleAssumption, RunsAssumption
   DEF Init, TypeInv, TypeOK, Bounds, Running, Stopped, Steps, StepsUpTo, Roles,
       Missing, NoTracker, EmptyTracker

\* While a run is up, its step is an index of the files on disk.
LEMMA RunningStep == TypeInv /\ phase \in Running => gstep \in Steps
BY RunsAssumption, ScheduleAssumption
   DEF TypeInv, TypeOK, Bounds, Steps, StepsUpTo

\* What a checkpoint in progress touches: the roles being saved are phases of a
\* running job.
LEMMA SavingRuns == \A ro \in Roles : ro \in Running
BY DEF Roles, Running

LEMMA LaterRunsReachFurther ==
    \A r1, r2 \in Nat : r1 <= r2 => \A n \in StepsUpTo(r1) : n \in StepsUpTo(r2)
BY ScheduleAssumption DEF StepsUpTo

\* However a run ends, memory is back at its initial value.
LEMMA StopType ==
    ASSUME TypeInv, NEW how \in Stopped, Stop(how)
    PROVE  /\ phase' \in Stopped
           /\ gstep' \in 0..(TotalSteps + MaxRuns)
           /\ epoch' \in 0..(TotalEpochs - 1)
           /\ pos' \in 0..BatchesPerEpoch
           /\ trackList' \subseteq Steps
           /\ wpc' \in [Ranks -> {"idle", "enter", "ready", "writing", "wrote"}]
           /\ prev' \in [Roles -> Seq(Steps)]
           /\ phase' \notin Running
           /\ phase' # "critic"
BY RunsAssumption, ScheduleAssumption DEF Stop, Stopped, Running

LEMMA StopKeepsType ==
    ASSUME TypeInv, NEW how \in Stopped, Stop(how), UNCHANGED <<disk, start, trained>>,
           run' \in {run, run + 1}, run' <= MaxRuns
    PROVE  TypeInv'
<1>1. TypeOK'
  BY StopType, RunsAssumption DEF TypeInv, TypeOK, disk
<1>2. Bounds'
  <2>1. phase' \notin Running
    BY StopType
  <2>2. UNCHANGED <<folders, tracker>>
    BY DEF disk
  <2>3. \A n \in StepsUpTo(run) : n \in StepsUpTo(run')
    <3>1. run \in Nat /\ run' >= run /\ run' \in Nat
      BY RunsAssumption DEF TypeInv, TypeOK
    <3> QED
      BY <3>1, LaterRunsReachFurther
  <2>4. folders' \subseteq StepsUpTo(run')
    BY <2>2, <2>3 DEF TypeInv, Bounds
  <2>5. tracker' \in StepsUpTo(run') \cup {NoTracker, EmptyTracker}
    BY <2>2, <2>3 DEF TypeInv, Bounds
  <2> QED
    BY <2>1, <2>4, <2>5 DEF Bounds, NoTracker, EmptyTracker
<1> QED
  BY <1>1, <1>2 DEF TypeInv

LEMMA EnterLoopType ==
    ASSUME TypeInv, phase \in Stopped, run < MaxRuns,
           NEW s \in {0} \cup StepsUpTo(run), NEW p \in 0..BatchesPerEpoch, EnterLoop(s, p)
    PROVE  TypeInv'
<1> USE RunsAssumption, ScheduleAssumption
<1>1. /\ gstep' = s + 1 /\ run' = run + 1 /\ phase' = "train"
      /\ UNCHANGED <<trackList, wpc, prev, folders, ckpt, data, tracker, pickles, trained>>
      /\ epoch' = 0 /\ pos' = p /\ start' = s
  BY DEF EnterLoop, disk
<1>2. /\ run \in Nat /\ run' \in 1..MaxRuns
      /\ gstep' \in 1..(TotalSteps + run')
      /\ start' \in 0..(TotalSteps + MaxRuns)
  BY <1>1 DEF TypeInv, TypeOK, StepsUpTo
<1>3. TypeOK'
  BY <1>1, <1>2 DEF TypeInv, TypeOK, Running
<1>4. Bounds'
  BY <1>1, <1>2 DEF TypeInv, Bounds, StepsUpTo, NoTracker, EmptyTracker
<1> QED
  BY <1>3, <1>4 DEF TypeInv

\* Writing one shard, or removing one, keeps the shape of the directory.
LEMMA ShardType ==
    ASSUME TypeInv, NEW s \in Steps, NEW ro \in Roles, NEW k \in Ranks,
           NEW v \in -1..MaxRuns
    PROVE  [ckpt EXCEPT ![s][ro][k] = v] \in [Steps -> [Roles -> [Ranks -> -1..MaxRuns]]]
BY DEF TypeInv, TypeOK

\* Every action of a step takes the loop on or returns from fit.
LEMMA FinishStepType ==
    ASSUME TypeInv, phase \in Running, FinishStep, ~IsLastStep => trackList' \subseteq Steps,
           ~IsLastStep => pos' \in 0..BatchesPerEpoch
    PROVE  /\ phase' \in Running \cup Stopped
           /\ phase' # "critic"
           /\ gstep' \in 0..(TotalSteps + MaxRuns)
           /\ epoch' \in 0..(TotalEpochs - 1)
           /\ pos' \in 0..BatchesPerEpoch
           /\ trackList' \subseteq Steps
           /\ wpc' \in [Ranks -> {"idle", "enter", "ready", "writing", "wrote"}]
           /\ prev' \in [Roles -> Seq(Steps)]
           /\ phase' \in Running => gstep' \in StepsUpTo(run)
<1> USE RunsAssumption, ScheduleAssumption
<1>1. CASE IsLastStep
  <2>1. "finished" \in Stopped /\ Stop("finished")
    BY <1>1 DEF FinishStep, Stopped
  <2> QED
    BY <2>1, StopType
<1>2. CASE ~IsLastStep
  <2>1. gstep \in StepsUpTo(run) /\ gstep < TotalSteps /\ run \in Nat
    BY <1>2 DEF IsLastStep, TypeInv, TypeOK, Bounds, StepsUpTo
  <2>2. gstep' = gstep + 1 /\ phase' = "train" /\ UNCHANGED <<epoch, wpc, prev>>
    BY <1>2 DEF FinishStep
  <2> QED
    BY <1>2, <2>1, <2>2 DEF TypeInv, TypeOK, StepsUpTo, Running
<1> QED
  BY <1>1, <1>2

LEMMA TypeStep == TypeInv /\ [Next]_vars => TypeInv'
<1> SUFFICES ASSUME TypeInv, [Next]_vars PROVE TypeInv'
  OBVIOUS
<1> USE RunsAssumption, ScheduleAssumption, FlagAssumption, WorldSizeAssumption
<1>1. CASE StartFromScratch
  BY <1>1, EnterLoopType DEF StartFromScratch
<1>2. ASSUME NEW s \in Steps, Resume(s) PROVE TypeInv'
  <2>1. s \in {0} \cup StepsUpTo(run)
    BY <1>2 DEF Resume, LoadTargets, Latest, TypeInv, Bounds
  <2>2. RestoredPos(s) \in 0..BatchesPerEpoch
    BY DEF RestoredPos, TypeInv, TypeOK
  <2> QED
    BY <1>2, <2>1, <2>2, EnterLoopType DEF Resume
<1>3. CASE LoadFails
  <2>1. "failed" \in Stopped /\ Stop("failed") /\ run' = run + 1 /\ run' <= MaxRuns
    BY <1>3 DEF LoadFails, Stopped, TypeInv, TypeOK
  <2> QED
    BY <1>3, <2>1, StopKeepsType DEF LoadFails
<1>4. CASE TrainStep
  <2>1. phase \in Running /\ gstep \in Steps
    BY <1>4, RunningStep DEF TrainStep, Running
  <2>2. trained' \in 0..(TotalSteps + MaxRuns) /\ pickles' \in [Steps -> SUBSET Steps]
    <3>1. trained' \in 0..(TotalSteps + MaxRuns)
      BY <1>4, <2>1 DEF TrainStep, TypeInv, TypeOK, Steps
    <3>2. Tracked \in SUBSET Steps
      BY <2>1 DEF Tracked, TypeInv, TypeOK
    <3>3. pickles' = pickles \/ pickles' = [pickles EXCEPT ![gstep] = Tracked]
      BY <1>4 DEF TrainStep, TrackRollouts
    <3> QED
      BY <2>1, <3>1, <3>2, <3>3 DEF TypeInv, TypeOK
  <2>3. UNCHANGED <<folders, ckpt, data, tracker, run, start>>
    BY <1>4 DEF TrainStep
  <2>4. pos + 1 \in 0..BatchesPerEpoch
    BY <1>4 DEF TrainStep, BatchLeft, TypeInv, TypeOK
  <2>5. CASE SaveNow
    <3>1. /\ phase' = "actor" /\ pos' = pos + 1 /\ UNCHANGED <<gstep, epoch, prev>>
          /\ wpc' \in [Ranks -> {"idle", "enter", "ready", "writing", "wrote"}]
      BY <1>4, <2>5 DEF TrainStep
    <3>2. trackList' \subseteq Steps
      BY <1>4, <2>5 DEF TrainStep, TrackRollouts, TypeInv, TypeOK
    <3> QED
      BY <2>1, <2>2, <2>3, <2>4, <3>1, <3>2
         DEF TypeInv, TypeOK, Bounds, StepsUpTo, Running
  <2>6. CASE ~SaveNow
    <3>1. FinishStep /\ (~IsLastStep => pos' = pos + 1)
      BY <1>4, <2>6 DEF TrainStep
    <3>2. trackList' \subseteq Steps
      BY <1>4, <2>1, <2>6 DEF TrainStep, TrackRollouts, Tracked, TypeInv, TypeOK
    <3>3. /\ phase' \in Running \cup Stopped /\ phase' # "critic"
          /\ gstep' \in 0..(TotalSteps + MaxRuns)
          /\ epoch' \in 0..(TotalEpochs - 1) /\ pos' \in 0..BatchesPerEpoch
          /\ wpc' \in [Ranks -> {"idle", "enter", "ready", "writing", "wrote"}]
          /\ prev' \in [Roles -> Seq(Steps)]
          /\ phase' \in Running => gstep' \in StepsUpTo(run)
      BY <2>1, <2>4, <3>1, <3>2, FinishStepType
    <3>4. TypeOK'
      BY <2>2, <2>3, <3>2, <3>3 DEF TypeInv, TypeOK
    <3>5. Bounds'
      BY <2>1, <2>3, <3>3 DEF TypeInv, Bounds, StepsUpTo
    <3> QED
      BY <3>4, <3>5 DEF TypeInv
  <2> QED
    BY <2>5, <2>6
<1>5. CASE EpochEnd
  <2>1. CASE epoch + 1 < TotalEpochs
    <3>1. /\ epoch' = epoch + 1 /\ pos' = 0
          /\ UNCHANGED <<phase, gstep, trackList, wpc, prev, disk, run, start, trained>>
      BY <1>5, <2>1 DEF EpochEnd
    <3>2. TypeOK'
      BY <2>1, <3>1 DEF TypeInv, TypeOK, disk
    <3>3. Bounds'
      BY <3>1 DEF TypeInv, Bounds, StepsUpTo, disk
    <3> QED
      BY <3>2, <3>3 DEF TypeInv
  <2>2. CASE ~(epoch + 1 < TotalEpochs)
    <3>1. "finished" \in Stopped /\ Stop("finished") /\ run' = run /\ run' <= MaxRuns
      BY <1>5, <2>2 DEF EpochEnd, Stopped, TypeInv, TypeOK
    <3> QED
      BY <1>5, <3>1, StopKeepsType DEF EpochEnd
  <2> QED
    BY <2>1, <2>2
<1>6. ASSUME NEW s \in Steps, NEW k \in Ranks, RemoveShard(s, k) PROVE TypeInv'
  <2>1. phase \in Roles /\ Missing \in -1..MaxRuns
    BY <1>6 DEF RemoveShard, Missing
  <2>2. ckpt' \in [Steps -> [Roles -> [Ranks -> -1..MaxRuns]]]
    BY <1>6, <2>1, ShardType DEF RemoveShard
  <2>3. UNCHANGED <<phase, memory, folders, data, tracker, pickles, run, start, trained>>
    BY <1>6 DEF RemoveShard
  <2>4. TypeOK'
    BY <2>2, <2>3 DEF TypeInv, TypeOK, memory
  <2>5. Bounds'
    BY <2>3 DEF TypeInv, Bounds, StepsUpTo, memory
  <2> QED
    BY <2>4, <2>5 DEF TypeInv
<1>7. ASSUME NEW k \in Ranks, MakeDir(k) PROVE TypeInv'
  <2>1. phase \in Running /\ gstep \in StepsUpTo(run) /\ gstep \in Steps
    BY <1>7, SavingRuns, RunningStep DEF MakeDir, TypeInv, Bounds
  <2>2. prev' \in [Roles -> Seq(Steps)]
    <3>1. phase \in Roles /\ prev[phase] \in Seq(Steps)
      BY <1>7 DEF MakeDir, TypeInv, TypeOK
    <3>2. KeepStart(phase) \in Nat
      BY <3>1, KeepAssumption DEF KeepStart, Roles
    <3>3. SubSeq(prev[phase], KeepStart(phase) + 1, Len(prev[phase])) \in Seq(Steps)
      BY <3>1, <3>2
    <3> QED
      BY <1>7, <3>1, <3>3 DEF MakeDir, TypeInv, TypeOK
  <2>3. wpc' \in [Ranks -> {"idle", "enter", "ready", "writing", "wrote"}]
    BY <1>7 DEF MakeDir, TypeInv, TypeOK
  <2> QED
    BY <1>7, <2>1, <2>2, <2>3 DEF MakeDir, TypeInv, TypeOK, Bounds, StepsUpTo
<1>8. ASSUME NEW k \in Ranks, BeginShard(k) PROVE TypeInv'
  <2>1. phase \in Roles /\ phase \in Running /\ gstep \in Steps /\ Torn \in -1..MaxRuns
    BY <1>8, SavingRuns, RunningStep DEF BeginShard, Torn
  <2> QED
    BY <1>8, <2>1, ShardType DEF BeginShard, TypeInv, TypeOK, Bounds, StepsUpTo
<1>9. ASSUME NEW k \in Ranks, EndShard(k) PROVE TypeInv'
  <2>1. /\ phase \in Roles /\ phase \in Running /\ gstep \in Steps
        /\ run \in -1..MaxRuns
    BY <1>9, SavingRuns, RunningStep DEF EndShard, TypeInv, TypeOK
  <2> QED
    BY <1>9, <2>1, ShardType DEF EndShard, TypeInv, TypeOK, Bounds, StepsUpTo
<1>10. CASE RoleSaved
  <2>1. phase \in Roles /\ phase \in Running /\ gstep \in Steps
    BY <1>10, SavingRuns, RunningStep DEF RoleSaved
  <2>2. Append(prev[phase], gstep) \in Seq(Steps)
    BY <2>1 DEF TypeInv, TypeOK
  <2>3. prev' \in [Roles -> Seq(Steps)]
    BY <1>10, <2>1, <2>2 DEF RoleSaved, TypeInv, TypeOK
  <2>4. /\ wpc' \in [Ranks -> {"idle", "enter", "ready", "writing", "wrote"}]
        /\ phase' \in Running /\ (phase' = "critic" => UseCritic)
    BY <1>10 DEF RoleSaved, Running
  <2> QED
    BY <1>10, <2>1, <2>3, <2>4 DEF RoleSaved, TypeInv, TypeOK, Bounds, disk, StepsUpTo
<1>11. CASE BeginData
  <2>1. phase \in Running /\ gstep \in Steps
    BY <1>11, RunningStep DEF BeginData, Running
  <2>2. data' \in [Steps -> [run : -1..MaxRuns, pos : 0..BatchesPerEpoch]]
    <3>1. data[gstep] \in [run : -1..MaxRuns, pos : 0..BatchesPerEpoch]
      BY <2>1 DEF TypeInv, TypeOK
    <3>2. [data[gstep] EXCEPT !.run = Torn] \in [run : -1..MaxRuns, pos : 0..BatchesPerEpoch]
      BY <3>1 DEF Torn
    <3>3. data' = [data EXCEPT ![gstep] = [data[gstep] EXCEPT !.run = Torn]]
      BY <1>11, <2>1 DEF BeginData, TypeInv, TypeOK
    <3> QED
      BY <2>1, <3>2, <3>3 DEF TypeInv, TypeOK
  <2> QED
    BY <1>11, <2>1, <2>2
       DEF BeginData, TypeInv, TypeOK, Bounds, Running, memory, StepsUpTo
<1>12. CASE EndData
  <2>1. phase \in Running /\ gstep \in Steps
    BY <1>12, RunningStep DEF EndData, Running
  <2>2. data' \in [Steps -> [run : -1..MaxRuns, pos : 0..BatchesPerEpoch]]
    BY <1>12, <2>1 DEF EndData, TypeInv, TypeOK
  <2> QED
    BY <1>12, <2>1, <2>2
       DEF EndData, TypeInv, TypeOK, Bounds, Running, memory, StepsUpTo
<1>13. CASE TruncateTracker
  BY <1>13
     DEF TruncateTracker, TypeInv, TypeOK, Bounds, Running, memory, EmptyTracker, StepsUpTo
<1>14. CASE WriteTracker
  <2>1. phase \in Running /\ gstep \in StepsUpTo(run)
    BY <1>14 DEF WriteTracker, Running, TypeInv, Bounds
  <2>2. /\ FinishStep /\ tracker' = gstep
        /\ UNCHANGED <<folders, ckpt, data, pickles, run, start, trained>>
        /\ ~IsLastStep => UNCHANGED <<pos, trackList>>
    BY <1>14 DEF WriteTracker
  <2>3. /\ phase' \in Running \cup Stopped /\ phase' # "critic"
        /\ gstep' \in 0..(TotalSteps + MaxRuns)
        /\ epoch' \in 0..(TotalEpochs - 1) /\ pos' \in 0..BatchesPerEpoch
        /\ trackList' \subseteq Steps
        /\ wpc' \in [Ranks -> {"idle", "enter", "ready", "writing", "wrote"}]
        /\ prev' \in [Roles -> Seq(Steps)]
        /\ phase' \in Running => gstep' \in StepsUpTo(run)
    BY <2>1, <2>2, FinishStepType DEF TypeInv, TypeOK
  <2>4. tracker' \in -1..(TotalSteps + MaxRuns)
    BY <2>1, <2>2 DEF TypeInv, TypeOK, StepsUpTo
  <2> QED
    BY <2>1, <2>2, <2>3, <2>4 DEF TypeInv, TypeOK, Bounds, StepsUpTo
<1>15. CASE Crash
  <2>1. "down" \in Stopped /\ Stop("down") /\ run' = run /\ run' <= MaxRuns
    BY <1>15 DEF Crash, Stopped, TypeInv, TypeOK
  <2> QED
    BY <1>15, <2>1, StopKeepsType DEF Crash
<1>16. CASE UNCHANGED vars
  BY <1>16 DEF vars, memory, disk, TypeInv, TypeOK, Bounds, StepsUpTo
<1> QED
  BY <1>1, <1>2, <1>3, <1>4, <1>5, <1>6, <1>7, <1>8, <1>9, <1>10, <1>11, <1>12, <1>13,
     <1>14, <1>15, <1>16
     DEF Next, RunStep

\* Type correctness of every run of the job, in every resume mode.
THEOREM TypeCorrect == Spec => []TypeOK
<1>1. TypeInv => TypeOK
  BY DEF TypeInv
<1> QED
  BY <1>1, TypeInit, TypeStep, PTL DEF Spec

-----------------------------------------------------------------------------
(***************************************************************************)
(* TrackedRestorable.  In mode "auto" a run starts right after the tracked *)
(* step and only writes into later directories, so what could destroy the  *)
(* tracked checkpoint is the rotation.  It spares it because the tracked   *)
(* step, when this run saved it, is the last of previous_saved_paths, and  *)
(* the rotation never reaches the last one unless the limit is 1.          *)
(***************************************************************************)

\* The role has been saved in the current step: its path is in prev.
Appended(ro) ==
    \/ phase \in {"data", "data_torn", "tracker", "tracker_torn"}
    \/ phase = "critic" /\ ro = "actor"

StoppedInv == phase \in Stopped => \A ro \in Roles : prev[ro] = <<>>

TrackerBehind == phase \in Running => tracker < gstep

FolderInv ==
    /\ tracker > 0 => tracker \in folders
    /\ phase \in {"data_torn", "tracker", "tracker_torn"} => gstep \in folders

\* The paths this run saved come before the current step, and only the last
\* of them can be the tracked one.
PathsBefore(ro) ==
    /\ ~Appended(ro) => \A i \in 1..Len(prev[ro]) : prev[ro][i] < gstep
    /\ Appended(ro) => \A i \in 1..Len(prev[ro]) :
                            /\ prev[ro][i] <= gstep
                            /\ i < Len(prev[ro]) => prev[ro][i] < gstep

OnlyLastTracked(ro) ==
    ~Appended(ro) => \A i \in 1..(Len(prev[ro]) - 1) : prev[ro][i] # tracker

RotationInv == \A ro \in Roles : PathsBefore(ro) /\ OnlyLastTracked(ro)

\* What has been reported as written is on disk.
SavedInv ==
    /\ phase \in Roles => \A k \in Ranks : wpc[k] = "wrote" => ckpt[gstep][phase][k] = run
    /\ \A ro \in Roles : Appended(ro) => \A k \in Ranks : ckpt[gstep][ro][k] = run
    /\ phase \in {"tracker", "tracker_torn"} => data[gstep].run = run

RestoreInv ==
    /\ TypeInv /\ StoppedInv /\ TrackerBehind /\ FolderInv
    /\ RotationInv /\ SavedInv /\ TrackedRestorable

\* The configurations the theorem is about.
RotationSafe == Modes = {"auto"} /\ \A ro \in Roles : MaxKeep[ro] # 1

\* What the rotation removes is never the tracked checkpoint.
LEMMA DoomedNotTracked ==
    ASSUME RestoreInv, RotationSafe, NEW ro \in Roles, ~Appended(ro), NEW s \in Doomed(ro)
    PROVE  s # tracker /\ s < gstep
<1>1. prev[ro] \in Seq(Steps) /\ MaxKeep[ro] \in Nat /\ MaxKeep[ro] # 1
  BY KeepAssumption DEF RestoreInv, TypeInv, TypeOK, Roles, RotationSafe
<1>2. PICK i \in 1..KeepStart(ro) : s = prev[ro][i]
  BY DEF Doomed
<1>3. i \in 1..(Len(prev[ro]) - 1)
  BY <1>1, <1>2 DEF KeepStart
<1>4. OnlyLastTracked(ro) /\ PathsBefore(ro)
  BY DEF RestoreInv, RotationInv
<1>5. s # tracker
  BY <1>2, <1>3, <1>4 DEF OnlyLastTracked
<1>6. s < gstep
  BY <1>1, <1>2, <1>3, <1>4 DEF PathsBefore
<1> QED
  BY <1>5, <1>6

\* The tracked checkpoint stays restorable while its own files stay as they are.
LEMMA RestorableStays ==
    ASSUME RestoreInv, UNCHANGED tracker, run' \in {run, run + 1},
           tracker > 0 => /\ \A ro \in Roles, k \in Ranks : ckpt'[tracker][ro][k] = ckpt[tracker][ro][k]
                          /\ data'[tracker] = data[tracker]
    PROVE  TrackedRestorable'
<1> SUFFICES ASSUME tracker > 0 PROVE \E r \in 1..run' : RestorableFrom(tracker, r)'
  BY DEF TrackedRestorable, RestorableFrom
<1>1. PICK r \in 1..run : RestorableFrom(tracker, r)
  BY DEF RestoreInv, TrackedRestorable
<1>2. r \in 1..run'
  BY <1>1 DEF RestoreInv, TypeInv, TypeOK
<1>3. RestorableFrom(tracker, r)'
  BY <1>1 DEF RestorableFrom
<1> QED
  BY <1>2, <1>3

LEMMA StopRestores ==
    ASSUME RestoreInv, NEW how \in Stopped, Stop(how),
           tracker' > 0 => tracker' \in folders'
    PROVE  StoppedInv' /\ TrackerBehind' /\ FolderInv' /\ RotationInv' /\ SavedInv'
<1>1. phase' = how /\ prev' = [ro \in Roles |-> <<>>]
  BY DEF Stop
<1>2. /\ phase' \notin Running /\ phase' \notin Roles
      /\ phase' \notin {"data", "data_torn", "tracker", "tracker_torn", "critic"}
  BY <1>1 DEF Stopped, Running, Roles
<1>3. \A ro \in Roles : ~Appended(ro)'
  BY <1>2 DEF Appended
<1>4. \A ro \in Roles : prev'[ro] = <<>> /\ Len(prev'[ro]) = 0
  BY <1>1
<1>5. RotationInv'
  BY <1>3, <1>4 DEF RotationInv, PathsBefore, OnlyLastTracked
<1>6. StoppedInv' /\ TrackerBehind' /\ FolderInv' /\ SavedInv'
  BY <1>2, <1>3, <1>4 DEF StoppedInv, TrackerBehind, FolderInv, SavedInv
<1> QED
  BY <1>5, <1>6

LEMMA StopKeepsRestore ==
    ASSUME RestoreInv, TypeInv', NEW how \in Stopped, Stop(how), UNCHANGED disk,
           run' \in {run, run + 1}
    PROVE  RestoreInv'
<1>1. UNCHANGED <<tracker, folders, ckpt, data>>
  BY DEF disk
<1>2. TrackedRestorable'
  BY <1>1, RestorableStays
<1>3. tracker' > 0 => tracker' \in folders'
  BY <1>1 DEF RestoreInv, FolderInv
<1> QED
  BY <1>2, <1>3, StopRestores DEF RestoreInv

LEMMA EnterLoopRestores ==
    ASSUME RestoreInv, TypeInv', phase \in Stopped, NEW s, NEW p, EnterLoop(s, p),
           tracker < s + 1
    PROVE  RestoreInv'
<1>1. /\ phase' = "train" /\ gstep' = s + 1 /\ run' = run + 1
      /\ UNCHANGED <<prev, folders, ckpt, data, tracker>>
  BY DEF EnterLoop, disk
<1>2. \A ro \in Roles : ~Appended(ro)' /\ prev'[ro] = <<>> /\ Len(prev'[ro]) = 0
  BY <1>1 DEF Appended, RestoreInv, StoppedInv
<1>3. RotationInv'
  BY <1>2 DEF RotationInv, PathsBefore, OnlyLastTracked
<1>4. StoppedInv' /\ TrackerBehind' /\ FolderInv' /\ SavedInv'
  BY <1>1, <1>2
     DEF RestoreInv, StoppedInv, TrackerBehind, FolderInv, SavedInv, Stopped, Roles
<1>5. TrackedRestorable'
  BY <1>1, RestorableStays
<1> QED
  BY <1>3, <1>4, <1>5 DEF RestoreInv

LEMMA PathIsStep ==
    ASSUME TypeInv, NEW ro \in Roles, NEW i \in 1..Len(prev[ro])
    PROVE  prev[ro][i] \in Nat /\ Len(prev[ro]) \in Nat
<1>1. prev[ro] \in Seq(Steps)
  BY DEF TypeInv, TypeOK
<1>2. prev[ro][i] \in Steps
  BY <1>1
<1> QED
  BY <1>1, <1>2 DEF Steps

\* The end of a step that saved nothing, or whose checkpoint is now tracked.
LEMMA FinishStepRestores ==
    ASSUME RestoreInv, TypeInv', phase \in Running, FinishStep, TrackedRestorable',
           tracker' > 0 => tracker' \in folders', tracker' <= gstep,
           \A ro \in Roles : \A i \in 1..Len(prev[ro]) :
               /\ prev[ro][i] <= gstep
               /\ i < Len(prev[ro]) => prev[ro][i] # tracker'
    PROVE  RestoreInv'
<1>1. CASE IsLastStep
  <2>1. "finished" \in Stopped /\ Stop("finished")
    BY <1>1 DEF FinishStep, Stopped
  <2> QED
    BY <2>1, StopRestores DEF RestoreInv
<1>2. CASE ~IsLastStep
  <2>1. phase' = "train" /\ gstep' = gstep + 1 /\ prev' = prev
    BY <1>2 DEF FinishStep
  <2>2. \A ro \in Roles : ~Appended(ro)'
    BY <2>1 DEF Appended
  <2>3. gstep \in Nat /\ \A ro \in Roles : prev[ro] \in Seq(Steps)
    BY DEF RestoreInv, TypeInv, TypeOK
  <2>4. RotationInv'
    <3>1. ASSUME NEW ro \in Roles PROVE PathsBefore(ro)' /\ OnlyLastTracked(ro)'
      <4>1. \A i \in 1..Len(prev[ro]) : prev[ro][i] \in Nat /\ prev[ro][i] <= gstep
        BY PathIsStep DEF RestoreInv
      <4>2. \A i \in 1..Len(prev[ro]) : prev[ro][i] < gstep + 1
        BY <2>3, <4>1
      <4>3. \A i \in 1..(Len(prev[ro]) - 1) : prev[ro][i] # tracker'
        BY <2>3
      <4> QED
        BY <2>1, <2>2, <4>2, <4>3 DEF PathsBefore, OnlyLastTracked
    <3> QED
      BY <3>1 DEF RotationInv
  <2>5. StoppedInv' /\ FolderInv' /\ SavedInv'
    BY <2>1, <2>2 DEF StoppedInv, FolderInv, SavedInv, Stopped, Roles
  <2>6. TrackerBehind'
    BY <2>1, <2>3 DEF TrackerBehind, TypeInv, TypeOK
  <2> QED
    BY <2>4, <2>5, <2>6 DEF RestoreInv
<1> QED
  BY <1>1, <1>2

LEMMA RestoreInit == Init => RestoreInv
<1> SUFFICES ASSUME Init PROVE RestoreInv
  OBVIOUS
<1>1. TypeInv
  BY TypeInit
<1>2. \A ro \in Roles : ~Appended(ro) /\ prev[ro] = <<>> /\ Len(prev[ro]) = 0
  BY DEF Init, Appended
<1>3. RotationInv
  BY <1>2 DEF RotationInv, PathsBefore, OnlyLastTracked
<1>4. StoppedInv /\ TrackerBehind /\ FolderInv /\ SavedInv /\ TrackedRestorable
  BY <1>2 DEF Init, StoppedInv, TrackerBehind, FolderInv, SavedInv, TrackedRestorable,
              NoTracker, Running, Roles
<1> QED
  BY <1>1, <1>3, <1>4 DEF RestoreInv

\* The steps of the run that leave the protocol state of prev and the tracker
\* alone, and change no file of the tracked checkpoint.
LEMMA SavingRestores ==
    ASSUME RestoreInv, TypeInv', phase \in Running, phase' \in Running,
           UNCHANGED <<gstep, tracker, run, prev>>,
           folders \subseteq folders',
           \A ro \in Roles : Appended(ro)' <=> Appended(ro),
           phase' \in {"data_torn", "tracker", "tracker_torn"} => gstep \in folders',
           tracker > 0 => ckpt'[tracker] = ckpt[tracker] /\ data'[tracker] = data[tracker],
           SavedInv'
    PROVE  RestoreInv'
<1>1. StoppedInv' /\ TrackerBehind' /\ FolderInv'
  BY DEF RestoreInv, StoppedInv, TrackerBehind, FolderInv, Running, Stopped
<1>2. RotationInv'
  <2>1. ASSUME NEW ro \in Roles PROVE PathsBefore(ro)' /\ OnlyLastTracked(ro)'
    <3>1. PathsBefore(ro) /\ OnlyLastTracked(ro)
      BY DEF RestoreInv, RotationInv
    <3>2. Appended(ro)' <=> Appended(ro)
      OBVIOUS
    <3> QED
      BY <3>1, <3>2 DEF PathsBefore, OnlyLastTracked
  <2> QED
    BY <2>1 DEF RotationInv
<1>3. TrackedRestorable'
  BY RestorableStays
<1> QED
  BY <1>1, <1>2, <1>3 DEF RestoreInv

\* One rank's shard written in the table of all of them.
LEMMA WrittenAt ==
    ASSUME NEW S, NEW R, NEW K, NEW V, NEW f \in [S -> [R -> [K -> V]]],
           NEW s \in S, NEW r \in R, NEW k \in K, NEW v, NEW g,
           g = [f EXCEPT ![s][r][k] = v]
    PROVE  \A t \in S, q \in R, j \in K :
              g[t][q][j] = IF t = s /\ q = r /\ j = k THEN v ELSE f[t][q][j]
  OBVIOUS

\* While a run is saving, it writes into the directory of its current step,
\* which is not the tracked one.
LEMMA WritingHere ==
    ASSUME RestoreInv, phase \in Running
    PROVE  /\ gstep \in Steps /\ gstep # tracker
           /\ \A ro \in Roles, k \in Ranks, v \in -1..MaxRuns :
                 LET new == [ckpt EXCEPT ![gstep][ro][k] = v] IN
                 /\ \A t \in Steps : t # gstep => new[t] = ckpt[t]
                 /\ tracker > 0 => new[tracker] = ckpt[tracker]
                 /\ \A q \in Roles, j \in Ranks :
                       new[gstep][q][j] = IF q = ro /\ j = k THEN v ELSE ckpt[gstep][q][j]
           /\ \A d : tracker > 0 => [data EXCEPT ![gstep] = d][tracker] = data[tracker]
<1>1. gstep \in Steps /\ tracker < gstep /\ gstep # tracker
  BY RunningStep DEF RestoreInv, TrackerBehind, TypeInv, TypeOK, Steps
<1>2. tracker > 0 => tracker \in Steps
  BY DEF RestoreInv, TypeInv, TypeOK, Steps
<1>3. ckpt \in [Steps -> [Roles -> [Ranks -> -1..MaxRuns]]] /\ DOMAIN data = Steps
  BY DEF RestoreInv, TypeInv, TypeOK
<1> QED
  BY <1>1, <1>2, <1>3

\* What is left of the paths after the rotation.
LEMMA RotationShift ==
    ASSUME TypeInv, NEW ro \in Roles
    PROVE  LET kept == SubSeq(prev[ro], KeepStart(ro) + 1, Len(prev[ro])) IN
           /\ Len(kept) = Len(prev[ro]) - KeepStart(ro)
           /\ KeepStart(ro) \in Nat /\ Len(prev[ro]) \in Nat
           /\ \A i \in 1..Len(kept) : kept[i] = prev[ro][i + KeepStart(ro)]
<1>1. prev[ro] \in Seq(Steps) /\ MaxKeep[ro] \in Nat
  BY KeepAssumption DEF TypeInv, TypeOK, Roles
<1>2. KeepStart(ro) \in Nat /\ KeepStart(ro) <= Len(prev[ro]) /\ Len(prev[ro]) \in Nat
  BY <1>1 DEF KeepStart
<1>3. ASSUME NEW n \in Nat, n <= Len(prev[ro])
      PROVE  LET kept == SubSeq(prev[ro], n + 1, Len(prev[ro])) IN
             /\ Len(kept) = Len(prev[ro]) - n
             /\ \A i \in 1..Len(kept) : kept[i] = prev[ro][i + n]
  BY <1>1, <1>3
<1> QED
  BY <1>2, <1>3

LEMMA RestoreStep ==
    ASSUME RestoreInv, RotationSafe, [Next]_vars PROVE RestoreInv'
<1> USE DEF RotationSafe
<1>0. TypeInv /\ TypeInv'
  BY TypeStep DEF RestoreInv
<1>1. CASE StartFromScratch
  <2>1. 0 \in LoadTargets("auto") /\ ~LatestRaises /\ phase \in Stopped /\ EnterLoop(0, 0)
    BY <1>1 DEF StartFromScratch
  <2>2. Latest = 0
    BY <2>1 DEF LoadTargets
  <2>3. tracker < 0 + 1
    BY <1>0, <2>2 DEF Latest, RestoreInv, FolderInv, TypeInv, TypeOK
  <2> QED
    BY <1>0, <2>1, <2>3, EnterLoopRestores
<1>2. ASSUME NEW s \in Steps, Resume(s) PROVE RestoreInv'
  <2>1. s \in LoadTargets("auto") /\ phase \in Stopped /\ EnterLoop(s, RestoredPos(s))
    BY <1>2 DEF Resume
  <2>2. Latest = s /\ s > 0
    BY <2>1 DEF LoadTargets, Steps
  <2>3. tracker < s + 1
    <3>1. tracker = s
      BY <2>2 DEF Latest
    <3>2. s \in Int
      BY DEF Steps
    <3> QED
      BY <3>1, <3>2
  <2> QED
    BY <1>0, <2>1, <2>3, EnterLoopRestores
<1>3. CASE LoadFails
  <2>1. "failed" \in Stopped /\ Stop("failed") /\ UNCHANGED disk /\ run' \in {run, run + 1}
    BY <1>3 DEF LoadFails, Stopped
  <2> QED
    BY <1>0, <2>1, StopKeepsRestore
<1>4. CASE TrainStep
  <2>1. /\ phase = "train" /\ phase \in Running /\ phase \notin Roles
        /\ UNCHANGED <<folders, ckpt, data, tracker, run>>
    BY <1>4 DEF TrainStep, Running, Roles
  <2>2. \A ro \in Roles : ~Appended(ro)
    BY <2>1 DEF Appended
  <2>3. CASE SaveNow
    <3>1. /\ phase' = "actor" /\ wpc' = [k \in Ranks |-> "enter"]
          /\ UNCHANGED <<gstep, prev>>
      BY <1>4, <2>3 DEF TrainStep
    <3>2. \A ro \in Roles : ~Appended(ro)'
      BY <3>1 DEF Appended
    <3>3. SavedInv'
      BY <3>1, <3>2 DEF SavedInv, Roles
    <3> QED
      BY <1>0, <2>1, <2>2, <3>1, <3>2, <3>3, SavingRestores DEF Running
  <2>4. CASE ~SaveNow
    <3>1. FinishStep
      BY <1>4, <2>4 DEF TrainStep
    <3>2. tracker' > 0 => tracker' \in folders'
      BY <2>1 DEF RestoreInv, FolderInv
    <3>3. tracker' <= gstep
      BY <1>0, <2>1 DEF RestoreInv, TrackerBehind, TypeInv, TypeOK
    <3>4. ASSUME NEW ro \in Roles, NEW i \in 1..Len(prev[ro])
          PROVE  /\ prev[ro][i] <= gstep
                 /\ i < Len(prev[ro]) => prev[ro][i] # tracker'
      <4>1. prev[ro] \in Seq(Steps) /\ gstep \in Nat /\ PathsBefore(ro) /\ OnlyLastTracked(ro)
        BY <1>0 DEF RestoreInv, RotationInv, TypeInv, TypeOK
      <4>2. prev[ro][i] \in Nat /\ Len(prev[ro]) \in Nat
        BY <1>0, PathIsStep
      <4>3. prev[ro][i] < gstep
        BY <2>2, <4>1 DEF PathsBefore
      <4> QED
        BY <2>1, <2>2, <4>1, <4>2, <4>3 DEF OnlyLastTracked
    <3>5. TrackedRestorable'
      BY <2>1, RestorableStays
    <3> QED
      BY <1>0, <2>1, <3>1, <3>2, <3>3, <3>4, <3>5, FinishStepRestores
  <2> QED
    BY <2>3, <2>4
<1>5. CASE EpochEnd
  <2>1. CASE epoch + 1 < TotalEpochs
    <3>1. phase = "train" /\ UNCHANGED <<phase, gstep, prev, wpc, disk, run>>
      BY <1>5, <2>1 DEF EpochEnd
    <3>2. \A ro \in Roles : Appended(ro)' <=> Appended(ro)
      BY <3>1 DEF Appended
    <3>3. SavedInv'
      BY <3>1, <3>2 DEF RestoreInv, SavedInv, disk
    <3> QED
      BY <1>0, <3>1, <3>2, <3>3, SavingRestores DEF Running, disk
  <2>2. CASE ~(epoch + 1 < TotalEpochs)
    <3>1. "finished" \in Stopped /\ Stop("finished") /\ UNCHANGED disk /\ run' = run
      BY <1>5, <2>2 DEF EpochEnd, Stopped
    <3> QED
      BY <1>0, <3>1, StopKeepsRestore
  <2> QED
    BY <2>1, <2>2
<1>6. ASSUME NEW s \in Steps, NEW k \in Ranks, RemoveShard(s, k) PROVE RestoreInv'
  <2>1. /\ phase \in Roles /\ phase \in Running /\ s \in Doomed(phase)
        /\ ckpt' = [ckpt EXCEPT ![s][phase][k] = Missing]
        /\ UNCHANGED <<phase, gstep, prev, wpc, folders, data, tracker, run>>
    BY <1>6, SavingRuns DEF RemoveShard, memory
  <2>2. ~Appended(phase)
    BY <2>1 DEF Appended, Roles
  <2>3. s # tracker /\ s < gstep
    BY <2>1, <2>2, DoomedNotTracked
  <2>4. \A t \in Steps : t # s => ckpt'[t] = ckpt[t]
    BY <1>0, <2>1 DEF TypeInv, TypeOK
  <2>5. \A ro \in Roles : Appended(ro)' <=> Appended(ro)
    BY <2>1 DEF Appended
  <2>6. gstep \in Steps /\ gstep # s
    BY <1>0, <2>1, <2>3, RunningStep DEF Steps
  <2>7. SavedInv'
    BY <2>1, <2>4, <2>5, <2>6 DEF RestoreInv, SavedInv
  <2>8. tracker > 0 => ckpt'[tracker] = ckpt[tracker]
    BY <1>0, <2>3, <2>4 DEF TypeInv, TypeOK, Steps
  <2> QED
    BY <1>0, <2>1, <2>5, <2>7, <2>8, SavingRestores DEF Roles, Running
<1>7. ASSUME NEW k \in Ranks, MakeDir(k) PROVE RestoreInv'
  <2>1. /\ phase \in Roles /\ phase \in Running /\ wpc[k] = "enter"
        /\ wpc' = [wpc EXCEPT ![k] = "ready"]
        /\ folders' = folders \cup {gstep}
        /\ UNCHANGED <<phase, gstep, ckpt, data, tracker, run>>
    BY <1>7, SavingRuns DEF MakeDir
  <2>2. \A ro \in Roles : Appended(ro)' <=> Appended(ro)
    BY <2>1 DEF Appended
  <2>3. SavedInv'
    BY <1>0, <2>1, <2>2 DEF RestoreInv, SavedInv, TypeInv, TypeOK
  <2>4. CASE k = 0
    <3>1. prev' = [prev EXCEPT ![phase] =
                      SubSeq(prev[phase], KeepStart(phase) + 1, Len(prev[phase]))]
      BY <1>7, <2>4 DEF MakeDir
    <3>2. ~Appended(phase)
      BY <2>1 DEF Appended, Roles
    <3>3. ASSUME NEW ro \in Roles PROVE PathsBefore(ro)' /\ OnlyLastTracked(ro)'
      <4>1. CASE ro # phase
        <5>1. prev'[ro] = prev[ro]
          BY <1>0, <3>1, <4>1 DEF TypeInv, TypeOK
        <5>2. PathsBefore(ro) /\ OnlyLastTracked(ro)
          BY DEF RestoreInv, RotationInv
        <5> QED
          BY <2>1, <2>2, <5>1, <5>2 DEF PathsBefore, OnlyLastTracked
      <4>2. CASE ro = phase
        <5>1. PathsBefore(ro) /\ OnlyLastTracked(ro) /\ ~Appended(ro) /\ ~Appended(ro)'
          BY <2>2, <3>2, <4>2 DEF RestoreInv, RotationInv
        <5>2. prev'[ro] = SubSeq(prev[ro], KeepStart(ro) + 1, Len(prev[ro]))
          BY <1>0, <2>1, <3>1, <4>2 DEF TypeInv, TypeOK
        <5>3. /\ Len(prev'[ro]) = Len(prev[ro]) - KeepStart(ro)
              /\ KeepStart(ro) \in Nat /\ Len(prev[ro]) \in Nat
              /\ \A i \in 1..Len(prev'[ro]) : prev'[ro][i] = prev[ro][i + KeepStart(ro)]
          BY <1>0, <4>2, <5>2, RotationShift
        <5>4. \A i \in 1..Len(prev'[ro]) : i + KeepStart(ro) \in 1..Len(prev[ro])
          BY <5>3
        <5>5. \A i \in 1..(Len(prev'[ro]) - 1) : i + KeepStart(ro) \in 1..(Len(prev[ro]) - 1)
          BY <5>3
        <5>6. PathsBefore(ro)'
          BY <2>1, <5>1, <5>3, <5>4 DEF PathsBefore
        <5>7. \A i \in 1..(Len(prev'[ro]) - 1) : i \in 1..Len(prev'[ro])
          BY <5>3
        <5>8. OnlyLastTracked(ro)'
          BY <2>1, <5>1, <5>3, <5>5, <5>7 DEF OnlyLastTracked
        <5> QED
          BY <5>6, <5>8
      <4> QED
        BY <4>1, <4>2
    <3>4. RotationInv'
      BY <3>3 DEF RotationInv
    <3>5. StoppedInv' /\ TrackerBehind' /\ FolderInv'
      BY <2>1 DEF RestoreInv, StoppedInv, TrackerBehind, FolderInv, Running, Stopped
    <3>6. TrackedRestorable'
      BY <2>1, RestorableStays
    <3> QED
      BY <1>0, <2>3, <3>4, <3>5, <3>6 DEF RestoreInv
  <2>5. CASE k # 0
    <3>1. prev' = prev
      BY <1>7, <2>5 DEF MakeDir
    <3> QED
      BY <1>0, <2>1, <2>2, <2>3, <3>1, SavingRestores DEF Roles, Running
  <2> QED
    BY <2>4, <2>5
<1>8. ASSUME NEW k \in Ranks, BeginShard(k) PROVE RestoreInv'
  <2>1. /\ phase \in Roles /\ phase \in Running /\ wpc[k] = "ready"
        /\ ckpt' = [ckpt EXCEPT ![gstep][phase][k] = Torn]
        /\ wpc' = [wpc EXCEPT ![k] = "writing"]
        /\ UNCHANGED <<phase, gstep, prev, folders, data, tracker, run>>
    BY <1>8, SavingRuns DEF BeginShard
  <2>2. \A ro \in Roles : Appended(ro)' <=> Appended(ro)
    BY <2>1 DEF Appended
  <2>3. SavedInv'
    <3>1. \A q \in Roles, j \in Ranks :
              ckpt'[gstep][q][j] = IF q = phase /\ j = k THEN Torn ELSE ckpt[gstep][q][j]
      <4>1. ckpt \in [Steps -> [Roles -> [Ranks -> -1..MaxRuns]]] /\ gstep \in Steps
        BY <1>0, <2>1, WritingHere DEF RestoreInv, TypeInv, TypeOK
      <4>2. \A t \in Steps, q \in Roles, j \in Ranks :
                ckpt'[t][q][j] = IF t = gstep /\ q = phase /\ j = k THEN Torn ELSE ckpt[t][q][j]
        BY <2>1, <4>1, WrittenAt
      <4> QED
        BY <4>1, <4>2
    <3>2. \A j \in Ranks : wpc'[j] = "wrote" => ckpt'[gstep][phase][j] = run
      BY <1>0, <2>1, <3>1 DEF RestoreInv, SavedInv, TypeInv, TypeOK
    <3>3. ASSUME NEW ro \in Roles, Appended(ro), NEW j \in Ranks
          PROVE  ckpt'[gstep][ro][j] = run
      <4>1. ro # phase
        BY <2>1, <3>3 DEF Appended, Roles
      <4>2. ckpt[gstep][ro][j] = run
        BY <1>0, <3>3 DEF RestoreInv, SavedInv
      <4> QED
        BY <3>1, <4>1, <4>2
    <3>4. phase' = phase /\ run' = run /\ gstep' = gstep /\ phase \notin {"tracker", "tracker_torn"}
      BY <2>1 DEF Roles
    <3> QED
      BY <2>2, <3>2, <3>3, <3>4 DEF SavedInv
  <2>4. tracker > 0 => ckpt'[tracker] = ckpt[tracker]
    BY <1>0, <2>1, WritingHere
  <2> QED
    BY <1>0, <2>1, <2>2, <2>3, <2>4, SavingRestores DEF Roles, Running
<1>9. ASSUME NEW k \in Ranks, EndShard(k) PROVE RestoreInv'
  <2>1. /\ phase \in Roles /\ phase \in Running /\ wpc[k] = "writing"
        /\ ckpt' = [ckpt EXCEPT ![gstep][phase][k] = run]
        /\ wpc' = [wpc EXCEPT ![k] = "wrote"]
        /\ UNCHANGED <<phase, gstep, prev, folders, data, tracker, run>>
    BY <1>9, SavingRuns DEF EndShard
  <2>2. \A ro \in Roles : Appended(ro)' <=> Appended(ro)
    BY <2>1 DEF Appended
  <2>3. SavedInv'
    <3>1. \A q \in Roles, j \in Ranks :
              ckpt'[gstep][q][j] = IF q = phase /\ j = k THEN run ELSE ckpt[gstep][q][j]
      <4>1. ckpt \in [Steps -> [Roles -> [Ranks -> -1..MaxRuns]]] /\ gstep \in Steps
        BY <1>0, <2>1, WritingHere DEF RestoreInv, TypeInv, TypeOK
      <4>2. \A t \in Steps, q \in Roles, j \in Ranks :
                ckpt'[t][q][j] = IF t = gstep /\ q = phase /\ j = k THEN run ELSE ckpt[t][q][j]
        BY <2>1, <4>1, WrittenAt
      <4> QED
        BY <4>1, <4>2
    <3>2. \A j \in Ranks : wpc'[j] = "wrote" => ckpt'[gstep][phase][j] = run
      BY <1>0, <2>1, <3>1 DEF RestoreInv, SavedInv, TypeInv, TypeOK
    <3>3. ASSUME NEW ro \in Roles, Appended(ro), NEW j \in Ranks
          PROVE  ckpt'[gstep][ro][j] = run
      <4>1. ro # phase
        BY <2>1, <3>3 DEF Appended, Roles
      <4>2. ckpt[gstep][ro][j] = run
        BY <1>0, <3>3 DEF RestoreInv, SavedInv
      <4> QED
        BY <3>1, <4>1, <4>2
    <3>4. phase' = phase /\ run' = run /\ gstep' = gstep /\ phase \notin {"tracker", "tracker_torn"}
      BY <2>1 DEF Roles
    <3> QED
      BY <2>2, <3>2, <3>3, <3>4 DEF SavedInv
  <2>4. tracker > 0 => ckpt'[tracker] = ckpt[tracker]
    BY <1>0, <2>1, WritingHere
  <2> QED
    BY <1>0, <2>1, <2>2, <2>3, <2>4, SavingRestores DEF Roles, Running
<1>10. CASE RoleSaved
  <2>1. /\ phase \in Roles /\ phase \in Running /\ \A k \in Ranks : wpc[k] = "wrote"
        /\ prev' = [prev EXCEPT ![phase] = Append(prev[phase], gstep)]
        /\ \/ phase = "actor" /\ UseCritic /\ phase' = "critic"
              /\ wpc' = [k \in Ranks |-> "enter"]
           \/ (phase = "actor" => ~UseCritic) /\ phase' = "data"
              /\ wpc' = [k \in Ranks |-> "idle"]
        /\ UNCHANGED <<gstep, folders, ckpt, data, tracker, run>>
    BY <1>10, SavingRuns DEF RoleSaved, disk
  <2>2. phase' \in Running /\ ~Appended(phase) /\ gstep \in Nat
    BY <1>0, <2>1 DEF Appended, Roles, Running, TypeInv, TypeOK
  <2>3. \A ro \in Roles : Appended(ro)' <=> ro = phase \/ Appended(ro)
    BY <2>1 DEF Appended, Roles
  <2>4. ASSUME NEW ro \in Roles PROVE PathsBefore(ro)' /\ OnlyLastTracked(ro)'
    <3>1. PathsBefore(ro) /\ OnlyLastTracked(ro)
      BY DEF RestoreInv, RotationInv
    <3>2. CASE ro # phase
      <4>1. prev'[ro] = prev[ro]
        BY <1>0, <2>1, <3>2 DEF TypeInv, TypeOK
      <4> QED
        BY <2>1, <2>3, <3>1, <3>2, <4>1 DEF PathsBefore, OnlyLastTracked
    <3>3. CASE ro = phase
      <4>1. prev[ro] \in Seq(Steps) /\ prev'[ro] = Append(prev[ro], gstep) /\ Appended(ro)'
        BY <1>0, <2>1, <2>3, <3>3 DEF TypeInv, TypeOK
      <4>2. /\ Len(prev'[ro]) = Len(prev[ro]) + 1 /\ Len(prev[ro]) \in Nat
            /\ prev'[ro][Len(prev[ro]) + 1] = gstep
            /\ \A i \in 1..Len(prev[ro]) : prev'[ro][i] = prev[ro][i]
        BY <4>1
      <4>3. \A i \in 1..Len(prev[ro]) : prev[ro][i] \in Nat /\ prev[ro][i] < gstep
        BY <1>0, <2>2, <3>1, <3>3, PathIsStep DEF PathsBefore
      <4>4. ASSUME NEW i \in 1..Len(prev'[ro])
            PROVE  prev'[ro][i] <= gstep /\ (i < Len(prev'[ro]) => prev'[ro][i] < gstep)
        <5>1. i \in 1..Len(prev[ro]) \/ i = Len(prev[ro]) + 1
          BY <4>2
        <5>2. CASE i \in 1..Len(prev[ro])
          <6>1. prev'[ro][i] \in Nat /\ prev'[ro][i] < gstep
            BY <4>2, <4>3, <5>2
          <6> QED
            BY <2>2, <6>1
        <5>3. CASE i = Len(prev[ro]) + 1
          BY <2>2, <4>2, <5>3
        <5> QED
          BY <5>1, <5>2, <5>3
      <4> QED
        BY <2>1, <4>1, <4>4 DEF PathsBefore, OnlyLastTracked
    <3> QED
      BY <3>2, <3>3
  <2>5. RotationInv'
    BY <2>4 DEF RotationInv
  <2>6. SavedInv'
    BY <2>1, <2>3 DEF RestoreInv, SavedInv, Roles
  <2>7. StoppedInv' /\ TrackerBehind' /\ FolderInv'
    BY <2>1, <2>2 DEF RestoreInv, StoppedInv, TrackerBehind, FolderInv, Running, Stopped
  <2>8. TrackedRestorable'
    BY <2>1, RestorableStays
  <2> QED
    BY <1>0, <2>5, <2>6, <2>7, <2>8 DEF RestoreInv
<1>11. CASE BeginData
  <2>1. /\ phase = "data" /\ phase' = "data_torn" /\ phase \in Running
        /\ folders' = folders \cup {gstep}
        /\ data' = [data EXCEPT ![gstep].run = Torn]
        /\ UNCHANGED <<gstep, prev, wpc, ckpt, tracker, run>>
    BY <1>11 DEF BeginData, memory, Running
  <2>2. \A ro \in Roles : Appended(ro)' <=> Appended(ro)
    BY <2>1 DEF Appended
  <2>3. SavedInv'
    BY <2>1, <2>2 DEF RestoreInv, SavedInv, Roles
  <2>4. tracker > 0 => data'[tracker] = data[tracker]
    BY <1>0, <2>1, WritingHere
  <2> QED
    BY <1>0, <2>1, <2>2, <2>3, <2>4, SavingRestores DEF Running
<1>12. CASE EndData
  <2>1. /\ phase = "data_torn" /\ phase' = "tracker" /\ phase \in Running
        /\ data' = [data EXCEPT ![gstep] = [run |-> run, pos |-> pos]]
        /\ UNCHANGED <<gstep, prev, wpc, folders, ckpt, tracker, run>>
    BY <1>12 DEF EndData, memory, Running
  <2>2. \A ro \in Roles : Appended(ro)' <=> Appended(ro)
    BY <2>1 DEF Appended
  <2>3. gstep \in folders
    BY <2>1 DEF RestoreInv, FolderInv
  <2>4. data'[gstep].run = run
    BY <1>0, <2>1, WritingHere DEF TypeInv, TypeOK
  <2>5. SavedInv'
    BY <2>1, <2>2, <2>4 DEF RestoreInv, SavedInv, Roles
  <2>6. tracker > 0 => data'[tracker] = data[tracker]
    BY <1>0, <2>1, WritingHere
  <2> QED
    BY <1>0, <2>1, <2>2, <2>3, <2>5, <2>6, SavingRestores DEF Running
<1>13. CASE TruncateTracker
  <2>1. /\ phase = "tracker" /\ phase' = "tracker_torn" /\ tracker' = -1
        /\ UNCHANGED <<gstep, prev, wpc, folders, ckpt, data, run>>
    BY <1>13 DEF TruncateTracker, memory, EmptyTracker
  <2>2. \A ro \in Roles : Appended(ro)' /\ Appended(ro)
    BY <2>1 DEF Appended
  <2>3. RotationInv'
    BY <2>1, <2>2 DEF RestoreInv, RotationInv, PathsBefore, OnlyLastTracked
  <2>4. StoppedInv' /\ FolderInv' /\ SavedInv' /\ TrackedRestorable'
    BY <2>1, <2>2
       DEF RestoreInv, StoppedInv, FolderInv, SavedInv, TrackedRestorable, Stopped, Roles
  <2>5. TrackerBehind'
    BY <1>0, <2>1 DEF TrackerBehind, TypeInv, TypeOK
  <2> QED
    BY <1>0, <2>3, <2>4, <2>5 DEF RestoreInv
<1>14. CASE WriteTracker
  <2>1. /\ phase = "tracker_torn" /\ phase \in Running /\ tracker' = gstep /\ FinishStep
        /\ UNCHANGED <<folders, ckpt, data, run>>
    BY <1>14 DEF WriteTracker, Running
  <2>2. \A ro \in Roles : Appended(ro)
    BY <2>1 DEF Appended
  <2>3. tracker' \in folders' /\ tracker' <= gstep
    BY <1>0, <2>1 DEF RestoreInv, FolderInv, TypeInv, TypeOK
  <2>4. ASSUME NEW ro \in Roles, NEW i \in 1..Len(prev[ro])
        PROVE  /\ prev[ro][i] <= gstep
               /\ i < Len(prev[ro]) => prev[ro][i] # tracker'
    <3>1. PathsBefore(ro) /\ gstep \in Nat
      BY <1>0 DEF RestoreInv, RotationInv, TypeInv, TypeOK
    <3>2. prev[ro][i] <= gstep /\ (i < Len(prev[ro]) => prev[ro][i] < gstep)
      BY <2>2, <3>1 DEF PathsBefore
    <3>3. prev[ro][i] \in Nat
      BY <1>0, PathIsStep
    <3> QED
      BY <2>1, <3>1, <3>2, <3>3
  <2>5. TrackedRestorable'
    <3>1. \A ro \in Roles, k \in Ranks : ckpt[gstep][ro][k] = run
      BY <2>2 DEF RestoreInv, SavedInv
    <3>2. data[gstep].run = run
      BY <2>1 DEF RestoreInv, SavedInv
    <3>3. run \in 1..run
      BY <1>0, <2>1 DEF TypeInv, TypeOK, Bounds
    <3> QED
      BY <2>1, <3>1, <3>2, <3>3 DEF TrackedRestorable, RestorableFrom
  <2> QED
    BY <1>0, <2>1, <2>3, <2>4, <2>5, FinishStepRestores
<1>15. CASE Crash
  <2>1. "down" \in Stopped /\ Stop("down") /\ UNCHANGED disk /\ run' = run
    BY <1>15 DEF Crash, Stopped
  <2> QED
    BY <1>0, <2>1, StopKeepsRestore
<1>16. CASE UNCHANGED vars
  BY <1>0, <1>16
     DEF vars, memory, disk, RestoreInv, StoppedInv, TrackerBehind, FolderInv, RotationInv,
         PathsBefore, OnlyLastTracked, Appended, SavedInv, TrackedRestorable, RestorableFrom
<1> QED
  BY <1>1, <1>2, <1>3, <1>4, <1>5, <1>6, <1>7, <1>8, <1>9, <1>10, <1>11, <1>12, <1>13,
     <1>14, <1>15, <1>16
     DEF Next, RunStep

\* In mode "auto", and unless a role keeps only one checkpoint, the checkpoint
\* the tracker names can be restored at every moment, for every number of
\* ranks, runs, steps and every save frequency: at whatever point of the
\* rotation, of the ranks' writes or of the driver's the job dies.
THEOREM TrackedStaysRestorable ==
    ASSUME RotationSafe PROVE Spec => []TrackedRestorable
<1>1. RestoreInv /\ [Next]_vars => RestoreInv'
  BY RestoreStep
<1>2. RestoreInv => TrackedRestorable
  BY DEF RestoreInv
<1> QED
  BY <1>1, <1>2, RestoreInit, PTL DEF Spec
-----------------------------------------------------------------------------
(***************************************************************************)
(* RunKeepsAtMost, in every resume mode and for every limit.  What a run   *)
(* has written is what its manager remembers, and the directory it is      *)
(* writing now; rank 0 has made room for that one before any rank passes   *)
(* the first barrier.                                                      *)
(***************************************************************************)

Remembered(ro, s) == \E i \in 1..Len(prev[ro]) : prev[ro][i] = s

\* Every directory of the run is remembered, or is the current one.
Written(ro) ==
    \A s \in Steps, k \in Ranks :
        ckpt[s][ro][k] = run =>
            Remembered(ro, s) \/ (s = gstep /\ phase = ro /\ wpc[k] = "wrote")

\* Rank 0 leaves room for one more path.
Room(ro) ==
    MaxKeep[ro] > 0 =>
        /\ Len(prev[ro]) <= MaxKeep[ro]
        /\ phase = ro /\ wpc[0] # "enter" => Len(prev[ro]) < MaxKeep[ro]

\* No rank writes before rank 0 has made room.
AfterRotation(ro) ==
    \A k \in Ranks : phase = ro /\ wpc[k] \in {"writing", "wrote"} => wpc[0] # "enter"

Within(ro) == MaxKeep[ro] > 0 => Cardinality(DirsOfRun(ro)) <= MaxKeep[ro]

KeepAt(ro) ==
    /\ phase \in Running => Written(ro) /\ Room(ro) /\ AfterRotation(ro)
    /\ phase \in Stopped /\ run > 0 => Within(ro)
    /\ \A s \in Steps, k \in Ranks : ckpt[s][ro][k] <= run

KeepInv == TypeInv /\ StoppedInv /\ \A ro \in Roles : KeepAt(ro)

LEMMA RankZero == 0 \in Ranks
  BY WorldSizeAssumption DEF Ranks

LEMMA StoppedOrRunning ==
    /\ \A p \in Running : p \notin Stopped
    /\ \A p \in Stopped : p \notin Running /\ p \notin Roles
    /\ Roles \subseteq Running
  BY DEF Running, Stopped, Roles

LEMMA DirsFinite ==
    ASSUME TypeInv, NEW ro \in Roles
    PROVE  /\ IsFiniteSet(DirsOfRun(ro)) /\ Cardinality(DirsOfRun(ro)) \in Nat
           /\ MaxKeep[ro] \in Nat
<1>1. IsFiniteSet(Steps)
  BY RunsAssumption, ScheduleAssumption, FS_Interval DEF Steps
<1>2. DirsOfRun(ro) \subseteq Steps
  BY DEF DirsOfRun
<1> QED
  BY <1>1, <1>2, FS_Subset, FS_CardinalityType, KeepAssumption DEF Roles

\* A path is remembered once, so the remembered directories are no more than
\* the paths.
LEMMA PathsCount ==
    ASSUME TypeInv, NEW ro \in Roles
    PROVE  LET P == {prev[ro][i] : i \in 1..Len(prev[ro])}
           IN  IsFiniteSet(P) /\ Cardinality(P) \in Nat /\ Cardinality(P) <= Len(prev[ro])
<1> DEFINE N == 1..Len(prev[ro])
           f == [i \in N |-> prev[ro][i]]
           P == {prev[ro][i] : i \in N}
<1>1. Len(prev[ro]) \in Nat
  BY DEF TypeInv, TypeOK
<1>2. IsFiniteSet(N) /\ Cardinality(N) = Len(prev[ro])
  BY <1>1, FS_Interval
<1>3. f \in Surjection(N, P)
  BY DEF Surjection
<1> QED
  BY <1>2, <1>3, FS_Surjection, FS_CardinalityType

\* While it runs, a run is within its limit.
LEMMA RunningWithin ==
    ASSUME KeepInv, phase \in Running, NEW ro \in Roles
    PROVE  Within(ro)
<1> SUFFICES ASSUME MaxKeep[ro] > 0 PROVE Cardinality(DirsOfRun(ro)) <= MaxKeep[ro]
  BY DEF Within
<1> DEFINE P == {prev[ro][i] : i \in 1..Len(prev[ro])}
<1>1. IsFiniteSet(P) /\ Cardinality(P) \in Nat /\ Cardinality(P) <= Len(prev[ro])
  BY PathsCount DEF KeepInv
<1>2. Written(ro) /\ Room(ro) /\ AfterRotation(ro) /\ Len(prev[ro]) \in Nat
  BY DEF KeepInv, KeepAt, TypeInv, TypeOK
<1>3. /\ IsFiniteSet(DirsOfRun(ro)) /\ Cardinality(DirsOfRun(ro)) \in Nat
      /\ MaxKeep[ro] \in Nat
  BY DirsFinite DEF KeepInv
<1>4. CASE phase = ro /\ \E k \in Ranks : wpc[k] \in {"writing", "wrote"}
  <2>1. Len(prev[ro]) + 1 <= MaxKeep[ro]
    BY <1>2, <1>3, <1>4 DEF Room, AfterRotation
  <2>2. DirsOfRun(ro) \subseteq P \cup {gstep}
    BY <1>2 DEF DirsOfRun, Written, Remembered
  <2>3. /\ IsFiniteSet(P \cup {gstep}) /\ Cardinality(P \cup {gstep}) <= Cardinality(P) + 1
        /\ Cardinality(P \cup {gstep}) \in Nat
    <3>1. /\ IsFiniteSet(P \cup {gstep})
          /\ Cardinality(P \cup {gstep}) =
                 IF gstep \in P THEN Cardinality(P) ELSE Cardinality(P) + 1
      <4> HIDE DEF P
      <4> QED
        BY <1>1, FS_AddElement
    <3> HIDE DEF P
    <3> QED
      BY <1>1, <3>1
  <2>4. Cardinality(DirsOfRun(ro)) <= Cardinality(P \cup {gstep})
    BY <2>2, <2>3, FS_Subset
  <2> QED
    BY <1>1, <1>2, <1>3, <2>1, <2>3, <2>4
<1>5. CASE ~(phase = ro /\ \E k \in Ranks : wpc[k] \in {"writing", "wrote"})
  <2>1. DirsOfRun(ro) \subseteq P
    BY <1>2, <1>5 DEF DirsOfRun, Written, Remembered
  <2>2. Cardinality(DirsOfRun(ro)) <= Cardinality(P)
    BY <1>1, <2>1, FS_Subset
  <2>3. Len(prev[ro]) <= MaxKeep[ro]
    BY <1>2 DEF Room
  <2> QED
    BY <1>1, <1>2, <1>3, <2>2, <2>3
<1> QED
  BY <1>4, <1>5

LEMMA KeepInit == Init => KeepInv
<1> SUFFICES ASSUME Init PROVE KeepInv
  OBVIOUS
<1>1. TypeInv
  BY TypeInit
<1>2. phase = "down" /\ run = 0 /\ phase \notin Running
  BY DEF Init, Running
<1>3. StoppedInv
  BY DEF Init, StoppedInv
<1>4. \A ro \in Roles, s \in Steps, k \in Ranks : ckpt[s][ro][k] = 0
  BY DEF Init, Missing
<1> QED
  BY <1>1, <1>2, <1>3, <1>4 DEF KeepInv, KeepAt

\* The end of a run leaves the directories as they are.
LEMMA KeepStop ==
    ASSUME KeepInv, TypeInv', phase \in Running, NEW how \in Stopped, Stop(how),
           UNCHANGED <<ckpt, run>>
    PROVE  KeepInv'
<1>1. phase' \in Stopped /\ phase' \notin Running /\ phase' \notin Roles
  BY StoppedOrRunning DEF Stop
<1>2. StoppedInv'
  BY DEF Stop, StoppedInv
<1>3. ASSUME NEW ro \in Roles PROVE KeepAt(ro)'
  <2>1. Within(ro)
    BY RunningWithin
  <2>2. DirsOfRun(ro)' \subseteq DirsOfRun(ro)
    BY <1>1 DEF DirsOfRun
  <2>3. /\ IsFiniteSet(DirsOfRun(ro)) /\ Cardinality(DirsOfRun(ro)) \in Nat
        /\ MaxKeep[ro] \in Nat
    BY DirsFinite DEF KeepInv
  <2>4. /\ Cardinality(DirsOfRun(ro)') <= Cardinality(DirsOfRun(ro))
        /\ Cardinality(DirsOfRun(ro)') \in Nat
    BY <2>2, <2>3, FS_Subset, FS_CardinalityType
  <2>5. MaxKeep[ro] > 0 => Cardinality(DirsOfRun(ro)') <= MaxKeep[ro]
    BY <2>1, <2>3, <2>4 DEF Within
  <2> QED
    BY <1>1, <2>5 DEF KeepInv, KeepAt, Within
<1> QED
  BY <1>2, <1>3 DEF KeepInv

\* Outside of save_checkpoint the paths and the directories stay as they are.
LEMMA KeepOutside ==
    ASSUME KeepInv, TypeInv', phase \in Running, phase \notin Roles, phase' \in Running,
           phase' \in Roles => \A k \in Ranks : wpc'[k] = "enter",
           UNCHANGED <<ckpt, prev, run>>
    PROVE  KeepInv'
<1>1. phase' \notin Stopped /\ StoppedInv'
  BY StoppedOrRunning DEF StoppedInv
<1>2. ASSUME NEW ro \in Roles PROVE KeepAt(ro)'
  <2>1. phase # ro /\ Written(ro) /\ Room(ro) /\ \A s \in Steps, k \in Ranks : ckpt[s][ro][k] <= run
    BY DEF KeepInv, KeepAt
  <2>2. Written(ro)'
    BY <2>1 DEF Written, Remembered
  <2>3. phase' = ro => \A k \in Ranks : wpc'[k] = "enter"
    OBVIOUS
  <2>4. Room(ro)' /\ AfterRotation(ro)'
    BY <2>1, <2>3, RankZero DEF Room, AfterRotation
  <2> QED
    BY <1>1, <2>1, <2>2, <2>4 DEF KeepAt
<1> QED
  BY <1>1, <1>2 DEF KeepInv

LEMMA KeepFinish ==
    ASSUME KeepInv, TypeInv', phase \in Running, phase \notin Roles, FinishStep,
           UNCHANGED <<ckpt, run>>
    PROVE  KeepInv'
<1>1. CASE IsLastStep
  <2>1. Stop("finished") /\ "finished" \in Stopped
    BY <1>1 DEF FinishStep, Stopped
  <2> QED
    BY <2>1, KeepStop
<1>2. CASE ~IsLastStep
  <2>1. phase' = "train" /\ prev' = prev /\ phase' \in Running /\ phase' \notin Roles
    BY <1>2 DEF FinishStep, Running, Roles
  <2> QED
    BY <2>1, KeepOutside
<1> QED
  BY <1>1, <1>2

\* In save_checkpoint of a role the other role is left alone.
LEMMA KeepOther ==
    ASSUME KeepInv, phase \in Roles, phase' \in Running, NEW ro \in Roles, ro # phase,
           run' = run, prev'[ro] = prev[ro],
           \A s \in Steps, k \in Ranks : ckpt'[s][ro][k] = ckpt[s][ro][k],
           phase' = ro => \A k \in Ranks : wpc'[k] = "enter"
    PROVE  KeepAt(ro)'
<1>1. /\ Written(ro) /\ Room(ro) /\ \A s \in Steps, k \in Ranks : ckpt[s][ro][k] <= run
      /\ phase' \notin Stopped
  BY StoppedOrRunning DEF KeepInv, KeepAt
<1>2. Written(ro)'
  BY <1>1 DEF Written, Remembered
<1>3. Room(ro)' /\ AfterRotation(ro)'
  BY <1>1, RankZero DEF Room, AfterRotation
<1> QED
  BY <1>1, <1>2, <1>3 DEF KeepAt

LEMMA KeepEnterLoop ==
    ASSUME KeepInv, TypeInv', phase \in Stopped, NEW s, NEW p, EnterLoop(s, p)
    PROVE  KeepInv'
<1>1. /\ phase' = "train" /\ run' = run + 1 /\ ckpt' = ckpt /\ prev' = prev
      /\ phase' \in Running /\ phase' \notin Stopped /\ phase' \notin Roles
  BY StoppedOrRunning DEF EnterLoop, disk, Running, Roles
<1>2. ASSUME NEW ro \in Roles PROVE KeepAt(ro)'
  <2>1. prev[ro] = <<>> /\ Len(prev[ro]) = 0 /\ MaxKeep[ro] \in Nat
    BY KeepAssumption DEF KeepInv, StoppedInv, Roles
  <2>2. \A t \in Steps, k \in Ranks : ckpt[t][ro][k] <= run /\ ckpt[t][ro][k] \in Int
    <3>1. \A t \in Steps, k \in Ranks : ckpt[t][ro][k] <= run
      BY DEF KeepInv, KeepAt
    <3>2. \A t \in Steps, k \in Ranks : ckpt[t][ro][k] \in Int
      <4>1. ckpt \in [Steps -> [Roles -> [Ranks -> -1..MaxRuns]]]
        BY DEF KeepInv, TypeInv, TypeOK
      <4> QED
        BY <4>1
    <3> QED
      BY <3>1, <3>2, Zenon
  <2>3. run \in Nat
    BY DEF KeepInv, TypeInv, TypeOK
  <2>4. \A t \in Steps, k \in Ranks : ckpt'[t][ro][k] < run'
    BY <1>1, <2>2, <2>3
  <2> QED
    BY <1>1, <2>1, <2>2, <2>3, <2>4 DEF KeepAt, Written, Room, AfterRotation
<1>3. StoppedInv'
  BY <1>1 DEF StoppedInv
<1> QED
  BY <1>2, <1>3 DEF KeepInv

\* A step of save_checkpoint of one role: what is to be shown of that role.
LEMMA KeepSaving ==
    ASSUME KeepInv, TypeInv', phase \in Roles, UNCHANGED <<phase, gstep, run>>,
           \A ro \in Roles : ro # phase =>
               /\ prev'[ro] = prev[ro]
               /\ \A s \in Steps, k \in Ranks : ckpt'[s][ro][k] = ckpt[s][ro][k],
           Written(phase)', Room(phase)', AfterRotation(phase)',
           \A s \in Steps, k \in Ranks : ckpt'[s][phase][k] <= run
    PROVE  KeepInv'
<1>1. phase \in Running /\ phase' \in Running /\ phase' \notin Stopped
  BY StoppedOrRunning
<1>2. ASSUME NEW ro \in Roles, ro # phase PROVE KeepAt(ro)'
  BY <1>1, <1>2, KeepOther
<1>3. KeepAt(phase)'
  BY <1>1 DEF KeepAt
<1>4. StoppedInv'
  BY <1>1 DEF StoppedInv
<1> QED
  BY <1>2, <1>3, <1>4 DEF KeepInv

\* What the invariant says of the role being saved.
LEMMA SavingKeeps ==
    ASSUME KeepInv, phase \in Roles
    PROVE  /\ Written(phase) /\ Room(phase) /\ AfterRotation(phase)
           /\ run \in Nat /\ run >= 1
           /\ \A t \in Steps, j \in Ranks : ckpt[t][phase][j] <= run
<1>1. phase \in Running
  BY StoppedOrRunning
<1>2. Written(phase) /\ Room(phase) /\ AfterRotation(phase)
      /\ \A t \in Steps, j \in Ranks : ckpt[t][phase][j] <= run
  BY <1>1 DEF KeepInv, KeepAt
<1>3. run \in Nat /\ run >= 1
  BY <1>1 DEF KeepInv, TypeInv, TypeOK, Bounds
<1> QED
  BY <1>2, <1>3

LEMMA KeepStep == KeepInv /\ [Next]_vars => KeepInv'
<1> SUFFICES ASSUME KeepInv, [Next]_vars PROVE KeepInv'
  OBVIOUS
<1>0. TypeInv'
  BY TypeStep DEF KeepInv
<1>1. CASE StartFromScratch
  BY <1>0, <1>1, KeepEnterLoop DEF StartFromScratch
<1>2. ASSUME NEW s \in Steps, Resume(s) PROVE KeepInv'
  BY <1>0, <1>2, KeepEnterLoop DEF Resume
<1>3. CASE LoadFails
  <2>1. /\ phase' = "failed" /\ run' = run + 1 /\ ckpt' = ckpt
        /\ phase' \notin Running /\ StoppedInv'
    BY <1>3 DEF LoadFails, Stop, disk, StoppedInv, Running
  <2>2. ASSUME NEW ro \in Roles PROVE KeepAt(ro)'
    <3>1. \A t \in Steps, k \in Ranks : ckpt[t][ro][k] <= run /\ ckpt[t][ro][k] \in Int
      BY DEF KeepInv, KeepAt, TypeInv, TypeOK
    <3>2. run \in Nat /\ MaxKeep[ro] \in Nat
      BY KeepAssumption DEF KeepInv, TypeInv, TypeOK, Roles
    <3>3. \A t \in Steps, k \in Ranks : ckpt'[t][ro][k] < run'
      BY <2>1, <3>1, <3>2
    <3>4. \A t \in Steps, k \in Ranks : ckpt'[t][ro][k] # run' /\ ckpt'[t][ro][k] <= run'
      BY <2>1, <3>1, <3>2, <3>3
    <3>5. phase' # ro
      BY <2>1 DEF Roles
    <3>6. DirsOfRun(ro)' = {}
      BY <3>4, <3>5 DEF DirsOfRun
    <3>7. Cardinality(DirsOfRun(ro)') = 0
      BY <3>6, FS_EmptySet
    <3>8. Within(ro)'
      BY <3>2, <3>7 DEF Within
    <3> QED
      BY <2>1, <3>4, <3>8 DEF KeepAt
  <2> QED
    BY <1>0, <2>1, <2>2 DEF KeepInv
<1>4. CASE TrainStep
  <2>1. phase = "train" /\ phase \in Running /\ phase \notin Roles /\ UNCHANGED <<ckpt, run>>
    BY <1>4 DEF TrainStep, Running, Roles
  <2>2. CASE SaveNow
    <3>1. /\ phase' \in Running /\ prev' = prev /\ wpc' = [k \in Ranks |-> "enter"]
      BY <1>4, <2>2 DEF TrainStep, Running
    <3> QED
      BY <1>0, <2>1, <3>1, KeepOutside
  <2>3. CASE ~SaveNow
    BY <1>0, <1>4, <2>1, <2>3, KeepFinish DEF TrainStep
  <2> QED
    BY <2>2, <2>3
<1>5. CASE EpochEnd
  <2>1. phase = "train" /\ phase \in Running /\ phase \notin Roles /\ UNCHANGED <<ckpt, run>>
    BY <1>5 DEF EpochEnd, Running, Roles, disk
  <2>2. CASE epoch + 1 < TotalEpochs
    BY <1>0, <1>5, <2>1, <2>2, KeepOutside DEF EpochEnd
  <2>3. CASE ~(epoch + 1 < TotalEpochs)
    <3>1. Stop("finished") /\ "finished" \in Stopped
      BY <1>5, <2>3 DEF EpochEnd, Stopped
    <3> QED
      BY <1>0, <2>1, <3>1, KeepStop
  <2> QED
    BY <2>2, <2>3
<1>6. ASSUME NEW s \in Steps, NEW k \in Ranks, RemoveShard(s, k) PROVE KeepInv'
  <2>1. /\ phase \in Roles /\ UNCHANGED <<phase, gstep, prev, wpc, run>>
        /\ ckpt' = [ckpt EXCEPT ![s][phase][k] = Missing]
    BY <1>6 DEF RemoveShard, memory
  <2>2. \A t \in Steps, ro \in Roles, j \in Ranks :
            ckpt'[t][ro][j] = IF t = s /\ ro = phase /\ j = k THEN 0 ELSE ckpt[t][ro][j]
    <3>1. ckpt \in [Steps -> [Roles -> [Ranks -> -1..MaxRuns]]]
      BY DEF KeepInv, TypeInv, TypeOK
    <3> QED
      BY <2>1, <3>1 DEF Missing
  <2>3. /\ Written(phase) /\ Room(phase) /\ AfterRotation(phase) /\ run \in Nat /\ run >= 1
        /\ \A t \in Steps, j \in Ranks : ckpt[t][phase][j] <= run
    BY <2>1, SavingKeeps
  <2>4. Written(phase)'
    BY <2>1, <2>2, <2>3 DEF Written, Remembered
  <2>5. Room(phase)' /\ AfterRotation(phase)'
    BY <2>1, <2>3 DEF Room, AfterRotation
  <2>6. \A t \in Steps, j \in Ranks : ckpt'[t][phase][j] <= run
    BY <2>1, <2>2, <2>3
  <2> QED
    BY <1>0, <2>1, <2>2, <2>4, <2>5, <2>6, KeepSaving
<1>7. ASSUME NEW k \in Ranks, MakeDir(k) PROVE KeepInv'
  <2>1. /\ phase \in Roles /\ UNCHANGED <<phase, gstep, ckpt, run>>
        /\ wpc[k] = "enter" /\ wpc' = [wpc EXCEPT ![k] = "ready"]
    BY <1>7 DEF MakeDir
  <2>2. /\ Written(phase) /\ Room(phase) /\ AfterRotation(phase) /\ run \in Nat /\ run >= 1
        /\ \A t \in Steps, j \in Ranks : ckpt[t][phase][j] <= run
    BY <2>1, SavingKeeps
  <2>3. \A j \in Ranks : wpc'[j] = IF j = k THEN "ready" ELSE wpc[j]
    BY <2>1 DEF KeepInv, TypeInv, TypeOK
  <2>4. AfterRotation(phase)'
    BY <2>1, <2>2, <2>3, RankZero DEF AfterRotation
  <2>5. CASE k # 0
    <3>1. prev' = prev /\ wpc'[0] = wpc[0]
      BY <1>7, <2>3, <2>5, RankZero DEF MakeDir
    <3>2. Written(phase)' /\ Room(phase)'
      BY <2>1, <2>2, <2>3, <3>1 DEF Written, Remembered, Room
    <3> QED
      BY <1>0, <2>1, <2>2, <2>4, <3>1, <3>2, KeepSaving
  <2>6. CASE k = 0
    <3>1. /\ \A s \in Doomed(phase), j \in Ranks : ckpt[s][phase][j] = Missing
          /\ prev' = [prev EXCEPT ![phase] =
                 SubSeq(prev[phase], KeepStart(phase) + 1, Len(prev[phase]))]
      BY <1>7, <2>6 DEF MakeDir
    <3>2. \A ro \in Roles : ro # phase => prev'[ro] = prev[ro]
      BY <3>1 DEF KeepInv, TypeInv, TypeOK
    <3>3. prev'[phase] = SubSeq(prev[phase], KeepStart(phase) + 1, Len(prev[phase]))
      BY <2>1, <3>1 DEF KeepInv, TypeInv, TypeOK
    <3>4. /\ Len(prev'[phase]) = Len(prev[phase]) - KeepStart(phase)
          /\ KeepStart(phase) \in Nat /\ Len(prev[phase]) \in Nat
          /\ \A i \in 1..Len(prev'[phase]) : prev'[phase][i] = prev[phase][i + KeepStart(phase)]
      BY <2>1, <3>3, RotationShift DEF KeepInv
    <3>5. MaxKeep[phase] \in Nat
      BY <2>1, KeepAssumption DEF Roles
    <3>6. MaxKeep[phase] > 0 => Len(prev'[phase]) < MaxKeep[phase]
      BY <2>2, <3>4, <3>5 DEF Room, KeepStart
    <3>7. Room(phase)'
      BY <2>1, <3>4, <3>5, <3>6 DEF Room
    <3>8. ASSUME NEW s \in Steps, NEW j \in Ranks, ckpt'[s][phase][j] = run
          PROVE  Remembered(phase, s)' \/ (s = gstep' /\ wpc'[j] = "wrote")
      <4>1. Remembered(phase, s) \/ (s = gstep /\ wpc[j] = "wrote")
        BY <2>1, <2>2, <3>8 DEF Written
      <4>2. CASE Remembered(phase, s)
        <5>1. PICK i \in 1..Len(prev[phase]) : prev[phase][i] = s
          BY <4>2 DEF Remembered
        <5>2. i \notin 1..KeepStart(phase)
          BY <2>1, <2>2, <3>1, <3>8, <5>1 DEF Doomed, Missing
        <5>3. /\ i - KeepStart(phase) \in 1..Len(prev'[phase])
              /\ (i - KeepStart(phase)) + KeepStart(phase) = i
          BY <3>4, <5>1, <5>2
        <5>4. prev'[phase][i - KeepStart(phase)] = s
          BY <3>4, <5>1, <5>3
        <5> QED
          BY <2>1, <5>3, <5>4 DEF Remembered
      <4>3. CASE s = gstep /\ wpc[j] = "wrote"
        BY <2>1, <2>3, <4>3
      <4> QED
        BY <4>1, <4>2, <4>3
    <3>9. Written(phase)'
      BY <2>1, <3>8 DEF Written, Remembered
    <3> QED
      BY <1>0, <2>1, <2>2, <2>4, <3>2, <3>7, <3>9, KeepSaving
  <2> QED
    BY <2>5, <2>6
<1>8. ASSUME NEW k \in Ranks, BeginShard(k) \/ EndShard(k) PROVE KeepInv'
  <2>1. /\ phase \in Roles /\ UNCHANGED <<phase, gstep, prev, run>> /\ wpc[k] # "wrote"
        /\ \A j \in Ranks : j # k => wpc'[j] = wpc[j]
    BY <1>8 DEF BeginShard, EndShard, KeepInv, TypeInv, TypeOK
  <2>2. gstep \in Steps
    BY <2>1, StoppedOrRunning, RunningStep DEF KeepInv
  <2>3. /\ Written(phase) /\ Room(phase) /\ AfterRotation(phase) /\ run \in Nat /\ run >= 1
        /\ \A t \in Steps, j \in Ranks : ckpt[t][phase][j] <= run
    BY <2>1, SavingKeeps
  <2>4. wpc[0] # "enter" /\ wpc'[0] # "enter"
    <3>1. CASE BeginShard(k)
      BY <2>1, <3>1, RankZero DEF BeginShard, EntryBarrierOpen, KeepInv, TypeInv, TypeOK
    <3>2. CASE EndShard(k)
      BY <2>1, <2>3, <3>2, RankZero DEF EndShard, AfterRotation, KeepInv, TypeInv, TypeOK
    <3> QED
      BY <1>8, <3>1, <3>2
  <2>5. PICK v \in {-1, run} :
            /\ ckpt' = [ckpt EXCEPT ![gstep][phase][k] = v]
            /\ v = run => wpc'[k] = "wrote"
    <3>1. CASE BeginShard(k)
      BY <2>3, <3>1 DEF BeginShard, Torn
    <3>2. CASE EndShard(k)
      BY <3>2 DEF EndShard, KeepInv, TypeInv, TypeOK
    <3> QED
      BY <1>8, <3>1, <3>2
  <2>6. \A t \in Steps, ro \in Roles, j \in Ranks :
            ckpt'[t][ro][j] =
                IF t = gstep /\ ro = phase /\ j = k THEN v ELSE ckpt[t][ro][j]
    <3>1. ckpt \in [Steps -> [Roles -> [Ranks -> -1..MaxRuns]]]
      BY DEF KeepInv, TypeInv, TypeOK
    <3> QED
      BY <2>1, <2>2, <2>5, <3>1, WrittenAt
  <2>7. Written(phase)'
    <3> SUFFICES ASSUME NEW s \in Steps, NEW j \in Ranks, ckpt'[s][phase][j] = run
                 PROVE  Remembered(phase, s) \/ (s = gstep /\ wpc'[j] = "wrote")
      BY <2>1 DEF Written, Remembered
    <3>1. CASE s = gstep /\ j = k
      BY <2>1, <2>5, <2>6, <3>1
    <3>2. CASE ~(s = gstep /\ j = k)
      <4>1. ckpt[s][phase][j] = run
        BY <2>1, <2>6, <3>2
      <4>2. Remembered(phase, s) \/ (s = gstep /\ wpc[j] = "wrote")
        BY <2>3, <4>1 DEF Written
      <4> QED
        BY <2>1, <3>2, <4>2
    <3> QED
      BY <3>1, <3>2
  <2>8. Room(phase)' /\ AfterRotation(phase)'
    BY <2>1, <2>3, <2>4 DEF Room, AfterRotation
  <2>9. \A t \in Steps, j \in Ranks : ckpt'[t][phase][j] <= run
    BY <2>1, <2>3, <2>6
  <2> QED
    BY <1>0, <2>1, <2>6, <2>7, <2>8, <2>9, KeepSaving
<1>10. CASE RoleSaved
  <2>1. /\ phase \in Roles /\ UNCHANGED <<gstep, ckpt, run>>
        /\ \A k \in Ranks : wpc[k] = "wrote"
        /\ prev' = [prev EXCEPT ![phase] = Append(prev[phase], gstep)]
        /\ phase' \in {"critic", "data"} /\ phase' # phase
        /\ phase' = "critic" => wpc' = [k \in Ranks |-> "enter"]
    BY <1>10 DEF RoleSaved, disk, Roles
  <2>2. phase' \in Running /\ phase' \notin Stopped /\ StoppedInv'
    BY <2>1 DEF Running, Stopped, StoppedInv
  <2>3. /\ Written(phase) /\ Room(phase) /\ AfterRotation(phase) /\ MaxKeep[phase] \in Nat
        /\ \A t \in Steps, j \in Ranks : ckpt[t][phase][j] <= run
    BY <2>1, StoppedOrRunning, KeepAssumption DEF KeepInv, KeepAt, Roles
  <2>4. ASSUME NEW ro \in Roles, ro # phase PROVE KeepAt(ro)'
    <3>1. prev'[ro] = prev[ro]
      BY <2>1, <2>4 DEF KeepInv, TypeInv, TypeOK
    <3>2. phase' = ro => \A k \in Ranks : wpc'[k] = "enter"
      BY <2>1 DEF Roles
    <3> QED
      BY <2>1, <2>2, <2>4, <3>1, <3>2, KeepOther
  <2>5. /\ gstep \in Steps /\ prev[phase] \in Seq(Steps)
        /\ prev'[phase] = Append(prev[phase], gstep)
    BY <2>1, StoppedOrRunning, RunningStep DEF KeepInv, TypeInv, TypeOK
  <2>6. /\ Len(prev'[phase]) = Len(prev[phase]) + 1 /\ Len(prev[phase]) \in Nat
        /\ prev'[phase][Len(prev[phase]) + 1] = gstep
        /\ \A i \in 1..Len(prev[phase]) : prev'[phase][i] = prev[phase][i]
    BY <2>5
  <2>7. ASSUME NEW s \in Steps, NEW j \in Ranks, ckpt[s][phase][j] = run
        PROVE  \E i \in 1..Len(prev'[phase]) : prev'[phase][i] = s
    <3>1. Remembered(phase, s) \/ s = gstep
      BY <2>3, <2>7 DEF Written
    <3>2. CASE Remembered(phase, s)
      <4>1. PICK i \in 1..Len(prev[phase]) : prev[phase][i] = s
        BY <3>2 DEF Remembered
      <4>2. i \in 1..Len(prev'[phase]) /\ prev'[phase][i] = s
        BY <2>6, <4>1
      <4> QED
        BY <4>2
    <3>3. CASE s = gstep
      <4>1. Len(prev[phase]) + 1 \in 1..Len(prev'[phase])
        BY <2>6
      <4> QED
        BY <2>6, <3>3, <4>1
    <3> QED
      BY <3>1, <3>2, <3>3
  <2>8. wpc[0] # "enter"
    BY <2>1, RankZero
  <2>9. MaxKeep[phase] > 0 => Len(prev'[phase]) <= MaxKeep[phase]
    BY <2>3, <2>6, <2>8 DEF Room
  <2>10. \A ro \in Roles : ro = phase => KeepAt(ro)'
    BY <2>1, <2>2, <2>3, <2>7, <2>9 DEF KeepAt, Written, Remembered, Room, AfterRotation
  <2> QED
    BY <1>0, <2>2, <2>4, <2>10 DEF KeepInv
<1>11. CASE BeginData \/ EndData \/ TruncateTracker
  <2>1. /\ phase \in Running /\ phase \notin Roles /\ phase' \in Running /\ phase' \notin Roles
        /\ UNCHANGED <<ckpt, prev, run>>
    BY <1>11 DEF BeginData, EndData, TruncateTracker, memory, Running, Roles
  <2> QED
    BY <1>0, <2>1, KeepOutside
<1>12. CASE WriteTracker
  <2>1. phase \in Running /\ phase \notin Roles /\ FinishStep /\ UNCHANGED <<ckpt, run>>
    BY <1>12 DEF WriteTracker, Running, Roles
  <2> QED
    BY <1>0, <2>1, KeepFinish
<1>13. CASE Crash
  <2>1. phase \in Running /\ Stop("down") /\ "down" \in Stopped /\ UNCHANGED <<ckpt, run>>
    BY <1>13 DEF Crash, Stopped, disk
  <2> QED
    BY <1>0, <2>1, KeepStop
<1>14. CASE UNCHANGED vars
  <2>1. UNCHANGED <<phase, gstep, prev, wpc, ckpt, run>>
    BY <1>14 DEF vars, memory, disk
  <2>2. ASSUME NEW ro \in Roles
        PROVE  KeepAt(ro)'
    <3>1. KeepAt(ro)
      BY DEF KeepInv
    <3>2. /\ Written(ro)' <=> Written(ro)
          /\ Room(ro)' <=> Room(ro)
          /\ AfterRotation(ro)' <=> AfterRotation(ro)
          /\ Within(ro)' <=> Within(ro)
      BY <2>1 DEF Written, Remembered, Room, AfterRotation, Within, DirsOfRun
    <3> QED
      BY <2>1, <3>1, <3>2 DEF KeepAt
  <2>3. StoppedInv'
    BY <2>1 DEF KeepInv, StoppedInv
  <2> QED
    BY <1>0, <2>2, <2>3 DEF KeepInv
<1> QED
  BY <1>1, <1>2, <1>3, <1>4, <1>5, <1>6, <1>7, <1>8, <1>10, <1>11, <1>12, <1>13, <1>14
     DEF Next, RunStep

\* No run has more checkpoints of a role on disk than the limit it was given,
\* the one it is writing included: for every limit, every number of ranks and
\* submissions, whatever mode they resume in and wherever they crash.
THEOREM RunAlwaysKeepsAtMost == Spec => []RunKeepsAtMost
<1>1. KeepInv => RunKeepsAtMost
  <2> SUFFICES ASSUME KeepInv, NEW ro \in Roles, run > 0 PROVE Within(ro)
    BY DEF RunKeepsAtMost, Within
  <2>1. CASE phase \in Running
    BY <2>1, RunningWithin
  <2>2. CASE phase \in Stopped
    BY <2>2 DEF KeepInv, KeepAt
  <2> QED
    BY <2>1, <2>2 DEF KeepInv, TypeInv, TypeOK
<1> QED
  BY <1>1, KeepInit, KeepStep, PTL DEF Spec

(***************************************************************************)
(* What a resumed run can rely on: Checkpoint implements the one resume    *)
(* point of ResumePoint, a resumed run trains on the right batches, and it *)
(* repeats at most one save interval.  All of it for jobs in mode "auto"   *)
(* whose roles do not keep a single checkpoint (RotationSafe).             *)
(***************************************************************************)

\* A step is saved exactly when it is due, and the tracker is unreadable while
\* it is being written.
PublishInv ==
    /\ phase \in Running \ {"train"} => SaveNow
    /\ phase = "tracker_torn" => tracker = EmptyTracker
    /\ phase \in Running \ {"tracker_torn"} => tracker # EmptyTracker
    /\ phase \in Stopped => gstep = 0

LEMMA PublishInit == Init => PublishInv
  BY DEF Init, PublishInv, Running, Stopped

\* What a resumed run loads is the tracked checkpoint, which is readable.
LEMMA LoadsTracked ==
    ASSUME RestoreInv, RotationSafe, ~LatestRaises
    PROVE  /\ LoadTargets("auto") = {tracker}
           /\ tracker > 0 => ShardsLoad(tracker) /\ data[tracker].run >= 1
<1>1. tracker \in {0} \cup Steps /\ run \in Nat
  BY DEF RestoreInv, TypeInv, TypeOK, LatestRaises, EmptyTracker, Steps
<1>2. Latest = tracker
  BY <1>1 DEF RestoreInv, FolderInv, Latest, Steps
<1>3. ASSUME tracker > 0 PROVE ShardsLoad(tracker) /\ data[tracker].run >= 1
  <2>1. PICK r \in 1..run : RestorableFrom(tracker, r)
    BY <1>3 DEF RestoreInv, TrackedRestorable
  <2> QED
    BY <1>1, <2>1 DEF RestorableFrom, ShardsLoad
<1> QED
  BY <1>1, <1>2, <1>3 DEF LoadTargets

\* So a run that starts continues after the tracked step, and starting fails
\* only on an empty tracker.
LEMMA Starts ==
    ASSUME RestoreInv, RotationSafe
    PROVE  /\ StartFromScratch => tracker = 0 /\ EnterLoop(0, 0)
           /\ \A s \in Steps : Resume(s) =>
                  s = tracker /\ EnterLoop(s, data[s].pos)
           /\ LoadFails => tracker = EmptyTracker
<1>1. ASSUME StartFromScratch PROVE tracker = 0 /\ EnterLoop(0, 0)
  BY <1>1, LoadsTracked DEF StartFromScratch, RotationSafe
<1>2. ASSUME NEW s \in Steps, Resume(s) PROVE s = tracker /\ EnterLoop(s, data[s].pos)
  BY <1>2, LoadsTracked DEF Resume, RotationSafe, RestoredPos, Missing, Steps
<1>3. ASSUME LoadFails PROVE tracker = EmptyTracker
  <2> SUFFICES ASSUME ~LatestRaises PROVE FALSE
    BY DEF LatestRaises
  <2>1. PICK s \in LoadTargets("auto") \ {0} : ~ShardsLoad(s) \/ data[s].run = Torn
    BY <1>3 DEF LoadFails, RotationSafe
  <2>2. s = tracker /\ tracker > 0
    BY <2>1, LoadsTracked DEF RestoreInv, TypeInv, TypeOK, LatestRaises, EmptyTracker
  <2> QED
    BY <2>1, <2>2, LoadsTracked DEF Torn
<1> QED
  BY <1>1, <1>2, <1>3

(***************************************************************************)
(* The refinement.                                                         *)
(***************************************************************************)

\* The last step of a run, or the one before the next.
LEMMA FinishStepPublishes ==
    ASSUME FinishStep, tracker' # EmptyTracker
    PROVE  PublishInv'
  BY DEF FinishStep, Stop, PublishInv, Running, Stopped, EmptyTracker

LEMMA PublishStep ==
    ASSUME RestoreInv, RotationSafe, PublishInv, [Next]_vars
    PROVE  PublishInv'
<1> USE DEF Running, Stopped, EmptyTracker
<1>1. ASSUME StartFromScratch \/ \E s \in Steps : Resume(s) PROVE PublishInv'
  <2>1. tracker # EmptyTracker /\ \E s, p : EnterLoop(s, p)
    BY <1>1, Starts DEF Steps
  <2> QED
    BY <2>1 DEF EnterLoop, disk, PublishInv
<1>2. CASE LoadFails \/ Crash
  BY <1>2 DEF LoadFails, Crash, Stop, PublishInv
<1>3. CASE TrainStep
  <2>1. phase = "train" /\ tracker' = tracker /\ tracker # EmptyTracker
    BY <1>3 DEF TrainStep, PublishInv
  <2>2. CASE SaveNow
    BY <1>3, <2>1, <2>2 DEF TrainStep, PublishInv, SaveNow
  <2>3. CASE ~SaveNow
    BY <1>3, <2>1, <2>3, FinishStepPublishes DEF TrainStep
  <2> QED
    BY <2>2, <2>3
<1>4. CASE EpochEnd
  BY <1>4 DEF EpochEnd, Stop, disk, PublishInv, SaveNow
<1>5. ASSUME NEW s \in Steps, NEW k \in Ranks, RemoveShard(s, k) PROVE PublishInv'
  BY <1>5 DEF RemoveShard, memory, PublishInv, SaveNow
<1>6. ASSUME NEW k \in Ranks, MakeDir(k) \/ BeginShard(k) \/ EndShard(k) PROVE PublishInv'
  BY <1>6 DEF MakeDir, BeginShard, EndShard, PublishInv, SaveNow
<1>7. CASE RoleSaved
  <2>1. phase \in Running \ {"train", "tracker_torn"} /\ phase' \in {"critic", "data"}
    BY <1>7 DEF RoleSaved, Roles
  <2> QED
    BY <1>7, <2>1 DEF RoleSaved, disk, PublishInv, SaveNow
<1>8. CASE BeginData \/ EndData \/ TruncateTracker
  BY <1>8 DEF BeginData, EndData, TruncateTracker, memory, PublishInv, SaveNow
<1>9. CASE WriteTracker
  <2>1. gstep # EmptyTracker
    BY <1>9 DEF WriteTracker, RestoreInv, TypeInv, TypeOK
  <2> QED
    BY <1>9, <2>1, FinishStepPublishes DEF WriteTracker
<1>10. CASE UNCHANGED vars
  BY <1>10 DEF vars, memory, disk, PublishInv, SaveNow
<1> QED
  BY <1>1, <1>2, <1>3, <1>4, <1>5, <1>6, <1>7, <1>8, <1>9, <1>10 DEF Next, RunStep

\* The status of the abstract job.
Status == IF phase \in Running THEN "up" ELSE phase

LEMMA FinishStepRefines ==
    ASSUME FinishStep
    PROVE  IF gstep >= TotalSteps
           THEN Status' = "finished" /\ gstep' = 0
           ELSE Status' = "up" /\ gstep' = gstep + 1
  BY DEF FinishStep, IsLastStep, Stop, Status, Running

LEMMA StepRefines ==
    ASSUME RestoreInv, RotationSafe, PublishInv, [Next]_vars
    PROVE  [Point!RPNext]_(Point!rpVars)
<1> USE DEF Point!RPNext, Point!rpVars, Point!Unreadable, EmptyTracker
<1>0. /\ phase \in Running => Status = "up"
      /\ phase \in Stopped => Status # "up" /\ phase \notin Running
      /\ phase' \in Running => Status' = "up"
      /\ phase' \in Stopped => Status' = phase'
  BY DEF Status, Running, Stopped
<1>1. CASE StartFromScratch \/ \E s \in Steps : Resume(s)
  <2>1. /\ phase \in Stopped /\ phase' = "train" /\ gstep' = tracker + 1
        /\ tracker' = tracker /\ tracker # -1
    BY <1>1, Starts DEF StartFromScratch, Resume, EnterLoop, disk, Steps
  <2> QED
    BY <1>0, <2>1 DEF Point!Start, Status, Running
<1>2. CASE LoadFails
  <2>1. /\ phase \in Stopped /\ phase' = "failed" /\ gstep' = 0
        /\ tracker' = tracker /\ tracker = -1
    BY <1>2, Starts DEF LoadFails, Stop, disk
  <2> QED
    BY <1>0, <2>1 DEF Point!StartFails, Status, Stopped
<1>3. CASE TrainStep
  <2>1. phase = "train" /\ phase \in Running /\ tracker' = tracker
    BY <1>3 DEF TrainStep, Running
  <2>2. CASE SaveNow
    <3>1. phase' = "actor" /\ phase' \in Running /\ gstep' = gstep
      BY <1>3, <2>2 DEF TrainStep, Running
    <3> QED
      BY <1>0, <2>1, <3>1 DEF Status
  <2>3. CASE ~SaveNow
    <3>1. FinishStep
      BY <1>3, <2>3 DEF TrainStep
    <3> QED
      BY <1>0, <2>1, <2>3, <3>1, FinishStepRefines
         DEF Status, SaveNow, Point!Advance, Point!NextStep
  <2> QED
    BY <2>2, <2>3
<1>4. CASE EpochEnd
  <2>1. phase = "train" /\ phase \in Running /\ tracker' = tracker /\ tracker # -1
    BY <1>4 DEF EpochEnd, disk, Running, PublishInv
  <2>2. CASE epoch + 1 < TotalEpochs
    BY <1>4, <2>1, <2>2 DEF EpochEnd
  <2>3. CASE ~(epoch + 1 < TotalEpochs)
    <3>1. phase' = "finished" /\ gstep' = 0
      BY <1>4, <2>3 DEF EpochEnd, Stop
    <3> QED
      BY <1>0, <2>1, <3>1 DEF Status, Stopped, Point!OutOfData
  <2> QED
    BY <2>2, <2>3
<1>5. CASE UNCHANGED <<Status, gstep, tracker>>
  BY <1>5 DEF Status
<1>6. ASSUME \E s \in Steps, k \in Ranks : RemoveShard(s, k)
      PROVE  UNCHANGED <<Status, gstep, tracker>>
  BY <1>6 DEF RemoveShard, memory, Status
<1>7. ASSUME NEW k \in Ranks, MakeDir(k) \/ BeginShard(k) \/ EndShard(k)
      PROVE  UNCHANGED <<Status, gstep, tracker>>
  BY <1>7 DEF MakeDir, BeginShard, EndShard, Status
<1>8. ASSUME RoleSaved PROVE UNCHANGED <<Status, gstep, tracker>>
  <2>1. phase \in Running /\ phase' \in Running
    BY <1>8, SavingRuns DEF RoleSaved, Running
  <2> QED
    BY <1>0, <1>8, <2>1 DEF RoleSaved, disk
<1>9. ASSUME BeginData \/ EndData PROVE UNCHANGED <<Status, gstep, tracker>>
  BY <1>9 DEF BeginData, EndData, memory, Status, Running
<1>10. CASE TruncateTracker
  <2>1. /\ phase = "tracker" /\ phase' = "tracker_torn" /\ tracker' = -1
        /\ gstep' = gstep /\ tracker # -1 /\ DueToSave(gstep)
    BY <1>10 DEF TruncateTracker, memory, PublishInv, SaveNow, Running
  <2> QED
    BY <2>1 DEF Point!BeginPublish, Running
<1>11. CASE WriteTracker
  <2>1. phase = "tracker_torn" /\ tracker = -1 /\ tracker' = gstep /\ FinishStep
    BY <1>11 DEF WriteTracker, PublishInv
  <2> QED
    BY <2>1, FinishStepRefines DEF Status, Point!Publish, Point!NextStep, Running
<1>12. CASE Crash
  <2>1. phase \in Running /\ phase' = "down" /\ gstep' = 0 /\ tracker' = tracker
    BY <1>12 DEF Crash, Stop, disk
  <2> QED
    BY <1>0, <2>1 DEF Status, Stopped, Point!CrashRun
<1>13. CASE UNCHANGED vars
  BY <1>13 DEF vars, memory, disk
<1> QED
  BY <1>1, <1>2, <1>3, <1>4, <1>5, <1>6, <1>7, <1>8, <1>9, <1>10, <1>11, <1>12, <1>13
     DEF Next, RunStep

\* The files, the ranks, their barriers and the rotation implement the one
\* resume point, for every number of ranks, steps and submissions.
THEOREM ImplementsResumePoint ==
    ASSUME RotationSafe PROVE Spec => OneResumePoint
<1>1. Init => Point!RPInit
  BY DEF Init, Point!RPInit, Running, NoTracker
<1>2. RestoreInv /\ [Next]_vars => RestoreInv'
  BY RestoreStep
<1>3. RestoreInv /\ PublishInv /\ [Next]_vars => PublishInv'
  BY PublishStep
<1>4. RestoreInv /\ PublishInv /\ [Next]_vars => [Point!RPNext]_(Point!rpVars)
  BY StepRefines
<1> QED
  BY <1>1, <1>2, <1>3, <1>4, RestoreInit, PublishInit, PTL
     DEF Spec, OneResumePoint, Point!RPSpec

(***************************************************************************)
(* Remainders.                                                             *)
(***************************************************************************)

LEMMA UniqueRemainder ==
    ASSUME NEW n \in Nat \ {0}, NEW q \in Nat, NEW r \in 0..(n - 1)
    PROVE  (n * q + r) % n = r
  BY Z3

LEMMA Remainder ==
    ASSUME NEW n \in Nat \ {0}, NEW a \in Nat
    PROVE  \E q \in Nat, r \in 0..(n - 1) : a = n * q + r /\ a % n = r
<1>1. a = n * (a \div n) + (a % n)
  BY Z3
<1>2. a % n \in 0..(n - 1)
  BY Z3
<1>3. a \div n \in Nat
  BY Z3
<1> QED
  BY <1>1, <1>2, <1>3

\* Counting on keeps equal remainders equal.
LEMMA NextRemainder ==
    ASSUME NEW n \in Nat \ {0}, NEW a \in Nat
    PROVE  (a + 1) % n = IF a % n = n - 1 THEN 0 ELSE (a % n) + 1
<1>1. PICK q \in Nat, r \in 0..(n - 1) : a = n * q + r /\ a % n = r
  BY Remainder
<1>2. CASE r = n - 1
  <2>1. a + 1 = n * (q + 1) + 0
    BY <1>1, <1>2, Z3
  <2>2. (n * (q + 1) + 0) % n = 0
    BY UniqueRemainder
  <2> QED
    BY <1>1, <1>2, <2>1, <2>2
<1>3. CASE r # n - 1
  <2>1. a + 1 = n * q + (r + 1) /\ r + 1 \in 0..(n - 1)
    BY <1>1, <1>3, Z3
  <2>2. (n * q + (r + 1)) % n = r + 1
    BY <2>1, UniqueRemainder
  <2> QED
    BY <1>1, <1>3, <2>1, <2>2
<1> QED
  BY <1>2, <1>3

LEMMA NoRemainder == \A n \in Nat \ {0} : n % n = 0 /\ 0 % n = 0
  BY Z3

\* One of n numbers in a row is a multiple of n.
LEMMA MultipleInWindow ==
    ASSUME NEW n \in Nat \ {0}, NEW a \in Nat
    PROVE  \E m \in (a + 1)..(a + n) : m % n = 0
<1>1. PICK q \in Nat, r \in 0..(n - 1) : a = n * q + r
  BY Remainder
<1>2. n * (q + 1) + 0 = a + n - r /\ a + n - r \in (a + 1)..(a + n)
  BY <1>1, Z3
<1>3. (n * (q + 1) + 0) % n = 0
  BY UniqueRemainder
<1> QED
  BY <1>2, <1>3

(***************************************************************************)
(* The batches of a resumed run.                                           *)
(***************************************************************************)

\* g batches have been trained on, and p is where the dataloader is then.
Consumed(p, g) == p % BatchesPerEpoch = g % BatchesPerEpoch

LEMMA ConsumedNext ==
    ASSUME NEW p \in Nat, NEW g \in Nat, Consumed(p, g)
    PROVE  Consumed(p + 1, g + 1)
  BY NextRemainder, ScheduleAssumption DEF Consumed

\* The position is that of the step, in memory and in every complete data.pt.
AlignInv ==
    /\ phase = "train" => Consumed(pos, gstep - 1)
    /\ phase \in Running \ {"train"} => Consumed(pos, gstep)
    /\ \A s \in Steps : data[s].run >= 1 => Consumed(data[s].pos, s)

LEMMA AlignStep ==
    ASSUME RestoreInv, RotationSafe, AlignInv, [Next]_vars
    PROVE  AlignInv'
<1> USE DEF Running, Stopped
<1>0. /\ pos \in Nat /\ gstep \in Nat /\ run \in Nat
      /\ phase \in Running => gstep \in Nat \ {0} /\ gstep \in Steps
      /\ data \in [Steps -> [run : -1..MaxRuns, pos : 0..BatchesPerEpoch]]
  BY RunningStep, RunsAssumption, ScheduleAssumption
     DEF RestoreInv, TypeInv, TypeOK, Bounds, StepsUpTo
<1>1. CASE StartFromScratch \/ \E s \in Steps : Resume(s)
  <2>1. CASE StartFromScratch
    <3>1. phase' = "train" /\ gstep' = 1 /\ pos' = 0 /\ data' = data
      BY <2>1, Starts DEF EnterLoop, disk
    <3> QED
      BY <3>1 DEF AlignInv, Consumed
  <2>2. ASSUME NEW s \in Steps, Resume(s) PROVE AlignInv'
    <3>1. phase' = "train" /\ gstep' = s + 1 /\ pos' = data[s].pos /\ data' = data /\ s = tracker
      BY <2>2, Starts DEF EnterLoop, disk
    <3>2. data[s].run >= 1 /\ s \in Nat
      BY <2>2, <3>1, LoadsTracked DEF Resume, Steps
    <3>3. gstep' - 1 = s
      BY <3>1, <3>2
    <3> QED
      BY <3>1, <3>2, <3>3 DEF AlignInv
  <2> QED
    BY <1>1, <2>1, <2>2
<1>2. CASE LoadFails \/ Crash
  BY <1>2 DEF LoadFails, Crash, Stop, disk, AlignInv
<1>3. CASE TrainStep
  <2>1. /\ phase = "train" /\ data' = data /\ Consumed(pos, gstep - 1) /\ gstep - 1 \in Nat
        /\ (gstep - 1) + 1 = gstep
    BY <1>0, <1>3 DEF TrainStep, AlignInv
  <2>2. Consumed(pos + 1, gstep)
    BY <1>0, <2>1, ConsumedNext
  <2>3. CASE SaveNow
    BY <1>3, <2>1, <2>2, <2>3 DEF TrainStep, AlignInv
  <2>4. CASE ~SaveNow /\ IsLastStep
    BY <1>3, <2>1, <2>4 DEF TrainStep, FinishStep, Stop, AlignInv
  <2>5. CASE ~SaveNow /\ ~IsLastStep
    <3>1. phase' = "train" /\ pos' = pos + 1 /\ gstep' - 1 = gstep
      BY <1>0, <1>3, <2>5 DEF TrainStep, FinishStep
    <3> QED
      BY <2>1, <2>2, <3>1 DEF AlignInv
  <2> QED
    BY <2>3, <2>4, <2>5
<1>4. CASE EpochEnd
  <2>1. CASE epoch + 1 < TotalEpochs
    <3>1. /\ phase = "train" /\ phase' = phase /\ gstep' = gstep /\ data' = data
          /\ pos = BatchesPerEpoch /\ pos' = 0
      BY <1>4, <2>1 DEF EpochEnd, disk
    <3>2. Consumed(0, gstep - 1)
      BY <3>1, NoRemainder, ScheduleAssumption DEF AlignInv, Consumed
    <3> QED
      BY <3>1, <3>2 DEF AlignInv
  <2>2. CASE ~(epoch + 1 < TotalEpochs)
    BY <1>4, <2>2 DEF EpochEnd, Stop, disk, AlignInv
  <2> QED
    BY <2>1, <2>2
<1>5. ASSUME \E s \in Steps, k \in Ranks : RemoveShard(s, k) PROVE AlignInv'
  BY <1>5 DEF RemoveShard, memory, AlignInv
<1>6. ASSUME NEW k \in Ranks, MakeDir(k) \/ BeginShard(k) \/ EndShard(k) PROVE AlignInv'
  BY <1>6 DEF MakeDir, BeginShard, EndShard, AlignInv
<1>7. CASE RoleSaved
  <2>1. /\ phase \in Running \ {"train"} /\ phase' \in {"critic", "data"}
        /\ UNCHANGED <<pos, gstep, data>>
    BY <1>7 DEF RoleSaved, Roles, disk
  <2> QED
    BY <2>1 DEF AlignInv
<1>8. CASE BeginData
  <2>1. /\ phase = "data" /\ phase' = "data_torn" /\ UNCHANGED <<pos, gstep>>
        /\ data' = [data EXCEPT ![gstep].run = Torn]
    BY <1>8 DEF BeginData, memory
  <2>2. \A s \in Steps : data'[s].run >= 1 => data'[s] = data[s]
    BY <1>0, <2>1 DEF Torn
  <2> QED
    BY <2>1, <2>2 DEF AlignInv
<1>9. CASE EndData
  <2>1. /\ phase = "data_torn" /\ phase' = "tracker" /\ UNCHANGED <<pos, gstep>>
        /\ data' = [data EXCEPT ![gstep] = [run |-> run, pos |-> pos]]
    BY <1>9 DEF EndData, memory
  <2>2. \A s \in Steps : data'[s] = IF s = gstep THEN [run |-> run, pos |-> pos] ELSE data[s]
    BY <1>0, <2>1
  <2> QED
    BY <2>1, <2>2 DEF AlignInv
<1>10. CASE TruncateTracker
  BY <1>10 DEF TruncateTracker, memory, AlignInv
<1>11. CASE WriteTracker
  <2>1. phase = "tracker_torn" /\ data' = data /\ Consumed(pos, gstep)
    BY <1>11 DEF WriteTracker, AlignInv
  <2>2. CASE IsLastStep
    BY <1>11, <2>1, <2>2 DEF WriteTracker, FinishStep, Stop, AlignInv
  <2>3. CASE ~IsLastStep
    <3>1. phase' = "train" /\ pos' = pos /\ gstep' - 1 = gstep
      BY <1>0, <1>11, <2>3 DEF WriteTracker, FinishStep
    <3> QED
      BY <2>1, <3>1 DEF AlignInv
  <2> QED
    BY <2>2, <2>3
<1>12. CASE UNCHANGED vars
  BY <1>12 DEF vars, memory, disk, AlignInv
<1> QED
  BY <1>1, <1>2, <1>3, <1>4, <1>5, <1>6, <1>7, <1>8, <1>9, <1>10, <1>11, <1>12 DEF Next, RunStep

(***************************************************************************)
(* The order of the batches. A run resumed from a step of the first pass,  *)
(* or from its end, draws the permutations of the uninterrupted job: its   *)
(* own first pass is the job's.                                            *)
(***************************************************************************)

\* Batches yielded by an uninterrupted job at position p of pass e.
Yielded(e, p) == e * BatchesPerEpoch + p

SameOrderNow == start <= BatchesPerEpoch

\* The pass and the position are those of the step. A save follows a draw, so
\* the position in data.pt is never that of the start of a pass.
OrderInv ==
    /\ SameOrderNow /\ phase = "train" => gstep - 1 = Yielded(epoch, pos)
    /\ SameOrderNow /\ phase \in Running \ {"train"} => gstep = Yielded(epoch, pos)
    /\ phase \in Running \ {"train"} => pos # 0
    /\ \A s \in Steps : data[s].run >= 1 => data[s].pos # 0

LEMMA YieldedNext ==
    ASSUME NEW e \in Nat, NEW p \in Nat
    PROVE  /\ Yielded(e, p + 1) = Yielded(e, p) + 1
           /\ Yielded(e + 1, 0) = Yielded(e, BatchesPerEpoch)
           /\ Yielded(0, p) = p
           /\ Yielded(e, p) \in Nat
<1>1. BatchesPerEpoch \in Nat /\ e * BatchesPerEpoch \in Nat
  BY ScheduleAssumption
<1>2. (e + 1) * BatchesPerEpoch = e * BatchesPerEpoch + BatchesPerEpoch /\ 0 * BatchesPerEpoch = 0
  BY <1>1, ScheduleAssumption
<1> QED
  BY <1>1, <1>2 DEF Yielded

\* The pass and the position are the quotient and the remainder.
LEMMA PlaceOf ==
    ASSUME NEW e \in Nat, NEW p \in 0..(BatchesPerEpoch - 1)
    PROVE  /\ Yielded(e, p) % BatchesPerEpoch = p
           /\ Yielded(e, p) \div BatchesPerEpoch = e
<1> DEFINE n == BatchesPerEpoch
<1>1. n \in Nat \ {0}
  BY ScheduleAssumption
<1>2. Yielded(e, p) = n * e + p
  BY <1>1 DEF Yielded
<1>3. (n * e + p) % n = p
  BY <1>1, UniqueRemainder
<1>4. (n * e + p) \div n = e
  BY <1>1, Z3
<1> QED
  BY <1>2, <1>3, <1>4

\* A position in the first pass that has the remainder of s, and is not the
\* start of the pass, is s.
LEMMA FirstPass ==
    ASSUME NEW s \in Nat \ {0}, s <= BatchesPerEpoch,
           NEW p \in 0..BatchesPerEpoch, p # 0, Consumed(p, s)
    PROVE  p = s
<1> DEFINE n == BatchesPerEpoch
<1>1. n \in Nat \ {0}
  BY ScheduleAssumption
<1>2. \A m \in 0..(n - 1) : m % n = m
  <2> SUFFICES ASSUME NEW m \in 0..(n - 1) PROVE m % n = m
    OBVIOUS
  <2>1. (n * 0 + m) % n = m
    BY <1>1, UniqueRemainder
  <2>2. n * 0 + m = m
    BY <1>1
  <2> QED
    BY <2>1, <2>2
<1>3. n % n = 0
  BY <1>1, NoRemainder
<1>4. p % n = s % n
  BY DEF Consumed
<1>5. CASE p = n
  BY <1>1, <1>2, <1>3, <1>4, <1>5
<1>6. CASE p # n
  BY <1>1, <1>2, <1>3, <1>4, <1>6
<1> QED
  BY <1>5, <1>6

LEMMA OrderStep ==
    ASSUME RestoreInv, RotationSafe, AlignInv, OrderInv, [Next]_vars
    PROVE  OrderInv'
<1> USE DEF Running, Stopped, SameOrderNow
<1>0. /\ pos \in Nat /\ epoch \in Nat /\ gstep \in Nat /\ run \in Nat
      /\ phase \in Running => gstep \in Nat \ {0} /\ gstep \in Steps
      /\ data \in [Steps -> [run : -1..MaxRuns, pos : 0..BatchesPerEpoch]]
  BY RunningStep, RunsAssumption, ScheduleAssumption
     DEF RestoreInv, TypeInv, TypeOK, Bounds, StepsUpTo
<1>1. CASE StartFromScratch \/ \E s \in Steps : Resume(s)
  <2>1. CASE StartFromScratch
    <3>1. phase' = "train" /\ gstep' = 1 /\ epoch' = 0 /\ pos' = 0 /\ data' = data
      BY <2>1, Starts DEF EnterLoop, disk
    <3>2. Yielded(0, 0) = 0
      BY YieldedNext
    <3> QED
      BY <3>1, <3>2 DEF OrderInv
  <2>2. ASSUME NEW s \in Steps, Resume(s) PROVE OrderInv'
    <3>1. /\ phase' = "train" /\ gstep' = s + 1 /\ epoch' = 0 /\ pos' = data[s].pos
          /\ start' = s /\ data' = data /\ s = tracker
      BY <2>2, Starts DEF EnterLoop, disk
    <3>2. data[s].run >= 1 /\ s \in Nat \ {0}
      BY <2>2, <3>1, LoadsTracked DEF Resume, Steps
    <3>3. gstep' - 1 = s /\ data[s].pos \in 0..BatchesPerEpoch /\ data[s].pos \in Nat
      BY <1>0, <3>1, <3>2, ScheduleAssumption
    <3>4. data[s].pos # 0 /\ Consumed(data[s].pos, s)
      BY <3>2 DEF OrderInv, AlignInv
    <3>5. s <= BatchesPerEpoch => data[s].pos = s
      BY <3>2, <3>3, <3>4, FirstPass
    <3>6. Yielded(0, data[s].pos) = data[s].pos
      BY <3>3, YieldedNext
    <3> QED
      BY <3>1, <3>3, <3>5, <3>6 DEF OrderInv
  <2> QED
    BY <1>1, <2>1, <2>2
<1>2. CASE LoadFails \/ Crash
  BY <1>2 DEF LoadFails, Crash, Stop, disk, OrderInv
<1>3. CASE TrainStep
  <2>1. /\ phase = "train" /\ data' = data /\ start' = start
        /\ SameOrderNow => gstep - 1 = Yielded(epoch, pos)
    BY <1>3 DEF TrainStep, OrderInv
  <2>2. Yielded(epoch, pos + 1) = Yielded(epoch, pos) + 1 /\ pos + 1 # 0
    BY <1>0, YieldedNext
  <2>3. SameOrderNow => gstep = Yielded(epoch, pos + 1)
    BY <1>0, <2>1, <2>2
  <2>4. CASE SaveNow
    BY <1>3, <2>1, <2>2, <2>3, <2>4 DEF TrainStep, OrderInv
  <2>5. CASE ~SaveNow /\ IsLastStep
    BY <1>3, <2>1, <2>5 DEF TrainStep, FinishStep, Stop, OrderInv
  <2>6. CASE ~SaveNow /\ ~IsLastStep
    <3>1. phase' = "train" /\ pos' = pos + 1 /\ epoch' = epoch /\ gstep' - 1 = gstep
      BY <1>0, <1>3, <2>6 DEF TrainStep, FinishStep
    <3> QED
      BY <2>1, <2>3, <3>1 DEF OrderInv
  <2> QED
    BY <2>4, <2>5, <2>6
<1>4. CASE EpochEnd
  <2>1. CASE epoch + 1 < TotalEpochs
    <3>1. /\ phase = "train" /\ phase' = phase /\ gstep' = gstep /\ data' = data /\ start' = start
          /\ pos = BatchesPerEpoch /\ pos' = 0 /\ epoch' = epoch + 1
      BY <1>4, <2>1 DEF EpochEnd, disk
    <3>2. Yielded(epoch + 1, 0) = Yielded(epoch, BatchesPerEpoch)
      BY <1>0, YieldedNext
    <3> QED
      BY <3>1, <3>2 DEF OrderInv
  <2>2. CASE ~(epoch + 1 < TotalEpochs)
    BY <1>4, <2>2 DEF EpochEnd, Stop, disk, OrderInv
  <2> QED
    BY <2>1, <2>2
<1>5. ASSUME \E s \in Steps, k \in Ranks : RemoveShard(s, k) PROVE OrderInv'
  BY <1>5 DEF RemoveShard, memory, OrderInv
<1>6. ASSUME NEW k \in Ranks, MakeDir(k) \/ BeginShard(k) \/ EndShard(k) PROVE OrderInv'
  BY <1>6 DEF MakeDir, BeginShard, EndShard, OrderInv
<1>7. CASE RoleSaved
  <2>1. /\ phase \in Running \ {"train"} /\ phase' \in {"critic", "data"}
        /\ UNCHANGED <<epoch, pos, gstep, data, start>>
    BY <1>7 DEF RoleSaved, Roles, disk
  <2> QED
    BY <2>1 DEF OrderInv
<1>8. CASE BeginData
  <2>1. /\ phase = "data" /\ phase' = "data_torn" /\ UNCHANGED <<epoch, pos, gstep, start>>
        /\ data' = [data EXCEPT ![gstep].run = Torn]
    BY <1>8 DEF BeginData, memory
  <2>2. \A s \in Steps : data'[s].run >= 1 => data'[s] = data[s]
    BY <1>0, <2>1 DEF Torn
  <2> QED
    BY <2>1, <2>2 DEF OrderInv
<1>9. CASE EndData
  <2>1. /\ phase = "data_torn" /\ phase' = "tracker" /\ UNCHANGED <<epoch, pos, gstep, start>>
        /\ data' = [data EXCEPT ![gstep] = [run |-> run, pos |-> pos]]
    BY <1>9 DEF EndData, memory
  <2>2. \A s \in Steps : data'[s] = IF s = gstep THEN [run |-> run, pos |-> pos] ELSE data[s]
    BY <1>0, <2>1
  <2> QED
    BY <2>1, <2>2 DEF OrderInv
<1>10. CASE TruncateTracker
  BY <1>10 DEF TruncateTracker, memory, OrderInv
<1>11. CASE WriteTracker
  <2>1. /\ phase = "tracker_torn" /\ data' = data /\ start' = start
        /\ SameOrderNow => gstep = Yielded(epoch, pos)
    BY <1>11 DEF WriteTracker, OrderInv
  <2>2. CASE IsLastStep
    BY <1>11, <2>1, <2>2 DEF WriteTracker, FinishStep, Stop, OrderInv
  <2>3. CASE ~IsLastStep
    <3>1. phase' = "train" /\ pos' = pos /\ epoch' = epoch /\ gstep' - 1 = gstep
      BY <1>0, <1>11, <2>3 DEF WriteTracker, FinishStep
    <3> QED
      BY <2>1, <3>1 DEF OrderInv
  <2> QED
    BY <2>2, <2>3
<1>12. CASE UNCHANGED vars
  BY <1>12 DEF vars, memory, disk, OrderInv
<1> QED
  BY <1>1, <1>2, <1>3, <1>4, <1>5, <1>6, <1>7, <1>8, <1>9, <1>10, <1>11, <1>12 DEF Next, RunStep

LEMMA AlignedFromInv ==
    ASSUME TypeInv, AlignInv, OrderInv
    PROVE  DataAligned
<1> SUFFICES ASSUME phase = "train", pos < BatchesPerEpoch
             PROVE  /\ pos = (gstep - 1) % BatchesPerEpoch
                    /\ SameOrder => Batch = OwnBatch(gstep)
  BY DEF DataAligned
<1>1. /\ pos \in 0..(BatchesPerEpoch - 1) /\ pos \in Nat
      /\ epoch \in Nat /\ start \in Nat /\ BatchesPerEpoch \in Nat \ {0}
  BY ScheduleAssumption DEF TypeInv, TypeOK
<1>2. pos % BatchesPerEpoch = pos
  BY <1>1, PlaceOf, YieldedNext
<1>3. pos = (gstep - 1) % BatchesPerEpoch
  BY <1>2 DEF AlignInv, Consumed
<1>4. ASSUME SameOrder PROVE Batch = OwnBatch(gstep)
  <2>1. CASE Shuffle
    <3>1. SameOrderNow
      BY <1>4, <2>1 DEF SameOrder, SameOrderNow
    <3>2. gstep - 1 = Yielded(epoch, pos)
      BY <3>1 DEF OrderInv
    <3>3. (gstep - 1) \div BatchesPerEpoch = epoch
      BY <1>1, <3>2, PlaceOf
    <3> QED
      BY <1>3, <2>1, <3>3 DEF Batch, OwnBatch
  <2>2. CASE ~Shuffle
    BY <1>3, <2>2 DEF Batch, OwnBatch
  <2> QED
    BY <2>1, <2>2
<1> QED
  BY <1>3, <1>4

\* Whatever crashes happen, and however the length of an epoch and the saving
\* interval are related, step g gets the place in the pass it would get in a
\* job that is never interrupted; and it gets the same batch unless the data is
\* shuffled and the run was resumed from beyond the first pass.
THEOREM AlwaysDataAligned ==
    ASSUME RotationSafe PROVE Spec => []DataAligned
<1>1. Init => AlignInv /\ OrderInv
  BY DEF Init, AlignInv, OrderInv, Running, Missing
<1>2. RestoreInv /\ [Next]_vars => RestoreInv'
  BY RestoreStep
<1>3. RestoreInv /\ AlignInv /\ [Next]_vars => AlignInv'
  BY AlignStep
<1>4. RestoreInv /\ AlignInv /\ OrderInv /\ [Next]_vars => OrderInv'
  BY OrderStep
<1>5. RestoreInv /\ AlignInv /\ OrderInv => DataAligned
  BY AlignedFromInv DEF RestoreInv
<1> QED
  BY <1>1, <1>2, <1>3, <1>4, <1>5, RestoreInit, PTL DEF Spec

(***************************************************************************)
(* The work a crash costs.                                                 *)
(***************************************************************************)

\* No step between the tracked one and the current one was due to be saved.
NotDueSince(t) == \A s \in (t + 1)..(gstep - 1) : s % SaveFreq # 0

LossInv ==
    /\ phase \in Running /\ tracker # EmptyTracker => NotDueSince(tracker)
    /\ tracker # EmptyTracker => trained <= tracker + SaveFreq
    /\ phase = "tracker_torn" => trained <= gstep + SaveFreq

\* So the current step is at most one interval after the tracked one.
LEMMA StepNearTracker ==
    ASSUME TypeInv, SaveFreq > 0, NEW t \in Nat, NotDueSince(t)
    PROVE  gstep <= t + SaveFreq
<1>1. SaveFreq \in Nat \ {0} /\ gstep \in Nat
  BY ScheduleAssumption DEF TypeInv, TypeOK
<1>2. PICK m \in (t + 1)..(t + SaveFreq) : m % SaveFreq = 0
  BY <1>1, MultipleInWindow
<1>3. m \notin (t + 1)..(gstep - 1)
  BY <1>2 DEF NotDueSince
<1> QED
  BY <1>1, <1>2, <1>3

LEMMA LossStep ==
    ASSUME RestoreInv, RotationSafe, PublishInv, SaveFreq > 0, LossInv, [Next]_vars
    PROVE  LossInv'
<1> USE DEF Running, Stopped, EmptyTracker
<1>0. /\ gstep \in Nat /\ trained \in Nat /\ tracker \in Int /\ (tracker # -1 => tracker \in Nat)
      /\ SaveFreq \in Nat \ {0} /\ TypeInv
  BY ScheduleAssumption DEF RestoreInv, TypeInv, TypeOK
<1>1. ASSUME StartFromScratch \/ \E s \in Steps : Resume(s) PROVE LossInv'
  <2>1. /\ phase' = "train" /\ gstep' = tracker + 1 /\ tracker # -1
        /\ UNCHANGED <<tracker, trained>>
    BY <1>1, Starts DEF EnterLoop, disk, Steps
  <2>2. NotDueSince(tracker)'
    BY <1>0, <2>1 DEF NotDueSince
  <2> QED
    BY <2>1, <2>2 DEF LossInv
<1>2. CASE LoadFails \/ Crash
  BY <1>2 DEF LoadFails, Crash, Stop, disk, LossInv
<1>3. CASE TrainStep
  <2>1. /\ phase = "train" /\ tracker' = tracker /\ tracker # -1
        /\ trained' = IF gstep > trained THEN gstep ELSE trained
    BY <1>3 DEF TrainStep, PublishInv
  <2>2. trained' <= tracker + SaveFreq
    BY <1>0, <2>1, StepNearTracker DEF LossInv
  <2>3. CASE SaveNow
    <3>1. phase' = "actor" /\ gstep' = gstep
      BY <1>3, <2>3 DEF TrainStep
    <3> QED
      BY <2>1, <2>2, <3>1 DEF LossInv, NotDueSince
  <2>4. CASE ~SaveNow /\ IsLastStep
    BY <1>3, <2>1, <2>2, <2>4 DEF TrainStep, FinishStep, Stop, LossInv
  <2>5. CASE ~SaveNow /\ ~IsLastStep
    <3>1. phase' = "train" /\ gstep' = gstep + 1
      BY <1>3, <2>5 DEF TrainStep, FinishStep
    <3>2. gstep % SaveFreq # 0
      BY <1>0, <2>5 DEF SaveNow, DueToSave
    <3>3. NotDueSince(tracker)'
      BY <1>0, <2>1, <3>1, <3>2 DEF LossInv, NotDueSince
    <3> QED
      BY <2>1, <2>2, <3>1, <3>3 DEF LossInv
  <2> QED
    BY <2>3, <2>4, <2>5
<1>4. CASE EpochEnd
  BY <1>4 DEF EpochEnd, Stop, disk, LossInv, NotDueSince
<1>5. ASSUME \E s \in Steps, k \in Ranks : RemoveShard(s, k) PROVE LossInv'
  BY <1>5 DEF RemoveShard, memory, LossInv, NotDueSince
<1>6. ASSUME NEW k \in Ranks, MakeDir(k) \/ BeginShard(k) \/ EndShard(k) PROVE LossInv'
  BY <1>6 DEF MakeDir, BeginShard, EndShard, LossInv, NotDueSince
<1>7. CASE RoleSaved
  <2>1. /\ phase \in Running /\ phase' \in {"critic", "data"}
        /\ UNCHANGED <<gstep, tracker, trained>>
    BY <1>7, SavingRuns DEF RoleSaved, disk
  <2> QED
    BY <2>1 DEF LossInv, NotDueSince
<1>8. CASE BeginData \/ EndData
  BY <1>8 DEF BeginData, EndData, memory, LossInv, NotDueSince
<1>9. CASE TruncateTracker
  <2>1. /\ phase = "tracker" /\ phase' = "tracker_torn" /\ tracker' = -1 /\ tracker # -1
        /\ UNCHANGED <<gstep, trained>>
    BY <1>9 DEF TruncateTracker, memory, PublishInv
  <2>2. tracker < gstep /\ trained <= tracker + SaveFreq
    BY <2>1 DEF RestoreInv, TrackerBehind, LossInv
  <2>3. trained <= gstep + SaveFreq
    BY <1>0, <2>2
  <2> QED
    BY <2>1, <2>3 DEF LossInv
<1>10. CASE WriteTracker
  <2>1. /\ tracker' = gstep /\ trained' = trained /\ trained <= gstep + SaveFreq
        /\ phase' \in {"train", "finished"} /\ (phase' = "train" => gstep' = gstep + 1)
    BY <1>10 DEF WriteTracker, FinishStep, Stop, LossInv
  <2>2. phase' = "train" => NotDueSince(tracker)'
    BY <1>0, <2>1 DEF NotDueSince
  <2> QED
    BY <2>1, <2>2 DEF LossInv
<1>11. CASE UNCHANGED vars
  BY <1>11 DEF vars, memory, disk, LossInv, NotDueSince
<1> QED
  BY <1>1, <1>2, <1>3, <1>4, <1>5, <1>6, <1>7, <1>8, <1>9, <1>10, <1>11 DEF Next, RunStep

\* A run that has resumed repeats at most SaveFreq of the steps that were ever
\* trained, for every number of crashes, at whatever points.
THEOREM AlwaysWorkLossBounded ==
    ASSUME RotationSafe PROVE Spec => []WorkLossBounded
<1>1. CASE SaveFreq > 0
  <2>1. Init => LossInv
    BY <1>1, ScheduleAssumption DEF Init, LossInv, Running, NoTracker
  <2>2. RestoreInv /\ [Next]_vars => RestoreInv'
    BY RestoreStep
  <2>3. RestoreInv /\ PublishInv /\ [Next]_vars => PublishInv'
    BY PublishStep
  <2>4. RestoreInv /\ PublishInv /\ LossInv /\ [Next]_vars => LossInv'
    BY <1>1, LossStep
  <2>5. RestoreInv /\ PublishInv /\ LossInv => WorkLossBounded
    <3> SUFFICES ASSUME RestoreInv, PublishInv, LossInv, phase = "train"
                 PROVE  trained - (gstep - 1) <= SaveFreq
      BY DEF WorkLossBounded
    <3>1. tracker < gstep /\ trained <= tracker + SaveFreq
      BY DEF RestoreInv, TrackerBehind, PublishInv, LossInv, Running
    <3>2. gstep \in Int /\ trained \in Int /\ tracker \in Int /\ SaveFreq \in Int
      BY ScheduleAssumption DEF RestoreInv, TypeInv, TypeOK
    <3> QED
      BY <3>1, <3>2
  <2> QED
    BY <2>1, <2>2, <2>3, <2>4, <2>5, RestoreInit, PublishInit, PTL DEF Spec
<1>2. CASE ~(SaveFreq > 0)
  <2>1. WorkLossBounded
    BY <1>2 DEF WorkLossBounded
  <2> QED
    BY <2>1, PTL
<1> QED
  BY <1>1, <1>2

=============================================================================
