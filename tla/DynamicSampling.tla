--------------------------- MODULE DynamicSampling ---------------------------
(***************************************************************************)
(* fit of RayDAPOTrainer.  With filter_groups a prompt whose n responses   *)
(* all got the same metric is dropped, and generation batches are drawn    *)
(* until train_batch_size prompts are kept; what has been collected goes   *)
(* from one generation batch, and one epoch, to the next.  The job may     *)
(* crash at any time and resumes from its last checkpoint; how a           *)
(* checkpoint gets to disk is the subject of Checkpoint.                   *)
(*                                                                         *)
(* A prompt is <<pass, item>>: an item of the data set, and how often the  *)
(* data had been gone through when it was drawn.  A process gives out the  *)
(* items of its e-th pass in the order Order(e, _) when data.shuffle is    *)
(* set: the generator of RandomSampler is seeded alike in every process,   *)
(* and a resumed process starts with its first permutation again.          *)
(*                                                                         *)
(* A trajectory is one response, [uid, metric].  Only equality of metrics  *)
(* is tested, so a group is given two of them: its first response has      *)
(* metric 1 if the group is mixed, every other response has 0.             *)
(***************************************************************************)
EXTENDS Integers, Sequences, FiniteSets

CONSTANTS
    GenBatch,         \* data.gen_batch_size, in prompts
    TrainBatch,       \* data.train_batch_size, in prompts
    BatchesPerEpoch,  \* len(train_dataloader)
    TotalEpochs,      \* trainer.total_epochs
    TotalSteps,       \* total_training_steps
    SaveFreq,         \* trainer.save_freq; not positive means never
    Order(_, _),      \* the item at a place of a shuffled pass of a process
    Settings,         \* [filter, n, maxGen, shuffle]: filter_groups.enable, rollout.n,
                      \* filter_groups.max_num_gen_batches, data.shuffle
    MaxRuns           \* bound: submissions of the job

ASSUME SizesAssumption == GenBatch \in Nat \ {0} /\ TrainBatch \in Nat \ {0}
ASSUME LengthAssumption ==
    /\ BatchesPerEpoch \in Nat \ {0} /\ TotalEpochs \in Nat \ {0}
    /\ TotalSteps \in Nat \ {0} /\ MaxRuns \in Nat \ {0}
ASSUME SaveAssumption == SaveFreq \in Int
ASSUME SettingsAssumption ==
    Settings \subseteq [filter : BOOLEAN, n : Nat \ {0}, maxGen : Int, shuffle : BOOLEAN]

\* The items of the data, which are as many as the places of a pass.
Items == 1..(BatchesPerEpoch * GenBatch)

\* Every pass goes through the whole of the data, once.
ASSUME OrderAssumption ==
    \A e \in 0..(TotalEpochs - 1) :
        /\ \A i \in Items : Order(e, i) \in Items
        /\ \A i, j \in Items : Order(e, i) = Order(e, j) => i = j
        /\ \A m \in Items : \E i \in Items : Order(e, i) = m

VARIABLES
    setting,     \* the configuration of the job: no step changes it
    phase,       \* where the driver is
    gstep,       \* self.global_steps
    epoch,       \* epoch
    pos,         \* batches the dataloader has given out in this epoch
    batch,       \* batch; <<>> is None
    numPrompts,  \* num_prompt_in_batch
    tries,       \* num_gen_batches
    saved,       \* the newest checkpoint: its step and the dataloader's position,
                 \* and the observation variables at that moment
    (* observation *)
    run,         \* which submission of the job this is
    pass,        \* how often the data has been gone through
    used,        \* prompts an update was made with
    surplus,     \* kept prompts that were cut off
    dropped      \* prompts the filter has removed

seen == <<pass, used, surplus, dropped>>
vars == <<setting, phase, gstep, epoch, pos, batch, numPrompts, tries, saved, run, seen>>

Prompts == Nat \X Items
Trajectory == [uid : Prompts, metric : 0..1]

\* Between two submissions of the job.
Stopped == {"down", "finished", "failed"}

TypeOK ==
    /\ setting \in Settings
    /\ phase \in {"collect", "update"} \cup Stopped
    /\ gstep \in 0..(TotalSteps + MaxRuns)
    /\ epoch \in 0..(TotalEpochs - 1)
    /\ pos \in 0..BatchesPerEpoch
    /\ batch \in Seq(Trajectory)
    /\ numPrompts \in 0..(TrainBatch + GenBatch)
    /\ tries \in Nat
    /\ setting.maxGen > 0 => tries <= setting.maxGen
    /\ saved.step \in 0..(TotalSteps + MaxRuns)
    /\ saved.pos \in 0..BatchesPerEpoch
    /\ run \in 0..MaxRuns /\ pass \in Nat
    /\ used \cup surplus \cup dropped \subseteq Prompts

\* Step 0 stands for "no checkpoint": the run trains from scratch.
Init ==
    /\ setting \in Settings
    /\ phase = "down"
    /\ gstep = 0 /\ epoch = 0 /\ pos = 0
    /\ batch = <<>> /\ numPrompts = 0 /\ tries = 0
    /\ saved = [step |-> 0, pos |-> 0, pass |-> 0, used |-> {}, surplus |-> {},
                dropped |-> {}]
    /\ run = 0 /\ pass = 0 /\ used = {} /\ surplus = {} /\ dropped = {}

(***************************************************************************)
(* Starting, and stopping.                                                 *)
(***************************************************************************)

\* _load_checkpoint: the model, the step and the dataloader's position are
\* those of the checkpoint; the loop over the epochs starts again, and with it
\* the permutations.
RestoredPos_Start == 0    \* seeded fault: the dataloader's state is not loaded
RestoredPos == saved.pos

Start ==
    /\ phase \in Stopped /\ run < MaxRuns
    /\ phase' = "collect"
    /\ gstep' = saved.step + 1
    /\ epoch' = 0
    /\ pos' = RestoredPos
    /\ batch' = <<>> /\ numPrompts' = 0 /\ tries' = 0
    /\ run' = run + 1
    /\ pass' = saved.pass /\ used' = saved.used
    /\ surplus' = saved.surplus /\ dropped' = saved.dropped
    /\ UNCHANGED <<setting, saved>>

\* The process is gone; what it held in memory no longer counts.
Stop(how) ==
    /\ phase' = how
    /\ gstep' = 0 /\ epoch' = 0 /\ pos' = 0
    /\ batch' = <<>> /\ numPrompts' = 0 /\ tries' = 0

Crash ==
    /\ phase \notin Stopped
    /\ Stop("down")
    /\ UNCHANGED <<setting, saved, run, seen>>

(***************************************************************************)
(* One generation batch.                                                   *)
(***************************************************************************)

Item(e, i) == IF setting.shuffle THEN Order(e, i) ELSE i

\* The k-th prompt of the batch.
Uid(k) == <<pass, Item(epoch, pos * GenBatch + k)>>

\* repeat(n, interleave=True): which prompt of the batch the i-th row is of.
RowPrompt_Tiled(i) == ((i - 1) % GenBatch) + 1    \* seeded fault: interleave=False
RowPrompt(i) == ((i - 1) \div setting.n) + 1

\* The rows of the batch when the prompts in mixed get different metrics.
Generated(mixed) ==
    [i \in 1..(GenBatch * setting.n) |->
        [uid |-> Uid(RowPrompt(i)),
         metric |-> IF /\ RowPrompt(i) \in mixed
                       /\ \A j \in 1..(i - 1) : RowPrompt(j) # RowPrompt(i)
                    THEN 1 ELSE 0]]

Uids(rows) == {rows[i].uid : i \in DOMAIN rows}
Metrics(rows, u) == {rows[i].metric : i \in {j \in DOMAIN rows : rows[j].uid = u}}
RowsOf(rows, u) == {i \in DOMAIN rows : rows[i].uid = u}

\* kept_prompt_uids: the metrics differ, or there is only one response.
KeptUids(rows) ==
    {u \in Uids(rows) : \/ Cardinality(Metrics(rows, u)) > 1
                        \/ Cardinality(RowsOf(rows, u)) = 1}

\* kept_traj_idxs: the rows of a kept prompt, in their order.
Kept(rows) ==
    LET uids == KeptUids(rows)
        upTo[i \in 0..Len(rows)] ==
            IF i = 0 THEN <<>>
            ELSE IF rows[i].uid \in uids THEN Append(upTo[i - 1], rows[i]) ELSE upTo[i - 1]
    IN upTo[Len(rows)]

\* Enough prompts: the rows of train_batch_size prompts, and no more.
TrajBatch == TrainBatch * setting.n
Aligned(rows) == SubSeq(rows, 1, IF Len(rows) < TrajBatch THEN Len(rows) ELSE TrajBatch)

MayTryAgain_Once(k) == setting.maxGen <= 0 \/ k <= setting.maxGen    \* seeded fault: <= for <
MayTryAgain(k) == setting.maxGen <= 0 \/ k < setting.maxGen

BatchLeft_DropLast ==    \* seeded fault: the last batch is not given out
    phase = "collect" /\ pos + 1 < BatchesPerEpoch
BatchLeft == phase = "collect" /\ pos < BatchesPerEpoch

\* filter_groups is off: every generation batch is trained on.
TakeAll(rows) ==
    /\ BatchLeft /\ ~setting.filter
    /\ phase' = "update"
    /\ pos' = pos + 1 /\ tries' = tries + 1
    /\ batch' = rows
    /\ UNCHANGED <<setting, gstep, epoch, numPrompts, saved, run, seen>>

\* The kept rows are added to what the earlier generation batches left; the
\* driver goes on, draws another batch, or gives up.
Collect(rows) ==
    LET all == batch \o Kept(rows)
        num == numPrompts + Cardinality(KeptUids(rows))
    IN
    /\ BatchLeft /\ setting.filter
    /\ dropped' = dropped \cup (Uids(rows) \ KeptUids(rows))
    /\ \/ /\ num >= TrainBatch
          /\ phase' = "update"
          /\ batch' = Aligned(all)
          /\ surplus' = surplus \cup (Uids(all) \ Uids(Aligned(all)))
          /\ pos' = pos + 1 /\ numPrompts' = num /\ tries' = tries + 1
          /\ UNCHANGED <<gstep, epoch>>
       \/ /\ num < TrainBatch /\ MayTryAgain(tries + 1)
          /\ batch' = all
          /\ pos' = pos + 1 /\ numPrompts' = num /\ tries' = tries + 1
          /\ UNCHANGED <<phase, gstep, epoch, surplus>>
       \/ /\ num < TrainBatch /\ ~MayTryAgain(tries + 1)
          /\ Stop("failed")    \* ValueError: generated too many
          /\ UNCHANGED surplus
    /\ UNCHANGED <<setting, saved, run, pass, used>>

(***************************************************************************)
(* The update, and the ends of a step, an epoch and the job.               *)
(***************************************************************************)

IsLastStep == gstep >= TotalSteps
SaveNow == SaveFreq > 0 /\ (IsLastStep \/ gstep % SaveFreq = 0)

\* batch = None, num_prompt_in_batch = 0
Reset == batch' = <<>> /\ numPrompts' = 0 /\ tries' = 0

\* Advantages, critic and actor are computed with the batch, a checkpoint is
\* written when it is due, and the step ends.
Update ==
    /\ phase = "update"
    /\ used' = used \cup Uids(batch)
    /\ saved' = IF SaveNow
                THEN [step |-> gstep, pos |-> pos, pass |-> pass, used |-> used',
                      surplus |-> surplus, dropped |-> dropped]
                ELSE saved
    /\ IF IsLastStep
       THEN Stop("finished")
       ELSE /\ phase' = "collect"
            /\ gstep' = gstep + 1
            /\ Reset
            /\ UNCHANGED <<epoch, pos>>
    /\ UNCHANGED <<setting, run, pass, surplus, dropped>>

\* The dataloader is exhausted.  After the last epoch fit returns, with what
\* it has collected and without a last step.
EpochEnd ==
    /\ phase = "collect" /\ pos = BatchesPerEpoch
    /\ pass' = pass + 1
    /\ IF epoch + 1 < TotalEpochs
       THEN /\ epoch' = epoch + 1
            /\ pos' = 0
            /\ UNCHANGED <<phase, gstep, batch, numPrompts, tries>>
       ELSE Stop("finished")
    /\ UNCHANGED <<setting, saved, run, used, surplus, dropped>>

Generate == \E mixed \in SUBSET (1..GenBatch) :
    TakeAll(Generated(mixed)) \/ Collect(Generated(mixed))

RunStep == Generate \/ Update \/ EpochEnd

Next == Start \/ RunStep \/ Crash

Spec == Init /\ [][Next]_vars

\* The driver goes on as long as it is up; nobody has to submit the job again.
FairSpec == Spec /\ WF_vars(RunStep)

(***************************************************************************)
(* Properties.                                                             *)
(***************************************************************************)

\* The update sees whole groups only (compute_advantage normalises over the
\* rows of a uid): train_batch_size prompts, each with its n responses, none
\* of which would have an advantage of zero throughout; and this whatever the
\* generation batches before it contributed.
UpdateReady ==
    phase = "update" =>
        /\ Cardinality(Uids(batch)) = IF setting.filter THEN TrainBatch ELSE GenBatch
        /\ \A u \in Uids(batch) :
              /\ Cardinality(RowsOf(batch, u)) = setting.n
              /\ setting.filter /\ setting.n > 1 => Cardinality(Metrics(batch, u)) > 1

\* The process goes through the data in the order of a job that is never
\* interrupted: its passes are those of the job.
SameOrder == setting.shuffle => pass = epoch

Drawn == {u \in (0..pass) \X Items :
             u[1] < pass \/ \E i \in 1..(pos * GenBatch) : u[2] = Item(epoch, i)}

\* Every prompt that has been drawn is in exactly one place: trained on,
\* filtered, cut off or still in the batch.  Neither a crash nor the end of an
\* epoch nor a step lets one be trained on twice in a pass, or lost, where the
\* data is not shuffled or the job has so far been resumed within, or at the
\* end of, its first pass only.  A shuffled pass resumed later goes on in
\* another order, and does repeat prompts and lose others.
PromptsAccounted ==
    SameOrder =>
        /\ phase \notin Stopped => used \cup surplus \cup dropped \cup Uids(batch) = Drawn
        /\ used \cap (surplus \cup dropped \cup Uids(batch)) = {}
        /\ surplus \cap (dropped \cup Uids(batch)) = {}
        /\ dropped \cap Uids(batch) = {}

\* A run ends: with its last step, with the data, with too many tries or with
\* a crash.  Drawing again never goes on for ever, limit or not.
FitEnds == phase \in {"collect", "update"} ~> phase \in Stopped
=============================================================================
