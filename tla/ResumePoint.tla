---------------------------- MODULE ResumePoint ----------------------------
(***************************************************************************)
(* What checkpointing promises to somebody who submits a training job over *)
(* and over: there is one resume point on disk, a run always continues     *)
(* with the step after it, a step that is due to be saved is left only by  *)
(* making it the resume point, and the one window in which a crash costs   *)
(* the job its resume point is while the point is being replaced.          *)
(***************************************************************************)
EXTENDS Integers

CONSTANTS
    LastStep,   \* the step after which a run returns
    Due(_)      \* whether a step is one whose state is published

VARIABLES
    status,     \* "up", or how the last run ended
    step,       \* the step the run is at; 0 when there is no run
    point       \* the step to resume from; 0: none yet, -1: being replaced

rpVars == <<status, step, point>>

Unreadable == -1

RPInit == status = "down" /\ step = 0 /\ point = 0

Start ==
    /\ status # "up" /\ point # Unreadable
    /\ status' = "up" /\ step' = point + 1
    /\ UNCHANGED point

StartFails ==
    /\ status # "up" /\ point = Unreadable
    /\ status' = "failed" /\ step' = 0
    /\ UNCHANGED point

NextStep ==
    IF step >= LastStep
    THEN status' = "finished" /\ step' = 0
    ELSE status' = "up" /\ step' = step + 1

Advance ==
    /\ status = "up" /\ ~Due(step)
    /\ NextStep
    /\ UNCHANGED point

BeginPublish ==
    /\ status = "up" /\ Due(step) /\ point # Unreadable
    /\ point' = Unreadable
    /\ UNCHANGED <<status, step>>

Publish ==
    /\ status = "up" /\ point = Unreadable
    /\ point' = step
    /\ NextStep

\* fit runs out of epochs before it reaches the last step.
OutOfData ==
    /\ status = "up" /\ point # Unreadable
    /\ status' = "finished" /\ step' = 0
    /\ UNCHANGED point

CrashRun ==
    /\ status = "up"
    /\ status' = "down" /\ step' = 0
    /\ UNCHANGED point

RPNext ==
    \/ Start \/ StartFails \/ Advance \/ BeginPublish \/ Publish
    \/ OutOfData \/ CrashRun

RPSpec == RPInit /\ [][RPNext]_rpVars
=============================================================================
