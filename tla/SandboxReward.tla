---------------------------- MODULE SandboxReward ----------------------------
(***************************************************************************)
(* The reward of generated code, as the prime reward manager computes it   *)
(* with a remote sandbox.  Each response of a batch is scored by a process *)
(* of a pool, within a time limit; the process runs the test cases of the  *)
(* response in threads, which share a semaphore with all other processes,  *)
(* call the sandbox and try again after a gateway timeout; it reads the    *)
(* verdicts in the order they come.  When all responses of the batch are   *)
(* scored or timed out, the processes of the pool are killed.              *)
(*                                                                         *)
(* The semaphore belongs to a manager that lives as long as the trainer.   *)
(***************************************************************************)
EXTENDS Integers, FiniteSets

CONSTANTS
    Responses,       \* the responses of a batch
    NumCases,        \* the number of test cases of each response
    ScoredCases,     \* how many of them count (10, if there are as many)
    NumProcesses,    \* num_processes of the pool
    MaxConcurrent,   \* sandbox_fusion.max_concurrent
    MaxBatches,      \* bound: batches scored
    MaxTimeouts      \* bound: responses that run out of time

ASSUME ResponsesAssumption == IsFiniteSet(Responses)
ASSUME SizesAssumption ==
    /\ NumCases \in [Responses -> Nat \ {0}] /\ ScoredCases \in Nat \ {0}
    /\ NumProcesses \in Nat \ {0}
    /\ MaxConcurrent \in Nat \ {0}
    /\ MaxBatches \in Nat /\ MaxTimeouts \in Nat

MaxRetries == 3    \* MAX_RETRIES
Cases(r) == 1..NumCases[r]

VARIABLES
    phase,     \* of PrimeRewardManager.verify
    batch,     \* how many batches have been begun
    row,       \* where the scoring of each response is
    case,      \* where each test case of it is
    attempts,  \* the requests made for the case
    outcome,   \* what _process_single_case returned, and results once it is read
    compile,   \* first_compile_error_index; 0 stands for -1
    score,     \* the passed cases of a scored response; -1 is no score yet
    slots,     \* the value of the semaphore
    timeouts   \* responses that have run out of time

caseVars == <<case, attempts, outcome, compile>>
vars == <<phase, batch, row, caseVars, score, slots, timeouts>>

\* True, -4 and the others: False, -1, -2 and -3 are worth the same.
Outcomes == {"pass", "compile_error", "error"}

TypeOK ==
    /\ phase \in {"idle", "scoring"}
    /\ batch \in 0..MaxBatches
    /\ row \in [Responses -> {"queued", "running", "scored", "timed_out"}]
    /\ \A r \in Responses :
          /\ case[r] \in [Cases(r) -> {"none", "waiting", "calling", "backoff", "answered",
                                       "read"}]
          /\ attempts[r] \in [Cases(r) -> 0..MaxRetries]
          /\ outcome[r] \in [Cases(r) -> Outcomes \cup {"none"}]
          /\ compile[r] \in 0..NumCases[r]
          /\ score[r] \in -1..NumCases[r]
    /\ slots \in 0..MaxConcurrent
    /\ timeouts \in 0..MaxTimeouts

Everywhere(value) == [r \in Responses |-> [c \in Cases(r) |-> value]]

Init ==
    /\ phase = "idle" /\ batch = 0
    /\ row = [r \in Responses |-> "scored"]
    /\ case = Everywhere("none") /\ attempts = Everywhere(0)
    /\ outcome = Everywhere("none")
    /\ compile = [r \in Responses |-> 0]
    /\ score = [r \in Responses |-> -1]
    /\ slots = MaxConcurrent
    /\ timeouts = 0

(***************************************************************************)
(* The reward manager and its pool of processes.                           *)
(***************************************************************************)

StartBatch ==
    /\ phase = "idle" /\ batch < MaxBatches
    /\ phase' = "scoring" /\ batch' = batch + 1
    /\ row' = [r \in Responses |-> "queued"]
    /\ case' = Everywhere("none") /\ attempts' = Everywhere(0)
    /\ outcome' = Everywhere("none")
    /\ compile' = [r \in Responses |-> 0]
    /\ score' = [r \in Responses |-> -1]
    /\ UNCHANGED <<slots, timeouts>>

\* A process is busy until its check_correctness returns, also for a response
\* whose time is over.
Busy(r) == \E c \in Cases(r) : case[r][c] # "none"

\* A process takes the next response and submits all of its cases to threads.
StartRow(r) ==
    /\ row[r] = "queued"
    /\ Cardinality({q \in Responses : Busy(q)}) < NumProcesses
    /\ row' = [row EXCEPT ![r] = "running"]
    /\ case' = [case EXCEPT ![r] = [c \in Cases(r) |-> "waiting"]]
    /\ UNCHANGED <<phase, batch, attempts, outcome, compile, score, slots, timeouts>>

\* compute_score returns early: the response holds no code.
NoCode(r) ==
    /\ row[r] = "queued"
    /\ row' = [row EXCEPT ![r] = "scored"]
    /\ score' = [score EXCEPT ![r] = 0]
    /\ UNCHANGED <<phase, batch, caseVars, slots, timeouts>>

\* asyncio.wait_for runs out, counted from when the batch was submitted: the
\* response is worth 0. A queued one is cancelled, a running one goes on.
TimeOut(r) ==
    /\ row[r] \in {"queued", "running"} /\ timeouts < MaxTimeouts
    /\ row' = [row EXCEPT ![r] = "timed_out"]
    /\ score' = [score EXCEPT ![r] = 0]
    /\ timeouts' = timeouts + 1
    /\ UNCHANGED <<phase, batch, caseVars, slots>>

\* gather returns, and the processes are terminated, whatever they are doing.
Finish ==
    /\ phase = "scoring"
    /\ \A r \in Responses : row[r] \in {"scored", "timed_out"}
    /\ phase' = "idle"
    /\ case' = Everywhere("none")
    /\ UNCHANGED <<batch, row, attempts, outcome, compile, score, slots, timeouts>>

(***************************************************************************)
(* The threads of a process: _process_single_case, call_sandbox_api.       *)
(***************************************************************************)

\* with concurrent_semaphore
MayCall_Always == TRUE    \* seeded fault: the semaphore is not passed on
MayCall == slots > 0

Acquire(r, c) ==
    /\ case[r][c] = "waiting" /\ MayCall
    /\ slots' = slots - 1
    /\ case' = [case EXCEPT ![r][c] = "calling"]
    /\ attempts' = [attempts EXCEPT ![r][c] = 1]
    /\ UNCHANGED <<phase, batch, row, outcome, compile, score, timeouts>>

\* The call returns and leaves the with statement.
Released_NotOnError(result) ==    \* seeded fault: release is not in a finally
    IF result = "error" THEN slots ELSE slots + 1
Released(result) == slots + 1

Return(r, c, result) ==
    /\ case' = [case EXCEPT ![r][c] = "answered"]
    /\ outcome' = [outcome EXCEPT ![r][c] = result]
    /\ attempts' = [attempts EXCEPT ![r][c] = 0]
    /\ slots' = Released(result)

\* The sandbox answers, or the request fails with another error, which is not
\* tried again.
Answer(r, c, result) ==
    /\ case[r][c] = "calling"
    /\ Return(r, c, result)
    /\ UNCHANGED <<phase, batch, row, compile, score, timeouts>>

\* Status 504: the thread sleeps and tries again, holding its slot, at most
\* MAX_RETRIES times in all.
GatewayTimeout(r, c) ==
    /\ case[r][c] = "calling"
    /\ IF attempts[r][c] < MaxRetries
       THEN case' = [case EXCEPT ![r][c] = "backoff"] /\ UNCHANGED <<attempts, outcome, slots>>
       ELSE Return(r, c, "error")
    /\ UNCHANGED <<phase, batch, row, compile, score, timeouts>>

Retry(r, c) ==
    /\ case[r][c] = "backoff"
    /\ case' = [case EXCEPT ![r][c] = "calling"]
    /\ attempts' = [attempts EXCEPT ![r][c] = @ + 1]
    /\ UNCHANGED <<phase, batch, row, outcome, compile, score, slots, timeouts>>

(***************************************************************************)
(* The process: check_correctness and compute_score.                       *)
(***************************************************************************)

\* as_completed: the next case that has returned, in any order; the smallest
\* index of a compile error is kept.
FirstCompile_Last(r, c) == c    \* seeded fault: the last to return
FirstCompile(r, c) == IF compile[r] = 0 \/ c < compile[r] THEN c ELSE compile[r]

Read(r, c) ==
    /\ case[r][c] = "answered"
    /\ case' = [case EXCEPT ![r][c] = "read"]
    /\ compile' = [compile EXCEPT ![r] =
                       IF outcome[r][c] = "compile_error" THEN FirstCompile(r, c) ELSE @]
    /\ UNCHANGED <<phase, batch, row, attempts, outcome, score, slots, timeouts>>

\* When all are read, the cases after the first compile error count as compile
\* errors, and the score is the share passed of the cases that count.
Marked(r) ==
    [c \in Cases(r) |-> IF compile[r] # 0 /\ c > compile[r] THEN "compile_error" ELSE outcome[r][c]]

Scored(r) == {c \in Cases(r) : c <= ScoredCases}

Score(r) ==
    /\ Busy(r) /\ \A c \in Cases(r) : case[r][c] = "read"
    /\ case' = [case EXCEPT ![r] = [c \in Cases(r) |-> "none"]]
    /\ IF row[r] = "running"
       THEN /\ row' = [row EXCEPT ![r] = "scored"]
            /\ score' = [score EXCEPT ![r] =
                             Cardinality({c \in Scored(r) : Marked(r)[c] = "pass"})]
       ELSE UNCHANGED <<row, score>>    \* nobody waits for it
    /\ UNCHANGED <<phase, batch, attempts, outcome, compile, slots, timeouts>>

CaseStep(r, c) ==
    \/ Acquire(r, c) \/ Read(r, c) \/ Retry(r, c) \/ GatewayTimeout(r, c)
    \/ \E result \in Outcomes : Answer(r, c, result)

Next ==
    \/ StartBatch \/ Finish
    \/ \E r \in Responses :
          \/ StartRow(r) \/ NoCode(r) \/ Score(r) \/ TimeOut(r)
          \/ \E c \in Cases(r) : CaseStep(r, c)

Spec == Init /\ [][Next]_vars

\* The pool serves its queue, the threads run, every request has a time limit
\* and so gets an answer, an error or a 504, and whoever waits for the
\* semaphore gets a slot if there is one again and again.  Responses need not
\* run out of time.
FairSpec ==
    /\ Spec
    /\ WF_vars(Finish)
    /\ \A r \in Responses :
          /\ WF_vars(StartRow(r)) /\ WF_vars(Score(r))
          /\ \A c \in Cases(r) : SF_vars(Acquire(r, c)) /\ WF_vars(CaseStep(r, c))

(***************************************************************************)
(* Properties.                                                             *)
(***************************************************************************)

Holding ==
    UNION {{<<r, c>> : c \in {d \in Cases(r) : case[r][d] \in {"calling", "backoff"}}} :
               r \in Responses}

\* max_concurrent limits the requests of all processes together, with those
\* that are about to be sent again, in whatever way requests end.
WithinLimit == Cardinality(Holding) <= MaxConcurrent

\* The score of a response depends on the verdicts of its cases and not on the
\* order in which their threads return: what counts as passed are the cases
\* before the first one that did not compile.
ScoreOfCases ==
    \A r \in Responses :
        row[r] = "scored" /\ score[r] >= 0 =>
            score[r] = Cardinality({c \in Scored(r) :
                          outcome[r][c] = "pass"
                          /\ \A d \in 1..c : outcome[r][d] # "compile_error"})

\* A batch is scored without the help of the time limit, although requests fail
\* or are sent again: each gives its slot back in the end.  Only if the slots
\* were all held by processes when those were killed does nothing give them
\* back: later batches can do no more than wait for their time limit.
BatchScored ==
    phase = "scoring" /\ slots + Cardinality(Holding) > 0 ~> phase = "idle"
=============================================================================
