------------------------------ MODULE RateLimit ------------------------------
(***************************************************************************)
(* The execution pools of SearchTool and SandboxFusionTool and the one     *)
(* TokenBucketWorker they share.  A pool is a Ray actor that runs at most  *)
(* num_workers calls at a time; every call takes a token from the actor    *)
(* named "rate-limiter" before it runs the tool's function and gives it    *)
(* back afterwards, without waiting for the answer.  That actor runs       *)
(* acquire on one thread and release on ten others.                        *)
(***************************************************************************)
EXTENDS Integers, FiniteSets

CONSTANTS
    Pools,           \* the tools that have an execution pool
    Calls,           \* bound: the calls that are ever made
    PoolOf,          \* which pool a call is made to
    NumWorkers,      \* num_workers of each pool
    Limit,           \* rate_limit of each pool
    ReleaseThreads   \* the concurrency of the actor's release group

ASSUME PoolAssumption ==
    /\ PoolOf \in [Calls -> Pools]
    /\ NumWorkers \in [Pools -> Nat \ {0}]
    /\ Limit \in [Pools -> Nat \ {0}]
    /\ ReleaseThreads \in Nat \ {0}

VARIABLES
    opened,    \* the pools whose actor has started
    limit,     \* rate_limit the token bucket was created with; 0: not created
    tokens,    \* value of the semaphore
    counted,   \* current_count
    call,      \* where each call of execute is
    acquire,   \* its acquire on the actor
    release    \* its release on the actor

bucketVars == <<opened, limit, tokens, counted, call, acquire, release>>

CallStates == {"new", "started", "running", "returned"}
TaskStates == {"none", "sent", "served", "taken", "over"}

BucketTypeOK ==
    /\ opened \subseteq Pools
    /\ limit \in Nat /\ tokens \in Nat /\ counted \in Int
    /\ call \in [Calls -> CallStates]
    /\ acquire \in [Calls -> TaskStates]
    /\ release \in [Calls -> TaskStates]

BucketInit ==
    /\ opened = {} /\ limit = 0 /\ tokens = 0 /\ counted = 0
    /\ call = [c \in Calls |-> "new"]
    /\ acquire = [c \in Calls |-> "none"]
    /\ release = [c \in Calls |-> "none"]

\* _init_rate_limit: options(name="rate-limiter", get_if_exists=True) makes the
\* actor with the limit of whoever asks first.
OpenPool(p) ==
    /\ p \notin opened
    /\ opened' = opened \cup {p}
    /\ IF limit = 0
       THEN limit' = Limit[p] /\ tokens' = Limit[p]
       ELSE UNCHANGED <<limit, tokens>>
    /\ UNCHANGED <<counted, call, acquire, release>>

(***************************************************************************)
(* execute, on a thread of the pool.                                       *)
(***************************************************************************)

BusyThreads(p) == {c \in Calls : PoolOf[c] = p /\ call[c] \in {"started", "running"}}

\* A call gets a thread of its pool, and asks for a token.
StartCall(c) ==
    /\ call[c] = "new" /\ PoolOf[c] \in opened
    /\ Cardinality(BusyThreads(PoolOf[c])) < NumWorkers[PoolOf[c]]
    /\ call' = [call EXCEPT ![c] = "started"]
    /\ acquire' = [acquire EXCEPT ![c] = "sent"]
    /\ UNCHANGED <<opened, limit, tokens, counted, release>>

\* ray.get(acquire) returns and the function runs.
MayRun_NotAwaited(c) == acquire[c] # "none"    \* seeded fault: acquire without ray.get
MayRun(c) == acquire[c] = "over"

RunFunction(c) ==
    /\ call[c] = "started" /\ MayRun(c)
    /\ call' = [call EXCEPT ![c] = "running"]
    /\ UNCHANGED <<opened, limit, tokens, counted, acquire, release>>

\* The function returns, or raises and is logged; the exit stack sends the
\* release either way.
ReleaseState(ok) == "sent"

EndCall(c, ok) ==
    /\ call[c] = "running"
    /\ call' = [call EXCEPT ![c] = "returned"]
    /\ release' = [release EXCEPT ![c] = ReleaseState(ok)]
    /\ UNCHANGED <<opened, limit, tokens, counted, acquire>>

(***************************************************************************)
(* The token bucket.                                                       *)
(***************************************************************************)

\* A thread of the acquire group is blocked in the semaphore or counts.
Acquiring == {c \in Calls : acquire[c] \in {"served", "taken"}}
Releasing == {c \in Calls : release[c] \in {"served", "taken"}}

AcquireThreads == 1

ServeAcquire(c) ==
    /\ acquire[c] = "sent" /\ Cardinality(Acquiring) < AcquireThreads
    /\ acquire' = [acquire EXCEPT ![c] = "served"]
    /\ UNCHANGED <<opened, limit, tokens, counted, call, release>>

\* threading.Semaphore blocks the thread while its value is 0.
TokenFree == tokens > 0

TakeToken(c) ==
    /\ acquire[c] = "served" /\ TokenFree
    /\ tokens' = tokens - 1
    /\ acquire' = [acquire EXCEPT ![c] = "taken"]
    /\ UNCHANGED <<opened, limit, counted, call, release>>

CountTaken(c) ==
    /\ acquire[c] = "taken"
    /\ counted' = counted + 1
    /\ acquire' = [acquire EXCEPT ![c] = "over"]
    /\ UNCHANGED <<opened, limit, tokens, call, release>>

\* The two groups have threads of their own.
ReleaseThreadFree_OneGroup ==    \* seeded fault: acquire and release share a thread
    Cardinality(Acquiring) + Cardinality(Releasing) < AcquireThreads
ReleaseThreadFree == Cardinality(Releasing) < ReleaseThreads

ServeRelease(c) ==
    /\ release[c] = "sent" /\ ReleaseThreadFree
    /\ tokens' = tokens + 1
    /\ release' = [release EXCEPT ![c] = "taken"]
    /\ UNCHANGED <<opened, limit, counted, call, acquire>>

CountAfterRelease == counted - 1

CountReleased(c) ==
    /\ release[c] = "taken"
    /\ counted' = CountAfterRelease
    /\ release' = [release EXCEPT ![c] = "over"]
    /\ UNCHANGED <<opened, limit, tokens, call, acquire>>

CallStep(c) ==
    \/ StartCall(c) \/ RunFunction(c) \/ \E ok \in BOOLEAN : EndCall(c, ok)
BucketStep(c) ==
    \/ ServeAcquire(c) \/ TakeToken(c) \/ CountTaken(c)
    \/ ServeRelease(c) \/ CountReleased(c)

BucketNext ==
    \/ \E p \in Pools : OpenPool(p)
    \/ \E c \in Calls : CallStep(c) \/ BucketStep(c)

BucketSpec == BucketInit /\ [][BucketNext]_bucketVars

\* The pools are opened, their threads run, the functions return (they have
\* timeouts), and the actor serves its tasks.
FairBucketSpec ==
    /\ BucketSpec
    /\ \A p \in Pools : WF_bucketVars(OpenPool(p))
    /\ \A c \in Calls : WF_bucketVars(CallStep(c)) /\ WF_bucketVars(BucketStep(c))

(***************************************************************************)
(* Properties.                                                             *)
(***************************************************************************)

Running(p) == {c \in Calls : call[c] = "running" /\ PoolOf[c] = p}
AllRunning == UNION {Running(p) : p \in Pools}

\* However acquires and releases of the two tools interleave on the actor,
\* no more functions run at a time than its limit.
WithinBucket == limit > 0 => Cardinality(AllRunning) <= limit

\* Tokens are neither lost nor made: those that are not in the bucket are held
\* by a call that has one or will give one back.
HoldsToken(c) ==
    /\ acquire[c] \in {"taken", "over"}
    /\ call[c] # "returned" \/ release[c] = "sent"

TokensConserved == tokens + Cardinality({c \in Calls : HoldsToken(c)}) = limit

\* Every call returns: waiting for a token never keeps the tokens from coming
\* back.
CallsReturn == \A c \in Calls : <>(call[c] = "returned")

=============================================================================
