CONSTANTS
    Pools <- TwoPools
    Calls <- FiveCalls
    PoolOf <- FirstTwoSearch
    NumWorkers <- TwoWorkers
    Limit <- SearchTwoSandboxOne
    ReleaseThreads = 2
SPECIFICATION FairBucketSpec
INVARIANTS
    WithinBucket
PROPERTIES
    CallsReturn
CHECK_DEADLOCK FALSE
