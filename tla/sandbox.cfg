CONSTANTS
    r1 = r1
    r2 = r2
    Responses <- TwoResponses
    NumCases <- ThreeAndOne
    ScoredCases = 2
    NumProcesses = 2
    MaxConcurrent = 1
    MaxBatches = 2
    MaxTimeouts = 1
SPECIFICATION FairSpec
INVARIANTS
    WithinLimit
    ScoreOfCases
PROPERTIES
    BatchScored
CHECK_DEADLOCK FALSE
