CONSTANTS
    NumRanks = 4
    Settings <- AsyncVllm
    MaxUpdates = 2
    MaxRuns = 2
SPECIFICATION Spec
INVARIANTS
    EngineCurrent
CHECK_DEADLOCK FALSE
