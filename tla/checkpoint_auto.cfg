CONSTANTS
    WorldSize = 2
    UseCritic = TRUE
    MaxKeep <- KeepTwoAndThree
    SaveFreq = 2
    BatchesPerEpoch = 3
    TotalEpochs = 2
    TotalSteps = 7
    Shuffle = TRUE
    TrackDataset = TRUE
    Modes = {"auto"}
    MaxRuns = 3
SPECIFICATION FairSpec
INVARIANTS
    TypeOK
    TrackedRestorable
    RunKeepsAtMost
    WorkLossBounded
    DataAligned
PROPERTIES
    RunEnds
    OneResumePoint
CHECK_DEADLOCK FALSE
