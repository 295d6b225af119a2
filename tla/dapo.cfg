CONSTANTS
    GenBatch = 2
    TrainBatch = 3
    BatchesPerEpoch = 2
    TotalEpochs = 2
    TotalSteps = 3
    SaveFreq = 1
    Order <- RotatedOrder
    Settings <- FourSettings
    MaxRuns = 3
SPECIFICATION FairSpec
INVARIANTS
    TypeOK
    UpdateReady
    PromptsAccounted
PROPERTIES
    FitEnds
CHECK_DEADLOCK FALSE
