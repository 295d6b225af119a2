CONSTANTS
    NumRanks = 4
    Settings <- WorkingSettings
    MaxUpdates = 2
    MaxRuns = 2
SPECIFICATION FairSpec
INVARIANTS
    EngineCurrent
    OnDevice
    OneTenant
    StreamsApart
PROPERTIES
    CallsEnd
CHECK_DEADLOCK FALSE
