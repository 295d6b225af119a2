CONSTANTS
    p1 = p1
    p2 = p2
    p3 = p3
    Prompts <- ThreePrompts
    NumServers = 2
    MaxCacheSize = 2
    MaxTurns = 4
    MaxCalls = 2
    MaxToolCalls = 2
    MaxLength = 5
    MaxFaults = 1
SPECIFICATION FairSpec
INVARIANTS
    StickyRouting
    KeepsItsAddress
    QuietWhenReturned
PROPERTIES
    GenerateEnds
CHECK_DEADLOCK FALSE
