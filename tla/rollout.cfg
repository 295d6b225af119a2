CONSTANTS
    r1 = r1
    r2 = r2
    Reqs <- TwoReqs
    PromptLens = {2, 4, 9}
    PromptLength = 4
    ResponseLength = 5
    MaxModelLen = 9
    MaxTurns = 2
    MaxToolText = 2
    BatchModes = {"train", "greedy"}
    MaxBatches = 1
SPECIFICATION FairSpec
INVARIANTS
    EngineHasRoom
    LossOnModelTokens
    FollowsTemplate
    FinalizeAccepts
PROPERTIES
    BatchEnds
CHECK_DEADLOCK FALSE
