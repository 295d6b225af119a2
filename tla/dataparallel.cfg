CONSTANTS
    Settings <- FourShapes
    MaxRows = 6
    MaxTokens = 3
    TokenLimit = 3
    Unit = 60
SPECIFICATION FairDPSpec
INVARIANTS
    ResultsInPlace
    EvenlyWeighted
PROPERTIES
    StepEnds
CHECK_DEADLOCK FALSE
