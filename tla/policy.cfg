CONSTANTS
    Settings <- Methods
    Probs = {1, 2, 4}
    Whole = 4
    MaxTokens = 3
    BaseClip = 8
    ClipMin = 0
    ClipMax = 60
    Alpha = 3
    Bins = 5
    ClipLow = 8
    ClipHigh = 12
    ClipC = 120
    IsLow = 40
    IsHigh = 18
    ArAlpha = 3
    ArTau = 7
    ArUnit = 10
    Unit = 120
SPECIFICATION Spec
INVARIANTS
    TrustRegion
    EachTokenOnce
    FirstStepPlain
    MicroSizeIrrelevantIfFixed
CHECK_DEADLOCK FALSE
