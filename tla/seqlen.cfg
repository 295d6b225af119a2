CONSTANTS
    MaxItems = 6
    MaxSeqLen = 4
    RankCounts = {2, 3}
    TokenLimits = {4, 6}
    MinMicros = {0, 3}
    Divisors = {1, 2}
SPECIFICATION Spec
INVARIANTS
    TypeOK
    PartitionsUsable
    Balanced
CHECK_DEADLOCK FALSE
