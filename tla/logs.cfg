SPECIFICATION FairSpec
CONSTANTS
    MaxBytes = 4
    MaxItems = 3
    MarkerLen = 1
    Lengths = {1, 2, 5}
    MaxLines = 5
CHECK_DEADLOCK FALSE
INVARIANTS
    WithinLimits
    LossMarked
PROPERTIES
    RequestEnds
