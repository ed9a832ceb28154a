SPECIFICATION FairSpec
CONSTANTS
    MaxInput = 2
    MaxQueue = 1
    MaxAhead = 0
    MaxFaults = 1
CHECK_DEADLOCK FALSE
INVARIANTS
    StreamsInOrder
    BothKeepResults
    SyncBackFailsForCause
PROPERTIES
    RunEnds
