SPECIFICATION FairSpec
CONSTANTS
    Parallel = 2
    Plan <- MCPlan
    ChunkSize = 2
    MaxSize = 5
    DefaultChunkSize = 2
    MaxChunkSize = 3
    MaxChunks = 4
    DefaultParallel = 2
    MaxParallel = 3
    Invalid = Invalid
    MaxAttempts = 2
    Window = 2
    StoredBefore <- MCStoredBefore
    MaxConns = 3
    MaxFaults = 1
CHECK_DEADLOCK FALSE
INVARIANTS
    CountedOnce
    HostAgrees
    PlanAgreed
PROPERTIES
    ImplementsTransfer
    TransferEnds
