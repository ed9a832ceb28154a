SPECIFICATION FairSpec
CONSTANTS
    None = None
    MaxCalls = 1
    MaxFaults = 2
    MaxExpiries = 1
CHECK_DEADLOCK FALSE
INVARIANTS
    CompleteAtRest
    PinnedHostAccepted
PROPERTIES
    IdentityKept
    HostServes
