SPECIFICATION FairSpec
CONSTANTS
    Sessions = {s1, s2}
    None = None
    MaxActive = 2
    Limit = 1
    MaxWindows = 2
    MaxCodes = 2
    MaxCerts = 2
    MaxPairs = 2
    MaxPolls = 1
    MaxRuns = 1
    MaxFaults = 1
    MaxAges = 1
CHECK_DEADLOCK FALSE
INVARIANTS
    CodesGoodOnce
    PairedIsTrusted
PROPERTIES
    RequestsEnd
