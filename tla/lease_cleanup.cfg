SPECIFICATION FairSpec
CONSTANTS
    Paths = {p}
    Hashes = {h}
    NoFile = NoFile
    LeaseIds = {l1}
    Default = Default
    None = None
    Gone = Gone
    Partial = Partial
    SetupInput = p
    Kinds = {"keep", "reuse"}
    Env = {"crash", "cleanup", "delete", "remove", "list"}
    Keep = 1
    MaxTime = 2
    MaxCrashes = 1
PROPERTIES
    ExpiredLeaseRemoved
