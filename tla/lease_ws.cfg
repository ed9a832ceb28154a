SPECIFICATION Spec
CONSTANTS
    Paths = {p}
    Hashes = {h1, h2}
    NoFile = NoFile
    LeaseIds = {l1, l2}
    Default = Default
    None = None
    Gone = Gone
    Partial = Partial
    SetupInput = p
    Kinds = {"keep", "reuse"}
    Env = {"crash", "cleanup", "delete"}
    Keep = 1
    MaxTime = 1
    MaxCrashes = 1
SYMMETRY Symmetry
INVARIANTS
    LeaseSeesClientTree
    CleanLeaseTrusted
    ActiveLeaseKept
PROPERTIES
    UnexpiredLeaseKept
