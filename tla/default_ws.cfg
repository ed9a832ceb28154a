SPECIFICATION Spec
CONSTANTS
    Paths = {p, q}
    Hashes = {h}
    NoFile = NoFile
    LeaseIds = {}
    Default = Default
    None = None
    Gone = Gone
    Partial = Partial
    SetupInput = p
    Kinds = {"default"}
    Env = {"crash", "remove", "setup"}
    Keep = 1
    MaxTime = 0
    MaxCrashes = 2
INVARIANTS
    DefaultSeesClientTree
    SetupRanInWorkspace
