SPECIFICATION GcFairSpec
CONSTANTS
    Contexts = {c1, c2}
    Hashes = {h1}
INVARIANTS
    ApplyFindsBlobs
PROPERTIES
    GcKeepsReferences
    LockProceeds
