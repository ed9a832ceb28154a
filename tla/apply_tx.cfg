SPECIFICATION Spec
CONSTANTS
    Paths <- DeepPaths
    Above <- DeepAbove
    Hashes = {h1, h2}
    Modes = {m1, m2}
    DefaultMode = m1
    Absent = Absent
    Stale = TRUE
INVARIANTS
    CommitGivesTarget
    NothingLost
    RestoredUnlessRefused
