SPECIFICATION UpdateFairSpec
CONSTANTS
    Clients = {c1, c2}
    MaxVersion = 2
    Nothing = Nothing
INVARIANTS
    NoRunCutOffByRestart
    RestartKept
    RunOnNewHost
PROPERTIES
    RequestEnds
