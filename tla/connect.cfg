SPECIFICATION FairSpec
CONSTANTS
    Hosts = {h1, h2}
    Addresses = {a1, a2, a3}
    None = None
    Attempts = 2
    MaxMoves = 3
    MaxPairs = 4
    MaxConns = 3
    MaxFaults = 1
    Followed = 1
CHECK_DEADLOCK FALSE
INVARIANTS
    PinnedFound
    ConnectedToChosen
    OthersClosed
PROPERTIES
    SlotsReturn
