SPECIFICATION FairSpec
CONSTANTS
    Daemons = {d1, d2}
    None = None
    Locked = TRUE
    Clients = {w1, w2}
    w1 = w1
    Asks <- MCAsks
    NChunks = 2
CHECK_DEADLOCK FALSE
INVARIANTS
    ListenerReachable
    NeverLockedOut
    AttachedWhole
    FailedHoldsNothing
PROPERTIES
    StopReleasesClients
    ShutdownReturns
