SPECIFICATION FairSpec
CONSTANTS
    Daemons = {d1}
    None = None
    Locked = TRUE
    Clients = {w1}
    w1 = w1
    Asks <- MCAsks
    NChunks = 2
CHECK_DEADLOCK FALSE
PROPERTIES
    ClientReturns
