SPECIFICATION FairSpec
CONSTANTS
    Threads = {c1, c2, c3}
    Pooled = {m1, m2}
    Engines = {e1, e2}
    None = None
    Capacity = 1
    Eager = {d}
    Batched = {m2}
    MaxRequests = 4
CHECK_DEADLOCK FALSE
INVARIANTS
    PinsExact
    EngineLive
    WithinCapacity
    SleeperHasWaker
PROPERTIES
    Answered
