SPECIFICATION Spec
CONSTANTS
    Reqs = {r1, r2, r3}
    None = None
    Prompts <- PromptsMixed
    Tenants = {noTenant}
    NoTenant = noTenant
    GenTokens = {1, 9}
    StopTokens = {9}
    MaxBatch = 2
    MaxInflightCfg = 3
    MaxPerTenant = 0
    MaxNew = 2
    MaxContext = 6
    PrefillChunk = 3
    PrefillMaxRows = 4
    AdmitPerIter = 0
    WarmSlot = FALSE
    XSlot = TRUE
    MixedStep = TRUE
    PressureGate = TRUE
    MixedBatch = FALSE
    MaxFailures = 1
    Slab = FALSE
    RingCap = 2
    Dummy = 0
    Empty = Empty
    BlockSize = 3
    MaxEntries = 1
SYMMETRY ReqSymmetry
INVARIANTS
    Placement
    WorkList
    NoLostWakeup
    AnswerWhole
    StoreFaithful
    LivePinned
    UsageAccounted
    KvFaithful
    PrefilledOnce
PROPERTIES
    ImplementsLifecycle
