SPECIFICATION Spec
CONSTANTS
    Reqs = {r1, r2, r3, r4}
    None = None
    Prompts <- PromptsOne
    Tenants = {noTenant}
    NoTenant = noTenant
    GenTokens = {1}
    StopTokens = {9}
    MaxBatch = 2
    MaxInflightCfg = 4
    MaxPerTenant = 0
    MaxNew = 2
    MaxContext = 8
    PrefillChunk = 3
    PrefillMaxRows = 4
    AdmitPerIter = 0
    WarmSlot = FALSE
    XSlot = TRUE
    MixedStep = TRUE
    PressureGate = TRUE
    MixedBatch = FALSE
    MaxFailures = 0
    Slab = FALSE
    RingCap = 2
    Dummy = 0
    Empty = Empty
    BlockSize = 3
    MaxEntries = 1
SYMMETRY ReqSymmetry
INVARIANTS
    PinsReleased
