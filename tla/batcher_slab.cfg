SPECIFICATION Spec
CONSTANTS
    Reqs = {r1, r2, r3}
    None = None
    Prompts <- PromptsSlab
    Tenants = {noTenant}
    NoTenant = noTenant
    GenTokens = {1}
    StopTokens = {9}
    MaxBatch = 2
    MaxInflightCfg = 3
    MaxPerTenant = 0
    MaxNew = 3
    MaxContext = 4
    PrefillChunk = 1
    PrefillMaxRows = 0
    AdmitPerIter = 0
    WarmSlot = FALSE
    XSlot = FALSE
    MixedStep = FALSE
    PressureGate = FALSE
    MixedBatch = FALSE
    MaxFailures = 0
    Slab = TRUE
    RingCap = 2
    Dummy = 0
    Empty = Empty
    BlockSize = 1
    MaxEntries = 1
SYMMETRY ReqSymmetry
INVARIANTS
    SlabsWithinBounds
