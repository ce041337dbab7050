SPECIFICATION Spec
CONSTANTS
    Reqs = {r1, r2, r3}
    None = None
    Prompts <- PromptsDeep
    Tenants = {noTenant}
    NoTenant = noTenant
    GenTokens = {1}
    StopTokens = {9}
    MaxBatch = 2
    MaxInflightCfg = 3
    MaxPerTenant = 0
    MaxNew = 2
    MaxContext = 7
    PrefillChunk = 2
    PrefillMaxRows = 4
    AdmitPerIter = 0
    WarmSlot = TRUE
    XSlot = FALSE
    MixedStep = FALSE
    PressureGate = FALSE
    MixedBatch = FALSE
    MaxFailures = 0
    Slab = FALSE
    RingCap = 2
    Dummy = 0
    Empty = Empty
    BlockSize = 2
    MaxEntries = 1
SYMMETRY ReqSymmetry
INVARIANTS
    KvFaithful
