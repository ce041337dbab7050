SPECIFICATION FairSpec
CONSTANTS
    Reqs = {r1, r2}
    None = None
    Prompts <- PromptsWarm
    Tenants = {noTenant, t1}
    NoTenant = noTenant
    GenTokens = {1}
    StopTokens = {9}
    MaxBatch = 1
    MaxInflightCfg = 2
    MaxPerTenant = 1
    MaxNew = 2
    MaxContext = 7
    PrefillChunk = 2
    PrefillMaxRows = 2
    AdmitPerIter = 0
    WarmSlot = TRUE
    XSlot = TRUE
    MixedStep = TRUE
    PressureGate = TRUE
    MixedBatch = FALSE
    MaxFailures = 1
    Slab = FALSE
    RingCap = 2
    Dummy = 0
    Empty = Empty
    BlockSize = 2
    MaxEntries = 1
INVARIANTS
    TenantBounded
    KvFaithful
    SsmFaithful
    RingFaithful
PROPERTIES
    Served
    StopJoins
