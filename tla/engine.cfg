SPECIFICATION FairSpec
CONSTANTS
    Tokens <- MCTokens
    Prompts <- MCPrompts
    Budgets = {1, 3}
    StopTokens = {2}
    Argmax <- MCArgmax
    Configs <- MCConfigs
    MaxContext = 10
    NBackups = 2
    ContMargin = 1
    DraftN = 2
    MinK = 1
    MaxK = 2
INVARIANTS
    CacheInSync
    SnapFaithful
    RecurrentInStep
PROPERTIES
    ImplementsGreedy
    ContinuationResumes
