SPECIFICATION FairSpec
CONSTANTS
    Blocks = {b1, b2, b3}
    BlockSize = 2
    Owners = {1, 2}
    MaxRequests = 2
    PromptLengths = {1, 4}
    MaxTokens = {2, 3}
    MaxActive = 2
    TokenBudget = 3
    ThresholdNum = 1
    ThresholdDen = 3
PROPERTIES
    Completes
