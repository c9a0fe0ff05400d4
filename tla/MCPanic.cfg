SPECIFICATION Spec
CONSTANTS
    Requests = {1, 2}
    Params <- MCParams
    Ids = {0, 1}
    BatchIds = {1, 2}
    Paged = TRUE
    QueueCapacity = 2
    SizeLimit = 2
    MaxWaitingTokens = 2
    CancelCheckEvery = 2
    MaxU32 = 7
    MaxTokensPerStep = 1
    MaxRequestErrors = 1
    MaxRpcFailures = 0
INVARIANTS
    NoPanic
