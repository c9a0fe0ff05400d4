SPECIFICATION FairSpec
CONSTANTS
    Requests = {1, 2, 3}
    Params <- MCUntimedParams
    Ids = {0, 1, 2}
    BatchIds = {1, 2, 3}
    Paged = FALSE
    QueueCapacity = 2
    SizeLimit = 3
    MaxWaitingTokens = 2
    CancelCheckEvery = 2
    MaxU32 = 7
    MaxTokensPerStep = 1
    MaxRequestErrors = 0
    MaxRpcFailures = 1
INVARIANTS
    EntriesOnShard
    AscendingIds
    NoStraysWhileCallsSucceed
    NoTokenUnderflow
PROPERTIES
    PrefillFailureIsolated
    EveryRequestAnswered
