SPECIFICATION Spec
CONSTANTS
    Requests = {1, 2, 3}
    Params <- MCParams
    Ids = {0, 1, 2}
    BatchIds = {1, 2, 3}
    Paged = TRUE
    QueueCapacity = 2
    SizeLimit = 2
    MaxWaitingTokens = 2
    CancelCheckEvery = 2
    MaxU32 = 7
    MaxTokensPerStep = 2
    MaxRequestErrors = 1
    MaxRpcFailures = 1
INVARIANTS
    TypeOK
    SenderHeld
    RoomAgrees
    KvMatchesCache
PROPERTIES
    ImplementsService
