SPECIFICATION Spec
CONSTANTS
    PadMultiple = 3
    PT2_COMPILE = FALSE
    Speculator = TRUE
    SPECULATOR_MAX_BATCH_SIZE = 3
    CandidateCount = 2
    NPredict = 2
    TotalBlocks = 40
    Shapes <- MCShapes
    NumRequests = 4
INVARIANTS
    RowsAligned
    RoomForAll
    KvInUse
    ChoosersFollowRows
    NoExtraPadding
