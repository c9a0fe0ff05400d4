SPECIFICATION FairSpec
CONSTANTS
    Ranks = {1, 2}
    Configs <- MCConfigs
    Capacities <- MCCapacities
    Fits <- MCFits
    Unbounded = 30
    start_seq_len = 6
    stop_seq_len = 26
    min_samples = 4
    new_tokens = 3
    new_token_samples = 1
    STOPPING_DISTANCE = 4
    max_batch_size = 2
    n_samples = 1
INVARIANTS
    RanksInStep
    FirstSampleIsLowest
    PairsBelong
    NoSpuriousFailure
    ShapesWithinLimits
PROPERTIES
    StartupEnds
