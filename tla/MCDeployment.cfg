SPECIFICATION FairSpec
CONSTANTS
    Shards = {0, 1}
    MaxCrashes = 1
    Capacity = 1
    MaxCalls = 2
    Checks = {1}
INVARIANTS
    RouterFollowsShards
    NoOrphans
    RouterGoesFirst
PROPERTIES
    EverythingEnds
    CallsEnd
CHECK_DEADLOCK FALSE
