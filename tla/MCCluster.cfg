SPECIFICATION FairSpec
CONSTANTS
    c1 = c1
    c2 = c2
    up = up
    down = down
    w1 = w1
    w2 = w2
    Clusters <- TwoClusters
    States <- TwoStates
    Workers <- TwoWorkers
    NULL = NULL
    MaxUserOps = 4
    MaxRelists = 1
CHECK_DEADLOCK FALSE
INVARIANTS
    TypeOK
    OneWorkerPerItem
PROPERTIES
    ShutdownCompletes
    EveryChangeIsQueued
