SPECIFICATION FairSpec
CONSTANTS
    s1 = s1
    s2 = s2
    c1 = c1
    c2 = c2
    w1 = w1
    w2 = w2
    NULL = NULL
    Schedulers <- TwoSchedulers
    Clusters <- OneCluster
    Workers <- OneWorker
    Preference <- RingOrder
    MaxUserOps = 5
    MaxFaults = 0
    MaxEvents = 5
PROPERTIES
    EventuallyQuiescent
CHECK_DEADLOCK FALSE
