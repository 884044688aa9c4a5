SPECIFICATION Spec
CONSTANTS
    s1 = s1
    s2 = s2
    c1 = c1
    c2 = c2
    w1 = w1
    w2 = w2
    NULL = NULL
    Schedulers <- TwoSchedulers
    Clusters <- OneCluster
    Workers <- TwoWorkers
    Preference <- RingOrder
    MaxUserOps = 4
    MaxFaults = 0
    MaxEvents = 4
INVARIANT
    HomeIsLookup
SYMMETRY SymmetryWorkers
CHECK_DEADLOCK FALSE
