SPECIFICATION Spec
CONSTANTS
    c1 = c1
    c2 = c2
    ip1 = ip1
    ClusterIds <- TwoClusterIds
    ClusterIps <- OneClusterIp
    MaxClusters = 2
    NULL = NULL
CHECK_DEADLOCK FALSE
INVARIANT
    ProcessKeepsRunning
