SPECIFICATION FairSpec
CONSTANTS
    a1 = a1
    a2 = a2
    a3 = a3
    g1 = g1
    g2 = g2
    NULL = NULL
    Servers <- ThreeServers
    BadServers <- OneBadServer
    Callers <- TwoCallers
    MaxUpdates = 2
CHECK_DEADLOCK FALSE
INVARIANT TypeOK
INVARIANT AdoptedWhenAcknowledged
PROPERTY UpdateIsAcknowledged
