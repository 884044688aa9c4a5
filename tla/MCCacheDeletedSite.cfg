SPECIFICATION Spec
CONSTANTS
    s1 = s1
    s2 = s2
    s3 = s3
    k1 = k1
    k2 = k2
    r1 = r1
    r2 = r2
    Sites <- TwoSites
    Stacks <- TwoStacks
    Regions <- TwoRegions
    AZs = {a1}
    NULL = NULL
    TTL = 1
    MaxGeneration = 7
    MaxTime = 2
SYMMETRY SymmetryCallers
CHECK_DEADLOCK FALSE
INVARIANT
    SnapshotDropsDeletedSites
