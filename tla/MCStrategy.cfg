SPECIFICATION Spec
CONSTANTS
    u1 = u1
    u2 = u2
    p1 = p1
    p2 = p2
    p3 = p3
    l1 = l1
    l2 = l2
    Clients <- TwoClients
    Specs <- ThreeSpecs
    InvalidSpecs <- OneInvalidSpec
    FieldSelectors <- Watches
    Scopes <- ThreeScopes
    Statuses <- TwoStatuses
    Labels <- TwoLabels
    NULL = NULL
    MaxRevision = 4
CHECK_DEADLOCK FALSE
INVARIANTS
    TypeOK
    StatusIsReported
PROPERTIES
    GenerationCountsChanges
    SelectionFollowsEndpoint
