SPECIFICATION Spec
CONSTANTS
    Tenants <- ThreeTenants
    Namespaces <- TwoNamespaces
    Names <- TwoNames
    Labels <- TwoLabels
    MaxObjects = 3
INVARIANTS
    TypeOK
    GetFindsWhatListLists
