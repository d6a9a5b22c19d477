SPECIFICATION RegistrySpec
CONSTANTS
    n1 = n1
    n2 = n2
    Calls = {c1, c2}
    Bracketed = {c2}
    Nodes <- const_Nodes
    NodeOrder <- const_NodeOrder
    Window = 2
    IdLengths = {1, 31, 32, 127, 128, 256}
    ValueLengths = {0, 1, 31, 32, 127}
    OpenSips = opensips
    DefaultNode = default_node
    Endpoints = {e1}
    Data = {d1}
    PsEndpoints = ps_endpoints_name
    None = nil
INVARIANTS TypeOK SharedRead RestoreSeesOwner
INVARIANTS RegistryTypeOK NotLongDead BestIsLeast
INVARIANTS RestoredAsSaved OsReadsOwn
