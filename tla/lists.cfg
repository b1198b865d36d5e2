SPECIFICATION Spec
CONSTANTS
    k1 = k1
    k2 = k2
    k3 = k3
    k4 = k4
    None = None
    Late = {}
    Key <- Keys2
    Value <- ListValues
    Ttl = {1}
    By = {1}
    MaxNumber = 3
    Time = {2, 4}
    MaxElapse = 2
    SteadyClock = TRUE
    Ops <- ListApi
    MaxEvict = 1
    NPages = 3
    Class <- MCClass
    Span <- MCSpan
    PerPage <- MCPerPage
    NodeClass <- MCNodeClass
    ItemClass <- MCNodeClass
    ListClass = "small"
    Root <- PageRoot
SYMMETRY Symmetry
INVARIANTS MemoryExact ListsExact
PROPERTIES FailureKeepsValues ImplementsExpiringMap
