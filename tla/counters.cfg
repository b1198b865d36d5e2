SPECIFICATION FairSpec
CONSTANTS
    k1 = k1
    k2 = k2
    k3 = k3
    k4 = k4
    None = None
    Late = {0}
    Key <- Keys2
    Value <- BoolLong
    Ttl = {0, 1}
    By = {1}
    MaxNumber = 2
    Time = {2, 4}
    MaxElapse = 2
    SteadyClock = FALSE
    Ops <- NumberApi
    MaxEvict = 2
    NPages = 2
    Class <- MCClass
    Span <- LoopSpan
    PerPage <- MCPerPage
    NodeClass <- MCNodeClass
    ItemClass <- MCNodeClass
    ListClass = "small"
    Root <- MCRoot
 
PROPERTIES EvictionEnds ImplementsExpiringMap
