SPECIFICATION Spec
CONSTANTS
    k1 = k1
    k2 = k2
    k3 = k3
    k4 = k4
    None = None
    Late = {}
    Key <- Keys2
    Value <- OneWord
    Ttl = {0, 1}
    By = {1}
    MaxNumber = 3
    Time <- LaterTime
    MaxElapse = 1
    SteadyClock = TRUE
    Ops <- TtlApi
    MaxEvict = 2
    NPages = 2
    Class <- MCClass
    Span <- MCSpan
    PerPage <- MCPerPage
    NodeClass <- MCNodeClass
    ItemClass <- MCNodeClass
    ListClass = "small"
    Root <- MCRoot
INVARIANTS DeclinedMeansAbsent
