SPECIFICATION Spec
CONSTANTS
    k1 = k1
    k2 = k2
    k3 = k3
    k4 = k4
    None = None
    Late = {}
    Key <- Keys4
    Value <- OneWord
    Ttl = {0}
    By = {1}
    MaxNumber = 3
    Time <- MCTime
    MaxElapse = 0
    SteadyClock = TRUE
    Ops <- FlushApi
    MaxEvict = 2
    NPages = 3
    Class <- MCClass
    Span <- MCSpan
    PerPage <- MCPerPage
    NodeClass <- MCNodeClass
    ItemClass <- MCNodeClass
    ListClass = "small"
    Root <- MCRoot
SYMMETRY Symmetry
PROPERTIES FlushDeletes
