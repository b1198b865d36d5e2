SPECIFICATION Spec
CONSTANTS
    Name = {n1, n2, n3}
    Client = {c1, c2}
    Address = {a1, a2, a3, a4}
    Fails = TRUE
    ShrinkFails = FALSE
    None = None
SYMMETRY Symmetry
INVARIANTS RegistryExact
PROPERTIES LeaksReported HandleLostOnlyByMove
