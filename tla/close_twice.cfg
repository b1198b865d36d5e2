SPECIFICATION Spec
CONSTANTS
    Name = {n1, n2, n3}
    Client = {c1, c2}
    Address = {a1, a2, a3}
    Fails = FALSE
    ShrinkFails = FALSE
    None = None
PROPERTIES CloseTwiceHarmless
