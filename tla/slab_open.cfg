SPECIFICATION FairSpec
CONSTANTS
    Proc = {p1, p2, p3}
    Privileged = {p3}
    File = {f1, f2}
    Fails = TRUE
    Dies = TRUE
    None = None
INVARIANTS ReadyIsWhole
PROPERTIES MadeOnce HalfMadeStaysShut EveryCallReturns
