SPECIFICATION MCSpec
CONSTANTS
    Sentinel = Sentinel
    Null = Null
    HalfRange = 8
    Uses <- MCUses
INVARIANTS SearchTree Balanced NextEnumerates
PROPERTIES EqualsStayInOrder
