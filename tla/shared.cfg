SPECIFICATION SharedFairSpec
CONSTANTS
    Proc = {p1, p2}
    None = None
    Sentinel = Sentinel
    Null = Null
    LruHead = LruHead
    HalfRange = 8
    LenRange = 4
    Key <- MCKey
    Hash <- MCHash
INVARIANTS OneInside OneInsideWhileUsable TornByOneEntry
PROPERTIES ImplementsLruIndex SomeoneGetsIn
