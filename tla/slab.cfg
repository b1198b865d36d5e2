SPECIFICATION Spec
CONSTANTS
    NPages = 4
    PageSize = 8
    MinSize = 2
    ExactSize = 4
    Request = {1, 3, 11, 20}
    Strays = TRUE
    MaxBlocks = 5
    None = None
INVARIANTS FreeListExact RunsMaximal SlotListsExact PagesAccounted
PROPERTIES StrayFreeIgnored KeepsContract
