CONSTANTS
    Sections <- MCSections
    N = 2
    SlotLimit = 2
    Addrs = {0, 2, 4, 6, 8}
    Bytes = {0}
    None = None
SPECIFICATION Spec
INVARIANT SlotsPassedInTable
