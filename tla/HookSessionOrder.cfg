CONSTANTS
    Sections <- MCSections
    N = 4
    SlotLimit = 3
    Addrs = {0, 2, 4, 6}
    Bytes = {0, 1}
    None = None
    RamCells <- MCRamCells
    HooksLocation = 8
    HooksLen = 2
    Sites <- MCSites
    Branch <- MCBranch
    WriteAddrs = {10}
    MaxChunks = 2
    AsmHooksOk = TRUE
    EkReqKnown = TRUE
SPECIFICATION Spec
INVARIANT HooksWrittenBeforeBranch
PROPERTY ImplementsHookInstaller
