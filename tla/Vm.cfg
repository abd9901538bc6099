SPECIFICATION VmSpec
CONSTANTS
    Proc = {p1, p2, p3}
    InitProc = p1
    NPAGES = 15
    PGSIZE = 4
    TABSIZE = 2
    USERTABS = 2
    UINT_RANGE = 64
    Deltas <- MCDeltas
    Segments = {0, 2, 4}
    WORD = 1
    Addrs = {0, 3, 10}
VIEW MCView
INVARIANTS
    PagesOwned
    AddressSpaces
