SPECIFICATION Spec
CONSTANTS
    Proc = {p1, p2}
    InitProc = p1
    NINODES = 6
    Block = {1, 2, 3, 4, 5, 6}
    Name = {"a", "d"}
    None = None
    Calls <- MCCalls
    MaxCalls = 4
    NOFILE = 2
    NFILE = 3
INVARIANTS
    NoPanic
    IputNoWait
    RefsCounted
    LinksCounted
    BlocksOwned
CHECK_DEADLOCK TRUE
