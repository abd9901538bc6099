CONSTANTS
    Proc = {p1, p2}
    initproc = p1
    Block = {b1, b2, b3}
    Val = {v1, v2}
    Torn = Torn
    NoBlock = NoBlock
    MAXOPBLOCKS = 2
    LOGSIZE = 4
    nlog = 4
    OpBlocks = 1
SPECIFICATION FairSpec
INVARIANTS
    DirtyIsKept
    NoTornRead
    NoPanic
    NoLostWakeup
PROPERTY RefinesTxnStore
PROPERTY SleeperWoken
