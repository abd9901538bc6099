CONSTANTS
    Readers = {r1, r2}
    Writers = {w1, w2}
    None = None
    PIPESIZE = 2
    UINT = 4
    MaxN = 2
    MaxBytes = 3
    Victims = {r1}
SPECIFICATION FairSpec
CHECK_DEADLOCK FALSE
INVARIANTS
    PipeFifo
    NoLostWakeup
    NoUseAfterFree
PROPERTY WriteEnds
