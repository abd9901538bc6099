CONSTANTS
    Proc = {p1, p2}
    Buf = {b1, b2}
    Block = {k1, k2, k3}
    Val = {v1, v2}
    None = None
    QueueSizes = {4, 8}
    UINT16 = 8
SPECIFICATION Spec
CHECK_DEADLOCK FALSE
SYMMETRY Symmetry
INVARIANTS
    OneBuffer
    ReadLatest
    DiskOwnsLocked
    DescAccounted
    NoLostCompletion
    NoLostWakeup
