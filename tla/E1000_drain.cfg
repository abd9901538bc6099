CONSTANTS
    N = 3
    Mbuf = {b1, b2, b3, b4, b5, b6}
    None = None
    TxLag = 2
    MaxTx = 0
    MaxRx = 2
SPECIFICATION Spec
CHECK_DEADLOCK FALSE
INVARIANT RxDrained
