CONSTANTS
    N = 2
    Mbuf = {b1, b2, b3, b4, b5}
    None = None
    TxLag = 1
    MaxTx = 3
    MaxRx = 2
    t1 = t1
    t2 = t2
    Triple = {t1, t2}
    Proc = {p1, p2}
    Frame <- Frames
    W = 8
    Victim = {p2}
    MaxConn = 1
    MaxWrite = 1
SPECIFICATION NetSpec
CHECK_DEADLOCK FALSE
SYMMETRY Symmetry
INVARIANTS
    
    
    NoAlias
    
    SockFifo
    NoLostWakeup
 
