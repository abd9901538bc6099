CONSTANTS
    NPROC = 4
    MaxForks = 3
    Victims = {3}
SPECIFICATION Spec
CHECK_DEADLOCK FALSE
INVARIANTS
    NoOrphan
    NoFreeWhileRunning
    NoLostWakeup
