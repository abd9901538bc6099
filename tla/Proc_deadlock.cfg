CONSTANTS
    NPROC = 4
    MaxForks = 4
    Victims = {}
SPECIFICATION Spec
CHECK_DEADLOCK FALSE
INVARIANT NoLockCycle
