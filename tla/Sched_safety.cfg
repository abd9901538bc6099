CONSTANTS
    NPROC = 2
    Cpu = {c0, c1}
    cpu0 = c0
    tickslock = tickslock
    None = None
    UINT = 2
    MaxN = 1
    Victims = {1}
SPECIFICATION FairSpec
INVARIANTS
    NoPanic
    OneCpu
    IntrRestored
    NoLostWakeup
PROPERTY SleeperRuns
