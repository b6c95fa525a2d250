SPECIFICATION FairSpec
CONSTANTS
    Net = {e1}
    Sess = {s1, s2}
    RingCap = 2
    KernelCap = 1
    MaxConns = 2
    MaxSnaps = 2
    Watched = {s1}
INVARIANTS TypeOK NoLostWakeup ShutdownLedger
PROPERTIES SendContract SnapshotFlushed
CHECK_DEADLOCK FALSE
