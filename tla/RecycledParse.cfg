SPECIFICATION Spec
CONSTANTS
    Net = {e1, e2}
    Sess = {s1}
    RingCap = 2
    KernelCap = 1
    MaxConns = 2
    MaxSnaps = 2
    Watched = {s1}
INVARIANT OwnParse
CHECK_DEADLOCK FALSE
