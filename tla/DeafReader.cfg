SPECIFICATION Spec
CONSTANTS
    Clients = {c1}
    Attackers = {c1}
    Options <- SlowRuns
    kPendMax = 4
    OverSend = 3
    SndCap = 3
    RingCap = 6
    MaxEcho = 4
    MaxConns = 2
INVARIANT SlowReaderReturns
CHECK_DEADLOCK FALSE
