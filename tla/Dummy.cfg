SPECIFICATION FairSpec
CONSTANTS
    Clients = {c1}
    Attackers = {c1}
    Options <- AllRuns
    kPendMax = 4
    OverSend = 3
    SndCap = 3
    RingCap = 6
    MaxEcho = 4
    MaxConns = 2
INVARIANTS TypeOK EchoPipe NoFalseAlarm HeldBackIsArmed
PROPERTIES EchoReturns CutComesBack
CHECK_DEADLOCK FALSE
