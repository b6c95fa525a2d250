SPECIFICATION FairSpec
CONSTANTS
    Net = {e1}
    Sess = {s1}
    WorkerCount = 1
    RoomCap = 2
    kRoomMembers = 2
    MaxConns = 1
    ExitReachable = TRUE
PROPERTY SlotReclaimed
