SPECIFICATION FairSpec
CONSTANTS
    Net = {e1, e2}
    Sess = {s1, s2}
    WorkerCount = 1
    RoomCap = 1
    kRoomMembers = 2
    MaxConns = 3
    ExitReachable = FALSE
PROPERTIES SlotReclaimed JoinServed RoomReclaimed
ACTION_CONSTRAINT AcceptsAfter
