SPECIFICATION Spec
CONSTANTS
    Net = {e1, e2}
    Sess = {s1, s2}
    WorkerCount = 2
    RoomCap = 2
    kRoomMembers = 2
    MaxConns = 3
    ExitReachable = TRUE
INVARIANTS TypeOK OneHolder RefLedger SeatLedger NobodyStranded RoomOwnership MembershipAgrees
PROPERTY SeatContract
SYMMETRY NetSymmetry
ACTION_CONSTRAINT AcceptsAfter
