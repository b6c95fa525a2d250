SPECIFICATION Spec
CONSTANTS
    Sess = {s1}
    Rooms = {r1, r2}
    Seats = {0}
    Dirs = {"none"}
    kInputRingDepth = 1
    NeutralAfter = 1
    MaxSeq = 0
    MaxGen = 0
    MaxTick = 2
    ClientsPing = TRUE
PROPERTY PongMonotone
