SPECIFICATION Spec
CONSTANTS
    Sess = {s1, s2}
    Rooms = {r1, r2}
    Seats = {0}
    Dirs = {"none"}
    kInputRingDepth = 1
    NeutralAfter = 1
    MaxSeq = 2
    MaxGen = 1
    MaxTick = 0
    ClientsPing = TRUE
INVARIANTS TypeOK InputOrder OwnInputsOnly
PROPERTY AckSound
