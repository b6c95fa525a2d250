SPECIFICATION Spec
CONSTANTS
    Unit = 240
    kRoomMembers = 4
    kSnapActors = 14
    kPlayerSpawn <- MCPlayerSpawn
    kOrcSpawn <- MCOrcSpawn
    StepX = 860
    StepY = 528
    DiagX = 608
    DiagY = 373
    WORLD_W = 1600
    DEPTH_MIN = 0
    DEPTH_MAX = 165
    STAGE_MARGIN = 20
    BODY_HALF_W = 17
    BODY_HALF_D = 9
    NeutralAfter = 10
    SettleTicks = 80
    CrossTicks = 940
    Parties <- MCParties
    FreeFrom = {0, 950}
    MaxTick = 1900
    MaxMoves = 2
INVARIANTS TypeOK PartyMovesOn
PROPERTIES NoJump Settles SnapMonotone
CHECK_DEADLOCK FALSE
