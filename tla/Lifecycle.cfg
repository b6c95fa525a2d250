SPECIFICATION FairSpec
CONSTANTS
    NetCount = 2
    GameCount = 2
    MaxFd = 6
INVARIANTS TypeOK NoDanglingUse OwnListener
PROPERTY ComesDown
CHECK_DEADLOCK FALSE
