SPECIFICATION Spec
CONSTANTS
    WorkerCount = 2
    kTickPeriodNs = 3
    kMaxCatchupSteps = 3
    T0 = 1
    MaxTime = 20
INVARIANTS TypeOK TickLedger NeverAhead RemainBounded DebtSettled
CHECK_DEADLOCK FALSE
