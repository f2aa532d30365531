SPECIFICATION CallsSpec
CONSTANTS
    k1 = k1
    k2 = k2
    Killers <- MCKillers
    Cap         = 2
    MaxIssue    = 3
    MaxStep     = 2
    MaxSegments = 4
INVARIANTS
    CancelledIsOver
    StepCapped
    CarryOnlyAtStart
PROPERTIES
    ReportStands
    KillEnds
    EndIsReported
CHECK_DEADLOCK FALSE
