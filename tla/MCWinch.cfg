CONSTANTS
    CPR = 4000
    RPM = 30
    InitMaxRevolutions = 1
    FbPeriodMs = 1000
    FbDistMilli = 250
    IntBits = 16
    StepCounts = 2000
    InitPos = 0
    Speeds <- MC_Speeds
    Revs <- MC_Revs
    RevTargets <- MC_RevTargets
    Distances <- MC_Distances
    PosTargets <- MC_PosTargets
    FbPositions <- MC_FbPositions
    MaxRevInputs <- MC_MaxRevInputs
    TickMs = 1000
    MaxTime = 6000
    MaxCmds = 3
SPECIFICATION Spec
INVARIANT TypeOK
INVARIANT MotorTimeNeverOvercounts
INVARIANT CachedPositionWithinLimits
INVARIANT StallDetected
