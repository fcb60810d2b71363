\* move_to_revolution judged against a stale cached position.
CONSTANTS
    CPR = 4000
    RPM = 30
    InitMaxRevolutions = 2
    FbPeriodMs = 1000
    FbDistMilli = 250
    IntBits = 16
    StepCounts = 2000
    InitPos = 0
    SwitchInputs <- OL_SwitchInputs
    Speeds <- OL_Speeds
    Revs <- OL_Revs
    RevTargets <- OL_RevTargets
    Distances = {}
    PosTargets = {}
    FbPositions = {}
    MaxRevInputs <- OL_MaxRevInputs
    TickMs = 1000
    MaxTime = 3000
    MaxCmds = 3
SPECIFICATION Spec
PROPERTY InterlockRespected
