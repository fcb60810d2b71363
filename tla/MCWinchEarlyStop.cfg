\* A feedback move started soon after the previous one stopped.
CONSTANTS
    CPR = 4000
    RPM = 30
    InitMaxRevolutions = 1
    FbPeriodMs = 1000
    FbDistMilli = 250
    IntBits = 16
    StepCounts = 2000
    InitPos = 0
    SwitchInputs = {}
    Speeds <- FB_Speeds
    Revs = {}
    RevTargets = {}
    Distances <- FB_Distances
    PosTargets <- FB_PosTargets
    FbPositions <- FB_FbPositions
    MaxRevInputs = {}
    TickMs = 1000
    MaxTime = 6000
    MaxCmds = 3
SPECIFICATION Spec
PROPERTY NoEarlyProgressStop
