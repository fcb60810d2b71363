\* Open-loop moves: up/down_revolutions, move_to_revolution, set_zero,
\* max_revolutions and reset_motor_time against the controller, the
\* limit switches and readController() with read timeouts.
CONSTANTS
    CPR = 4000
    RPM = 30
    InitMaxRevolutions = 2
    FbPeriodMs = 1000
    FbDistMilli = 250
    IntBits = 16
    StepCounts = 2000
    InitPos = 0
    SwitchInputs <- OL_SwitchInputs
    Speeds <- OL_Speeds
    Revs <- OL_Revs
    RevTargets <- OL_RevTargets
    Distances = {}
    PosTargets = {}
    FbPositions = {}
    MaxRevInputs <- OL_MaxRevInputs
    TickMs = 1000
    MaxTime = 3000
    MaxCmds = 3
SPECIFICATION Spec
INVARIANT MotorTimeNeverOvercounts
INVARIANT CachedPositionWithinLimits
