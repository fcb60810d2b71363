\* Replies may come after readBytesUntil() gave up; no line is lost.
CONSTANTS
    VPLim = 3
    PosMax = 2
    Amps = 1
    Status = 4
    Spd = 2
    LateReplies = TRUE
    MaxLost = 0
    MaxOps = 4
SPECIFICATION Spec
INVARIANT CacheFromOwnRegister
\* The driver makes MaxOps calls and then stops.
CHECK_DEADLOCK FALSE
