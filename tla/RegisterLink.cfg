\* The register link with lost requests and replies, every reply on time.
CONSTANTS
    VPLim = 3
    PosMax = 2
    Amps = 1
    Status = 4
    Spd = 2
    LateReplies = FALSE
    MaxLost = 2
    MaxOps = 4
SPECIFICATION Spec
INVARIANT CacheFromOwnRegister
INVARIANT StoppedMeansHalted
\* The driver makes MaxOps calls and then stops.
CHECK_DEADLOCK FALSE
