\* Row 0 is replaced whole, row 1 truncated and then written; no file
\* changes twice in one second, and none from the fourth iteration on.
CONSTANTS
    NoFile = NoFile
    Width = 3
    Versions <- MC_Versions
    AtomicRows = {0}
    OncePerSecond = TRUE
    Controls = {"stop", "backlighton", "backlightoff", "refresh"}
    RefreshTime = 1
    DelayTime = 500000
    BacklightMgt = 1
    Epoch = 10
    MaxIter = 10
    QuietAfter = 4
SPECIFICATION FairSpec
INVARIANT TypeOK
INVARIANT LineReflectsFile
PROPERTY LinesCatchUp
\* The daemon exits on the stop file, and the loop is bounded by MaxIter.
CHECK_DEADLOCK FALSE
