\* Writers truncate a data file and then write it (a shell redirection).
CONSTANTS
    NoFile = NoFile
    Width = 3
    Versions <- MC_Versions
    AtomicRows = {}
    OncePerSecond = FALSE
    Controls = {"refresh"}
    RefreshTime = 1
    DelayTime = 500000
    BacklightMgt = 1
    Epoch = 10
    MaxIter = 8
    QuietAfter = 8
SPECIFICATION Spec
INVARIANT LineReflectsFile
\* The daemon exits on the stop file, and the loop is bounded by MaxIter.
CHECK_DEADLOCK FALSE
