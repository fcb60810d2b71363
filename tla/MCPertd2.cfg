\* Three writers whose commands each reach the FIFO in one write().
CONSTANTS
    w1 = w1
    w2 = w2
    w3 = w3
    Writers = {w1, w2, w3}
    Sends <- MC_Sends
    Chunked = FALSE
    Width = 3
    InitDelay = 0
    MaxIter = 8
SPECIFICATION Spec
INVARIANT TypeOK
INVARIANT DisplayedLineIsSentMessage
\* The daemon stops on the "stop" command and the loop bound ends the others.
CHECK_DEADLOCK FALSE
