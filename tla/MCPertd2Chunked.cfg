\* One writer whose commands reach the FIFO in several write()s.
CONSTANTS
    w1 = w1
    w2 = w2
    w3 = w3
    Writers = {w1}
    Sends <- MC_SendsOne
    Chunked = TRUE
    Width = 3
    InitDelay = 0
    MaxIter = 8
SPECIFICATION Spec
INVARIANT DisplayedLineIsSentMessage
\* The loop bound ends every behaviour.
CHECK_DEADLOCK FALSE
