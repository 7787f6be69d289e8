SPECIFICATION FairSpec
CONSTANTS
    Writers = {w1, w2}
    Bufs = {b1, b2, b3}
    NULL = NULL
    Cap = 1
    MaxFrames = 5
INVARIANTS InOrder OnePlace
PROPERTY FramesWritten
CHECK_DEADLOCK FALSE
