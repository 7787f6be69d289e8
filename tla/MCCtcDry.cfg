SPECIFICATION Spec
CONSTANTS
    Writers = {w1, w2}
    Bufs = {b1, b2, b3}
    NULL = NULL
    Cap = 1
    MaxFrames = 5
INVARIANT FillbufBeingFilled
CHECK_DEADLOCK FALSE
