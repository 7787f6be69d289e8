SPECIFICATION FairSpec
CONSTANTS
    CTC_READBUFS = 3
    SegStep = 6
    SegCounts = {1, 7}
    Errors = TRUE
    TooLong = TRUE
    MaxFrames = 16
CHECK_DEADLOCK FALSE
INVARIANTS NoLogicError BuffersConserved InOrder
PROPERTY FramesReturned
