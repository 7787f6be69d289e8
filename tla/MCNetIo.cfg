SPECIFICATION Spec
CONSTANTS
    NextHops = {a1, a2}
    ArpSenders = {a1, a3}
    TSize = 2
    QSize = 1
    InqMax = 1
    MaxRetry = 1
    Resend = 1
    Timeout = 2
    NetBufs = 6
    MaxGran = 2
    MaxFrags = 1
    MaxArps = 2
INVARIANTS BuffersAccounted InputSeen
CHECK_DEADLOCK FALSE
