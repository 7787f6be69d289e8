SPECIFICATION Spec
CONSTANTS
    NextHops = {a1, a2}
    ArpSenders = {a1}
    TSize = 1
    QSize = 1
    InqMax = 1
    MaxRetry = 0
    Resend = 1
    Timeout = 2
    NetBufs = 6
    MaxGran = 1
    MaxFrags = 1
    MaxArps = 1
PROPERTY ArpInReturns
CHECK_DEADLOCK FALSE
