SPECIFICATION TcpSpec
CONSTANTS
    RbSize = 2
    SbSize = 2
    TcpMss = 1
    NTcpFrag = 1
    TcpMaxRetries = 1
    Ntcp = 2
    TcpProcs = {p1, p2}
    TcpRoles = {"active", "passive"}
    TcpInQ = 1
    TcpOutQ = 6
    TcpLq = 1
    TcpWins = {0, 2}
    MssOpts = {0, 1}
    WriteLens = {2}
    PeerBytes = 3
    Crossing = FALSE
    CloseAlone = TRUE
    TcpMaxCalls <- TcpCallBound
    TcpMaxIn = 3
INVARIANTS TcpStream TcpWakeups MutexHanded OutputScheduled
CHECK_DEADLOCK FALSE
SYMMETRY TcpSymmetry
