SPECIFICATION TablesSpec
CONSTANTS
    Parts = {"sleep", "timer", "route", "igmp", "heap", "start"}
    Procs = {p1, p2}
    Prio = 4
    NULL = NULL
    Calls = {"sleep10", "recvtim"}
    MaxSleep = 3
    MaxLate = 1
    MaxRaces = 3
    TmMsgs = {m1, m2, m3}
    TmTimes = {1, 2}
    TmDeltas = {1, 2}
    TmPortLen = 1
    TmMaxSets = 3
    RtBpSize = 5
    RtW = 5
    RtClass = 2
    RtTSize = 2
    RtMyIp = 17
    RtMasks = {2, 3}
    RtDests = {8, 16}
    RipNets = {0, 8}
    RtGws = {18, 20}
    RipMetrics = {1, 2, 3}
    RtmInf = 3
    RtInf = 9
    RipRtTtl = 1
    RipZTime = 2
    IcRdTtl = 1
    MaxRipRoutes = 2
    MaxNRip = 3
    RtMaxInputs = 2
    HgTSize = 3
    HgApps = {p1, p2}
    HgGroups = {g1}
    HgAllHosts = g0
    HgArpMax = 2
    HgMaxJoins = 2
    HgMaxIn = 1
    HeapProcs = {p1, p2}
    HeapWords = 12
    HeapSizes = {1, 3}
    HeapStks = {2}
    PoolBufs = 2
    NBPools = 1
    HeapMaxCalls = 4
    SuLines <- MCSuLines
    SuUnits <- MCSuUnits
    Neth = 3
    SuNdg = 1
    SuNtcp = 1
    SuMaxLines = 2
    SuMaxJobs = 2
CHECK_DEADLOCK FALSE
INVARIANTS TmOnTime RtRefs RipAnnounced HgAccounted HeapDivided SgdValid ChainServed FigMeaning
PROPERTIES NeverEarly SleepersWake RtImplements
