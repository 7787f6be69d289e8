SPECIFICATION FairSpec
CONSTANTS
    NPROC = 4
    NSEM = 1
    QUANTUM = 1
    Prios = {0, 1, 2}
    Msgs = {m1}
    MaxSleep = 2
    MaxLate = 1
    SemMax = 0
    Calls <- SchedCalls
INVARIANT HighestPriorityRuns
PROPERTY Served
CHECK_DEADLOCK FALSE
