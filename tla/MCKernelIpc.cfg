SPECIFICATION Spec
CONSTANTS
    NPROC = 5
    NSEM = 1
    QUANTUM = 1
    Prios = {1}
    Msgs = {m1}
    MaxSleep = 1
    MaxLate = 0
    SemMax = 1
    Calls <- IpcCalls
INVARIANTS ListsOK SemCountOK MessagesOK
PROPERTY FifoWake
