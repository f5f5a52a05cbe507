SPECIFICATION FairSpec
CONSTANTS
    NTasks = 3
    Params = {p1}
    NoParam = NoParam
    EventMax = 2
INVARIANTS
    TaskMgrInv
    NoLostWakeup
    CalmCallsGetTheirParam
PROPERTIES
    Dispatches
