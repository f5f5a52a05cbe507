SPECIFICATION AppFairSpec
CONSTANTS
    NTasks = 2
    Params = {p1}
    NoParam = NoParam
    EventMax = 1
    Kind <- MCKind
    CheckEvery = 1
INVARIANTS
    AppInv
    LockBelongsToSomebody
PROPERTIES
    LockComesFree
    FoundAgain
\* A task that follows NULL ends the program.
CHECK_DEADLOCK FALSE
