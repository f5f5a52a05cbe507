SPECIFICATION FairSpec
CONSTANTS
    Block = 2
    Sector = 4
    NumSectors = 3
    MemSize = 4
    RunMax = 4
    Bytes = {b, ff}
    FF = ff
    Junk = Junk
    Echo = Echo
    Jobs <- MCJobs
    MaxCalls = 2
    MaxFaults = 2
INVARIANTS
    LibInv
    DataArrives
PROPERTIES
    Stores
    CallReturns
\* A session of calls ends.
CHECK_DEADLOCK FALSE
