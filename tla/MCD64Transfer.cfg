SPECIFICATION FairSpec
CONSTANTS
    NumTracks = 3
    Sectors <- MCSectors
    Interleave = 2
    MaxSessions = 2
    MaxFlaws = 1
INVARIANTS
    D64Inv
    AckedIsOnDisk
    OkIsComplete
PROPERTY
    SessionEnds
\* The two sides may wait for each other, and sessions come to an end.
CHECK_DEADLOCK FALSE
