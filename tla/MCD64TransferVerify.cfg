SPECIFICATION Spec
CONSTANTS
    NumTracks = 3
    Sectors <- MCSectors
    Interleave = 2
    MaxSessions = 1
    MaxFlaws = 0
INVARIANT VerifyReadsAll
CHECK_DEADLOCK FALSE
