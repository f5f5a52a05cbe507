SPECIFICATION FairSpec
CONSTANTS
    MaxMsg = 2
    Prints = 4
INVARIANTS
    LogInv
    ShownOnce
PROPERTY
    GetsShown
\* Nothing is printed any more.
CHECK_DEADLOCK FALSE
