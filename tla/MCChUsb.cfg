SPECIFICATION FairSpec
CONSTANTS
    RamSize = 6
    BasicStart = 2
    Bytes = {0, 1}
    Sessions <- MCSessions
    Places = {1, 2, 3, 4, 5}
    UsedSize = 3
    Images <- MCImages
    Fixed <- MCFixed
    LenMod = 4
    SumMod = 2
    NumSectors <- MCNumSectors
    Blocks = {1, 2, 3}
    Rounds = 3
    Server <- MCServer
    Disks <- MCDisks
    Stocks <- MCStocks
    MaxGlitches = 1
    MaxFlaws = 3
INVARIANTS
    CopyIsTrue
    WrongSectorsShow
    SavedIsTrue
PROPERTIES
    AlarmsAreReal
    RunsWhatWasSent
    SentIsStarted
    CommandEnds
\* Sessions end, and the two sides may wait for each other for ever.
CHECK_DEADLOCK FALSE
