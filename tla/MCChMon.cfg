SPECIFICATION FairSpec
CONSTANTS
    Packet = 2
    Page = 3
    Top = 5
    RomArea = {4, 5}
    FileLengths <- MCFileLengths
    Listings = {0, 1, 2}
    Answers = {0, 1}
    Regions <- MCRegions
    MaxCommands = 3
INVARIANTS
    MonInv
    ReadDelivers
    WriteStores
    InOrder
PROPERTIES
    GetIsCurrent
    PromptComesBack
\* Sessions end, and a server may be gone.
CHECK_DEADLOCK FALSE
