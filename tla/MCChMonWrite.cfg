SPECIFICATION Spec
CONSTANTS
    Packet = 2
    Page = 3
    Top = 5
    RomArea = {4, 5}
    FileLengths <- MCFileLengths
    Listings = {0, 1, 2}
    Answers = {0, 1}
    Regions <- MCRegions
    MaxCommands = 1
INVARIANT WriteIsExact
CHECK_DEADLOCK FALSE
