SPECIFICATION WxSpec
CONSTANTS
    Slots = 2
    SlotSize = 4
    Sector = 2
    old = old
    new = new
    full = full
    Images = {old, new, full}
    CoreLen <- MCCoreLen
    RomLen <- MCRomLen
    Hardware <- MCHardware
    Versions = {1, 2}
    Blank = Blank
    Junk = Junk
    NoFile = NoFile
    Idle = Idle
    MaxJobs = 2
    WxJobs = 1
INVARIANT WxInv
PROPERTY OthersKept RightCore
