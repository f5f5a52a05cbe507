SPECIFICATION FairSpec
CONSTANTS
    Data = {d0, d1}
    Zero = d0
    BlockLen = 2
    CellSize = 3
    None = None
    SessionLen = 4
    Plans <- MCPlans
INVARIANTS
    HandshakeInv
    BlocksIntact
PROPERTIES
    InPlaceBlockStable
    LinkSpec
    SessionEnds
\* Sessions end, and those with a race may hang.
CHECK_DEADLOCK FALSE
