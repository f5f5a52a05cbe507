SPECIFICATION FairSpec
CONSTANTS
    Data = {d0, d1}
    Zero = d0
    BlockLen = 2
    CellSize = 3
    None = None
    SessionLen = 2
    Plans <- MCPlans
PROPERTIES
    WishIsSeen
\* The violation itself leaves both machines waiting.
CHECK_DEADLOCK FALSE
