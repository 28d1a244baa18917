SPECIFICATION FairSpec
CONSTANTS
    NFrames = 2
    MaxPages = 3
    MaxPins = 2
    Content = {0, 1}
    Zero = 0
INVARIANTS
    TypeOK
    OneFramePerPage
    PointersAreGood
PROPERTIES
    GivesUpOnlyIfAllPinned
    StoresPages
    CallsReturn
CHECK_DEADLOCK FALSE
