\* Keys in any order, some of them twice.
SPECIFICATION FairSpec
CONSTANTS
    Key = {1, 2, 3, 4, 5, 6, 7, 8}
    t = 2
    Twice = {3, 6}
    MaxInserts = 9
INVARIANTS
    RedBlackRules
    BTreeShape
    BothFindWhatWasGiven
PROPERTIES
    RepairEnds
CHECK_DEADLOCK FALSE
