SPECIFICATION FairSpec
CONSTANTS
    MaxXid = 3
    Key = {k1, k2}
    Op = {"read", "insert", "update", "remove"}
    MaxCalls = 2
INVARIANTS
    NoStalledSet
    WaitsForAcyclic
PROPERTIES
    EveryTxnEnds
VIEW View
CHECK_DEADLOCK FALSE
