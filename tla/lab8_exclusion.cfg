SPECIFICATION Spec
CONSTANTS
    MaxXid = 4
    Key = {k1}
    Op = {"read", "insert", "update", "remove"}
    MaxCalls = 2
INVARIANTS
    LockExclusion
CHECK_DEADLOCK FALSE
