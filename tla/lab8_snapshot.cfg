SPECIFICATION Spec
CONSTANTS
    MaxXid = 3
    Key = {k1}
    Op = {"read", "insert", "update", "remove"}
    MaxCalls = 2
INVARIANTS
    SnapshotIsFixed
CHECK_DEADLOCK FALSE
