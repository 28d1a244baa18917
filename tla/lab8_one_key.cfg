SPECIFICATION Spec
CONSTANTS
    MaxXid = 4
    Key = {k1}
    Op = {"read", "insert", "update", "remove"}
    MaxCalls = 2
INVARIANTS
    TypeOK
    NoLostWakeup
    NoDirtyRead
PROPERTIES
    OnlyOvertakenReadsMiss
VIEW View
CHECK_DEADLOCK FALSE
