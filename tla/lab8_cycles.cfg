SPECIFICATION Spec
CONSTANTS
    MaxXid = 4
    Key = {k1, k2, k3}
    Op = {"remove"}
    MaxCalls = 2
INVARIANTS
    NoStalledSet
    WaitsForAcyclic
SYMMETRY Symmetry
CHECK_DEADLOCK FALSE
