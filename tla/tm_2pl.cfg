\* Strict 2PL: three transactions, two keys, two values.
SPECIFICATION Spec
CONSTANTS
    t1 = t1
    t2 = t2
    t3 = t3
    k1 = k1
    k2 = k2
    Txn <- Txn3
    Key <- Keys2
    Value = {0, 1}
    Zero = 0
    NoTxn = NoTxn
    Unset = Unset
    NoRequest = NoRequest
    Mode = "TWO_PL"
SYMMETRY Symm3
INVARIANTS
    TypeOK
    LocksCorrect
    NoLostWakeup
    WaitsForAcyclic
    NoStalledSet
PROPERTIES
    StrictTwoPhase
    NoFalseDeadlock
    Serializable
VIEW View2PL
CHECK_DEADLOCK FALSE
