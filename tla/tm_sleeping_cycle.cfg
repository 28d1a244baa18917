\* A waits-for cycle among sleepers that no check has noticed.
SPECIFICATION Spec
CONSTANTS
    t1 = t1
    t2 = t2
    t3 = t3
    k1 = k1
    k2 = k2
    Txn <- Txn3
    Key <- Keys2
    Value = {0}
    Zero = 0
    NoTxn = NoTxn
    Unset = Unset
    NoRequest = NoRequest
    Mode = "TWO_PL"
INVARIANTS
    NoSleepingCycle
CHECK_DEADLOCK FALSE
