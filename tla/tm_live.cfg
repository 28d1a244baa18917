\* Progress under strict 2PL; one value, since nothing waits for a value.
SPECIFICATION FairSpec
CONSTANTS
    t1 = t1
    t2 = t2
    t3 = t3
    k1 = k1
    k2 = k2
    Txn <- Txn3
    Key <- Keys2
    Value = {0}
    Zero = 0
    NoTxn = NoTxn
    Unset = Unset
    NoRequest = NoRequest
    Mode = "TWO_PL"
PROPERTIES
    EveryTxnEnds
VIEW ViewLive
CHECK_DEADLOCK FALSE
