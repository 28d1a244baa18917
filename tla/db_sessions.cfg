SPECIFICATION FairSpec
CONSTANTS
    k1 = k1
    k2 = k2
    v1 = v1
    v2 = v2
    big = big
    Key = {k1, k2}
    Image = {v1, v2, big}
    Size <- MCSize
    PageBytes = 16
    NoRow = NoRow
    Absent = Absent
    Duplicated = Duplicated
    Loaded <- OneLoaded
    MaxStatements = 3
    MaxRestarts = 2
    Care = {"aborted", "deleted"}
    Tears = "later"
INVARIANTS
    TypeOK
    IndexAgrees
    WriteAhead
    LogTellsTxns
PROPERTIES
    Durable
    RecoveryEnds
CHECK_DEADLOCK FALSE
