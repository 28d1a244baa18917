SPECIFICATION Spec
CONSTANTS
    k1 = k1
    k2 = k2
    v1 = v1
    v2 = v2
    big = big
    Key = {k1, k2}
    Image = {v1, big}
    Size <- MCSize
    PageBytes = 1
    NoRow = NoRow
    Absent = Absent
    Duplicated = Duplicated
    Loaded <- OneLoaded
    MaxStatements = 4
    MaxRestarts = 2
    Care = {"aborted", "deleted"}
    Tears = "none"
INVARIANTS
    AlwaysOpens
CHECK_DEADLOCK FALSE
