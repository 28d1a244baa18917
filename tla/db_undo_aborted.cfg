SPECIFICATION Spec
CONSTANTS
    k1 = k1
    k2 = k2
    v1 = v1
    v2 = v2
    big = big
    Key = {k1, k2}
    Image = {v1}
    Size <- MCSize
    PageBytes = 8
    NoRow = NoRow
    Absent = Absent
    Duplicated = Duplicated
    Loaded <- Empty
    MaxStatements = 4
    MaxRestarts = 2
    Care = {"deleted"}
    Tears = "none"
INVARIANTS
    IdleShowsCommitted
CHECK_DEADLOCK FALSE
