SPECIFICATION Spec
CONSTANTS
    ORDER = 3
    Key = {1, 2, 3, 4, 5, 6, 7}
    Rows <- MCRows
    r1 = r1
    r2 = r2
    TwoRows = {3}
INVARIANTS
    TypeOK
    ScansAgreeWithSearch
PROPERTIES
    ImplementsMap
