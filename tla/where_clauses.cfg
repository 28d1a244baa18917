\* Any five tokens, arithmetic of four operands, clauses of three comparisons.
SPECIFICATION Spec
CONSTANTS
    Variable = {"id", "a"}
    Number = {"2"}
    Unknown = {"r.id", "'x'"}
    Reference <- MCReference
    Literal <- MCLiteral
    Word <- MCWord
    Form <- MCForm
    MaxDepth = 2
    MaxFree = 5
    MaxClause = 16
    MaxOperand = 4
    MaxCompare = 3
    MaxParen = 2
INVARIANTS
    YardOrdered
    ParsersAgree
    PlansAgree
CHECK_DEADLOCK FALSE
