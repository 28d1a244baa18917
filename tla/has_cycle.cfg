\* Every waits-for graph of three transactions, from every start.
SPECIFICATION FairSpec
CONSTANTS
    Node = {1, 2, 3}
INVARIANTS
    SearchIsCorrect
PROPERTIES
    SearchEnds
CHECK_DEADLOCK FALSE
