---------------------------------- MODULE Query ----------------------------------
(***************************************************************************)
(* MiniDB's query layer, from the tokens of a WHERE clause to the rows of  *)
(* a statement: the expression parser (query/parser.cpp), the choice of    *)
(* the access path (query/optimizer.cpp) and the operators that run the    *)
(* statement (query/executor.cpp).  The tokens AND and OR are written "&&" *)
(* and "||", as LAB-7 has them.  An expression is a tree,                  *)
(* <<operator, <<"row", column>>, <<literal>>>> or                         *)
(* <<connective, left, right>>.                                            *)
(***************************************************************************)
EXTENDS Integers, SequencesExt

CONSTANTS
    Reference, \* name in a clause -> [table |-> qualifier or "", col |-> column]
    Literal,   \* literal in a clause -> [type, v], a Value
    MaxDepth   \* how deep parentheses may nest, 500 in the code

ASSUME DepthAssumption == MaxDepth \in Nat \ {0}

Comparison == {"=", "!=", "<", "<=", ">", ">="}

-------------------------------------------------------------------------------
(* Parser.  A parse function returns the tree it has read and the position  *)
(* after it; position 0 stands for an exception.                            *)

Threw == [expr |-> <<>>, next |-> 0]

At(clause, i) == IF i \in DOMAIN clause THEN clause[i] ELSE "END"

RECURSIVE parseCmp(_, _, _), Chained(_, _, _, _)

parseAnd(clause, i, depth) == Chained(clause, parseCmp(clause, i, depth), "&&", depth)

parseExpr(clause, i, depth) == Chained(clause, parseAnd(clause, i, depth), "||", depth)

\* The loops of parseExpr and parseAnd: while the connective follows, what has
\* been read becomes the left operand.
Chained(clause, left, connective, depth) ==
    LET right == IF connective = "||" THEN parseAnd(clause, left.next + 1, depth)
                                      ELSE parseCmp(clause, left.next + 1, depth)
    IN  IF left = Threw \/ At(clause, left.next) # connective THEN left
        ELSE IF right = Threw THEN Threw
        ELSE Chained(clause, [expr |-> <<connective, left.expr, right.expr>>,
                              next |-> right.next], connective, depth)

\* depth counts the calls that have not returned.
parseCmp(clause, i, depth) ==
    LET inner == parseExpr(clause, i + 1, depth + 1)
    IN  CASE depth = MaxDepth -> Threw
          [] depth < MaxDepth /\ At(clause, i) = "(" ->
               IF inner # Threw /\ At(clause, inner.next) = ")"
               THEN [inner EXCEPT !.next = @ + 1] ELSE Threw
          [] depth < MaxDepth /\ At(clause, i) # "(" ->
               IF /\ At(clause, i) \in DOMAIN Reference
                  /\ At(clause, i + 1) \in Comparison
                  /\ At(clause, i + 2) \in DOMAIN Literal
               THEN [expr |-> <<clause[i + 1], <<"row", clause[i]>>, <<clause[i + 2]>>>>,
                     next |-> i + 3]
               ELSE Threw

\* parse accepts nothing after the statement.
Parsed(clause) ==
    LET read == parseExpr(clause, 1, 0)
    IN  IF read.next = Len(clause) + 1 THEN read ELSE Threw

-------------------------------------------------------------------------------
(* Tables: a name, the names of the columns, rows in the order of the heap. *)
(* Column 1 is the primary key.                                             *)

qualifiedCols(table) == [i \in DOMAIN table.cols |-> [table |-> table.name, col |-> table.cols[i]]]

\* The position a name resolves to, 0 if it is unknown or ambiguous.
resolveCol(columns, name) ==
    LET ref   == Reference[name]
        found == {i \in DOMAIN columns : /\ columns[i].col = ref.col
                                         /\ ref.table \in {"", columns[i].table}}
    IN  IF Cardinality(found) = 1 THEN CHOOSE i \in found : TRUE ELSE 0

\* The outcome of a comparison or a clause is "yes", "no" or "threw".
Outcome(holds) == IF holds THEN "yes" ELSE "no"

compare(x, op, y) ==
    IF x.type # y.type THEN "threw"
    ELSE Outcome(CASE op = "="  -> x.v = y.v
                   [] op = "!=" -> x.v # y.v
                   [] op = "<"  -> x.v < y.v
                   [] op = "<=" -> x.v <= y.v
                   [] op = ">"  -> x.v > y.v
                   [] op = ">=" -> x.v >= y.v)

RECURSIVE evalExpr(_, _, _)
evalExpr(e, columns, row) ==
    LET left  == evalExpr(e[2], columns, row)
        right == evalExpr(e[3], columns, row)
        idx   == resolveCol(columns, e[2][2])
    IN  CASE e[1] = "&&" -> IF left = "yes" THEN right ELSE left
          [] e[1] = "||" -> IF left = "no" THEN right ELSE left
          [] e[1] \in Comparison ->
               IF idx = 0 THEN "threw" ELSE compare(row[idx], e[1], Literal[e[3][1]])

-------------------------------------------------------------------------------
(* Optimizer.                                                               *)

\* Definitions named Bug... are wrong on purpose, for the mutation runs.
\* The search goes into the operands of OR as well.
RECURSIVE BugFindPkEquality(_, _)
BugFindPkEquality(e, pk) ==
    LET left == BugFindPkEquality(e[2], pk)
    IN  IF e[1] \in {"&&", "||"} THEN IF left # {} THEN left ELSE BugFindPkEquality(e[3], pk)
        ELSE IF /\ e[1] = "="
                /\ Literal[e[3][1]].type = "INT"
                /\ Reference[e[2][2]].col = pk
             THEN {Literal[e[3][1]]} ELSE {}

\* The key of the first "primary key = number" that the clause implies, as a set
\* of at most one.  A qualifier in front of the column is not looked at.
RECURSIVE findPkEquality(_, _)
findPkEquality(e, pk) ==
    LET left == findPkEquality(e[2], pk)
    IN  CASE e[1] = "||" -> {}
          [] e[1] = "&&" -> IF left # {} THEN left ELSE findPkEquality(e[3], pk)
          [] e[1] \in Comparison ->
               IF /\ e[1] = "="
                  /\ Literal[e[3][1]].type = "INT"
                  /\ Reference[e[2][2]].col = pk
               THEN {Literal[e[3][1]]} ELSE {}

\* 1 + log2(n + 1) < n, the costs of the two scans of n rows.
IndexIsCheaper(n) == n > 0 /\ n + 1 < 2 ^ (n - 1)

\* Whether chooseScan takes the index.
use_index(table, where) ==
    findPkEquality(where, table.cols[1]) # {} /\ IndexIsCheaper(Len(table.rows))

rightIsInner(left, right) == Len(right.rows) <= Len(left.rows)

-------------------------------------------------------------------------------
(* Executor.  The result of an operator is [threw, rows].                   *)

Failure == [threw |-> TRUE, rows |-> <<>>]

SeqScan(table) == table.rows

\* The index holds the key of every row (external to this module).
IndexScan(table, key) == SelectSeq(table.rows, LAMBDA row : row[1] = key)

buildScan(table, where) ==
    IF use_index(table, where)
    THEN IndexScan(table, CHOOSE key \in findPkEquality(where, table.cols[1]) : TRUE)
    ELSE SeqScan(table)

Filter(rows, columns, where) ==
    IF \E i \in DOMAIN rows : evalExpr(where, columns, rows[i]) = "threw" THEN Failure
    ELSE [threw |-> FALSE,
          rows  |-> SelectSeq(rows, LAMBDA row : evalExpr(where, columns, row) = "yes")]

Project(result, columns, names) ==
    IF result.threw \/ \E i \in DOMAIN names : resolveCol(columns, names[i]) = 0 THEN Failure
    ELSE [threw |-> FALSE,
          rows  |-> [r \in DOMAIN result.rows |->
                       [i \in DOMAIN names |-> result.rows[r][resolveCol(columns, names[i])]]]]

\* Every outer row with every inner row, kept if the two columns are equal.
NestedLoopJoin(outer, inner, c1, c2) ==
    LET columns == qualifiedCols(outer) \o qualifiedCols(inner)
        p1      == resolveCol(columns, c1)
        p2      == resolveCol(columns, c2)
        pairs   == FlattenSeq([o \in DOMAIN outer.rows |->
                       [i \in DOMAIN inner.rows |-> outer.rows[o] \o inner.rows[i]]])
        equal(row) == compare(row[p1], "=", row[p2])
    IN  IF p1 = 0 \/ p2 = 0 \/ \E i \in DOMAIN pairs : equal(pairs[i]) = "threw" THEN Failure
        ELSE [threw |-> FALSE, rows |-> SelectSeq(pairs, LAMBDA row : equal(row) = "yes")]

\* SELECT * FROM table WHERE where.
runSelect(table, where) == Filter(buildScan(table, where), qualifiedCols(table), where)

\* SELECT names FROM outer JOIN inner ON c1 = c2 WHERE where.
JoinOf(outer, inner, c1, c2, where, names) ==
    LET columns == qualifiedCols(outer) \o qualifiedCols(inner)
        joined  == NestedLoopJoin(outer, inner, c1, c2)
    IN  Project(IF joined.threw THEN Failure ELSE Filter(joined.rows, columns, where),
                columns, names)

runJoin(left, right, c1, c2, where, names) ==
    IF rightIsInner(left, right) THEN JoinOf(left, right, c1, c2, where, names)
                                 ELSE JoinOf(right, left, c1, c2, where, names)

\* The keys are gathered before the first row is deleted.
runDelete(table, where) ==
    LET doomed == runSelect(table, where)
    IN  IF doomed.threw THEN table
        ELSE [table EXCEPT !.rows = SelectSeq(@, LAMBDA row : row[1] \notin
                                        {doomed.rows[i][1] : i \in DOMAIN doomed.rows})]
===============================================================================
