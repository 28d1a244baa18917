------------------------------ MODULE WhereClauses ------------------------------
(***************************************************************************)
(* A client types a WHERE clause, token by token.  LAB-7's shunting-yard   *)
(* reads it as it comes; at every token MiniDB's parser is asked what it   *)
(* makes of the clause so far, and its statements are run with it.         *)
(***************************************************************************)
EXTENDS ShuntingYard, Query

CONSTANTS
    Word,       \* tokens that any clause is made of
    Form,       \* comparisons that MiniDB's clauses are made of
    MaxFree,    \* bound: tokens of a clause that follows no rule
    MaxClause,  \* bound: tokens of any clause
    MaxOperand, \* bound: operands of an expression of LAB-7
    MaxCompare, \* bound: comparisons of a clause of MiniDB
    MaxParen    \* bound: pairs of parentheses of either

VARIABLE clause

vars == <<clause, output, ops, threw>>

Init == clause = <<>> /\ YardInit

Count(s, set) == Cardinality({i \in DOMAIN s : s[i] \in set})

Connective == {"||", "&&"}

Before(s, i) == IF i = 1 THEN "start" ELSE s[i - 1]

\* An infix expression as far as it goes: operands and operators alternate.
Alternates(s) ==
    \A i \in DOMAIN s : (s[i] \in Operand \cup {"("}) <=> (Before(s, i) \in OPS \cup {"(", "start"})

Balance(s, i) == Count(SubSeq(s, 1, i), {"("}) - Count(SubSeq(s, 1, i), {")"})

\* Comparisons of a column with a literal, as MiniDB tells them apart, as far as
\* they go.
Compares(s) ==
    \A i \in DOMAIN s :
        /\ s[i] \in OPS => s[i] \in Comparison \cup Connective
        /\ (s[i] \in Comparison) <=> (Before(s, i) \in DOMAIN Reference)
        /\ (s[i] \in DOMAIN Literal) <=> (Before(s, i) \in Comparison)

\* Clauses that are typed beyond MaxFree tokens: arithmetic over one variable,
\* and MiniDB's clauses of the comparisons Form.
Shaped(s) ==
    /\ Alternates(s)
    /\ Count(s, {"("}) <= MaxParen
    /\ \A i \in DOMAIN s : Balance(s, i) >= 0
    /\ \/ Count(s, Operand) <= MaxOperand /\ \A i \in DOMAIN s : s[i] \in Operand => s[i] = "id"
       \/ /\ Compares(s)
          /\ Count(s, DOMAIN Reference) <= MaxCompare
          /\ \A i \in DOMAIN s : s[i] \in DOMAIN Reference =>
                 \E form \in Form : IsPrefix(SubSeq(s, i, Min({i + 2, Len(s)})), form)

Type(tok) ==
    /\ Len(clause) < MaxClause
    /\ Len(clause) >= MaxFree => Shaped(Append(clause, tok))
    /\ clause' = Append(clause, tok)
    /\ Read(tok)

Next == \E tok \in Word : Type(tok)

Spec == Init /\ [][Next]_vars

-------------------------------------------------------------------------------
(* What a clause means, by the definition of a grammar rather than by a     *)
(* parser: the operator outside all parentheses that binds loosest is       *)
(* applied last, the last of several, or the first if they are              *)
(* right-associative.                                                       *)

WellFormed(s) ==
    /\ s # <<>> /\ Alternates(s) /\ Last(s) \in Operand \cup {")"}
    /\ \A i \in DOMAIN s : Balance(s, i) >= 0
    /\ Balance(s, Len(s)) = 0

Leaf(word) == IF word \in DOMAIN Reference THEN <<"row", word>> ELSE <<word>>

RECURSIVE Meaning(_)
Meaning(s) ==
    LET outer   == {i \in DOMAIN s : s[i] \in OPS /\ Balance(s, i) = 0}
        loosest == {i \in outer : \A j \in outer : Precedence[s[i]] <= Precedence[s[j]]}
        split   == IF \E i \in loosest : right_assoc[s[i]] THEN Min(loosest) ELSE Max(loosest)
    IN  IF Len(s) = 1 THEN Leaf(s[1])
        ELSE IF outer = {} THEN Meaning(SubSeq(s, 2, Len(s) - 1))
        ELSE <<s[split], Meaning(SubSeq(s, 1, split - 1)), Meaning(SubSeq(s, split + 1, Len(s)))>>

\* The clauses of MiniDB's grammar (comment in query/ast.hpp).
InGrammar(s) ==
    /\ WellFormed(s)
    /\ Compares(s)
    /\ Last(s) \notin DOMAIN Reference
    /\ \A i \in DOMAIN s : Balance(s, i) < MaxDepth

\* The two parsers, stack and recursive descent, read a clause alike, and as it
\* is meant.  LAB-7's to_rpn throws exactly if a parenthesis has no partner; the
\* tree its eval_rpn evaluates is the meaning of every well-formed clause whose
\* words are numbers and columns of the row, and it throws on every other, a text
\* among the operands being enough.  MiniDB's parser accepts exactly its grammar,
\* to the depth it allows.
ParsersAgree ==
    /\ Unmatched <=> (threw \/ Balance(clause, Len(clause)) # 0)
    /\ threw <=> \E i \in DOMAIN clause : Balance(clause, i) < 0
    /\ WellFormed(clause) =>
           /\ ~Unmatched
           /\ eval_rpn(to_rpn) = IF Count(clause, Unknown) = 0
                                 THEN <<"ok", Meaning(clause)>> ELSE <<"threw">>
    /\ Parsed(clause) # Threw <=> InGrammar(clause)
    /\ InGrammar(clause) => Parsed(clause).expr = Meaning(clause)

-------------------------------------------------------------------------------
makeInt(n) == [type |-> "INT", v |-> n]

\* Tables of n rows.  The heap's order is not that of the keys.
t(n) == [name |-> "t", cols |-> <<"id", "a">>,
         rows |-> [i \in 1 .. n |-> <<makeInt(1 + ((i + 1) % n)), makeInt(1 + (i % 2))>>]]
r(n) == [name |-> "r", cols |-> <<"id", "c">>, rows |-> [i \in 1 .. n |-> <<makeInt(i), makeInt(i)>>]]

AsBag(rows) == [row \in ToSet(rows) |-> Cardinality({i \in DOMAIN rows : rows[i] = row})]

\* Whatever path the optimizer takes, a statement does what the clause says row
\* by row: SELECT returns what a scan of all rows returns, if that does not fail,
\* in the same order; DELETE takes away exactly those rows, or none if it fails;
\* and a join returns the same rows whichever table is the inner one.
PlansAgree ==
    InGrammar(clause) =>
        LET where == Parsed(clause).expr
        IN  /\ \A n \in 0 .. 5 :
                   LET all == Filter(t(n).rows, qualifiedCols(t(n)), where)
                   IN  /\ all.threw \/ runSelect(t(n), where) = all
                       /\ runSelect(t(n), where).threw => runDelete(t(n), where) = t(n)
                       /\ all.threw \/ runDelete(t(n), where).rows
                            = SelectSeq(t(n).rows, LAMBDA row : row \notin ToSet(all.rows))
            /\ \A m, n \in {2, 3} :
                   LET names == <<"r.id", "a", "t.id", "c">>
                       left  == JoinOf(t(m), r(n), "a", "r.id", where, names)
                       right == JoinOf(r(n), t(m), "a", "r.id", where, names)
                       done  == runJoin(t(m), r(n), "a", "r.id", where, names)
                   IN  /\ left.threw = right.threw /\ done.threw = left.threw
                       /\ AsBag(left.rows) = AsBag(right.rows)
                       /\ AsBag(done.rows) = AsBag(left.rows)

\* A statement fails or not whatever path is taken: not so, since the rows the
\* index leaves out are the ones on which the clause throws.
FailuresAgree ==
    InGrammar(clause) =>
        LET where == Parsed(clause).expr
        IN  \A n \in 0 .. 5 :
                runSelect(t(n), where).threw = Filter(t(n).rows, qualifiedCols(t(n)), where).threw
===============================================================================
