------------------------------ MODULE ShuntingYard ------------------------------
(***************************************************************************)
(* LAB-7's to_rpn and eval_rpn (LAB-7/sql_query_processor.cpp): tokens in  *)
(* infix order go to an output in postfix order, by way of a stack of      *)
(* operators.  One action reads one token.                                 *)
(***************************************************************************)
EXTENDS Integers, SequencesExt

CONSTANTS       \* operands:
    Variable,   \* names that the row has a value for
    Number,     \* words that std::stod reads as a number, whole or in part
    Unknown     \* words that are neither

Parenthesis == {"(", ")"}

\* The table OPS: operators by precedence, the loosest first.
Level == <<{"||"}, {"&&"}, {"=", "!="}, {"<", ">", "<=", ">="}, {"+", "-"}, {"*", "/"}, {"^"}>>

OPS == UNION {Level[p] : p \in 1 .. 7}

Operand == Variable \cup Number \cup Unknown

Token == Operand \cup OPS \cup Parenthesis

ASSUME OperandsAreNoOperators == Operand \cap (OPS \cup Parenthesis) = {}
ASSUME UnknownWords == Unknown \cap (Variable \cup Number) = {}

Precedence  == [o \in OPS |-> CHOOSE p \in 1 .. 7 : o \in Level[p]]
right_assoc == [o \in OPS |-> o = "^"]

VARIABLES
    output,  \* postfix so far
    ops,     \* operators and open parentheses, the top last
    threw    \* to_rpn has thrown "Mismatched parentheses"

yard == <<output, ops, threw>>

YardInit == output = <<>> /\ ops = <<>> /\ threw = FALSE

\* Definitions named Bug... are wrong on purpose, for the mutation runs.
\* Every operator is taken for a left-associative one.
BugYields(top, tok) == top \in OPS /\ Precedence[top] >= Precedence[tok]

\* Whether top leaves the stack for the output before tok gets there.
Yields(top, tok) ==
    /\ top \in OPS
    /\ \/ Precedence[top] > Precedence[tok]
       \/ Precedence[top] = Precedence[tok] /\ ~right_assoc[tok]

ReadOperand(tok) ==
    /\ tok \notin OPS \cup Parenthesis
    /\ output' = Append(output, tok)
    /\ UNCHANGED <<ops, threw>>

ReadOpen == ops' = Append(ops, "(") /\ UNCHANGED <<output, threw>>

\* One operator at most is moved: an if for the while.
BugReadOperator(tok) ==
    \E kept \in 0 .. Len(ops) :
        /\ tok \in OPS
        /\ kept >= Len(ops) - 1
        /\ (kept < Len(ops)) <=> (ops # <<>> /\ Yields(Last(ops), tok))
        /\ output' = output \o Reverse(SubSeq(ops, kept + 1, Len(ops)))
        /\ ops' = Append(SubSeq(ops, 1, kept), tok)
        /\ UNCHANGED threw

\* What is above the first kept entries yields, the entry they end in does not.
ReadOperator(tok) ==
    \E kept \in 0 .. Len(ops) :
        /\ tok \in OPS
        /\ \A i \in kept + 1 .. Len(ops) : Yields(ops[i], tok)
        /\ kept # 0 => ~Yields(ops[kept], tok)
        /\ output' = output \o Reverse(SubSeq(ops, kept + 1, Len(ops)))
        /\ ops' = Append(SubSeq(ops, 1, kept), tok)
        /\ UNCHANGED threw

\* Everything above the last open parenthesis goes to the output.
ReadClose ==
    \E open \in 1 .. Len(ops) :
        /\ ops[open] = "("
        /\ \A i \in open + 1 .. Len(ops) : ops[i] # "("
        /\ output' = output \o Reverse(SubSeq(ops, open + 1, Len(ops)))
        /\ ops' = SubSeq(ops, 1, open - 1)
        /\ UNCHANGED threw

Mismatch ==
    /\ \A i \in DOMAIN ops : ops[i] # "("
    /\ threw' = TRUE
    /\ UNCHANGED <<output, ops>>

Read(tok) ==
    /\ ~threw
    /\ \/ ReadOperand(tok)
       \/ ReadOperator(tok)
       \/ tok = "(" /\ ReadOpen
       \/ tok = ")" /\ (ReadClose \/ Mismatch)

-------------------------------------------------------------------------------
\* What to_rpn returns if the clause ends here; it throws on a parenthesis that
\* is still open.
Unmatched == threw \/ "(" \in ToSet(ops)

to_rpn == output \o Reverse(ops)

\* What a word stands for: a number, wherever std::stod reads one, and only else
\* the value of the row's column.
ValueOf(tok) == IF tok \in Number THEN <<tok>> ELSE <<"row", tok>>

\* One round of eval_rpn.  What is computed is kept as a tree, <<number>>,
\* <<"row", column>> or <<operator, left, right>>: no arithmetic plays a part.
\* fate is "undefined" once a value is taken from an empty stack, "threw" on an
\* unknown variable.
Evaluated(machine, tok) ==
    LET stk   == machine.stk
        depth == Len(stk)
    IN  CASE machine.fate # "ok" -> machine
          [] machine.fate = "ok" /\ tok \in OPS /\ depth < 2 ->
               [machine EXCEPT !.fate = "undefined"]
          [] machine.fate = "ok" /\ tok \in OPS /\ depth >= 2 ->
               [machine EXCEPT !.stk = Append(SubSeq(stk, 1, depth - 2),
                                              <<tok, stk[depth - 1], stk[depth]>>)]
          [] machine.fate = "ok" /\ tok \notin OPS ->
               IF tok \in Number \cup Variable
               THEN [machine EXCEPT !.stk = Append(stk, ValueOf(tok))]
               ELSE [machine EXCEPT !.fate = "threw"]

\* <<fate, value>>, the value being that on the top of the stack.
eval_rpn(rpn) ==
    LET end == FoldLeft(Evaluated, [stk |-> <<>>, fate |-> "ok"], rpn)
    IN  CASE end.fate # "ok" -> <<end.fate>>
          [] end.fate = "ok" /\ end.stk = <<>> -> <<"undefined">>
          [] end.fate = "ok" /\ end.stk # <<>> -> <<"ok", Last(end.stk)>>

YardTypeOK ==
    /\ output \in Seq(Token)
    /\ ops \in Seq(OPS \cup {"("})
    /\ threw \in BOOLEAN

\* Operators on the stack bind tighter upwards, between two parentheses: what is
\* popped first may be applied first.
YardOrdered ==
    \A i \in 1 .. Len(ops) - 1 :
        ops[i] \in OPS /\ ops[i + 1] \in OPS =>
            \/ Precedence[ops[i]] < Precedence[ops[i + 1]]
            \/ Precedence[ops[i]] = Precedence[ops[i + 1]] /\ right_assoc[ops[i + 1]]
===============================================================================
