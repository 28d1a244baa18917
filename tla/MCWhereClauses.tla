----------------------------- MODULE MCWhereClauses -----------------------------
(***************************************************************************)
(* Model-checking instance of WhereClauses: the names and literals that    *)
(* clauses are made of.                                                    *)
(***************************************************************************)
EXTENDS WhereClauses

\* "id" is the key of both tables: ambiguous in a join.  "r.id" is unknown where
\* t is scanned alone, though its last part is the name of t's key.
MCReference ==
    [name \in {"id", "a", "r.id", "t.id", "c"} |->
        CASE name = "r.id" -> [table |-> "r", col |-> "id"]
          [] name = "t.id" -> [table |-> "t", col |-> "id"]
          [] name \in {"id", "a", "c"} -> [table |-> "", col |-> name]]

\* 'x' is a text: comparing it with a number throws.
MCLiteral ==
    [literal \in {"1", "2", "'x'"} |->
        CASE literal = "1"   -> [type |-> "INT", v |-> 1]
          [] literal = "2"   -> [type |-> "INT", v |-> 2]
          [] literal = "'x'" -> [type |-> "TEXT", v |-> 1]]

MCWord == {"(", ")", "||", "&&", "=", "<", "-", "^", "id", "r.id", "a", "2", "'x'"}

MCForm == {<<"id", "=", "2">>, <<"id", "=", "'x'">>, <<"r.id", "=", "2">>, <<"a", "<", "2">>}
===============================================================================
