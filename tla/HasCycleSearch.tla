---------------------------- MODULE HasCycleSearch ----------------------------
(***************************************************************************)
(* TransactionManager::hasCycle, the depth-first search through the waits- *)
(* for graph for a path from start back to start, step by step, on every   *)
(* graph.  TransactionManager uses its result, the operator HasCycle; here *)
(* the search is shown to compute it.                                      *)
(***************************************************************************)
EXTENDS Integers, Sequences, FiniteSets, WaitsFor

CONSTANT Node  \* transactions: finitely many

VARIABLES
    graph,    \* waits_, which the caller's mutex keeps constant
    start,    \* the transaction that is about to wait
    stack,    \* nodes still to visit, the last one first
    visited,  \* nodes expanded already
    result    \* "searching", or what the function has returned

vars == <<graph, start, stack, visited, result>>

Elems(s) == {s[i] : i \in 1 .. Len(s)}

\* The members of S in some order: the code pushes them in the order of their
\* identifiers, which nothing depends on.
Listings(S) == {s \in [1 .. Cardinality(S) -> S] : Elems(s) = S}

Init ==
    /\ graph \in [Node -> SUBSET Node]
    /\ start \in Node
    /\ stack \in Listings(graph[start])
    /\ visited = {}
    /\ result = "searching"

Top  == stack[Len(stack)]
Rest == SubSeq(stack, 1, Len(stack) - 1)

Searching == result = "searching" /\ stack # <<>>

Found ==
    /\ Searching
    /\ Top = start
    /\ stack'  = Rest
    /\ result' = "cycle"
    /\ UNCHANGED <<graph, start, visited>>

\* Wrong on purpose, for the mutation runs: a visited node is not popped.
BugSkipWithoutPop ==
    /\ Searching
    /\ Top # start
    /\ Top \in visited
    /\ UNCHANGED vars

Skip ==
    /\ Searching
    /\ Top # start
    /\ Top \in visited
    /\ stack' = Rest
    /\ UNCHANGED <<graph, start, visited, result>>

\* Wrong on purpose: the nodes below the top of the stack are lost.
BugExpandDropsRest ==
    /\ Searching
    /\ Top # start
    /\ Top \notin visited
    /\ visited' = visited \cup {Top}
    /\ stack' \in Listings(graph[Top])
    /\ UNCHANGED <<graph, start, result>>

Expand ==
    /\ Searching
    /\ Top # start
    /\ Top \notin visited
    /\ visited' = visited \cup {Top}
    /\ \E successors \in Listings(graph[Top]) : stack' = Rest \o successors
    /\ UNCHANGED <<graph, start, result>>

Exhausted ==
    /\ result = "searching"
    /\ stack = <<>>
    /\ result' = "none"
    /\ UNCHANGED <<graph, start, stack, visited>>

Next == Found \/ Skip \/ Expand \/ Exhausted

Spec == Init /\ [][Next]_vars

\* The function runs to its end: nothing in it waits.
FairSpec == Spec /\ WF_vars(Next)

-------------------------------------------------------------------------------
\* The variables of hasCycle have their types.
TypeOK ==
    /\ graph \in [Node -> SUBSET Node]
    /\ start \in Node
    /\ stack \in Seq(Node)
    /\ visited \in SUBSET Node
    /\ result \in {"searching", "cycle", "none"}

\* hasCycle reports a cycle exactly when start waits for itself, directly or
\* through others: acquire() aborts a transaction on a true answer and puts
\* it to sleep on a false one, so either error would show.
SearchIsCorrect ==
    result # "searching" => (result = "cycle" <=> HasCycle(graph, start))

\* The search ends on every graph, cycles that avoid start included.
SearchEnds == <>(result # "searching")
===============================================================================
