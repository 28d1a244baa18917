------------------------------- MODULE WaitsFor -------------------------------
(***************************************************************************)
(* Waits-for graphs.  A graph is a function from each node to the set of   *)
(* its successors.  Everything is stated with sets closed under the graph  *)
(* rather than with paths, so that no definition is recursive and each is  *)
(* usable in proofs as well as by TLC.                                     *)
(***************************************************************************)

\* S contains every successor of its members.
ClosedUnder(g, S) == \A n \in S : g[n] \subseteq S

\* Wrong on purpose, for the mutation runs: only the first step is looked at.
BugOneStepCycle(g, start) == start \in g[start]

\* start is reachable from start in one step or more: it belongs to every
\* closed set that contains its successors.  What a depth-first search from
\* start for a path back to start decides.
HasCycle(g, start) ==
    \A S \in SUBSET DOMAIN g :
        g[start] \subseteq S /\ ClosedUnder(g, S) => start \in S

\* A non-empty set in which every member waits for a member: in a finite
\* graph there is one exactly when there is a cycle.
CyclicCore(g, S) == S # {} /\ \A n \in S : g[n] \cap S # {}

Acyclic(g) == \A S \in SUBSET DOMAIN g : ~CyclicCore(g, S)
===============================================================================
