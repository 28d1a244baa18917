------------------------------ MODULE RedBlackTree ------------------------------
(***************************************************************************)
(* The red-black tree of LAB-5 (LAB-5/red_black_tree.cpp).  A key is held  *)
(* by one node at most, so a node is named by its key.  insert() is cut    *)
(* into the link of the new node and the rounds of the loop that repairs   *)
(* the tree.  The code has every rotation and every case of the repair     *)
(* twice, once for each side: here the side is a parameter.                *)
(***************************************************************************)
EXTENDS Integers, FiniteSets

CONSTANT Key

ASSUME RedBlackKeys == Key \subseteq Nat \ {0} /\ IsFiniteSet(Key)

Nil  == 0   \* nullptr
Side == {"left", "right"}

Other(s) == IF s = "left" THEN "right" ELSE "left"

VARIABLES
    tree,  \* root, and color, parent and children (kid) of every node
    node   \* the node fixAfterInsert has come to, Nil outside an insert

Nodes == {k \in Key : k = tree.root \/ tree.parent[k] # Nil}

Empty == [root   |-> Nil,
          color  |-> [k \in Key |-> "Black"],
          parent |-> [k \in Key |-> Nil],
          kid    |-> [k \in Key |-> [s \in Side |-> Nil]]]

RedBlackInit == tree = Empty /\ node = Nil

-------------------------------------------------------------------------------
\* The side on which key is sought from node n.
Toward(n, key) == IF key < n THEN "left" ELSE "right"

\* Where the search for key ends: at its node or at the last one before nullptr.
Reached(key) ==
    LET from[n \in Key] == LET next == tree.kid[n][Toward(n, key)]
                           IN  IF n = key \/ next = Nil THEN n ELSE from[next]
    IN  from[tree.root]

contains(key) == tree.root # Nil /\ Reached(key) = key

Linked(key) ==
    LET red == [tree EXCEPT !.color[key] = "Red"]
    IN  IF tree.root = Nil THEN [red EXCEPT !.root = key]
        ELSE [red EXCEPT !.parent[key] = Reached(key),
                         !.kid[Reached(key)][Toward(Reached(key), key)] = key]

\* A key that is there changes nothing.
insert(key) ==
    /\ node = Nil
    /\ IF contains(key) THEN UNCHANGED <<tree, node>>
                        ELSE tree' = Linked(key) /\ node' = key

-------------------------------------------------------------------------------
SideOf(t, n) == IF t.kid[t.parent[n]]["left"] = n THEN "left" ELSE "right"

\* Definitions named Bug... are wrong on purpose, for the mutation runs.
\* The subtree that changes sides keeps its old parent.
BugRotate(t, n, s) ==
    LET child == t.kid[n][Other(s)]
        hung  == IF t.parent[n] = Nil THEN [t EXCEPT !.root = child]
                 ELSE [t EXCEPT !.kid[t.parent[n]][SideOf(t, n)] = child]
    IN  [hung EXCEPT !.kid[n][Other(s)] = t.kid[child][s], !.kid[child][s] = n,
                     !.parent[child] = t.parent[n], !.parent[n] = child]

\* rotateLeft is Rotate(t, n, "left"): n goes down on its left, its right child
\* takes its place, and that child's left subtree becomes n's right one.
Rotate(t, n, s) ==
    LET child == t.kid[n][Other(s)]
        inner == t.kid[child][s]
        freed == IF inner = Nil THEN t ELSE [t EXCEPT !.parent[inner] = n]
        hung  == IF t.parent[n] = Nil THEN [freed EXCEPT !.root = child]
                 ELSE [freed EXCEPT !.kid[t.parent[n]][SideOf(t, n)] = child]
    IN  [hung EXCEPT !.kid[n][Other(s)] = inner, !.kid[child][s] = n,
                     !.parent[child] = t.parent[n], !.parent[n] = child]

ColorOf(t, n) == IF n = Nil THEN "Black" ELSE t.color[n]

\* The loop condition of fixAfterInsert.
RedPair == node # tree.root /\ ColorOf(tree, tree.parent[node]) = "Red"

Parent      == tree.parent[node]
Grandparent == tree.parent[Parent]
Uncle       == tree.kid[Grandparent][Other(SideOf(tree, Parent))]

\* The grandparent stays black: its children's paths gain a black node.
BugRecolored == [tree EXCEPT !.color[Parent] = "Black", !.color[Uncle] = "Black"]

Recolored == [tree EXCEPT !.color[Parent] = "Black", !.color[Uncle] = "Black",
                          !.color[Grandparent] = "Red"]

\* A red uncle: the pair moves up by two levels.
Recolor ==
    /\ node # Nil /\ RedPair
    /\ ColorOf(tree, Uncle) = "Red"
    /\ tree' = Recolored
    /\ node' = Grandparent

\* A node on the inner side is not first rotated to the outer side.
BugStraightened(s) == <<tree, node>>

Straightened(s) == IF node = tree.kid[Parent][Other(s)]
                   THEN <<Rotate(tree, Parent, s), Parent>> ELSE <<tree, node>>

\* A black uncle: one rotation or two.
Restructure ==
    /\ node # Nil /\ RedPair
    /\ ColorOf(tree, Uncle) = "Black"
    /\ LET s  == SideOf(tree, Parent)
           st == Straightened(s)[1]
           n  == Straightened(s)[2]
           p  == st.parent[n]
           g  == st.parent[p]
       IN  /\ tree' = Rotate([st EXCEPT !.color[p] = "Black", !.color[g] = "Red"],
                             g, Other(s))
           /\ node' = n

Repaired ==
    /\ node # Nil /\ ~RedPair
    /\ tree' = [tree EXCEPT !.color[tree.root] = "Black"]
    /\ node' = Nil

fixAfterInsert == Recolor \/ Restructure \/ Repaired

-------------------------------------------------------------------------------
\* The class's own check: the number of black nodes on the paths from n down,
\* or Broken if a key is out of its range, two red nodes meet or paths differ.
Broken == -1
Above  == CHOOSE h \in {k + 1 : k \in Key} : \A k \in Key : k < h

validate ==
    LET height[call \in (Key \cup {Nil}) \X (0 .. Above) \X (0 .. Above)] ==
            LET n    == call[1]
                low  == call[2]
                high == call[3]
                l    == height[<<tree.kid[n]["left"], low, n>>]
                r    == height[<<tree.kid[n]["right"], n, high>>]
            IN  CASE n = Nil -> 0
                  [] n # Nil /\ (n <= low \/ n >= high) -> Broken
                  [] n # Nil /\ low < n /\ n < high ->
                       IF \/ l # r \/ l = Broken
                          \/ /\ tree.color[n] = "Red"
                             /\ "Red" \in {ColorOf(tree, tree.kid[n][s]) : s \in Side}
                       THEN Broken
                       ELSE l + (IF tree.color[n] = "Black" THEN 1 ELSE 0)
    IN  height[<<tree.root, 0, Above>>]

isValid == tree.root = Nil \/ (tree.color[tree.root] = "Black" /\ validate # Broken)

-------------------------------------------------------------------------------
\* Black nodes from the root down to n.
Blacks ==
    LET down[n \in Key] ==
            (IF tree.color[n] = "Black" THEN 1 ELSE 0)
            + (IF tree.parent[n] = Nil THEN 0 ELSE down[tree.parent[n]])
    IN  [n \in Nodes |-> down[n]]

\* The rules of LAB-5's README, in the middle of a repair too: links lead both
\* ways, all paths to a null leaf have the same number of black nodes, and a
\* red node has a red parent only where the repair has come to.  Between inserts
\* none has, the root is black, and the program's isValid agrees.
RedBlackRules ==
    /\ \A n \in Nodes, s \in Side :
           tree.kid[n][s] # Nil => tree.parent[tree.kid[n][s]] = n
    /\ \A m, n \in {k \in Nodes : Nil \in {tree.kid[k][s] : s \in Side}} :
           Blacks[m] = Blacks[n]
    /\ \A n \in Nodes \ {node} :
           tree.color[n] = "Red" => ColorOf(tree, tree.parent[n]) = "Black"
    /\ node = Nil => isValid
===============================================================================
