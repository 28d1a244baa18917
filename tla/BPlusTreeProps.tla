---------------------------- MODULE BPlusTreeProps ----------------------------
(***************************************************************************)
(* What the B+ tree is checked for.                                        *)
(***************************************************************************)
EXTENDS BPlusTree

\* Types and shape: no node is overfull (bplus_tree.hpp, "a node splits when it
\* overflows"), an inner node has one child more than keys, and all children
\* of a node have one height: the tree stays balanced.
TypeOK ==
    /\ root = NoNode => nodes = <<>>
    /\ root # NoNode => root \in DOMAIN nodes
    /\ \A id \in DOMAIN nodes :
        LET n == nodes[id] IN
        /\ ToSet(n.keys) \subseteq Key
        /\ IF n.leaf
           THEN /\ id[1] = 0
                /\ Len(n.keys) < ORDER
                /\ Len(n.vals) = Len(n.keys)
                /\ \A i \in DOMAIN n.keys : n.vals[i] \in Rows[n.keys[i]]
                /\ n.next \in DOMAIN nodes \cup {NoNode}
           ELSE /\ Len(n.children) \in 2 .. ORDER
                /\ Len(n.keys) = Len(n.children) - 1
                /\ \A c \in ToSet(n.children) : c \in DOMAIN nodes /\ c[1] = id[1] - 1

\* Whatever was split and erased before, a range scan along the chain shows the
\* rows that searches from the root find, in the order of the keys.
ScansAgreeWithSearch ==
    LET row == [k \in {j \in Key : Found(j)} |-> search(k)]
    IN  \A lo, hi \in Key :
            LET rows == rangeScan(lo, hi)
            IN  /\ ToSet(rows) = {<<k, row[k]>> : k \in {j \in DOMAIN row : lo <= j /\ j <= hi}}
                /\ \A i, j \in DOMAIN rows : i < j => rows[i][1] < rows[j][1]

\* The tree implements a map: a search finds the row inserted last under its
\* key unless it was erased since, and nothing else, and size() counts them.
Map == INSTANCE IndexMap WITH
    index <- [k \in {j \in Key : Found(j)} |-> search(k)],
    size  <- count
ImplementsMap == Map!Spec
===============================================================================
