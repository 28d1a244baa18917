------------------------------- MODULE BPlusTree -------------------------------
(***************************************************************************)
(* The B+ tree of MiniDB (src/index/bplus_tree.cpp), which maps primary    *)
(* keys to rows.  Rows are in the leaves, and the leaves are chained.      *)
(*                                                                         *)
(* Pointers are names: a node is named by its height and by the separator  *)
(* on its left at the time it was made, or 0 if there was none.  Every     *)
(* call is one action.  Positions count from 1.                            *)
(***************************************************************************)
EXTENDS Integers, FiniteSets, SequencesExt

CONSTANTS
    ORDER,  \* children of an inner node, at most
    Key,    \* a set of positive numbers
    Rows    \* key -> the rows it may be inserted with

ASSUME OrderAssumption == ORDER \in Nat /\ ORDER >= 3
ASSUME KeyAssumption == Key \subseteq Nat \ {0}

NoNode == <<>>

VARIABLES
    nodes,  \* name -> node
    root,   \* a name, or NoNode
    count   \* keys in the tree

vars == <<nodes, root, count>>

Init == nodes = <<>> /\ root = NoNode /\ count = 0

Leaf(keys, vals, next) ==
    [leaf |-> TRUE, keys |-> keys, vals |-> vals, children |-> <<>>, next |-> next]

Inner(keys, children) ==
    [leaf |-> FALSE, keys |-> keys, vals |-> <<>>, children |-> children, next |-> NoNode]

\* Definitions named Bug... are wrong on purpose, for the mutation runs.
\* A key equal to a separator is sought on its left.
BugRoute(n, key) == Cardinality({i \in DOMAIN n.keys : key > n.keys[i]}) + 1

\* The position of the child whose subtree could hold key (keys are sorted).
Route(n, key) == Cardinality({i \in DOMAIN n.keys : key >= n.keys[i]}) + 1

findLeaf(key) ==
    LET down[id \in DOMAIN nodes] ==
            IF nodes[id].leaf THEN id
            ELSE down[nodes[id].children[Route(nodes[id], key)]]
    IN down[root]

lower_bound(keys, key) == Cardinality({i \in DOMAIN keys : keys[i] < key}) + 1

Holds(n, key) == \E i \in DOMAIN n.keys : n.keys[i] = key

Found(key) == root # NoNode /\ Holds(nodes[findLeaf(key)], key)

search(key) ==
    LET n == nodes[findLeaf(key)] IN n.vals[lower_bound(n.keys, key)]

-------------------------------------------------------------------------------
(* Insertion.  What insertInto leaves and reports to the level above.       *)

Whole(ns) == [nodes |-> ns, split |-> FALSE, up_key |-> 0, new_right |-> NoNode]

Split(ns, key, right) ==
    [nodes |-> ns, split |-> TRUE, up_key |-> key, new_right |-> right]

\* One more node, or another in its place.
With(ns, id, n) == [x \in DOMAIN ns \cup {id} |-> IF x = id THEN n ELSE ns[x]]

Lower(s, n) == SubSeq(s, 1, n)
Upper(s, n) == SubSeq(s, n + 1, Len(s))

\* The leaf on the left keeps its old successor.
BugSplitLeaf(id, keys, vals) ==
    LET mid   == Len(keys) \div 2
        right == <<0, keys[mid + 1]>>
        next  == nodes[id].next
    IN Split(With([nodes EXCEPT ![id] = Leaf(Lower(keys, mid), Lower(vals, mid), next)],
                  right, Leaf(Upper(keys, mid), Upper(vals, mid), next)),
             keys[mid + 1], right)

\* The separator is copied up.
SplitLeaf(id, keys, vals) ==
    LET mid   == Len(keys) \div 2
        right == <<0, keys[mid + 1]>>
    IN Split(With([nodes EXCEPT ![id] = Leaf(Lower(keys, mid), Lower(vals, mid), right)],
                  right, Leaf(Upper(keys, mid), Upper(vals, mid), nodes[id].next)),
             keys[mid + 1], right)

InsertIntoLeaf(id, key, rid) ==
    LET n    == nodes[id]
        pos  == lower_bound(n.keys, key)
        keys == InsertAt(n.keys, pos, key)
        vals == InsertAt(n.vals, pos, rid)
    IN CASE Holds(n, key)     -> Whole([nodes EXCEPT ![id].vals[pos] = rid])
         [] ~Holds(n, key) /\ Len(keys) < ORDER
                              -> Whole([nodes EXCEPT ![id].keys = keys, ![id].vals = vals])
         [] OTHER             -> SplitLeaf(id, keys, vals)

\* The middle separator is copied up, as from a leaf, and stays on the right.
BugSplitInner(ns, id, keys, children) ==
    LET mid   == Len(keys) \div 2
        right == <<id[1], keys[mid + 1]>>
    IN Split(With([ns EXCEPT ![id] = Inner(Lower(keys, mid), Lower(children, mid + 1))],
                  right, Inner(Upper(keys, mid), Upper(children, mid + 1))),
             keys[mid + 1], right)

\* The middle separator is moved up.
SplitInner(ns, id, keys, children) ==
    LET mid   == Len(keys) \div 2
        right == <<id[1], keys[mid + 1]>>
    IN Split(With([ns EXCEPT ![id] = Inner(Lower(keys, mid), Lower(children, mid + 1))],
                  right, Inner(Upper(keys, mid + 1), Upper(children, mid + 1))),
             keys[mid + 1], right)

\* A child of node id, sought for key, was split: below says how.
TakeChild(id, key, below) ==
    LET n        == nodes[id]
        i        == Route(n, key)
        keys     == InsertAt(n.keys, i, below.up_key)
        children == InsertAt(n.children, i + 1, below.new_right)
    IN IF Len(children) <= ORDER
       THEN Whole([below.nodes EXCEPT ![id] = Inner(keys, children)])
       ELSE SplitInner(below.nodes, id, keys, children)

insertInto(key, rid) ==
    LET into[id \in DOMAIN nodes] ==
            LET n     == nodes[id]
                below == into[n.children[Route(n, key)]]
            IN CASE n.leaf                  -> InsertIntoLeaf(id, key, rid)
                 [] ~n.leaf /\ below.split  -> TakeChild(id, key, below)
                 [] OTHER                   -> below
    IN into[root]

FirstInsert(key, rid) ==
    /\ root = NoNode
    /\ root' = <<0, 0>>
    /\ nodes' = With(<<>>, root', Leaf(<<key>>, <<rid>>, NoNode))
    /\ count' = 1

\* A root that was split gets a parent.
insert(key, rid) ==
    /\ root # NoNode
    /\ LET top == insertInto(key, rid)
       IN /\ root' = IF top.split THEN <<root[1] + 1, 0>> ELSE root
          /\ nodes' = IF top.split
                      THEN With(top.nodes, root', Inner(<<top.up_key>>, <<root, top.new_right>>))
                      ELSE top.nodes
    /\ count' = IF Found(key) THEN count ELSE count + 1

\* Leaves are never merged; a key that is not there changes nothing.
erase(key) ==
    /\ Found(key)
    /\ LET id  == findLeaf(key)
           pos == lower_bound(nodes[id].keys, key)
       IN nodes' = [nodes EXCEPT ![id].keys = RemoveAt(@, pos),
                                 ![id].vals = RemoveAt(@, pos)]
    /\ count' = count - 1
    /\ UNCHANGED root

\* Along the chain from lo's leaf, up to the first key above hi.
rangeScan(lo, hi) ==
    LET leaves == {id \in DOMAIN nodes : nodes[id].leaf}
        walk[at \in (leaves \cup {NoNode}) \X (1 .. ORDER)] ==
            LET leaf == nodes[at[1]]
                i    == at[2]
                rest == walk[<<at[1], i + 1>>]
            IN  IF at[1] = NoNode THEN <<>>
                ELSE IF i > Len(leaf.keys) THEN walk[<<leaf.next, 1>>]
                ELSE IF leaf.keys[i] < lo THEN rest
                ELSE IF leaf.keys[i] > hi THEN <<>>
                ELSE <<<<leaf.keys[i], leaf.vals[i]>>>> \o rest
    IN IF root = NoNode THEN <<>> ELSE walk[<<findLeaf(lo), 1>>]

Next == \E key \in Key :
            \/ erase(key)
            \/ \E rid \in Rows[key] : FirstInsert(key, rid) \/ insert(key, rid)

Spec == Init /\ [][Next]_vars
===============================================================================
