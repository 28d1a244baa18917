---------------------------------- MODULE BTree ----------------------------------
(***************************************************************************)
(* The B-tree of LAB-6 (LAB-6/btree_index.cpp), an index from keys to      *)
(* rows.  Every node has one owner, so the tree is a value: a node holds   *)
(* its children.  Insert, with all its splits on the way down, is one      *)
(* action.  Positions count from 1.                                        *)
(***************************************************************************)
EXTENDS Integers, SequencesExt

CONSTANT t  \* the minimum degree

ASSUME DegreeAssumption == t \in Nat /\ t >= 2

VARIABLE btree

maxEntries == 2 * t - 1

Node(entries, children) ==
    [leaf |-> children = <<>>, entries |-> entries, children |-> children]

BTreeInit == btree = Node(<<>>, <<>>)

isFull(n) == Len(n.entries) = maxEntries

\* Definitions named Bug... are wrong on purpose, for the mutation runs.
\* The median stays in the left half as well.
BugSplitChild(x, i) ==
    LET y == x.children[i]
        half(s, from, to) == IF y.leaf THEN <<>> ELSE SubSeq(s, from, to)
        low  == Node(SubSeq(y.entries, 1, t), half(y.children, 1, t))
        high == Node(SubSeq(y.entries, t + 1, maxEntries), half(y.children, t + 1, 2 * t))
    IN  Node(InsertAt(x.entries, i, y.entries[t]),
             InsertAt([x.children EXCEPT ![i] = low], i + 1, high))

\* The full child i of x becomes two nodes, with its median between them in x.
splitChild(x, i) ==
    LET y == x.children[i]
        half(s, from, to) == IF y.leaf THEN <<>> ELSE SubSeq(s, from, to)
        low  == Node(SubSeq(y.entries, 1, t - 1), half(y.children, 1, t))
        high == Node(SubSeq(y.entries, t + 1, maxEntries), half(y.children, t + 1, 2 * t))
    IN  Node(InsertAt(x.entries, i, y.entries[t]),
             InsertAt([x.children EXCEPT ![i] = low], i + 1, high))

\* After the last entry that is not above key.
Slot(entries, key) ==
    1 + Max({0} \cup {i \in DOMAIN entries : ~(key < entries[i].key)})

\* The half that is descended into is always the left one.
BugHalf(x, c, key) == c

Half(x, c, key) == IF key > x.entries[c].key THEN c + 1 ELSE c

\* A node on the way down, with the child for key split if it was full, and
\* which child is next.
Ready(x, key) ==
    LET slot == Slot(x.entries, key)
    IN  IF isFull(x.children[slot]) THEN splitChild(x, slot) ELSE x

Way(x, key) ==
    LET slot == Slot(x.entries, key)
    IN  IF isFull(x.children[slot]) THEN Half(Ready(x, key), slot, key) ELSE slot

\* Call d is for the node it finds d levels down, and leaves another one there.
insertNonFull(x, entry) ==
    LET find[d \in Nat] ==
            LET above == find[d - 1]
            IN  IF d = 0 THEN x
                ELSE IF above.leaf THEN above
                ELSE Ready(above, entry.key).children[Way(above, entry.key)]
        leave[d \in Nat] ==
            LET y    == find[d]
                slot == Slot(y.entries, entry.key)
            IN  IF y.leaf THEN Node(InsertAt(y.entries, slot, entry), <<>>)
                ELSE [Ready(y, entry.key) EXCEPT !.children[Way(y, entry.key)] = leave[d + 1]]
    IN  leave[0]

\* A full root gets a parent and is split.
Insert(key, row) ==
    LET root == IF isFull(btree) THEN splitChild(Node(<<>>, <<btree>>), 1) ELSE btree
    IN  btree' = insertNonFull(root, [key |-> key, row |-> row])

-------------------------------------------------------------------------------
\* The first entry that is not below key.
Probe(x, key) == Min({Len(x.entries) + 1} \cup {i \in DOMAIN x.entries : ~(key > x.entries[i].key)})

\* The entry in the node itself, as a set of one or none.
Here(x, key) == {x.entries[i] : i \in {j \in {Probe(x, key)} \cap DOMAIN x.entries :
                                         x.entries[j].key = key}}

\* The set of the entry found, empty for nullptr.  Call d is for the node that
\* find[d] is.
searchNode(x, key) ==
    LET find[d \in Nat] ==
            LET above == find[d - 1]
            IN  IF d = 0 THEN x
                ELSE IF above.leaf THEN above ELSE above.children[Probe(above, key)]
        result[d \in Nat] ==
            IF Here(find[d], key) # {} \/ find[d].leaf THEN Here(find[d], key)
            ELSE result[d + 1]
    IN  result[0]

Search(key) == {e.row : e \in searchNode(btree, key)}

-------------------------------------------------------------------------------
\* The properties listed in LAB-6's README: every node holds at most 2t - 1
\* entries, and t - 1 or more but for the root, an inner node one child more than
\* entries, and all leaves are at one depth.
BTreeShape ==
    LET level[d \in Nat] ==
            IF d = 0 THEN {btree} ELSE UNION {ToSet(n.children) : n \in level[d - 1]}
        least(n, d) == IF d > 0 THEN t - 1 ELSE IF n.leaf THEN 0 ELSE 1
        shaped[d \in Nat] ==
            \/ level[d] = {}
            \/ /\ \A n \in level[d] :
                      /\ Len(n.entries) \in least(n, d) .. maxEntries
                      /\ ~n.leaf => Len(n.children) = Len(n.entries) + 1
               /\ \A m, n \in level[d] : m.leaf = n.leaf
               /\ shaped[d + 1]
    IN  shaped[0]
===============================================================================
