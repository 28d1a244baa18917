-------------------------------- MODULE LabTrees --------------------------------
(***************************************************************************)
(* The red-black tree of LAB-5 and the B-tree of LAB-6 given the same keys *)
(* in the same order, and what each of them, and both together, must show. *)
(***************************************************************************)
EXTENDS RedBlackTree, BTree, Functions

CONSTANTS
    Twice,     \* keys that may be inserted a second time
    MaxInserts \* bound: inserts

VARIABLE given  \* key -> how often it was inserted (auxiliary)

vars == <<tree, node, btree, given>>

Inserts == FoldFunction(+, 0, given)

Init == RedBlackInit /\ BTreeInit /\ given = [key \in Key |-> 0]

\* The rows a key is inserted with are numbered.  The red-black tree ignores a
\* key it holds; the B-tree enters it once more.
InsertBoth(key) ==
    /\ Inserts < MaxInserts
    /\ given[key] = 0 \/ (given[key] = 1 /\ key \in Twice)
    /\ given' = [given EXCEPT ![key] = @ + 1]
    /\ insert(key)
    /\ Insert(key, given'[key])

Repair == fixAfterInsert /\ UNCHANGED <<btree, given>>

Next == Repair \/ \E key \in Key : InsertBoth(key)

Spec == Init /\ [][Next]_vars

\* The repair is a loop of one thread.
FairSpec == Spec /\ WF_vars(Repair)

-------------------------------------------------------------------------------
\* LAB-6's scan.  It calls itself for all children, unlike the other functions of
\* the B-tree, which go down one path.
RECURSIVE inorder(_)
inorder(x) ==
    IF x.leaf THEN x.entries
    ELSE FlattenSeq([i \in DOMAIN x.children |->
                       inorder(x.children[i])
                       \o (IF i \in DOMAIN x.entries THEN <<x.entries[i]>> ELSE <<>>)])

Scan == inorder(btree)

-------------------------------------------------------------------------------
\* Whatever was split, rotated or recoloured: both trees find exactly the keys
\* inserted, the B-tree with a row given for the key, and its scan lists every
\* entry, in the order of the keys.
BothFindWhatWasGiven ==
    LET scan == Scan
    IN  /\ \A key \in Key :
               /\ contains(key) <=> given[key] > 0
               /\ IF given[key] = 0 THEN Search(key) = {}
                  ELSE \E row \in 1 .. given[key] : Search(key) = {row}
        /\ ToSet(scan) = UNION {[key : {key}, row : 1 .. given[key]] : key \in Key}
        /\ Len(scan) = Inserts
        /\ \A i \in 2 .. Len(scan) : scan[i - 1].key <= scan[i].key

\* The repair after an insert comes to its end: no sequence of rotations leads
\* the loop round in a circle.
RepairEnds == node # Nil ~> node = Nil

\* Keys left of a separator are below it and keys right of it above (comment at
\* the top of btree_index.cpp).
SeparatorsSeparate == \A i \in 2 .. Len(Scan) : Scan[i - 1].key < Scan[i].key
===============================================================================
