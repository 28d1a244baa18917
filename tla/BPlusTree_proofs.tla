--------------------------- MODULE BPlusTree_proofs ---------------------------
(***************************************************************************)
(* Proofs about the B+ tree, for any order, keys and rows.                 *)
(***************************************************************************)
EXTENDS BPlusTreeProps, FiniteSetTheorems, SequenceTheorems, WellFoundedInduction, TLAPS

-------------------------------------------------------------------------------
(* Sequences: positions of keys, insertion and removal.                     *)

\* A set of numbers that is not empty has a least element.
LEMMA LeastElement ==
    ASSUME NEW S \in SUBSET Nat, S # {}
    PROVE  \E n \in S : \A m \in S : n <= m
<1>1. PICK x \in S : \A y \in S : ~(<<y, x>> \in OpToRel(<, Nat))
  BY WFMin, NatLessThanWellFounded
<1>2. \A y \in S : ~(y < x)
  BY <1>1 DEF OpToRel
<1> QED
  BY <1>2

\* A set that contains all positions before each of its members is an initial
\* segment, and its cardinality says which.
LEMMA InitialSegment ==
    ASSUME NEW n \in Nat, NEW P \in SUBSET (1 .. n),
           \A i \in P : \A j \in 1 .. n : j < i => j \in P
    PROVE  Cardinality(P) \in 0 .. n /\ \A i \in 1 .. n : i \in P <=> i <= Cardinality(P)
<1> DEFINE outside == {i \in 1 .. n + 1 : i \notin P}
<1>1. PICK m \in outside : \A i \in outside : m <= i
  <2>1. outside \in SUBSET Nat /\ n + 1 \in outside
    OBVIOUS
  <2> HIDE DEF outside
  <2> QED
    BY <2>1, LeastElement
<1>2. m \in 1 .. n + 1 /\ m \notin P
  OBVIOUS
<1>3. ASSUME NEW i \in 1 .. n PROVE i \in P <=> i <= m - 1
  <2>1. CASE i < m
    <3>1. i \notin outside
      BY <1>1, <1>2, <2>1
    <3> QED
      BY <1>2, <2>1, <3>1
  <2>2. CASE i > m
    BY <1>2, <2>2
  <2>3. CASE i = m
    BY <1>2, <2>3
  <2> QED
    BY <1>2, <2>1, <2>2, <2>3
<1>4. P = 1 .. m - 1
  <2>1. \A i : i \in P => i \in 1 .. n /\ i <= m - 1
    BY <1>3
  <2>2. \A i : i \in 1 .. m - 1 => i \in 1 .. n /\ i <= m - 1
    BY <1>2
  <2> HIDE DEF outside
  <2>3. \A i : i \in P <=> i \in 1 .. m - 1
    BY <1>2, <1>3, <2>1, <2>2
  <2> QED
    BY <2>3
<1>5. Cardinality(1 .. m - 1) = m - 1
  <2>1. m - 1 \in Nat /\ 1 \in Nat
    BY <1>2
  <2>2. Cardinality(1 .. m - 1) = IF 1 > m - 1 THEN 0 ELSE m - 1 - 1 + 1
    BY <1>2, FS_Interval
  <2> QED
    BY <1>2, <2>2
<1> QED
  BY <1>2, <1>3, <1>4, <1>5

\* The length, the domain and the elements of a sequence.
LEMMA SeqFacts ==
    ASSUME NEW S, NEW s \in Seq(S)
    PROVE  Len(s) \in Nat /\ DOMAIN s = 1 .. Len(s) /\ \A i \in 1 .. Len(s) : s[i] \in S
OBVIOUS

\* What InsertAt returns: the elements from i on move one place up.
LEMMA Inserting ==
    ASSUME NEW S, NEW s \in Seq(S), NEW i \in 1 .. Len(s) + 1, NEW e \in S
    PROVE  /\ InsertAt(s, i, e) \in Seq(S) /\ Len(InsertAt(s, i, e)) = Len(s) + 1
           /\ \A j \in 1 .. i - 1 : InsertAt(s, i, e)[j] = s[j]
           /\ InsertAt(s, i, e)[i] = e
           /\ \A j \in i + 1 .. Len(s) + 1 : InsertAt(s, i, e)[j] = s[j - 1]
<1> DEFINE low == SubSeq(s, 1, i - 1)
           high == SubSeq(s, i, Len(s))
           front == low \o <<e>>
<1>1. Len(s) \in Nat /\ i \in Nat
  OBVIOUS
<1>2. low \in Seq(S) /\ Len(low) = i - 1 /\ \A j \in 1 .. i - 1 : low[j] = s[j]
  BY <1>1
<1>3. /\ high \in Seq(S) /\ Len(high) = Len(s) - i + 1
      /\ \A j \in 1 .. Len(s) - i + 1 : high[j] = s[i + j - 1]
  BY <1>1
<1>4. <<e>> \in Seq(S) /\ Len(<<e>>) = 1 /\ <<e>>[1] = e
  OBVIOUS
<1> HIDE DEF low, high
<1>5. /\ front \in Seq(S) /\ Len(front) = i /\ front[i] = e
      /\ \A j \in 1 .. i - 1 : front[j] = s[j]
  BY <1>1, <1>2, <1>4
<1> HIDE DEF front
<1> DEFINE all == front \o high
<1>6. /\ all \in Seq(S) /\ Len(all) = Len(s) + 1
      /\ \A j \in 1 .. i : all[j] = front[j]
      /\ \A j \in i + 1 .. Len(s) + 1 : all[j] = high[j - i]
  BY <1>1, <1>3, <1>5
<1>7. all = InsertAt(s, i, e)
  BY DEF InsertAt, low, high, front
<1> HIDE DEF all
<1>8. \A j \in i + 1 .. Len(s) + 1 : all[j] = s[j - 1]
  <2> SUFFICES ASSUME NEW j \in i + 1 .. Len(s) + 1 PROVE all[j] = s[j - 1]
    OBVIOUS
  <2>1. j - i \in 1 .. Len(s) - i + 1 /\ i + (j - i) - 1 = j - 1
    BY <1>1
  <2> QED
    BY <1>3, <1>6, <2>1
<1> QED
  BY <1>1, <1>5, <1>6, <1>7, <1>8

\* What RemoveAt returns: the elements after i move one place down.
LEMMA Removing ==
    ASSUME NEW S, NEW s \in Seq(S), NEW i \in 1 .. Len(s)
    PROVE  /\ RemoveAt(s, i) \in Seq(S) /\ Len(RemoveAt(s, i)) = Len(s) - 1
           /\ \A j \in 1 .. i - 1 : RemoveAt(s, i)[j] = s[j]
           /\ \A j \in i .. Len(s) - 1 : RemoveAt(s, i)[j] = s[j + 1]
<1> DEFINE low == SubSeq(s, 1, i - 1)
           high == SubSeq(s, i + 1, Len(s))
           all == low \o high
<1>1. Len(s) \in Nat /\ i \in Nat
  OBVIOUS
<1>2. low \in Seq(S) /\ Len(low) = i - 1 /\ \A j \in 1 .. i - 1 : low[j] = s[j]
  BY <1>1
<1>3. /\ high \in Seq(S) /\ Len(high) = Len(s) - i
      /\ \A j \in 1 .. Len(s) - i : high[j] = s[i + j]
  BY <1>1
<1>4. all = RemoveAt(s, i)
  BY DEF RemoveAt
<1> HIDE DEF low, high
<1>5. /\ all \in Seq(S) /\ Len(all) = Len(s) - 1
      /\ \A j \in 1 .. i - 1 : all[j] = low[j]
      /\ \A j \in i .. Len(s) - 1 : all[j] = high[j - (i - 1)]
  <2>1. /\ all \in Seq(S) /\ Len(all) = Len(low) + Len(high)
        /\ \A j \in 1 .. Len(low) + Len(high) :
               all[j] = IF j <= Len(low) THEN low[j] ELSE high[j - Len(low)]
    BY <1>2, <1>3, ConcatProperties
  <2> QED
    BY <1>1, <1>2, <1>3, <2>1
<1> HIDE DEF all
<1>6. \A j \in i .. Len(s) - 1 : all[j] = s[j + 1]
  <2> SUFFICES ASSUME NEW j \in i .. Len(s) - 1 PROVE all[j] = s[j + 1]
    OBVIOUS
  <2>1. j - (i - 1) \in 1 .. Len(s) - i /\ i + (j - (i - 1)) = j + 1
    BY <1>1
  <2> QED
    BY <1>3, <1>5, <2>1
<1> QED
  BY <1>1, <1>2, <1>4, <1>5, <1>6

\* The two parts a split cuts a sequence into.
LEMMA Parts ==
    ASSUME NEW S, NEW s \in Seq(S), NEW n \in 0 .. Len(s)
    PROVE  /\ Lower(s, n) \in Seq(S) /\ Len(Lower(s, n)) = n
           /\ \A j \in 1 .. n : Lower(s, n)[j] = s[j]
           /\ Upper(s, n) \in Seq(S) /\ Len(Upper(s, n)) = Len(s) - n
           /\ \A j \in 1 .. Len(s) - n : Upper(s, n)[j] = s[n + j]
BY DEF Lower, Upper

-------------------------------------------------------------------------------
(* Ascending keys.                                                          *)

Sorted(s) == \A i, j \in DOMAIN s : i < j => s[i] < s[j]

\* How many keys are below, or not above, a given one is the position of the
\* last such key.
LEMMA RouteIs ==
    ASSUME NEW n, n.keys \in Seq(Key), Sorted(n.keys), NEW key \in Key
    PROVE  /\ Route(n, key) \in 1 .. Len(n.keys) + 1
           /\ \A i \in 1 .. Len(n.keys) : n.keys[i] <= key <=> i < Route(n, key)
<1> DEFINE P == {i \in DOMAIN n.keys : key >= n.keys[i]}
<1>1. Len(n.keys) \in Nat /\ DOMAIN n.keys = 1 .. Len(n.keys)
  OBVIOUS
<1>2. key \in Nat /\ \A i \in 1 .. Len(n.keys) : n.keys[i] \in Nat
  <2>1. \A i \in 1 .. Len(n.keys) : n.keys[i] \in Key
    BY SeqFacts
  <2> QED
    BY <2>1, KeyAssumption
<1>3. \A i \in P : \A j \in 1 .. Len(n.keys) : j < i => j \in P
  BY <1>1, <1>2 DEF Sorted
<1>4. P \in SUBSET (1 .. Len(n.keys))
  BY <1>1
<1>5. \A i \in 1 .. Len(n.keys) : n.keys[i] <= key <=> i \in P
  BY <1>1, <1>2
<1>6. Route(n, key) = Cardinality(P) + 1
  BY DEF Route
<1> HIDE DEF P
<1>7. /\ Cardinality(P) \in 0 .. Len(n.keys)
      /\ \A i \in 1 .. Len(n.keys) : i \in P <=> i <= Cardinality(P)
  BY <1>1, <1>3, <1>4, InitialSegment
<1> QED
  BY <1>1, <1>5, <1>6, <1>7

\* lower_bound tells the smaller keys of a node from the others.
LEMMA LowerBoundIs ==
    ASSUME NEW keys \in Seq(Key), Sorted(keys), NEW key \in Key
    PROVE  /\ lower_bound(keys, key) \in 1 .. Len(keys) + 1
           /\ \A i \in 1 .. Len(keys) : keys[i] < key <=> i < lower_bound(keys, key)
<1> DEFINE P == {i \in DOMAIN keys : keys[i] < key}
<1>1. Len(keys) \in Nat /\ DOMAIN keys = 1 .. Len(keys)
  OBVIOUS
<1>2. key \in Nat /\ \A i \in 1 .. Len(keys) : keys[i] \in Nat
  <2>1. \A i \in 1 .. Len(keys) : keys[i] \in Key
    BY SeqFacts
  <2> QED
    BY <2>1, KeyAssumption
<1>3. \A i \in P : \A j \in 1 .. Len(keys) : j < i => j \in P
  BY <1>1, <1>2 DEF Sorted
<1>4. P \in SUBSET (1 .. Len(keys))
  BY <1>1
<1>5. \A i \in 1 .. Len(keys) : keys[i] < key <=> i \in P
  BY <1>1
<1>6. lower_bound(keys, key) = Cardinality(P) + 1
  BY DEF lower_bound
<1> HIDE DEF P
<1>7. Cardinality(P) \in 0 .. Len(keys) /\ \A i \in 1 .. Len(keys) : i \in P <=> i <= Cardinality(P)
  BY <1>1, <1>3, <1>4, InitialSegment
<1> QED
  BY <1>1, <1>5, <1>6, <1>7

\* A key that is there is at its lower bound.
LEMMA FoundAt ==
    ASSUME NEW keys \in Seq(Key), Sorted(keys), NEW i \in DOMAIN keys
    PROVE  lower_bound(keys, keys[i]) = i
<1>1. Len(keys) \in Nat /\ i \in 1 .. Len(keys) /\ keys[i] \in Key
  OBVIOUS
<1>2. keys[i] \in Nat /\ \A j \in 1 .. Len(keys) : keys[j] \in Nat
  <2>1. \A j \in 1 .. Len(keys) : keys[j] \in Key
    BY SeqFacts
  <2> QED
    BY <1>1, <2>1, KeyAssumption
<1> DEFINE b == lower_bound(keys, keys[i])
<1>3. /\ b \in 1 .. Len(keys) + 1
      /\ \A j \in 1 .. Len(keys) : keys[j] < keys[i] <=> j < b
  BY <1>1, LowerBoundIs
<1> HIDE DEF b
<1>4. ~(i < b)
  BY <1>1, <1>2, <1>3
<1>5. b \in 1 .. Len(keys) /\ ~(b < i)
  <2>1. b \in 1 .. Len(keys)
    BY <1>1, <1>3, <1>4
  <2>2. b < i => keys[b] < keys[i]
    BY <1>1, <2>1 DEF Sorted
  <2> QED
    BY <1>3, <2>1, <2>2
<1> QED
  BY <1>1, <1>4, <1>5 DEF b

\* Keys stay sorted if a key is put between the smaller and the greater.
LEMMA SortedInsert ==
    ASSUME NEW keys \in Seq(Key), Sorted(keys), NEW i \in 1 .. Len(keys) + 1, NEW key \in Key,
           \A j \in 1 .. Len(keys) : j < i => keys[j] < key,
           \A j \in 1 .. Len(keys) : i <= j => key < keys[j]
    PROVE  Sorted(InsertAt(keys, i, key))
<1> DEFINE all == InsertAt(keys, i, key)
<1>1. /\ all \in Seq(Key) /\ Len(all) = Len(keys) + 1
      /\ \A j \in 1 .. i - 1 : all[j] = keys[j]
      /\ all[i] = key
      /\ \A j \in i + 1 .. Len(keys) + 1 : all[j] = keys[j - 1]
  BY Inserting
<1> HIDE DEF all
<1>2. Len(keys) \in Nat /\ DOMAIN all = 1 .. Len(keys) + 1 /\ i \in Nat
  BY <1>1
<1> SUFFICES ASSUME NEW a \in 1 .. Len(keys) + 1, NEW b \in 1 .. Len(keys) + 1, a < b
             PROVE  all[a] < all[b]
  BY <1>2 DEF Sorted, all
<1>3. CASE b < i
  <2>1. a \in 1 .. i - 1 /\ b \in 1 .. i - 1 /\ a \in DOMAIN keys /\ b \in DOMAIN keys
    BY <1>2, <1>3
  <2> QED
    BY <1>1, <2>1 DEF Sorted
<1>4. CASE b = i
  <2>1. a \in 1 .. i - 1 /\ a \in 1 .. Len(keys) /\ a < i
    BY <1>2, <1>4
  <2> QED
    BY <1>1, <1>4, <2>1
<1>5. CASE b > i
  <2>1. b \in i + 1 .. Len(keys) + 1 /\ b - 1 \in 1 .. Len(keys) /\ i <= b - 1
    BY <1>2, <1>5
  <2>2. CASE a < i
    <3>1. a \in 1 .. i - 1 /\ a \in DOMAIN keys /\ b - 1 \in DOMAIN keys /\ a < b - 1
      BY <1>2, <1>5, <2>1, <2>2
    <3> QED
      BY <1>1, <2>1, <3>1 DEF Sorted
  <2>3. CASE a = i
    BY <1>1, <2>1, <2>3
  <2>4. CASE a > i
    <3>1. /\ a \in i + 1 .. Len(keys) + 1 /\ a - 1 \in DOMAIN keys /\ b - 1 \in DOMAIN keys
          /\ a - 1 < b - 1
      BY <1>2, <2>1, <2>4
    <3> QED
      BY <1>1, <2>1, <3>1 DEF Sorted
  <2> QED
    BY <1>2, <2>2, <2>3, <2>4
<1> QED
  BY <1>2, <1>3, <1>4, <1>5

\* What is in a sequence after an insertion.
LEMMA InsertedValues ==
    ASSUME NEW S, NEW s \in Seq(S), NEW i \in 1 .. Len(s) + 1, NEW e \in S
    PROVE  /\ \A j \in 1 .. Len(s) + 1 :
                  InsertAt(s, i, e)[j] = e \/ \E n \in 1 .. Len(s) : InsertAt(s, i, e)[j] = s[n]
           /\ \A n \in 1 .. Len(s) : \E j \in 1 .. Len(s) + 1 : InsertAt(s, i, e)[j] = s[n]
<1> DEFINE all == InsertAt(s, i, e)
<1>1. /\ \A j \in 1 .. i - 1 : all[j] = s[j]
      /\ all[i] = e
      /\ \A j \in i + 1 .. Len(s) + 1 : all[j] = s[j - 1]
  BY Inserting
<1> HIDE DEF all
<1>2. Len(s) \in Nat /\ i \in Nat
  OBVIOUS
<1>3. ASSUME NEW j \in 1 .. Len(s) + 1
      PROVE  all[j] = e \/ \E n \in 1 .. Len(s) : all[j] = s[n]
  <2>1. CASE j < i
    <3>1. j \in 1 .. i - 1 /\ j \in 1 .. Len(s)
      BY <1>2, <2>1
    <3> QED
      BY <1>1, <3>1
  <2>2. CASE j = i
    BY <1>1, <2>2
  <2>3. CASE j > i
    <3>1. j \in i + 1 .. Len(s) + 1 /\ j - 1 \in 1 .. Len(s)
      BY <1>2, <2>3
    <3> QED
      BY <1>1, <3>1
  <2> QED
    BY <1>2, <2>1, <2>2, <2>3
<1>4. ASSUME NEW n \in 1 .. Len(s)
      PROVE  \E j \in 1 .. Len(s) + 1 : all[j] = s[n]
  <2>1. CASE n < i
    <3>1. n \in 1 .. i - 1 /\ n \in 1 .. Len(s) + 1
      BY <1>2, <2>1
    <3> QED
      BY <1>1, <3>1
  <2>2. CASE n >= i
    <3>1. n + 1 \in i + 1 .. Len(s) + 1 /\ n + 1 \in 1 .. Len(s) + 1 /\ (n + 1) - 1 = n
      BY <1>2, <2>2
    <3> QED
      BY <1>1, <3>1
  <2> QED
    BY <1>2, <2>1, <2>2
<1> QED
  BY <1>3, <1>4 DEF all

-------------------------------------------------------------------------------
(* The shape of the tree.  A node's name is its height and its lowest key:  *)
(* what lies between this and the next name of its height belongs to it.    *)

Row      == UNION {Rows[k] : k \in Key}
Name     == Nat \X Nat
NodeType == [leaf : BOOLEAN, keys : Seq(Key), vals : Seq(Row), children : Seq(Name),
             next : Name \cup {NoNode}]

\* The keys are below the next node of the same height.
Within(ns, id, keys) ==
    /\ keys \in Seq(Key) /\ Sorted(keys)
    /\ \A x \in DOMAIN ns : x[1] = id[1] /\ id[2] < x[2] =>
           \A i \in 1 .. Len(keys) : keys[i] < x[2]

LeafShape(ns, id, n) ==
    /\ Within(ns, id, n.keys)
    /\ \A i \in 1 .. Len(n.keys) : id[2] <= n.keys[i]
    /\ Len(n.vals) = Len(n.keys)
    /\ \A i \in 1 .. Len(n.keys) : n.vals[i] \in Rows[n.keys[i]]
    /\ n.next \in DOMAIN ns \cup {NoNode}

\* The i-th child begins at the separator on its left.
ChildAt(id, keys, i) == <<id[1] - 1, IF i = 1 THEN id[2] ELSE keys[i - 1]>>

InnerShape(ns, id, keys, children) ==
    /\ Within(ns, id, keys)
    /\ \A i \in 1 .. Len(keys) : id[2] < keys[i]
    /\ children \in Seq(Name)
    /\ Len(children) = Len(keys) + 1
    /\ \A i \in 1 .. Len(children) :
           children[i] \in DOMAIN ns /\ children[i] = ChildAt(id, keys, i)

NodeOK(ns, id) ==
    /\ ns[id] \in NodeType
    /\ ns[id].leaf = (id[1] = 0)
    /\ ns[id].leaf => LeafShape(ns, id, ns[id]) /\ Len(ns[id].keys) < ORDER
    /\ ~ns[id].leaf => /\ InnerShape(ns, id, ns[id].keys, ns[id].children)
                       /\ Len(ns[id].children) \in 2 .. ORDER

\* Node x begins where y does, or at a separator of y, one level up.
Under(ns, x, y) ==
    /\ y[1] = x[1] + 1
    /\ x[2] = y[2] \/ \E i \in 1 .. Len(ns[y].keys) : ns[y].keys[i] = x[2]

\* The nodes up to height h are as they should be.
UpTo(ns, h) ==
    /\ DOMAIN ns \subseteq Name
    /\ \A id \in DOMAIN ns : id[1] <= h => NodeOK(ns, id)
    /\ \A x \in DOMAIN ns : x[1] < h => \E y \in DOMAIN ns : Under(ns, x, y)

Rooted(ns, top) ==
    /\ top \in DOMAIN ns
    /\ top[2] = 0
    /\ \A x \in DOMAIN ns : x[1] <= top[1] /\ (x[1] = top[1] => x = top)

Tree(ns, top) == Rooted(ns, top) /\ UpTo(ns, top[1])

\* A leaf's successor is the next leaf on its right, of which only the last
\* has none.
Chained(ns) ==
    \A x \in DOMAIN ns : x[1] = 0 =>
        IF ns[x].next = NoNode
        THEN \A y \in DOMAIN ns : y[1] = 0 => y[2] <= x[2]
        ELSE LET z == ns[x].next
             IN  /\ z \in DOMAIN ns /\ z[1] = 0 /\ x[2] < z[2]
                 /\ \A y \in DOMAIN ns : y[1] = 0 => y[2] <= x[2] \/ z[2] <= y[2]

TreeInv == /\ root = NoNode => nodes = <<>>
           /\ root # NoNode => Tree(nodes, root) /\ Chained(nodes)

-------------------------------------------------------------------------------
(* The way down to a key.                                                   *)

\* Of its height, node id is the last that begins at key or before.
Covers(ns, id, key) ==
    /\ id \in DOMAIN ns
    /\ id[2] <= key
    /\ \A x \in DOMAIN ns : x[1] = id[1] /\ x[2] <= key => x[2] <= id[2]

\* A name is a height and a key.
LEMMA NameFacts ==
    ASSUME NEW ns, DOMAIN ns \subseteq Name, NEW id \in DOMAIN ns
    PROVE  id[1] \in Nat /\ id[2] \in Nat /\ id = <<id[1], id[2]>>
BY DEF Name

\* At each height one node covers a key.
LEMMA CoversOne ==
    ASSUME NEW ns, DOMAIN ns \subseteq Name, NEW key, NEW a, NEW b,
           Covers(ns, a, key), Covers(ns, b, key), a[1] = b[1]
    PROVE  a = b
BY NameFacts DEF Covers

\* The root covers every key.
LEMMA RootCovers ==
    ASSUME NEW ns, NEW top, Tree(ns, top), NEW key \in Nat
    PROVE  Covers(ns, top, key)
BY NameFacts DEF Tree, Rooted, UpTo, Covers

\* The keys of a node are positive numbers.
LEMMA KeyFacts ==
    ASSUME NEW keys \in Seq(Key)
    PROVE  /\ Len(keys) \in Nat /\ DOMAIN keys = 1 .. Len(keys)
           /\ \A i \in 1 .. Len(keys) : keys[i] \in Key /\ keys[i] \in Nat /\ keys[i] # 0
<1>1. /\ Len(keys) \in Nat /\ DOMAIN keys = 1 .. Len(keys)
      /\ \A i \in 1 .. Len(keys) : keys[i] \in Key
  BY SeqFacts
<1> QED
  BY <1>1, KeyAssumption

\* What NodeOK says of a leaf and of an inner node.
LEMMA InnerNode ==
    ASSUME NEW ns, DOMAIN ns \subseteq Name, NEW id \in DOMAIN ns, NodeOK(ns, id)
    PROVE  /\ ns[id].leaf <=> id[1] = 0
           /\ ~ns[id].leaf <=> id[1] > 0
           /\ ~ns[id].leaf => InnerShape(ns, id, ns[id].keys, ns[id].children)
           /\ ns[id].leaf => LeafShape(ns, id, ns[id])
<1>1. id[1] \in Nat
  BY NameFacts
<1>2. ns[id].leaf <=> id[1] = 0
  <2> HIDE DEF Name
  <2> QED
    BY DEF NodeOK
<1> QED
  BY <1>1, <1>2 DEF NodeOK

\* Of the nodes one level down, the child that is routed to covers the key.
LEMMA ChildCovers ==
    ASSUME NEW ns, NEW h \in Nat, UpTo(ns, h), NEW key \in Key, NEW id, Covers(ns, id, key),
           id[1] <= h, ~ns[id].leaf
    PROVE  LET i == Route(ns[id], key)
               c == ns[id].children[i]
           IN  /\ i \in 1 .. Len(ns[id].children)
               /\ c = ChildAt(id, ns[id].keys, i)
               /\ Covers(ns, c, key)
               /\ id[1] > 0 /\ c[1] = id[1] - 1
<1> DEFINE n == ns[id]
           i == Route(n, key)
           c == n.children[i]
<1>1. /\ id \in DOMAIN ns /\ NodeOK(ns, id) /\ DOMAIN ns \subseteq Name
      /\ \A x \in DOMAIN ns : x[1] <= h => NodeOK(ns, x)
      /\ \A x \in DOMAIN ns : x[1] < h => \E y \in DOMAIN ns : Under(ns, x, y)
  BY DEF Covers, UpTo
<1>2. id[1] \in Nat /\ id[2] \in Nat /\ key \in Nat /\ id[2] <= key /\ h \in Nat
  BY <1>1, NameFacts, KeyAssumption DEF Covers
<1>3. id[1] > 0 /\ InnerShape(ns, id, n.keys, n.children)
  BY <1>1, InnerNode
<1>4. n.keys \in Seq(Key) /\ Sorted(n.keys)
  BY <1>3 DEF InnerShape, Within
<1>5. i \in 1 .. Len(n.keys) + 1 /\ \A j \in 1 .. Len(n.keys) : n.keys[j] <= key <=> j < i
  BY <1>4, RouteIs
<1>6. /\ Len(n.keys) \in Nat /\ DOMAIN n.keys = 1 .. Len(n.keys)
      /\ \A j \in 1 .. Len(n.keys) : n.keys[j] \in Nat /\ id[2] < n.keys[j]
  BY <1>3, <1>4, KeyFacts DEF InnerShape
<1>7. i \in 1 .. Len(n.children) /\ c \in DOMAIN ns /\ c = ChildAt(id, n.keys, i)
  BY <1>3, <1>5 DEF InnerShape
<1> HIDE DEF c, i, n
<1>8. c[1] = id[1] - 1 /\ c[2] = IF i = 1 THEN id[2] ELSE n.keys[i - 1]
  BY <1>7 DEF ChildAt
<1>9. i # 1 => i - 1 \in 1 .. Len(n.keys) /\ i - 1 < i
  BY <1>5, <1>6
<1>10. c[2] <= key /\ id[2] <= c[2] /\ c[2] \in Nat
  <2>1. CASE i = 1
    BY <1>2, <1>8, <2>1
  <2>2. CASE i # 1
    <3> DEFINE j == i - 1
    <3>1. j \in 1 .. Len(n.keys) /\ j < i
      BY <1>9, <2>2
    <3>2. c[2] = n.keys[j]
      BY <1>8, <2>2
    <3> HIDE DEF j
    <3>3. n.keys[j] \in Nat /\ id[2] < n.keys[j] /\ n.keys[j] <= key
      BY <1>5, <1>6, <3>1
    <3> QED
      BY <1>2, <3>2, <3>3
  <2> QED
    BY <2>1, <2>2
<1>11. ASSUME NEW x \in DOMAIN ns, x[1] = id[1] - 1, x[2] <= key
       PROVE  x[2] <= c[2]
  <2>1. x[1] \in Nat /\ x[2] \in Nat /\ x[1] < h
    BY <1>1, <1>2, <1>11, NameFacts
  <2>2. PICK y \in DOMAIN ns : Under(ns, x, y)
    BY <1>1, <2>1
  <2>3. y[1] = id[1] /\ y[2] \in Nat
    <3>1. y[1] \in Nat /\ y[2] \in Nat
      BY <1>1, NameFacts
    <3>2. y[1] = x[1] + 1
      BY <2>2 DEF Under
    <3> QED
      BY <1>2, <1>11, <3>1, <3>2
  <2>4. CASE x[2] = y[2]
    <3>1. y[2] <= id[2]
      BY <1>11, <2>3, <2>4 DEF Covers
    <3> QED
      BY <1>2, <1>10, <2>1, <2>3, <2>4, <3>1
  <2>5. CASE y = id /\ x[2] # y[2]
    <3>1. PICK j \in 1 .. Len(n.keys) : n.keys[j] = x[2]
      BY <2>2, <2>5 DEF Under, n
    <3>2. j < i
      BY <1>5, <1>11, <3>1
    <3>3. i # 1 /\ j <= i - 1 /\ i - 1 \in 1 .. Len(n.keys)
      BY <1>5, <1>6, <1>9, <3>2
    <3>4. n.keys[j] <= n.keys[i - 1]
      <4>1. j \in DOMAIN n.keys /\ i - 1 \in DOMAIN n.keys /\ j \in Nat /\ i - 1 \in Nat
        BY <1>6, <3>3
      <4>2. n.keys[j] \in Nat /\ n.keys[i - 1] \in Nat
        BY <1>6, <3>3
      <4>3. j < i - 1 => n.keys[j] < n.keys[i - 1]
        BY <1>4, <4>1 DEF Sorted
      <4>4. j = i - 1 \/ j < i - 1
        BY <3>3, <4>1
      <4> QED
        BY <4>2, <4>3, <4>4
    <3> QED
      BY <1>8, <3>1, <3>3, <3>4
  <2>6. CASE y # id /\ x[2] # y[2]
    <3>1. NodeOK(ns, y) /\ ~ns[y].leaf
      BY <1>1, <1>2, <1>3, <2>3 DEF NodeOK
    <3>2. InnerShape(ns, y, ns[y].keys, ns[y].children)
      BY <3>1 DEF NodeOK
    <3>3. PICK j \in 1 .. Len(ns[y].keys) : ns[y].keys[j] = x[2]
      BY <2>2, <2>6 DEF Under
    <3>4. y[2] < x[2] /\ (\A z \in DOMAIN ns : z[1] = y[1] /\ y[2] < z[2] => x[2] < z[2])
      BY <3>2, <3>3 DEF InnerShape, Within
    <3>5. y[2] <= id[2]
      BY <1>2, <1>11, <2>1, <2>3, <3>4 DEF Covers
    <3>6. y[2] # id[2]
      <4>1. y = <<y[1], y[2]>> /\ id = <<id[1], id[2]>>
        BY <1>1, NameFacts
      <4>2. y[1] = id[1] /\ y # id
        BY <2>3, <2>6
      <4> QED
        BY <4>1, <4>2
    <3>7. x[2] < id[2]
      BY <1>1, <1>2, <2>3, <3>4, <3>5, <3>6
    <3> QED
      BY <1>2, <1>10, <2>1, <3>7
  <2> QED
    BY <2>4, <2>5, <2>6
<1> QED
  BY <1>3, <1>7, <1>8, <1>10, <1>11 DEF Covers, n, i, c

-------------------------------------------------------------------------------
(* findLeaf.                                                                *)

FindLeafIn(ns, top, key) ==
    LET down[id \in DOMAIN ns] ==
            IF ns[id].leaf THEN id
            ELSE down[ns[id].children[Route(ns[id], key)]]
    IN down[top]

\* f is the descent from the nodes up to height h.
Descent(ns, key, h, f) ==
    f = [id \in {x \in DOMAIN ns : x[1] <= h} |->
            IF ns[id].leaf THEN id ELSE f[ns[id].children[Route(ns[id], key)]]]

\* An inner node's child is one level down.
LEMMA ChildBelow ==
    ASSUME NEW ns, NEW h \in Nat, UpTo(ns, h), NEW key \in Key, NEW id \in DOMAIN ns,
           id[1] <= h, ~ns[id].leaf
    PROVE  LET c == ns[id].children[Route(ns[id], key)]
           IN  id[1] > 0 /\ c \in DOMAIN ns /\ c[1] = id[1] - 1
<1>1. id[1] \in Nat /\ NodeOK(ns, id)
  BY NameFacts DEF UpTo
<1>2. InnerShape(ns, id, ns[id].keys, ns[id].children) /\ id[1] > 0
  BY <1>1, InnerNode DEF UpTo
<1>3. Route(ns[id], key) \in 1 .. Len(ns[id].children)
  <2>1. Route(ns[id], key) \in 1 .. Len(ns[id].keys) + 1
    BY <1>2, RouteIs DEF InnerShape, Within
  <2> QED
    BY <1>2, <2>1 DEF InnerShape
<1> QED
  BY <1>2, <1>3 DEF InnerShape, ChildAt

\* The recursion of findLeaf has a solution, by its height.
LEMMA DescentExists ==
    ASSUME NEW ns, NEW top \in Nat, UpTo(ns, top), NEW key \in Key
    PROVE  \E f : Descent(ns, key, top, f)
<1> DEFINE without == {h \in 0 .. top : ~ \E f : Descent(ns, key, h, f)}
<1> SUFFICES ASSUME without # {} PROVE FALSE
  OBVIOUS
<1>1. PICK h \in without : \A m \in without : h <= m
  <2>1. without \in SUBSET Nat
    OBVIOUS
  <2> HIDE DEF without
  <2> QED
    BY <2>1, LeastElement
<1>2. h \in 0 .. top /\ ~ \E f : Descent(ns, key, h, f)
  OBVIOUS
<1>3. h > 0 => \E f : Descent(ns, key, h - 1, f)
  <2>1. h > 0 => h - 1 \in 0 .. top /\ h - 1 \notin without
    <3> HIDE DEF without
    <3> QED
      BY <1>1, <1>2
  <2> QED
    BY <2>1
<1> HIDE DEF without
<1> DEFINE low == {x \in DOMAIN ns : x[1] <= h - 1}
           child(id) == ns[id].children[Route(ns[id], key)]
<1>4. PICK f : h > 0 => Descent(ns, key, h - 1, f)
  BY <1>3
<1> DEFINE g == [id \in {x \in DOMAIN ns : x[1] <= h} |->
                    IF ns[id].leaf THEN id ELSE f[child(id)]]
<1>5. ASSUME NEW id \in DOMAIN ns, id[1] <= h, ~ns[id].leaf
      PROVE  g[child(id)] = f[child(id)]
  <2>1. child(id) \in DOMAIN ns /\ child(id)[1] = id[1] - 1 /\ id[1] > 0 /\ id[1] \in Nat
    <3>1. id[1] \in Nat /\ id[1] <= top
      BY <1>2, <1>5, NameFacts DEF UpTo
    <3> QED
      BY <1>5, <3>1, ChildBelow
  <2> DEFINE c == child(id)
  <2> HIDE DEF c
  <2>2. h > 0 /\ c \in low /\ c \in DOMAIN ns /\ c[1] <= h
    BY <1>2, <1>5, <2>1 DEF c
  <2>3. f[c] = IF ns[c].leaf THEN c ELSE f[child(c)]
    BY <1>4, <2>2 DEF Descent
  <2>4. g[c] = IF ns[c].leaf THEN c ELSE f[child(c)]
    BY <2>2
  <2> QED
    BY <2>3, <2>4 DEF c
<1>6. Descent(ns, key, h, g)
  <2>1. ASSUME NEW id \in {x \in DOMAIN ns : x[1] <= h}
        PROVE  g[id] = IF ns[id].leaf THEN id ELSE g[child(id)]
    BY <1>5
  <2>2. g = [id \in {x \in DOMAIN ns : x[1] <= h} |-> g[id]]
    OBVIOUS
  <2> HIDE DEF g
  <2> QED
    BY <2>1, <2>2 DEF Descent
<1> QED
  BY <1>2, <1>6

\* findLeaf comes to the leaf that covers the key.
LEMMA FindLeafIs ==
    ASSUME NEW ns, NEW top, Tree(ns, top), NEW key \in Key
    PROVE  /\ Covers(ns, FindLeafIn(ns, top, key), key)
           /\ FindLeafIn(ns, top, key)[1] = 0
<1>1. /\ UpTo(ns, top[1]) /\ top \in DOMAIN ns /\ DOMAIN ns \subseteq Name /\ key \in Nat
      /\ top[1] \in Nat /\ \A x \in DOMAIN ns : x[1] <= top[1]
  BY NameFacts, KeyAssumption DEF Tree, Rooted, UpTo
<1>2. DOMAIN ns = {x \in DOMAIN ns : x[1] <= top[1]}
  BY <1>1
<1> DEFINE Eq(f) == f = [id \in DOMAIN ns |-> IF ns[id].leaf THEN id
                             ELSE f[ns[id].children[Route(ns[id], key)]]]
<1>3. \E f : Eq(f)
  <2>1. PICK f : Descent(ns, key, top[1], f)
    BY <1>1, DescentExists
  <2>2. Eq(f)
    BY <1>2, <2>1 DEF Descent
  <2> QED
    BY <2>2
<1>4. PICK f : Eq(f) /\ FindLeafIn(ns, top, key) = f[top]
  BY <1>3 DEF FindLeafIn
<1> DEFINE arrives(id) == Covers(ns, f[id], key) /\ f[id][1] = 0
           lost == {h \in Nat : \E id \in DOMAIN ns : /\ id[1] = h /\ Covers(ns, id, key)
                                                     /\ ~arrives(id)}
<1>5. lost = {}
  <2> SUFFICES ASSUME lost # {} PROVE FALSE
    OBVIOUS
  <2>1. PICK h \in lost : \A m \in lost : h <= m
    <3>1. lost \in SUBSET Nat
      OBVIOUS
    <3> HIDE DEF lost
    <3> QED
      BY <3>1, LeastElement
  <2>2. PICK id \in DOMAIN ns : id[1] = h /\ Covers(ns, id, key) /\ ~arrives(id)
    BY <2>1
  <2>3. f[id] = IF ns[id].leaf THEN id ELSE f[ns[id].children[Route(ns[id], key)]]
    BY <1>4
  <2>4. CASE ns[id].leaf
    <3>1. id[1] = 0
      BY <1>1, <2>4 DEF UpTo, NodeOK
    <3> QED
      BY <2>2, <2>3, <2>4, <3>1
  <2>5. CASE ~ns[id].leaf
    <3> DEFINE c == ns[id].children[Route(ns[id], key)]
    <3>1. Covers(ns, c, key) /\ c[1] = id[1] - 1 /\ id[1] > 0
      BY <1>1, <2>2, <2>5, ChildCovers
    <3>2. c[1] \in Nat /\ c[1] < h /\ c \in DOMAIN ns
      BY <1>1, <2>2, <3>1, NameFacts DEF Covers
    <3>3. f[id] = f[c]
      BY <2>3, <2>5
    <3> HIDE DEF c
    <3>4. ~arrives(c)
      BY <2>2, <3>3
    <3>5. c[1] \in lost
      BY <3>1, <3>2, <3>4
    <3>6. h \in Nat
      OBVIOUS
    <3> HIDE DEF lost
    <3>7. h <= c[1]
      BY <2>1, <3>5
    <3> QED
      BY <3>2, <3>6, <3>7
  <2> QED
    BY <2>4, <2>5
<1>6. arrives(top)
  <2>1. Covers(ns, top, key)
    BY <1>1, RootCovers
  <2>2. top[1] \notin lost
    BY <1>5
  <2> QED
    BY <1>1, <2>1, <2>2
<1> QED
  BY <1>4, <1>6

-------------------------------------------------------------------------------
(* What is in the leaves is what searches find.                             *)

PairIn(keys, vals, k, v) == \E i \in 1 .. Len(keys) : keys[i] = k /\ vals[i] = v

RowIn(ns, k, v) ==
    \E id \in DOMAIN ns : id[1] = 0 /\ PairIn(ns[id].keys, ns[id].vals, k, v)

FoundIn(ns, top, k) == Holds(ns[FindLeafIn(ns, top, k)], k)

SearchIn(ns, top, k) ==
    LET n == ns[FindLeafIn(ns, top, k)] IN n.vals[lower_bound(n.keys, k)]

\* The leaves, of which all is known.
LEMMA LeafFacts ==
    ASSUME NEW ns, NEW h \in Nat, UpTo(ns, h), NEW id \in DOMAIN ns, id[1] = 0
    PROVE  /\ ns[id].leaf /\ LeafShape(ns, id, ns[id])
           /\ ns[id].keys \in Seq(Key) /\ Sorted(ns[id].keys)
           /\ ns[id].vals \in Seq(Row) /\ Len(ns[id].vals) = Len(ns[id].keys)
           /\ Len(ns[id].keys) < ORDER
           /\ ns[id] \in NodeType
<1>1. NodeOK(ns, id) /\ DOMAIN ns \subseteq Name
  BY NameFacts DEF UpTo
<1>2. ns[id].leaf /\ LeafShape(ns, id, ns[id])
  BY <1>1, InnerNode
<1>3. ns[id] \in NodeType /\ Len(ns[id].keys) < ORDER
  BY <1>1, <1>2 DEF NodeOK
<1> QED
  BY <1>2, <1>3 DEF LeafShape, Within, NodeType

\* A leaf with a key covers it.
LEMMA HolderCovers ==
    ASSUME NEW ns, NEW h \in Nat, UpTo(ns, h), NEW id \in DOMAIN ns, id[1] = 0,
           NEW i \in 1 .. Len(ns[id].keys)
    PROVE  Covers(ns, id, ns[id].keys[i])
<1>1. LeafShape(ns, id, ns[id]) /\ ns[id].keys \in Seq(Key)
  BY LeafFacts
<1>2. ns[id].keys[i] \in Nat
  BY <1>1, KeyFacts
<1>3. DOMAIN ns \subseteq Name
  BY DEF UpTo
<1>4. ASSUME NEW x \in DOMAIN ns, x[1] = id[1], x[2] <= ns[id].keys[i]
      PROVE  x[2] <= id[2]
  <2>1. x[2] \in Nat /\ id[2] \in Nat
    BY <1>3, NameFacts
  <2>2. id[2] < x[2] => ns[id].keys[i] < x[2]
    BY <1>1, <1>4 DEF LeafShape, Within
  <2> QED
    BY <1>2, <1>4, <2>1, <2>2
<1> QED
  BY <1>1, <1>4 DEF Covers, LeafShape

\* In a tree, search finds a row just when a leaf holds it.
LEMMA SearchIs ==
    ASSUME NEW ns, NEW top, Tree(ns, top), NEW k \in Key
    PROVE  /\ \A v : RowIn(ns, k, v) => FoundIn(ns, top, k) /\ SearchIn(ns, top, k) = v
           /\ FoundIn(ns, top, k) => RowIn(ns, k, SearchIn(ns, top, k))
<1> DEFINE id == FindLeafIn(ns, top, k)
<1>1. /\ UpTo(ns, top[1]) /\ DOMAIN ns \subseteq Name /\ top[1] \in Nat
      /\ Covers(ns, id, k) /\ id[1] = 0
  BY FindLeafIs, NameFacts DEF Tree, Rooted, UpTo
<1> HIDE DEF id
<1>2. id \in DOMAIN ns
  BY <1>1 DEF Covers
<1>3. ns[id].keys \in Seq(Key) /\ Sorted(ns[id].keys)
  BY <1>1, <1>2, LeafFacts
<1>4. Len(ns[id].keys) \in Nat /\ DOMAIN ns[id].keys = 1 .. Len(ns[id].keys)
  BY <1>3, KeyFacts
<1>5. ASSUME NEW i \in 1 .. Len(ns[id].keys), ns[id].keys[i] = k
      PROVE  FoundIn(ns, top, k) /\ SearchIn(ns, top, k) = ns[id].vals[i]
  <2>1. lower_bound(ns[id].keys, k) = i
    BY <1>3, <1>4, <1>5, FoundAt
  <2> QED
    BY <1>4, <1>5, <2>1 DEF FoundIn, SearchIn, Holds, id
<1>6. ASSUME NEW v, RowIn(ns, k, v)
      PROVE  FoundIn(ns, top, k) /\ SearchIn(ns, top, k) = v
  <2>1. PICK x \in DOMAIN ns : /\ x[1] = 0
                               /\ \E i \in 1 .. Len(ns[x].keys) :
                                      ns[x].keys[i] = k /\ ns[x].vals[i] = v
    BY <1>6 DEF RowIn, PairIn
  <2>2. PICK i \in 1 .. Len(ns[x].keys) : ns[x].keys[i] = k /\ ns[x].vals[i] = v
    BY <2>1
  <2>3. Covers(ns, x, k)
    BY <1>1, <2>1, <2>2, HolderCovers
  <2>4. x = id
    BY <1>1, <2>1, <2>3, CoversOne
  <2> QED
    BY <1>5, <2>2, <2>4
<1>7. ASSUME FoundIn(ns, top, k)
      PROVE  RowIn(ns, k, SearchIn(ns, top, k))
  <2>1. PICK i \in 1 .. Len(ns[id].keys) : ns[id].keys[i] = k
    BY <1>4, <1>7 DEF FoundIn, Holds, id
  <2>2. SearchIn(ns, top, k) = ns[id].vals[i]
    BY <1>5, <2>1
  <2> QED
    BY <1>1, <1>2, <2>1, <2>2 DEF RowIn, PairIn
<1> QED
  BY <1>6, <1>7

-------------------------------------------------------------------------------
(* Nodes that a call leaves alone, and what it may add.                     *)

\* A node that is left alone remains as it should be if names are added, unless
\* one of its height is not above its keys.
LEMMA NodeKept ==
    ASSUME NEW ns, NEW ns2, NEW y \in DOMAIN ns, DOMAIN ns \subseteq DOMAIN ns2,
           ns2[y] = ns[y], NodeOK(ns, y),
           \A x \in DOMAIN ns2 : x[1] = y[1] /\ y[2] < x[2] =>
               x \in DOMAIN ns \/ \A i \in 1 .. Len(ns[y].keys) : ns[y].keys[i] < x[2]
    PROVE  NodeOK(ns2, y)
<1>1. ASSUME Within(ns, y, ns[y].keys)
      PROVE  Within(ns2, y, ns[y].keys)
  BY <1>1 DEF Within
<1>2. ASSUME LeafShape(ns, y, ns[y])
      PROVE  LeafShape(ns2, y, ns2[y])
  BY <1>1, <1>2 DEF LeafShape
<1>3. ASSUME InnerShape(ns, y, ns[y].keys, ns[y].children)
      PROVE  InnerShape(ns2, y, ns2[y].keys, ns2[y].children)
  BY <1>1, <1>3 DEF InnerShape
<1> QED
  BY <1>2, <1>3 DEF NodeOK

\* So is the chain, if the leaves keep their successors.
LEMMA ChainKept ==
    ASSUME NEW ns, NEW ns2, DOMAIN ns \subseteq DOMAIN ns2,
           \A x \in DOMAIN ns2 : x[1] = 0 => x \in DOMAIN ns /\ ns2[x].next = ns[x].next
    PROVE  Chained(ns) => Chained(ns2)
<1> SUFFICES ASSUME Chained(ns), NEW x \in DOMAIN ns2, x[1] = 0
             PROVE  IF ns2[x].next = NoNode
                    THEN \A y \in DOMAIN ns2 : y[1] = 0 => y[2] <= x[2]
                    ELSE LET z == ns2[x].next
                         IN  /\ z \in DOMAIN ns2 /\ z[1] = 0 /\ x[2] < z[2]
                             /\ \A y \in DOMAIN ns2 : y[1] = 0 => y[2] <= x[2] \/ z[2] <= y[2]
  BY DEF Chained
<1>1. x \in DOMAIN ns /\ ns2[x].next = ns[x].next
  OBVIOUS
<1>2. \A y \in DOMAIN ns2 : y[1] = 0 => y \in DOMAIN ns
  OBVIOUS
<1>3. CASE ns[x].next = NoNode
  <2>1. \A y \in DOMAIN ns : y[1] = 0 => y[2] <= x[2]
    BY <1>1, <1>3 DEF Chained
  <2> QED
    BY <1>1, <1>2, <1>3, <2>1
<1>4. CASE ns[x].next # NoNode
  <2> DEFINE z == ns[x].next
  <2>1. /\ z \in DOMAIN ns /\ z[1] = 0 /\ x[2] < z[2]
        /\ \A y \in DOMAIN ns : y[1] = 0 => y[2] <= x[2] \/ z[2] <= y[2]
    BY <1>1, <1>4 DEF Chained
  <2> QED
    BY <1>1, <1>2, <1>4, <2>1
<1> QED
  BY <1>3, <1>4

\* Beside a node that covers the new name's key, nodes have smaller keys or
\* larger names.
LEMMA BesideKept ==
    ASSUME NEW ns, NEW ns2, DOMAIN ns \subseteq Name, NEW y \in DOMAIN ns,
           DOMAIN ns \subseteq DOMAIN ns2,
           ns2[y] = ns[y], NodeOK(ns, y), NEW id, NEW up \in Nat, Covers(ns, id, up),
           id[2] < up, y # id, y[1] = id[1],
           \A x \in DOMAIN ns2 : x[1] = id[1] => x \in DOMAIN ns \/ x = <<id[1], up>>
    PROVE  NodeOK(ns2, y)
<1> SUFFICES ASSUME NEW x \in DOMAIN ns2, x[1] = y[1], y[2] < x[2], x \notin DOMAIN ns,
                    NEW i \in 1 .. Len(ns[y].keys)
             PROVE  ns[y].keys[i] < x[2]
  BY NodeKept
<1>1. x[2] = up /\ x[1] = id[1]
  OBVIOUS
<1>2. y[1] \in Nat /\ y[2] \in Nat /\ id \in DOMAIN ns /\ id[2] \in Nat /\ id[1] \in Nat
  BY NameFacts DEF Covers
<1>3. y[2] <= id[2] /\ y[2] # id[2]
  <2>1. y[2] <= id[2]
    BY <1>1, <1>2 DEF Covers
  <2>2. y = <<y[1], y[2]>> /\ id = <<id[1], id[2]>>
    BY <1>2, NameFacts
  <2> QED
    BY <2>1, <2>2
<1>4. Within(ns, y, ns[y].keys)
  BY InnerNode DEF LeafShape, InnerShape
<1>5. ns[y].keys[i] < id[2] /\ ns[y].keys[i] \in Nat
  <2>1. ns[y].keys[i] \in Nat
    BY <1>4, KeyFacts DEF Within
  <2> QED
    BY <1>2, <1>3, <1>4, <2>1 DEF Within
<1> QED
  BY <1>1, <1>2, <1>5

-------------------------------------------------------------------------------
(* The keys of a leaf with their rows.                                      *)

\* What a leaf holds after a pair was put in.
LEMMA PairsInserted ==
    ASSUME NEW keys \in Seq(Key), NEW vals \in Seq(Row), Len(vals) = Len(keys),
           NEW i \in 1 .. Len(keys) + 1, NEW key \in Key, NEW rid \in Row,
           \A n \in 1 .. Len(keys) : keys[n] # key,
           NEW j, NEW v
    PROVE  PairIn(InsertAt(keys, i, key), InsertAt(vals, i, rid), j, v)
           <=> IF j = key THEN v = rid ELSE PairIn(keys, vals, j, v)
<1> DEFINE ks == InsertAt(keys, i, key)
           vs == InsertAt(vals, i, rid)
<1>1. Len(keys) \in Nat /\ i \in Nat
  BY KeyFacts
<1>2. /\ Len(ks) = Len(keys) + 1
      /\ \A n \in 1 .. i - 1 : ks[n] = keys[n]
      /\ ks[i] = key
      /\ \A n \in i + 1 .. Len(keys) + 1 : ks[n] = keys[n - 1]
  <2>1. keys \in Seq(Key) /\ i \in 1 .. Len(keys) + 1 /\ key \in Key
    OBVIOUS
  <2> QED
    BY ONLY <2>1, Inserting
<1>3. /\ \A n \in 1 .. i - 1 : vs[n] = vals[n]
      /\ vs[i] = rid
      /\ \A n \in i + 1 .. Len(keys) + 1 : vs[n] = vals[n - 1]
  BY Inserting
<1> HIDE DEF ks, vs
<1>4. ASSUME NEW n \in 1 .. Len(keys) + 1, ks[n] = j, vs[n] = v
      PROVE  IF j = key THEN v = rid ELSE PairIn(keys, vals, j, v)
  <2>1. CASE n = i
    BY <1>2, <1>3, <1>4, <2>1
  <2>2. CASE n < i
    <3>1. n \in 1 .. i - 1 /\ n \in 1 .. Len(keys)
      BY <1>1, <2>2
    <3> QED
      BY <1>2, <1>3, <1>4, <3>1 DEF PairIn
  <2>3. CASE n > i
    <3>1. n \in i + 1 .. Len(keys) + 1 /\ n - 1 \in 1 .. Len(keys)
      BY <1>1, <2>3
    <3> QED
      BY <1>2, <1>3, <1>4, <3>1 DEF PairIn
  <2> QED
    BY <1>1, <2>1, <2>2, <2>3
<1>5. ASSUME IF j = key THEN v = rid ELSE PairIn(keys, vals, j, v)
      PROVE  \E n \in 1 .. Len(keys) + 1 : ks[n] = j /\ vs[n] = v
  <2>1. CASE j = key
    <3>1. i \in 1 .. Len(keys) + 1
      OBVIOUS
    <3> QED
      BY <1>2, <1>3, <1>5, <2>1, <3>1
  <2>2. CASE j # key
    <3>1. PICK n \in 1 .. Len(keys) : keys[n] = j /\ vals[n] = v
      BY <1>5, <2>2 DEF PairIn
    <3>2. CASE n < i
      <4>1. n \in 1 .. i - 1 /\ n \in 1 .. Len(keys) + 1
        BY <1>1, <3>2
      <4> QED
        BY <1>2, <1>3, <3>1, <4>1
    <3>3. CASE n >= i
      <4>1. n + 1 \in i + 1 .. Len(keys) + 1 /\ n + 1 \in 1 .. Len(keys) + 1 /\ (n + 1) - 1 = n
        BY <1>1, <3>3
      <4> QED
        BY <1>2, <1>3, <3>1, <4>1
    <3> QED
      BY <1>1, <3>2, <3>3
  <2> QED
    BY <2>1, <2>2
<1> QED
  BY <1>2, <1>4, <1>5 DEF PairIn, ks, vs

\* What a leaf holds after a pair was taken out.
LEMMA PairsRemoved ==
    ASSUME NEW keys \in Seq(Key), Sorted(keys), NEW vals \in Seq(Row), Len(vals) = Len(keys),
           NEW i \in 1 .. Len(keys), NEW j, NEW v
    PROVE  PairIn(RemoveAt(keys, i), RemoveAt(vals, i), j, v)
           <=> j # keys[i] /\ PairIn(keys, vals, j, v)
<1> DEFINE ks == RemoveAt(keys, i)
           vs == RemoveAt(vals, i)
<1>1. /\ Len(keys) \in Nat /\ i \in Nat
      /\ \A n \in 1 .. Len(keys) : keys[n] \in Nat
      /\ DOMAIN keys = 1 .. Len(keys)
  BY KeyFacts
<1>2. /\ Len(ks) = Len(keys) - 1
      /\ \A n \in 1 .. i - 1 : ks[n] = keys[n]
      /\ \A n \in i .. Len(keys) - 1 : ks[n] = keys[n + 1]
  BY Removing
<1>3. /\ \A n \in 1 .. i - 1 : vs[n] = vals[n]
      /\ \A n \in i .. Len(keys) - 1 : vs[n] = vals[n + 1]
  BY Removing
<1> HIDE DEF ks, vs
<1>4. \A n \in 1 .. Len(keys) : n # i => keys[n] # keys[i]
  <2> SUFFICES ASSUME NEW n \in 1 .. Len(keys), n # i PROVE keys[n] # keys[i]
    OBVIOUS
  <2>1. keys[n] \in Nat /\ keys[i] \in Nat /\ n \in DOMAIN keys /\ i \in DOMAIN keys
    BY <1>1
  <2>2. n < i => keys[n] < keys[i]
    BY <2>1 DEF Sorted
  <2>3. i < n => keys[i] < keys[n]
    BY <2>1 DEF Sorted
  <2>4. n < i \/ i < n
    BY <1>1
  <2> QED
    BY <2>1, <2>2, <2>3, <2>4
<1>5. ASSUME NEW n \in 1 .. Len(keys) - 1, ks[n] = j, vs[n] = v
      PROVE  j # keys[i] /\ PairIn(keys, vals, j, v)
  <2>1. CASE n < i
    <3>1. n \in 1 .. i - 1 /\ n \in 1 .. Len(keys) /\ n # i
      BY <1>1, <2>1
    <3> QED
      BY <1>2, <1>3, <1>4, <1>5, <3>1 DEF PairIn
  <2>2. CASE n >= i
    <3>1. n \in i .. Len(keys) - 1 /\ n + 1 \in 1 .. Len(keys) /\ n + 1 # i
      BY <1>1, <2>2
    <3> QED
      BY <1>2, <1>3, <1>4, <1>5, <3>1 DEF PairIn
  <2> QED
    BY <1>1, <2>1, <2>2
<1>6. ASSUME j # keys[i], PairIn(keys, vals, j, v)
      PROVE  \E n \in 1 .. Len(keys) - 1 : ks[n] = j /\ vs[n] = v
  <2>1. PICK n \in 1 .. Len(keys) : keys[n] = j /\ vals[n] = v
    BY <1>6 DEF PairIn
  <2>2. CASE n < i
    <3>1. n \in 1 .. i - 1 /\ n \in 1 .. Len(keys) - 1
      BY <1>1, <2>2
    <3> QED
      BY <1>2, <1>3, <2>1, <3>1
  <2>3. CASE n > i
    <3>1. n - 1 \in i .. Len(keys) - 1 /\ n - 1 \in 1 .. Len(keys) - 1 /\ (n - 1) + 1 = n
      BY <1>1, <2>3
    <3> QED
      BY <1>2, <1>3, <2>1, <3>1
  <2> QED
    BY <1>1, <1>6, <2>1, <2>2, <2>3
<1> QED
  BY <1>2, <1>5, <1>6 DEF PairIn, ks, vs

\* What a leaf held is in one of its halves.
LEMMA PairsSplit ==
    ASSUME NEW keys \in Seq(Key), NEW vals \in Seq(Row), Len(vals) = Len(keys),
           NEW m \in 0 .. Len(keys), NEW j, NEW v
    PROVE  PairIn(keys, vals, j, v) <=> \/ PairIn(Lower(keys, m), Lower(vals, m), j, v)
                                        \/ PairIn(Upper(keys, m), Upper(vals, m), j, v)
<1>1. Len(keys) \in Nat /\ m \in Nat
  BY KeyFacts
<1>2. /\ Len(Lower(keys, m)) = m
      /\ \A n \in 1 .. m : Lower(keys, m)[n] = keys[n]
      /\ Len(Upper(keys, m)) = Len(keys) - m
      /\ \A n \in 1 .. Len(keys) - m : Upper(keys, m)[n] = keys[m + n]
  BY Parts
<1>3. /\ \A n \in 1 .. m : Lower(vals, m)[n] = vals[n]
      /\ \A n \in 1 .. Len(keys) - m : Upper(vals, m)[n] = vals[m + n]
  <2>1. vals \in Seq(Row) /\ m \in 0 .. Len(vals)
    OBVIOUS
  <2> QED
    BY <2>1, Parts
<1>4. ASSUME NEW n \in 1 .. Len(keys), keys[n] = j, vals[n] = v
      PROVE  \/ PairIn(Lower(keys, m), Lower(vals, m), j, v)
             \/ PairIn(Upper(keys, m), Upper(vals, m), j, v)
  <2>1. CASE n <= m
    <3>1. n \in 1 .. m
      BY <1>1, <2>1
    <3> QED
      BY <1>2, <1>3, <1>4, <3>1 DEF PairIn
  <2>2. CASE n > m
    <3>1. n - m \in 1 .. Len(keys) - m /\ m + (n - m) = n
      BY <1>1, <2>2
    <3> QED
      BY <1>2, <1>3, <1>4, <3>1 DEF PairIn
  <2> QED
    BY <1>1, <2>1, <2>2
<1>5. ASSUME NEW n \in 1 .. m, Lower(keys, m)[n] = j, Lower(vals, m)[n] = v
      PROVE  PairIn(keys, vals, j, v)
  <2>1. n \in 1 .. Len(keys)
    BY <1>1
  <2> QED
    BY <1>2, <1>3, <1>5, <2>1 DEF PairIn
<1>6. ASSUME NEW n \in 1 .. Len(keys) - m, Upper(keys, m)[n] = j, Upper(vals, m)[n] = v
      PROVE  PairIn(keys, vals, j, v)
  <2>1. m + n \in 1 .. Len(keys)
    BY <1>1
  <2> QED
    BY <1>2, <1>3, <1>6, <2>1 DEF PairIn
<1> QED
  BY <1>2, <1>4, <1>5, <1>6 DEF PairIn

\* Only the leaf that covers a key has changed, and leaves were added, which
\* together differ from the former leaf in that key's rows, which are now R.
LeafChanged(ns, id, key, R, ns2) ==
    /\ id[1] = 0
    /\ Covers(ns, id, key)
    /\ DOMAIN ns \subseteq DOMAIN ns2
    /\ \A x \in DOMAIN ns : x[1] = 0 /\ x # id => ns2[x] = ns[x]
    /\ \A j \in Key : \A v :
           (\E x \in DOMAIN ns2 : /\ x[1] = 0
                                  /\ x = id \/ x \notin DOMAIN ns
                                  /\ PairIn(ns2[x].keys, ns2[x].vals, j, v))
           <=> IF j = key THEN v \in R ELSE PairIn(ns[id].keys, ns[id].vals, j, v)

\* A change to the one leaf that covers a key leaves the rows of other keys.
LEMMA RowsChanged ==
    ASSUME NEW ns, NEW h \in Nat, UpTo(ns, h), NEW key \in Key, NEW id, NEW R, NEW ns2,
           LeafChanged(ns, id, key, R, ns2), NEW j \in Key, NEW v
    PROVE  RowIn(ns2, j, v) <=> IF j = key THEN v \in R ELSE RowIn(ns, j, v)
<1> USE DEF LeafChanged
<1>1. id \in DOMAIN ns /\ DOMAIN ns \subseteq Name
  BY DEF Covers, UpTo
<1>2. ASSUME NEW x \in DOMAIN ns, x[1] = 0, x # id, PairIn(ns[x].keys, ns[x].vals, key, v)
      PROVE  FALSE
  <2>1. PICK i \in 1 .. Len(ns[x].keys) : ns[x].keys[i] = key
    BY <1>2 DEF PairIn
  <2>2. Covers(ns, x, key)
    BY <1>2, <2>1, HolderCovers
  <2> QED
    BY <1>1, <1>2, <2>2, CoversOne
<1>3. ASSUME RowIn(ns2, j, v)
      PROVE  IF j = key THEN v \in R ELSE RowIn(ns, j, v)
  <2>1. PICK x \in DOMAIN ns2 : x[1] = 0 /\ PairIn(ns2[x].keys, ns2[x].vals, j, v)
    BY <1>3 DEF RowIn
  <2>2. CASE x = id \/ x \notin DOMAIN ns
    BY <1>1, <2>1, <2>2 DEF RowIn
  <2>3. CASE x # id /\ x \in DOMAIN ns
    <3>1. PairIn(ns[x].keys, ns[x].vals, j, v)
      BY <2>1, <2>3
    <3> QED
      BY <1>2, <2>1, <2>3, <3>1 DEF RowIn
  <2> QED
    BY <2>2, <2>3
<1>4. ASSUME IF j = key THEN v \in R ELSE RowIn(ns, j, v)
      PROVE  RowIn(ns2, j, v)
  <2>1. CASE j = key
    BY <1>4, <2>1 DEF RowIn
  <2>2. CASE j # key
    <3>1. PICK x \in DOMAIN ns : x[1] = 0 /\ PairIn(ns[x].keys, ns[x].vals, j, v)
      BY <1>4, <2>2 DEF RowIn
    <3>2. CASE x = id
      BY <2>2, <3>1, <3>2 DEF RowIn
    <3>3. CASE x # id
      <4>1. ns2[x] = ns[x] /\ x \in DOMAIN ns2
        BY <3>1, <3>3
      <4> QED
        BY <3>1, <4>1 DEF RowIn
    <3> QED
      BY <3>2, <3>3
  <2> QED
    BY <2>1, <2>2
<1> QED
  BY <1>3, <1>4

-------------------------------------------------------------------------------
(* What insertInto does below a node.                                       *)

\* What has become of the nodes, of which those above id are not yet told of
\* the node that was split off.
Grown(id, res) ==
    /\ DOMAIN nodes \subseteq DOMAIN res.nodes
    /\ UpTo(res.nodes, id[1])
    /\ \A x \in DOMAIN nodes : x[1] > id[1] => res.nodes[x] = nodes[x]
    /\ \A x \in DOMAIN res.nodes :
           x \in DOMAIN nodes \/ x[1] < id[1] \/ (res.split /\ x = res.new_right)

SplitOff(id, res) ==
    res.split => /\ res.new_right = <<id[1], res.up_key>>
                 /\ res.new_right \in DOMAIN res.nodes \ DOMAIN nodes
                 /\ res.up_key \in Key
                 /\ id[2] < res.up_key
                 /\ Covers(nodes, id, res.up_key)

Stored(key, rid, ns) ==
    \A j \in Key : \A v : RowIn(ns, j, v) <=> IF j = key THEN v \in {rid} ELSE RowIn(nodes, j, v)

Result(id, key, rid, res) ==
    /\ Grown(id, res) /\ SplitOff(id, res) /\ Stored(key, rid, res.nodes)
    /\ Chained(nodes) => Chained(res.nodes)

\* The fields of the records that the operators make.
LEMMA RecordFacts ==
    /\ \A ns : Whole(ns).nodes = ns /\ Whole(ns).split = FALSE
    /\ \A ns, key, right : /\ Split(ns, key, right).nodes = ns
                           /\ Split(ns, key, right).split = TRUE
                           /\ Split(ns, key, right).up_key = key
                           /\ Split(ns, key, right).new_right = right
    /\ \A keys, vals, next : /\ Leaf(keys, vals, next).leaf = TRUE
                             /\ Leaf(keys, vals, next).keys = keys
                             /\ Leaf(keys, vals, next).vals = vals
                             /\ Leaf(keys, vals, next).next = next
    /\ \A keys, children : /\ Inner(keys, children).leaf = FALSE
                           /\ Inner(keys, children).keys = keys
                           /\ Inner(keys, children).children = children
BY DEF Whole, Split, Leaf, Inner

\* The type of a new leaf.
LEMMA LeafType ==
    ASSUME NEW keys \in Seq(Key), NEW vals \in Seq(Row), NEW next \in Name \cup {NoNode}
    PROVE  Leaf(keys, vals, next) \in NodeType
<1>1. <<>> \in Seq(Name)
  OBVIOUS
<1> QED
  BY <1>1 DEF Leaf, NodeType

\* The type of a new inner node.
LEMMA InnerType ==
    ASSUME NEW keys \in Seq(Key), NEW children \in Seq(Name)
    PROVE  Inner(keys, children) \in NodeType
<1>1. <<>> \in Seq(Row)
  OBVIOUS
<1> QED
  BY <1>1 DEF Inner, NodeType

\* A leaf for another, without a split.
LEMMA LeafReplaced ==
    ASSUME NEW h \in Nat, UpTo(nodes, h), NEW key \in Key, NEW id, id[1] = 0,
           Covers(nodes, id, key), NEW rid,
           NEW ns, DOMAIN ns = DOMAIN nodes,
           \A x \in DOMAIN nodes : x # id => ns[x] = nodes[x],
           ns[id] \in NodeType, ns[id].leaf, LeafShape(nodes, id, ns[id]),
           Len(ns[id].keys) < ORDER, ns[id].next = nodes[id].next,
           \A j \in Key : \A v :
               PairIn(ns[id].keys, ns[id].vals, j, v)
               <=> IF j = key THEN v \in {rid} ELSE PairIn(nodes[id].keys, nodes[id].vals, j, v)
    PROVE  Result(id, key, rid, Whole(ns))
<1>1. id \in DOMAIN nodes /\ DOMAIN nodes \subseteq Name
  BY DEF Covers, UpTo
<1>2. \A x \in DOMAIN nodes : x[1] \in Nat
  BY <1>1, NameFacts
<1>3. NodeOK(ns, id)
  BY <1>1 DEF NodeOK, LeafShape, Within
<1>4. ASSUME NEW x \in DOMAIN ns, x[1] <= 0
      PROVE  NodeOK(ns, x)
  <2>1. CASE x = id
    BY <1>3, <2>1
  <2>2. CASE x # id
    <3>1. NodeOK(nodes, x) /\ ns[x] = nodes[x]
      BY <1>2, <1>4, <2>2 DEF UpTo
    <3> QED
      BY <3>1, NodeKept
  <2> QED
    BY <2>1, <2>2
<1>5. UpTo(ns, 0)
  BY <1>1, <1>2, <1>4 DEF UpTo
<1>6. Grown(id, Whole(ns))
  <2> DEFINE res == Whole(ns)
  <2>1. res.nodes = ns /\ res.split = FALSE
    BY RecordFacts
  <2> HIDE DEF res
  <2>2. Grown(id, res)
    BY <1>1, <1>2, <1>5, <2>1 DEF Grown
  <2> QED
    BY <2>2 DEF res
<1>7. SplitOff(id, Whole(ns))
  BY RecordFacts DEF SplitOff
<1>8. Stored(key, rid, ns)
  <2> SUFFICES ASSUME NEW j \in Key, NEW v
               PROVE  RowIn(ns, j, v) <=> IF j = key THEN v \in {rid} ELSE RowIn(nodes, j, v)
    BY DEF Stored
  <2>1. LeafChanged(nodes, id, key, {rid}, ns)
    BY <1>1 DEF LeafChanged
  <2> QED
    BY <2>1, RowsChanged
<1>9. Chained(nodes) => Chained(ns)
  BY <1>1, ChainKept
<1> QED
  BY <1>6, <1>7, <1>8, <1>9, RecordFacts DEF Result

\* What a leaf is about to hold: all of LeafShape but the successor.
Holding(ns, id, keys, vals) ==
    /\ Within(ns, id, keys)
    /\ \A i \in 1 .. Len(keys) : id[2] <= keys[i]
    /\ vals \in Seq(Row)
    /\ Len(vals) = Len(keys)
    /\ \A i \in 1 .. Len(keys) : vals[i] \in Rows[keys[i]]

\* The pairs of a leaf after an insertion.
PairsStored(id, key, rid, keys, vals) ==
    \A j \in Key : \A v :
        PairIn(keys, vals, j, v)
        <=> IF j = key THEN v \in {rid} ELSE PairIn(nodes[id].keys, nodes[id].vals, j, v)

\* The type of a row.
LEMMA RowsAreRows ==
    ASSUME NEW key \in Key, NEW rid \in Rows[key]
    PROVE  rid \in Row
BY DEF Row

\* An insertion that overwrites a row is done.
LEMMA ValueReplaced ==
    ASSUME NEW h \in Nat, UpTo(nodes, h), NEW key \in Key, NEW id, id[1] = 0,
           Covers(nodes, id, key), NEW rid \in Rows[key],
           NEW pos \in 1 .. Len(nodes[id].keys), nodes[id].keys[pos] = key
    PROVE  Result(id, key, rid, Whole([nodes EXCEPT ![id].vals[pos] = rid]))
<1> DEFINE n == nodes[id]
           vals == [n.vals EXCEPT ![pos] = rid]
           m == [n EXCEPT !.vals = vals]
           ns == [nodes EXCEPT ![id] = m]
<1>1. id \in DOMAIN nodes
  BY DEF Covers
<1>2. /\ n.leaf /\ LeafShape(nodes, id, n) /\ n \in NodeType
      /\ n.keys \in Seq(Key) /\ Sorted(n.keys) /\ n.vals \in Seq(Row)
      /\ Len(n.vals) = Len(n.keys) /\ Len(n.keys) < ORDER
  BY <1>1, LeafFacts
<1>3. /\ Len(n.keys) \in Nat /\ DOMAIN n.keys = 1 .. Len(n.keys) /\ pos \in Nat
      /\ \A i \in 1 .. Len(n.keys) : n.keys[i] \in Nat
  BY <1>2, KeyFacts
<1>4. rid \in Row
  BY RowsAreRows
<1>5. /\ vals \in Seq(Row) /\ Len(vals) = Len(n.vals) /\ vals[pos] = rid
      /\ \A i \in 1 .. Len(n.keys) : i # pos => vals[i] = n.vals[i]
  BY <1>2, <1>3, <1>4
<1> HIDE DEF vals
<1>6. /\ m \in NodeType /\ m.leaf = n.leaf /\ m.keys = n.keys /\ m.vals = vals
      /\ m.next = n.next
  BY <1>2, <1>5 DEF NodeType
<1> HIDE DEF m
<1>7. /\ DOMAIN ns = DOMAIN nodes /\ ns[id] = m
      /\ \A x \in DOMAIN nodes : x # id => ns[x] = nodes[x]
  BY <1>1
<1>8. [nodes EXCEPT ![id].vals[pos] = rid] = ns
  BY DEF m, vals
<1> HIDE DEF ns
<1>9. LeafShape(nodes, id, m)
  BY <1>2, <1>5, <1>6 DEF LeafShape
<1>10. ASSUME NEW i \in 1 .. Len(n.keys), n.keys[i] = key
       PROVE  i = pos
  <2>1. i \in DOMAIN n.keys /\ pos \in DOMAIN n.keys
    BY <1>3
  <2> QED
    BY <1>2, <1>10, <2>1, FoundAt
<1>11. ASSUME NEW j \in Key, NEW v
       PROVE  PairIn(m.keys, m.vals, j, v) <=> IF j = key THEN v \in {rid}
                                               ELSE PairIn(n.keys, n.vals, j, v)
  <2>1. CASE j = key
    BY <1>5, <1>6, <1>10, <2>1 DEF PairIn
  <2>2. CASE j # key
    BY <1>5, <1>6, <2>2 DEF PairIn
  <2> QED
    BY <2>1, <2>2
<1>12. Len(m.keys) < ORDER /\ m.leaf
  BY <1>2, <1>6
<1>13. Result(id, key, rid, Whole(ns))
  BY <1>6, <1>7, <1>9, <1>11, <1>12, LeafReplaced
<1> QED
  BY <1>8, <1>13

\* A key that is not there, inserted at its lower bound.
LEMMA LeafWidened ==
    ASSUME NEW h \in Nat, UpTo(nodes, h), NEW key \in Key, NEW id, id[1] = 0,
           Covers(nodes, id, key), NEW rid \in Rows[key],
           ~Holds(nodes[id], key)
    PROVE  LET pos  == lower_bound(nodes[id].keys, key)
               keys == InsertAt(nodes[id].keys, pos, key)
               vals == InsertAt(nodes[id].vals, pos, rid)
           IN  /\ Holding(nodes, id, keys, vals)
               /\ PairsStored(id, key, rid, keys, vals)
               /\ Len(keys) \in 1 .. ORDER
<1> DEFINE n == nodes[id]
           pos == lower_bound(n.keys, key)
           keys == InsertAt(n.keys, pos, key)
           vals == InsertAt(n.vals, pos, rid)
<1>1. id \in DOMAIN nodes /\ DOMAIN nodes \subseteq Name /\ rid \in Row /\ id[2] <= key
  BY RowsAreRows DEF Covers, UpTo
<1>2. /\ n.leaf /\ LeafShape(nodes, id, n) /\ n \in NodeType
      /\ n.keys \in Seq(Key) /\ Sorted(n.keys) /\ n.vals \in Seq(Row)
      /\ Len(n.vals) = Len(n.keys) /\ Len(n.keys) < ORDER
  BY <1>1, LeafFacts
<1>3. /\ Len(n.keys) \in Nat /\ DOMAIN n.keys = 1 .. Len(n.keys) /\ key \in Nat
      /\ \A i \in 1 .. Len(n.keys) : n.keys[i] \in Nat
  BY <1>2, KeyFacts, KeyAssumption
<1>4. pos \in 1 .. Len(n.keys) + 1 /\ \A i \in 1 .. Len(n.keys) : n.keys[i] < key <=> i < pos
  BY <1>2, LowerBoundIs
<1>5. \A i \in 1 .. Len(n.keys) : n.keys[i] # key
  BY <1>3 DEF Holds
<1> HIDE DEF pos
<1>6. Sorted(keys)
  <2>1. \A i \in 1 .. Len(n.keys) : i < pos => n.keys[i] < key
    BY <1>4
  <2>2. \A i \in 1 .. Len(n.keys) : pos <= i => key < n.keys[i]
    BY <1>3, <1>4, <1>5
  <2> HIDE DEF n
  <2> QED
    BY <1>2, <1>4, <2>1, <2>2, SortedInsert
<1>7. keys \in Seq(Key) /\ Len(keys) = Len(n.keys) + 1
  BY <1>2, <1>4, Inserting
<1>8. vals \in Seq(Row) /\ Len(vals) = Len(keys)
  <2>1. pos \in 1 .. Len(n.vals) + 1
    BY <1>2, <1>4
  <2>2. vals \in Seq(Row) /\ Len(vals) = Len(n.vals) + 1
    BY <1>1, <1>2, <2>1, Inserting
  <2> QED
    BY <1>2, <1>7, <2>2
<1>9. \A j, v : PairIn(keys, vals, j, v)
                <=> IF j = key THEN v = rid ELSE PairIn(n.keys, n.vals, j, v)
  <2> DEFINE s == n.keys
             t == n.vals
  <2>1. /\ s \in Seq(Key) /\ t \in Seq(Row) /\ Len(t) = Len(s) /\ pos \in 1 .. Len(s) + 1
        /\ rid \in Row /\ \A i \in 1 .. Len(s) : s[i] # key
    BY <1>1, <1>2, <1>4, <1>5
  <2> HIDE DEF s, t, n
  <2>2. \A j, v : PairIn(InsertAt(s, pos, key), InsertAt(t, pos, rid), j, v)
                  <=> IF j = key THEN v = rid ELSE PairIn(s, t, j, v)
    BY ONLY <2>1, key \in Key, PairsInserted
  <2> QED
    BY <2>2 DEF s, t
<1>10. \A i \in 1 .. Len(keys) : keys[i] = key \/ \E m \in 1 .. Len(n.keys) : keys[i] = n.keys[m]
  <2>1. \A i \in 1 .. Len(n.keys) + 1 :
            keys[i] = key \/ \E m \in 1 .. Len(n.keys) : keys[i] = n.keys[m]
    <3> DEFINE s == n.keys
    <3>1. s \in Seq(Key) /\ pos \in 1 .. Len(s) + 1 /\ key \in Key
      BY <1>2, <1>4
    <3> HIDE DEF s
    <3>2. \A i \in 1 .. Len(s) + 1 :
              \/ InsertAt(s, pos, key)[i] = key
              \/ \E m \in 1 .. Len(s) : InsertAt(s, pos, key)[i] = s[m]
      BY <3>1, InsertedValues
    <3> QED
      BY <3>2 DEF s
  <2> QED
    BY <1>7, <2>1
<1> HIDE DEF keys, vals
<1>11. PairsStored(id, key, rid, keys, vals)
  BY <1>9 DEF PairsStored
<1>12. \A x \in DOMAIN nodes : x[1] = id[1] /\ id[2] < x[2] => key < x[2]
  <2> SUFFICES ASSUME NEW x \in DOMAIN nodes, x[1] = id[1], id[2] < x[2] PROVE key < x[2]
    OBVIOUS
  <2>1. x[2] \in Nat /\ id[2] \in Nat
    BY <1>1, NameFacts
  <2> QED
    BY <1>3, <2>1 DEF Covers
<1>13. Within(nodes, id, keys)
  <2>1. Within(nodes, id, n.keys)
    BY <1>2 DEF LeafShape
  <2> QED
    BY <1>6, <1>7, <1>10, <1>12, <2>1 DEF Within
<1>14. \A i \in 1 .. Len(keys) : id[2] <= keys[i]
  BY <1>1, <1>2, <1>10 DEF LeafShape
<1>15. \A i \in 1 .. Len(keys) : vals[i] \in Rows[keys[i]]
  <2> SUFFICES ASSUME NEW i \in 1 .. Len(keys) PROVE vals[i] \in Rows[keys[i]]
    OBVIOUS
  <2>1. PairIn(keys, vals, keys[i], vals[i])
    BY DEF PairIn
  <2>2. CASE keys[i] = key
    BY <1>9, <2>1, <2>2
  <2>3. CASE keys[i] # key
    <3>1. PairIn(n.keys, n.vals, keys[i], vals[i])
      BY <1>9, <2>1, <2>3
    <3>2. PICK m \in 1 .. Len(n.keys) : n.keys[m] = keys[i] /\ n.vals[m] = vals[i]
      BY <3>1 DEF PairIn
    <3> QED
      BY <1>2, <3>2 DEF LeafShape
  <2> QED
    BY <2>2, <2>3
<1>16. Len(keys) \in 1 .. ORDER
  BY <1>2, <1>3, <1>7, OrderAssumption
<1> QED
  BY <1>8, <1>11, <1>13, <1>14, <1>15, <1>16 DEF Holding, keys, vals, n, pos

\* A split leaves keys on both sides.
LEMMA Half ==
    ASSUME NEW n \in Nat, n >= 3
    PROVE  n \div 2 \in 1 .. n - 2
OBVIOUS

\* What insertInto has left when it comes back to node id: the nodes of id's
\* height and above are the old ones, those below are as they should be, and
\* have parents but for the children of id's level.
Beneath(id, ns) ==
    /\ DOMAIN nodes \subseteq DOMAIN ns
    /\ DOMAIN ns \subseteq Name
    /\ \A x \in DOMAIN ns : x \in DOMAIN nodes \/ x[1] < id[1]
    /\ \A x \in DOMAIN nodes : x[1] >= id[1] => ns[x] = nodes[x]
    /\ \A x \in DOMAIN ns : x[1] < id[1] => NodeOK(ns, x)
    /\ \A x \in DOMAIN ns : x[1] + 1 < id[1] => \E y \in DOMAIN ns : Under(ns, x, y)

\* The children of id's level have parents too.
Parents(id, below, ns) ==
    \A x \in DOMAIN below : x[1] + 1 = id[1] => \E y \in DOMAIN ns : Under(ns, x, y)

\* Node id changes and one is split off on its right.
Apart(id, below, up, ns) ==
    /\ DOMAIN ns = DOMAIN below \cup {<<id[1], up>>}
    /\ \A x \in DOMAIN below : x # id => ns[x] = below[x]

\* A node that was split reports a well-formed tree below and its new sibling.
LEMMA SplitDone ==
    ASSUME NEW h \in Nat, UpTo(nodes, h), NEW id, id[1] <= h,
           NEW below, Beneath(id, below),
           NEW up \in Key, id[2] < up, Covers(nodes, id, up),
           NEW ns, Apart(id, below, up, ns), Parents(id, below, ns),
           NodeOK(ns, id), NodeOK(ns, <<id[1], up>>)
    PROVE  LET right == <<id[1], up>>
           IN  /\ Grown(id, Split(ns, up, right))
               /\ SplitOff(id, Split(ns, up, right))
<1> DEFINE right == <<id[1], up>>
           res == Split(ns, up, right)
<1>1. /\ DOMAIN nodes \subseteq DOMAIN below /\ DOMAIN below \subseteq Name
      /\ \A x \in DOMAIN below : x \in DOMAIN nodes \/ x[1] < id[1]
      /\ \A x \in DOMAIN nodes : x[1] >= id[1] => below[x] = nodes[x]
      /\ \A x \in DOMAIN below : x[1] < id[1] => NodeOK(below, x)
      /\ \A x \in DOMAIN below : x[1] + 1 < id[1] => \E y \in DOMAIN below : Under(below, x, y)
  BY DEF Beneath
<1>2. /\ DOMAIN ns = DOMAIN below \cup {right}
      /\ \A x \in DOMAIN below : x # id => ns[x] = below[x]
  BY DEF Apart
<1>3. id \in DOMAIN nodes /\ DOMAIN nodes \subseteq Name /\ up \in Nat
  BY KeyAssumption DEF Covers, UpTo
<1>4. id[1] \in Nat /\ id[2] \in Nat
  BY <1>3, NameFacts
<1>5. right[1] = id[1] /\ right[2] = up /\ right \in Name
  BY <1>3, <1>4 DEF Name
<1>6. right \notin DOMAIN below
  <2> SUFFICES ASSUME right \in DOMAIN below PROVE FALSE
    OBVIOUS
  <2>1. right \in DOMAIN nodes
    BY <1>1, <1>4, <1>5
  <2>2. up <= id[2]
    BY <1>3, <1>5, <2>1 DEF Covers
  <2> QED
    BY <1>3, <1>4, <2>2
<1> HIDE DEF right
<1>7. DOMAIN ns \subseteq Name
  BY <1>1, <1>2, <1>5
<1>8. \A x \in DOMAIN ns : x[1] \in Nat
  BY <1>7, NameFacts
<1>9. ASSUME NEW x \in DOMAIN ns, x[1] <= id[1]
      PROVE  NodeOK(ns, x)
  <2>1. CASE x = id \/ x = right
    BY <2>1 DEF right
  <2>2. CASE x # id /\ x # right /\ x[1] < id[1]
    <3>1. x \in DOMAIN below /\ NodeOK(below, x) /\ ns[x] = below[x]
      BY <1>1, <1>2, <2>2
    <3>2. \A y \in DOMAIN ns : y[1] = x[1] => y \in DOMAIN below
      BY <1>2, <1>4, <1>5, <1>8, <2>2
    <3> QED
      BY <1>2, <3>1, <3>2, NodeKept
  <2>3. CASE x # id /\ x # right /\ x[1] = id[1]
    <3>1. x \in DOMAIN nodes
      BY <1>1, <1>2, <1>4, <2>3
    <3>2. NodeOK(nodes, x)
      <4>1. x[1] <= h
        BY <2>3
      <4> QED
        BY <3>1, <4>1 DEF UpTo
    <3>3. ns[x] = nodes[x]
      BY <1>1, <1>2, <1>4, <2>3, <3>1
    <3>4. DOMAIN nodes \subseteq DOMAIN ns
      BY <1>1, <1>2
    <3>5. \A y \in DOMAIN ns : y[1] = id[1] => y \in DOMAIN nodes \/ y = <<id[1], up>>
      BY <1>1, <1>2, <1>4 DEF right
    <3> QED
      BY <1>3, <2>3, <3>1, <3>2, <3>3, <3>4, <3>5, BesideKept
  <2> QED
    BY <1>4, <1>8, <1>9, <2>1, <2>2, <2>3
<1>10. ASSUME NEW x \in DOMAIN ns, x[1] < id[1]
       PROVE  \E y \in DOMAIN ns : Under(ns, x, y)
  <2>1. x \in DOMAIN below
    BY <1>2, <1>4, <1>5, <1>10
  <2>2. CASE x[1] + 1 = id[1]
    BY <2>1, <2>2 DEF Parents
  <2>3. CASE x[1] + 1 < id[1]
    <3>1. PICK y \in DOMAIN below : Under(below, x, y)
      BY <1>1, <2>1, <2>3
    <3>2. y # id /\ y \in DOMAIN ns
      BY <1>2, <1>4, <1>8, <2>3, <3>1 DEF Under
    <3>3. ns[y] = below[y]
      BY <1>2, <3>2
    <3>4. Under(ns, x, y)
      BY <3>1, <3>3 DEF Under
    <3> QED
      BY <3>2, <3>4
  <2> QED
    BY <1>4, <1>8, <1>10, <2>2, <2>3
<1>11. UpTo(ns, id[1])
  BY <1>7, <1>9, <1>10 DEF UpTo
<1>12. /\ res.nodes = ns /\ res.split = TRUE /\ res.up_key = up /\ res.new_right = right
  BY RecordFacts
<1> HIDE DEF res
<1>13. \A x \in DOMAIN nodes : x[1] > id[1] => ns[x] = nodes[x]
  <2> SUFFICES ASSUME NEW x \in DOMAIN nodes, x[1] > id[1] PROVE ns[x] = nodes[x]
    OBVIOUS
  <2>1. x[1] \in Nat /\ x # id /\ x \in DOMAIN below
    BY <1>1, <1>2, <1>4, <1>8
  <2> QED
    BY <1>1, <1>2, <1>4, <2>1
<1>14. Grown(id, res)
  BY <1>1, <1>2, <1>11, <1>12, <1>13 DEF Grown
<1>15. SplitOff(id, res)
  <2>1. res.new_right = <<id[1], res.up_key>>
    BY <1>12 DEF right
  <2>2. res.new_right \in DOMAIN res.nodes \ DOMAIN nodes
    BY <1>1, <1>2, <1>6, <1>12
  <2> QED
    BY <1>12, <2>1, <2>2 DEF SplitOff
<1> QED
  BY <1>14, <1>15 DEF res, right

\* An insertion that splits a leaf is done, up to the parent.
LEMMA LeafSplit ==
    ASSUME NEW h \in Nat, UpTo(nodes, h), NEW key \in Key, NEW id, id[1] = 0,
           Covers(nodes, id, key), NEW rid,
           NEW keys, NEW vals, Holding(nodes, id, keys, vals),
           PairsStored(id, key, rid, keys, vals), Len(keys) = ORDER
    PROVE  Result(id, key, rid, SplitLeaf(id, keys, vals))
<1> DEFINE mid == Len(keys) \div 2
           up == keys[mid + 1]
           right == <<0, up>>
           low == Leaf(Lower(keys, mid), Lower(vals, mid), right)
           high == Leaf(Upper(keys, mid), Upper(vals, mid), nodes[id].next)
           half == [nodes EXCEPT ![id] = low]
           ns == With(half, right, high)
<1>1. /\ id \in DOMAIN nodes /\ DOMAIN nodes \subseteq Name
      /\ nodes[id].leaf /\ LeafShape(nodes, id, nodes[id])
  BY LeafFacts DEF Covers, UpTo
<1>2. id[1] \in Nat /\ id[2] \in Nat /\ id[1] <= h
  BY <1>1, NameFacts
<1>3. /\ keys \in Seq(Key) /\ Sorted(keys) /\ vals \in Seq(Row) /\ Len(vals) = Len(keys)
      /\ \A i \in 1 .. Len(keys) : id[2] <= keys[i] /\ vals[i] \in Rows[keys[i]]
      /\ Within(nodes, id, keys)
  BY DEF Holding, Within
<1>4. /\ DOMAIN keys = 1 .. Len(keys)
      /\ \A i \in 1 .. Len(keys) : keys[i] \in Key /\ keys[i] \in Nat
  BY <1>3, KeyFacts
<1>5. mid \in 1 .. Len(keys) - 2 /\ Len(keys) \in Nat
  BY OrderAssumption, Half
<1> HIDE DEF mid
<1>6. mid \in 0 .. Len(keys) /\ mid + 1 \in 1 .. Len(keys) /\ mid \in Nat
  BY <1>5
<1>7. /\ Lower(keys, mid) \in Seq(Key) /\ Len(Lower(keys, mid)) = mid
      /\ \A j \in 1 .. mid : Lower(keys, mid)[j] = keys[j]
      /\ Upper(keys, mid) \in Seq(Key) /\ Len(Upper(keys, mid)) = Len(keys) - mid
      /\ \A j \in 1 .. Len(keys) - mid : Upper(keys, mid)[j] = keys[mid + j]
  BY <1>3, <1>6, Parts
<1>8. /\ Lower(vals, mid) \in Seq(Row) /\ Len(Lower(vals, mid)) = mid
      /\ \A j \in 1 .. mid : Lower(vals, mid)[j] = vals[j]
      /\ Upper(vals, mid) \in Seq(Row) /\ Len(Upper(vals, mid)) = Len(keys) - mid
      /\ \A j \in 1 .. Len(keys) - mid : Upper(vals, mid)[j] = vals[mid + j]
  <2>1. mid \in 0 .. Len(vals) /\ vals \in Seq(Row)
    BY <1>3, <1>6
  <2>2. /\ Lower(vals, mid) \in Seq(Row) /\ Len(Lower(vals, mid)) = mid
        /\ \A j \in 1 .. mid : Lower(vals, mid)[j] = vals[j]
        /\ Upper(vals, mid) \in Seq(Row) /\ Len(Upper(vals, mid)) = Len(vals) - mid
        /\ \A j \in 1 .. Len(vals) - mid : Upper(vals, mid)[j] = vals[mid + j]
    BY ONLY <2>1, Parts
  <2>3. Len(vals) = Len(keys)
    BY <1>3
  <2> QED
    BY ONLY <2>2, <2>3
<1>9. up \in Key /\ up \in Nat /\ id[2] < up
  <2>1. up \in Key /\ up \in Nat
    BY <1>4, <1>6
  <2>2. 1 \in DOMAIN keys /\ mid + 1 \in DOMAIN keys /\ 1 < mid + 1
    BY <1>4, <1>5
  <2>3. keys[1] < up /\ keys[1] \in Nat /\ id[2] <= keys[1]
    BY <1>3, <1>4, <2>2 DEF Sorted
  <2> QED
    BY <1>2, <2>1, <2>3
<1>10. Covers(nodes, id, up)
  <2> SUFFICES ASSUME NEW x \in DOMAIN nodes, x[1] = id[1], x[2] <= up PROVE x[2] <= id[2]
    BY <1>1, <1>2, <1>9 DEF Covers
  <2>1. x[2] \in Nat
    BY <1>1, NameFacts
  <2>2. id[2] < x[2] => up < x[2]
    BY <1>3, <1>6 DEF Within
  <2> QED
    BY <1>2, <1>9, <2>1, <2>2
<1>11. right = <<id[1], up>> /\ right[1] = 0 /\ right[2] = up /\ right \in Name
  BY <1>9 DEF Name
<1>12. right \notin DOMAIN nodes
  <2>1. right \in DOMAIN nodes => up <= id[2]
    BY <1>9, <1>10, <1>11 DEF Covers
  <2> QED
    BY <1>2, <1>9, <2>1
<1> HIDE DEF up, right
<1>13. low \in NodeType /\ high \in NodeType
  <2>1. nodes[id].next \in Name \cup {NoNode}
    BY <1>1 DEF LeafShape
  <2> QED
    BY <1>7, <1>8, <1>11, <2>1, LeafType
<1>14. /\ low.leaf = TRUE /\ low.keys = Lower(keys, mid) /\ low.vals = Lower(vals, mid)
       /\ low.next = right
       /\ high.leaf = TRUE /\ high.keys = Upper(keys, mid) /\ high.vals = Upper(vals, mid)
       /\ high.next = nodes[id].next
  BY RecordFacts
<1> HIDE DEF low, high
<1>15. /\ DOMAIN half = DOMAIN nodes /\ half[id] = low
       /\ \A x \in DOMAIN nodes : x # id => half[x] = nodes[x]
  BY <1>1
<1> HIDE DEF half
<1>16. /\ DOMAIN ns = DOMAIN half \cup {right} /\ ns[right] = high
       /\ \A x \in DOMAIN half : x # right => ns[x] = half[x]
  BY DEF With
<1>17. SplitLeaf(id, keys, vals) = Split(ns, up, right)
  BY DEF SplitLeaf, mid, up, right, low, high, half
<1> HIDE DEF ns
<1>18. /\ DOMAIN ns = DOMAIN nodes \cup {right} /\ ns[right] = high /\ ns[id] = low
       /\ \A x \in DOMAIN nodes : x # id => ns[x] = nodes[x]
  BY <1>1, <1>12, <1>15, <1>16
<1>19. Within(ns, id, Lower(keys, mid))
  <2>1. \A x \in DOMAIN nodes : x[1] = id[1] /\ id[2] < x[2] =>
            \A i \in 1 .. mid : keys[i] < x[2]
    BY <1>3, <1>6 DEF Within
  <2>2. \A i \in 1 .. mid : keys[i] < up
    BY <1>3, <1>4, <1>6 DEF Sorted, up
  <2>3. Sorted(Lower(keys, mid))
    <3>1. DOMAIN Lower(keys, mid) = 1 .. mid /\ \A i \in 1 .. mid : i \in DOMAIN keys
      BY <1>4, <1>6, <1>7
    <3> QED
      BY <1>3, <1>7, <3>1 DEF Sorted
  <2> QED
    <3>1. ASSUME NEW x \in DOMAIN ns, x[1] = id[1], id[2] < x[2], NEW i \in 1 .. mid
          PROVE  keys[i] < x[2]
      <4>1. x \in DOMAIN nodes \/ x[2] = up
        BY <1>11, <1>18
      <4> QED
        BY <2>1, <2>2, <3>1, <4>1
    <3> QED
      BY <1>7, <2>3, <3>1 DEF Within
<1>20. Within(ns, right, Upper(keys, mid))
  <2>1. ASSUME NEW x \in DOMAIN ns, x[1] = right[1], right[2] < x[2],
               NEW i \in 1 .. Len(keys) - mid
        PROVE  keys[mid + i] < x[2]
    <3>1. x \in DOMAIN nodes
      BY <1>9, <1>11, <1>18, <2>1
    <3>2. x[1] = id[1] /\ x[2] \in Nat
      BY <1>1, <1>11, <2>1, <3>1, NameFacts
    <3>3. id[2] < x[2]
      BY <1>2, <1>9, <1>11, <2>1, <3>2
    <3>4. mid + i \in 1 .. Len(keys)
      BY <1>5, <1>6
    <3> QED
      BY <1>3, <3>1, <3>2, <3>3, <3>4 DEF Within
  <2>2. Sorted(Upper(keys, mid))
    <3>1. /\ DOMAIN Upper(keys, mid) = 1 .. Len(keys) - mid
          /\ \A i \in 1 .. Len(keys) - mid : mid + i \in DOMAIN keys
      BY <1>4, <1>5, <1>6, <1>7
    <3>2. ASSUME NEW i \in 1 .. Len(keys) - mid, NEW j \in 1 .. Len(keys) - mid, i < j
          PROVE  keys[mid + i] < keys[mid + j]
      <4>1. mid + i \in DOMAIN keys /\ mid + j \in DOMAIN keys /\ mid + i < mid + j
        BY <1>5, <1>6, <3>1, <3>2
      <4> QED
        BY <1>3, <4>1 DEF Sorted
    <3> QED
      BY <1>7, <3>1, <3>2 DEF Sorted
  <2> QED
    BY <1>7, <2>1, <2>2 DEF Within
<1>21. LeafShape(ns, id, low)
  <2>1. \A i \in 1 .. mid : i \in 1 .. Len(keys)
    BY <1>5, <1>6
  <2> QED
    BY <1>3, <1>7, <1>8, <1>14, <1>18, <1>19, <2>1 DEF LeafShape
<1>22. LeafShape(ns, right, high)
  <2>1. \A i \in 1 .. Len(keys) - mid : mid + i \in 1 .. Len(keys)
    BY <1>5, <1>6
  <2>2. ASSUME NEW i \in 1 .. Len(keys) - mid
        PROVE  up <= keys[mid + i]
    <3>1. mid + i \in DOMAIN keys /\ mid + 1 \in DOMAIN keys /\ (i = 1 \/ mid + 1 < mid + i)
      BY <1>4, <1>5, <1>6, <2>1
    <3>2. mid + 1 < mid + i => keys[mid + 1] < keys[mid + i]
      BY <1>3, <3>1 DEF Sorted
    <3>3. keys[mid + i] \in Nat
      BY <1>4, <2>1
    <3> QED
      BY <1>9, <3>1, <3>2, <3>3 DEF up
  <2>3. nodes[id].next \in DOMAIN ns \cup {NoNode}
    BY <1>1, <1>18 DEF LeafShape
  <2> QED
    BY <1>3, <1>7, <1>8, <1>11, <1>14, <1>20, <2>1, <2>2, <2>3 DEF LeafShape
<1>23. mid < ORDER /\ Len(keys) - mid < ORDER
  BY <1>5
<1>24. NodeOK(ns, id) /\ NodeOK(ns, right)
  <2>1. NodeOK(ns, id)
    BY <1>7, <1>13, <1>14, <1>18, <1>21, <1>23 DEF NodeOK
  <2>2. NodeOK(ns, right)
    BY <1>7, <1>11, <1>13, <1>14, <1>18, <1>22, <1>23 DEF NodeOK
  <2> QED
    BY <2>1, <2>2
<1>25. Beneath(id, nodes) /\ Apart(id, nodes, up, ns) /\ Parents(id, nodes, ns)
  <2>1. \A x \in DOMAIN nodes : x[1] \in Nat
    BY <1>1, NameFacts
  <2>2. Beneath(id, nodes)
    BY <1>1, <2>1 DEF Beneath
  <2>3. Apart(id, nodes, up, ns)
    BY <1>11, <1>18 DEF Apart
  <2>4. Parents(id, nodes, ns)
    BY <2>1 DEF Parents
  <2> QED
    BY <2>2, <2>3, <2>4
<1>26. Grown(id, Split(ns, up, right)) /\ SplitOff(id, Split(ns, up, right))
  <2>1. right = <<id[1], up>> /\ NodeOK(ns, <<id[1], up>>)
    BY <1>11, <1>24
  <2> QED
    BY <1>2, <1>9, <1>10, <1>24, <1>25, <2>1, SplitDone
<1>27. Stored(key, rid, ns)
  <2>1. ASSUME NEW j \in Key, NEW v
        PROVE  (\E x \in DOMAIN ns : /\ x[1] = 0
                                     /\ x = id \/ x \notin DOMAIN nodes
                                     /\ PairIn(ns[x].keys, ns[x].vals, j, v))
               <=> IF j = key THEN v \in {rid} ELSE PairIn(nodes[id].keys, nodes[id].vals, j, v)
    <3>1. PairIn(keys, vals, j, v) <=> \/ PairIn(low.keys, low.vals, j, v)
                                       \/ PairIn(high.keys, high.vals, j, v)
      BY <1>3, <1>6, <1>14, PairsSplit
    <3>2. (\E x \in DOMAIN ns : /\ x[1] = 0
                                /\ x = id \/ x \notin DOMAIN nodes
                                /\ PairIn(ns[x].keys, ns[x].vals, j, v))
          <=> \/ PairIn(low.keys, low.vals, j, v)
              \/ PairIn(high.keys, high.vals, j, v)
      BY <1>1, <1>11, <1>12, <1>18
    <3> QED
      BY <3>1, <3>2 DEF PairsStored
  <2>2. LeafChanged(nodes, id, key, {rid}, ns)
    BY <1>18, <2>1 DEF LeafChanged
  <2> QED
    BY <2>2, RowsChanged DEF Stored
<1>28. Split(ns, up, right).nodes = ns
  BY RecordFacts
<1>29. ASSUME Chained(nodes) PROVE Chained(ns)
  <2> DEFINE last == nodes[id].next
  <2>1. \A y \in DOMAIN nodes : y[1] \in Nat /\ y[2] \in Nat
    BY <1>1, NameFacts
  <2>2. right # NoNode
    BY <1>11 DEF Name, NoNode
  <2>3. ASSUME NEW y \in DOMAIN nodes, y[1] = 0
        PROVE  y[2] <= id[2] \/ up < y[2]
    <3>1. y[2] <= up => y[2] <= id[2]
      BY <1>10, <2>3 DEF Covers
    <3> QED
      BY <1>2, <1>9, <2>1, <3>1
  <2>4. \A y \in DOMAIN ns : y[1] = 0 => y[2] <= id[2] \/ y[2] = up \/ (y \in DOMAIN nodes /\ up < y[2])
    BY <1>11, <1>18, <2>3
  <2>5. /\ last = NoNode => \A y \in DOMAIN nodes : y[1] = 0 => y[2] <= id[2]
        /\ last # NoNode =>
               /\ last \in DOMAIN nodes /\ last[1] = 0 /\ id[2] < last[2]
               /\ \A y \in DOMAIN nodes : y[1] = 0 => y[2] <= id[2] \/ last[2] <= y[2]
    BY <1>1, <1>29 DEF Chained
  <2> HIDE DEF last
  <2>6. ASSUME NEW x \in DOMAIN ns, x[1] = 0
        PROVE  IF ns[x].next = NoNode
               THEN \A y \in DOMAIN ns : y[1] = 0 => y[2] <= x[2]
               ELSE LET z == ns[x].next
                    IN  /\ z \in DOMAIN ns /\ z[1] = 0 /\ x[2] < z[2]
                        /\ \A y \in DOMAIN ns : y[1] = 0 => y[2] <= x[2] \/ z[2] <= y[2]
    <3>1. CASE x = id
      <4>1. ns[x].next = right
        BY <1>14, <1>18, <3>1
      <4>2. \A y \in DOMAIN ns : y[1] = 0 => y[2] <= x[2] \/ right[2] <= y[2]
        BY <1>9, <1>11, <2>1, <2>4, <3>1
      <4> QED
        BY <1>9, <1>11, <1>18, <2>2, <3>1, <4>1, <4>2
    <3>2. CASE x = right
      <4>1. ns[x].next = last
        BY <1>14, <1>18, <3>2 DEF last
      <4>2. CASE last = NoNode
        <5>1. \A y \in DOMAIN ns : y[1] = 0 => y[2] <= x[2]
          BY <1>2, <1>9, <1>11, <1>18, <2>1, <2>5, <3>2, <4>2
        <5> QED
          BY <4>1, <4>2, <5>1
      <4>3. CASE last # NoNode
        <5>1. last \in DOMAIN ns /\ last[1] = 0 /\ x[2] < last[2]
          BY <1>2, <1>11, <1>18, <2>1, <2>3, <2>5, <3>2, <4>3
        <5>2. \A y \in DOMAIN ns : y[1] = 0 => y[2] <= x[2] \/ last[2] <= y[2]
          BY <1>2, <1>9, <1>11, <1>18, <2>1, <2>5, <3>2, <4>3
        <5> QED
          BY <4>1, <4>3, <5>1, <5>2
      <4> QED
        BY <4>2, <4>3
    <3>3. CASE x # id /\ x # right
      <4>1. x \in DOMAIN nodes /\ ns[x].next = nodes[x].next
        BY <1>18, <3>3
      <4>2. x[2] \in Nat /\ x[2] # id[2]
        <5>1. x = <<x[1], x[2]>> /\ id = <<id[1], id[2]>>
          BY <1>1, <4>1, NameFacts
        <5> QED
          BY <2>1, <2>6, <3>3, <4>1, <5>1
      <4>3. CASE nodes[x].next = NoNode
        <5>1. \A y \in DOMAIN nodes : y[1] = 0 => y[2] <= x[2]
          BY <1>29, <2>6, <4>1, <4>3 DEF Chained
        <5>2. up <= x[2]
          <6>1. id[2] <= x[2]
            BY <1>1, <5>1
          <6> QED
            BY <1>2, <1>9, <2>3, <2>6, <4>1, <4>2, <6>1
        <5>3. \A y \in DOMAIN ns : y[1] = 0 => y[2] <= x[2]
          BY <1>11, <1>18, <5>1, <5>2
        <5> QED
          BY <4>1, <4>3, <5>3
      <4>4. CASE nodes[x].next # NoNode
        <5> DEFINE z == nodes[x].next
        <5>1. /\ z \in DOMAIN nodes /\ z[1] = 0 /\ x[2] < z[2]
              /\ \A y \in DOMAIN nodes : y[1] = 0 => y[2] <= x[2] \/ z[2] <= y[2]
          BY <1>29, <2>6, <4>1, <4>4 DEF Chained
        <5> HIDE DEF z
        <5>2. up <= x[2] \/ z[2] <= up
          <6>1. id[2] <= x[2] \/ z[2] <= id[2]
            BY <1>1, <5>1
          <6>2. z[2] \in Nat
            BY <2>1, <5>1
          <6>3. x[2] <= id[2] \/ up < x[2]
            BY <2>3, <2>6, <4>1
          <6> QED
            BY <1>2, <1>9, <4>2, <6>1, <6>2, <6>3
        <5>3. \A y \in DOMAIN ns : y[1] = 0 => y[2] <= x[2] \/ z[2] <= y[2]
          BY <1>11, <1>18, <5>1, <5>2
        <5> QED
          BY <1>18, <4>1, <4>4, <5>1, <5>3 DEF z
      <4> QED
        BY <4>3, <4>4
    <3> QED
      BY <3>1, <3>2, <3>3
  <2> QED
    BY <2>6 DEF Chained
<1> QED
  BY <1>17, <1>26, <1>27, <1>28, <1>29 DEF Result

\* Each of the three ways of insertInto in a leaf is right.
LEMMA LeafResult ==
    ASSUME NEW h \in Nat, UpTo(nodes, h), NEW key \in Key, NEW id, id[1] = 0,
           Covers(nodes, id, key), NEW rid \in Rows[key]
    PROVE  Result(id, key, rid, InsertIntoLeaf(id, key, rid))
<1> DEFINE n == nodes[id]
           pos == lower_bound(n.keys, key)
           keys == InsertAt(n.keys, pos, key)
           vals == InsertAt(n.vals, pos, rid)
<1>1. /\ id \in DOMAIN nodes
      /\ n.leaf /\ LeafShape(nodes, id, n) /\ n \in NodeType
      /\ n.keys \in Seq(Key) /\ Sorted(n.keys) /\ n.vals \in Seq(Row)
  BY LeafFacts DEF Covers
<1>2. DOMAIN n.keys = 1 .. Len(n.keys)
  BY <1>1, KeyFacts
<1>3. CASE Holds(n, key)
  <2>1. PICK i \in DOMAIN n.keys : n.keys[i] = key
    BY <1>3 DEF Holds
  <2>2. pos = i
    BY <1>1, <2>1, FoundAt
  <2>3. Result(id, key, rid, Whole([nodes EXCEPT ![id].vals[pos] = rid]))
    BY <1>2, <2>1, <2>2, ValueReplaced
  <2> QED
    BY <1>3, <2>3 DEF InsertIntoLeaf
<1>4. CASE ~Holds(n, key)
  <2>1. /\ Holding(nodes, id, keys, vals) /\ PairsStored(id, key, rid, keys, vals)
        /\ Len(keys) \in 1 .. ORDER
    BY <1>4, LeafWidened
  <2> HIDE DEF keys, vals
  <2>2. CASE Len(keys) < ORDER
    <3> DEFINE m == [n EXCEPT !.keys = keys, !.vals = vals]
               ns == [nodes EXCEPT ![id] = m]
    <3>1. InsertIntoLeaf(id, key, rid) = Whole([nodes EXCEPT ![id].keys = keys, ![id].vals = vals])
      BY <1>4, <2>2 DEF InsertIntoLeaf, keys, vals
    <3>2. [nodes EXCEPT ![id].keys = keys, ![id].vals = vals] = ns
      BY <1>1 DEF NodeType
    <3>3. keys \in Seq(Key) /\ vals \in Seq(Row)
      BY <2>1 DEF Holding, Within
    <3>4. m \in NodeType /\ m.leaf = n.leaf /\ m.keys = keys /\ m.vals = vals /\ m.next = n.next
      BY <1>1, <3>3 DEF NodeType
    <3> HIDE DEF m
    <3>5. /\ DOMAIN ns = DOMAIN nodes /\ ns[id] = m
          /\ \A x \in DOMAIN nodes : x # id => ns[x] = nodes[x]
      BY <1>1
    <3> HIDE DEF ns
    <3>6. LeafShape(nodes, id, m)
      BY <1>1, <2>1, <3>4 DEF LeafShape, Holding
    <3>7. Result(id, key, rid, Whole(ns))
      BY <1>1, <2>1, <2>2, <3>4, <3>5, <3>6, LeafReplaced DEF PairsStored
    <3> QED
      BY <3>1, <3>2, <3>7
  <2>3. CASE ~(Len(keys) < ORDER)
    <3>1. InsertIntoLeaf(id, key, rid) = SplitLeaf(id, keys, vals)
      BY <1>4, <2>3 DEF InsertIntoLeaf, keys, vals
    <3>2. Len(keys) = ORDER
      BY <2>1, <2>3, OrderAssumption
    <3> QED
      BY <2>1, <3>1, <3>2, LeafSplit
  <2> QED
    BY <2>2, <2>3
<1> QED
  BY <1>3, <1>4

-------------------------------------------------------------------------------
(* Inner nodes, on the way up.                                              *)

\* Inner nodes have no part in what is held.
LEMMA RowsKept ==
    ASSUME NEW ns, NEW ns2, DOMAIN ns \subseteq DOMAIN ns2,
           \A x \in DOMAIN ns2 : x[1] = 0 => x \in DOMAIN ns /\ ns2[x] = ns[x],
           NEW j, NEW v
    PROVE  RowIn(ns2, j, v) <=> RowIn(ns, j, v)
BY DEF RowIn

\* What insertInto reported of a child, as its parent sees it.
LEMMA BeneathResult ==
    ASSUME NEW h \in Nat, UpTo(nodes, h), NEW id \in DOMAIN nodes, id[1] <= h, id[1] > 0,
           NEW c, c[1] = id[1] - 1, NEW res, Grown(c, res), SplitOff(c, res)
    PROVE  Beneath(id, res.nodes)
<1>1. id[1] \in Nat /\ c[1] \in Nat
  BY NameFacts DEF UpTo
<1> DEFINE ns == res.nodes
<1>2. /\ DOMAIN nodes \subseteq DOMAIN ns /\ UpTo(ns, c[1])
      /\ \A x \in DOMAIN nodes : x[1] > c[1] => ns[x] = nodes[x]
      /\ \A x \in DOMAIN ns : x \in DOMAIN nodes \/ x[1] < c[1] \/ (res.split /\ x = res.new_right)
      /\ res.split => res.new_right = <<c[1], res.up_key>>
  BY DEF Grown, SplitOff
<1> HIDE DEF ns
<1>3. /\ DOMAIN ns \subseteq Name
      /\ \A x \in DOMAIN ns : x[1] <= c[1] => NodeOK(ns, x)
      /\ \A x \in DOMAIN ns : x[1] < c[1] => \E y \in DOMAIN ns : Under(ns, x, y)
  BY <1>2 DEF UpTo
<1>4. \A x \in DOMAIN ns : x[1] \in Nat
  BY <1>3, NameFacts
<1>5. \A x \in DOMAIN ns : x \in DOMAIN nodes \/ x[1] < id[1]
  BY <1>1, <1>2, <1>4
<1>6. \A x \in DOMAIN nodes : x[1] >= id[1] => ns[x] = nodes[x]
  BY <1>1, <1>2, <1>4
<1>7. \A x \in DOMAIN ns : x[1] < id[1] => NodeOK(ns, x)
  BY <1>1, <1>3, <1>4
<1>8. \A x \in DOMAIN ns : x[1] + 1 < id[1] => \E y \in DOMAIN ns : Under(ns, x, y)
  BY <1>1, <1>3, <1>4
<1> QED
  BY <1>2, <1>3, <1>5, <1>6, <1>7, <1>8 DEF Beneath, ns

\* Node id changes, or none does, and none is added.
LEMMA WholeDone ==
    ASSUME NEW h \in Nat, UpTo(nodes, h), NEW id \in DOMAIN nodes, id[1] <= h,
           NEW below, Beneath(id, below),
           NEW ns, DOMAIN ns = DOMAIN below,
           \A x \in DOMAIN below : x # id => ns[x] = below[x],
           NodeOK(ns, id), Parents(id, below, ns), NEW res, res.nodes = ns
    PROVE  Grown(id, res)
<1>1. /\ DOMAIN nodes \subseteq DOMAIN below /\ DOMAIN below \subseteq Name
      /\ \A x \in DOMAIN below : x \in DOMAIN nodes \/ x[1] < id[1]
      /\ \A x \in DOMAIN nodes : x[1] >= id[1] => below[x] = nodes[x]
      /\ \A x \in DOMAIN below : x[1] < id[1] => NodeOK(below, x)
      /\ \A x \in DOMAIN below : x[1] + 1 < id[1] => \E y \in DOMAIN below : Under(below, x, y)
  BY DEF Beneath
<1>2. id[1] \in Nat /\ \A x \in DOMAIN below : x[1] \in Nat
  BY <1>1, NameFacts
<1>3. ASSUME NEW x \in DOMAIN ns, x[1] <= id[1]
      PROVE  NodeOK(ns, x)
  <2>1. CASE x = id
    BY <2>1
  <2>2. CASE x # id /\ x[1] < id[1]
    <3>1. x \in DOMAIN below /\ NodeOK(below, x) /\ ns[x] = below[x]
      BY <1>1, <2>2
    <3> QED
      BY <3>1, NodeKept
  <2>3. CASE x # id /\ x[1] = id[1]
    <3>1. x \in DOMAIN nodes /\ x[1] <= h
      BY <1>1, <1>2, <2>3
    <3>2. NodeOK(nodes, x)
      BY <3>1 DEF UpTo
    <3>3. ns[x] = nodes[x] /\ DOMAIN nodes \subseteq DOMAIN ns
      BY <1>1, <1>2, <2>3, <3>1
    <3>4. \A y \in DOMAIN ns : y[1] = x[1] => y \in DOMAIN nodes
      BY <1>1, <1>2, <2>3
    <3> QED
      BY <3>1, <3>2, <3>3, <3>4, NodeKept
  <2> QED
    BY <1>2, <1>3, <2>1, <2>2, <2>3
<1>4. ASSUME NEW x \in DOMAIN ns, x[1] < id[1]
      PROVE  \E y \in DOMAIN ns : Under(ns, x, y)
  <2>1. CASE x[1] + 1 = id[1]
    BY <2>1 DEF Parents
  <2>2. CASE x[1] + 1 < id[1]
    <3>1. PICK y \in DOMAIN below : Under(below, x, y)
      BY <1>1, <2>2
    <3>2. y # id
      BY <1>2, <2>2, <3>1 DEF Under
    <3>3. ns[y] = below[y]
      BY <3>2
    <3>4. Under(ns, x, y)
      BY <3>1, <3>3 DEF Under
    <3> QED
      BY <3>4
  <2> QED
    BY <1>2, <1>4, <2>1, <2>2
<1>5. UpTo(ns, id[1])
  BY <1>1, <1>3, <1>4 DEF UpTo
<1>6. \A x \in DOMAIN nodes : x[1] > id[1] => ns[x] = nodes[x]
  <2> SUFFICES ASSUME NEW x \in DOMAIN nodes, x[1] > id[1] PROVE ns[x] = nodes[x]
    OBVIOUS
  <2>1. x[1] \in Nat /\ x # id /\ x \in DOMAIN below
    BY <1>1, <1>2
  <2> QED
    BY <1>1, <1>2, <2>1
<1> QED
  BY <1>1, <1>5, <1>6 DEF Grown

\* Below the child that was routed to, nothing was split.
LEMMA NotSplit ==
    ASSUME NEW h \in Nat, UpTo(nodes, h), NEW key \in Key, NEW rid, NEW id \in DOMAIN nodes,
           id[1] <= h, id[1] > 0, NEW c, c[1] = id[1] - 1,
           NEW res, Result(c, key, rid, res), ~res.split
    PROVE  Result(id, key, rid, res)
<1> DEFINE ns == res.nodes
<1>1. Grown(c, res) /\ SplitOff(c, res) /\ Stored(key, rid, ns)
  BY DEF Result
<1>2. Beneath(id, ns)
  BY <1>1, BeneathResult
<1>3. /\ DOMAIN nodes \subseteq DOMAIN ns
      /\ \A x \in DOMAIN nodes : x[1] > c[1] => ns[x] = nodes[x]
      /\ \A x \in DOMAIN ns : x \in DOMAIN nodes \/ x[1] < c[1]
      /\ DOMAIN ns \subseteq Name
  BY <1>1 DEF Grown, UpTo
<1> HIDE DEF ns
<1>4. id[1] \in Nat /\ c[1] \in Nat /\ \A x \in DOMAIN ns : x[1] \in Nat
  BY <1>3, NameFacts
<1>5. NodeOK(ns, id)
  <2>1. NodeOK(nodes, id) /\ ns[id] = nodes[id]
    BY <1>3, <1>4 DEF UpTo
  <2>2. \A x \in DOMAIN ns : x[1] = id[1] => x \in DOMAIN nodes
    BY <1>3, <1>4
  <2> QED
    BY <1>3, <2>1, <2>2, NodeKept
<1>6. Parents(id, ns, ns)
  <2> SUFFICES ASSUME NEW x \in DOMAIN ns, x[1] + 1 = id[1]
               PROVE  \E y \in DOMAIN ns : Under(ns, x, y)
    BY DEF Parents
  <2>1. x \in DOMAIN nodes /\ x[1] < h
    BY <1>3, <1>4
  <2>2. PICK y \in DOMAIN nodes : Under(nodes, x, y)
    BY <2>1 DEF UpTo
  <2>3. ns[y] = nodes[y] /\ y \in DOMAIN ns
    BY <1>3, <1>4, <2>2 DEF Under
  <2>4. Under(ns, x, y)
    BY <2>2, <2>3 DEF Under
  <2> QED
    BY <2>3, <2>4
<1>7. Grown(id, res)
  BY <1>2, <1>5, <1>6, WholeDone DEF ns
<1>8. SplitOff(id, res)
  BY DEF SplitOff
<1> QED
  BY <1>1, <1>7, <1>8 DEF Result, ns

\* Every node of the children's level is a child of id, or of another node.
Adopted(id, ns, keys) ==
    \A x \in DOMAIN ns : x[1] + 1 = id[1] =>
        \/ x[2] = id[2]
        \/ \E j \in 1 .. Len(keys) : keys[j] = x[2]
        \/ \E y \in DOMAIN nodes : y # id /\ Under(nodes, x, y)

\* The separators and children of a node that takes a new child are
\* well-formed, though there may be one too many.
LEMMA Widened ==
    ASSUME NEW h \in Nat, UpTo(nodes, h), NEW key \in Key, NEW id, Covers(nodes, id, key),
           id[1] <= h, ~nodes[id].leaf,
           NEW i, i = Route(nodes[id], key), NEW c, c = nodes[id].children[i],
           NEW res, Grown(c, res), SplitOff(c, res), res.split
    PROVE  LET keys     == InsertAt(nodes[id].keys, i, res.up_key)
               children == InsertAt(nodes[id].children, i + 1, res.new_right)
           IN  /\ InnerShape(res.nodes, id, keys, children)
               /\ Len(children) \in 3 .. ORDER + 1
               /\ Adopted(id, res.nodes, keys)
<1> DEFINE n == nodes[id]
           up == res.up_key
           ns == res.nodes
           keys == InsertAt(n.keys, i, up)
           children == InsertAt(n.children, i + 1, res.new_right)
<1>1. /\ id \in DOMAIN nodes /\ DOMAIN nodes \subseteq Name /\ key \in Nat
      /\ NodeOK(nodes, id)
  BY KeyAssumption DEF Covers, UpTo
<1>2. id[1] \in Nat /\ id[2] \in Nat /\ id[1] > 0
  BY <1>1, NameFacts, InnerNode
<1>3. InnerShape(nodes, id, n.keys, n.children) /\ Len(n.children) \in 2 .. ORDER
  BY <1>1 DEF NodeOK
<1>4. /\ i \in 1 .. Len(n.children) /\ c = ChildAt(id, n.keys, i)
      /\ Covers(nodes, c, key) /\ c[1] = id[1] - 1
  BY ChildCovers
<1>5. /\ n.keys \in Seq(Key) /\ Sorted(n.keys) /\ n.children \in Seq(Name)
      /\ Len(n.children) = Len(n.keys) + 1
      /\ \A j \in 1 .. Len(n.keys) : id[2] < n.keys[j]
      /\ \A j \in 1 .. Len(n.children) : n.children[j] \in DOMAIN nodes
      /\ \A j \in 1 .. Len(n.children) : n.children[j] = ChildAt(id, n.keys, j)
      /\ \A x \in DOMAIN nodes : x[1] = id[1] /\ id[2] < x[2] =>
             \A j \in 1 .. Len(n.keys) : n.keys[j] < x[2]
  BY <1>3 DEF InnerShape, Within
<1>6. /\ Len(n.keys) \in Nat /\ DOMAIN n.keys = 1 .. Len(n.keys)
      /\ \A j \in 1 .. Len(n.keys) : n.keys[j] \in Nat
  BY <1>5, KeyFacts
<1>7. /\ res.new_right = <<c[1], up>> /\ res.new_right \in DOMAIN ns
      /\ up \in Key /\ c[2] < up /\ Covers(nodes, c, up)
  BY DEF SplitOff
<1>8. Beneath(id, ns)
  BY <1>1, <1>2, <1>4, BeneathResult
<1>9. /\ DOMAIN nodes \subseteq DOMAIN ns /\ DOMAIN ns \subseteq Name
      /\ \A x \in DOMAIN ns : x[1] \in Nat /\ x[2] \in Nat
      /\ \A x \in DOMAIN ns : x[1] = id[1] => x \in DOMAIN nodes
      /\ \A x \in DOMAIN ns : x[1] + 1 = id[1] => x \in DOMAIN nodes \/ x = res.new_right
  <2>1. DOMAIN nodes \subseteq DOMAIN ns /\ DOMAIN ns \subseteq Name
    BY <1>8 DEF Beneath
  <2>2. \A x \in DOMAIN ns : x[1] \in Nat /\ x[2] \in Nat
    BY <2>1, NameFacts
  <2>3. \A x \in DOMAIN ns : x[1] = id[1] => x \in DOMAIN nodes
    BY <1>2, <1>8 DEF Beneath
  <2>4. \A x \in DOMAIN ns : x \in DOMAIN nodes \/ x[1] < c[1] \/ x = res.new_right
    BY DEF Grown
  <2>5. \A x \in DOMAIN ns : x[1] + 1 = id[1] => x \in DOMAIN nodes \/ x = res.new_right
    BY <1>2, <1>4, <2>2, <2>4
  <2> QED
    BY <2>1, <2>2, <2>3, <2>5
<1>10. c[2] = IF i = 1 THEN id[2] ELSE n.keys[i - 1]
  BY <1>4 DEF ChildAt
<1> HIDE DEF n, up, ns
<1>11. up \in Nat /\ i \in Nat /\ i \in 1 .. Len(n.keys) + 1
  BY <1>4, <1>5, <1>6, <1>7, KeyAssumption
<1>12. i # 1 => i - 1 \in 1 .. Len(n.keys)
  BY <1>6, <1>11
<1>13. c[2] \in Nat /\ id[2] <= c[2]
  BY <1>2, <1>5, <1>6, <1>10, <1>12
<1>14. \A j \in 1 .. Len(n.keys) : j < i => n.keys[j] < up
  <2> SUFFICES ASSUME NEW j \in 1 .. Len(n.keys), j < i PROVE n.keys[j] < up
    OBVIOUS
  <2>1. i # 1 /\ i - 1 \in 1 .. Len(n.keys) /\ (j = i - 1 \/ j < i - 1)
    BY <1>6, <1>11, <1>12
  <2>2. c[2] = n.keys[i - 1] /\ n.keys[i - 1] \in Nat /\ n.keys[j] \in Nat
    BY <1>6, <1>10, <2>1
  <2>3. j < i - 1 => n.keys[j] < n.keys[i - 1]
    BY <1>5, <1>6, <2>1 DEF Sorted
  <2> QED
    BY <1>7, <1>11, <2>1, <2>2, <2>3
<1>15. \A j \in 1 .. Len(n.keys) : i <= j => up < n.keys[j]
  <2> SUFFICES ASSUME NEW j \in 1 .. Len(n.keys), i <= j PROVE up < n.keys[j]
    OBVIOUS
  <2> DEFINE x == n.children[j + 1]
  <2>1. j + 1 \in 1 .. Len(n.children) /\ j + 1 # 1 /\ (j + 1) - 1 = j
    BY <1>5, <1>6
  <2>2. x \in DOMAIN nodes /\ x[1] = id[1] - 1 /\ x[2] = n.keys[j]
    BY <1>5, <2>1 DEF ChildAt
  <2> HIDE DEF x
  <2>3. x[2] <= up => x[2] <= c[2]
    BY <1>4, <1>7, <2>2 DEF Covers
  <2>4. c[2] < n.keys[j]
    <3>1. CASE i = 1
      BY <1>5, <1>10, <3>1
    <3>2. CASE i # 1
      <4>1. i - 1 \in DOMAIN n.keys /\ j \in DOMAIN n.keys /\ i - 1 < j
        BY <1>6, <1>11, <1>12, <3>2
      <4> QED
        BY <1>5, <1>10, <3>2, <4>1 DEF Sorted
    <3> QED
      BY <3>1, <3>2
  <2>5. n.keys[j] \in Nat
    BY <1>6
  <2> QED
    BY <1>11, <1>13, <2>2, <2>3, <2>4, <2>5
<1>16. \A x \in DOMAIN nodes : x[1] = id[1] /\ id[2] < x[2] => up < x[2]
  <2> SUFFICES ASSUME NEW x \in DOMAIN nodes, x[1] = id[1], id[2] < x[2] PROVE up < x[2]
    OBVIOUS
  <2> DEFINE y == nodes[x].children[1]
  <2>1. NodeOK(nodes, x)
    <3>1. x[1] <= h
      OBVIOUS
    <3> QED
      BY <3>1 DEF UpTo
  <2>2. ~nodes[x].leaf /\ x[1] \in Nat /\ x[2] \in Nat
    BY <1>1, <1>2, <2>1, InnerNode, NameFacts
  <2>3. InnerShape(nodes, x, nodes[x].keys, nodes[x].children) /\ 1 \in 1 .. Len(nodes[x].children)
    BY <2>1, <2>2 DEF NodeOK
  <2>4. y \in DOMAIN nodes /\ y = ChildAt(x, nodes[x].keys, 1)
    BY <2>3 DEF InnerShape
  <2> HIDE DEF y
  <2>5. y[1] = c[1] /\ y[2] = x[2]
    BY <1>4, <2>4 DEF ChildAt
  <2>6. x[2] <= up => x[2] <= c[2]
    BY <1>7, <2>4, <2>5 DEF Covers
  <2>7. c[2] < x[2]
    BY <1>5, <1>10, <1>12
  <2> QED
    BY <1>11, <1>13, <2>2, <2>6, <2>7
<1>17. Sorted(keys)
  <2> DEFINE s == n.keys
  <2>1. /\ s \in Seq(Key) /\ Sorted(s) /\ i \in 1 .. Len(s) + 1 /\ up \in Key
        /\ \A j \in 1 .. Len(s) : j < i => s[j] < up
        /\ \A j \in 1 .. Len(s) : i <= j => up < s[j]
    BY <1>5, <1>7, <1>11, <1>14, <1>15
  <2> HIDE DEF s
  <2>2. Sorted(InsertAt(s, i, up))
    BY ONLY <2>1, SortedInsert
  <2> QED
    BY <2>2 DEF s
<1>18. /\ keys \in Seq(Key) /\ Len(keys) = Len(n.keys) + 1
       /\ \A j \in 1 .. i - 1 : keys[j] = n.keys[j]
       /\ keys[i] = up
       /\ \A j \in i + 1 .. Len(n.keys) + 1 : keys[j] = n.keys[j - 1]
  <2> DEFINE s == n.keys
             all == InsertAt(s, i, up)
  <2>1. s \in Seq(Key) /\ i \in 1 .. Len(s) + 1 /\ up \in Key
    BY <1>5, <1>7, <1>11
  <2> HIDE DEF s
  <2>2. /\ all \in Seq(Key) /\ Len(all) = Len(s) + 1
        /\ \A j \in 1 .. i - 1 : all[j] = s[j]
        /\ all[i] = up
        /\ \A j \in i + 1 .. Len(s) + 1 : all[j] = s[j - 1]
    BY ONLY <2>1, Inserting
  <2> QED
    BY <2>2 DEF s
<1>19. /\ children \in Seq(Name) /\ Len(children) = Len(n.children) + 1
       /\ \A j \in 1 .. i : children[j] = n.children[j]
       /\ children[i + 1] = res.new_right
       /\ \A j \in i + 2 .. Len(n.children) + 1 : children[j] = n.children[j - 1]
  <2> DEFINE s == n.children
             p == i + 1
             r == res.new_right
             all == InsertAt(s, p, r)
  <2>1. s \in Seq(Name) /\ p \in 1 .. Len(s) + 1 /\ r \in Name
    BY <1>5, <1>6, <1>7, <1>9, <1>11
  <2>2. p - 1 = i /\ p + 1 = i + 2
    BY <1>11
  <2> HIDE DEF s, p, r
  <2>3. /\ all \in Seq(Name) /\ Len(all) = Len(s) + 1
        /\ \A j \in 1 .. p - 1 : all[j] = s[j]
        /\ all[p] = r
        /\ \A j \in p + 1 .. Len(s) + 1 : all[j] = s[j - 1]
    BY ONLY <2>1, Inserting
  <2> QED
    BY <2>2, <2>3 DEF s, p, r
<1>20. \A j \in 1 .. Len(keys) : keys[j] = up \/ \E m \in 1 .. Len(n.keys) : keys[j] = n.keys[m]
  <2> SUFFICES ASSUME NEW j \in 1 .. Len(keys), keys[j] # up
               PROVE  \E m \in 1 .. Len(n.keys) : keys[j] = n.keys[m]
    OBVIOUS
  <2> HIDE DEF keys
  <2>1. j \in Nat /\ j # i
    BY <1>6, <1>18
  <2>2. CASE j < i
    <3>1. j \in 1 .. i - 1 /\ j \in 1 .. Len(n.keys)
      BY <1>6, <1>11, <1>18, <2>1, <2>2
    <3>2. keys[j] = n.keys[j]
      BY <1>18, <3>1
    <3> QED
      BY <3>1, <3>2
  <2>3. CASE j > i
    <3>1. j \in i + 1 .. Len(n.keys) + 1 /\ j - 1 \in 1 .. Len(n.keys)
      BY <1>6, <1>11, <1>18, <2>1, <2>3
    <3>2. keys[j] = n.keys[j - 1]
      BY <1>18, <3>1
    <3> QED
      BY <3>1, <3>2
  <2>4. j < i \/ j > i
    BY <1>11, <2>1
  <2> QED
    BY <2>2, <2>3, <2>4
<1>21. \A m \in 1 .. Len(n.keys) : \E j \in 1 .. Len(keys) : keys[j] = n.keys[m]
  <2> SUFFICES ASSUME NEW m \in 1 .. Len(n.keys)
               PROVE  \E j \in 1 .. Len(keys) : keys[j] = n.keys[m]
    OBVIOUS
  <2> HIDE DEF keys
  <2>1. m < i => m \in 1 .. i - 1 /\ m \in 1 .. Len(keys)
    BY <1>6, <1>11, <1>18
  <2>2. m >= i => /\ m + 1 \in i + 1 .. Len(n.keys) + 1 /\ m + 1 \in 1 .. Len(keys)
                  /\ (m + 1) - 1 = m
    BY <1>6, <1>11, <1>18
  <2> QED
    BY <1>6, <1>11, <1>18, <2>1, <2>2
<1> HIDE DEF keys, children
<1>22. id[2] < up
  BY <1>2, <1>7, <1>11, <1>13
<1>23. \A j \in 1 .. Len(keys) : id[2] < keys[j]
  BY <1>5, <1>20, <1>22
<1>24. Within(ns, id, keys)
  <2>1. ASSUME NEW x \in DOMAIN ns, x[1] = id[1], id[2] < x[2], NEW j \in 1 .. Len(keys)
        PROVE  keys[j] < x[2]
    <3>1. x \in DOMAIN nodes
      BY <1>9, <2>1
    <3> QED
      BY <1>5, <1>16, <1>20, <2>1, <3>1
  <2> QED
    BY <1>17, <1>18, <2>1 DEF Within
<1>25. ASSUME NEW j \in 1 .. Len(children)
       PROVE  children[j] \in DOMAIN ns /\ children[j] = ChildAt(id, keys, j)
  <2>1. j \in Nat /\ Len(children) = Len(n.keys) + 2
    BY <1>5, <1>6, <1>19
  <2>2. CASE j <= i
    <3>1. j \in 1 .. i /\ j \in 1 .. Len(n.children) /\ (j # 1 => j - 1 \in 1 .. i - 1)
      BY <1>5, <1>6, <1>11, <2>1, <2>2
    <3>2. children[j] = n.children[j] /\ (j # 1 => keys[j - 1] = n.keys[j - 1])
      BY <1>18, <1>19, <3>1
    <3>3. ChildAt(id, keys, j) = ChildAt(id, n.keys, j)
      BY <3>2 DEF ChildAt
    <3> QED
      BY <1>5, <1>9, <3>1, <3>2, <3>3
  <2>3. CASE j = i + 1
    <3>1. j # 1 /\ j - 1 = i
      BY <1>11, <2>3
    <3> QED
      BY <1>4, <1>7, <1>18, <1>19, <2>3, <3>1 DEF ChildAt
  <2>4. CASE j > i + 1
    <3>1. /\ j \in i + 2 .. Len(n.children) + 1 /\ j - 1 \in 1 .. Len(n.children)
          /\ j - 1 \in i + 1 .. Len(n.keys) + 1 /\ j # 1 /\ j - 1 # 1
      BY <1>5, <1>6, <1>11, <2>1, <2>4
    <3>2. children[j] = n.children[j - 1] /\ keys[j - 1] = n.keys[(j - 1) - 1]
      BY <1>18, <1>19, <3>1
    <3>3. ChildAt(id, keys, j) = ChildAt(id, n.keys, j - 1)
      BY <3>1, <3>2 DEF ChildAt
    <3> QED
      BY <1>5, <1>9, <3>1, <3>2, <3>3
  <2> QED
    BY <1>11, <2>1, <2>2, <2>3, <2>4
<1>26. InnerShape(ns, id, keys, children)
  BY <1>5, <1>6, <1>18, <1>19, <1>23, <1>24, <1>25 DEF InnerShape
<1>27. Len(children) \in 3 .. ORDER + 1
  BY <1>3, <1>19, OrderAssumption DEF n
<1>28. Adopted(id, ns, keys)
  <2> SUFFICES ASSUME NEW x \in DOMAIN ns, x[1] + 1 = id[1]
               PROVE  \/ x[2] = id[2]
                      \/ \E j \in 1 .. Len(keys) : keys[j] = x[2]
                      \/ \E y \in DOMAIN nodes : y # id /\ Under(nodes, x, y)
    BY DEF Adopted
  <2>1. CASE x = res.new_right
    <3>1. x[2] = up /\ i \in 1 .. Len(keys)
      BY <1>6, <1>7, <1>11, <1>18, <2>1
    <3> QED
      BY <1>18, <3>1
  <2>2. CASE x \in DOMAIN nodes
    <3>1. x[1] < h
      BY <1>2, <1>9
    <3>2. PICK y \in DOMAIN nodes : Under(nodes, x, y)
      BY <2>2, <3>1 DEF UpTo
    <3>3. CASE y = id
      BY <1>21, <3>2, <3>3 DEF Under, n
    <3> QED
      BY <3>2, <3>3
  <2> QED
    BY <1>9, <2>1, <2>2
<1> QED
  BY <1>26, <1>27, <1>28 DEF keys, children, n, up, ns

\* Node id with the keys and children it got, for which there is room.
LEMMA InnerWhole ==
    ASSUME NEW h \in Nat, UpTo(nodes, h), NEW id \in DOMAIN nodes, id[1] <= h, id[1] > 0,
           NEW below, Beneath(id, below), NEW keys, NEW children,
           InnerShape(below, id, keys, children), Len(children) \in 2 .. ORDER,
           Adopted(id, below, keys)
    PROVE  Grown(id, Whole([below EXCEPT ![id] = Inner(keys, children)]))
<1> DEFINE m == Inner(keys, children)
           ns == [below EXCEPT ![id] = m]
<1>1. /\ id \in DOMAIN below /\ id[1] \in Nat
      /\ DOMAIN nodes \subseteq DOMAIN below /\ DOMAIN below \subseteq Name
      /\ \A x \in DOMAIN nodes : x[1] >= id[1] => below[x] = nodes[x]
  BY NameFacts DEF Beneath
<1>2. m.leaf = FALSE /\ m.keys = keys /\ m.children = children /\ m \in NodeType
  <2>1. keys \in Seq(Key) /\ children \in Seq(Name)
    BY DEF InnerShape, Within
  <2> QED
    BY <2>1, RecordFacts, InnerType
<1> HIDE DEF m
<1>3. /\ DOMAIN ns = DOMAIN below /\ ns[id] = m
      /\ \A x \in DOMAIN below : x # id => ns[x] = below[x]
  BY <1>1
<1> HIDE DEF ns
<1>4. InnerShape(ns, id, keys, children)
  BY <1>3 DEF InnerShape, Within
<1>5. NodeOK(ns, id)
  <2>1. (id[1] = 0) = FALSE
    BY <1>1
  <2> QED
    BY <1>2, <1>3, <1>4, <2>1 DEF NodeOK
<1>6. Parents(id, below, ns)
  <2> SUFFICES ASSUME NEW x \in DOMAIN below, x[1] + 1 = id[1]
               PROVE  \E y \in DOMAIN ns : Under(ns, x, y)
    BY DEF Parents
  <2>1. CASE x[2] = id[2] \/ \E j \in 1 .. Len(keys) : keys[j] = x[2]
    BY <1>1, <1>2, <1>3, <2>1 DEF Under
  <2>2. CASE \E y \in DOMAIN nodes : y # id /\ Under(nodes, x, y)
    <3>1. PICK y \in DOMAIN nodes : y # id /\ Under(nodes, x, y)
      BY <2>2
    <3>2. y[1] = id[1] /\ y \in DOMAIN below
      BY <1>1, <3>1 DEF Under
    <3>3. ns[y] = nodes[y]
      BY <1>1, <1>3, <3>1, <3>2
    <3>4. Under(ns, x, y)
      BY <3>1, <3>3 DEF Under
    <3> QED
      BY <1>3, <3>2, <3>4
  <2> QED
    BY <2>1, <2>2 DEF Adopted
<1>7. Whole(ns).nodes = ns
  BY RecordFacts
<1> DEFINE res == Whole(ns)
<1> HIDE DEF res
<1>8. res.nodes = ns
  BY <1>7 DEF res
<1>9. Grown(id, res)
  BY <1>3, <1>5, <1>6, <1>8, WholeDone
<1> QED
  BY <1>9 DEF res, ns, m

\* Node id with one child too many.
LEMMA InnerSplit ==
    ASSUME NEW h \in Nat, UpTo(nodes, h), NEW id \in DOMAIN nodes, id[1] <= h, id[1] > 0,
           NEW below, Beneath(id, below), NEW keys, NEW children,
           InnerShape(below, id, keys, children), Len(children) = ORDER + 1,
           Adopted(id, below, keys)
    PROVE  LET res == SplitInner(below, id, keys, children)
           IN  /\ Grown(id, res) /\ SplitOff(id, res)
               /\ DOMAIN below \subseteq DOMAIN res.nodes
               /\ \A x \in DOMAIN res.nodes :
                      x[1] = 0 => x \in DOMAIN below /\ res.nodes[x] = below[x]
<1> DEFINE mid == Len(keys) \div 2
           up == keys[mid + 1]
           right == <<id[1], up>>
           low == Inner(Lower(keys, mid), Lower(children, mid + 1))
           high == Inner(Upper(keys, mid + 1), Upper(children, mid + 1))
           half == [below EXCEPT ![id] = low]
           ns == With(half, right, high)
<1>1. /\ id \in DOMAIN below /\ id[1] \in Nat /\ id[2] \in Nat
      /\ DOMAIN nodes \subseteq DOMAIN below /\ DOMAIN below \subseteq Name
      /\ \A x \in DOMAIN nodes : x[1] >= id[1] => below[x] = nodes[x]
      /\ \A x \in DOMAIN below : x[1] = id[1] => x \in DOMAIN nodes
  BY NameFacts DEF Beneath
<1>2. /\ keys \in Seq(Key) /\ Sorted(keys) /\ children \in Seq(Name)
      /\ Within(below, id, keys)
      /\ \A i \in 1 .. Len(keys) : id[2] < keys[i]
      /\ Len(children) = Len(keys) + 1
      /\ \A i \in 1 .. Len(children) :
             children[i] \in DOMAIN below /\ children[i] = ChildAt(id, keys, i)
  BY DEF InnerShape, Within
<1>3. /\ DOMAIN keys = 1 .. Len(keys) /\ Len(keys) = ORDER
      /\ \A i \in 1 .. Len(keys) : keys[i] \in Key /\ keys[i] \in Nat
  BY <1>2, KeyFacts, OrderAssumption
<1>4. mid \in 1 .. Len(keys) - 2 /\ Len(keys) \in Nat
  BY <1>3, OrderAssumption, Half
<1> HIDE DEF mid
<1>5. mid \in 0 .. Len(keys) /\ mid + 1 \in 1 .. Len(keys) /\ mid + 1 \in 0 .. Len(keys) /\ mid \in Nat
  BY <1>4
<1>6. /\ Lower(keys, mid) \in Seq(Key) /\ Len(Lower(keys, mid)) = mid
      /\ \A j \in 1 .. mid : Lower(keys, mid)[j] = keys[j]
  BY <1>2, <1>5, Parts
<1>7. /\ Upper(keys, mid + 1) \in Seq(Key) /\ Len(Upper(keys, mid + 1)) = Len(keys) - (mid + 1)
      /\ \A j \in 1 .. Len(keys) - (mid + 1) : Upper(keys, mid + 1)[j] = keys[(mid + 1) + j]
  BY <1>2, <1>5, Parts
<1>8. /\ Lower(children, mid + 1) \in Seq(Name) /\ Len(Lower(children, mid + 1)) = mid + 1
      /\ \A j \in 1 .. mid + 1 : Lower(children, mid + 1)[j] = children[j]
      /\ Upper(children, mid + 1) \in Seq(Name)
      /\ Len(Upper(children, mid + 1)) = Len(keys) - mid
      /\ \A j \in 1 .. Len(keys) - mid : Upper(children, mid + 1)[j] = children[(mid + 1) + j]
  <2>1. mid + 1 \in 0 .. Len(children) /\ Len(children) - (mid + 1) = Len(keys) - mid
    BY <1>2, <1>4, <1>5
  <2>2. /\ Lower(children, mid + 1) \in Seq(Name) /\ Len(Lower(children, mid + 1)) = mid + 1
        /\ \A j \in 1 .. mid + 1 : Lower(children, mid + 1)[j] = children[j]
        /\ Upper(children, mid + 1) \in Seq(Name)
        /\ Len(Upper(children, mid + 1)) = Len(children) - (mid + 1)
        /\ \A j \in 1 .. Len(children) - (mid + 1) :
               Upper(children, mid + 1)[j] = children[(mid + 1) + j]
    BY <1>2, <2>1, Parts
  <2> QED
    BY <2>1, <2>2
<1>9. up \in Key /\ up \in Nat /\ id[2] < up
  BY <1>2, <1>3, <1>5
<1>10. Covers(nodes, id, up)
  <2> SUFFICES ASSUME NEW x \in DOMAIN nodes, x[1] = id[1], x[2] <= up PROVE x[2] <= id[2]
    BY <1>1, <1>9 DEF Covers
  <2>1. x[2] \in Nat /\ x \in DOMAIN below
    BY <1>1, NameFacts
  <2>2. id[2] < x[2] => up < x[2]
    BY <1>2, <1>5, <2>1 DEF Within
  <2> QED
    BY <1>1, <1>9, <2>1, <2>2
<1>11. right[1] = id[1] /\ right[2] = up /\ right \in Name
  BY <1>1, <1>9 DEF Name
<1>12. right \notin DOMAIN below
  <2>1. right \in DOMAIN below => up <= id[2]
    BY <1>1, <1>9, <1>10, <1>11 DEF Covers
  <2> QED
    BY <1>1, <1>9, <2>1
<1> HIDE DEF up, right
<1>13. low \in NodeType /\ high \in NodeType
  BY <1>6, <1>7, <1>8, InnerType
<1>14. /\ low.leaf = FALSE /\ low.keys = Lower(keys, mid) /\ low.children = Lower(children, mid + 1)
       /\ high.leaf = FALSE /\ high.keys = Upper(keys, mid + 1)
       /\ high.children = Upper(children, mid + 1)
  BY RecordFacts
<1> HIDE DEF low, high
<1>15. /\ DOMAIN half = DOMAIN below /\ half[id] = low
       /\ \A x \in DOMAIN below : x # id => half[x] = below[x]
  BY <1>1
<1> HIDE DEF half
<1>16. /\ DOMAIN ns = DOMAIN half \cup {right} /\ ns[right] = high
       /\ \A x \in DOMAIN half : x # right => ns[x] = half[x]
  BY DEF With
<1>17. SplitInner(below, id, keys, children) = Split(ns, up, right)
  BY DEF SplitInner, mid, up, right, low, high, half
<1> HIDE DEF ns
<1>18. /\ DOMAIN ns = DOMAIN below \cup {right} /\ ns[right] = high /\ ns[id] = low
       /\ \A x \in DOMAIN below : x # id => ns[x] = below[x]
  BY <1>1, <1>12, <1>15, <1>16
<1>19. Within(ns, id, Lower(keys, mid))
  <2>1. \A x \in DOMAIN below : x[1] = id[1] /\ id[2] < x[2] =>
            \A i \in 1 .. mid : keys[i] < x[2]
    BY <1>2, <1>5 DEF Within
  <2>2. \A i \in 1 .. mid : keys[i] < up
    BY <1>2, <1>3, <1>5 DEF Sorted, up
  <2>3. Sorted(Lower(keys, mid))
    <3>1. DOMAIN Lower(keys, mid) = 1 .. mid /\ \A i \in 1 .. mid : i \in DOMAIN keys
      BY <1>3, <1>5, <1>6
    <3> QED
      BY <1>2, <1>6, <3>1 DEF Sorted
  <2>4. ASSUME NEW x \in DOMAIN ns, x[1] = id[1], id[2] < x[2], NEW i \in 1 .. mid
        PROVE  keys[i] < x[2]
    <3>1. x \in DOMAIN below \/ x[2] = up
      BY <1>11, <1>18
    <3> QED
      BY <2>1, <2>2, <2>4, <3>1
  <2> QED
    BY <1>6, <2>3, <2>4 DEF Within
<1>20. Within(ns, right, Upper(keys, mid + 1))
  <2> DEFINE last == Len(keys) - (mid + 1)
  <2>1. last \in Nat /\ \A i \in 1 .. last : (mid + 1) + i \in 1 .. Len(keys)
    BY <1>4
  <2> HIDE DEF last
  <2>2. ASSUME NEW x \in DOMAIN ns, x[1] = right[1], right[2] < x[2], NEW i \in 1 .. last
        PROVE  keys[(mid + 1) + i] < x[2]
    <3>1. x \in DOMAIN below
      BY <1>9, <1>11, <1>18, <2>2
    <3>2. x[1] = id[1] /\ x[2] \in Nat
      BY <1>1, <1>11, <2>2, <3>1, NameFacts
    <3>3. id[2] < x[2]
      BY <1>1, <1>9, <1>11, <2>2, <3>2
    <3> QED
      BY <1>2, <2>1, <3>1, <3>2, <3>3 DEF Within
  <2>3. Sorted(Upper(keys, mid + 1))
    <3>1. DOMAIN Upper(keys, mid + 1) = 1 .. last
      BY <1>7, <2>1 DEF last
    <3>2. ASSUME NEW i \in 1 .. last, NEW j \in 1 .. last, i < j
          PROVE  keys[(mid + 1) + i] < keys[(mid + 1) + j]
      <4>1. (mid + 1) + i \in DOMAIN keys /\ (mid + 1) + j \in DOMAIN keys
        BY <1>3, <2>1
      <4>2. i \in Nat /\ j \in Nat /\ mid + 1 \in Nat
        BY <1>5, <2>1
      <4>3. (mid + 1) + i < (mid + 1) + j
        BY <3>2, <4>2
      <4> QED
        BY <1>2, <4>1, <4>3 DEF Sorted
    <3> QED
      BY <1>7, <3>1, <3>2 DEF Sorted, last
  <2> QED
    BY <1>7, <2>2, <2>3 DEF Within, last
<1>21. InnerShape(ns, id, low.keys, low.children)
  <2>1. \A i \in 1 .. mid : i \in 1 .. Len(keys)
    BY <1>4, <1>5
  <2>2. ASSUME NEW i \in 1 .. mid + 1
        PROVE  /\ Lower(children, mid + 1)[i] \in DOMAIN ns
               /\ Lower(children, mid + 1)[i] = ChildAt(id, Lower(keys, mid), i)
    <3>1. i \in 1 .. Len(children) /\ (i # 1 => i - 1 \in 1 .. mid)
      BY <1>2, <1>4, <1>5
    <3>2. ChildAt(id, Lower(keys, mid), i) = ChildAt(id, keys, i)
      BY <1>6, <3>1 DEF ChildAt
    <3> QED
      BY <1>2, <1>8, <1>18, <3>1, <3>2
  <2> QED
    BY <1>2, <1>6, <1>8, <1>14, <1>19, <2>1, <2>2 DEF InnerShape
<1>22. InnerShape(ns, right, high.keys, high.children)
  <2>1. \A i \in 1 .. Len(keys) - (mid + 1) : up < keys[(mid + 1) + i]
    <3> SUFFICES ASSUME NEW i \in 1 .. Len(keys) - (mid + 1) PROVE up < keys[(mid + 1) + i]
      OBVIOUS
    <3>1. mid + 1 \in DOMAIN keys /\ (mid + 1) + i \in DOMAIN keys /\ mid + 1 < (mid + 1) + i
      BY <1>3, <1>4, <1>5
    <3> QED
      BY <1>2, <3>1 DEF Sorted, up
  <2>2. ASSUME NEW i \in 1 .. Len(keys) - mid
        PROVE  /\ Upper(children, mid + 1)[i] \in DOMAIN ns
               /\ Upper(children, mid + 1)[i] = ChildAt(right, Upper(keys, mid + 1), i)
    <3> DEFINE p == (mid + 1) + i
    <3>1. /\ p \in 1 .. Len(children) /\ p # 1 /\ i \in Nat
          /\ i = 1 => p - 1 = mid + 1
          /\ i # 1 => i - 1 \in 1 .. Len(keys) - (mid + 1) /\ (mid + 1) + (i - 1) = p - 1
      BY <1>2, <1>4, <1>5
    <3>2. Upper(children, mid + 1)[i] = children[p]
      BY <1>8
    <3> HIDE DEF p
    <3>3. children[p] = <<id[1] - 1, keys[p - 1]>> /\ children[p] \in DOMAIN below
      BY <1>2, <3>1 DEF ChildAt
    <3>4. keys[p - 1] = IF i = 1 THEN right[2] ELSE Upper(keys, mid + 1)[i - 1]
      BY <1>7, <1>11, <3>1 DEF up
    <3> QED
      BY <1>11, <1>18, <3>2, <3>3, <3>4 DEF ChildAt
  <2>3. Len(keys) - mid = (Len(keys) - (mid + 1)) + 1
    BY <1>4, <1>5
  <2>4. \A i \in 1 .. Len(Upper(keys, mid + 1)) : right[2] < Upper(keys, mid + 1)[i]
    BY <1>7, <1>11, <2>1
  <2>5. Len(Upper(children, mid + 1)) = Len(Upper(keys, mid + 1)) + 1
    BY <1>7, <1>8, <2>3
  <2> QED
    BY <1>8, <1>14, <1>20, <2>2, <2>4, <2>5 DEF InnerShape
<1>23. mid + 1 \in 2 .. ORDER /\ Len(keys) - mid \in 2 .. ORDER
  BY <1>3, <1>4
<1>24. NodeOK(ns, id) /\ NodeOK(ns, right)
  <2>1. (id[1] = 0) = FALSE /\ (right[1] = 0) = FALSE
    BY <1>1, <1>11
  <2>2. NodeOK(ns, id)
    BY <1>8, <1>13, <1>14, <1>18, <1>21, <1>23, <2>1 DEF NodeOK
  <2>3. NodeOK(ns, right)
    BY <1>8, <1>13, <1>14, <1>18, <1>22, <1>23, <2>1 DEF NodeOK
  <2> QED
    BY <2>2, <2>3
<1>25. Apart(id, below, up, ns)
  BY <1>18 DEF Apart, right
<1>26. Parents(id, below, ns)
  <2> SUFFICES ASSUME NEW x \in DOMAIN below, x[1] + 1 = id[1]
               PROVE  \E y \in DOMAIN ns : Under(ns, x, y)
    BY DEF Parents
  <2>1. CASE x[2] = id[2]
    BY <1>1, <1>18, <2>1 DEF Under
  <2>2. CASE \E j \in 1 .. Len(keys) : keys[j] = x[2]
    <3>1. PICK j \in 1 .. Len(keys) : keys[j] = x[2]
      BY <2>2
    <3>2. CASE j <= mid
      <4>1. j \in 1 .. mid
        BY <1>5, <3>2
      <4> QED
        BY <1>1, <1>6, <1>14, <1>18, <3>1, <4>1 DEF Under
    <3>3. CASE j = mid + 1
      BY <1>11, <1>18, <3>1, <3>3 DEF Under, up
    <3>4. CASE j > mid + 1
      <4>1. /\ j - (mid + 1) \in 1 .. Len(keys) - (mid + 1)
            /\ (mid + 1) + (j - (mid + 1)) = j
        BY <1>4, <1>5, <3>4
      <4> QED
        BY <1>7, <1>11, <1>14, <1>18, <3>1, <4>1 DEF Under
    <3> QED
      BY <1>5, <3>2, <3>3, <3>4
  <2>3. CASE \E y \in DOMAIN nodes : y # id /\ Under(nodes, x, y)
    <3>1. PICK y \in DOMAIN nodes : y # id /\ Under(nodes, x, y)
      BY <2>3
    <3>2. y[1] = id[1] /\ y \in DOMAIN below
      BY <1>1, <3>1 DEF Under
    <3>3. ns[y] = nodes[y]
      BY <1>1, <1>18, <3>1, <3>2
    <3>4. Under(ns, x, y)
      BY <3>1, <3>3 DEF Under
    <3> QED
      BY <1>18, <3>2, <3>4
  <2> QED
    BY <2>1, <2>2, <2>3 DEF Adopted
<1>27. Grown(id, Split(ns, up, right)) /\ SplitOff(id, Split(ns, up, right))
  <2>1. right = <<id[1], up>>
    BY DEF right
  <2>2. NodeOK(ns, <<id[1], up>>)
    BY <1>24, <2>1
  <2> QED
    BY <1>9, <1>10, <1>24, <1>25, <1>26, <2>1, <2>2, SplitDone
<1>28. Split(ns, up, right).nodes = ns
  BY RecordFacts
<1>29. \A x \in DOMAIN ns : x[1] = 0 => x \in DOMAIN below /\ ns[x] = below[x]
  <2>1. right[1] # 0 /\ id[1] # 0
    BY <1>1, <1>11
  <2> QED
    BY <1>18, <2>1
<1> QED
  BY <1>17, <1>18, <1>27, <1>28, <1>29

\* A node that takes a new child, with or without a split, is right.
LEMMA TakenChild ==
    ASSUME NEW h \in Nat, UpTo(nodes, h), NEW key \in Key, NEW rid, NEW id,
           Covers(nodes, id, key), id[1] <= h, ~nodes[id].leaf,
           NEW c, c = nodes[id].children[Route(nodes[id], key)],
           NEW below, Result(c, key, rid, below), below.split
    PROVE  Result(id, key, rid, TakeChild(id, key, below))
<1> DEFINE i == Route(nodes[id], key)
           keys == InsertAt(nodes[id].keys, i, below.up_key)
           children == InsertAt(nodes[id].children, i + 1, below.new_right)
           res == TakeChild(id, key, below)
<1>1. /\ Grown(c, below) /\ SplitOff(c, below) /\ Stored(key, rid, below.nodes)
      /\ Chained(nodes) => Chained(below.nodes)
  BY DEF Result
<1>2. id \in DOMAIN nodes /\ DOMAIN nodes \subseteq Name /\ NodeOK(nodes, id)
  BY DEF Covers, UpTo
<1>3. id[1] \in Nat /\ id[1] > 0
  BY <1>2, NameFacts, InnerNode
<1>4. c[1] = id[1] - 1
  BY ChildCovers
<1>5. Beneath(id, below.nodes)
  BY <1>1, <1>2, <1>3, <1>4, BeneathResult
<1>6. /\ InnerShape(below.nodes, id, keys, children)
      /\ Len(children) \in 3 .. ORDER + 1
      /\ Adopted(id, below.nodes, keys)
  BY <1>1, Widened
<1>7. /\ Len(children) <= ORDER => res = Whole([below.nodes EXCEPT ![id] = Inner(keys, children)])
      /\ ~(Len(children) <= ORDER) => res = SplitInner(below.nodes, id, keys, children)
  BY DEF TakeChild
<1> HIDE DEF i, keys, children, res
<1>8. CASE Len(children) <= ORDER
  <2> DEFINE ns == [below.nodes EXCEPT ![id] = Inner(keys, children)]
  <2>1. Grown(id, res)
    <3>1. Len(children) \in 2 .. ORDER
      BY <1>6, <1>8, OrderAssumption
    <3> DEFINE low == below.nodes
    <3>2. /\ h \in Nat /\ UpTo(nodes, h) /\ id \in DOMAIN nodes /\ id[1] <= h /\ id[1] > 0
          /\ Beneath(id, low) /\ InnerShape(low, id, keys, children)
          /\ Len(children) \in 2 .. ORDER /\ Adopted(id, low, keys)
      BY <1>2, <1>3, <1>5, <1>6, <3>1
    <3> HIDE DEF low
    <3>3. Grown(id, Whole([low EXCEPT ![id] = Inner(keys, children)]))
      BY ONLY <3>2, InnerWhole
    <3> QED
      BY <1>7, <1>8, <3>3 DEF low
  <2>2. res.nodes = ns /\ res.split = FALSE
    BY <1>7, <1>8, RecordFacts
  <2>3. \A x \in DOMAIN ns : x[1] = 0 => x \in DOMAIN below.nodes /\ ns[x] = below.nodes[x]
    BY <1>3
  <2>4. DOMAIN below.nodes \subseteq DOMAIN ns
    OBVIOUS
  <2> HIDE DEF ns
  <2>5. Stored(key, rid, ns) /\ (Chained(below.nodes) => Chained(ns))
    BY <1>1, <2>3, <2>4, RowsKept, ChainKept DEF Stored
  <2>6. SplitOff(id, res)
    BY <2>2 DEF SplitOff
  <2> QED
    BY <1>1, <2>1, <2>2, <2>5, <2>6 DEF Result, res
<1>9. CASE ~(Len(children) <= ORDER)
  <2>1. Len(children) = ORDER + 1
    BY <1>6, <1>9, OrderAssumption
  <2>2. /\ Grown(id, res) /\ SplitOff(id, res)
        /\ DOMAIN below.nodes \subseteq DOMAIN res.nodes
        /\ \A x \in DOMAIN res.nodes :
               x[1] = 0 => x \in DOMAIN below.nodes /\ res.nodes[x] = below.nodes[x]
    BY <1>2, <1>3, <1>5, <1>6, <1>7, <1>9, <2>1, InnerSplit
  <2>3. Stored(key, rid, res.nodes) /\ (Chained(below.nodes) => Chained(res.nodes))
    BY <1>1, <2>2, RowsKept, ChainKept DEF Stored
  <2> QED
    BY <1>1, <2>2, <2>3 DEF Result, res
<1> QED
  BY <1>8, <1>9

-------------------------------------------------------------------------------
(* insertInto, from the root down and up again.                             *)

IntoStep(id, key, rid, below) ==
    CASE nodes[id].leaf                   -> InsertIntoLeaf(id, key, rid)
      [] ~nodes[id].leaf /\ below.split   -> TakeChild(id, key, below)
      [] OTHER                            -> below

\* f is insertInto for the nodes up to height h.
Into(key, rid, h, f) ==
    f = [id \in {x \in DOMAIN nodes : x[1] <= h} |->
            IntoStep(id, key, rid, f[nodes[id].children[Route(nodes[id], key)]])]

\* The recursion of insertInto has a solution, by its height.
LEMMA IntoExists ==
    ASSUME NEW top \in Nat, UpTo(nodes, top), NEW key \in Key, NEW rid
    PROVE  \E f : Into(key, rid, top, f)
<1> DEFINE without == {h \in 0 .. top : ~ \E f : Into(key, rid, h, f)}
<1> SUFFICES ASSUME without # {} PROVE FALSE
  OBVIOUS
<1>1. PICK h \in without : \A m \in without : h <= m
  <2>1. without \in SUBSET Nat
    OBVIOUS
  <2> HIDE DEF without
  <2> QED
    BY <2>1, LeastElement
<1>2. h \in 0 .. top /\ ~ \E f : Into(key, rid, h, f)
  OBVIOUS
<1>3. h > 0 => \E f : Into(key, rid, h - 1, f)
  <2>1. h > 0 => h - 1 \in 0 .. top /\ h - 1 \notin without
    <3> HIDE DEF without
    <3> QED
      BY <1>1, <1>2
  <2> QED
    BY <2>1
<1> HIDE DEF without
<1> DEFINE child(id) == nodes[id].children[Route(nodes[id], key)]
<1>4. PICK f : h > 0 => Into(key, rid, h - 1, f)
  BY <1>3
<1> DEFINE g == [id \in {x \in DOMAIN nodes : x[1] <= h} |-> IntoStep(id, key, rid, f[child(id)])]
<1>5. ASSUME NEW id \in DOMAIN nodes, id[1] <= h, ~nodes[id].leaf
      PROVE  g[child(id)] = f[child(id)]
  <2>1. child(id) \in DOMAIN nodes /\ child(id)[1] = id[1] - 1 /\ id[1] > 0 /\ id[1] \in Nat
    <3>1. id[1] \in Nat /\ id[1] <= top
      BY <1>2, <1>5, NameFacts DEF UpTo
    <3> QED
      BY <1>5, <3>1, ChildBelow
  <2> DEFINE c == child(id)
  <2> HIDE DEF c
  <2>2. h > 0 /\ c \in DOMAIN nodes /\ c[1] <= h - 1 /\ c[1] <= h
    BY <1>2, <1>5, <2>1 DEF c
  <2>3. f[c] = IntoStep(c, key, rid, f[child(c)])
    BY <1>4, <2>2 DEF Into
  <2>4. g[c] = IntoStep(c, key, rid, f[child(c)])
    BY <2>2
  <2> QED
    BY <2>3, <2>4 DEF c
<1>6. Into(key, rid, h, g)
  <2>1. ASSUME NEW id \in {x \in DOMAIN nodes : x[1] <= h}
        PROVE  g[id] = IntoStep(id, key, rid, g[child(id)])
    <3>1. g[id] = IntoStep(id, key, rid, f[child(id)])
      OBVIOUS
    <3> HIDE DEF g
    <3>2. CASE nodes[id].leaf
      BY <3>1, <3>2 DEF IntoStep
    <3>3. CASE ~nodes[id].leaf
      BY <1>5, <3>1, <3>3
    <3> QED
      BY <3>2, <3>3
  <2>2. g = [id \in {x \in DOMAIN nodes : x[1] <= h} |-> g[id]]
    OBVIOUS
  <2> HIDE DEF g
  <2> QED
    BY <2>1, <2>2 DEF Into
<1> QED
  BY <1>2, <1>6

\* insertInto is right for the root, by induction on the height.
LEMMA InsertIntoResult ==
    ASSUME root # NoNode, Tree(nodes, root), NEW key \in Key, NEW rid \in Rows[key]
    PROVE  Result(root, key, rid, insertInto(key, rid))
<1>1. /\ UpTo(nodes, root[1]) /\ root \in DOMAIN nodes /\ DOMAIN nodes \subseteq Name
      /\ key \in Nat /\ root[1] \in Nat /\ \A x \in DOMAIN nodes : x[1] <= root[1]
  BY NameFacts, KeyAssumption DEF Tree, Rooted, UpTo
<1>2. DOMAIN nodes = {x \in DOMAIN nodes : x[1] <= root[1]}
  BY <1>1
<1> DEFINE Eq(f) == f = [id \in DOMAIN nodes |->
                             IntoStep(id, key, rid, f[nodes[id].children[Route(nodes[id], key)]])]
<1>3. \E f : Eq(f)
  <2>1. PICK f : Into(key, rid, root[1], f)
    BY <1>1, IntoExists
  <2>2. Eq(f)
    BY <1>2, <2>1 DEF Into
  <2> QED
    BY <2>2
<1>4. PICK f : Eq(f) /\ insertInto(key, rid) = f[root]
  BY <1>3 DEF insertInto, IntoStep
<1> DEFINE done(id) == Result(id, key, rid, f[id])
           lost == {h \in Nat : \E id \in DOMAIN nodes : /\ id[1] = h /\ Covers(nodes, id, key)
                                                        /\ ~done(id)}
<1>5. lost = {}
  <2> SUFFICES ASSUME lost # {} PROVE FALSE
    OBVIOUS
  <2>1. PICK h \in lost : \A m \in lost : h <= m
    <3>1. lost \in SUBSET Nat
      OBVIOUS
    <3> HIDE DEF lost
    <3> QED
      BY <3>1, LeastElement
  <2>2. PICK id \in DOMAIN nodes : id[1] = h /\ Covers(nodes, id, key) /\ ~done(id)
    BY <2>1
  <2>3. f[id] = IntoStep(id, key, rid, f[nodes[id].children[Route(nodes[id], key)]])
    BY <1>4
  <2>4. id[1] <= root[1] /\ NodeOK(nodes, id)
    BY <1>1 DEF UpTo
  <2>5. CASE nodes[id].leaf
    <3>1. id[1] = 0
      BY <1>1, <2>4, <2>5, InnerNode
    <3>2. f[id] = InsertIntoLeaf(id, key, rid)
      BY <2>3, <2>5 DEF IntoStep
    <3> QED
      BY <1>1, <2>2, <3>1, <3>2, LeafResult
  <2>6. CASE ~nodes[id].leaf
    <3> DEFINE c == nodes[id].children[Route(nodes[id], key)]
    <3>1. Covers(nodes, c, key) /\ c[1] = id[1] - 1 /\ id[1] > 0
      BY <1>1, <2>2, <2>4, <2>6, ChildCovers
    <3>2. c[1] \in Nat /\ c[1] < h /\ c \in DOMAIN nodes
      BY <1>1, <2>2, <3>1, NameFacts DEF Covers
    <3>3. done(c)
      <4> SUFFICES ASSUME ~done(c) PROVE FALSE
        OBVIOUS
      <4>1. c[1] \in lost
        BY <3>1, <3>2
      <4>2. h \in Nat
        OBVIOUS
      <4> HIDE DEF lost, c
      <4>3. h <= c[1]
        BY <2>1, <4>1
      <4> QED
        BY <3>2, <4>2, <4>3
    <3>4. CASE f[c].split
      <4>1. f[id] = TakeChild(id, key, f[c])
        BY <2>3, <2>6, <3>4 DEF IntoStep
      <4> QED
        BY <1>1, <2>2, <2>4, <2>6, <3>3, <3>4, <4>1, TakenChild
    <3>5. CASE ~f[c].split
      <4>1. f[id] = f[c]
        BY <2>3, <2>6, <3>5 DEF IntoStep
      <4> QED
        BY <1>1, <2>2, <2>4, <3>1, <3>3, <3>5, <4>1, NotSplit
    <3> QED
      BY <3>4, <3>5
  <2> QED
    BY <2>5, <2>6
<1>6. done(root)
  <2>1. Covers(nodes, root, key)
    BY <1>1, RootCovers
  <2>2. root[1] \notin lost
    BY <1>5
  <2> QED
    BY <1>1, <2>1, <2>2
<1> QED
  BY <1>4, <1>6

-------------------------------------------------------------------------------
(* The tree after each call.                                                *)

\* If the root was not split the tree is one under it,
LEMMA TreeWhole ==
    ASSUME Tree(nodes, root), NEW res, Grown(root, res), ~res.split
    PROVE  Tree(res.nodes, root)
<1>1. /\ root \in DOMAIN nodes /\ root[2] = 0 /\ DOMAIN nodes \subseteq Name
      /\ \A x \in DOMAIN nodes : x[1] <= root[1] /\ (x[1] = root[1] => x = root)
  BY DEF Tree, Rooted, UpTo
<1> DEFINE ns == res.nodes
<1>2. /\ DOMAIN nodes \subseteq DOMAIN ns /\ UpTo(ns, root[1])
      /\ \A x \in DOMAIN ns : x \in DOMAIN nodes \/ x[1] < root[1]
  BY DEF Grown
<1> HIDE DEF ns
<1>3. root[1] \in Nat /\ \A x \in DOMAIN ns : x[1] \in Nat
  BY <1>1, <1>2, NameFacts DEF UpTo
<1>4. Rooted(ns, root)
  BY <1>1, <1>2, <1>3 DEF Rooted
<1> QED
  BY <1>2, <1>4 DEF Tree, ns

\* and if it was, under the new root.
LEMMA TreeSplit ==
    ASSUME Tree(nodes, root), NEW res, Grown(root, res), SplitOff(root, res), res.split,
           NEW top, top = <<root[1] + 1, 0>>, NEW ns,
           ns = With(res.nodes, top, Inner(<<res.up_key>>, <<root, res.new_right>>))
    PROVE  /\ Tree(ns, top)
           /\ DOMAIN res.nodes \subseteq DOMAIN ns
           /\ \A x \in DOMAIN ns : x[1] = 0 => x \in DOMAIN res.nodes /\ ns[x] = res.nodes[x]
<1> DEFINE low == res.nodes
           up == res.up_key
           right == res.new_right
           keys == <<up>>
           children == <<root, right>>
           n == Inner(keys, children)
<1>1. /\ root \in DOMAIN nodes /\ root[2] = 0 /\ DOMAIN nodes \subseteq Name
      /\ \A x \in DOMAIN nodes : x[1] <= root[1] /\ (x[1] = root[1] => x = root)
  BY DEF Tree, Rooted, UpTo
<1>2. /\ DOMAIN nodes \subseteq DOMAIN low /\ UpTo(low, root[1])
      /\ \A x \in DOMAIN low : x \in DOMAIN nodes \/ x[1] < root[1] \/ x = right
  BY DEF Grown
<1>3. /\ right = <<root[1], up>> /\ right \in DOMAIN low /\ up \in Key
  BY DEF SplitOff
<1>4. /\ DOMAIN low \subseteq Name /\ root[1] \in Nat
      /\ \A x \in DOMAIN low : x[1] \in Nat /\ x[2] \in Nat
      /\ up \in Nat /\ up > 0
  BY <1>1, <1>2, <1>3, NameFacts, KeyAssumption DEF UpTo
<1>5. root = <<root[1], 0>> /\ root \in DOMAIN low
  BY <1>1, <1>2, NameFacts
<1>6. /\ top[1] = root[1] + 1 /\ top[2] = 0 /\ top \in Name /\ top \notin DOMAIN low
  <2>1. top[1] = root[1] + 1 /\ top[2] = 0 /\ top \in Name
    BY <1>4 DEF Name
  <2>2. \A x \in DOMAIN low : x[1] <= root[1]
    BY <1>1, <1>2, <1>3, <1>4
  <2> QED
    BY <1>4, <2>1, <2>2
<1>7. \A x \in DOMAIN low : x[1] <= root[1] /\ (x[1] = root[1] => x = root \/ x = right)
  BY <1>1, <1>2, <1>3, <1>4
<1>8. /\ keys \in Seq(Key) /\ Len(keys) = 1 /\ keys[1] = up
      /\ children \in Seq(Name) /\ Len(children) = 2
      /\ children[1] = root /\ children[2] = right
  BY <1>3, <1>4, <1>5
<1> HIDE DEF low, up, right, keys, children
<1>9. n.leaf = FALSE /\ n.keys = keys /\ n.children = children /\ n \in NodeType
  BY <1>8, RecordFacts, InnerType
<1> HIDE DEF n
<1>10. ns = With(low, top, n)
  BY DEF low, n, keys, children, up, right
<1>11. /\ DOMAIN ns = DOMAIN low \cup {top} /\ ns[top] = n
       /\ \A x \in DOMAIN low : ns[x] = low[x]
  BY <1>6, <1>10 DEF With
<1>12. InnerShape(ns, top, keys, children)
  <2>1. Sorted(keys)
    <3>1. DOMAIN keys = {1}
      BY <1>8
    <3> QED
      BY <3>1 DEF Sorted
  <2>2. \A x \in DOMAIN ns : x[1] = top[1] => x = top
    BY <1>4, <1>6, <1>7, <1>11
  <2>3. Within(ns, top, keys)
    <3>1. \A x \in DOMAIN ns : ~(x[1] = top[1] /\ top[2] < x[2])
      BY <1>6, <2>2
    <3> QED
      BY <1>8, <2>1, <3>1 DEF Within
  <2>4. ASSUME NEW i \in 1 .. Len(children)
        PROVE  children[i] \in DOMAIN ns /\ children[i] = ChildAt(top, keys, i)
    <3>1. i = 1 \/ i = 2
      BY <1>8
    <3>2. top[1] - 1 = root[1]
      BY <1>4, <1>6
    <3>3. CASE i = 1
      BY <1>5, <1>6, <1>8, <1>11, <3>2, <3>3 DEF ChildAt
    <3>4. CASE i = 2
      <4>1. ChildAt(top, keys, 2) = <<top[1] - 1, keys[1]>>
        BY DEF ChildAt
      <4> QED
        BY <1>3, <1>8, <1>11, <3>2, <3>4, <4>1
    <3> QED
      BY <3>1, <3>3, <3>4
  <2>5. \A i \in 1 .. Len(keys) : top[2] < keys[i]
    BY <1>4, <1>6, <1>8
  <2> QED
    BY <1>8, <2>3, <2>4, <2>5 DEF InnerShape
<1>13. NodeOK(ns, top)
  <2>1. (top[1] = 0) = FALSE /\ 2 \in 2 .. ORDER
    BY <1>4, <1>6, OrderAssumption
  <2>2. /\ ns[top] \in NodeType /\ ns[top].leaf = FALSE
        /\ ns[top].keys = keys /\ ns[top].children = children
    BY <1>9, <1>11
  <2>3. InnerShape(ns, top, ns[top].keys, ns[top].children)
    BY <1>12, <2>2
  <2>4. Len(ns[top].children) \in 2 .. ORDER
    BY <1>8, <2>1, <2>2
  <2> QED
    BY ONLY <2>1, <2>2, <2>3, <2>4 DEF NodeOK
<1>14. ASSUME NEW x \in DOMAIN low
       PROVE  NodeOK(ns, x)
  <2>1. NodeOK(low, x)
    BY <1>2, <1>7 DEF UpTo
  <2>2. \A y \in DOMAIN ns : y[1] = x[1] => y \in DOMAIN low
    <3>1. x[1] # top[1]
      BY <1>4, <1>6, <1>7
    <3> QED
      BY <1>11, <3>1
  <2> QED
    BY <1>11, <2>1, <2>2, NodeKept
<1>15. ASSUME NEW x \in DOMAIN ns, x[1] < top[1]
       PROVE  \E y \in DOMAIN ns : Under(ns, x, y)
  <2>1. x \in DOMAIN low /\ x[1] \in Nat
    BY <1>4, <1>6, <1>11, <1>15
  <2>2. CASE x[1] = root[1]
    <3>1. x = root \/ x = right
      BY <1>7, <2>1, <2>2
    <3>2. x[2] = top[2] \/ x[2] = keys[1]
      BY <1>1, <1>3, <1>6, <1>8, <3>1
    <3>3. Under(ns, x, top)
      <4>1. ns[top].keys = keys /\ 1 \in 1 .. Len(ns[top].keys)
        <5>1. ns[top].keys = keys
          BY ONLY <1>9, <1>11
        <5>2. Len(ns[top].keys) = 1
          BY ONLY <1>8, <5>1
        <5> QED
          BY ONLY <5>1, <5>2
      <4>2. top[1] = x[1] + 1
        BY <1>6, <2>2
      <4> QED
        BY <3>2, <4>1, <4>2 DEF Under
    <3> QED
      BY <1>11, <3>3
  <2>3. CASE x[1] < root[1]
    <3>1. PICK y \in DOMAIN low : Under(low, x, y)
      BY <1>2, <2>1, <2>3 DEF UpTo
    <3>2. Under(ns, x, y)
      BY <1>11, <3>1 DEF Under
    <3> QED
      BY <1>11, <3>2
  <2> QED
    BY <1>4, <1>7, <2>1, <2>2, <2>3
<1>16. Tree(ns, top)
  <2>1. Rooted(ns, top)
    <3>1. \A x \in DOMAIN low : x[1] < top[1]
      BY <1>4, <1>6, <1>7
    <3> QED
      BY <1>4, <1>6, <1>11, <3>1 DEF Rooted
  <2>2. DOMAIN ns \subseteq Name
    BY <1>4, <1>6, <1>11
  <2>3. UpTo(ns, top[1])
    BY <1>11, <1>13, <1>14, <1>15, <2>2 DEF UpTo
  <2> QED
    BY <2>1, <2>3 DEF Tree
<1>17. \A x \in DOMAIN ns : x[1] = 0 => x \in DOMAIN low /\ ns[x] = low[x]
  BY <1>4, <1>6, <1>11
<1> QED
  BY <1>11, <1>16, <1>17 DEF low

\* Found and search, of the present tree
LEMMA FoundIs ==
    ASSUME NEW k
    PROVE  /\ Found(k) <=> root # NoNode /\ FoundIn(nodes, root, k)
           /\ search(k) = SearchIn(nodes, root, k)
BY DEF Found, search, findLeaf, FoundIn, SearchIn, FindLeafIn

\* and of the next one.
LEMMA FoundIsNext ==
    ASSUME NEW k
    PROVE  /\ Found(k)' <=> root' # NoNode /\ FoundIn(nodes', root', k)
           /\ search(k)' = SearchIn(nodes', root', k)
BY DEF Found, search, findLeaf, FoundIn, SearchIn, FindLeafIn

\* What an insertion or an erasure of a key does to what searches find: the
\* key's rows are R now, the others are what they were.
LEMMA SearchesChanged ==
    ASSUME NEW ns, NEW top, Tree(ns, top), NEW ns2, NEW top2, Tree(ns2, top2),
           NEW key \in Key, NEW R,
           \A j \in Key : \A v : RowIn(ns2, j, v) <=> IF j = key THEN v \in R ELSE RowIn(ns, j, v)
    PROVE  /\ FoundIn(ns2, top2, key) <=> R # {}
           /\ FoundIn(ns2, top2, key) => SearchIn(ns2, top2, key) \in R
           /\ \A j \in Key : j # key =>
                  /\ FoundIn(ns2, top2, j) <=> FoundIn(ns, top, j)
                  /\ FoundIn(ns, top, j) => SearchIn(ns2, top2, j) = SearchIn(ns, top, j)
<1>1. FoundIn(ns2, top2, key) => SearchIn(ns2, top2, key) \in R
  <2>1. FoundIn(ns2, top2, key) => RowIn(ns2, key, SearchIn(ns2, top2, key))
    BY SearchIs
  <2> QED
    BY <2>1
<1>2. R # {} => FoundIn(ns2, top2, key)
  <2> SUFFICES ASSUME NEW v \in R PROVE FoundIn(ns2, top2, key)
    OBVIOUS
  <2>1. RowIn(ns2, key, v)
    OBVIOUS
  <2> QED
    BY <2>1, SearchIs
<1>3. ASSUME NEW j \in Key, j # key
      PROVE  /\ FoundIn(ns2, top2, j) <=> FoundIn(ns, top, j)
             /\ FoundIn(ns, top, j) => SearchIn(ns2, top2, j) = SearchIn(ns, top, j)
  <2>1. \A v : RowIn(ns2, j, v) <=> RowIn(ns, j, v)
    BY <1>3
  <2>2. /\ \A v : RowIn(ns, j, v) => FoundIn(ns, top, j)
        /\ FoundIn(ns, top, j) => RowIn(ns, j, SearchIn(ns, top, j))
    BY SearchIs
  <2>3. /\ \A v : RowIn(ns2, j, v) => FoundIn(ns2, top2, j) /\ SearchIn(ns2, top2, j) = v
        /\ FoundIn(ns2, top2, j) => RowIn(ns2, j, SearchIn(ns2, top2, j))
    BY SearchIs
  <2> QED
    BY <2>1, <2>2, <2>3
<1> QED
  BY <1>1, <1>2, <1>3

\* After an insertion: the tree, and what is in it.
Inserted(key, rid) ==
    /\ root' # NoNode /\ Tree(nodes', root') /\ Chained(nodes')
    /\ \A j \in Key : Found(j)' <=> j = key \/ Found(j)
    /\ search(key)' = rid
    /\ \A j \in Key : j # key /\ Found(j) => search(j)' = search(j)

\* An insertion into a tree does what it should.
LEMMA InsertStep ==
    ASSUME TreeInv, NEW key \in Key, NEW rid \in Rows[key], insert(key, rid)
    PROVE  Inserted(key, rid)
<1> DEFINE res == insertInto(key, rid)
<1>1. root # NoNode /\ Tree(nodes, root) /\ Chained(nodes)
  BY DEF insert, TreeInv
<1>2. Result(root, key, rid, res)
  BY <1>1, InsertIntoResult
<1>3. /\ root' = IF res.split THEN <<root[1] + 1, 0>> ELSE root
      /\ nodes' = IF res.split
                  THEN With(res.nodes, root', Inner(<<res.up_key>>, <<root, res.new_right>>))
                  ELSE res.nodes
  BY DEF insert
<1> HIDE DEF res
<1>4. /\ Grown(root, res) /\ SplitOff(root, res) /\ Stored(key, rid, res.nodes)
      /\ Chained(res.nodes)
  BY <1>1, <1>2 DEF Result
<1>5. /\ Tree(nodes', root') /\ root' # NoNode /\ Chained(nodes')
      /\ \A j \in Key : \A v : RowIn(nodes', j, v) <=> RowIn(res.nodes, j, v)
  <2>1. CASE res.split
    <3>1. root' = <<root[1] + 1, 0>>
      BY <1>3, <2>1
    <3>2. nodes' = With(res.nodes, root', Inner(<<res.up_key>>, <<root, res.new_right>>))
      BY <1>3, <2>1
    <3>3. /\ Tree(nodes', root')
          /\ DOMAIN res.nodes \subseteq DOMAIN nodes'
          /\ \A x \in DOMAIN nodes' :
                 x[1] = 0 => x \in DOMAIN res.nodes /\ nodes'[x] = res.nodes[x]
      BY <1>1, <1>4, <2>1, <3>1, <3>2, TreeSplit
    <3>4. root' # NoNode
      BY <3>1 DEF NoNode
    <3>5. Chained(nodes')
      BY <1>4, <3>3, ChainKept
    <3> QED
      BY <3>3, <3>4, <3>5, RowsKept
  <2>2. CASE ~res.split
    <3>1. root' = root /\ nodes' = res.nodes
      BY <1>3, <2>2
    <3> QED
      BY <1>1, <1>4, <2>2, <3>1, TreeWhole
  <2> QED
    BY <2>1, <2>2
<1>6. \A j \in Key : \A v :
          RowIn(nodes', j, v) <=> IF j = key THEN v \in {rid} ELSE RowIn(nodes, j, v)
  BY <1>4, <1>5 DEF Stored
<1> DEFINE R == {rid}
<1>7. R # {} /\ \A v : v \in R => v = rid
  OBVIOUS
<1>8. \A j \in Key : \A v :
          RowIn(nodes', j, v) <=> IF j = key THEN v \in R ELSE RowIn(nodes, j, v)
  BY <1>6
<1> HIDE DEF R
<1>9. /\ FoundIn(nodes', root', key) <=> R # {}
      /\ FoundIn(nodes', root', key) => SearchIn(nodes', root', key) \in R
      /\ \A j \in Key : j # key =>
             /\ FoundIn(nodes', root', j) <=> FoundIn(nodes, root, j)
             /\ FoundIn(nodes, root, j) => SearchIn(nodes', root', j) = SearchIn(nodes, root, j)
  BY <1>1, <1>5, <1>8, SearchesChanged
<1>10. \A j \in Key : /\ Found(j) <=> FoundIn(nodes, root, j)
                      /\ search(j) = SearchIn(nodes, root, j)
  BY <1>1, FoundIs
<1>11. \A j \in Key : /\ Found(j)' <=> FoundIn(nodes', root', j)
                      /\ search(j)' = SearchIn(nodes', root', j)
  BY <1>5, FoundIsNext
<1>12. \A j \in Key : Found(j)' <=> j = key \/ Found(j)
  BY <1>7, <1>9, <1>10, <1>11
<1>13. search(key)' = rid
  BY <1>7, <1>9, <1>11
<1>14. \A j \in Key : j # key /\ Found(j) => search(j)' = search(j)
  BY <1>9, <1>10, <1>11
<1> QED
  BY <1>5, <1>12, <1>13, <1>14 DEF Inserted

\* So does the first one.
LEMMA FirstInsertStep ==
    ASSUME TreeInv, NEW key \in Key, NEW rid \in Rows[key], FirstInsert(key, rid)
    PROVE  Inserted(key, rid)
<1> DEFINE top == <<0, 0>>
           n == Leaf(<<key>>, <<rid>>, NoNode)
           ns == With(<<>>, top, n)
<1>1. root = NoNode /\ root' = top /\ nodes' = ns
  BY DEF FirstInsert
<1>2. rid \in Row /\ key \in Nat /\ key > 0
  BY RowsAreRows, KeyAssumption
<1>3. top \in Name /\ top[1] = 0 /\ top[2] = 0 /\ top # NoNode
  BY DEF Name, NoNode
<1> DEFINE keys == <<key>>
           vals == <<rid>>
<1>4. /\ keys \in Seq(Key) /\ Len(keys) = 1 /\ keys[1] = key
      /\ vals \in Seq(Row) /\ Len(vals) = 1 /\ vals[1] = rid
  BY <1>2
<1>5. n.leaf = TRUE /\ n.keys = keys /\ n.vals = vals /\ n.next = NoNode
  BY DEF Leaf
<1> HIDE DEF keys, vals
<1>6. n \in NodeType
  <2>1. n = Leaf(keys, vals, NoNode)
    BY DEF keys, vals
  <2> QED
    BY <1>4, <2>1, LeafType
<1> HIDE DEF n, top
<1>7. DOMAIN ns = {top} /\ ns[top] = n
  <2> DEFINE none == <<>>
  <2>1. DOMAIN none = {}
    OBVIOUS
  <2> HIDE DEF none
  <2>2. DOMAIN With(none, top, n) = {top} /\ With(none, top, n)[top] = n
    BY <2>1 DEF With
  <2> QED
    BY <2>2 DEF none
<1> HIDE DEF ns
<1>8. LeafShape(ns, top, n)
  <2>1. Sorted(keys)
    <3>1. DOMAIN keys = {1}
      BY <1>4
    <3> QED
      BY <3>1 DEF Sorted
  <2>2. Within(ns, top, keys)
    <3>1. \A x \in DOMAIN ns : ~(x[1] = top[1] /\ top[2] < x[2])
      BY <1>3, <1>7
    <3> QED
      BY <1>4, <2>1, <3>1 DEF Within
  <2> QED
    <3>1. \A i \in 1 .. Len(keys) : i = 1
      BY <1>4
    <3>2. \A i \in 1 .. Len(keys) : top[2] <= keys[i] /\ vals[i] \in Rows[keys[i]]
      BY <1>2, <1>3, <1>4, <3>1
    <3> QED
      BY <1>4, <1>5, <2>2, <3>2 DEF LeafShape
<1>9. NodeOK(ns, top)
  <2>1. (top[1] = 0) = TRUE /\ 1 < ORDER
    BY <1>3, OrderAssumption
  <2> QED
    BY <1>4, <1>5, <1>6, <1>7, <1>8, <2>1 DEF NodeOK
<1>10. Tree(ns, top)
  BY <1>3, <1>7, <1>9 DEF Tree, Rooted, UpTo
<1>11a. Chained(ns)
  <2>1. ns[top].next = NoNode /\ top[2] <= top[2]
    BY <1>3, <1>5, <1>7
  <2> QED
    BY <1>7, <2>1 DEF Chained
<1>11. \A j \in Key : \A v : RowIn(ns, j, v) <=> j = key /\ v = rid
  <2>1. \A j, v : PairIn(keys, vals, j, v) <=> j = key /\ v = rid
    BY <1>4 DEF PairIn
  <2> QED
    BY <1>3, <1>5, <1>7, <2>1 DEF RowIn
<1>12. \A j \in Key : /\ FoundIn(ns, top, j) <=> j = key
                      /\ FoundIn(ns, top, j) => SearchIn(ns, top, j) = rid
  <2> SUFFICES ASSUME NEW j \in Key
               PROVE  /\ FoundIn(ns, top, j) <=> j = key
                      /\ FoundIn(ns, top, j) => SearchIn(ns, top, j) = rid
    OBVIOUS
  <2>1. /\ \A v : RowIn(ns, j, v) => FoundIn(ns, top, j) /\ SearchIn(ns, top, j) = v
        /\ FoundIn(ns, top, j) => RowIn(ns, j, SearchIn(ns, top, j))
    BY <1>10, SearchIs
  <2> QED
    BY <1>11, <2>1
<1>13. \A j \in Key : ~Found(j)
  BY <1>1, FoundIs
<1>14. \A j \in Key : /\ Found(j)' <=> FoundIn(ns, top, j)
                      /\ search(j)' = SearchIn(ns, top, j)
  BY <1>1, <1>3, FoundIsNext
<1> QED
  BY <1>1, <1>3, <1>10, <1>11a, <1>12, <1>13, <1>14 DEF Inserted

\* After an erasure.
Erased(key) ==
    /\ root' # NoNode /\ Tree(nodes', root') /\ Chained(nodes')
    /\ Found(key)
    /\ \A j \in Key : Found(j)' <=> j # key /\ Found(j)
    /\ \A j \in Key : j # key /\ Found(j) => search(j)' = search(j)

\* Erasing a key does what it should.
LEMMA EraseStep ==
    ASSUME TreeInv, NEW key \in Key, erase(key)
    PROVE  Erased(key)
<1> DEFINE id == findLeaf(key)
           pos == lower_bound(nodes[id].keys, key)
           n == nodes[id]
           keys == RemoveAt(n.keys, pos)
           vals == RemoveAt(n.vals, pos)
           m == [n EXCEPT !.keys = keys, !.vals = vals]
           ns == [nodes EXCEPT ![id] = m]
<1>1. Found(key) /\ root # NoNode /\ Tree(nodes, root) /\ Chained(nodes)
  BY DEF erase, Found, TreeInv
<1>2. /\ UpTo(nodes, root[1]) /\ root \in DOMAIN nodes /\ DOMAIN nodes \subseteq Name
      /\ root[1] \in Nat /\ root[2] = 0
      /\ \A x \in DOMAIN nodes : x[1] <= root[1] /\ (x[1] = root[1] => x = root)
      /\ \A x \in DOMAIN nodes : x[1] \in Nat
  BY <1>1, NameFacts DEF Tree, Rooted, UpTo
<1>3. Covers(nodes, id, key) /\ id[1] = 0
  BY <1>1, FindLeafIs DEF FindLeafIn, findLeaf
<1>4. Holds(nodes[id], key)
  BY <1>1 DEF Found
<1>5. nodes' = [nodes EXCEPT ![id].keys = RemoveAt(@, pos), ![id].vals = RemoveAt(@, pos)]
  BY DEF erase
<1>6. root' = root
  BY DEF erase
<1> HIDE DEF id
<1>7. id \in DOMAIN nodes
  BY <1>3 DEF Covers
<1>8. /\ n.leaf /\ LeafShape(nodes, id, n) /\ n \in NodeType
      /\ n.keys \in Seq(Key) /\ Sorted(n.keys) /\ n.vals \in Seq(Row)
      /\ Len(n.vals) = Len(n.keys) /\ Len(n.keys) < ORDER
  BY <1>2, <1>3, <1>7, LeafFacts
<1>9. /\ Len(n.keys) \in Nat /\ DOMAIN n.keys = 1 .. Len(n.keys)
      /\ \A i \in 1 .. Len(n.keys) : n.keys[i] \in Nat
  BY <1>8, KeyFacts
<1>10. pos \in 1 .. Len(n.keys) /\ n.keys[pos] = key
  <2>1. PICK i \in DOMAIN n.keys : n.keys[i] = key
    BY <1>4 DEF Holds
  <2>2. pos = i
    BY <1>8, <2>1, FoundAt
  <2> QED
    BY <1>9, <2>1, <2>2
<1> HIDE DEF pos
<1>11. /\ keys \in Seq(Key) /\ Len(keys) = Len(n.keys) - 1
       /\ \A j \in 1 .. pos - 1 : keys[j] = n.keys[j]
       /\ \A j \in pos .. Len(n.keys) - 1 : keys[j] = n.keys[j + 1]
  BY ONLY <1>8, <1>10, Removing
<1>12. vals \in Seq(Row) /\ Len(vals) = Len(keys)
  <2> DEFINE s == n.vals
  <2>1. s \in Seq(Row) /\ pos \in 1 .. Len(s)
    BY <1>8, <1>10
  <2> HIDE DEF s
  <2>2. RemoveAt(s, pos) \in Seq(Row) /\ Len(RemoveAt(s, pos)) = Len(s) - 1
    BY ONLY <2>1, Removing
  <2> QED
    BY <1>8, <1>11, <2>2 DEF s
<1>13. \A j, v : PairIn(keys, vals, j, v) <=> j # key /\ PairIn(n.keys, n.vals, j, v)
  BY <1>8, <1>10, PairsRemoved
<1>14. [nodes EXCEPT ![id].keys = RemoveAt(@, pos), ![id].vals = RemoveAt(@, pos)] = ns
  BY <1>8 DEF NodeType
<1> HIDE DEF keys, vals
<1>15. m \in NodeType /\ m.leaf = n.leaf /\ m.keys = keys /\ m.vals = vals /\ m.next = n.next
  BY <1>8, <1>11, <1>12 DEF NodeType
<1> HIDE DEF m
<1>16. /\ DOMAIN ns = DOMAIN nodes /\ ns[id] = m
       /\ \A x \in DOMAIN nodes : x # id => ns[x] = nodes[x]
  BY <1>7
<1> HIDE DEF ns
<1>17. ASSUME NEW j \in 1 .. Len(keys)
       PROVE  \E i \in 1 .. Len(n.keys) : keys[j] = n.keys[i]
  <2>1. j < pos => j \in 1 .. pos - 1 /\ j \in 1 .. Len(n.keys)
    BY <1>9, <1>10, <1>11
  <2>2. j >= pos => j \in pos .. Len(n.keys) - 1 /\ j + 1 \in 1 .. Len(n.keys)
    BY <1>9, <1>10, <1>11
  <2> QED
    BY <1>10, <1>11, <2>1, <2>2
<1>18. Sorted(keys)
  <2> SUFFICES ASSUME NEW a \in DOMAIN keys, NEW b \in DOMAIN keys, a < b
               PROVE  keys[a] < keys[b]
    BY DEF Sorted
  <2>1. a \in 1 .. Len(n.keys) - 1 /\ b \in 1 .. Len(n.keys) - 1
    BY <1>9, <1>11
  <2> DEFINE A == IF a < pos THEN a ELSE a + 1
             B == IF b < pos THEN b ELSE b + 1
  <2>2. A \in DOMAIN n.keys /\ B \in DOMAIN n.keys /\ A < B
    BY <1>9, <1>10, <2>1
  <2>3. keys[a] = n.keys[A]
    <3>1. a < pos => a \in 1 .. pos - 1
      BY <1>10, <2>1
    <3>2. ~(a < pos) => a \in pos .. Len(n.keys) - 1
      BY <1>9, <1>10, <2>1
    <3> QED
      BY <1>11, <3>1, <3>2
  <2>4. keys[b] = n.keys[B]
    <3>1. b < pos => b \in 1 .. pos - 1
      BY <1>10, <2>1
    <3>2. ~(b < pos) => b \in pos .. Len(n.keys) - 1
      BY <1>9, <1>10, <2>1
    <3> QED
      BY <1>11, <3>1, <3>2
  <2> HIDE DEF A, B
  <2> QED
    BY <1>8, <2>2, <2>3, <2>4 DEF Sorted
<1>19. LeafShape(ns, id, m)
  <2>1. Within(nodes, id, n.keys)
    BY <1>8 DEF LeafShape
  <2>2. Within(ns, id, keys)
    BY <1>11, <1>16, <1>17, <1>18, <2>1 DEF Within
  <2>3. \A j \in 1 .. Len(keys) : id[2] <= keys[j]
    BY <1>8, <1>17 DEF LeafShape
  <2>4. ASSUME NEW j \in 1 .. Len(keys)
        PROVE  vals[j] \in Rows[keys[j]]
    <3>1. PairIn(keys, vals, keys[j], vals[j])
      BY DEF PairIn
    <3>2. PairIn(n.keys, n.vals, keys[j], vals[j])
      BY <1>13, <3>1
    <3>3. PICK i \in 1 .. Len(n.keys) : n.keys[i] = keys[j] /\ n.vals[i] = vals[j]
      BY <3>2 DEF PairIn
    <3> QED
      BY <1>8, <3>3 DEF LeafShape
  <2>5. n.next \in DOMAIN ns \cup {NoNode}
    BY <1>8, <1>16 DEF LeafShape
  <2> QED
    BY <1>12, <1>15, <2>2, <2>3, <2>4, <2>5 DEF LeafShape
<1>20. ASSUME NEW x \in DOMAIN ns
       PROVE  NodeOK(ns, x)
  <2>1. CASE x = id
    <3>1. (id[1] = 0) = TRUE /\ Len(keys) < ORDER /\ n.leaf = TRUE
      <4>1. n.leaf \in BOOLEAN
        BY <1>8 DEF NodeType
      <4>2. Len(keys) < ORDER
        BY <1>8, <1>9, <1>11, OrderAssumption
      <4> QED
        BY <1>3, <1>8, <4>1, <4>2
    <3> QED
      BY <1>15, <1>16, <1>19, <2>1, <3>1 DEF NodeOK
  <2>2. CASE x # id
    <3>1. NodeOK(nodes, x) /\ ns[x] = nodes[x]
      BY <1>2, <1>16, <2>2 DEF UpTo
    <3> QED
      BY <1>16, <3>1, NodeKept
  <2> QED
    BY <2>1, <2>2
<1>21. ASSUME NEW x \in DOMAIN ns, x[1] < root[1]
       PROVE  \E y \in DOMAIN ns : Under(ns, x, y)
  <2>1. PICK y \in DOMAIN nodes : Under(nodes, x, y)
    BY <1>2, <1>16, <1>21 DEF UpTo
  <2>2. y # id
    BY <1>2, <1>3, <1>16, <2>1 DEF Under
  <2>3. Under(ns, x, y)
    BY <1>16, <2>1, <2>2 DEF Under
  <2> QED
    BY <1>16, <2>3
<1>22. Tree(ns, root)
  <2>1. UpTo(ns, root[1])
    BY <1>2, <1>16, <1>20, <1>21 DEF UpTo
  <2>2. Rooted(ns, root)
    BY <1>2, <1>16 DEF Rooted
  <2> QED
    BY <2>1, <2>2 DEF Tree
<1>22a. Chained(ns)
  <2>1. \A x \in DOMAIN ns : x \in DOMAIN nodes /\ ns[x].next = nodes[x].next
    BY <1>15, <1>16
  <2> QED
    BY <1>1, <1>16, <2>1, ChainKept
<1>23. LeafChanged(nodes, id, key, {}, ns)
  <2>1. ASSUME NEW j \in Key, NEW v
        PROVE  (\E x \in DOMAIN ns : /\ x[1] = 0
                                     /\ x = id \/ x \notin DOMAIN nodes
                                     /\ PairIn(ns[x].keys, ns[x].vals, j, v))
               <=> IF j = key THEN v \in {} ELSE PairIn(n.keys, n.vals, j, v)
    <3>1. (\E x \in DOMAIN ns : /\ x[1] = 0
                                /\ x = id \/ x \notin DOMAIN nodes
                                /\ PairIn(ns[x].keys, ns[x].vals, j, v))
          <=> PairIn(keys, vals, j, v)
      BY <1>3, <1>7, <1>15, <1>16
    <3> QED
      BY <1>13, <3>1
  <2> QED
    BY <1>3, <1>16, <2>1 DEF LeafChanged
<1> DEFINE R == {}
<1>24. R = {}
  OBVIOUS
<1>25. LeafChanged(nodes, id, key, R, ns)
  BY <1>23
<1> HIDE DEF R
<1>26. \A j \in Key : \A v : RowIn(ns, j, v) <=> IF j = key THEN v \in R ELSE RowIn(nodes, j, v)
  BY <1>2, <1>25, RowsChanged
<1>27. /\ FoundIn(ns, root, key) <=> R # {}
       /\ \A j \in Key : j # key =>
              /\ FoundIn(ns, root, j) <=> FoundIn(nodes, root, j)
              /\ FoundIn(nodes, root, j) => SearchIn(ns, root, j) = SearchIn(nodes, root, j)
  BY <1>1, <1>22, <1>26, SearchesChanged
<1>28. nodes' = ns
  BY <1>5, <1>14
<1>29. \A j \in Key : /\ Found(j) <=> FoundIn(nodes, root, j)
                      /\ search(j) = SearchIn(nodes, root, j)
  BY <1>1, FoundIs
<1>30. \A j \in Key : /\ Found(j)' <=> FoundIn(ns, root, j)
                      /\ search(j)' = SearchIn(ns, root, j)
  BY <1>1, <1>6, <1>28, FoundIsNext
<1>31. \A j \in Key : Found(j)' <=> j # key /\ Found(j)
  BY <1>24, <1>27, <1>29, <1>30
<1>32. \A j \in Key : j # key /\ Found(j) => search(j)' = search(j)
  BY <1>27, <1>29, <1>30
<1> QED
  BY <1>1, <1>6, <1>22, <1>22a, <1>28, <1>31, <1>32 DEF Erased

-------------------------------------------------------------------------------
(* The invariant.                                                           *)

Present == {k \in Key : Found(k)}

\* The tree is one, and its keys are counted.
IInv == TreeInv /\ IsFiniteSet(Present) /\ count = Cardinality(Present)

\* An insertion keeps the invariant, the count of the keys included,
LEMMA InsertedInv ==
    ASSUME IInv, NEW key \in Key, NEW rid, Inserted(key, rid),
           count' = IF Found(key) THEN count ELSE count + 1
    PROVE  IInv'
<1>1. Present' = Present \cup {key}
  <2>1. \A j \in Key : Found(j)' <=> j = key \/ Found(j)
    BY DEF Inserted
  <2> QED
    BY <2>1 DEF Present
<1>2. IsFiniteSet(Present) /\ count = Cardinality(Present)
  BY DEF IInv
<1>3. /\ IsFiniteSet(Present')
      /\ Cardinality(Present') = IF key \in Present THEN Cardinality(Present)
                                 ELSE Cardinality(Present) + 1
  BY <1>1, <1>2, FS_AddElement
<1>4. key \in Present <=> Found(key)
  BY DEF Present
<1>5. count' = Cardinality(Present')
  BY <1>2, <1>3, <1>4
<1>6. TreeInv'
  BY DEF Inserted, TreeInv
<1> QED
  BY <1>3, <1>5, <1>6 DEF IInv

\* and so does an erasure.
LEMMA ErasedInv ==
    ASSUME IInv, NEW key \in Key, Erased(key), count' = count - 1
    PROVE  IInv'
<1>1. Present' = Present \ {key}
  <2>1. \A j \in Key : Found(j)' <=> j # key /\ Found(j)
    BY DEF Erased
  <2> QED
    BY <2>1 DEF Present
<1>2. IsFiniteSet(Present) /\ count = Cardinality(Present)
  BY DEF IInv
<1>3. key \in Present
  BY DEF Present, Erased
<1>4. IsFiniteSet(Present') /\ Cardinality(Present') = Cardinality(Present) - 1
  BY <1>1, <1>2, <1>3, FS_RemoveElement
<1>5. TreeInv'
  BY DEF Erased, TreeInv
<1> QED
  BY <1>2, <1>4, <1>5 DEF IInv

\* The invariant holds at the start
LEMMA InitInv == ASSUME Init PROVE IInv
<1>1. Present = {}
  BY DEF Init, Present, Found
<1> QED
  BY <1>1, FS_EmptySet DEF Init, IInv, TreeInv

\* and is kept by every step.
LEMMA NextInv ==
    ASSUME IInv, [Next]_vars
    PROVE  IInv'
<1>1. CASE UNCHANGED vars
  <2>1. TreeInv'
    BY <1>1 DEF IInv, TreeInv, vars
  <2>2. Present' = Present /\ count' = count
    BY <1>1 DEF vars, Present, Found, findLeaf
  <2> QED
    BY <2>1, <2>2 DEF IInv
<1>2. ASSUME NEW key \in Key, erase(key)
      PROVE  IInv'
  <2>1. TreeInv /\ count' = count - 1
    BY <1>2 DEF IInv, erase
  <2>2. Erased(key)
    BY <1>2, <2>1, EraseStep
  <2> QED
    BY <2>1, <2>2, ErasedInv
<1>3. ASSUME NEW key \in Key, NEW rid \in Rows[key], FirstInsert(key, rid)
      PROVE  IInv'
  <2>1. TreeInv
    BY DEF IInv
  <2>2. Inserted(key, rid)
    BY <1>3, <2>1, FirstInsertStep
  <2>3. ~Found(key) /\ root = NoNode
    BY <1>3 DEF FirstInsert, Found
  <2>4. count' = count + 1
    <3>1. Present = {}
      BY <2>3 DEF Present, Found
    <3>2. count = 0
      BY <3>1, FS_EmptySet DEF IInv
    <3> QED
      BY <1>3, <3>2 DEF FirstInsert
  <2> QED
    BY <2>2, <2>3, <2>4, InsertedInv
<1>4. ASSUME NEW key \in Key, NEW rid \in Rows[key], insert(key, rid)
      PROVE  IInv'
  <2>1. TreeInv /\ count' = IF Found(key) THEN count ELSE count + 1
    BY <1>4 DEF IInv, insert
  <2>2. Inserted(key, rid)
    BY <1>4, <2>1, InsertStep
  <2> QED
    BY <2>1, <2>2, InsertedInv
<1> QED
  BY <1>1, <1>2, <1>3, <1>4 DEF Next

\* The invariant: the nodes are a search tree whose leaves are chained in
\* order, and count_ is the number of its keys.
THEOREM Invariance == Spec => []IInv
<1>1. Init => IInv
  BY InitInv
<1>2. IInv /\ [Next]_vars => IInv'
  BY NextInv
<1> QED
  BY <1>1, <1>2, PTL DEF Spec

\* In a tree that is not empty every leaf points to the next leaf on its right
\* and the last one to none: a range scan that follows next_leaf passes every
\* leaf to the right of the one it starts in, in the order of their keys.
THEOREM LeavesChained == Spec => [](root # NoNode => Chained(nodes))
<1>1. IInv => (root # NoNode => Chained(nodes))
  BY DEF IInv, TreeInv
<1> QED
  BY <1>1, Invariance, PTL

\* A tree is of the right type, and all its paths are of one length.
LEMMA TreeIsTyped == ASSUME IInv PROVE TypeOK
<1>1. root = NoNode => nodes = <<>>
  BY DEF IInv, TreeInv
<1>2. root # NoNode => root \in DOMAIN nodes
  BY DEF IInv, TreeInv, Tree, Rooted
<1>3. ASSUME NEW id \in DOMAIN nodes
      PROVE  LET n == nodes[id] IN
             /\ ToSet(n.keys) \subseteq Key
             /\ IF n.leaf
                THEN /\ id[1] = 0
                     /\ Len(n.keys) < ORDER
                     /\ Len(n.vals) = Len(n.keys)
                     /\ \A i \in DOMAIN n.keys : n.vals[i] \in Rows[n.keys[i]]
                     /\ n.next \in DOMAIN nodes \cup {NoNode}
                ELSE /\ Len(n.children) \in 2 .. ORDER
                     /\ Len(n.keys) = Len(n.children) - 1
                     /\ \A c \in ToSet(n.children) : c \in DOMAIN nodes /\ c[1] = id[1] - 1
  <2> DEFINE n == nodes[id]
  <2>1. root # NoNode
    <3> SUFFICES ASSUME root = NoNode PROVE FALSE
      OBVIOUS
    <3>1. DOMAIN nodes = {}
      BY <1>1
    <3> QED
      BY <3>1
  <2>2. /\ UpTo(nodes, root[1]) /\ DOMAIN nodes \subseteq Name
        /\ \A x \in DOMAIN nodes : x[1] <= root[1]
    BY <2>1 DEF IInv, TreeInv, Tree, Rooted, UpTo
  <2>3. NodeOK(nodes, id)
    BY <2>2 DEF UpTo
  <2>4. Within(nodes, id, n.keys)
    BY <2>2, <2>3, InnerNode DEF LeafShape, InnerShape
  <2>5. /\ Len(n.keys) \in Nat /\ DOMAIN n.keys = 1 .. Len(n.keys)
        /\ \A i \in 1 .. Len(n.keys) : n.keys[i] \in Key
    BY <2>4, KeyFacts DEF Within
  <2>6. ToSet(n.keys) \subseteq Key
    BY <2>5 DEF ToSet
  <2>7. CASE n.leaf
    BY <2>2, <2>3, <2>5, <2>6, <2>7, InnerNode DEF NodeOK, LeafShape
  <2>8. CASE ~n.leaf
    <3>1. /\ InnerShape(nodes, id, n.keys, n.children)
          /\ Len(n.children) \in 2 .. ORDER
      BY <2>3, <2>8 DEF NodeOK
    <3>2. /\ n.children \in Seq(Name) /\ Len(n.children) = Len(n.keys) + 1
          /\ \A i \in 1 .. Len(n.children) :
                 n.children[i] \in DOMAIN nodes /\ n.children[i] = ChildAt(id, n.keys, i)
      BY <3>1 DEF InnerShape
    <3>3. DOMAIN n.children = 1 .. Len(n.children)
      BY <3>2
    <3>4. \A c \in ToSet(n.children) : c \in DOMAIN nodes /\ c[1] = id[1] - 1
      BY <3>2, <3>3 DEF ToSet, ChildAt
    <3>5. Len(n.keys) = Len(n.children) - 1
      BY <2>5, <3>2
    <3> QED
      BY <2>6, <2>8, <3>1, <3>4, <3>5
  <2> QED
    BY <2>7, <2>8
<1> QED
  BY <1>1, <1>2, <1>3 DEF TypeOK

\* TypeOK: no node is overfull, and all children of a node have one height.
THEOREM TypeOKCorrect == Spec => []TypeOK
<1>1. IInv => TypeOK
  BY TreeIsTyped
<1> QED
  BY <1>1, Invariance, PTL

-------------------------------------------------------------------------------
(* The tree is a map.                                                       *)

Index == [k \in Present |-> search(k)]

\* The empty tree is the empty map,
LEMMA MapInit == ASSUME Init PROVE Map!Init
<1>1. Present = {} /\ count = 0
  BY DEF Init, Present, Found
<1>2. Index = <<>>
  BY <1>1 DEF Index
<1> QED
  BY <1>1, <1>2 DEF Map!Init, Index, Present

\* an insertion changes the map in one place,
LEMMA MapInsert ==
    ASSUME NEW key \in Key, NEW rid, Inserted(key, rid)
    PROVE  Map!insert(key, rid)
<1>1. Present' = Present \cup {key}
  <2>1. \A j \in Key : Found(j)' <=> j = key \/ Found(j)
    BY DEF Inserted
  <2> QED
    BY <2>1 DEF Present
<1>2. \A j \in Present' : search(j)' = IF j = key THEN rid ELSE Index[j]
  BY <1>1 DEF Inserted, Present, Index
<1>3. Index' = [j \in Present' |-> search(j)']
  BY DEF Index
<1>4. Index' = [j \in Present \cup {key} |-> IF j = key THEN rid ELSE Index[j]]
  BY <1>1, <1>2, <1>3
<1>5. DOMAIN Index = Present
  BY DEF Index
<1> QED
  BY <1>4, <1>5 DEF Map!insert, Index, Present

\* an erasure takes one key out of it,
LEMMA MapErase ==
    ASSUME NEW key \in Key, Erased(key)
    PROVE  Map!erase(key)
<1>1. Present' = Present \ {key}
  <2>1. \A j \in Key : Found(j)' <=> j # key /\ Found(j)
    BY DEF Erased
  <2> QED
    BY <2>1 DEF Present
<1>2. \A j \in Present' : search(j)' = Index[j]
  BY <1>1 DEF Erased, Present, Index
<1>3. Index' = [j \in Present' |-> search(j)']
  BY DEF Index
<1>4. Index' = [j \in Present \ {key} |-> Index[j]]
  BY <1>1, <1>2, <1>3
<1>5. DOMAIN Index = Present
  BY DEF Index
<1> QED
  BY <1>4, <1>5 DEF Map!erase, Index, Present

\* the count is the map's size,
LEMMA MapSize == ASSUME IInv' PROVE count' = Cardinality(DOMAIN Index')
<1>1. DOMAIN Index' = Present'
  BY DEF Index
<1> QED
  BY <1>1 DEF IInv

\* and every step is one of the map's.
LEMMA MapNext ==
    ASSUME IInv, [Next]_vars
    PROVE  [Map!Next]_(Map!vars)
<1>1. CASE UNCHANGED vars
  BY <1>1 DEF vars, Map!vars, search, Found, findLeaf
<1>2. CASE Next
  <2>1. count' = Cardinality(DOMAIN Index')
    BY NextInv, MapSize
  <2>2. count' = Cardinality(DOMAIN [k \in {j \in Key : Found(j)} |-> search(k)]')
    BY <2>1 DEF Index, Present
  <2>3. TreeInv
    BY DEF IInv
  <2>4. ASSUME NEW key \in Key, erase(key)
        PROVE  Map!erase(key)
    BY <2>3, <2>4, EraseStep, MapErase
  <2>5. ASSUME NEW key \in Key, NEW rid \in Rows[key], FirstInsert(key, rid) \/ insert(key, rid)
        PROVE  Map!insert(key, rid)
    BY <2>3, <2>5, FirstInsertStep, InsertStep, MapInsert
  <2>6. \E key \in Key : Map!erase(key) \/ \E rid \in Rows[key] : Map!insert(key, rid)
    BY <1>2, <2>4, <2>5 DEF Next
  <2>7. \A S : Map!Cardinality(S) = Cardinality(S)
    BY DEF Map!Cardinality, Cardinality
  <2>8. Map!Next
    BY <2>2, <2>6, <2>7 DEF Map!Next
  <2> QED
    BY <2>8
<1> QED
  BY <1>1, <1>2

\* ImplementsMap: whatever is split on the way, the tree is a map of its keys
\* to the rows they were inserted with last, and size() counts them.
THEOREM ImplementsMapCorrect == Spec => ImplementsMap
<1>1. Init => Map!Init
  BY MapInit
<1>2. IInv /\ [Next]_vars => [Map!Next]_(Map!vars)
  BY MapNext
<1> QED
  BY <1>1, <1>2, Invariance, PTL DEF Spec, ImplementsMap, Map!Spec

-------------------------------------------------------------------------------
(* The walk of a range scan along the leaves.                               *)

\* A tree's nodes of one height begin below some bound.
LEMMA NamesBounded ==
    ASSUME NEW ns, NEW top, Tree(ns, top)
    PROVE  \E B \in Nat : \A x \in DOMAIN ns : x[1] = 0 => x[2] <= B
<1> DEFINE Bounded(h) == \E B \in Nat : \A x \in DOMAIN ns : x[1] = h => x[2] <= B
           bad == {d \in 0 .. top[1] : ~Bounded(top[1] - d)}
<1>1. /\ UpTo(ns, top[1]) /\ DOMAIN ns \subseteq Name /\ top \in DOMAIN ns
      /\ top[1] \in Nat /\ top[2] = 0
      /\ \A x \in DOMAIN ns : /\ x[1] \in Nat /\ x[2] \in Nat /\ x[1] <= top[1]
                              /\ x[1] = top[1] => x = top
  BY NameFacts DEF Tree, Rooted, UpTo
<1>2. bad = {}
  <2> SUFFICES ASSUME bad # {} PROVE FALSE
    OBVIOUS
  <2>1. PICK d \in bad : \A m \in bad : d <= m
    <3>1. bad \in SUBSET Nat
      BY <1>1
    <3> HIDE DEF bad
    <3> QED
      BY <3>1, LeastElement
  <2>2. d \in 0 .. top[1] /\ ~Bounded(top[1] - d)
    BY <2>1
  <2>3. d # 0
    <3> SUFFICES ASSUME d = 0 PROVE Bounded(top[1] - d)
      BY <2>2
    <3>1. \A x \in DOMAIN ns : x[1] = top[1] - d => x[2] <= 0
      BY <1>1
    <3> QED
      BY <3>1
  <2>4. Bounded(top[1] - d + 1)
    <3>1. d - 1 \in 0 .. top[1] /\ d - 1 \notin bad
      <4> HIDE DEF bad
      <4> QED
        BY <1>1, <2>1, <2>2, <2>3
    <3>2. top[1] - (d - 1) = top[1] - d + 1
      BY <1>1, <2>2
    <3> QED
      BY <3>1, <3>2
  <2> DEFINE h == top[1] - d
  <2>5. h \in Nat /\ h < top[1]
    BY <1>1, <2>2, <2>3
  <2>6. Bounded(h + 1) /\ ~Bounded(h)
    BY <2>2, <2>4
  <2> HIDE DEF bad, h
  <2>7. PICK B \in Nat : \A y \in DOMAIN ns : y[1] = h + 1 => y[2] <= B
    BY <2>6
  <2> DEFINE tall == {y \in DOMAIN ns : y[1] = h + 1}
             gaps == {B - y[2] : y \in tall}
  <2>8. CASE tall = {}
    <3>1. ASSUME NEW x \in DOMAIN ns, x[1] = h PROVE x[2] <= 0
      <4>1. PICK y \in DOMAIN ns : Under(ns, x, y)
        BY <1>1, <2>5, <3>1 DEF UpTo
      <4>2. y \in tall
        BY <3>1, <4>1 DEF Under
      <4> QED
        BY <2>8, <4>2
    <3> QED
      BY <2>6, <3>1
  <2>9. CASE tall # {}
    <3>1. PICK g \in gaps : \A m \in gaps : g <= m
      <4>1. gaps \in SUBSET Nat /\ gaps # {}
        BY <1>1, <2>7, <2>9
      <4> HIDE DEF gaps
      <4> QED
        BY <4>1, LeastElement
    <3>2. PICK z \in tall : g = B - z[2]
      OBVIOUS
    <3>3. z \in DOMAIN ns /\ z[1] = h + 1 /\ z[2] \in Nat /\ z[2] <= B
      BY <1>1, <2>7
    <3>4. \A y \in tall : y[2] <= z[2]
      <4>1. ASSUME NEW y \in tall PROVE y[2] <= z[2]
        <5>1. B - z[2] <= B - y[2] /\ y[2] \in Nat
          BY <1>1, <3>1, <3>2
        <5> QED
          BY <3>3, <5>1
      <4> QED
        BY <4>1
    <3> DEFINE keys == ns[z].keys
               L == IF Len(keys) = 0 THEN 0 ELSE keys[Len(keys)]
    <3>5. \A y \in tall : InnerShape(ns, y, ns[y].keys, ns[y].children)
      BY <1>1, <2>5, InnerNode DEF UpTo
    <3>6. \A y \in tall : ns[y].keys \in Seq(Key) /\ Sorted(ns[y].keys)
      BY <3>5 DEF InnerShape, Within
    <3>7. \A y \in tall : /\ Len(ns[y].keys) \in Nat /\ DOMAIN ns[y].keys = 1 .. Len(ns[y].keys)
                          /\ \A i \in 1 .. Len(ns[y].keys) : ns[y].keys[i] \in Nat
      BY <3>6, KeyFacts
    <3>8. L \in Nat /\ \A i \in 1 .. Len(keys) : keys[i] <= L
      <4>1. ASSUME NEW i \in 1 .. Len(keys) PROVE keys[i] <= keys[Len(keys)]
        <5>1. i = Len(keys) \/ i < Len(keys)
          BY <3>7
        <5>2. Len(keys) \in DOMAIN keys /\ i \in DOMAIN keys
          BY <3>7
        <5> QED
          BY <3>6, <3>7, <5>1, <5>2 DEF Sorted
      <4>2. Len(keys) # 0 => Len(keys) \in 1 .. Len(keys)
        BY <3>7
      <4> QED
        BY <3>7, <4>1, <4>2
    <3>9. ASSUME NEW x \in DOMAIN ns, x[1] = h PROVE x[2] <= B + L
      <4>1. PICK y \in DOMAIN ns : Under(ns, x, y)
        BY <1>1, <2>5, <3>9 DEF UpTo
      <4>2. y \in tall /\ y[2] \in Nat /\ y[2] <= z[2]
        BY <1>1, <3>4, <3>9, <4>1 DEF Under
      <4>3. CASE x[2] = y[2]
        BY <3>3, <3>8, <4>2, <4>3
      <4>4. CASE x[2] # y[2]
        <5>1. PICK i \in 1 .. Len(ns[y].keys) : ns[y].keys[i] = x[2]
          BY <4>1, <4>4 DEF Under
        <5>2. CASE y = z
          BY <3>3, <3>8, <5>1, <5>2, <1>1
        <5>3. CASE y # z
          <6>1. y[2] # z[2]
            <7>1. y = <<y[1], y[2]>> /\ z = <<z[1], z[2]>>
              BY <1>1, <3>3, NameFacts
            <7>2. y[1] = z[1]
              BY <3>3, <4>2
            <7> QED
              BY <5>3, <7>1, <7>2
          <6>2. y[2] < z[2]
            BY <3>3, <4>2, <6>1
          <6>3. ns[y].keys[i] < z[2]
            BY <3>3, <3>5, <4>2, <6>2 DEF InnerShape, Within
          <6> QED
            BY <1>1, <3>3, <3>8, <5>1, <6>3
        <5> QED
          BY <5>2, <5>3
      <4> QED
        BY <4>3, <4>4
    <3>10. B + L \in Nat
      BY <3>8
    <3> HIDE DEF L
    <3> QED
      BY <2>6, <3>9, <3>10
  <2> QED
    BY <2>8, <2>9
<1>3. top[1] \in 0 .. top[1] /\ top[1] \notin bad
  <2> HIDE DEF bad
  <2> QED
    BY <1>1, <1>2
<1>4. Bounded(top[1] - top[1])
  BY <1>3
<1>5. top[1] - top[1] = 0
  BY <1>1
<1>6. Bounded(0)
  BY <1>4, <1>5
<1> QED
  BY <1>6

\* From a to b there are as many steps at least as c allows for each.
LEMMA Product ==
    ASSUME NEW a \in Nat, NEW b \in Nat, NEW c \in Nat, a < b
    PROVE  a * c \in Nat /\ b * c \in Nat /\ a * c + c <= b * c
<1>1. PICK d \in Nat : b = a + 1 + d
  <2>1. b - a - 1 \in Nat /\ b = a + 1 + (b - a - 1)
    OBVIOUS
  <2> QED
    BY <2>1
<1>2. (a + 1 + d) * c = a * c + c + d * c
  OBVIOUS
<1>3. a * c \in Nat /\ d * c \in Nat
  OBVIOUS
<1> QED
  BY <1>1, <1>2, <1>3

-------------------------------------------------------------------------------
(* rangeScan: its walk ends.                                                *)

\* Where the walk may be: a leaf, or none, and a position.
Spots(ns) == ({id \in DOMAIN ns : ns[id].leaf} \cup {NoNode}) \X (1 .. ORDER)

\* From there it goes on in the leaf, or at the start of the next one.
Onward(ns, at) ==
    IF at[2] > Len(ns[at[1]].keys) THEN <<ns[at[1]].next, 1>> ELSE <<at[1], at[2] + 1>>

\* What it gives at a spot if it gives rest from the next one on.
Given(ns, lo, hi, at, rest) ==
    LET leaf == ns[at[1]]
        i    == at[2]
    IN  IF at[1] = NoNode THEN <<>>
        ELSE IF i > Len(leaf.keys) THEN rest
        ELSE IF leaf.keys[i] < lo THEN rest
        ELSE IF leaf.keys[i] > hi THEN <<>>
        ELSE <<<<leaf.keys[i], leaf.vals[i]>>>> \o rest

\* f tells what the walk gives from each spot on.
Scan(ns, lo, hi, f) == f = [at \in Spots(ns) |-> Given(ns, lo, hi, at, f[Onward(ns, at)])]

\* From every spot w decreases along the walk, and b bounds it.
Declines(ns, w, b) ==
    /\ w \in [Spots(ns) -> Nat] /\ b \in Nat
    /\ \A at \in Spots(ns) : w[at] <= b
    /\ \A at \in Spots(ns) : at[1] # NoNode =>
           Onward(ns, at) \in Spots(ns) /\ w[Onward(ns, at)] < w[at]

\* A walk along the chain of a tree's leaves comes to its end.
LEMMA ScanDeclines ==
    ASSUME NEW ns, NEW top, Tree(ns, top), Chained(ns)
    PROVE  \E w, b : Declines(ns, w, b)
<1>1. PICK B \in Nat : \A x \in DOMAIN ns : x[1] = 0 => x[2] <= B
  BY NamesBounded
<1>2. /\ UpTo(ns, top[1]) /\ DOMAIN ns \subseteq Name /\ top[1] \in Nat
      /\ \A x \in DOMAIN ns : x[1] <= top[1]
  BY NameFacts DEF Tree, Rooted, UpTo
<1>3. \A x \in DOMAIN ns : /\ x[1] \in Nat /\ x[2] \in Nat /\ x # NoNode
                           /\ ns[x].leaf <=> x[1] = 0
  <2> TAKE x \in DOMAIN ns
  <2>1. x[1] \in Nat /\ x[2] \in Nat /\ x = <<x[1], x[2]>>
    BY <1>2, NameFacts
  <2>2. NodeOK(ns, x)
    BY <1>2 DEF UpTo
  <2>3. x # NoNode
    <3>1. x \in Nat \X Nat
      BY <1>2 DEF Name
    <3>2. \A y \in Nat \X Nat : Len(y) = 2
      OBVIOUS
    <3>3. Len(<<>>) = 0
      OBVIOUS
    <3> QED
      BY <3>1, <3>2, <3>3 DEF NoNode
  <2> QED
    BY <1>2, <2>1, <2>2, <2>3, InnerNode
<1> DEFINE c == ORDER + 1
           far(at) == IF at[1] = NoNode THEN 0 ELSE (B - at[1][2]) * c + (c - at[2])
           w == [at \in Spots(ns) |-> far(at)]
           b == (B + 1) * c
<1>4. c \in Nat /\ ORDER \in Nat /\ ORDER >= 3 /\ c = ORDER + 1
  BY OrderAssumption
<1> HIDE DEF c
<1>5. b \in Nat
  BY <1>4
<1>6. ASSUME NEW at \in Spots(ns), at[1] # NoNode
      PROVE  /\ at[1] \in DOMAIN ns /\ at[1][1] = 0 /\ at[2] \in 1 .. ORDER
             /\ B - at[1][2] \in Nat /\ (B - at[1][2]) * c \in Nat
             /\ w[at] = (B - at[1][2]) * c + (c - at[2])
             /\ w[at] \in Nat /\ w[at] > 0 /\ w[at] <= b
  <2>1. at[1] \in DOMAIN ns /\ at[1][1] = 0 /\ at[2] \in 1 .. ORDER
    BY <1>3, <1>6 DEF Spots
  <2>2. B - at[1][2] \in Nat /\ B - at[1][2] < B + 1
    BY <1>1, <1>3, <2>1
  <2>3. /\ (B - at[1][2]) * c \in Nat /\ (B - at[1][2]) * c + c <= (B + 1) * c
    BY <1>4, <2>2, Product
  <2>4. w[at] = (B - at[1][2]) * c + (c - at[2])
    BY <1>6
  <2> DEFINE p == (B - at[1][2]) * c
  <2>5. p \in Nat /\ p + c <= b /\ w[at] = p + (c - at[2])
    BY <2>3, <2>4
  <2> HIDE DEF p, w, b
  <2>6. w[at] \in Nat /\ w[at] > 0 /\ w[at] <= b
    BY <1>4, <1>5, <2>1, <2>5
  <2> QED
    BY <2>1, <2>2, <2>3, <2>4, <2>6
<1>7. ASSUME NEW at \in Spots(ns), at[1] = NoNode PROVE w[at] = 0
  BY <1>7
<1>8. ASSUME NEW at \in Spots(ns), at[1] # NoNode
      PROVE  Onward(ns, at) \in Spots(ns) /\ w[Onward(ns, at)] < w[at]
  <2> DEFINE id == at[1]
             n  == Len(ns[id].keys)
             to == Onward(ns, at)
  <2>1. /\ id \in DOMAIN ns /\ id[1] = 0 /\ at[2] \in 1 .. ORDER /\ id[2] \in Nat
        /\ w[at] = (B - id[2]) * c + (c - at[2]) /\ w[at] \in Nat /\ w[at] > 0
    BY <1>3, <1>6, <1>8
  <2> HIDE DEF w, b
  <2>2. n \in Nat /\ n < ORDER
    BY <1>2, <2>1, LeafFacts, KeyFacts
  <2>3. CASE at[2] > n
    <3> DEFINE z == ns[id].next
    <3>1. to = <<z, 1>>
      BY <2>3 DEF Onward
    <3>2. CASE z = NoNode
      <4>1. to \in Spots(ns) /\ to[1] = NoNode
        BY <1>4, <3>1, <3>2 DEF Spots
      <4>2. w[to] = 0
        BY <1>7, <4>1
      <4> QED
        BY <2>1, <4>1, <4>2
    <3>3. CASE z # NoNode
      <4>1. z \in DOMAIN ns /\ z[1] = 0 /\ id[2] < z[2]
        BY <2>1, <3>3 DEF Chained
      <4>2. to \in Spots(ns) /\ to[1] = z /\ to[2] = 1 /\ ns[z].leaf
        BY <1>3, <1>4, <3>1, <4>1 DEF Spots
      <4>3. w[to] = (B - z[2]) * c + (c - 1) /\ B - z[2] \in Nat
        BY <1>6, <3>3, <4>2
      <4>4. B - id[2] \in Nat /\ B - z[2] < B - id[2]
        BY <1>1, <1>3, <2>1, <4>1
      <4> DEFINE p == (B - z[2]) * c
                 q == (B - id[2]) * c
      <4>5. p \in Nat /\ q \in Nat /\ p + c <= q
        BY <1>4, <4>3, <4>4, Product
      <4>6. w[to] = p + (c - 1) /\ w[at] = q + (c - at[2])
        BY <2>1, <4>3
      <4> HIDE DEF p, q, to
      <4>7. w[to] < w[at]
        BY <1>4, <2>1, <4>5, <4>6
      <4> QED
        BY <4>2, <4>7 DEF to
    <3> QED
      BY <3>2, <3>3
  <2>4. CASE ~(at[2] > n)
    <3>1. to = <<id, at[2] + 1>>
      BY <2>4 DEF Onward
    <3>2. at[2] + 1 \in 1 .. ORDER
      BY <1>4, <2>1, <2>2, <2>4
    <3>3. to \in Spots(ns) /\ to[1] = id /\ to[2] = at[2] + 1
      BY <1>3, <2>1, <3>1, <3>2 DEF Spots
    <3>4. w[to] = (B - id[2]) * c + (c - (at[2] + 1)) /\ (B - id[2]) * c \in Nat
      BY <1>6, <1>8, <3>3
    <3> DEFINE q == (B - id[2]) * c
    <3>5. w[to] = q + (c - (at[2] + 1)) /\ w[at] = q + (c - at[2]) /\ q \in Nat
      BY <2>1, <3>4
    <3> HIDE DEF q, to
    <3>6. w[to] < w[at]
      BY <1>4, <2>1, <3>5
    <3> QED
      BY <3>3, <3>6 DEF to
  <2> QED
    BY <2>3, <2>4
<1>9. \A at \in Spots(ns) : w[at] \in Nat /\ w[at] <= b
  <2> HIDE DEF w, b
  <2> QED
    BY <1>5, <1>6, <1>7
<1>10. w \in [Spots(ns) -> Nat]
  <2>1. w = [at \in Spots(ns) |-> w[at]]
    OBVIOUS
  <2> HIDE DEF w
  <2> QED
    BY <1>9, <2>1
<1> HIDE DEF w, b
<1>11. Declines(ns, w, b)
  BY <1>5, <1>8, <1>9, <1>10 DEF Declines
<1> QED
  BY <1>11

\* What holds of the walk's end, and of a spot if of the next, holds of all.
LEMMA FromTheEnd ==
    ASSUME NEW ns, NEW w, NEW b, Declines(ns, w, b), NEW S,
           \A at \in Spots(ns) : (at[1] # NoNode => Onward(ns, at) \in S) => at \in S
    PROVE  Spots(ns) \subseteq S
<1> DEFINE bad == {h \in Nat : \E at \in Spots(ns) : at \notin S /\ w[at] = h}
<1>1. bad = {}
  <2> SUFFICES ASSUME bad # {} PROVE FALSE
    OBVIOUS
  <2>1. PICK h \in bad : \A m \in bad : h <= m
    <3>1. bad \in SUBSET Nat
      OBVIOUS
    <3> HIDE DEF bad
    <3> QED
      BY <3>1, LeastElement
  <2>2. PICK at \in Spots(ns) : at \notin S /\ w[at] = h
    BY <2>1
  <2>3. at[1] # NoNode /\ Onward(ns, at) \notin S
    BY <2>2
  <2> DEFINE to == Onward(ns, at)
  <2>4. to \in Spots(ns) /\ w[to] < h /\ w[to] \in Nat /\ h \in Nat
    BY <2>2, <2>3 DEF Declines
  <2>5. w[to] \in bad
    <3> HIDE DEF to
    <3> QED
      BY <2>3, <2>4 DEF to
  <2> HIDE DEF bad
  <2> QED
    BY <2>1, <2>4, <2>5
<1> QED
  BY <1>1 DEF Declines

\* The recursion of rangeScan has a solution.
LEMMA ScanExists ==
    ASSUME NEW ns, NEW lo, NEW hi, NEW w, NEW b, Declines(ns, w, b)
    PROVE  \E f : Scan(ns, lo, hi, f)
<1> DEFINE low(h) == {at \in Spots(ns) : w[at] <= h}
           Eq(h, f) == \A at \in low(h) : f[at] = Given(ns, lo, hi, at, f[Onward(ns, at)])
           without == {h \in 0 .. b : ~ \E f : Eq(h, f)}
<1>0. /\ w \in [Spots(ns) -> Nat] /\ b \in Nat /\ \A at \in Spots(ns) : w[at] <= b
      /\ \A at \in Spots(ns) : at[1] # NoNode =>
             Onward(ns, at) \in Spots(ns) /\ w[Onward(ns, at)] < w[at]
  BY DEF Declines
<1>1. \A at, r, s : at[1] = NoNode => Given(ns, lo, hi, at, r) = Given(ns, lo, hi, at, s)
  BY DEF Given
<1>2. without = {}
  <2> SUFFICES ASSUME without # {} PROVE FALSE
    OBVIOUS
  <2>1. PICK h \in without : \A m \in without : h <= m
    <3>1. without \in SUBSET Nat
      BY <1>0
    <3> HIDE DEF without
    <3> QED
      BY <3>1, LeastElement
  <2>2. h \in 0 .. b /\ ~ \E f : Eq(h, f)
    BY <2>1
  <2>3. h > 0 => \E f : Eq(h - 1, f)
    <3>1. h > 0 => h - 1 \in 0 .. b /\ h - 1 \notin without
      <4> HIDE DEF without
      <4> QED
        BY <1>0, <2>1, <2>2
    <3> QED
      BY <3>1
  <2> HIDE DEF without
  <2>4. PICK f : h > 0 => Eq(h - 1, f)
    BY <2>3
  <2> DEFINE g == [at \in Spots(ns) |-> Given(ns, lo, hi, at, f[Onward(ns, at)])]
  <2>5. ASSUME NEW at \in low(h) PROVE g[at] = Given(ns, lo, hi, at, g[Onward(ns, at)])
    <3>1. g[at] = Given(ns, lo, hi, at, f[Onward(ns, at)])
      OBVIOUS
    <3>2. CASE at[1] = NoNode
      <4> HIDE DEF g
      <4> QED
        BY <1>1, <3>1, <3>2
    <3>3. CASE at[1] # NoNode
      <4> DEFINE m == Onward(ns, at)
      <4>1. m \in Spots(ns) /\ w[m] < w[at] /\ w[at] <= h /\ w[at] \in Nat /\ w[m] \in Nat
        BY <1>0, <2>5, <3>3
      <4>2. m \in low(h - 1) /\ h > 0
        BY <1>0, <2>2, <4>1
      <4> HIDE DEF m
      <4>3. f[m] = Given(ns, lo, hi, m, f[Onward(ns, m)])
        BY <2>4, <4>2
      <4>4. g[m] = f[m]
        BY <4>1, <4>3
      <4> HIDE DEF g
      <4> QED
        BY <3>1, <4>4 DEF m
    <3> QED
      BY <3>2, <3>3
  <2>6. Eq(h, g)
    <3> HIDE DEF g
    <3> QED
      BY <2>5
  <2> HIDE DEF Eq, g
  <2> QED
    BY <2>2, <2>6
<1>3. b \in 0 .. b /\ b \notin without
  <2> HIDE DEF without
  <2> QED
    BY <1>0, <1>2
<1>4. PICK f : Eq(b, f)
  BY <1>3
<1>5. \A at \in Spots(ns) : f[at] = Given(ns, lo, hi, at, f[Onward(ns, at)])
  BY <1>0, <1>4
<1> DEFINE g == [at \in Spots(ns) |-> f[at]]
<1>6. ASSUME NEW at \in Spots(ns) PROVE g[at] = Given(ns, lo, hi, at, g[Onward(ns, at)])
  <2>1. g[at] = Given(ns, lo, hi, at, f[Onward(ns, at)])
    BY <1>5
  <2>2. at[1] # NoNode => g[Onward(ns, at)] = f[Onward(ns, at)]
    BY <1>0
  <2> HIDE DEF g
  <2> QED
    BY <1>1, <2>1, <2>2
<1>7. g = [at \in Spots(ns) |-> g[at]]
  OBVIOUS
<1> HIDE DEF g
<1>8. Scan(ns, lo, hi, g)
  BY <1>6, <1>7 DEF Scan
<1> QED
  BY <1>8

\* rangeScan is the walk from lo's leaf on.
LEMMA RangeScanIs ==
    ASSUME root # NoNode, Tree(nodes, root), Chained(nodes), NEW lo, NEW hi
    PROVE  \E f : Scan(nodes, lo, hi, f) /\ rangeScan(lo, hi) = f[<<findLeaf(lo), 1>>]
<1> DEFINE leaves == {id \in DOMAIN nodes : nodes[id].leaf}
           loop(f) == [at \in (leaves \cup {NoNode}) \X (1 .. ORDER) |->
               LET leaf == nodes[at[1]]
                   i    == at[2]
                   rest == f[<<at[1], i + 1>>]
               IN  IF at[1] = NoNode THEN <<>>
                   ELSE IF i > Len(leaf.keys) THEN f[<<leaf.next, 1>>]
                   ELSE IF leaf.keys[i] < lo THEN rest
                   ELSE IF leaf.keys[i] > hi THEN <<>>
                   ELSE <<<<leaf.keys[i], leaf.vals[i]>>>> \o rest]
<1>1. ASSUME NEW f PROVE Scan(nodes, lo, hi, f) <=> f = loop(f)
  <2>1. [at \in Spots(nodes) |-> Given(nodes, lo, hi, at, f[Onward(nodes, at)])] = loop(f)
    <3>1. Spots(nodes) = (leaves \cup {NoNode}) \X (1 .. ORDER)
      BY DEF Spots
    <3>2. ASSUME NEW at \in Spots(nodes)
          PROVE  Given(nodes, lo, hi, at, f[Onward(nodes, at)]) = loop(f)[at]
      <4>1. CASE at[2] > Len(nodes[at[1]].keys)
        BY <3>1, <4>1 DEF Given, Onward
      <4>2. CASE ~(at[2] > Len(nodes[at[1]].keys))
        BY <3>1, <4>2 DEF Given, Onward
      <4> QED
        BY <4>1, <4>2
    <3>3. loop(f) = [at \in Spots(nodes) |-> loop(f)[at]]
      BY <3>1
    <3> HIDE DEF loop
    <3> QED
      BY <3>2, <3>3
  <2> HIDE DEF loop
  <2> QED
    BY <2>1 DEF Scan
<1>2. \E f : Scan(nodes, lo, hi, f)
  BY ScanDeclines, ScanExists
<1>3. rangeScan(lo, hi) = (CHOOSE f : f = loop(f))[<<findLeaf(lo), 1>>]
  BY DEF rangeScan
<1> HIDE DEF loop
<1>4. \E f : f = loop(f)
  BY <1>1, <1>2
<1> QED
  BY <1>1, <1>3, <1>4

-------------------------------------------------------------------------------
(* rangeScan: what its walk gives.                                          *)

\* A row v of key k is in the leaf at or after the position, or in a leaf on
\* the right of it.
Ahead(ns, at, k, v) ==
    /\ at[1] # NoNode
    /\ \/ \E j \in at[2] .. Len(ns[at[1]].keys) : ns[at[1]].keys[j] = k /\ ns[at[1]].vals[j] = v
       \/ \E y \in DOMAIN ns : /\ y[1] = 0 /\ at[1][2] < y[2]
                               /\ PairIn(ns[y].keys, ns[y].vals, k, v)

\* r holds, in the order of the keys, the rows ahead whose keys are in the range.
Shows(ns, lo, hi, at, r) ==
    /\ r \in Seq(Key \X Row)
    /\ \A i, j \in DOMAIN r : i < j => r[i][1] < r[j][1]
    /\ \A k \in Key, v \in Row :
           (\E i \in DOMAIN r : r[i] = <<k, v>>) <=> lo <= k /\ k <= hi /\ Ahead(ns, at, k, v)

\* What is known of a spot in a leaf.
LEMMA SpotFacts ==
    ASSUME NEW ns, NEW top, Tree(ns, top), NEW at \in Spots(ns), at[1] # NoNode
    PROVE  /\ at[1] \in DOMAIN ns /\ at[1][1] = 0 /\ at[1][2] \in Nat /\ at[2] \in Nat /\ at[2] >= 1
           /\ ns[at[1]].keys \in Seq(Key) /\ Sorted(ns[at[1]].keys)
           /\ ns[at[1]].vals \in Seq(Row) /\ Len(ns[at[1]].vals) = Len(ns[at[1]].keys)
           /\ Len(ns[at[1]].keys) \in Nat
           /\ \A j \in 1 .. Len(ns[at[1]].keys) : /\ ns[at[1]].keys[j] \in Key
                                                  /\ ns[at[1]].keys[j] \in Nat
                                                  /\ ns[at[1]].vals[j] \in Row
           /\ LeafShape(ns, at[1], ns[at[1]])
<1> DEFINE id == at[1]
<1>1. /\ UpTo(ns, top[1]) /\ DOMAIN ns \subseteq Name /\ top[1] \in Nat
      /\ \A x \in DOMAIN ns : x[1] <= top[1]
  BY NameFacts DEF Tree, Rooted, UpTo
<1>2. id \in DOMAIN ns /\ ns[id].leaf /\ at[2] \in 1 .. ORDER
  BY DEF Spots
<1>3. id[1] = 0 /\ id[2] \in Nat
  BY <1>1, <1>2, NameFacts DEF UpTo, NodeOK
<1> HIDE DEF id
<1>4. /\ LeafShape(ns, id, ns[id]) /\ ns[id].keys \in Seq(Key) /\ Sorted(ns[id].keys)
      /\ ns[id].vals \in Seq(Row) /\ Len(ns[id].vals) = Len(ns[id].keys)
  BY <1>1, <1>2, <1>3, LeafFacts
<1>5. /\ Len(ns[id].keys) \in Nat
      /\ \A j \in 1 .. Len(ns[id].keys) : ns[id].keys[j] \in Key /\ ns[id].keys[j] \in Nat
  BY <1>4, KeyFacts
<1>6. \A j \in 1 .. Len(ns[id].keys) : ns[id].vals[j] \in Row
  <2>1. \A j \in 1 .. Len(ns[id].vals) : ns[id].vals[j] \in Row
    BY <1>4, SeqFacts
  <2> QED
    BY <1>4, <2>1
<1>7. at[2] \in Nat /\ at[2] >= 1
  BY <1>2, OrderAssumption
<1> QED
  BY <1>2, <1>3, <1>4, <1>5, <1>6, <1>7 DEF id

\* Behind the last key of a leaf, what is ahead is what its successor and the
\* leaves behind that hold.
LEMMA AheadNext ==
    ASSUME NEW ns, NEW top, Tree(ns, top), Chained(ns), NEW at \in Spots(ns), at[1] # NoNode,
           at[2] > Len(ns[at[1]].keys), NEW k, NEW v
    PROVE  Ahead(ns, at, k, v) <=> Ahead(ns, Onward(ns, at), k, v)
<1> DEFINE id == at[1]
           z  == ns[id].next
           to == <<z, 1>>
           right(x) == \E y \in DOMAIN ns : /\ y[1] = 0 /\ x[2] < y[2]
                                            /\ PairIn(ns[y].keys, ns[y].vals, k, v)
<1>1. id \in DOMAIN ns /\ id[1] = 0 /\ id[2] \in Nat /\ at[2] \in Nat /\ Len(ns[id].keys) \in Nat
  BY SpotFacts
<1>2. \A y \in DOMAIN ns : y[2] \in Nat
  BY NameFacts DEF Tree, UpTo
<1>3. Onward(ns, at) = to /\ to[1] = z /\ to[2] = 1
  BY DEF Onward
<1>4. Ahead(ns, at, k, v) <=> right(id)
  BY <1>1 DEF Ahead
<1>5. CASE z = NoNode
  <2>1. ~right(id)
    BY <1>1, <1>2, <1>5 DEF Chained
  <2>2. ~Ahead(ns, to, k, v)
    BY <1>5 DEF Ahead
  <2> QED
    BY <1>3, <1>4, <2>1, <2>2
<1>6. CASE z # NoNode
  <2>1. /\ z \in DOMAIN ns /\ z[1] = 0 /\ id[2] < z[2]
        /\ \A y \in DOMAIN ns : y[1] = 0 => y[2] <= id[2] \/ z[2] <= y[2]
    BY <1>1, <1>6 DEF Chained
  <2>2. Ahead(ns, to, k, v) <=> PairIn(ns[z].keys, ns[z].vals, k, v) \/ right(z)
    BY <1>3, <1>6 DEF Ahead, PairIn
  <2>3. \A y \in DOMAIN ns : y[1] = 0 /\ id[2] < y[2] => y = z \/ z[2] < y[2]
    <3> TAKE y \in DOMAIN ns
    <3> HAVE y[1] = 0 /\ id[2] < y[2]
    <3>1. y[2] = z[2] \/ z[2] < y[2]
      BY <1>1, <1>2, <2>1
    <3>2. y = <<y[1], y[2]>> /\ z = <<z[1], z[2]>>
      BY <2>1, NameFacts DEF Tree, UpTo
    <3> HIDE DEF z
    <3> QED
      BY <2>1, <3>1, <3>2
  <2>4. \A y \in DOMAIN ns : z[2] < y[2] => id[2] < y[2]
    BY <1>1, <1>2, <2>1
  <2> HIDE DEF id, z, to
  <2>5. right(id) <=> PairIn(ns[z].keys, ns[z].vals, k, v) \/ right(z)
    <3>1. ASSUME right(id) PROVE PairIn(ns[z].keys, ns[z].vals, k, v) \/ right(z)
      BY <2>3, <3>1
    <3>2. ASSUME PairIn(ns[z].keys, ns[z].vals, k, v) PROVE right(id)
      BY <2>1, <3>2
    <3>3. ASSUME right(z) PROVE right(id)
      BY <2>4, <3>3
    <3> QED
      BY <3>1, <3>2, <3>3
  <2> QED
    BY <1>3, <1>4, <2>2, <2>5
<1> QED
  BY <1>5, <1>6

\* At a key of a leaf, this and what is ahead of the next position is ahead, and
\* the latter has greater keys.
LEMMA AheadHere ==
    ASSUME NEW ns, NEW top, Tree(ns, top), NEW at \in Spots(ns), at[1] # NoNode,
           at[2] <= Len(ns[at[1]].keys), NEW k, NEW v
    PROVE  LET leaf == ns[at[1]] IN
           /\ Onward(ns, at) = <<at[1], at[2] + 1>>
           /\ Ahead(ns, at, k, v) <=> \/ k = leaf.keys[at[2]] /\ v = leaf.vals[at[2]]
                                      \/ Ahead(ns, Onward(ns, at), k, v)
           /\ Ahead(ns, Onward(ns, at), k, v) => leaf.keys[at[2]] < k
<1> DEFINE id == at[1]
           i  == at[2]
           n  == Len(ns[id].keys)
           to == <<id, i + 1>>
<1>1. /\ id \in DOMAIN ns /\ id[1] = 0 /\ id[2] \in Nat /\ i \in Nat /\ i >= 1 /\ n \in Nat /\ i <= n
      /\ Sorted(ns[id].keys) /\ ns[id].keys \in Seq(Key) /\ LeafShape(ns, id, ns[id])
      /\ \A j \in 1 .. n : ns[id].keys[j] \in Nat
  BY SpotFacts
<1>2. Onward(ns, at) = to /\ to[1] = id /\ to[2] = i + 1
  BY <1>1 DEF Onward
<1>3. Ahead(ns, at, k, v) <=> (k = ns[id].keys[i] /\ v = ns[id].vals[i]) \/ Ahead(ns, to, k, v)
  <2>1. \A j : j \in i .. n <=> j = i \/ j \in i + 1 .. n
    BY <1>1
  <2> QED
    BY <1>2, <2>1 DEF Ahead
<1>4. ASSUME Ahead(ns, to, k, v) PROVE ns[id].keys[i] < k
  <2>1. CASE \E j \in i + 1 .. n : ns[id].keys[j] = k
    <3>1. PICK j \in i + 1 .. n : ns[id].keys[j] = k
      BY <2>1
    <3>2. i \in DOMAIN ns[id].keys /\ j \in DOMAIN ns[id].keys /\ i < j
      BY <1>1, KeyFacts
    <3> QED
      BY <1>1, <3>1, <3>2 DEF Sorted
  <2>2. CASE \E y \in DOMAIN ns : /\ y[1] = 0 /\ id[2] < y[2]
                                  /\ PairIn(ns[y].keys, ns[y].vals, k, v)
    <3>1. PICK y \in DOMAIN ns : /\ y[1] = 0 /\ id[2] < y[2]
                                 /\ PairIn(ns[y].keys, ns[y].vals, k, v)
      BY <2>2
    <3>2. PICK j \in 1 .. Len(ns[y].keys) : ns[y].keys[j] = k
      BY <3>1 DEF PairIn
    <3>3. /\ UpTo(ns, top[1]) /\ DOMAIN ns \subseteq Name /\ top[1] \in Nat
      BY NameFacts DEF Tree, Rooted, UpTo
    <3>4. LeafShape(ns, y, ns[y]) /\ ns[y].keys \in Seq(Key) /\ y[2] \in Nat
      BY <3>1, <3>3, LeafFacts, NameFacts
    <3>5. y[2] <= k /\ k \in Nat
      BY <3>2, <3>4, KeyFacts DEF LeafShape
    <3>6. ns[id].keys[i] < y[2] /\ ns[id].keys[i] \in Nat
      BY <1>1, <3>1 DEF LeafShape, Within
    <3> QED
      BY <3>4, <3>5, <3>6
  <2> QED
    BY <1>2, <1>4, <2>1, <2>2 DEF Ahead
<1> QED
  BY <1>2, <1>3, <1>4

\* A row in front of those of greater keys.
LEMMA ShowsMore ==
    ASSUME NEW r \in Seq(Key \X Row), NEW k \in Key, NEW v \in Row,
           \A i, j \in DOMAIN r : i < j => r[i][1] < r[j][1],
           \A i \in DOMAIN r : k < r[i][1]
    PROVE  LET s == <<<<k, v>>>> \o r
           IN  /\ s \in Seq(Key \X Row)
               /\ \A i, j \in DOMAIN s : i < j => s[i][1] < s[j][1]
               /\ \A p : (\E i \in DOMAIN s : s[i] = p) <=>
                             p = <<k, v>> \/ \E i \in DOMAIN r : r[i] = p
<1> DEFINE s == <<<<k, v>>>> \o r
<1>1. <<k, v>> \in Key \X Row /\ <<<<k, v>>>> \in Seq(Key \X Row)
  OBVIOUS
<1>2. Len(r) \in Nat /\ DOMAIN r = 1 .. Len(r)
  OBVIOUS
<1>3. /\ s \in Seq(Key \X Row) /\ Len(s) = Len(r) + 1 /\ s[1] = <<k, v>>
      /\ \A i \in 2 .. Len(r) + 1 : s[i] = r[i - 1]
  BY <1>1, <1>2
<1>4. DOMAIN s = 1 .. Len(r) + 1
  BY <1>3
<1> HIDE DEF s
<1>5. \A i \in DOMAIN s : i = 1 \/ (i \in 2 .. Len(r) + 1 /\ i - 1 \in DOMAIN r)
  BY <1>2, <1>4
<1>6. \A i, j \in DOMAIN s : i < j => s[i][1] < s[j][1]
  <2> SUFFICES ASSUME NEW i \in DOMAIN s, NEW j \in DOMAIN s, i < j PROVE s[i][1] < s[j][1]
    OBVIOUS
  <2>1. j - 1 \in DOMAIN r /\ s[j] = r[j - 1]
    BY <1>2, <1>3, <1>4
  <2>2. CASE i = 1
    BY <1>3, <2>1, <2>2
  <2>3. CASE i # 1
    <3>1. i - 1 \in DOMAIN r /\ s[i] = r[i - 1] /\ i - 1 < j - 1
      BY <1>2, <1>3, <1>4, <2>3
    <3> QED
      BY <2>1, <3>1
  <2> QED
    BY <2>2, <2>3
<1>7. ASSUME NEW p
      PROVE  (\E i \in DOMAIN s : s[i] = p) <=> p = <<k, v>> \/ \E i \in DOMAIN r : r[i] = p
  <2>1. ASSUME NEW i \in DOMAIN s, s[i] = p PROVE p = <<k, v>> \/ \E j \in DOMAIN r : r[j] = p
    BY <1>3, <1>5, <2>1
  <2>2. p = <<k, v>> => \E i \in DOMAIN s : s[i] = p
    <3>1. 1 \in DOMAIN s
      BY <1>2, <1>4
    <3> QED
      BY <1>3, <3>1
  <2>3. ASSUME NEW i \in DOMAIN r, r[i] = p PROVE \E j \in DOMAIN s : s[j] = p
    <3>1. i + 1 \in DOMAIN s /\ i + 1 \in 2 .. Len(r) + 1 /\ (i + 1) - 1 = i
      BY <1>2, <1>4
    <3>2. s[i + 1] = p
      BY <1>3, <2>3, <3>1
    <3> QED
      BY <3>1, <3>2
  <2> QED
    BY <2>1, <2>2, <2>3
<1> QED
  BY <1>3, <1>6, <1>7 DEF s

\* From every spot on the walk gives the rows that are ahead.
LEMMA ScanShows ==
    ASSUME NEW ns, NEW top, Tree(ns, top), Chained(ns), NEW lo \in Key, NEW hi \in Key,
           NEW f, Scan(ns, lo, hi, f)
    PROVE  \A at \in Spots(ns) : Shows(ns, lo, hi, at, f[at])
<1> DEFINE S == {at \in Spots(ns) : Shows(ns, lo, hi, at, f[at])}
<1>1. PICK w, b : Declines(ns, w, b)
  BY ScanDeclines
<1>2. lo \in Nat /\ hi \in Nat /\ \A k \in Key : k \in Nat
  BY KeyAssumption
<1>3. /\ <<>> \in Seq(Key \X Row) /\ DOMAIN <<>> = {}
  OBVIOUS
<1>4. ASSUME NEW at \in Spots(ns), at[1] # NoNode => Onward(ns, at) \in S
      PROVE  at \in S
  <2> DEFINE id   == at[1]
             i    == at[2]
             keys == ns[id].keys
             vals == ns[id].vals
             to   == Onward(ns, at)
  <2>1. f[at] = Given(ns, lo, hi, at, f[to])
    BY DEF Scan
  <2>2. CASE id = NoNode
    <3>1. f[at] = <<>>
      BY <2>1, <2>2 DEF Given
    <3>2. \A k, v : ~Ahead(ns, at, k, v)
      BY <2>2 DEF Ahead
    <3> QED
      BY <1>3, <3>1, <3>2 DEF Shows
  <2>3. CASE id # NoNode
    <3>1. Shows(ns, lo, hi, to, f[to])
      BY <1>4, <2>3
    <3>2. i \in Nat /\ i >= 1 /\ Len(keys) \in Nat
      BY <2>3, SpotFacts
    <3> HIDE DEF to
    <3>3. CASE i > Len(keys)
      <4>1. f[at] = f[to]
        BY <2>1, <2>3, <3>3 DEF Given
      <4>2. \A k, v : Ahead(ns, at, k, v) <=> Ahead(ns, to, k, v)
        BY <2>3, <3>3, AheadNext DEF to
      <4> QED
        BY <3>1, <4>1, <4>2 DEF Shows
    <3>4. CASE ~(i > Len(keys))
      <4> DEFINE key == keys[i]
                 val == vals[i]
      <4>1. /\ \A k, v : Ahead(ns, at, k, v) <=> (k = key /\ v = val) \/ Ahead(ns, to, k, v)
            /\ \A k, v : Ahead(ns, to, k, v) => key < k
        <5>1. i <= Len(keys)
          BY <3>2, <3>4
        <5> QED
          BY <2>3, <5>1, AheadHere DEF to
      <4>2. key \in Key /\ key \in Nat /\ val \in Row
        <5>1. i \in 1 .. Len(keys)
          BY <3>2, <3>4
        <5> QED
          BY <2>3, <5>1, SpotFacts
      <4>3. f[at] = IF key < lo THEN f[to] ELSE IF key > hi THEN <<>> ELSE <<<<key, val>>>> \o f[to]
        BY <2>1, <2>3, <3>4 DEF Given
      <4> HIDE DEF key, val
      <4>4. CASE key < lo
        <5>1. \A k \in Key, v \in Row : lo <= k => (Ahead(ns, at, k, v) <=> Ahead(ns, to, k, v))
          BY <1>2, <4>1, <4>2, <4>4
        <5> QED
          BY <3>1, <4>3, <4>4, <5>1 DEF Shows
      <4>5. CASE ~(key < lo) /\ key > hi
        <5>1. \A k \in Key, v \in Row : k <= hi => ~Ahead(ns, at, k, v)
          BY <1>2, <4>1, <4>2, <4>5
        <5>2. f[at] = <<>>
          BY <4>3, <4>5
        <5> QED
          BY <1>3, <5>1, <5>2 DEF Shows
      <4>6. CASE ~(key < lo) /\ ~(key > hi)
        <5> DEFINE r == f[to]
                   s == f[at]
        <5>1. s = <<<<key, val>>>> \o r
          BY <4>3, <4>6
        <5>2. /\ r \in Seq(Key \X Row) /\ \A m, j \in DOMAIN r : m < j => r[m][1] < r[j][1]
              /\ \A k \in Key, v \in Row :
                     (\E m \in DOMAIN r : r[m] = <<k, v>>) <=> lo <= k /\ k <= hi /\ Ahead(ns, to, k, v)
          BY <3>1 DEF Shows
        <5> HIDE DEF r, s
        <5>3. \A m \in DOMAIN r : key < r[m][1]
          <6> TAKE m \in DOMAIN r
          <6>1. r[m] \in Key \X Row
            BY <5>2
          <6>2. PICK k \in Key, v \in Row : r[m] = <<k, v>>
            BY <6>1
          <6>3. Ahead(ns, to, k, v)
            BY <5>2, <6>2
          <6> QED
            BY <4>1, <6>2, <6>3
        <5>4. /\ s \in Seq(Key \X Row)
              /\ \A m, j \in DOMAIN s : m < j => s[m][1] < s[j][1]
              /\ \A p : (\E m \in DOMAIN s : s[m] = p) <=>
                            p = <<key, val>> \/ \E m \in DOMAIN r : r[m] = p
          <6> DEFINE t == <<<<key, val>>>> \o r
          <6>1. /\ t \in Seq(Key \X Row)
                /\ \A m, j \in DOMAIN t : m < j => t[m][1] < t[j][1]
                /\ \A p : (\E m \in DOMAIN t : t[m] = p) <=>
                              p = <<key, val>> \/ \E m \in DOMAIN r : r[m] = p
            BY <4>2, <5>2, <5>3, ShowsMore, Zenon
          <6>2. s = t
            BY <5>1
          <6> HIDE DEF t
          <6> QED
            BY <6>1, <6>2
        <5>5. ASSUME NEW k \in Key, NEW v \in Row
              PROVE  (\E m \in DOMAIN s : s[m] = <<k, v>>) <=>
                         lo <= k /\ k <= hi /\ Ahead(ns, at, k, v)
          <6>1. (\E m \in DOMAIN s : s[m] = <<k, v>>) <=>
                    (k = key /\ v = val) \/ (lo <= k /\ k <= hi /\ Ahead(ns, to, k, v))
            BY <5>2, <5>4
          <6>2. lo <= key /\ key <= hi
            BY <1>2, <4>2, <4>6
          <6> QED
            BY <4>1, <6>1, <6>2
        <5>6. Shows(ns, lo, hi, at, s)
          BY <5>4, <5>5 DEF Shows
        <5> QED
          BY <5>6 DEF s
      <4> QED
        BY <4>4, <4>5, <4>6
    <3> QED
      BY <3>3, <3>4
  <2> QED
    BY <2>2, <2>3
<1> HIDE DEF S
<1>5. Spots(ns) \subseteq S
  BY <1>1, <1>4, FromTheEnd
<1> QED
  BY <1>5 DEF S

\* From a key's leaf on, the rows of this and of greater keys are ahead.
LEMMA AheadOfLeaf ==
    ASSUME NEW ns, NEW top, Tree(ns, top), NEW lo \in Key, NEW k \in Key, lo <= k, NEW v
    PROVE  /\ <<FindLeafIn(ns, top, lo), 1>> \in Spots(ns)
           /\ Ahead(ns, <<FindLeafIn(ns, top, lo), 1>>, k, v) <=> RowIn(ns, k, v)
<1> DEFINE id == FindLeafIn(ns, top, lo)
           at == <<id, 1>>
<1>1. /\ UpTo(ns, top[1]) /\ DOMAIN ns \subseteq Name /\ top[1] \in Nat
      /\ \A x \in DOMAIN ns : x[1] <= top[1]
  BY NameFacts DEF Tree, Rooted, UpTo
<1>2. Covers(ns, id, lo) /\ id[1] = 0
  BY FindLeafIs
<1> HIDE DEF id
<1>3. id \in DOMAIN ns /\ id[2] \in Nat /\ ns[id].leaf
  BY <1>1, <1>2, LeafFacts, NameFacts DEF Covers
<1>4. at \in Spots(ns) /\ at[1] = id /\ at[2] = 1
  BY <1>3, OrderAssumption DEF Spots
<1>5. id # NoNode
  <2>1. id \in Nat \X Nat
    BY <1>1, <1>3 DEF Name
  <2>2. \A y \in Nat \X Nat : Len(y) = 2
    OBVIOUS
  <2>3. Len(<<>>) = 0
    OBVIOUS
  <2> QED
    BY <2>1, <2>2, <2>3 DEF NoNode
<1>6. ASSUME Ahead(ns, at, k, v) PROVE RowIn(ns, k, v)
  BY <1>2, <1>3, <1>4, <1>6 DEF Ahead, RowIn, PairIn
<1>7. ASSUME RowIn(ns, k, v) PROVE Ahead(ns, at, k, v)
  <2>1. PICK y \in DOMAIN ns : y[1] = 0 /\ PairIn(ns[y].keys, ns[y].vals, k, v)
    BY <1>7 DEF RowIn
  <2>2. PICK i \in 1 .. Len(ns[y].keys) : ns[y].keys[i] = k /\ ns[y].vals[i] = v
    BY <2>1 DEF PairIn
  <2>3. Covers(ns, y, k)
    BY <1>1, <2>1, <2>2, HolderCovers
  <2>4. lo \in Nat /\ k \in Nat /\ y[2] \in Nat
    BY <1>1, <2>1, KeyAssumption, NameFacts
  <2>5. id[2] <= y[2]
    BY <1>2, <1>3, <2>1, <2>3, <2>4 DEF Covers
  <2>6. CASE id[2] = y[2]
    <3>1. y = <<y[1], y[2]>> /\ id = <<id[1], id[2]>>
      BY <1>1, <1>3, <2>1, NameFacts
    <3>2. y = id
      BY <1>2, <2>1, <2>6, <3>1
    <3> QED
      BY <1>4, <1>5, <2>1, <3>2 DEF Ahead, PairIn
  <2>7. CASE id[2] < y[2]
    BY <1>4, <1>5, <2>1, <2>7 DEF Ahead
  <2> QED
    BY <1>3, <2>4, <2>5, <2>6, <2>7
<1> QED
  BY <1>4, <1>6, <1>7 DEF id

\* A scan of a tree gives what searches find.
LEMMA ScanOfTree ==
    ASSUME root # NoNode, Tree(nodes, root), Chained(nodes), NEW lo \in Key, NEW hi \in Key
    PROVE  /\ rangeScan(lo, hi) \in Seq(Key \X Row)
           /\ \A i, j \in DOMAIN rangeScan(lo, hi) :
                  i < j => rangeScan(lo, hi)[i][1] < rangeScan(lo, hi)[j][1]
           /\ \A k \in Key, v \in Row :
                  (\E i \in DOMAIN rangeScan(lo, hi) : rangeScan(lo, hi)[i] = <<k, v>>) <=>
                      lo <= k /\ k <= hi /\ Found(k) /\ search(k) = v
<1> DEFINE at == <<findLeaf(lo), 1>>
<1>1. PICK f : Scan(nodes, lo, hi, f) /\ rangeScan(lo, hi) = f[at]
  BY RangeScanIs
<1>2. findLeaf(lo) = FindLeafIn(nodes, root, lo)
  BY DEF findLeaf, FindLeafIn
<1>3. at \in Spots(nodes)
  <2>1. lo <= lo
    BY KeyAssumption
  <2> QED
    BY <1>2, <2>1, AheadOfLeaf
<1>4. Shows(nodes, lo, hi, at, rangeScan(lo, hi))
  BY <1>1, <1>3, ScanShows
<1>5. ASSUME NEW k \in Key, NEW v \in Row, lo <= k
      PROVE  Ahead(nodes, at, k, v) <=> Found(k) /\ search(k) = v
  <2>1. Ahead(nodes, at, k, v) <=> RowIn(nodes, k, v)
    BY <1>2, <1>5, AheadOfLeaf
  <2>2. /\ RowIn(nodes, k, v) => FoundIn(nodes, root, k) /\ SearchIn(nodes, root, k) = v
        /\ FoundIn(nodes, root, k) => RowIn(nodes, k, SearchIn(nodes, root, k))
    BY SearchIs
  <2>3. /\ Found(k) <=> FoundIn(nodes, root, k)
        /\ search(k) = SearchIn(nodes, root, k)
    BY FoundIs
  <2> QED
    BY <2>1, <2>2, <2>3
<1> HIDE DEF at
<1> QED
  BY <1>4, <1>5 DEF Shows

\* A row that a search finds is a row.
LEMMA FoundRows ==
    ASSUME root # NoNode, Tree(nodes, root), NEW k \in Key, Found(k)
    PROVE  search(k) \in Row
<1>1. RowIn(nodes, k, search(k))
  BY FoundIs, SearchIs
<1>2. PICK id \in DOMAIN nodes : id[1] = 0 /\ PairIn(nodes[id].keys, nodes[id].vals, k, search(k))
  BY <1>1 DEF RowIn
<1>3. PICK i \in 1 .. Len(nodes[id].keys) : nodes[id].vals[i] = search(k)
  BY <1>2 DEF PairIn
<1>4. UpTo(nodes, root[1]) /\ root[1] \in Nat
  BY NameFacts DEF Tree, Rooted, UpTo
<1>5. /\ nodes[id].vals \in Seq(Row) /\ Len(nodes[id].vals) = Len(nodes[id].keys)
  BY <1>2, <1>4, LeafFacts
<1> QED
  BY <1>3, <1>5, SeqFacts

\* The invariant has it that scans agree with searches.
LEMMA ScansAgree == ASSUME IInv PROVE ScansAgreeWithSearch
<1> DEFINE row == [k \in {j \in Key : Found(j)} |-> search(k)]
<1> SUFFICES ASSUME NEW lo \in Key, NEW hi \in Key
             PROVE  /\ ToSet(rangeScan(lo, hi)) =
                           {<<k, row[k]>> : k \in {j \in DOMAIN row : lo <= j /\ j <= hi}}
                    /\ \A i, j \in DOMAIN rangeScan(lo, hi) :
                           i < j => rangeScan(lo, hi)[i][1] < rangeScan(lo, hi)[j][1]
  BY DEF ScansAgreeWithSearch
<1> DEFINE rows == rangeScan(lo, hi)
           wanted == {<<k, row[k]>> : k \in {j \in DOMAIN row : lo <= j /\ j <= hi}}
<1>1. ToSet(rows) = {rows[i] : i \in DOMAIN rows}
  BY DEF ToSet
<1>2. DOMAIN row = {j \in Key : Found(j)} /\ \A k \in DOMAIN row : row[k] = search(k)
  OBVIOUS
<1>3. CASE root = NoNode
  <2>1. rows = <<>>
    BY <1>3 DEF rangeScan
  <2>2. DOMAIN rows = {}
    BY <2>1
  <2>3. \A k : ~Found(k)
    BY <1>3 DEF Found
  <2>4. wanted = {}
    BY <1>2, <2>3
  <2> QED
    BY <1>1, <2>2, <2>4
<1>4. CASE root # NoNode
  <2>1. Tree(nodes, root) /\ Chained(nodes)
    BY <1>4 DEF IInv, TreeInv
  <2>2. /\ rows \in Seq(Key \X Row)
        /\ \A i, j \in DOMAIN rows : i < j => rows[i][1] < rows[j][1]
        /\ \A k \in Key, v \in Row :
               (\E i \in DOMAIN rows : rows[i] = <<k, v>>) <=>
                   lo <= k /\ k <= hi /\ Found(k) /\ search(k) = v
    BY <1>4, <2>1, ScanOfTree
  <2>3. \A k \in Key : Found(k) => search(k) \in Row
    BY <1>4, <2>1, FoundRows
  <2> HIDE DEF rows, row
  <2>4. ASSUME NEW p \in ToSet(rows) PROVE p \in wanted
    <3>1. PICK i \in DOMAIN rows : p = rows[i]
      BY <1>1, <2>4
    <3>2. PICK k \in Key, v \in Row : p = <<k, v>>
      <4>1. p \in Key \X Row
        BY <2>2, <3>1
      <4> QED
        BY <4>1
    <3>3. lo <= k /\ k <= hi /\ Found(k) /\ search(k) = v
      BY <2>2, <3>1, <3>2
    <3> QED
      BY <1>2, <3>2, <3>3
  <2>5. ASSUME NEW p \in wanted PROVE p \in ToSet(rows)
    <3>1. PICK k \in DOMAIN row : lo <= k /\ k <= hi /\ p = <<k, row[k]>>
      BY <2>5
    <3>2. k \in Key /\ Found(k) /\ row[k] = search(k) /\ search(k) \in Row
      BY <1>2, <2>3
    <3>3. \E i \in DOMAIN rows : rows[i] = p
      BY <2>2, <3>1, <3>2
    <3> QED
      BY <1>1, <3>3
  <2>6. ToSet(rows) = wanted
    BY <2>4, <2>5
  <2> QED
    BY <2>2, <2>6 DEF rows
<1> QED
  BY <1>3, <1>4

\* Whatever was split and erased before, a range scan along the chain shows the
\* rows that searches from the root find, in the order of the keys.
THEOREM ScansAgreeWithSearchCorrect == Spec => []ScansAgreeWithSearch
<1>1. IInv => ScansAgreeWithSearch
  BY ScansAgree
<1> QED
  BY <1>1, Invariance, PTL
===============================================================================
