------------------------------ MODULE Labs_proofs ------------------------------
(***************************************************************************)
(* Proofs about three programs of the labs, whatever they are given, in    *)
(* whatever order: the red-black tree of LAB-5, for any finite set of      *)
(* keys, the B-tree of LAB-6, for any minimum degree and any integers as   *)
(* keys, and the shunting-yard of LAB-7, whose tokens need not form an     *)
(* expression.                                                             *)
(***************************************************************************)
EXTENDS RedBlackTree, BTree, ShuntingYard, FiniteSetTheorems, SequenceTheorems,
        WellFoundedInduction, TLAPS

-------------------------------------------------------------------------------
(* LAB-5: the tree by itself, with its calls.                               *)

RedBlackNext == fixAfterInsert \/ \E key \in Key : insert(key)

RedBlackSpec == RedBlackInit /\ [][RedBlackNext]_<<tree, node>>

-------------------------------------------------------------------------------
(* LAB-5: the links and the order of the keys.                              *)

TreeType == [root : Key \cup {Nil}, color : [Key -> {"Red", "Black"}],
             parent : [Key -> Key \cup {Nil}], kid : [Key -> [Side -> Key \cup {Nil}]]]

NodesOf(tr) == {k \in Key : k = tr.root \/ tr.parent[k] # Nil}

\* Key k is between the ends of an interval.
Inside(ends, k) == ends["left"] < k /\ k < ends["right"]

\* Node n has the keys of an interval, e[n], under it: its children share it out.
Formed(tr, e) ==
    /\ tr \in TreeType
    /\ e \in [Key -> [Side -> Nat]]
    /\ tr.root # Nil => /\ tr.parent[tr.root] = Nil
                       /\ e[tr.root]["left"] = 0 /\ e[tr.root]["right"] = Above
    /\ tr.root = Nil => NodesOf(tr) = {}
    /\ \A n \in NodesOf(tr) : Inside(e[n], n)
    /\ \A n \in NodesOf(tr) : tr.parent[n] # Nil =>
           tr.parent[n] \in NodesOf(tr) /\ \E s \in Side : tr.kid[tr.parent[n]][s] = n
    /\ \A n \in NodesOf(tr), s \in Side : tr.kid[n][s] # Nil =>
           /\ tr.parent[tr.kid[n][s]] = n
           /\ e[tr.kid[n][s]][s] = e[n][s] /\ e[tr.kid[n][s]][Other(s)] = n
    /\ \A k \in Key \ NodesOf(tr), s \in Side : tr.kid[k][s] = Nil

\* The sides.
LEMMA Sides ==
    ASSUME NEW s \in Side
    PROVE  /\ Other(s) \in Side /\ Other(s) # s /\ Other(Other(s)) = s
           /\ Side = {s, Other(s)}
           /\ s = "left" => Other(s) = "right"
           /\ s = "right" => Other(s) = "left"
           /\ s = "left" \/ s = "right"
BY DEF Side, Other

\* Keys are numbers, and nil is none of them.
LEMMA KeyFacts ==
    /\ Nil \notin Key
    /\ \A k \in Key : k \in Nat /\ k > 0
BY RedBlackKeys DEF Nil

\* What a tree's type says of its parts.
LEMMA TypeFacts ==
    ASSUME NEW tr \in TreeType
    PROVE  /\ tr.root \in Key \cup {Nil}
           /\ \A k \in Key : tr.parent[k] \in Key \cup {Nil} /\ tr.color[k] \in {"Red", "Black"}
           /\ \A k \in Key, s \in Side : tr.kid[k][s] \in Key \cup {Nil}
           /\ DOMAIN tr.parent = Key /\ DOMAIN tr.kid = Key /\ DOMAIN tr.color = Key
           /\ \A k \in Key : DOMAIN tr.kid[k] = Side
BY DEF TreeType

\* A child is a node, and lies in its half of its parent's interval.
LEMMA ChildFacts ==
    ASSUME NEW tr, NEW e, Formed(tr, e), NEW n \in NodesOf(tr), NEW s \in Side, tr.kid[n][s] # Nil
    PROVE  LET c == tr.kid[n][s]
           IN  /\ c \in NodesOf(tr) /\ c \in Key /\ tr.parent[c] = n
               /\ e[c][s] = e[n][s] /\ e[c][Other(s)] = n
               /\ Inside(e[c], c) /\ c # n
               /\ s = "left" => c < n
               /\ s = "right" => n < c
<1> DEFINE c == tr.kid[n][s]
<1>1. n \in Key /\ n \in Nat
  BY KeyFacts DEF NodesOf
<1>2. c \in Key /\ c \in Nat
  <2>1. tr \in TreeType
    BY DEF Formed
  <2>2. c \in Key \cup {Nil}
    BY <1>1, <2>1, TypeFacts
  <2> QED
    BY <2>2, KeyFacts
<1>3. tr.parent[c] = n /\ e[c][s] = e[n][s] /\ e[c][Other(s)] = n
  <2>1. \A m \in NodesOf(tr), q \in Side : tr.kid[m][q] # Nil =>
            /\ tr.parent[tr.kid[m][q]] = m
            /\ e[tr.kid[m][q]][q] = e[m][q] /\ e[tr.kid[m][q]][Other(q)] = m
    BY DEF Formed
  <2> QED
    BY <2>1
<1>4. c \in NodesOf(tr)
  BY <1>1, <1>2, <1>3, KeyFacts DEF NodesOf
<1>5. Inside(e[c], c)
  BY <1>4 DEF Formed
<1> HIDE DEF c
<1>6. s = "left" => c < n
  BY <1>3, <1>5, Sides DEF Inside
<1>7. s = "right" => n < c
  BY <1>3, <1>5, Sides DEF Inside
<1>8. c # n
  BY <1>1, <1>6, <1>7, Sides
<1> QED
  BY <1>2, <1>3, <1>4, <1>5, <1>6, <1>7, <1>8 DEF c

\* A child is on one side.
LEMMA OneSide ==
    ASSUME NEW tr, NEW e, Formed(tr, e), NEW n \in NodesOf(tr), NEW s \in Side, tr.kid[n][s] # Nil
    PROVE  \A q \in Side : tr.kid[n][q] = tr.kid[n][s] <=> q = s
<1> SUFFICES ASSUME tr.kid[n][Other(s)] = tr.kid[n][s] PROVE FALSE
  BY Sides
<1> DEFINE c == tr.kid[n][s]
<1>1. c \in Key /\ (s = "left" => c < n) /\ (s = "right" => n < c)
  BY ChildFacts
<1>2. (Other(s) = "left" => c < n) /\ (Other(s) = "right" => n < c)
  BY Sides, ChildFacts
<1>3. c \in Nat /\ n \in Nat
  BY <1>1, KeyFacts DEF NodesOf
<1> HIDE DEF c
<1> QED
  BY <1>1, <1>2, <1>3, Sides

\* A node that is not the root is on one side of its parent, whose key ends its
\* interval there.
LEMMA ParentFacts ==
    ASSUME NEW tr, NEW e, Formed(tr, e), NEW n \in NodesOf(tr), tr.parent[n] # Nil
    PROVE  LET p == tr.parent[n]
               s == SideOf(tr, n)
           IN  /\ p \in NodesOf(tr) /\ p \in Key /\ s \in Side /\ tr.kid[p][s] = n
               /\ p # n /\ tr.kid[p][Other(s)] # n
               /\ \A q \in Side : tr.kid[p][q] = n <=> q = s
<1> DEFINE p == tr.parent[n]
           s == SideOf(tr, n)
<1>1. p \in NodesOf(tr) /\ \E q \in Side : tr.kid[p][q] = n
  BY DEF Formed
<1>2. p \in Key /\ n \in Key
  BY <1>1 DEF NodesOf
<1>3. s \in Side /\ tr.kid[p][s] = n
  BY <1>1 DEF SideOf, Side
<1> HIDE DEF s
<1>4. p # n
  BY <1>1, <1>2, <1>3, KeyFacts, ChildFacts
<1>5. \A q \in Side : tr.kid[p][q] = n <=> q = s
  BY <1>1, <1>2, <1>3, KeyFacts, OneSide
<1>6. Other(s) \in Side /\ Other(s) # s
  BY <1>3, Sides
<1> QED
  BY <1>1, <1>2, <1>3, <1>4, <1>5, <1>6 DEF s

-------------------------------------------------------------------------------
(* LAB-5: rotation.                                                         *)

\* The nodes that a rotation moves are four, or three.
LEMMA RotatedNodes ==
    ASSUME NEW tr, NEW e, Formed(tr, e), NEW n \in NodesOf(tr), NEW s \in Side,
           tr.kid[n][Other(s)] # Nil
    PROVE  LET c == tr.kid[n][Other(s)]
               i == tr.kid[c][s]
               p == tr.parent[n]
           IN  /\ n \in Key /\ c \in Key /\ c \in NodesOf(tr) /\ c # n /\ c # p /\ n # p
               /\ i # n /\ i # c /\ (i # Nil => i \in Key /\ i \in NodesOf(tr) /\ i # p)
               /\ tr.parent[c] = n
               /\ \A k \in Key, q \in Side :
                      /\ tr.kid[k][q] = n => k = p
                      /\ tr.kid[k][q] = c => k = n /\ q = Other(s)
                      /\ i # Nil /\ tr.kid[k][q] = i => k = c /\ q = s
<1> DEFINE o == Other(s)
           c == tr.kid[n][o]
           i == tr.kid[c][s]
           p == tr.parent[n]
<1>1. /\ o \in Side /\ o # s /\ Other(o) = s
  BY Sides
<1>2. /\ c \in NodesOf(tr) /\ c \in Key /\ tr.parent[c] = n /\ c # n
      /\ Inside(e[c], c) /\ e[c][o] = e[n][o] /\ e[c][s] = n
  BY <1>1, ChildFacts
<1>3. n \in Key /\ Nil \notin Key /\ Inside(e[n], n)
  BY KeyFacts DEF Formed, NodesOf
<1>4. i # Nil => /\ i \in NodesOf(tr) /\ i \in Key /\ tr.parent[i] = c /\ i # c
                 /\ Inside(e[i], i) /\ e[i][s] = n /\ e[i][o] = c
  <2> HIDE DEF c
  <2> QED
    BY <1>2, ChildFacts
<1>5. \A k \in Key, q \in Side : tr.kid[k][q] # Nil => k \in NodesOf(tr) /\ tr.parent[tr.kid[k][q]] = k
  BY DEF Formed
<1>6. n \in Nat /\ c \in Nat /\ n # Nil /\ c # Nil /\ (i # Nil => i \in Nat)
  BY <1>2, <1>3, <1>4, KeyFacts
<1>7. e \in [Key -> [Side -> Nat]]
  BY DEF Formed
<1>8. \A q \in Side : e[n][q] \in Nat /\ e[c][q] \in Nat /\ (i # Nil => e[i][q] \in Nat)
  BY <1>2, <1>3, <1>4, <1>7
<1> HIDE DEF c, i
<1>9. p # c /\ p # n /\ (i # Nil => i # p)
  <2>1. CASE p = Nil
    BY <1>6, <2>1
  <2>2. CASE p # Nil
    <3>1. PICK q \in Side : tr.kid[p][q] = n
      BY <2>2, ParentFacts
    <3>2. p \in NodesOf(tr) /\ p \in Key /\ p # n
      BY <2>2, ParentFacts
    <3>3. e[n][Other(q)] = p /\ Other(q) \in Side
      <4>1. tr.kid[p][q] # Nil
        BY <1>6, <3>1
      <4>2. e[tr.kid[p][q]][Other(q)] = p
        BY <3>2, <4>1, ChildFacts
      <4> QED
        BY <3>1, <4>2, Sides
    <3>4. Inside(e[n], c) /\ (i # Nil => Inside(e[n], i))
      <4>1. CASE s = "left"
        <5>1. o = "right"
          BY <4>1, Sides
        <5> QED
          BY <1>2, <1>3, <1>4, <1>6, <1>8, <4>1, <5>1 DEF Inside, Side
      <4>2. CASE s = "right"
        <5>1. o = "left"
          BY <4>2, Sides
        <5> QED
          BY <1>2, <1>3, <1>4, <1>6, <1>8, <4>2, <5>1 DEF Inside, Side
      <4> QED
        BY <4>1, <4>2, Sides
    <3>5. p # c /\ (i # Nil => i # p)
      BY <1>6, <1>8, <3>3, <3>4 DEF Inside, Side
    <3> QED
      BY <3>2, <3>5
  <2> QED
    BY <2>1, <2>2
<1>10. ASSUME NEW k \in Key, NEW q \in Side
       PROVE  /\ tr.kid[k][q] = n => k = p
              /\ tr.kid[k][q] = c => k = n /\ q = o
              /\ i # Nil /\ tr.kid[k][q] = i => k = c /\ q = s
  <2>1. tr.kid[k][q] = n => k = p
    BY <1>5, <1>6
  <2>2. tr.kid[k][q] = c => k = n /\ q = o
    BY <1>1, <1>2, <1>5, <1>6, OneSide DEF c
  <2>3. i # Nil /\ tr.kid[k][q] = i => k = c /\ q = s
    BY <1>2, <1>4, <1>5, OneSide DEF i
  <2> QED
    BY <2>1, <2>2, <2>3
<1> QED
  BY <1>2, <1>3, <1>4, <1>6, <1>9, <1>10 DEF c, i, o

-------------------------------------------------------------------------------
\* What a rotation makes of every link.
LEMMA Rotated ==
    ASSUME NEW tr, NEW e, Formed(tr, e), NEW n \in NodesOf(tr), NEW s \in Side,
           tr.kid[n][Other(s)] # Nil
    PROVE  LET c == tr.kid[n][Other(s)]
               i == tr.kid[c][s]
               u == Rotate(tr, n, s)
           IN  /\ u \in TreeType /\ u.color = tr.color
               /\ u.root = IF tr.parent[n] = Nil THEN c ELSE tr.root
               /\ \A k \in Key : u.parent[k] = IF k = n THEN c
                                               ELSE IF k = c THEN tr.parent[n]
                                               ELSE IF k = i THEN n ELSE tr.parent[k]
               /\ \A k \in Key, q \in Side : u.kid[k][q] =
                      IF k = n THEN (IF q = s THEN tr.kid[n][s] ELSE i)
                      ELSE IF k = c THEN (IF q = s THEN n ELSE tr.kid[c][Other(s)])
                      ELSE IF tr.kid[k][q] = n THEN c ELSE tr.kid[k][q]
<1> DEFINE o == Other(s)
           c == tr.kid[n][o]
           i == tr.kid[c][s]
           p == tr.parent[n]
           freed == IF i = Nil THEN tr ELSE [tr EXCEPT !.parent[i] = n]
           hung  == IF p = Nil THEN [freed EXCEPT !.root = c]
                    ELSE [freed EXCEPT !.kid[p][SideOf(tr, n)] = c]
           u     == [hung EXCEPT !.kid[n][o] = i, !.kid[c][s] = n,
                                 !.parent[c] = p, !.parent[n] = c]
<1>1. u = Rotate(tr, n, s)
  BY DEF Rotate
<1>2. /\ n \in Key /\ c \in Key /\ c \in NodesOf(tr) /\ c # n /\ c # p /\ n # p
      /\ i # n /\ i # c /\ (i # Nil => i \in Key /\ i \in NodesOf(tr) /\ i # p)
      /\ tr.parent[c] = n
      /\ \A k \in Key, q \in Side :
             /\ tr.kid[k][q] = n => k = p
             /\ tr.kid[k][q] = c => k = n /\ q = o
             /\ i # Nil /\ tr.kid[k][q] = i => k = c /\ q = s
  BY RotatedNodes
<1>3. tr \in TreeType
  BY DEF Formed
<1>4. i \in Key \cup {Nil} /\ p \in Key \cup {Nil}
  BY <1>2, <1>3, TypeFacts
<1>5. o \in Side /\ o # s /\ \A q \in Side : q = s \/ q = o
  BY Sides
<1>6. Nil \notin Key
  BY KeyFacts
<1>7. p # Nil => SideOf(tr, n) \in Side /\ \A q \in Side : tr.kid[p][q] = n <=> q = SideOf(tr, n)
  BY ParentFacts
<1> HIDE DEF c, i, p
<1>8. /\ freed \in TreeType /\ freed.color = tr.color /\ freed.root = tr.root /\ freed.kid = tr.kid
      /\ \A k \in Key : freed.parent[k] = IF k = i THEN n ELSE tr.parent[k]
  BY <1>2, <1>3, <1>4, <1>6 DEF TreeType
<1> HIDE DEF freed
<1>9. /\ hung \in TreeType /\ hung.color = tr.color /\ hung.parent = freed.parent
      /\ hung.root = IF p = Nil THEN c ELSE tr.root
      /\ \A k \in Key, q \in Side : hung.kid[k][q] = IF tr.kid[k][q] = n THEN c ELSE tr.kid[k][q]
  <2>1. CASE p = Nil
    <3>1. \A k \in Key, q \in Side : tr.kid[k][q] # n
      BY <1>2, <1>6, <2>1
    <3>2. hung = [freed EXCEPT !.root = c]
      BY <2>1
    <3>3. /\ hung \in TreeType /\ hung.color = tr.color /\ hung.parent = freed.parent
          /\ hung.root = c /\ hung.kid = tr.kid
      BY <1>2, <1>8, <3>2 DEF TreeType
    <3> QED
      BY <2>1, <3>1, <3>3
  <2>2. CASE p # Nil
    <3> DEFINE d == SideOf(tr, n)
    <3>1. hung = [freed EXCEPT !.kid[p][d] = c]
      BY <2>2
    <3>2. p \in Key /\ d \in Side
      BY <1>4, <1>7, <2>2
    <3>3. \A k \in Key, q \in Side : tr.kid[k][q] = n <=> k = p /\ q = d
      BY <1>2, <1>7, <2>2
    <3> HIDE DEF d
    <3>4. /\ hung \in TreeType /\ hung.color = tr.color /\ hung.parent = freed.parent
          /\ hung.root = tr.root
      BY <1>2, <1>8, <3>1, <3>2 DEF TreeType
    <3>5. \A k \in Key, q \in Side : hung.kid[k][q] = IF k = p /\ q = d THEN c ELSE tr.kid[k][q]
      BY <1>2, <1>8, <3>1, <3>2 DEF TreeType
    <3> QED
      BY <2>2, <3>3, <3>4, <3>5
  <2> QED
    BY <2>1, <2>2
<1> HIDE DEF hung
<1>10. /\ u \in TreeType /\ u.color = tr.color /\ u.root = hung.root
       /\ \A k \in Key : u.parent[k] = IF k = n THEN c ELSE IF k = c THEN p ELSE hung.parent[k]
       /\ \A k \in Key, q \in Side : u.kid[k][q] = IF k = n /\ q = o THEN i
                                                   ELSE IF k = c /\ q = s THEN n
                                                   ELSE hung.kid[k][q]
  <2>1. u \in TreeType /\ u.color = tr.color /\ u.root = hung.root
    BY <1>2, <1>4, <1>5, <1>9 DEF TreeType
  <2>2. \A k \in Key : u.parent[k] = IF k = n THEN c ELSE IF k = c THEN p ELSE hung.parent[k]
    BY <1>2, <1>4, <1>5, <1>9 DEF TreeType
  <2>3. \A k \in Key, q \in Side : u.kid[k][q] = IF k = n /\ q = o THEN i
                                                ELSE IF k = c /\ q = s THEN n
                                                ELSE hung.kid[k][q]
    BY <1>2, <1>4, <1>5, <1>9 DEF TreeType
  <2> QED
    BY <2>1, <2>2, <2>3
<1> HIDE DEF u
<1>11. \A k \in Key : u.parent[k] = IF k = n THEN c ELSE IF k = c THEN p
                                    ELSE IF k = i THEN n ELSE tr.parent[k]
  BY <1>8, <1>9, <1>10
<1>12. ASSUME NEW k \in Key, NEW q \in Side
       PROVE  u.kid[k][q] = IF k = n THEN (IF q = s THEN tr.kid[n][s] ELSE i)
                            ELSE IF k = c THEN (IF q = s THEN n ELSE tr.kid[c][o])
                            ELSE IF tr.kid[k][q] = n THEN c ELSE tr.kid[k][q]
  BY <1>2, <1>5, <1>9, <1>10
<1>13. u.root = IF p = Nil THEN c ELSE tr.root
  BY <1>9, <1>10
<1> QED
  BY <1>1, <1>10, <1>11, <1>12, <1>13 DEF c, i, p, o

-------------------------------------------------------------------------------
\* The node without a parent is the root, and the root has none.
LEMMA RootFacts ==
    ASSUME NEW tr, NEW e, Formed(tr, e), NEW n \in NodesOf(tr)
    PROVE  /\ tr.parent[n] = Nil <=> n = tr.root
           /\ tr.root \in Key /\ tr.root # Nil /\ tr.root \in NodesOf(tr) /\ tr.parent[tr.root] = Nil
           /\ e[tr.root]["left"] = 0 /\ e[tr.root]["right"] = Above
<1>1. tr.root # Nil
  BY DEF Formed
<1>2. tr.root \in Key
  BY <1>1, TypeFacts DEF Formed
<1> QED
  BY <1>1, <1>2 DEF Formed, NodesOf

\* The ends of the intervals after a rotation.
Turned(tr, e, n, s) ==
    [e EXCEPT ![tr.kid[n][Other(s)]] = e[n], ![n] = [e[n] EXCEPT ![Other(s)] = tr.kid[n][Other(s)]]]

\* A rotation keeps the nodes, their links and their order.
LEMMA RotatedFormed ==
    ASSUME NEW tr, NEW e, Formed(tr, e), NEW n \in NodesOf(tr), NEW s \in Side,
           tr.kid[n][Other(s)] # Nil
    PROVE  /\ Formed(Rotate(tr, n, s), Turned(tr, e, n, s))
           /\ NodesOf(Rotate(tr, n, s)) = NodesOf(tr)
<1> DEFINE o == Other(s)
           c == tr.kid[n][o]
           i == tr.kid[c][s]
           p == tr.parent[n]
           u == Rotate(tr, n, s)
           x == Turned(tr, e, n, s)
<1>1. /\ n \in Key /\ c \in Key /\ c \in NodesOf(tr) /\ c # n /\ c # p /\ n # p
      /\ i # n /\ i # c /\ (i # Nil => i \in Key /\ i \in NodesOf(tr) /\ i # p)
      /\ tr.parent[c] = n
      /\ \A k \in Key, q \in Side :
             /\ tr.kid[k][q] = n => k = p
             /\ tr.kid[k][q] = c => k = n /\ q = o
             /\ i # Nil /\ tr.kid[k][q] = i => k = c /\ q = s
  BY RotatedNodes
<1>2. /\ u \in TreeType
      /\ u.root = IF p = Nil THEN c ELSE tr.root
      /\ \A k \in Key : u.parent[k] = IF k = n THEN c ELSE IF k = c THEN p
                                      ELSE IF k = i THEN n ELSE tr.parent[k]
      /\ \A k \in Key, q \in Side : u.kid[k][q] =
             IF k = n THEN (IF q = s THEN tr.kid[n][s] ELSE i)
             ELSE IF k = c THEN (IF q = s THEN n ELSE tr.kid[c][o])
             ELSE IF tr.kid[k][q] = n THEN c ELSE tr.kid[k][q]
  BY Rotated
<1>3. /\ o \in Side /\ o # s /\ Other(o) = s
      /\ \A q \in Side : q = s \/ q = o
  BY Sides
<1>4. Nil \notin Key
  BY KeyFacts
<1>5. /\ tr \in TreeType /\ e \in [Key -> [Side -> Nat]]
      /\ \A k \in NodesOf(tr) : Inside(e[k], k)
      /\ \A k \in NodesOf(tr) : tr.parent[k] # Nil =>
             tr.parent[k] \in NodesOf(tr) /\ \E q \in Side : tr.kid[tr.parent[k]][q] = k
      /\ \A k \in NodesOf(tr), q \in Side : tr.kid[k][q] # Nil =>
             /\ tr.parent[tr.kid[k][q]] = k
             /\ e[tr.kid[k][q]][q] = e[k][q] /\ e[tr.kid[k][q]][Other(q)] = k
      /\ \A k \in Key \ NodesOf(tr), q \in Side : tr.kid[k][q] = Nil
  BY DEF Formed
<1>6. /\ p = Nil <=> n = tr.root
      /\ tr.root \in Key /\ tr.root # Nil /\ tr.root \in NodesOf(tr) /\ tr.parent[tr.root] = Nil
      /\ e[tr.root]["left"] = 0 /\ e[tr.root]["right"] = Above
  BY RootFacts
<1>7. \A k \in Key : k \in NodesOf(tr) <=> k = tr.root \/ tr.parent[k] # Nil
  BY DEF NodesOf
<1>8. NodesOf(tr) \subseteq Key /\ NodesOf(u) \subseteq Key
  BY DEF NodesOf
<1>9. \A k \in Key, q \in Side : tr.kid[k][q] \in Key \cup {Nil}
  BY <1>5, TypeFacts
<1>10. p \in Key \cup {Nil} /\ c # Nil /\ n # Nil
  BY <1>1, <1>4, <1>5, TypeFacts
<1>11. \A k \in Key : k \in NodesOf(u) <=> k = u.root \/ u.parent[k] # Nil
  BY DEF NodesOf
<1>12. n \in Nat /\ c \in Nat
  BY <1>1, KeyFacts
<1>13. x = [e EXCEPT ![c] = e[n], ![n] = [e[n] EXCEPT ![o] = c]]
  BY DEF Turned
<1> HIDE DEF c, i, p, u, x
<1>14. /\ x \in [Key -> [Side -> Nat]]
       /\ x[c] = e[n] /\ x[n][s] = e[n][s] /\ x[n][o] = c
       /\ \A k \in Key : k # n /\ k # c => x[k] = e[k]
  <2>1. e[n] \in [Side -> Nat]
    BY <1>1, <1>5
  <2>2. [e[n] EXCEPT ![o] = c] \in [Side -> Nat]
    BY <1>3, <1>12, <2>1
  <2> QED
    BY <1>1, <1>3, <1>5, <1>13, <2>1, <2>2
<1> HIDE DEF o
<1>15. NodesOf(u) = NodesOf(tr)
  <2>1. ASSUME NEW k \in Key PROVE k \in NodesOf(u) <=> k \in NodesOf(tr)
    BY <1>1, <1>2, <1>4, <1>6, <1>7, <1>10, <1>11
  <2> QED
    BY <1>8, <2>1
<1>16. u.root # Nil /\ u.parent[u.root] = Nil /\ x[u.root]["left"] = 0 /\ x[u.root]["right"] = Above
  <2>1. CASE p = Nil
    BY <1>1, <1>2, <1>6, <1>10, <1>14, <2>1
  <2>2. CASE p # Nil
    <3>1. tr.root # n /\ tr.root # c /\ tr.root # i
      BY <1>1, <1>4, <1>5, <1>6, <1>10, <2>2 DEF i
    <3> QED
      BY <1>2, <1>6, <1>14, <2>2, <3>1
  <2> QED
    BY <2>1, <2>2
<1>17. ASSUME NEW k \in NodesOf(tr) PROVE Inside(x[k], k)
  <2>1. Inside(e[c], c) /\ Inside(e[n], n) /\ e[c][o] = e[n][o] /\ e[c][s] = n
    BY <1>1, <1>3, <1>5, <1>10 DEF c, o
  <2>2. e[n] \in [Side -> Nat] /\ e[c] \in [Side -> Nat] /\ x[n] \in [Side -> Nat]
    BY <1>1, <1>5, <1>14
  <2>3. (s = "left" /\ o = "right") \/ (s = "right" /\ o = "left")
    BY Sides DEF o
  <2>4. Inside(x[n], n) /\ Inside(x[c], c)
    BY <1>12, <1>14, <2>1, <2>2, <2>3 DEF Inside, Side
  <2> QED
    BY <1>5, <1>8, <1>14, <2>4
<1>18. ASSUME NEW k \in NodesOf(tr), u.parent[k] # Nil
       PROVE  u.parent[k] \in NodesOf(tr) /\ \E q \in Side : u.kid[u.parent[k]][q] = k
  <2> k \in Key
    BY <1>8
  <2>1. CASE k = n
    BY <1>1, <1>2, <2>1
  <2>2. CASE k = c
    <3>1. u.parent[k] = p /\ p # Nil
      BY <1>1, <1>2, <1>18, <2>2
    <3>2. p \in NodesOf(tr) /\ \E q \in Side : tr.kid[p][q] = n
      BY <1>5, <3>1 DEF p
    <3> QED
      BY <1>1, <1>2, <1>8, <2>2, <3>1, <3>2
  <2>3. CASE k = i
    <3>1. u.parent[k] = n /\ u.kid[n][o] = i
      BY <1>1, <1>2, <1>3, <2>3
    <3> QED
      BY <1>3, <2>3, <3>1
  <2>4. CASE k # n /\ k # c /\ k # i
    <3>1. u.parent[k] = tr.parent[k]
      BY <1>2, <2>4
    <3>2. tr.parent[k] \in NodesOf(tr) /\ tr.parent[k] \in Key
      BY <1>5, <1>8, <1>18, <3>1
    <3>3. PICK q \in Side : tr.kid[tr.parent[k]][q] = k
      BY <1>5, <1>18, <3>1
    <3>4. tr.parent[k] = n => q = s
      BY <1>3, <2>4, <3>3 DEF c
    <3>5. tr.parent[k] = c => q = o
      BY <1>3, <2>4, <3>3 DEF i
    <3>6. u.kid[tr.parent[k]][q] = k
      BY <1>1, <1>2, <1>3, <2>4, <3>2, <3>3, <3>4, <3>5
    <3> QED
      BY <3>1, <3>2, <3>6
  <2> QED
    BY <2>1, <2>2, <2>3, <2>4
<1>19. ASSUME NEW k \in NodesOf(tr), NEW q \in Side, u.kid[k][q] # Nil
       PROVE  /\ u.parent[u.kid[k][q]] = k
              /\ x[u.kid[k][q]][q] = x[k][q] /\ x[u.kid[k][q]][Other(q)] = k
  <2> k \in Key
    BY <1>8
  <2>1. CASE k = n /\ q = s
    <3> DEFINE d == tr.kid[n][s]
    <3>1. u.kid[k][q] = d /\ d # Nil /\ d \in Key
      BY <1>2, <1>9, <1>19, <2>1
    <3>2. tr.parent[d] = n /\ e[d][s] = e[n][s] /\ e[d][o] = n
      BY <1>5, <2>1, <3>1 DEF o
    <3> HIDE DEF d
    <3>3. d # n /\ d # c /\ d # i
      BY <1>1, <1>3, <3>1, <3>2 DEF d
    <3>4. u.parent[d] = n /\ x[d] = e[d]
      BY <1>2, <1>14, <3>1, <3>2, <3>3
    <3> QED
      BY <1>14, <2>1, <3>1, <3>2, <3>4 DEF o
  <2>2. CASE k = n /\ q = o
    <3>1. u.kid[k][q] = i /\ i # Nil /\ i \in Key
      BY <1>1, <1>2, <1>3, <1>19, <2>2
    <3>2. e[i][s] = n /\ e[i][o] = c
      <4>1. e[i][s] = e[c][s] /\ e[i][o] = c
        BY <1>1, <1>5, <3>1 DEF i, o
      <4>2. e[c][s] = n
        BY <1>3, <1>5, <1>10 DEF c, o
      <4> QED
        BY <4>1, <4>2
    <3>3. u.parent[i] = n /\ x[i] = e[i]
      BY <1>1, <1>2, <1>14, <3>1
    <3> QED
      BY <1>3, <1>14, <2>2, <3>1, <3>2, <3>3
  <2>3. CASE k = c /\ q = s
    BY <1>1, <1>2, <1>14, <2>3 DEF o
  <2>4. CASE k = c /\ q = o
    <3> DEFINE d == tr.kid[c][o]
    <3>1. u.kid[k][q] = d /\ d # Nil /\ d \in Key
      BY <1>1, <1>2, <1>3, <1>9, <1>19, <2>4
    <3>2. tr.parent[d] = c /\ e[d][o] = e[c][o] /\ e[d][s] = c
      BY <1>1, <1>3, <1>5, <3>1
    <3>3. e[c][o] = e[n][o]
      BY <1>3, <1>5, <1>10 DEF c
    <3> HIDE DEF d
    <3>4. d # n /\ d # c /\ d # i
      BY <1>1, <1>3, <3>1, <3>2 DEF d
    <3>5. u.parent[d] = c /\ x[d] = e[d]
      BY <1>2, <1>14, <3>1, <3>2, <3>4
    <3> QED
      BY <1>3, <1>14, <2>4, <3>1, <3>2, <3>3, <3>5
  <2>5. CASE k # n /\ k # c /\ tr.kid[k][q] = n
    <3>1. u.kid[k][q] = c /\ k = p
      BY <1>1, <1>2, <2>5
    <3>2. e[n][q] = e[k][q] /\ e[n][Other(q)] = k
      BY <1>5, <1>10, <2>5
    <3> QED
      BY <1>1, <1>2, <1>14, <2>5, <3>1, <3>2
  <2>6. CASE k # n /\ k # c /\ tr.kid[k][q] # n
    <3> DEFINE d == tr.kid[k][q]
    <3>1. u.kid[k][q] = d /\ d # Nil /\ d \in Key
      BY <1>2, <1>9, <1>19, <2>6
    <3>2. tr.parent[d] = k /\ e[d][q] = e[k][q] /\ e[d][Other(q)] = k
      BY <1>5, <3>1
    <3>3. d # n /\ d # c /\ d # i
      BY <1>1, <2>6, <3>1
    <3> HIDE DEF d
    <3>4. u.parent[d] = k /\ x[d] = e[d] /\ x[k] = e[k]
      BY <1>2, <1>14, <2>6, <3>1, <3>2, <3>3
    <3> QED
      BY <3>1, <3>2, <3>4
  <2> QED
    BY <1>3, <2>1, <2>2, <2>3, <2>4, <2>5, <2>6
<1>20. ASSUME NEW k \in Key \ NodesOf(tr), NEW q \in Side PROVE u.kid[k][q] = Nil
  BY <1>1, <1>2, <1>5, <1>10
<1>21. Formed(u, x)
  BY <1>2, <1>14, <1>15, <1>16, <1>17, <1>18, <1>19, <1>20 DEF Formed
<1> QED
  BY <1>15, <1>21 DEF u, x

-------------------------------------------------------------------------------
(* LAB-5: the black heights and the rule of the red nodes.                  *)

Blk(tr, k) == IF tr.color[k] = "Black" THEN 1 ELSE 0

HeightOf(bh, k) == IF k = Nil THEN 0 ELSE bh[k]

\* bh[n] black nodes are on every path from node n down.
Balanced(tr, bh) ==
    /\ bh \in [Key -> Nat]
    /\ \A n \in NodesOf(tr), s \in Side : bh[n] = HeightOf(bh, tr.kid[n][s]) + Blk(tr, n)

\* A red node has a black parent, but for the one that the repair has come to.
RedRule(tr, nd) ==
    /\ \A n \in NodesOf(tr) \ {nd} :
           tr.color[n] = "Red" => tr.parent[n] # Nil /\ tr.color[tr.parent[n]] = "Black"
    /\ nd # Nil => nd \in NodesOf(tr) /\ tr.color[nd] = "Red"

\* New colors leave the links as they are.
LEMMA ColorsFormed ==
    ASSUME NEW tr, NEW e, Formed(tr, e), NEW u \in TreeType,
           u.root = tr.root, u.parent = tr.parent, u.kid = tr.kid
    PROVE  Formed(u, e) /\ NodesOf(u) = NodesOf(tr)
<1>1. NodesOf(u) = NodesOf(tr)
  BY DEF NodesOf
<1> QED
  BY <1>1 DEF Formed

\* bh are the black heights that the nodes have once n is rotated towards s.
Weighed(tr, n, s, bh) ==
    LET c == tr.kid[n][Other(s)]
        i == tr.kid[c][s]
    IN  /\ bh[n] = HeightOf(bh, tr.kid[n][s]) + Blk(tr, n)
        /\ bh[n] = HeightOf(bh, i) + Blk(tr, n)
        /\ bh[c] = bh[n] + Blk(tr, c)
        /\ bh[c] = HeightOf(bh, tr.kid[c][Other(s)]) + Blk(tr, c)
        /\ \A k \in NodesOf(tr) \ {n, c}, q \in Side :
               bh[k] = Blk(tr, k) + IF tr.kid[k][q] = n THEN bh[c]
                                   ELSE HeightOf(bh, tr.kid[k][q])

\* The heights after a rotation.
LEMMA RotatedBalanced ==
    ASSUME NEW tr, NEW e, Formed(tr, e), NEW n \in NodesOf(tr), NEW s \in Side,
           tr.kid[n][Other(s)] # Nil, NEW bh \in [Key -> Nat],
           Weighed(tr, n, s, bh)
    PROVE  Balanced(Rotate(tr, n, s), bh)
<1> DEFINE o == Other(s)
           c == tr.kid[n][o]
           i == tr.kid[c][s]
           u == Rotate(tr, n, s)
<1>1. /\ n \in Key /\ c \in Key /\ c # n /\ n \in NodesOf(tr) /\ c \in NodesOf(tr)
  BY RotatedNodes
<1>2. /\ u.color = tr.color
      /\ \A k \in Key, q \in Side : u.kid[k][q] =
             IF k = n THEN (IF q = s THEN tr.kid[n][s] ELSE i)
             ELSE IF k = c THEN (IF q = s THEN n ELSE tr.kid[c][o])
             ELSE IF tr.kid[k][q] = n THEN c ELSE tr.kid[k][q]
  BY Rotated
<1>3. NodesOf(u) = NodesOf(tr)
  BY RotatedFormed
<1>4. /\ bh[n] = HeightOf(bh, tr.kid[n][s]) + Blk(tr, n)
      /\ bh[n] = HeightOf(bh, i) + Blk(tr, n)
      /\ bh[c] = bh[n] + Blk(tr, c)
      /\ bh[c] = HeightOf(bh, tr.kid[c][o]) + Blk(tr, c)
      /\ \A k \in NodesOf(tr) \ {n, c}, q \in Side :
             bh[k] = Blk(tr, k) + IF tr.kid[k][q] = n THEN bh[c] ELSE HeightOf(bh, tr.kid[k][q])
  BY DEF Weighed
<1>5. \A k : Blk(u, k) = Blk(tr, k) /\ Blk(tr, k) \in Nat
  BY <1>2 DEF Blk
<1>6. n # Nil /\ c # Nil /\ NodesOf(tr) \subseteq Key
  BY <1>1, KeyFacts DEF NodesOf
<1> HIDE DEF c, i, u
<1>7. ASSUME NEW k \in NodesOf(tr), NEW q \in Side
      PROVE  bh[k] = HeightOf(bh, u.kid[k][q]) + Blk(u, k)
  <2>1. CASE k = n
    BY <1>1, <1>2, <1>4, <1>5, <2>1
  <2>2. CASE k = c
    <3>1. HeightOf(bh, n) = bh[n]
      BY <1>6 DEF HeightOf
    <3> QED
      BY <1>1, <1>2, <1>4, <1>5, <2>2, <3>1
  <2>3. CASE k # n /\ k # c
    <3>1. u.kid[k][q] = IF tr.kid[k][q] = n THEN c ELSE tr.kid[k][q]
      BY <1>2, <1>6, <2>3
    <3>2. bh[k] = Blk(tr, k) + IF tr.kid[k][q] = n THEN bh[c] ELSE HeightOf(bh, tr.kid[k][q])
      BY <1>4, <2>3
    <3>3. bh[k] = Blk(tr, k) + HeightOf(bh, u.kid[k][q])
      BY <1>6, <3>1, <3>2 DEF HeightOf
    <3>4. HeightOf(bh, u.kid[k][q]) \in Nat
      <4>1. u.kid[k][q] \in Key \cup {Nil}
        BY <1>6, Rotated, TypeFacts DEF u
      <4> QED
        BY <4>1 DEF HeightOf
    <3> QED
      BY <1>5, <3>3, <3>4
  <2> QED
    BY <2>1, <2>2, <2>3
<1>8. Balanced(u, bh)
  BY <1>3, <1>7 DEF Balanced
<1> QED
  BY <1>8 DEF u

\* What a balanced tree's heights are.
LEMMA HeightFacts ==
    ASSUME NEW tr, NEW e, Formed(tr, e), NEW bh, Balanced(tr, bh), NEW n \in NodesOf(tr), NEW s \in Side
    PROVE  /\ bh[n] = HeightOf(bh, tr.kid[n][s]) + Blk(tr, n)
           /\ HeightOf(bh, tr.kid[n][s]) \in Nat /\ Blk(tr, n) \in {0, 1} /\ bh[n] \in Nat
           /\ tr.color[n] = "Red" => Blk(tr, n) = 0
           /\ tr.color[n] = "Black" => Blk(tr, n) = 1
<1>1. tr.kid[n][s] \in Key \cup {Nil} /\ n \in Key
  BY TypeFacts DEF Formed, NodesOf
<1> QED
  BY <1>1 DEF Balanced, HeightOf, Blk

-------------------------------------------------------------------------------
(* LAB-5: the rounds of the repair.                                         *)

\* A red node under a red parent has a black grandparent.
LEMMA PairFacts ==
    ASSUME NEW e, Formed(tree, e), RedRule(tree, node), node # Nil, RedPair
    PROVE  LET s == SideOf(tree, Parent)
           IN  /\ node \in NodesOf(tree) /\ tree.color[node] = "Red" /\ tree.parent[node] = Parent
               /\ Parent \in NodesOf(tree) /\ Parent # node /\ tree.color[Parent] = "Red"
               /\ tree.parent[Parent] = Grandparent
               /\ Grandparent \in NodesOf(tree) /\ Grandparent # Parent /\ Grandparent # node
               /\ tree.color[Grandparent] = "Black"
               /\ s \in Side /\ tree.kid[Grandparent][s] = Parent
               /\ tree.kid[Grandparent][Other(s)] = Uncle /\ Uncle # Parent
               /\ Uncle \in NodesOf(tree) \cup {Nil}
               /\ node \in {tree.kid[Parent][q] : q \in Side}
<1> DEFINE p == Parent
           g == Grandparent
           s == SideOf(tree, p)
<1>1. node \in NodesOf(tree) /\ tree.color[node] = "Red"
  BY DEF RedRule
<1>2. p = tree.parent[node] /\ p # Nil /\ tree.color[p] = "Red"
  <2>1. ColorOf(tree, p) = "Red"
    BY DEF RedPair, Parent
  <2> QED
    BY <2>1 DEF ColorOf, Parent
<1>3. p \in NodesOf(tree) /\ p # node /\ \E q \in Side : tree.kid[p][q] = node
  BY <1>1, <1>2, ParentFacts
<1>4. g = tree.parent[p] /\ g # Nil /\ tree.color[g] = "Black"
  BY <1>2, <1>3 DEF RedRule, Grandparent
<1>5. g \in NodesOf(tree) /\ g # p /\ s \in Side /\ tree.kid[g][s] = p /\ tree.kid[g][Other(s)] # p
  BY <1>3, <1>4, ParentFacts
<1>6. g # node
  BY <1>1, <1>4
<1>7. Uncle = tree.kid[g][Other(s)]
  BY DEF Uncle
<1>8. Uncle \in NodesOf(tree) \cup {Nil}
  BY <1>5, <1>7, Sides, ChildFacts
<1> QED
  BY <1>1, <1>2, <1>3, <1>4, <1>5, <1>6, <1>7, <1>8

\* A red uncle: the heights of both children of the grandparent grow by one.
LEMMA RecolorKeeps ==
    ASSUME NEW e, NEW bh, Formed(tree, e), Balanced(tree, bh), RedRule(tree, node), Recolor
    PROVE  /\ NodesOf(tree') = NodesOf(tree) /\ Formed(tree', e)
           /\ (\E b : Balanced(tree', b)) /\ RedRule(tree', node')
<1> DEFINE p == Parent
           g == Grandparent
           s == SideOf(tree, p)
           u == Uncle
           tr == tree'
           b == [bh EXCEPT ![p] = bh[p] + 1, ![u] = bh[u] + 1]
<1>1. node # Nil /\ RedPair /\ ColorOf(tree, u) = "Red" /\ node' = g
      /\ tr = [tree EXCEPT !.color[p] = "Black", !.color[u] = "Black", !.color[g] = "Red"]
  BY DEF Recolor, Recolored
<1>2. /\ node \in NodesOf(tree) /\ tree.color[node] = "Red" /\ tree.parent[node] = p
      /\ p \in NodesOf(tree) /\ p # node /\ tree.color[p] = "Red"
      /\ tree.parent[p] = g
      /\ g \in NodesOf(tree) /\ g # p /\ g # node
      /\ tree.color[g] = "Black"
      /\ s \in Side /\ tree.kid[g][s] = p
      /\ tree.kid[g][Other(s)] = u /\ u # p
      /\ u \in NodesOf(tree) \cup {Nil}
  BY <1>1, PairFacts
<1>3. u # Nil /\ u \in NodesOf(tree) /\ tree.color[u] = "Red" /\ u # g
  BY <1>1, <1>2 DEF ColorOf
<1>4. tree \in TreeType /\ bh \in [Key -> Nat] /\ NodesOf(tree) \subseteq Key
  BY DEF Formed, Balanced, NodesOf
<1>5. tree.parent[u] = g /\ Other(s) \in Side
  BY <1>2, <1>3, Sides, ChildFacts
<1> HIDE DEF p, g, s, u
<1>6. /\ tr \in TreeType /\ tr.root = tree.root /\ tr.parent = tree.parent /\ tr.kid = tree.kid
      /\ \A k \in Key : tr.color[k] = IF k = g THEN "Red" ELSE IF k = u \/ k = p THEN "Black"
                                     ELSE tree.color[k]
  BY <1>1, <1>2, <1>3, <1>4 DEF TreeType
<1> HIDE DEF tr
<1>7. Formed(tr, e) /\ NodesOf(tr) = NodesOf(tree)
  BY <1>6, ColorsFormed
<1>8. /\ b \in [Key -> Nat] /\ b[p] = bh[p] + 1 /\ b[u] = bh[u] + 1
      /\ \A k \in Key \ {p, u} : b[k] = bh[k]
  BY <1>2, <1>3, <1>4
<1> HIDE DEF b
<1>9. ASSUME NEW k \in NodesOf(tree), NEW q \in Side
      PROVE  b[k] = HeightOf(b, tr.kid[k][q]) + Blk(tr, k)
  <2> DEFINE h == tree.kid[k][q]
  <2>1. /\ bh[k] = HeightOf(bh, h) + Blk(tree, k)
        /\ HeightOf(bh, h) \in Nat /\ Blk(tree, k) \in {0, 1} /\ bh[k] \in Nat
        /\ (tree.color[k] = "Red" => Blk(tree, k) = 0)
        /\ (tree.color[k] = "Black" => Blk(tree, k) = 1)
    BY HeightFacts
  <2>2. tr.kid[k][q] = h /\ k \in Key
    BY <1>4, <1>6
  <2>3. h # Nil => h \in Key /\ tree.parent[h] = k /\ h # k
    BY ChildFacts
  <2>4. CASE k = g
    <3>1. h = p \/ h = u
      BY <1>2, <2>4, Sides
    <3>2. HeightOf(b, h) = HeightOf(bh, h) + 1
      BY <1>3, <1>8, <2>3, <3>1, KeyFacts, <1>2, <1>4 DEF HeightOf
    <3>3. Blk(tr, k) = 0 /\ Blk(tree, k) = 1 /\ b[k] = bh[k]
      BY <1>2, <1>3, <1>6, <1>8, <2>1, <2>2, <2>4 DEF Blk
    <3> QED
      BY <2>1, <2>2, <3>2, <3>3
  <2>5. CASE k # g
    <3>1. h # Nil => h # p /\ h # u
      BY <1>2, <1>5, <2>3, <2>5
    <3>2. HeightOf(b, h) = HeightOf(bh, h)
      BY <1>8, <2>3, <3>1 DEF HeightOf
    <3>3. CASE k = p \/ k = u
      <4>1. b[k] = bh[k] + 1 /\ Blk(tr, k) = 1 /\ Blk(tree, k) = 0
        BY <1>2, <1>3, <1>6, <1>8, <2>1, <2>2, <2>5, <3>3 DEF Blk
      <4> QED
        BY <2>1, <2>2, <3>2, <4>1
    <3>4. CASE k # p /\ k # u
      <4>1. b[k] = bh[k] /\ Blk(tr, k) = Blk(tree, k)
        BY <1>6, <1>8, <2>2, <2>5, <3>4 DEF Blk
      <4> QED
        BY <2>1, <2>2, <3>2, <4>1
    <3> QED
      BY <3>3, <3>4
  <2> QED
    BY <2>4, <2>5
<1>10. Balanced(tr, b)
  BY <1>7, <1>8, <1>9 DEF Balanced
<1>11. ASSUME NEW k \in NodesOf(tree) \ {g}, tr.color[k] = "Red"
       PROVE  tr.parent[k] # Nil /\ tr.color[tr.parent[k]] = "Black"
  <2>1. k \in Key /\ k # p /\ k # u /\ tree.color[k] = "Red"
    BY <1>4, <1>6, <1>11
  <2>2. CASE k = node
    BY <1>2, <1>4, <1>6, <2>2, KeyFacts
  <2>3. CASE k # node
    <3>1. tree.parent[k] # Nil /\ tree.color[tree.parent[k]] = "Black"
      BY <2>1, <2>3 DEF RedRule
    <3>2. tree.parent[k] \in NodesOf(tree) /\ \E q \in Side : tree.kid[tree.parent[k]][q] = k
      BY <3>1, ParentFacts
    <3>3. tree.parent[k] # g
      BY <1>2, <2>1, <3>2, Sides
    <3> QED
      BY <1>4, <1>6, <3>1, <3>2, <3>3
  <2> QED
    BY <2>2, <2>3
<1>12. RedRule(tr, g)
  BY <1>2, <1>4, <1>6, <1>7, <1>11 DEF RedRule
<1> QED
  BY <1>1, <1>7, <1>10, <1>12 DEF tr, g

\* No red pair: the root, if it was red, makes every path longer by one.
LEMMA RepairedKeeps ==
    ASSUME NEW e, NEW bh, Formed(tree, e), Balanced(tree, bh), RedRule(tree, node), Repaired
    PROVE  /\ NodesOf(tree') = NodesOf(tree) /\ Formed(tree', e)
           /\ (\E b : Balanced(tree', b)) /\ RedRule(tree', node')
           /\ node' = Nil /\ tree'.color[tree'.root] = "Black"
<1> DEFINE r == tree.root
           tr == tree'
           b == IF tree.color[r] = "Black" THEN bh ELSE [bh EXCEPT ![r] = bh[r] + 1]
<1>1. node # Nil /\ ~RedPair /\ node' = Nil /\ tr = [tree EXCEPT !.color[r] = "Black"]
  BY DEF Repaired
<1>2. node \in NodesOf(tree)
  BY <1>1 DEF RedRule
<1>3. r \in Key /\ r # Nil /\ r \in NodesOf(tree) /\ tree.parent[r] = Nil
  BY <1>2, RootFacts
<1>4. tree \in TreeType /\ bh \in [Key -> Nat] /\ NodesOf(tree) \subseteq Key
  BY DEF Formed, Balanced, NodesOf
<1> HIDE DEF r
<1>5. /\ tr \in TreeType /\ tr.root = tree.root /\ tr.parent = tree.parent /\ tr.kid = tree.kid
      /\ \A k \in Key : tr.color[k] = IF k = r THEN "Black" ELSE tree.color[k]
  BY <1>1, <1>3, <1>4 DEF TreeType
<1> HIDE DEF tr
<1>6. Formed(tr, e) /\ NodesOf(tr) = NodesOf(tree)
  BY <1>5, ColorsFormed
<1>7. /\ b \in [Key -> Nat] /\ \A k \in Key \ {r} : b[k] = bh[k]
      /\ b[r] = bh[r] + IF tree.color[r] = "Black" THEN 0 ELSE 1
  BY <1>3, <1>4
<1> HIDE DEF b
<1>8. ASSUME NEW k \in NodesOf(tree), NEW q \in Side
      PROVE  b[k] = HeightOf(b, tr.kid[k][q]) + Blk(tr, k)
  <2> DEFINE h == tree.kid[k][q]
  <2>1. /\ bh[k] = HeightOf(bh, h) + Blk(tree, k)
        /\ HeightOf(bh, h) \in Nat /\ Blk(tree, k) \in {0, 1} /\ bh[k] \in Nat
    BY HeightFacts
  <2>2. tr.kid[k][q] = h /\ k \in Key
    BY <1>4, <1>5
  <2>3. h # Nil => h \in Key /\ tree.parent[h] = k
    BY ChildFacts
  <2>4. h # r
    BY <1>3, <1>4, <2>3, KeyFacts
  <2>5. HeightOf(b, h) = HeightOf(bh, h)
    BY <1>7, <2>3, <2>4 DEF HeightOf
  <2>6. b[k] - bh[k] = Blk(tr, k) - Blk(tree, k)
    BY <1>4, <1>5, <1>7, <2>1, <2>2 DEF Blk
  <2>7. b[k] \in Nat /\ Blk(tr, k) \in {0, 1}
    BY <1>7, <2>2 DEF Blk
  <2> QED
    BY <2>1, <2>2, <2>5, <2>6, <2>7
<1>9. Balanced(tr, b)
  BY <1>6, <1>7, <1>8 DEF Balanced
<1>10. ASSUME NEW k \in NodesOf(tree), tr.color[k] = "Red"
       PROVE  tr.parent[k] # Nil /\ tr.color[tr.parent[k]] = "Black"
  <2>1. k \in Key /\ k # r /\ tree.color[k] = "Red"
    BY <1>4, <1>5, <1>10
  <2>2. tree.parent[k] # Nil
    BY <2>1, RootFacts DEF r
  <2>3. tree.color[tree.parent[k]] = "Black"
    <3>1. CASE k = node
      <4>1. ColorOf(tree, tree.parent[k]) # "Red"
        BY <1>1, <2>1, <3>1 DEF RedPair, r
      <4>2. tree.parent[k] \in Key
        BY <2>1, <2>2, <1>4, TypeFacts
      <4>3. tree.color[tree.parent[k]] \in {"Red", "Black"}
        BY <1>4, <4>2, TypeFacts
      <4> QED
        BY <2>2, <4>1, <4>3 DEF ColorOf
    <3>2. CASE k # node
      BY <2>1, <3>2 DEF RedRule
    <3> QED
      BY <3>1, <3>2
  <2>4. tree.parent[k] \in Key
    BY <2>1, <2>2, <1>4, TypeFacts
  <2> QED
    BY <1>5, <2>2, <2>3, <2>4
<1>11. RedRule(tr, Nil)
  BY <1>6, <1>10 DEF RedRule
<1>12. tr.color[tr.root] = "Black"
  BY <1>3, <1>5 DEF r
<1> QED
  BY <1>1, <1>6, <1>9, <1>11, <1>12 DEF tr

-------------------------------------------------------------------------------
\* Once the red pair is on the outer side, two red nodes n and p under a black g:
\* the tree st is as sound as the one before.
LEMMA StraightenedFacts ==
    ASSUME NEW e, NEW bh, Formed(tree, e), Balanced(tree, bh), RedRule(tree, node),
           node # Nil, RedPair, ColorOf(tree, Uncle) = "Black"
    PROVE  LET s  == SideOf(tree, Parent)
               st == Straightened(s)[1]
               n  == Straightened(s)[2]
               p  == st.parent[n]
               g  == st.parent[p]
           IN  /\ NodesOf(st) = NodesOf(tree) /\ \E x : Formed(st, x)
               /\ Balanced(st, bh) /\ RedRule(st, n)
               /\ n \in NodesOf(st) /\ p \in NodesOf(st) /\ g \in NodesOf(st)
               /\ n # p /\ n # g /\ p # g /\ s \in Side
               /\ st.color[n] = "Red" /\ st.color[p] = "Red" /\ st.color[g] = "Black"
               /\ st.kid[p][s] = n /\ st.kid[g][s] = p
               /\ ColorOf(st, st.kid[g][Other(s)]) = "Black"
<1> DEFINE s  == SideOf(tree, Parent)
           o  == Other(s)
           pp == Parent
           gg == Grandparent
           st == Straightened(s)[1]
           n  == Straightened(s)[2]
           p  == st.parent[n]
           g  == st.parent[p]
<1>1. /\ node \in NodesOf(tree) /\ tree.color[node] = "Red" /\ tree.parent[node] = pp
      /\ pp \in NodesOf(tree) /\ pp # node /\ tree.color[pp] = "Red"
      /\ tree.parent[pp] = gg
      /\ gg \in NodesOf(tree) /\ gg # pp /\ gg # node
      /\ tree.color[gg] = "Black"
      /\ s \in Side /\ tree.kid[gg][s] = pp
      /\ tree.kid[gg][o] = Uncle /\ Uncle # pp
      /\ Uncle \in NodesOf(tree) \cup {Nil}
      /\ node \in {tree.kid[pp][q] : q \in Side}
  BY PairFacts
<1>2. tree \in TreeType /\ bh \in [Key -> Nat] /\ NodesOf(tree) \subseteq Key
  BY DEF Formed, Balanced, NodesOf
<1>3. o \in Side /\ o # s /\ Other(o) = s /\ \A q \in Side : q = s \/ q = o
  BY <1>1, Sides
<1>4. Nil \notin Key
  BY KeyFacts
<1> HIDE DEF s, pp, gg
<1>5. CASE node # tree.kid[pp][o]
  <2>1. Straightened(s) = <<tree, node>>
    BY <1>5 DEF Straightened, pp, o
  <2>2. st = tree /\ n = node
    BY <2>1
  <2>3. p = pp /\ g = gg
    BY <1>1, <2>2
  <2>4. tree.kid[pp][s] = node
    BY <1>1, <1>3, <1>5
  <2>5. \E x : Formed(tree, x)
    OBVIOUS
  <2> HIDE DEF st, n, p, g
  <2>6. /\ NodesOf(st) = NodesOf(tree) /\ \E x : Formed(st, x)
        /\ Balanced(st, bh) /\ RedRule(st, n)
        /\ n \in NodesOf(st) /\ p \in NodesOf(st) /\ g \in NodesOf(st)
        /\ n # p /\ n # g /\ p # g /\ s \in Side
        /\ st.color[n] = "Red" /\ st.color[p] = "Red" /\ st.color[g] = "Black"
        /\ st.kid[p][s] = n /\ st.kid[g][s] = p
        /\ ColorOf(st, st.kid[g][o]) = "Black"
    BY <1>1, <2>2, <2>3, <2>4, <2>5
  <2> QED
    BY <2>6 DEF st, n, p, g, s, o
<1>6. CASE node = tree.kid[pp][o]
  <2> DEFINE i == tree.kid[node][s]
  <2>1. Straightened(s) = <<Rotate(tree, pp, s), pp>>
    BY <1>6 DEF Straightened, pp, o
  <2>2. st = Rotate(tree, pp, s) /\ n = pp
    BY <2>1
  <2>3. node # Nil
    OBVIOUS
  <2>4. Formed(st, Turned(tree, e, pp, s)) /\ NodesOf(st) = NodesOf(tree)
    BY <1>1, <1>6, <2>2, <2>3, RotatedFormed DEF o
  <2>5. /\ st \in TreeType /\ st.color = tree.color
        /\ \A k \in Key : st.parent[k] = IF k = pp THEN node
                                         ELSE IF k = node THEN tree.parent[pp]
                                         ELSE IF k = i THEN pp ELSE tree.parent[k]
        /\ \A k \in Key, q \in Side : st.kid[k][q] =
               IF k = pp THEN (IF q = s THEN tree.kid[pp][s] ELSE i)
               ELSE IF k = node THEN (IF q = s THEN pp ELSE tree.kid[node][o])
               ELSE IF tree.kid[k][q] = pp THEN node ELSE tree.kid[k][q]
    BY <1>1, <1>6, <2>2, <2>3, Rotated DEF o
  <2>6. p = node
    BY <1>1, <1>2, <2>2, <2>5
  <2>7. g = gg
    BY <1>1, <1>2, <2>5, <2>6
  <2>8. st.kid[node][s] = pp /\ st.kid[gg][s] = node /\ st.kid[gg][o] = Uncle
    BY <1>1, <1>2, <1>3, <2>5
  <2>9. Balanced(st, bh)
    <3>1. \A q \in Side : /\ bh[pp] = HeightOf(bh, tree.kid[pp][q])
                          /\ bh[node] = HeightOf(bh, tree.kid[node][q])
                          /\ bh[pp] \in Nat /\ bh[node] \in Nat
                          /\ Blk(tree, pp) = 0 /\ Blk(tree, node) = 0
      BY <1>1, <1>2, HeightFacts
    <3>2. HeightOf(bh, node) = bh[node]
      BY DEF HeightOf
    <3>3. bh[pp] = bh[node]
      BY <1>3, <1>6, <3>1, <3>2
    <3>4. \A k \in NodesOf(tree), q \in Side :
              /\ bh[k] = Blk(tree, k) + HeightOf(bh, tree.kid[k][q])
              /\ tree.kid[k][q] = pp => HeightOf(bh, tree.kid[k][q]) = bh[node]
      <4>1. ASSUME NEW k \in NodesOf(tree), NEW q \in Side
            PROVE  /\ bh[k] = Blk(tree, k) + HeightOf(bh, tree.kid[k][q])
                   /\ tree.kid[k][q] = pp => HeightOf(bh, tree.kid[k][q]) = bh[node]
        <5>1. bh[k] = HeightOf(bh, tree.kid[k][q]) + Blk(tree, k)
              /\ HeightOf(bh, tree.kid[k][q]) \in Nat /\ Blk(tree, k) \in {0, 1}
          BY HeightFacts
        <5>2. pp # Nil
          BY <1>1, <1>2, <1>4
        <5> QED
          BY <3>3, <5>1, <5>2 DEF HeightOf
      <4> QED
        BY <4>1
    <3>5. \A k \in NodesOf(tree) \ {pp, node}, q \in Side :
              bh[k] = Blk(tree, k) + IF tree.kid[k][q] = pp THEN bh[node]
                                     ELSE HeightOf(bh, tree.kid[k][q])
      BY <3>4
    <3>6. /\ bh[pp] = HeightOf(bh, tree.kid[pp][s]) + Blk(tree, pp)
          /\ bh[pp] = HeightOf(bh, i) + Blk(tree, pp)
          /\ bh[node] = bh[pp] + Blk(tree, node)
          /\ bh[node] = HeightOf(bh, tree.kid[node][o]) + Blk(tree, node)
      <4>1. bh[pp] = bh[pp] + 0 /\ bh[node] = bh[node] + 0
        BY <1>1, <3>1
      <4> QED
        BY <1>1, <1>3, <3>1, <3>3, <4>1
    <3>7. tree.kid[pp][Other(s)] = node
      BY <1>6 DEF o
    <3>8. Balanced(Rotate(tree, pp, s), bh)
      BY <1>1, <1>2, <3>5, <3>6, <3>7, RotatedBalanced DEF o, Weighed
    <3> QED
      BY <2>2, <3>8
  <2>10. ASSUME NEW k \in NodesOf(tree) \ {pp}, tree.color[k] = "Red"
         PROVE  st.parent[k] # Nil /\ tree.color[st.parent[k]] = "Black"
    <3>0. k \in Key
      BY <1>2
    <3>1. CASE k = node
      BY <1>1, <1>2, <1>4, <2>5, <3>1
    <3>2. CASE k # node
      <4>1. tree.parent[k] # Nil /\ tree.color[tree.parent[k]] = "Black"
        BY <2>10, <3>2 DEF RedRule
      <4>2. k # i
        <5>1. i # Nil => tree.parent[i] = node
          BY <1>1, ChildFacts
        <5>2. tree.color[node] # "Black" /\ k # Nil
          BY <1>1, <1>4, <3>0
        <5> QED
          BY <4>1, <5>1, <5>2
      <4> QED
        BY <2>5, <2>10, <3>0, <3>2, <4>1, <4>2
    <3> QED
      BY <3>1, <3>2
  <2>11. RedRule(st, pp)
    BY <1>1, <2>4, <2>5, <2>10 DEF RedRule
  <2>12. \E x : Formed(st, x)
    BY <2>4
  <2> HIDE DEF st, n, p, g
  <2>13. /\ NodesOf(st) = NodesOf(tree) /\ \E x : Formed(st, x)
         /\ Balanced(st, bh) /\ RedRule(st, n)
         /\ n \in NodesOf(st) /\ p \in NodesOf(st) /\ g \in NodesOf(st)
         /\ n # p /\ n # g /\ p # g /\ s \in Side
         /\ st.color[n] = "Red" /\ st.color[p] = "Red" /\ st.color[g] = "Black"
         /\ st.kid[p][s] = n /\ st.kid[g][s] = p
         /\ ColorOf(st, st.kid[g][o]) = "Black"
    BY <1>1, <2>2, <2>4, <2>5, <2>6, <2>7, <2>8, <2>9, <2>11, <2>12 DEF ColorOf
  <2> QED
    BY <2>13 DEF st, n, p, g, s, o
<1> QED
  BY <1>5, <1>6

\* A black uncle: the rotation of the grandparent makes the parent, now black, the
\* top of the subtree, with a red child on each side and the height it had.
LEMMA RestructureKeeps ==
    ASSUME NEW e, NEW bh, Formed(tree, e), Balanced(tree, bh), RedRule(tree, node), Restructure
    PROVE  /\ NodesOf(tree') = NodesOf(tree) /\ (\E x : Formed(tree', x))
           /\ (\E b : Balanced(tree', b)) /\ RedRule(tree', node')
<1> DEFINE s  == SideOf(tree, Parent)
           o  == Other(s)
           st == Straightened(s)[1]
           n  == Straightened(s)[2]
           p  == st.parent[n]
           g  == st.parent[p]
           v  == [st EXCEPT !.color[p] = "Black", !.color[g] = "Red"]
           i  == v.kid[p][o]
           b  == [bh EXCEPT ![p] = bh[g], ![g] = bh[g] - 1]
           u  == tree'
<1>1. /\ node # Nil /\ RedPair /\ ColorOf(tree, Uncle) = "Black"
      /\ u = Rotate(v, g, o) /\ node' = n
  BY DEF Restructure
<1>2. /\ NodesOf(st) = NodesOf(tree) /\ \E x : Formed(st, x)
      /\ Balanced(st, bh) /\ RedRule(st, n)
      /\ n \in NodesOf(st) /\ p \in NodesOf(st) /\ g \in NodesOf(st)
      /\ n # p /\ n # g /\ p # g /\ s \in Side
      /\ st.color[n] = "Red" /\ st.color[p] = "Red" /\ st.color[g] = "Black"
      /\ st.kid[p][s] = n /\ st.kid[g][s] = p
      /\ ColorOf(st, st.kid[g][o]) = "Black"
  BY <1>1, StraightenedFacts
<1> PICK x : Formed(st, x)
  BY <1>2
<1>3. st \in TreeType /\ bh \in [Key -> Nat] /\ NodesOf(st) \subseteq Key
  BY <1>2 DEF Formed, Balanced, NodesOf
<1>4. o \in Side /\ o # s /\ Other(o) = s /\ \A q \in Side : q = s \/ q = o
  <2>1. s \in Side
    BY <1>2
  <2> HIDE DEF s, st, n, p, g, v, i, b, u
  <2> QED
    BY <2>1, Sides
<1>5. Nil \notin Key /\ p # Nil /\ n # Nil /\ g # Nil
  BY <1>2, <1>3, KeyFacts
<1>6. st.parent[n] = p /\ st.parent[p] = g
  OBVIOUS
<1> HIDE DEF s, st, n, p, g
<1>7. /\ v \in TreeType /\ v.root = st.root /\ v.parent = st.parent /\ v.kid = st.kid
      /\ \A k \in Key : v.color[k] = IF k = g THEN "Red" ELSE IF k = p THEN "Black" ELSE st.color[k]
  BY <1>2, <1>3 DEF TreeType
<1> HIDE DEF v
<1>8. Formed(v, x) /\ NodesOf(v) = NodesOf(st)
  BY <1>7, ColorsFormed
<1>9. v.kid[g][Other(o)] = p /\ p # Nil
  BY <1>2, <1>4, <1>5, <1>7
<1>10. Formed(u, Turned(v, x, g, o)) /\ NodesOf(u) = NodesOf(v)
  BY <1>1, <1>2, <1>4, <1>8, <1>9, RotatedFormed
<1>11. /\ u \in TreeType /\ u.color = v.color
       /\ \A k \in Key : u.parent[k] = IF k = g THEN p ELSE IF k = p THEN v.parent[g]
                                       ELSE IF k = i THEN g ELSE v.parent[k]
  BY <1>1, <1>2, <1>4, <1>8, <1>9, Rotated
<1>12. \A k \in NodesOf(st), q \in Side :
           /\ bh[k] = HeightOf(bh, st.kid[k][q]) + Blk(st, k)
           /\ HeightOf(bh, st.kid[k][q]) \in Nat /\ Blk(st, k) \in {0, 1} /\ bh[k] \in Nat
           /\ (st.color[k] = "Red" => Blk(st, k) = 0)
           /\ (st.color[k] = "Black" => Blk(st, k) = 1)
  BY <1>2, HeightFacts
<1>13. bh[p] = bh[n] /\ bh[g] = bh[p] + 1 /\ bh[p] \in Nat /\ bh[g] \in Nat
  BY <1>2, <1>5, <1>12 DEF HeightOf
<1>14. b \in [Key -> Nat] /\ b[p] = bh[g] /\ b[g] = bh[p] /\ \A k \in Key \ {p, g} : b[k] = bh[k]
  BY <1>2, <1>3, <1>13
<1> HIDE DEF b
<1>15. i \in Key \cup {Nil} /\ (i # Nil => i \in NodesOf(st) /\ st.parent[i] = p /\ i # n)
  <2>1. i = st.kid[p][o] /\ i \in Key \cup {Nil}
    BY <1>2, <1>3, <1>4, <1>7, TypeFacts
  <2>2. i # Nil => i \in NodesOf(st) /\ st.parent[i] = p
    BY <1>2, <1>4, <2>1, ChildFacts
  <2>3. i # n
    BY <1>2, <1>4, <1>5, <2>1, OneSide
  <2> QED
    BY <2>1, <2>2, <2>3
<1>16. Blk(v, g) = 0 /\ Blk(v, p) = 1 /\ \A k \in Key \ {p, g} : Blk(v, k) = Blk(st, k)
  BY <1>2, <1>3, <1>7 DEF Blk
<1>17. ASSUME NEW k \in NodesOf(st), NEW q \in Side, st.kid[k][q] # g, st.kid[k][q] # p
       PROVE  HeightOf(b, v.kid[k][q]) = HeightOf(bh, st.kid[k][q])
  <2>1. v.kid[k][q] = st.kid[k][q] /\ st.kid[k][q] \in Key \cup {Nil}
    BY <1>3, <1>7, TypeFacts
  <2> QED
    BY <1>14, <1>17, <2>1 DEF HeightOf
<1>18. \A k \in NodesOf(st), q \in Side :
           /\ st.kid[k][q] = g => k = st.parent[g]
           /\ st.kid[k][q] = p => k = g /\ q = s
  <2>1. \A k \in NodesOf(st), q \in Side : st.kid[k][q] # Nil => st.parent[st.kid[k][q]] = k
    BY ChildFacts
  <2>2. \A q \in Side : st.kid[g][q] = p <=> q = s
    BY <1>2, <1>5, OneSide
  <2> QED
    BY <1>5, <1>6, <2>1, <2>2
<1>19. st.parent[g] # p /\ st.parent[g] # g
  <2>1. st.parent[g] # Nil => \E q \in Side : st.kid[st.parent[g]][q] = g
    BY <1>2, ParentFacts
  <2>2. st.parent[g] # g
    BY <1>2, <1>5, ParentFacts
  <2>3. st.parent[g] # p
    <3> SUFFICES ASSUME st.parent[g] = p PROVE FALSE
      OBVIOUS
    <3>1. PICK q \in Side : st.kid[p][q] = g
      BY <1>5, <2>1
    <3>2. bh[p] = HeightOf(bh, g) + Blk(st, p)
      BY <1>2, <1>12, <3>1
    <3>3. bh[p] = bh[g] + 0
      BY <1>2, <1>5, <1>12, <3>2 DEF HeightOf
    <3> QED
      BY <1>13, <3>3
  <2> QED
    BY <2>2, <2>3
<1>20. Balanced(u, b)
  <2>1. b[g] = HeightOf(b, v.kid[g][o]) + Blk(v, g)
    <3>1. st.kid[g][o] # p /\ st.kid[g][o] # g
      BY <1>2, <1>4, <1>18, <1>19
    <3>2. bh[g] = HeightOf(bh, st.kid[g][o]) + 1 /\ HeightOf(bh, st.kid[g][o]) \in Nat
      BY <1>2, <1>4, <1>12
    <3> QED
      BY <1>2, <1>4, <1>13, <1>14, <1>16, <1>17, <3>1, <3>2
  <2>2. b[g] = HeightOf(b, i) + Blk(v, g)
    <3>1. st.kid[p][o] # p /\ st.kid[p][o] # g
      BY <1>2, <1>4, <1>18, <1>19
    <3>2. bh[p] = HeightOf(bh, st.kid[p][o]) + 0 /\ HeightOf(bh, st.kid[p][o]) \in Nat
      BY <1>2, <1>4, <1>12
    <3> QED
      BY <1>2, <1>4, <1>13, <1>14, <1>16, <1>17, <3>1, <3>2
  <2>3. b[p] = b[g] + Blk(v, p)
    BY <1>13, <1>14, <1>16
  <2>4. b[p] = HeightOf(b, v.kid[p][s]) + Blk(v, p)
    <3>1. HeightOf(b, v.kid[p][s]) = b[n] /\ b[n] = bh[n]
      BY <1>2, <1>3, <1>5, <1>7, <1>14 DEF HeightOf
    <3> QED
      BY <1>13, <1>14, <1>16, <3>1
  <2>5. \A k \in NodesOf(v) \ {g, p}, q \in Side :
            b[k] = Blk(v, k) + IF v.kid[k][q] = g THEN b[p] ELSE HeightOf(b, v.kid[k][q])
    <3>1. ASSUME NEW k \in NodesOf(st) \ {g, p}, NEW q \in Side
          PROVE  b[k] = Blk(v, k) + IF v.kid[k][q] = g THEN b[p] ELSE HeightOf(b, v.kid[k][q])
      <4>1. b[k] = bh[k] /\ Blk(v, k) = Blk(st, k) /\ v.kid[k][q] = st.kid[k][q]
        BY <1>3, <1>7, <1>14, <1>16
      <4>2. bh[k] = HeightOf(bh, st.kid[k][q]) + Blk(st, k)
            /\ HeightOf(bh, st.kid[k][q]) \in Nat /\ Blk(st, k) \in {0, 1}
        BY <1>12
      <4>3. CASE st.kid[k][q] = g
        <5>1. HeightOf(bh, st.kid[k][q]) = bh[g]
          BY <1>5, <4>3 DEF HeightOf
        <5> QED
          BY <1>14, <4>1, <4>2, <4>3, <5>1
      <4>4. CASE st.kid[k][q] # g
        <5>1. HeightOf(b, v.kid[k][q]) = HeightOf(bh, st.kid[k][q])
          BY <1>17, <1>18, <4>4
        <5> QED
          BY <4>1, <4>2, <4>4, <5>1
      <4> QED
        BY <4>3, <4>4
    <3> QED
      BY <1>8, <3>1
  <2>6. g \in NodesOf(v)
    BY <1>2, <1>8
  <2>7. Balanced(Rotate(v, g, o), b)
    BY <1>4, <1>8, <1>9, <1>14, <2>1, <2>2, <2>3, <2>4, <2>5, <2>6, RotatedBalanced DEF Weighed
  <2> QED
    BY <1>1, <2>7
<1>21. ASSUME NEW k \in NodesOf(st) \ {n}, v.color[k] = "Red"
       PROVE  u.parent[k] # Nil /\ v.color[u.parent[k]] = "Black"
  <2>0. k \in Key
    BY <1>3
  <2>1. k # p
    BY <1>2, <1>3, <1>7, <1>21
  <2>2. CASE k = g
    BY <1>2, <1>3, <1>5, <1>7, <1>11, <2>2
  <2>3. CASE k # g
    <3>1. st.color[k] = "Red"
      BY <1>7, <1>21, <2>0, <2>1, <2>3
    <3>2. st.parent[k] # Nil /\ st.color[st.parent[k]] = "Black"
      BY <1>2, <1>21, <3>1 DEF RedRule
    <3>3. k # i
      BY <1>2, <1>5, <1>15, <2>0, <3>2
    <3>4. st.parent[k] # g
      <4>1. SUFFICES ASSUME st.parent[k] = g PROVE FALSE
        OBVIOUS
      <4>2. PICK q \in Side : st.kid[g][q] = k
        BY <1>5, <4>1, ParentFacts
      <4>3. k = st.kid[g][o]
        BY <1>2, <1>4, <2>1, <4>2
      <4> QED
        BY <1>2, <1>5, <2>0, <3>1, <4>3 DEF ColorOf
    <3>5. u.parent[k] = st.parent[k]
      BY <1>7, <1>11, <2>0, <2>1, <2>3, <3>3
    <3>6. st.parent[k] \in Key
      BY <1>3, <2>0, <3>2, TypeFacts
    <3> QED
      BY <1>7, <3>2, <3>4, <3>5, <3>6
  <2> QED
    BY <2>2, <2>3
<1>22. RedRule(u, n)
  BY <1>2, <1>3, <1>7, <1>8, <1>10, <1>11, <1>21 DEF RedRule
<1> QED
  BY <1>1, <1>2, <1>8, <1>10, <1>20, <1>22 DEF u

-------------------------------------------------------------------------------
(* LAB-5: walks down the tree and up.                                       *)

\* A set of numbers that is not empty has a least element.
LEMMA LeastElement ==
    ASSUME NEW S \in SUBSET Nat, S # {}
    PROVE  \E n \in S : \A m \in S : n <= m
<1>1. PICK x \in S : \A y \in S : ~(<<y, x>> \in OpToRel(<, Nat))
  BY WFMin, NatLessThanWellFounded
<1>2. \A y \in S : ~(y < x)
  BY <1>1 DEF OpToRel
<1> QED
  BY <1>2

\* The keys are finitely many, so what is measured of each has a bound.
LEMMA MeasureBounded ==
    ASSUME NEW w \in [Key -> Nat]
    PROVE  \E b \in Nat : \A k \in Key : w[k] <= b
<1>1. PICK n \in Nat : ExistsSurjection(1 .. n, Key)
  BY RedBlackKeys, FS_NatSurjection
<1>2. PICK M \in [1 .. n -> Key] : \A k \in Key : \E j \in 1 .. n : M[j] = k
  BY <1>1 DEF ExistsSurjection, Surjection
<1> DEFINE bad == {j \in 0 .. n : \A b \in Nat : \E m \in 1 .. j : w[M[m]] > b}
<1>3. bad = {}
  <2> SUFFICES ASSUME bad # {} PROVE FALSE
    OBVIOUS
  <2>1. PICK j \in bad : \A m \in bad : j <= m
    <3>1. bad \in SUBSET Nat
      OBVIOUS
    <3> HIDE DEF bad
    <3> QED
      BY <3>1, LeastElement
  <2>2. j \in 0 .. n /\ \A b \in Nat : \E m \in 1 .. j : w[M[m]] > b
    OBVIOUS
  <2>3. j # 0
    <3>1. 0 \in Nat /\ ~ \E m \in 1 .. 0 : TRUE
      OBVIOUS
    <3> QED
      BY <2>2, <3>1
  <2>4. j - 1 \in 0 .. n /\ j - 1 \notin bad
    <3> HIDE DEF bad
    <3> QED
      BY <2>1, <2>2, <2>3
  <2>5. PICK b \in Nat : \A m \in 1 .. j - 1 : ~(w[M[m]] > b)
    BY <2>4
  <2> HIDE DEF bad
  <2>6. w[M[j]] \in Nat /\ \A m \in 1 .. j : w[M[m]] \in Nat
    BY <2>2, <2>3
  <2>7. PICK m \in 1 .. j : w[M[m]] > b + w[M[j]]
    <3>1. b + w[M[j]] \in Nat
      BY <2>6
    <3> QED
      BY <2>2, <3>1
  <2>8. m # j
    BY <2>6, <2>7
  <2>9. m \in 1 .. j - 1
    BY <2>2, <2>8
  <2> QED
    BY <2>5, <2>6, <2>7, <2>9
<1>4. n \in 0 .. n /\ n \notin bad
  <2> HIDE DEF bad
  <2> QED
    BY <1>3
<1>5. PICK b \in Nat : \A m \in 1 .. n : ~(w[M[m]] > b)
  BY <1>4
<1>6. \A k \in Key : w[k] <= b
  BY <1>2, <1>5
<1> QED
  BY <1>6

\* Above is above every key.
LEMMA AboveFacts ==
    ASSUME Key # {}
    PROVE  Above \in Nat /\ \A k \in Key : k < Above
<1> DEFINE w == [k \in Key |-> k]
           S == {h \in Nat : \A k \in Key : k < h}
<1>1. w \in [Key -> Nat] /\ \A k \in Key : w[k] = k /\ k \in Nat
  BY KeyFacts
<1> HIDE DEF w
<1>2. PICK b \in Nat : \A k \in Key : w[k] <= b
  BY <1>1, MeasureBounded
<1>3. b + 1 \in S
  BY <1>1, <1>2
<1>4. PICK h \in S : \A m \in S : h <= m
  <2>1. S \in SUBSET Nat
    OBVIOUS
  <2> HIDE DEF S
  <2> QED
    BY <1>3, <2>1, LeastElement
<1>5. h \in Nat /\ \A k \in Key : k < h
  OBVIOUS
<1>6. h # 0
  BY <1>1, <1>5
<1>7. h - 1 \in Nat /\ h - 1 \notin S
  <2> HIDE DEF S
  <2> QED
    BY <1>4, <1>5, <1>6
<1>8. PICK k \in Key : ~(k < h - 1)
  BY <1>7
<1>9. h = k + 1
  BY <1>1, <1>5, <1>8
<1>10. h \in {m + 1 : m \in Key} /\ \A m \in Key : m < h
  BY <1>5, <1>9
<1>11. Above \in {m + 1 : m \in Key} /\ \A m \in Key : m < Above
  BY <1>10 DEF Above
<1> QED
  BY <1>1, <1>11

Width(e, n) == e[n]["right"] - e[n]["left"]

\* The interval of a node is wide, and a child's is narrower.
LEMMA WidthFacts ==
    ASSUME NEW tr, NEW e, Formed(tr, e)
    PROVE  /\ \A n \in NodesOf(tr) : Width(e, n) \in Nat
           /\ \A n \in NodesOf(tr), s \in Side : tr.kid[n][s] # Nil =>
                  tr.kid[n][s] \in NodesOf(tr) /\ Width(e, tr.kid[n][s]) < Width(e, n)
           /\ \A n \in NodesOf(tr) : tr.parent[n] # Nil =>
                  tr.parent[n] \in NodesOf(tr) /\ Width(e, n) < Width(e, tr.parent[n])
<1>1. e \in [Key -> [Side -> Nat]] /\ NodesOf(tr) \subseteq Key
  BY DEF Formed, NodesOf
<1>2. \A n \in NodesOf(tr) : /\ n \in Nat /\ e[n]["left"] \in Nat /\ e[n]["right"] \in Nat
                            /\ e[n]["left"] < n /\ n < e[n]["right"]
  BY <1>1, KeyFacts DEF Formed, Inside, Side
<1>3. ASSUME NEW n \in NodesOf(tr), NEW s \in Side, tr.kid[n][s] # Nil
      PROVE  tr.kid[n][s] \in NodesOf(tr) /\ Width(e, tr.kid[n][s]) < Width(e, n)
  <2> DEFINE c == tr.kid[n][s]
  <2>1. c \in NodesOf(tr) /\ e[c][s] = e[n][s] /\ e[c][Other(s)] = n
    BY <1>3, ChildFacts
  <2> HIDE DEF c
  <2>2. CASE s = "left"
    <3>1. e[c]["left"] = e[n]["left"] /\ e[c]["right"] = n
      BY <2>1, <2>2 DEF Other
    <3> QED
      BY <1>2, <2>1, <3>1 DEF Width, c
  <2>3. CASE s = "right"
    <3>1. e[c]["right"] = e[n]["right"] /\ e[c]["left"] = n
      BY <2>1, <2>3 DEF Other
    <3> QED
      BY <1>2, <2>1, <3>1 DEF Width, c
  <2> QED
    BY <2>2, <2>3, Sides
<1>4. ASSUME NEW n \in NodesOf(tr), tr.parent[n] # Nil
      PROVE  tr.parent[n] \in NodesOf(tr) /\ Width(e, n) < Width(e, tr.parent[n])
  <2>1. tr.parent[n] \in NodesOf(tr) /\ \E s \in Side : tr.kid[tr.parent[n]][s] = n
    BY <1>4, ParentFacts
  <2>2. n # Nil
    BY <1>1, KeyFacts
  <2> QED
    BY <1>3, <2>1, <2>2
<1>5. \A n \in NodesOf(tr) : Width(e, n) \in Nat
  BY <1>2 DEF Width
<1> QED
  BY <1>3, <1>4, <1>5

\* What passes from the children to their parent holds of every node.
LEMMA FromTheLeaves ==
    ASSUME NEW tr, NEW e, Formed(tr, e), NEW S,
           \A n \in NodesOf(tr) :
               (\A s \in Side : tr.kid[n][s] # Nil => tr.kid[n][s] \in S) => n \in S
    PROVE  NodesOf(tr) \subseteq S
<1> DEFINE bad == {Width(e, n) : n \in NodesOf(tr) \ S}
<1> SUFFICES ASSUME bad # {} PROVE FALSE
  OBVIOUS
<1>1. PICK w \in bad : \A m \in bad : w <= m
  <2>1. bad \in SUBSET Nat
    BY WidthFacts
  <2> HIDE DEF bad
  <2> QED
    BY <2>1, LeastElement
<1>2. PICK n \in NodesOf(tr) \ S : w = Width(e, n)
  OBVIOUS
<1>3. PICK s \in Side : tr.kid[n][s] # Nil /\ tr.kid[n][s] \notin S
  BY <1>2
<1>4. Width(e, tr.kid[n][s]) \in bad
  BY <1>2, <1>3, WidthFacts
<1>5. Width(e, tr.kid[n][s]) < w /\ w \in Nat /\ Width(e, tr.kid[n][s]) \in Nat
  BY <1>2, <1>3, WidthFacts
<1> HIDE DEF bad
<1> QED
  BY <1>1, <1>4, <1>5

\* What passes from the root to the children holds of every node.
LEMMA FromTheRoot ==
    ASSUME NEW tr, NEW e, Formed(tr, e), NEW S,
           \A n \in NodesOf(tr) : (tr.parent[n] # Nil => tr.parent[n] \in S) => n \in S
    PROVE  NodesOf(tr) \subseteq S
<1> DEFINE w == [k \in Key |-> IF k \in NodesOf(tr) THEN Width(e, k) ELSE 0]
<1>1. w \in [Key -> Nat] /\ NodesOf(tr) \subseteq Key
  BY WidthFacts DEF NodesOf
<1>2. \A k \in NodesOf(tr) : w[k] = Width(e, k)
  BY <1>1
<1> HIDE DEF w
<1>3. PICK b \in Nat : \A k \in Key : w[k] <= b
  BY <1>1, MeasureBounded
<1> DEFINE bad == {b - w[n] : n \in NodesOf(tr) \ S}
<1> SUFFICES ASSUME bad # {} PROVE FALSE
  OBVIOUS
<1>4. PICK d \in bad : \A m \in bad : d <= m
  <2>1. bad \in SUBSET Nat
    BY <1>1, <1>3
  <2> HIDE DEF bad
  <2> QED
    BY <2>1, LeastElement
<1>5. PICK n \in NodesOf(tr) \ S : d = b - w[n]
  OBVIOUS
<1>6. tr.parent[n] # Nil /\ tr.parent[n] \notin S
  BY <1>5
<1>7. tr.parent[n] \in NodesOf(tr) /\ w[n] < w[tr.parent[n]]
  BY <1>2, <1>5, <1>6, WidthFacts
<1>8. b - w[tr.parent[n]] \in bad
  BY <1>6, <1>7
<1> HIDE DEF bad
<1>9. w[n] \in Nat /\ w[tr.parent[n]] \in Nat
  BY <1>1, <1>5, <1>7
<1> QED
  BY <1>4, <1>5, <1>7, <1>8, <1>9

\* The ends of the intervals stay below Above.
LEMMA EndsBelow ==
    ASSUME NEW tr, NEW e, Formed(tr, e), NEW n \in NodesOf(tr)
    PROVE  \A s \in Side : e[n][s] \in 0 .. Above
<1>1. e \in [Key -> [Side -> Nat]] /\ NodesOf(tr) \subseteq Key
  BY DEF Formed, NodesOf
<1>2. Above \in Nat /\ \A k \in Key : k < Above /\ k \in Nat
  BY <1>1, AboveFacts, KeyFacts
<1> DEFINE S == {m \in NodesOf(tr) : \A s \in Side : e[m][s] \in 0 .. Above}
<1>3. ASSUME NEW m \in NodesOf(tr), tr.parent[m] # Nil => tr.parent[m] \in S
      PROVE  m \in S
  <2>1. CASE tr.parent[m] = Nil
    <3>1. m = tr.root
      BY <2>1, RootFacts
    <3>2. e[m]["left"] = 0 /\ e[m]["right"] = Above
      BY <3>1, RootFacts
    <3> QED
      BY <1>2, <3>2 DEF Side
  <2>2. CASE tr.parent[m] # Nil
    <3> DEFINE p == tr.parent[m]
    <3>1. p \in NodesOf(tr) /\ \A s \in Side : e[p][s] \in 0 .. Above
      BY <1>3, <2>2
    <3>2. PICK s \in Side : tr.kid[p][s] = m
      BY <2>2, ParentFacts
    <3>3. e[m][s] = e[p][s] /\ e[m][Other(s)] = p
      <4>1. m # Nil
        BY <1>1, KeyFacts
      <4>2. tr.kid[p][s] # Nil
        BY <3>2, <4>1
      <4>3. e[tr.kid[p][s]][s] = e[p][s] /\ e[tr.kid[p][s]][Other(s)] = p
        BY <3>1, <4>2, ChildFacts
      <4> QED
        BY <3>2, <4>3
    <3>4. p \in 0 .. Above
      BY <1>1, <1>2, <3>1
    <3> HIDE DEF p
    <3>5. ASSUME NEW q \in Side PROVE e[m][q] \in 0 .. Above
      BY <3>1, <3>3, <3>4, Sides
    <3> QED
      BY <3>5
  <2> QED
    BY <2>1, <2>2
<1>4. NodesOf(tr) \subseteq S
  <2> HIDE DEF S
  <2> QED
    BY <1>3, FromTheRoot
<1> QED
  BY <1>4

-------------------------------------------------------------------------------
(* LAB-5: the search, and the link of a new node.                           *)

\* From a key that is not in P, nx leads to one of less weight.
Falls(P, nx, w) ==
    w \in [Key -> Nat] /\ \A k \in Key \ P : nx[k] \in Key /\ w[nx[k]] < w[k]

\* f tells where the walk from each key ends.
Walk(P, nx, f) == f = [k \in Key |-> IF k \in P THEN k ELSE f[nx[k]]]

\* A walk over the keys that comes down at each step has an end.
LEMMA WalkExists ==
    ASSUME NEW P, NEW nx, NEW w, Falls(P, nx, w)
    PROVE  \E f : Walk(P, nx, f)
<1> DEFINE low(h) == {k \in Key : w[k] <= h}
           Eq(h, f) == \A k \in low(h) : f[k] = IF k \in P THEN k ELSE f[nx[k]]
<1>0. w \in [Key -> Nat] /\ \A k \in Key \ P : nx[k] \in Key /\ w[nx[k]] < w[k]
  BY DEF Falls
<1>1. PICK b \in Nat : \A k \in Key : w[k] <= b
  BY <1>0, MeasureBounded
<1> DEFINE without == {h \in 0 .. b : ~ \E f : Eq(h, f)}
<1>2. without = {}
  <2> SUFFICES ASSUME without # {} PROVE FALSE
    OBVIOUS
  <2>1. PICK h \in without : \A m \in without : h <= m
    <3>1. without \in SUBSET Nat
      OBVIOUS
    <3> HIDE DEF without
    <3> QED
      BY <3>1, LeastElement
  <2>2. h \in 0 .. b /\ ~ \E f : Eq(h, f)
    BY <2>1
  <2>3. h > 0 => \E f : Eq(h - 1, f)
    <3>1. h > 0 => h - 1 \in 0 .. b /\ h - 1 \notin without
      <4> HIDE DEF without
      <4> QED
        BY <2>1, <2>2
    <3> QED
      BY <3>1
  <2> HIDE DEF without
  <2>4. PICK f : h > 0 => Eq(h - 1, f)
    BY <2>3
  <2> DEFINE g == [k \in Key |-> IF k \in P THEN k ELSE f[nx[k]]]
  <2>5. ASSUME NEW k \in low(h) PROVE g[k] = IF k \in P THEN k ELSE g[nx[k]]
    <3>1. CASE k \in P
      BY <3>1
    <3>2. CASE k \notin P
      <4> DEFINE m == nx[k]
      <4>1. m \in Key /\ w[m] < w[k] /\ w[k] <= h /\ w[k] \in Nat /\ w[m] \in Nat
        BY <1>0, <2>5, <3>2
      <4>2. m \in low(h - 1) /\ h > 0
        BY <2>2, <4>1
      <4> HIDE DEF m
      <4>3. f[m] = IF m \in P THEN m ELSE f[nx[m]]
        BY <2>4, <4>2
      <4>4. g[m] = f[m]
        BY <4>1, <4>3
      <4>5. g[k] = f[m]
        BY <3>2 DEF m
      <4> QED
        BY <3>2, <4>4, <4>5 DEF m
    <3> QED
      BY <3>1, <3>2
  <2>6. Eq(h, g)
    <3> HIDE DEF g
    <3> QED
      BY <2>5
  <2> HIDE DEF Eq, g
  <2> QED
    BY <2>2, <2>6
<1>3. b \in 0 .. b /\ b \notin without
  <2> HIDE DEF without
  <2> QED
    BY <1>2
<1>4. PICK f : Eq(b, f)
  BY <1>3
<1>5. \A k \in Key : f[k] = IF k \in P THEN k ELSE f[nx[k]]
  BY <1>0, <1>1, <1>4
<1> DEFINE g == [k \in Key |-> f[k]]
<1>6. ASSUME NEW k \in Key PROVE g[k] = IF k \in P THEN k ELSE g[nx[k]]
  BY <1>0, <1>5
<1>7. g = [k \in Key |-> g[k]]
  OBVIOUS
<1> HIDE DEF g
<1>8. Walk(P, nx, g)
  BY <1>6, <1>7 DEF Walk
<1> QED
  BY <1>8

\* The search for a key ends at its node, or at the only place where it fits.
LEMMA ReachedFacts ==
    ASSUME NEW e, Formed(tree, e), tree.root # Nil, NEW key \in Key
    PROVE  LET r == Reached(key)
           IN  /\ r \in NodesOf(tree) /\ Inside(e[r], key)
               /\ r = key \/ tree.kid[r][Toward(r, key)] = Nil
               /\ key \in NodesOf(tree) => r = key
<1> DEFINE nx == [n \in Key |-> tree.kid[n][Toward(n, key)]]
           P  == {n \in Key : n = key \/ nx[n] = Nil}
           w  == [n \in Key |-> IF n \in NodesOf(tree) THEN Width(e, n) ELSE 0]
           Eq(f) == Walk(P, nx, f)
<1>1. tree \in TreeType /\ NodesOf(tree) \subseteq Key
  BY DEF Formed, NodesOf
<1>2. \A n \in Key : Toward(n, key) \in Side /\ nx[n] = tree.kid[n][Toward(n, key)]
                     /\ nx[n] \in Key \cup {Nil}
  BY <1>1, TypeFacts DEF Toward, Side
<1>3. w \in [Key -> Nat] /\ \A n \in NodesOf(tree) : w[n] = Width(e, n)
  BY <1>1, WidthFacts
<1>4. ASSUME NEW n \in Key \ P PROVE nx[n] \in Key /\ w[nx[n]] < w[n]
  <2>1. nx[n] # Nil /\ n \in Key
    OBVIOUS
  <2>2. n \in NodesOf(tree)
    <3>1. \A k \in Key \ NodesOf(tree), s \in Side : tree.kid[k][s] = Nil
      BY DEF Formed
    <3> HIDE DEF nx
    <3> QED
      BY <1>2, <2>1, <3>1
  <2>3. nx[n] \in NodesOf(tree) /\ Width(e, nx[n]) < Width(e, n)
    <3> HIDE DEF nx
    <3> QED
      BY <1>2, <2>1, <2>2, WidthFacts
  <2> HIDE DEF nx, w
  <2> QED
    BY <1>1, <1>3, <2>2, <2>3
<1>5. \E f : Eq(f)
  <2> HIDE DEF nx, P, w
  <2>1. Falls(P, nx, w)
    BY <1>3, <1>4 DEF Falls
  <2> QED
    BY <2>1, WalkExists
<1>6. Reached(key) = (CHOOSE f : Eq(f))[tree.root]
  <2>1. \A f : Eq(f) <=> f = [n \in Key |->
                 IF n = key \/ tree.kid[n][Toward(n, key)] = Nil THEN n
                 ELSE f[tree.kid[n][Toward(n, key)]]]
    <3>1. ASSUME NEW f
          PROVE  [n \in Key |-> IF n \in P THEN n ELSE f[nx[n]]]
                 = [n \in Key |-> IF n = key \/ tree.kid[n][Toward(n, key)] = Nil THEN n
                                  ELSE f[tree.kid[n][Toward(n, key)]]]
      OBVIOUS
    <3> QED
      BY <3>1 DEF Walk
  <2> HIDE DEF Eq
  <2>2. (CHOOSE f : Eq(f)) = CHOOSE f : f = [n \in Key |->
                 IF n = key \/ tree.kid[n][Toward(n, key)] = Nil THEN n
                 ELSE f[tree.kid[n][Toward(n, key)]]]
    BY <2>1
  <2> QED
    BY <2>2 DEF Reached
<1>7. PICK f : Eq(f) /\ Reached(key) = f[tree.root]
  <2> HIDE DEF Eq
  <2> QED
    BY <1>5, <1>6
<1>8. \A n \in Key : f[n] = IF n = key \/ nx[n] = Nil THEN n ELSE f[nx[n]]
  BY <1>7 DEF Walk
<1> HIDE DEF P, w, Eq, nx
<1>9. tree.root \in NodesOf(tree) /\ tree.root \in Key
  BY <1>1, TypeFacts DEF NodesOf
<1>10. e[tree.root]["left"] = 0 /\ e[tree.root]["right"] = Above
  BY DEF Formed
<1>11. key \in Nat /\ 0 < key /\ key < Above /\ \A n \in Key : n \in Nat
  BY KeyFacts, AboveFacts
<1>12. Inside(e[tree.root], key)
  BY <1>10, <1>11 DEF Inside
<1> DEFINE Good(r) == r \in NodesOf(tree) /\ Inside(e[r], key) /\ (r = key \/ nx[r] = Nil)
           S == {n \in NodesOf(tree) : Inside(e[n], key) => Good(f[n])}
<1>13. ASSUME NEW n \in NodesOf(tree),
              \A s \in Side : tree.kid[n][s] # Nil => tree.kid[n][s] \in S
       PROVE  n \in S
  <2> SUFFICES ASSUME Inside(e[n], key) PROVE Good(f[n])
    OBVIOUS
  <2>1. CASE n = key \/ nx[n] = Nil
    <3>1. f[n] = n
      BY <1>1, <1>8, <2>1
    <3> QED
      BY <2>1, <3>1
  <2>2. CASE ~(n = key \/ nx[n] = Nil)
    <3> DEFINE c == tree.kid[n][Toward(n, key)]
    <3>1. f[n] = f[c] /\ c # Nil /\ c \in S
      BY <1>1, <1>2, <1>8, <1>13, <2>2
    <3>2. e[c][Toward(n, key)] = e[n][Toward(n, key)] /\ e[c][Other(Toward(n, key))] = n
      BY <1>1, <1>2, <3>1, ChildFacts
    <3> HIDE DEF c, S
    <3>3. Inside(e[c], key)
      <4>1. n \in Nat /\ n # key
        BY <1>1, <1>11, <2>2
      <4>2. CASE key < n
        <5>1. Toward(n, key) = "left" /\ Other(Toward(n, key)) = "right"
          BY <4>2 DEF Toward, Other
        <5> QED
          BY <3>2, <4>2, <5>1 DEF Inside
      <4>3. CASE ~(key < n)
        <5>1. Toward(n, key) = "right" /\ Other(Toward(n, key)) = "left"
          BY <4>3 DEF Toward, Other
        <5>2. n < key
          BY <1>11, <4>1, <4>3
        <5> QED
          BY <3>2, <5>1, <5>2 DEF Inside
      <4> QED
        BY <4>2, <4>3
    <3>4. Good(f[c])
      BY <3>1, <3>3 DEF S
    <3> QED
      BY <3>1, <3>4
  <2> QED
    BY <2>1, <2>2
<1>14. NodesOf(tree) \subseteq S
  <2> HIDE DEF S
  <2> QED
    BY <1>13, FromTheLeaves
<1>15. Good(f[tree.root])
  BY <1>9, <1>12, <1>14
<1>16. key \in NodesOf(tree) => f[tree.root] = key
  <2> SUFFICES ASSUME key \in NodesOf(tree), f[tree.root] # key PROVE FALSE
    OBVIOUS
  <2> DEFINE T == {n \in NodesOf(tree) : ~(Inside(e[n], key) /\ f[n] = key)}
  <2>1. ASSUME NEW n \in NodesOf(tree), tree.parent[n] # Nil => tree.parent[n] \in T
        PROVE  n \in T
    <3>1. CASE tree.parent[n] = Nil
      <4>1. n = tree.root
        BY <3>1, RootFacts
      <4> QED
        BY <4>1
    <3>2. CASE tree.parent[n] # Nil
      <4> SUFFICES ASSUME Inside(e[n], key), f[n] = key PROVE FALSE
        OBVIOUS
      <4> DEFINE p == tree.parent[n]
      <4>1. p \in NodesOf(tree) /\ ~(Inside(e[p], key) /\ f[p] = key)
        BY <2>1, <3>2
      <4>2. PICK s \in Side : tree.kid[p][s] = n
        BY <3>2, ParentFacts
      <4>3. n # Nil /\ n \in Key /\ p \in Key /\ p \in Nat
        BY <1>1, <4>1, KeyFacts
      <4>4. e[n][s] = e[p][s] /\ e[n][Other(s)] = p /\ Inside(e[p], p)
        <5>1. e[tree.kid[p][s]][s] = e[p][s] /\ e[tree.kid[p][s]][Other(s)] = p
          BY <4>1, <4>2, <4>3, ChildFacts
        <5>2. Inside(e[p], p)
          BY <4>1 DEF Formed
        <5> QED
          BY <4>2, <5>1, <5>2
      <4>5. \A q \in Side : e[p][q] \in Nat
        BY <4>3 DEF Formed
      <4> HIDE DEF p
      <4>6. Inside(e[p], key) /\ key # p /\ Toward(p, key) = s
        <5>1. CASE s = "left"
          <6>1. e[n]["right"] = p /\ e[n]["left"] = e[p]["left"]
            BY <4>4, <5>1 DEF Other
          <6>2. e[p]["left"] < key /\ key < p /\ p < e[p]["right"]
            BY <4>4, <6>1 DEF Inside
          <6>3. key < e[p]["right"] /\ key # p
            BY <1>11, <4>3, <4>5, <6>2 DEF Side
          <6> QED
            BY <5>1, <6>2, <6>3 DEF Inside, Toward
        <5>2. CASE s = "right"
          <6>1. e[n]["left"] = p /\ e[n]["right"] = e[p]["right"]
            BY <4>4, <5>2 DEF Other
          <6>2. p < key /\ key < e[p]["right"] /\ e[p]["left"] < p
            BY <4>4, <6>1 DEF Inside
          <6>3. e[p]["left"] < key /\ key # p /\ ~(key < p)
            BY <1>11, <4>3, <4>5, <6>2 DEF Side
          <6> QED
            BY <5>2, <6>2, <6>3 DEF Inside, Toward
        <5> QED
          BY <5>1, <5>2, Sides
      <4>7. nx[p] = n
        BY <1>2, <4>2, <4>3, <4>6
      <4>8. f[p] = f[n]
        BY <1>8, <4>3, <4>6, <4>7
      <4> QED
        BY <4>1, <4>6, <4>8
    <3> QED
      BY <3>1, <3>2
  <2>2. NodesOf(tree) \subseteq T
    <3> HIDE DEF T
    <3> QED
      BY <2>1, FromTheRoot
  <2>3. Inside(e[key], key) /\ f[key] = key
    BY <1>8 DEF Formed
  <2> QED
    BY <2>2, <2>3
<1>17. nx[f[tree.root]] = tree.kid[f[tree.root]][Toward(f[tree.root], key)]
  BY <1>1, <1>2, <1>15
<1> QED
  BY <1>7, <1>15, <1>16, <1>17

-------------------------------------------------------------------------------
\* The search finds the keys of the tree and no others.
LEMMA ContainsNodes ==
    ASSUME NEW e, Formed(tree, e), NEW key \in Key
    PROVE  contains(key) <=> key \in NodesOf(tree)
<1>1. CASE tree.root = Nil
  <2>1. NodesOf(tree) = {}
    BY <1>1 DEF Formed
  <2> QED
    BY <1>1, <2>1 DEF contains
<1>2. CASE tree.root # Nil
  BY <1>2, ReachedFacts DEF contains
<1> QED
  BY <1>1, <1>2

\* A new node is red, has no children, and takes the place where its key fits.
LEMMA LinkedKeeps ==
    ASSUME NEW e, NEW bh, Formed(tree, e), Balanced(tree, bh), RedRule(tree, Nil),
           NEW key \in Key, ~contains(key)
    PROVE  LET tr == Linked(key)
           IN  /\ NodesOf(tr) = NodesOf(tree) \cup {key} /\ (\E x : Formed(tr, x))
               /\ (\E b : Balanced(tr, b)) /\ RedRule(tr, key)
<1> DEFINE tr == Linked(key)
           b == [bh EXCEPT ![key] = 0]
<1>1. key \notin NodesOf(tree)
  BY ContainsNodes
<1>2. /\ tree \in TreeType /\ bh \in [Key -> Nat] /\ NodesOf(tree) \subseteq Key
      /\ e \in [Key -> [Side -> Nat]]
  BY DEF Formed, Balanced, NodesOf
<1>3. \A k \in Key \ NodesOf(tree) : k # tree.root /\ tree.parent[k] = Nil
  BY DEF NodesOf
<1>4. \A k \in Key \ NodesOf(tree), s \in Side : tree.kid[k][s] = Nil
  BY DEF Formed
<1>5. /\ key \in Nat /\ key # Nil /\ key > 0 /\ Nil \notin Key
      /\ Above \in Nat /\ key < Above
  BY KeyFacts, AboveFacts
<1>6. /\ b \in [Key -> Nat] /\ b[key] = 0 /\ \A k \in Key \ {key} : b[k] = bh[k]
  BY <1>2
<1> HIDE DEF b
<1>7. \A k \in NodesOf(tree) :
          tree.parent[k] # Nil => tree.parent[k] \in NodesOf(tree) /\ \E s \in Side : tree.kid[tree.parent[k]][s] = k
  BY DEF Formed
<1>8. \A k \in NodesOf(tree), s \in Side : tree.kid[k][s] # Nil =>
          /\ tree.kid[k][s] \in NodesOf(tree) /\ tree.parent[tree.kid[k][s]] = k
          /\ e[tree.kid[k][s]][s] = e[k][s] /\ e[tree.kid[k][s]][Other(s)] = k
  BY ChildFacts
<1>9. \A k \in NodesOf(tree) : Inside(e[k], k)
  BY DEF Formed
<1>10. \A k \in NodesOf(tree) : tree.color[k] = "Red" =>
           tree.parent[k] # Nil /\ tree.color[tree.parent[k]] = "Black"
  BY <1>2, <1>5 DEF RedRule
<1>11. \A k \in NodesOf(tree), s \in Side : bh[k] = HeightOf(bh, tree.kid[k][s]) + Blk(tree, k)
  BY DEF Balanced
<1> DEFINE red == [tree EXCEPT !.color[key] = "Red"]
<1>12. /\ red \in TreeType /\ red.root = tree.root /\ red.parent = tree.parent /\ red.kid = tree.kid
       /\ red.color = [tree.color EXCEPT ![key] = "Red"]
  BY <1>2 DEF TreeType
<1>13. \A k \in Key : red.color[k] = IF k = key THEN "Red" ELSE tree.color[k]
  BY <1>2, <1>12 DEF TreeType
<1> HIDE DEF red
<1>14. CASE tree.root = Nil
  <2> DEFINE x == [e EXCEPT ![key] = [s \in Side |-> IF s = "left" THEN 0 ELSE Above]]
  <2>1. tr = [red EXCEPT !.root = key]
    BY <1>14 DEF Linked, red
  <2> HIDE DEF tr, x
  <2>2. /\ tr \in TreeType /\ tr.root = key /\ tr.parent = tree.parent /\ tr.kid = tree.kid
        /\ tr.color = red.color
    BY <1>12, <2>1 DEF TreeType
  <2>3. NodesOf(tree) = {}
    BY <1>14 DEF Formed
  <2>4. NodesOf(tr) = {key}
    BY <1>3, <2>2, <2>3 DEF NodesOf
  <2>5. x \in [Key -> [Side -> Nat]] /\ x[key]["left"] = 0 /\ x[key]["right"] = Above
    BY <1>2, <1>5 DEF Side, x
  <2>6. Inside(x[key], key)
    BY <1>5, <2>5 DEF Inside
  <2>7. \A s \in Side : tr.kid[key][s] = Nil
    BY <1>1, <1>4, <2>2
  <2>8. Formed(tr, x)
    BY <1>3, <1>4, <1>5, <2>2, <2>3, <2>4, <2>5, <2>6, <2>7 DEF Formed
  <2>9. tr.color[key] = "Red" /\ Blk(tr, key) = 0
    BY <1>13, <2>2 DEF Blk
  <2>10. Balanced(tr, b)
    BY <1>6, <2>4, <2>7, <2>9 DEF Balanced, HeightOf
  <2>11. RedRule(tr, key)
    BY <2>4, <2>9 DEF RedRule
  <2> QED
    BY <2>3, <2>4, <2>8, <2>10, <2>11 DEF tr
<1>15. CASE tree.root # Nil
  <2> DEFINE r == Reached(key)
             d == Toward(r, key)
             x == [e EXCEPT ![key] = [s \in Side |-> IF s = d THEN e[r][d] ELSE r]]
  <2>1. r \in NodesOf(tree) /\ Inside(e[r], key) /\ tree.kid[r][d] = Nil /\ r # key
    <3>1. r \in NodesOf(tree) /\ Inside(e[r], key) /\ (r = key \/ tree.kid[r][d] = Nil)
      BY <1>15, ReachedFacts
    <3> QED
      BY <1>1, <3>1
  <2>2. d \in Side /\ r \in Key /\ r \in Nat
    BY <1>2, <2>1, KeyFacts DEF Toward, Side
  <2>3. tr = [red EXCEPT !.parent[key] = r, !.kid[r][d] = key]
    BY <1>15 DEF Linked, red
  <2>4. (d = "left" => key < r) /\ (d = "right" => r < key)
    BY <1>5, <2>1, <2>2 DEF Toward
  <2> HIDE DEF r, d, tr, x
  <2>5. /\ tr \in TreeType /\ tr.root = tree.root
        /\ \A k \in Key : tr.parent[k] = IF k = key THEN r ELSE tree.parent[k]
        /\ \A k \in Key : tr.color[k] = IF k = key THEN "Red" ELSE tree.color[k]
        /\ \A k \in Key, s \in Side : tr.kid[k][s] = IF k = r /\ s = d THEN key ELSE tree.kid[k][s]
    <3>1. tr \in TreeType /\ tr.root = red.root /\ tr.color = red.color
          /\ tr.parent = [red.parent EXCEPT ![key] = r]
          /\ tr.kid = [red.kid EXCEPT ![r] = [red.kid[r] EXCEPT ![d] = key]]
      BY <1>12, <2>2, <2>3 DEF TreeType
    <3> QED
      BY <1>2, <1>12, <1>13, <2>2, <3>1 DEF TreeType
  <2>6. /\ x \in [Key -> [Side -> Nat]] /\ x[key][d] = e[r][d]
        /\ (\A s \in Side : s # d => x[key][s] = r) /\ \A k \in Key \ {key} : x[k] = e[k]
    <3>1. [s \in Side |-> IF s = d THEN e[r][d] ELSE r] \in [Side -> Nat]
      BY <1>2, <2>2
    <3> QED
      BY <1>2, <2>2, <3>1 DEF x
  <2>7. r # Nil
    BY <1>5, <2>2
  <2>8. NodesOf(tr) = NodesOf(tree) \cup {key}
    BY <1>1, <1>2, <2>2, <2>5, <2>7 DEF NodesOf
  <2>9. Other(d) \in Side /\ Other(d) # d
    BY <2>2, Sides
  <2>10. Inside(x[key], key)
    <3>1. e[r]["left"] < key /\ key < e[r]["right"]
      BY <2>1 DEF Inside
    <3>2. CASE d = "left"
      <4>1. x[key]["left"] = e[r]["left"] /\ x[key]["right"] = r
        BY <2>6, <3>2 DEF Side
      <4> QED
        BY <2>4, <3>1, <3>2, <4>1 DEF Inside
    <3>3. CASE d = "right"
      <4>1. x[key]["right"] = e[r]["right"] /\ x[key]["left"] = r
        BY <2>6, <3>3 DEF Side
      <4> QED
        BY <2>4, <3>1, <3>3, <4>1 DEF Inside
    <3> QED
      BY <2>2, <3>2, <3>3 DEF Side
  <2>11. \A s \in Side : tr.kid[key][s] = Nil
    BY <1>1, <1>4, <2>1, <2>5
  <2>12. tree.root \in NodesOf(tree) /\ tree.root \in Key /\ tree.root # key /\ tree.parent[tree.root] = Nil
         /\ e[tree.root]["left"] = 0 /\ e[tree.root]["right"] = Above
    BY <1>1, <2>1, RootFacts
  <2>13. tr.root # Nil /\ tr.parent[tr.root] = Nil /\ x[tr.root]["left"] = 0 /\ x[tr.root]["right"] = Above
    BY <1>15, <2>5, <2>6, <2>12
  <2>14. ASSUME NEW n \in NodesOf(tr) PROVE Inside(x[n], n)
    BY <1>2, <1>9, <2>6, <2>8, <2>10
  <2>15. ASSUME NEW n \in NodesOf(tr), tr.parent[n] # Nil
         PROVE  tr.parent[n] \in NodesOf(tr) /\ \E s \in Side : tr.kid[tr.parent[n]][s] = n
    <3>1. CASE n = key
      <4>1. tr.parent[n] = r /\ tr.kid[r][d] = key
        BY <2>2, <2>5, <3>1
      <4> QED
        BY <2>1, <2>2, <2>8, <3>1, <4>1
    <3>2. CASE n # key
      <4>1. n \in NodesOf(tree) /\ n \in Key
        BY <1>2, <2>8, <3>2
      <4>2. tr.parent[n] = tree.parent[n]
        BY <2>5, <3>2, <4>1
      <4>3. PICK s \in Side : tree.kid[tree.parent[n]][s] = n
        BY <1>7, <2>15, <4>1, <4>2
      <4>4. tree.parent[n] \in NodesOf(tree) /\ tree.parent[n] \in Key
        BY <1>2, <1>7, <2>15, <4>1, <4>2
      <4>5. n # Nil
        BY <1>5, <4>1
      <4>6. tr.kid[tree.parent[n]][s] = n
        BY <2>1, <2>5, <4>3, <4>4, <4>5
      <4> QED
        BY <2>8, <4>2, <4>4, <4>6
    <3> QED
      BY <3>1, <3>2
  <2>16. ASSUME NEW n \in NodesOf(tr), NEW s \in Side, tr.kid[n][s] # Nil
         PROVE  /\ tr.parent[tr.kid[n][s]] = n
                /\ x[tr.kid[n][s]][s] = x[n][s] /\ x[tr.kid[n][s]][Other(s)] = n
    <3>1. n # key /\ n \in NodesOf(tree) /\ n \in Key
      BY <1>2, <2>8, <2>11, <2>16
    <3>2. CASE n = r /\ s = d
      BY <2>2, <2>5, <2>6, <2>9, <3>1, <3>2
    <3>3. CASE ~(n = r /\ s = d)
      <4> DEFINE c == tree.kid[n][s]
      <4>1. tr.kid[n][s] = c
        BY <2>5, <3>1, <3>3
      <4>2. c \in NodesOf(tree) /\ tree.parent[c] = n /\ e[c][s] = e[n][s] /\ e[c][Other(s)] = n
        BY <1>8, <2>16, <3>1, <4>1
      <4>3. c # key /\ c \in Key
        BY <1>1, <1>2, <4>2
      <4> HIDE DEF c
      <4> QED
        BY <2>5, <2>6, <3>1, <4>1, <4>2, <4>3
    <3> QED
      BY <3>2, <3>3
  <2>17. \A k \in Key \ NodesOf(tr), s \in Side : tr.kid[k][s] = Nil
    BY <1>4, <2>1, <2>5, <2>8
  <2>18. Formed(tr, x)
    BY <2>5, <2>6, <2>13, <2>14, <2>15, <2>16, <2>17 DEF Formed
  <2>19. ASSUME NEW n \in NodesOf(tr), NEW s \in Side
         PROVE  b[n] = HeightOf(b, tr.kid[n][s]) + Blk(tr, n)
    <3>1. CASE n = key
      BY <1>6, <2>5, <2>11, <3>1 DEF HeightOf, Blk
    <3>2. CASE n # key
      <4>1. n \in NodesOf(tree) /\ n \in Key
        BY <1>2, <2>8, <3>2
      <4>2. b[n] = bh[n] /\ Blk(tr, n) = Blk(tree, n)
        BY <1>6, <2>5, <3>2, <4>1 DEF Blk
      <4>3. HeightOf(b, tr.kid[n][s]) = HeightOf(bh, tree.kid[n][s])
        <5>1. CASE n = r /\ s = d
          BY <1>5, <1>6, <2>1, <2>2, <2>5, <5>1 DEF HeightOf
        <5>2. CASE ~(n = r /\ s = d)
          <6>1. tr.kid[n][s] = tree.kid[n][s]
            BY <2>5, <4>1, <5>2
          <6>2. tree.kid[n][s] # Nil => tree.kid[n][s] \in Key \ {key}
            BY <1>1, <1>2, <1>8, <4>1
          <6> QED
            BY <1>6, <6>1, <6>2 DEF HeightOf
        <5> QED
          BY <5>1, <5>2
      <4> QED
        BY <1>11, <4>1, <4>2, <4>3
    <3> QED
      BY <3>1, <3>2
  <2>20. Balanced(tr, b)
    BY <1>6, <2>19 DEF Balanced
  <2>21. ASSUME NEW k \in NodesOf(tr) \ {key}, tr.color[k] = "Red"
         PROVE  tr.parent[k] # Nil /\ tr.color[tr.parent[k]] = "Black"
    <3>1. k \in NodesOf(tree) /\ k \in Key /\ tree.color[k] = "Red"
      BY <1>2, <2>5, <2>8, <2>21
    <3>2. tree.parent[k] # Nil /\ tree.color[tree.parent[k]] = "Black"
      BY <1>10, <3>1
    <3>3. tree.parent[k] \in Key /\ tree.parent[k] # key
      BY <1>1, <1>2, <1>7, <3>1, <3>2
    <3> QED
      BY <2>5, <2>21, <3>1, <3>2, <3>3
  <2>22. RedRule(tr, key)
    BY <2>5, <2>8, <2>21 DEF RedRule
  <2> QED
    BY <2>8, <2>18, <2>20, <2>22 DEF tr
<1> QED
  BY <1>14, <1>15

-------------------------------------------------------------------------------
\* The tree is formed and balanced, and red nodes meet only at the repair.
Sound == \E e, bh : Formed(tree, e) /\ Balanced(tree, bh) /\ RedRule(tree, node)

\* An empty tree is sound.
LEMMA SoundAtFirst == RedBlackInit => Sound
<1> SUFFICES ASSUME RedBlackInit PROVE Sound
  OBVIOUS
<1> DEFINE e == [k \in Key |-> [s \in Side |-> 0]]
           b == [k \in Key |-> 0]
<1>1. /\ tree.root = Nil /\ node = Nil /\ tree \in TreeType
      /\ \A k \in Key : tree.parent[k] = Nil /\ \A s \in Side : tree.kid[k][s] = Nil
  BY DEF RedBlackInit, Empty, TreeType
<1>2. NodesOf(tree) = {}
  BY <1>1, KeyFacts DEF NodesOf
<1>3. e \in [Key -> [Side -> Nat]] /\ b \in [Key -> Nat]
  OBVIOUS
<1> HIDE DEF e, b
<1>4. Formed(tree, e)
  BY <1>1, <1>2, <1>3 DEF Formed
<1>5. Balanced(tree, b) /\ RedRule(tree, node)
  BY <1>1, <1>2, <1>3 DEF Balanced, RedRule
<1> QED
  BY <1>4, <1>5 DEF Sound

\* Every step keeps the tree sound.  No node goes away, and insert alone brings one.
LEMMA SoundStep ==
    ASSUME Sound, RedBlackNext
    PROVE  /\ Sound'
           /\ fixAfterInsert => NodesOf(tree') = NodesOf(tree)
           /\ \A key \in Key : insert(key) => NodesOf(tree') = NodesOf(tree) \cup {key}
<1>1. PICK e, bh : Formed(tree, e) /\ Balanced(tree, bh) /\ RedRule(tree, node)
  BY DEF Sound
<1>2. ASSUME NEW key \in Key, insert(key)
      PROVE  Sound' /\ NodesOf(tree') = NodesOf(tree) \cup {key}
  <2>1. node = Nil
    BY <1>2 DEF insert
  <2>2. CASE contains(key)
    <3>1. tree' = tree /\ node' = node
      BY <1>2, <2>2 DEF insert
    <3>2. key \in NodesOf(tree)
      BY <1>1, <2>2, ContainsNodes
    <3> QED
      BY <1>1, <3>1, <3>2 DEF Sound
  <2>3. CASE ~contains(key)
    <3>1. tree' = Linked(key) /\ node' = key
      BY <1>2, <2>3 DEF insert
    <3>2. /\ NodesOf(tree') = NodesOf(tree) \cup {key} /\ (\E x : Formed(tree', x))
          /\ (\E b : Balanced(tree', b)) /\ RedRule(tree', node')
      BY <1>1, <2>1, <2>3, <3>1, LinkedKeeps
    <3> QED
      BY <3>2 DEF Sound
  <2> QED
    BY <2>2, <2>3
<1>3. ASSUME fixAfterInsert
      PROVE  Sound' /\ NodesOf(tree') = NodesOf(tree)
  <2>1. /\ NodesOf(tree') = NodesOf(tree) /\ (\E x : Formed(tree', x))
        /\ (\E b : Balanced(tree', b)) /\ RedRule(tree', node')
    <3>1. CASE Recolor
      BY <1>1, <3>1, RecolorKeeps
    <3>2. CASE Restructure
      BY <1>1, <3>2, RestructureKeeps
    <3>3. CASE Repaired
      BY <1>1, <3>3, RepairedKeeps
    <3> QED
      BY <1>3, <3>1, <3>2, <3>3 DEF fixAfterInsert
  <2> QED
    BY <2>1 DEF Sound
<1> QED
  BY <1>2, <1>3 DEF RedBlackNext

\* The tree is sound in every state.
LEMMA SoundAlways == RedBlackSpec => []Sound
<1>1. Sound /\ [RedBlackNext]_<<tree, node>> => Sound'
  <2> SUFFICES ASSUME Sound, [RedBlackNext]_<<tree, node>> PROVE Sound'
    OBVIOUS
  <2>1. CASE RedBlackNext
    BY <2>1, SoundStep
  <2>2. CASE UNCHANGED <<tree, node>>
    BY <2>2 DEF Sound
  <2> QED
    BY <2>1, <2>2
<1> QED
  BY <1>1, SoundAtFirst, PTL DEF RedBlackSpec

-------------------------------------------------------------------------------
(* LAB-5: black nodes from the root, and the program's own check.           *)

\* down counts the black nodes from the root to each key.
Downs(f) ==
    f = [n \in Key |-> (IF tree.color[n] = "Black" THEN 1 ELSE 0)
                       + (IF tree.parent[n] = Nil THEN 0 ELSE f[tree.parent[n]])]

\* All paths to a null leaf have as many black nodes as the root's height says.
LEMMA BlacksAre ==
    ASSUME NEW e, NEW bh, Formed(tree, e), Balanced(tree, bh), NEW n \in Nodes,
           NEW s \in Side, tree.kid[n][s] = Nil
    PROVE  Blacks[n] = bh[tree.root]
<1> DEFINE top == bh[tree.root]
           f == [k \in Key |-> IF k \in Nodes THEN top - bh[k] + Blk(tree, k) ELSE Blk(tree, k)]
<1>1. Nodes = NodesOf(tree) /\ Nodes \subseteq Key
  BY DEF Nodes, NodesOf
<1>2. tree \in TreeType /\ bh \in [Key -> Nat]
  BY DEF Formed, Balanced
<1>3. tree.root \in Key /\ tree.root \in Nodes /\ top \in Nat
  BY <1>1, <1>2, RootFacts
<1>4. \A k \in Key : Blk(tree, k) = (IF tree.color[k] = "Black" THEN 1 ELSE 0) /\ Blk(tree, k) \in Nat
  BY DEF Blk
<1> HIDE DEF top
<1>5. ASSUME NEW k \in Key
      PROVE  f[k] = (IF tree.color[k] = "Black" THEN 1 ELSE 0)
                    + (IF tree.parent[k] = Nil THEN 0 ELSE f[tree.parent[k]])
  <2>1. CASE k \notin Nodes
    <3>1. tree.parent[k] = Nil
      BY <2>1 DEF Nodes
    <3> QED
      BY <1>4, <2>1, <3>1
  <2>2. CASE k \in Nodes /\ tree.parent[k] = Nil
    <3>1. k = tree.root
      BY <1>1, <2>2, RootFacts
    <3>2. f[k] = top - top + Blk(tree, k)
      BY <2>2, <3>1 DEF top
    <3>3. f[k] = Blk(tree, k)
      BY <1>3, <1>4, <3>2
    <3> HIDE DEF f
    <3> QED
      BY <1>4, <2>2, <3>3
  <2>3. CASE k \in Nodes /\ tree.parent[k] # Nil
    <3> DEFINE p == tree.parent[k]
    <3>1. p \in Nodes /\ p \in Key /\ \E q \in Side : tree.kid[p][q] = k
      BY <1>1, <2>3, ParentFacts
    <3>2. bh[p] = bh[k] + Blk(tree, p)
      <4>1. PICK q \in Side : tree.kid[p][q] = k
        BY <3>1
      <4>2. bh[p] = HeightOf(bh, k) + Blk(tree, p)
        BY <1>1, <3>1, <4>1 DEF Balanced
      <4>3. HeightOf(bh, k) = bh[k]
        BY KeyFacts DEF HeightOf
      <4> QED
        BY <4>2, <4>3
    <3>3. f[k] = top - bh[k] + Blk(tree, k) /\ f[p] = top - bh[p] + Blk(tree, p)
      BY <2>3, <3>1
    <3> HIDE DEF p, f
    <3>4. f[k] = Blk(tree, k) + f[p]
      BY <1>2, <1>3, <1>4, <3>1, <3>2, <3>3
    <3> QED
      BY <1>4, <2>3, <3>4 DEF p
  <2> QED
    BY <2>1, <2>2, <2>3
<1>6. Downs(f)
  <2>1. f = [k \in Key |-> f[k]]
    OBVIOUS
  <2> HIDE DEF f
  <2> QED
    BY <1>5, <2>1 DEF Downs
<1>7. Blacks[n] = (CHOOSE g : Downs(g))[n]
  BY DEF Blacks, Downs
<1>8. PICK g : Downs(g) /\ Blacks[n] = g[n]
  <2> HIDE DEF f
  <2> QED
    BY <1>6, <1>7
<1>9. \A k \in Key : g[k] = (IF tree.color[k] = "Black" THEN 1 ELSE 0)
                            + (IF tree.parent[k] = Nil THEN 0 ELSE g[tree.parent[k]])
  BY <1>8 DEF Downs
<1> DEFINE S == {k \in Nodes : g[k] = f[k]}
<1>10. NodesOf(tree) \subseteq S
  <2>1. ASSUME NEW k \in NodesOf(tree), tree.parent[k] # Nil => tree.parent[k] \in S
        PROVE  k \in S
    <3>1. tree.parent[k] # Nil => g[tree.parent[k]] = f[tree.parent[k]]
      BY <2>1
    <3>2. k \in Key /\ k \in Nodes
      BY <1>1
    <3> HIDE DEF f
    <3> QED
      BY <1>5, <1>9, <3>1, <3>2
  <2> HIDE DEF S
  <2> QED
    BY <2>1, FromTheRoot
<1>11. g[n] = top - bh[n] + Blk(tree, n)
  BY <1>1, <1>10
<1>12. bh[n] = 0 + Blk(tree, n)
  BY <1>1 DEF Balanced, HeightOf
<1> HIDE DEF f, S
<1> QED
  BY <1>1, <1>2, <1>3, <1>4, <1>8, <1>11, <1>12 DEF top

-------------------------------------------------------------------------------
Calls == (Key \cup {Nil}) \X (0 .. Above) \X (0 .. Above)

\* What one call of validate returns, f being what the calls under it return.
Returned(f, call) ==
    LET n    == call[1]
        low  == call[2]
        high == call[3]
        l    == f[<<tree.kid[n]["left"], low, n>>]
        r    == f[<<tree.kid[n]["right"], n, high>>]
    IN  CASE n = Nil -> 0
          [] n # Nil /\ (n <= low \/ n >= high) -> Broken
          [] n # Nil /\ low < n /\ n < high ->
               IF \/ l # r \/ l = Broken
                  \/ /\ tree.color[n] = "Red"
                     /\ "Red" \in {ColorOf(tree, tree.kid[n][s]) : s \in Side}
               THEN Broken
               ELSE l + (IF tree.color[n] = "Black" THEN 1 ELSE 0)

Validates(f) == f = [call \in Calls |-> Returned(f, call)]

\* validate is the result of the call at the root.
LEMMA ValidateIs ==
    validate = (CHOOSE f : Validates(f))[<<tree.root, 0, Above>>]
BY DEF validate, Validates, Returned, Calls

\* A call does not go further under nil, nor under a key out of its range.
LEMMA ReturnedAtOnce ==
    ASSUME NEW f, NEW n \in Key \cup {Nil}, NEW low \in 0 .. Above, NEW high \in 0 .. Above,
           ~(n # Nil /\ low < n /\ n < high)
    PROVE  Returned(f, <<n, low, high>>) = IF n = Nil THEN 0 ELSE Broken
<1> DEFINE l == f[<<tree.kid[n]["left"], low, n>>]
           r == f[<<tree.kid[n]["right"], n, high>>]
           w == IF \/ l # r \/ l = Broken
                   \/ /\ tree.color[n] = "Red"
                      /\ "Red" \in {ColorOf(tree, tree.kid[n][s]) : s \in Side}
                THEN Broken
                ELSE l + (IF tree.color[n] = "Black" THEN 1 ELSE 0)
<1>1. Returned(f, <<n, low, high>>) =
          CASE n = Nil -> 0
            [] n # Nil /\ (n <= low \/ n >= high) -> Broken
            [] n # Nil /\ low < n /\ n < high -> w
  BY DEF Returned
<1> HIDE DEF w
<1>2. n # Nil => n \in Int /\ low \in Int /\ high \in Int
  <2>1. n \in Key => n \in Int /\ Key # {}
    BY KeyFacts
  <2> QED
    BY <2>1
<1>3. CASE n = Nil
  BY <1>1, <1>3
<1>4. CASE n # Nil
  <2>1. n <= low \/ n >= high
    BY <1>2, <1>4
  <2> QED
    BY <1>1, <1>4, <2>1
<1> QED
  BY <1>3, <1>4

\* Under a key in its range it compares what the children's calls return.
LEMMA ReturnedUnder ==
    ASSUME NEW f, NEW n \in Key, NEW low \in 0 .. Above, NEW high \in 0 .. Above,
           low < n, n < high
    PROVE  Returned(f, <<n, low, high>>) =
               LET l == f[<<tree.kid[n]["left"], low, n>>]
                   r == f[<<tree.kid[n]["right"], n, high>>]
               IN  IF \/ l # r \/ l = Broken
                      \/ /\ tree.color[n] = "Red"
                         /\ "Red" \in {ColorOf(tree, tree.kid[n][s]) : s \in Side}
                   THEN Broken
                   ELSE l + (IF tree.color[n] = "Black" THEN 1 ELSE 0)
<1> DEFINE l == f[<<tree.kid[n]["left"], low, n>>]
           r == f[<<tree.kid[n]["right"], n, high>>]
           w == IF \/ l # r \/ l = Broken
                   \/ /\ tree.color[n] = "Red"
                      /\ "Red" \in {ColorOf(tree, tree.kid[n][s]) : s \in Side}
                THEN Broken
                ELSE l + (IF tree.color[n] = "Black" THEN 1 ELSE 0)
<1>1. Returned(f, <<n, low, high>>) =
          CASE n = Nil -> 0
            [] n # Nil /\ (n <= low \/ n >= high) -> Broken
            [] n # Nil /\ low < n /\ n < high -> w
  BY DEF Returned
<1> HIDE DEF w
<1>2. n # Nil /\ n \in Int /\ low \in Int /\ high \in Int
  BY KeyFacts, AboveFacts
<1>3. ~(n <= low \/ n >= high)
  BY <1>2
<1>4. Returned(f, <<n, low, high>>) = w
  BY <1>1, <1>2, <1>3
<1> QED
  BY <1>4 DEF w

\* Where the children's calls return the same, a call does.
LEMMA ReturnedAlike ==
    ASSUME NEW f, NEW g, NEW n \in Key \cup {Nil}, NEW low \in 0 .. Above, NEW high \in 0 .. Above,
           n # Nil /\ low < n /\ n < high =>
               /\ f[<<tree.kid[n]["left"], low, n>>] = g[<<tree.kid[n]["left"], low, n>>]
               /\ f[<<tree.kid[n]["right"], n, high>>] = g[<<tree.kid[n]["right"], n, high>>]
    PROVE  Returned(f, <<n, low, high>>) = Returned(g, <<n, low, high>>)
<1>1. CASE n # Nil /\ low < n /\ n < high
  <2>1. n \in Key
    BY <1>1
  <2> DEFINE w(l, r) == IF \/ l # r \/ l = Broken
                           \/ /\ tree.color[n] = "Red"
                              /\ "Red" \in {ColorOf(tree, tree.kid[n][s]) : s \in Side}
                        THEN Broken
                        ELSE l + (IF tree.color[n] = "Black" THEN 1 ELSE 0)
  <2>2. Returned(f, <<n, low, high>>) = w(f[<<tree.kid[n]["left"], low, n>>],
                                          f[<<tree.kid[n]["right"], n, high>>])
    BY <1>1, <2>1, ReturnedUnder
  <2>3. Returned(g, <<n, low, high>>) = w(g[<<tree.kid[n]["left"], low, n>>],
                                          g[<<tree.kid[n]["right"], n, high>>])
    BY <1>1, <2>1, ReturnedUnder
  <2> HIDE DEF w
  <2> QED
    BY <1>1, <2>2, <2>3
<1>2. CASE ~(n # Nil /\ low < n /\ n < high)
  <2>1. Returned(f, <<n, low, high>>) = IF n = Nil THEN 0 ELSE Broken
    BY <1>2, ReturnedAtOnce
  <2>2. Returned(g, <<n, low, high>>) = IF n = Nil THEN 0 ELSE Broken
    BY <1>2, ReturnedAtOnce
  <2> QED
    BY <2>1, <2>2
<1> QED
  BY <1>1, <1>2

\* The recursion of validate has a solution, by the width of the ranges.
LEMMA ValidatesExists ==
    ASSUME tree \in TreeType, Key # {}
    PROVE  \E f : Validates(f)
<1> DEFINE Eq(h, f) == \A n \in Key \cup {Nil}, low \in 0 .. Above, high \in 0 .. Above :
               high - low <= h => f[<<n, low, high>>] = Returned(f, <<n, low, high>>)
           without == {h \in 0 .. Above : ~ \E f : Eq(h, f)}
<1>0. Above \in Nat /\ \A k \in Key : k \in 0 .. Above /\ k \in Nat /\ k # Nil
  BY AboveFacts, KeyFacts
<1>1. without = {}
  <2> SUFFICES ASSUME without # {} PROVE FALSE
    OBVIOUS
  <2>1. PICK h \in without : \A m \in without : h <= m
    <3>1. without \in SUBSET Nat
      BY <1>0
    <3> HIDE DEF without
    <3> QED
      BY <3>1, LeastElement
  <2>2. h \in 0 .. Above /\ ~ \E f : Eq(h, f)
    BY <2>1
  <2>3. h > 0 => \E f : Eq(h - 1, f)
    <3>1. h > 0 => h - 1 \in 0 .. Above /\ h - 1 \notin without
      <4> HIDE DEF without
      <4> QED
        BY <1>0, <2>1, <2>2
    <3> QED
      BY <3>1
  <2> HIDE DEF without
  <2>4. PICK f : h > 0 => Eq(h - 1, f)
    BY <2>3
  <2> DEFINE g == [call \in Calls |-> Returned(f, call)]
  <2>5. \A n \in Key \cup {Nil}, low \in 0 .. Above, high \in 0 .. Above :
            g[<<n, low, high>>] = Returned(f, <<n, low, high>>)
    BY DEF Calls
  <2> HIDE DEF g
  <2>6. ASSUME NEW n \in Key \cup {Nil}, NEW low \in 0 .. Above, NEW high \in 0 .. Above,
               high - low <= h
        PROVE  g[<<n, low, high>>] = Returned(g, <<n, low, high>>)
    <3> DEFINE kl == tree.kid[n]["left"]
               kr == tree.kid[n]["right"]
    <3>1. ASSUME n # Nil /\ low < n /\ n < high
          PROVE  f[<<kl, low, n>>] = g[<<kl, low, n>>] /\ f[<<kr, n, high>>] = g[<<kr, n, high>>]
      <4>1. n \in Key /\ n \in 0 .. Above /\ n \in Nat
        BY <1>0, <3>1
      <4>2. kl \in Key \cup {Nil} /\ kr \in Key \cup {Nil}
        BY <4>1, TypeFacts DEF Side
      <4> HIDE DEF kl, kr
      <4>3. h > 0 /\ n - low <= h - 1 /\ high - n <= h - 1
        BY <1>0, <2>2, <2>6, <3>1, <4>1
      <4>4. /\ f[<<kl, low, n>>] = Returned(f, <<kl, low, n>>)
            /\ f[<<kr, n, high>>] = Returned(f, <<kr, n, high>>)
        BY <2>4, <4>1, <4>2, <4>3
      <4> QED
        BY <2>5, <4>1, <4>2, <4>4
    <3>2. Returned(f, <<n, low, high>>) = Returned(g, <<n, low, high>>)
      BY <3>1, ReturnedAlike
    <3> QED
      BY <2>5, <3>2
  <2>7. Eq(h, g)
    BY <2>6
  <2> HIDE DEF Eq
  <2> QED
    BY <2>2, <2>7
<1>2. Above \in 0 .. Above /\ Above \notin without
  <2> HIDE DEF without
  <2> QED
    BY <1>0, <1>1
<1>3. PICK f : Eq(Above, f)
  BY <1>2
<1> DEFINE g == [call \in Calls |-> f[call]]
<1>4. ASSUME NEW n \in Key \cup {Nil}, NEW low \in 0 .. Above, NEW high \in 0 .. Above
      PROVE  g[<<n, low, high>>] = Returned(g, <<n, low, high>>)
  <2>1. \A m \in Key \cup {Nil}, a \in 0 .. Above, b \in 0 .. Above : g[<<m, a, b>>] = f[<<m, a, b>>]
    BY DEF Calls
  <2> HIDE DEF g
  <2>2. f[<<n, low, high>>] = Returned(f, <<n, low, high>>)
    <3>1. high - low <= Above
      BY <1>0
    <3> QED
      BY <1>3, <3>1
  <2>3. Returned(g, <<n, low, high>>) = Returned(f, <<n, low, high>>)
    <3> DEFINE kl == tree.kid[n]["left"]
               kr == tree.kid[n]["right"]
    <3>1. ASSUME n # Nil /\ low < n /\ n < high
          PROVE  f[<<kl, low, n>>] = g[<<kl, low, n>>] /\ f[<<kr, n, high>>] = g[<<kr, n, high>>]
      <4>1. n \in Key /\ n \in 0 .. Above
        BY <1>0, <3>1
      <4>2. kl \in Key \cup {Nil} /\ kr \in Key \cup {Nil}
        BY <4>1, TypeFacts DEF Side
      <4> QED
        BY <2>1, <4>1, <4>2
    <3> QED
      BY <3>1, ReturnedAlike
  <2> QED
    BY <2>1, <2>2, <2>3
<1>5. \A call \in Calls : g[call] = Returned(g, call)
  <2> HIDE DEF g
  <2>1. ASSUME NEW call \in Calls PROVE g[call] = Returned(g, call)
    <3>1. PICK n \in Key \cup {Nil}, low \in 0 .. Above, high \in 0 .. Above : call = <<n, low, high>>
      BY DEF Calls
    <3> QED
      BY <1>4, <3>1
  <2> QED
    BY <2>1
<1>6. g = [call \in Calls |-> g[call]]
  OBVIOUS
<1> HIDE DEF g
<1>7. Validates(g)
  BY <1>5, <1>6 DEF Validates
<1> QED
  BY <1>7

\* Without a red pair the program's check counts the height of the root.
LEMMA ValidateCounts ==
    ASSUME NEW e, NEW bh, Formed(tree, e), Balanced(tree, bh), RedRule(tree, Nil), tree.root # Nil
    PROVE  validate = bh[tree.root] /\ bh[tree.root] \in Nat
<1>1. tree \in TreeType /\ NodesOf(tree) \subseteq Key /\ bh \in [Key -> Nat]
  BY DEF Formed, NodesOf, Balanced
<1>2. tree.root \in NodesOf(tree) /\ tree.root \in Key
  BY <1>1, TypeFacts DEF NodesOf
<1>3. e[tree.root]["left"] = 0 /\ e[tree.root]["right"] = Above
  BY DEF Formed
<1>4. PICK f : Validates(f) /\ validate = f[<<tree.root, 0, Above>>]
  BY <1>1, <1>2, ValidatesExists, ValidateIs
<1>5. \A n \in Key \cup {Nil}, low \in 0 .. Above, high \in 0 .. Above :
          f[<<n, low, high>>] = Returned(f, <<n, low, high>>)
  BY <1>4 DEF Validates, Calls
<1>6. Above \in Nat /\ \A k \in Key : k \in 0 .. Above /\ k \in Nat /\ k # Nil
  BY <1>2, AboveFacts, KeyFacts
<1> DEFINE S == {n \in NodesOf(tree) : f[<<n, e[n]["left"], e[n]["right"]>>] = bh[n]}
<1>7. ASSUME NEW n \in NodesOf(tree),
             \A s \in Side : tree.kid[n][s] # Nil => tree.kid[n][s] \in S
      PROVE  n \in S
  <2> DEFINE low  == e[n]["left"]
             high == e[n]["right"]
             kl   == tree.kid[n]["left"]
             kr   == tree.kid[n]["right"]
  <2>1. low \in 0 .. Above /\ high \in 0 .. Above /\ n \in 0 .. Above /\ n \in Key /\ n # Nil
    BY <1>1, <1>6, EndsBelow DEF Side
  <2>2. low < n /\ n < high
    BY DEF Formed, Inside
  <2>3. kl \in Key \cup {Nil} /\ kr \in Key \cup {Nil}
    BY <1>1, <2>1, TypeFacts DEF Side
  <2>4. f[<<kl, low, n>>] = HeightOf(bh, kl)
    <3>1. CASE kl = Nil
      <4>1. f[<<kl, low, n>>] = Returned(f, <<kl, low, n>>)
        BY <1>5, <2>1, <2>3
      <4>2. Returned(f, <<kl, low, n>>) = 0
        BY <2>1, <2>3, <3>1, ReturnedAtOnce
      <4> QED
        BY <3>1, <4>1, <4>2 DEF HeightOf
    <3>2. CASE kl # Nil
      <4>1. kl \in S /\ e[kl]["left"] = low /\ e[kl]["right"] = n
        <5>1. "left" \in Side /\ Other("left") = "right"
          BY DEF Side, Other
        <5>2. e[kl]["left"] = low /\ e[kl][Other("left")] = n
          BY <3>2, <5>1, ChildFacts
        <5> QED
          BY <1>7, <3>2, <5>1, <5>2
      <4>2. f[<<kl, e[kl]["left"], e[kl]["right"]>>] = bh[kl]
        BY <4>1
      <4> QED
        BY <3>2, <4>1, <4>2 DEF HeightOf
    <3> QED
      BY <3>1, <3>2
  <2>5. f[<<kr, n, high>>] = HeightOf(bh, kr)
    <3>1. CASE kr = Nil
      <4>1. f[<<kr, n, high>>] = Returned(f, <<kr, n, high>>)
        BY <1>5, <2>1, <2>3
      <4>2. Returned(f, <<kr, n, high>>) = 0
        BY <2>1, <2>3, <3>1, ReturnedAtOnce
      <4> QED
        BY <3>1, <4>1, <4>2 DEF HeightOf
    <3>2. CASE kr # Nil
      <4>1. kr \in S /\ e[kr]["left"] = n /\ e[kr]["right"] = high
        <5>1. "right" \in Side /\ Other("right") = "left"
          BY DEF Side, Other
        <5>2. e[kr]["right"] = high /\ e[kr][Other("right")] = n
          BY <3>2, <5>1, ChildFacts
        <5> QED
          BY <1>7, <3>2, <5>1, <5>2
      <4>2. f[<<kr, e[kr]["left"], e[kr]["right"]>>] = bh[kr]
        BY <4>1
      <4> QED
        BY <3>2, <4>1, <4>2 DEF HeightOf
    <3> QED
      BY <3>1, <3>2
  <2>6. \A s \in Side : bh[n] = HeightOf(bh, tree.kid[n][s]) + Blk(tree, n)
                        /\ HeightOf(bh, tree.kid[n][s]) \in Nat /\ Blk(tree, n) \in {0, 1}
    BY HeightFacts
  <2>7. HeightOf(bh, kl) = HeightOf(bh, kr) /\ HeightOf(bh, kl) # Broken
        /\ bh[n] = HeightOf(bh, kl) + Blk(tree, n)
    <3>1. "left" \in Side /\ "right" \in Side
      BY DEF Side
    <3>2. /\ bh[n] = HeightOf(bh, kl) + Blk(tree, n) /\ bh[n] = HeightOf(bh, kr) + Blk(tree, n)
          /\ HeightOf(bh, kl) \in Nat /\ HeightOf(bh, kr) \in Nat /\ Blk(tree, n) \in {0, 1}
      BY <2>6, <3>1
    <3> QED
      BY <3>2 DEF Broken
  <2>8. tree.color[n] = "Red" => \A s \in Side : ColorOf(tree, tree.kid[n][s]) # "Red"
    <3> SUFFICES ASSUME tree.color[n] = "Red", NEW s \in Side,
                        ColorOf(tree, tree.kid[n][s]) = "Red"
                 PROVE  FALSE
      OBVIOUS
    <3> DEFINE c == tree.kid[n][s]
    <3>1. c # Nil /\ tree.color[c] = "Red"
      BY DEF ColorOf
    <3>2. c \in NodesOf(tree) /\ tree.parent[c] = n /\ c # Nil
      BY <3>1, ChildFacts
    <3>3. tree.color[n] = "Black"
      BY <1>1, <1>6, <3>1, <3>2 DEF RedRule
    <3> QED
      BY <3>3
  <2>9. f[<<n, low, high>>] = HeightOf(bh, kl) + Blk(tree, n)
    <3>1. Returned(f, <<n, low, high>>) =
              IF \/ f[<<kl, low, n>>] # f[<<kr, n, high>>] \/ f[<<kl, low, n>>] = Broken
                 \/ /\ tree.color[n] = "Red"
                    /\ "Red" \in {ColorOf(tree, tree.kid[n][s]) : s \in Side}
              THEN Broken
              ELSE f[<<kl, low, n>>] + (IF tree.color[n] = "Black" THEN 1 ELSE 0)
      BY <2>1, <2>2, ReturnedUnder
    <3>2. ~(tree.color[n] = "Red" /\ "Red" \in {ColorOf(tree, tree.kid[n][s]) : s \in Side})
      BY <2>8
    <3> HIDE DEF low, high, kl, kr
    <3>3. f[<<n, low, high>>] = Returned(f, <<n, low, high>>)
      BY <1>5, <2>1
    <3> QED
      BY <2>4, <2>5, <2>7, <3>1, <3>2, <3>3 DEF Blk
  <2> QED
    BY <2>7, <2>9
<1>8. NodesOf(tree) \subseteq S
  <2> HIDE DEF S
  <2> QED
    BY <1>7, FromTheLeaves
<1> QED
  BY <1>1, <1>2, <1>3, <1>4, <1>8

-------------------------------------------------------------------------------
\* A sound tree follows the rules.
LEMMA RulesOfSound == Sound => RedBlackRules
<1> SUFFICES ASSUME Sound PROVE RedBlackRules
  OBVIOUS
<1> PICK e, bh : Formed(tree, e) /\ Balanced(tree, bh) /\ RedRule(tree, node)
  BY DEF Sound
<1>1. Nodes = NodesOf(tree) /\ Nodes \subseteq Key
  BY DEF Nodes, NodesOf
<1>2. \A n \in Nodes, s \in Side : tree.kid[n][s] # Nil => tree.parent[tree.kid[n][s]] = n
  BY <1>1 DEF Formed
<1>3. ASSUME NEW m \in {k \in Nodes : Nil \in {tree.kid[k][s] : s \in Side}}
      PROVE  Blacks[m] = bh[tree.root]
  <2>1. PICK s \in Side : tree.kid[m][s] = Nil
    OBVIOUS
  <2> QED
    BY <2>1, BlacksAre
<1>4. \A n \in Nodes \ {node} :
          tree.color[n] = "Red" => ColorOf(tree, tree.parent[n]) = "Black"
  BY <1>1 DEF RedRule, ColorOf
<1>5. ASSUME node = Nil PROVE isValid
  <2>1. CASE tree.root = Nil
    BY <2>1 DEF isValid
  <2>2. CASE tree.root # Nil
    <3>1. validate = bh[tree.root] /\ bh[tree.root] \in Nat
      BY <1>5, <2>2, ValidateCounts
    <3>2. tree.root \in Key /\ tree.root \in NodesOf(tree) /\ tree.parent[tree.root] = Nil
      BY <2>2, TypeFacts DEF Formed, NodesOf
    <3>3. tree.color[tree.root] = "Black"
      <4>1. tree.color[tree.root] \in {"Red", "Black"}
        BY <3>2, TypeFacts DEF Formed
      <4>2. tree.color[tree.root] # "Red"
        BY <1>5, <3>2, KeyFacts DEF RedRule
      <4> QED
        BY <4>1, <4>2
    <3> QED
      BY <3>1, <3>3 DEF isValid, Broken
  <2> QED
    BY <2>1, <2>2
<1>6. \A m, n \in {k \in Nodes : Nil \in {tree.kid[k][s] : s \in Side}} : Blacks[m] = Blacks[n]
  BY <1>3
<1> QED
  BY <1>2, <1>4, <1>5, <1>6 DEF RedBlackRules

\* LAB-5 keeps the rules of its README, in the middle of a repair too, however many
\* keys are inserted in whatever order.
THEOREM RedBlackRulesHold == RedBlackSpec => []RedBlackRules
BY SoundAlways, RulesOfSound, PTL

\* The search finds the keys of the tree and no others.
LEMMA SearchFindsNodes == Sound => \A key \in Key : contains(key) <=> key \in NodesOf(tree)
BY ContainsNodes DEF Sound

\* contains finds what it found before and the key just inserted: no rotation and
\* no recolouring hides a key, and no insert makes up another.
THEOREM ContainsWhatWasInserted ==
    RedBlackSpec => [][\A key \in Key : contains(key)' <=> contains(key) \/ insert(key)]_<<tree, node>>
<1> DEFINE Finds == \A key \in Key : contains(key) <=> key \in NodesOf(tree)
           Grows == \A key \in Key : contains(key)' <=> contains(key) \/ insert(key)
<1>1. Sound => Finds
  BY SearchFindsNodes
<1>2. Sound /\ Finds /\ Finds' /\ [RedBlackNext]_<<tree, node>> => [Grows]_<<tree, node>>
  <2> SUFFICES ASSUME Sound, Finds, Finds', RedBlackNext, ~UNCHANGED <<tree, node>>,
                      NEW key \in Key
               PROVE  contains(key)' <=> contains(key) \/ insert(key)
    OBVIOUS
  <2>1. contains(key) <=> key \in NodesOf(tree)
    OBVIOUS
  <2>2. contains(key)' <=> key \in NodesOf(tree')
    OBVIOUS
  <2>3. CASE fixAfterInsert
    <3>1. node # Nil
      BY <2>3 DEF fixAfterInsert, Recolor, Restructure, Repaired
    <3>2. ~insert(key)
      BY <3>1 DEF insert
    <3>3. NodesOf(tree') = NodesOf(tree)
      BY <2>3, SoundStep
    <3> QED
      BY <2>1, <2>2, <3>2, <3>3
  <2>4. CASE \E k \in Key : insert(k)
    <3>1. PICK k \in Key : insert(k)
      BY <2>4
    <3>2. NodesOf(tree') = NodesOf(tree) \cup {k}
      BY <3>1, SoundStep
    <3>3. insert(key) => key = k
      BY <3>1 DEF insert
    <3> QED
      BY <2>1, <2>2, <3>1, <3>2, <3>3
  <2> QED
    BY <2>3, <2>4 DEF RedBlackNext
<1> QED
  BY <1>1, <1>2, SoundAlways, PTL DEF RedBlackSpec

-------------------------------------------------------------------------------
(* LAB-6: what is under a node.                                             *)

Entry == [key : Int, row : Nat]

Ordered(entries) == \A i, j \in DOMAIN entries : i < j => entries[i].key <= entries[j].key

\* A node by itself.
Sized(n) ==
    /\ DOMAIN n = {"leaf", "entries", "children"} /\ n.leaf = (n.children = <<>>)
    /\ n.entries \in Seq(Entry) /\ Len(n.entries) <= maxEntries /\ Ordered(n.entries)
    /\ n.children \in Seq(ToSet(n.children))

\* The entries S under an inner node are its own and those its children have, g,
\* which its own entries separate.
Shares(n, g, S) ==
    /\ Len(n.children) = Len(n.entries) + 1
    /\ g \in [1 .. Len(n.children) -> SUBSET Entry]
    /\ \A i \in 1 .. Len(n.children), j \in 1 .. Len(n.entries) : \A e \in g[i] :
           /\ j < i => n.entries[j].key <= e.key
           /\ j >= i => e.key <= n.entries[j].key
    /\ S = ToSet(n.entries) \cup UNION {g[i] : i \in 1 .. Len(n.children)}
    /\ \A i \in 1 .. Len(n.children) : Len(n.children[i].entries) >= t - 1

\* Node n, of height k, has S under it, if what R says of its children is true.
Justified(n, k, S, R) ==
    /\ k \in Nat /\ Sized(n)
    /\ k = 0 => n.children = <<>> /\ S = ToSet(n.entries)
    /\ k # 0 => \E g : /\ Shares(n, g, S)
                       /\ \A i \in 1 .. Len(n.children) : <<n.children[i], k - 1, g[i]>> \in R

Grounded(R) == \A x \in R : Justified(x[1], x[2], x[3], R)

At(k, n, S) == \E R : Grounded(R) /\ <<n, k, S>> \in R

\* What it is for a node to be at a height, with entries under it.
LEMMA AtMeans ==
    ASSUME NEW k, NEW n, NEW S, At(k, n, S)
    PROVE  /\ k \in Nat /\ Sized(n)
           /\ k = 0 => n.children = <<>> /\ S = ToSet(n.entries)
           /\ k # 0 => \E g : /\ Shares(n, g, S)
                              /\ \A i \in 1 .. Len(n.children) : At(k - 1, n.children[i], g[i])
<1>1. PICK R : Grounded(R) /\ <<n, k, S>> \in R
  BY DEF At
<1>2. Justified(n, k, S, R)
  BY <1>1 DEF Grounded
<1>3. ASSUME k # 0
      PROVE  \E g : /\ Shares(n, g, S)
                    /\ \A i \in 1 .. Len(n.children) : At(k - 1, n.children[i], g[i])
  <2>1. PICK g : /\ Shares(n, g, S)
                 /\ \A i \in 1 .. Len(n.children) : <<n.children[i], k - 1, g[i]>> \in R
    BY <1>2, <1>3 DEF Justified
  <2> QED
    BY <1>1, <2>1 DEF At
<1> QED
  BY <1>2, <1>3 DEF Justified

\* A leaf is at height 0.
LEMMA LeafIsAt ==
    ASSUME NEW n, Sized(n), n.children = <<>>
    PROVE  At(0, n, ToSet(n.entries))
<1> DEFINE R == {<<n, 0, ToSet(n.entries)>>}
<1>1. Grounded(R)
  BY DEF Grounded, Justified
<1> QED
  BY <1>1 DEF At

\* A node is one higher than its children, which share its entries.
LEMMA InnerIsAt ==
    ASSUME NEW k \in Nat, NEW n, NEW S, NEW g, Sized(n), Shares(n, g, S),
           \A i \in 1 .. Len(n.children) : At(k, n.children[i], g[i])
    PROVE  At(k + 1, n, S)
<1> DEFINE D == 1 .. Len(n.children)
           Of(i) == CHOOSE R : Grounded(R) /\ <<n.children[i], k, g[i]>> \in R
           R == (UNION {Of(i) : i \in D}) \cup {<<n, k + 1, S>>}
<1>1. \A i \in D : Grounded(Of(i)) /\ <<n.children[i], k, g[i]>> \in Of(i)
  BY DEF At
<1> HIDE DEF Of
<1>2. \A x, Q : Q \subseteq R /\ Justified(x[1], x[2], x[3], Q) => Justified(x[1], x[2], x[3], R)
  <2> HIDE DEF R
  <2> QED
    BY Zenon DEF Justified
<1>3. ASSUME NEW x \in R
      PROVE  Justified(x[1], x[2], x[3], R)
  <2>1. CASE x = <<n, k + 1, S>>
    <3>1. \A i \in D : <<n.children[i], k, g[i]>> \in R
      BY <1>1
    <3> HIDE DEF R
    <3>2. k + 1 \in Nat /\ k + 1 # 0 /\ (k + 1) - 1 = k
      OBVIOUS
    <3> QED
      BY <2>1, <3>1, <3>2 DEF Justified
  <2>2. CASE x # <<n, k + 1, S>>
    <3>1. PICK i \in D : x \in Of(i)
      BY <2>2
    <3>2. Of(i) \subseteq R /\ Justified(x[1], x[2], x[3], Of(i))
      BY <1>1, <3>1 DEF Grounded
    <3> QED
      BY <1>2, <3>2
  <2> QED
    BY <2>1, <2>2
<1>4. Grounded(R)
  BY <1>3 DEF Grounded
<1>5. <<n, k + 1, S>> \in R
  OBVIOUS
<1> HIDE DEF R
<1> QED
  BY <1>4, <1>5 DEF At

-------------------------------------------------------------------------------
\* An element put into a sequence.
LEMMA InsertedAt ==
    ASSUME NEW W, NEW s \in Seq(W), NEW i \in 1 .. Len(s) + 1, NEW e \in W
    PROVE  /\ InsertAt(s, i, e) \in Seq(W) /\ Len(InsertAt(s, i, e)) = Len(s) + 1
           /\ \A j \in 1 .. Len(s) + 1 :
                  InsertAt(s, i, e)[j] = IF j < i THEN s[j] ELSE IF j = i THEN e ELSE s[j - 1]
<1> DEFINE a == SubSeq(s, 1, i - 1)
           b == SubSeq(s, i, Len(s))
<1>1. Len(s) \in Nat /\ \A j \in 1 .. Len(s) : s[j] \in W
  BY LenProperties, ElementOfSeq
<1>2. /\ a \in Seq(W) /\ Len(a) = i - 1
      /\ \A j \in 1 .. i - 1 : a[j] = s[j]
  <2>1. \A j \in 1 .. i - 1 : s[j] \in W
    BY <1>1
  <2>2. 1 \in Int /\ i - 1 \in Int
    BY <1>1
  <2>3. /\ a \in Seq(W) /\ Len(a) = (IF 1 <= i - 1 THEN i - 1 - 1 + 1 ELSE 0)
        /\ \A j \in 1 .. i - 1 - 1 + 1 : a[j] = s[1 + j - 1]
    BY <2>1, <2>2, SubSeqProperties
  <2> HIDE DEF a
  <2> QED
    BY <1>1, <2>3
<1>3. /\ b \in Seq(W) /\ Len(b) = Len(s) - i + 1
      /\ \A j \in 1 .. Len(s) - i + 1 : b[j] = s[i + j - 1]
  <2>1. \A j \in i .. Len(s) : s[j] \in W
    BY <1>1
  <2>2. Len(s) \in Int /\ i \in Int
    BY <1>1
  <2>3. /\ b \in Seq(W) /\ Len(b) = (IF i <= Len(s) THEN Len(s) - i + 1 ELSE 0)
        /\ \A j \in 1 .. Len(s) - i + 1 : b[j] = s[i + j - 1]
    BY <2>1, <2>2, SubSeqProperties
  <2> HIDE DEF b
  <2> QED
    BY <1>1, <2>3
<1> HIDE DEF a, b
<1>4. <<e>> \in Seq(W) /\ Len(<<e>>) = 1 /\ <<e>>[1] = e
  OBVIOUS
<1> DEFINE c == a \o <<e>>
<1>5. /\ c \in Seq(W) /\ Len(c) = i
      /\ \A j \in 1 .. i : c[j] = IF j < i THEN s[j] ELSE e
  <2>1. /\ c \in Seq(W) /\ Len(c) = Len(a) + 1
        /\ \A j \in 1 .. Len(a) + 1 : c[j] = IF j <= Len(a) THEN a[j] ELSE <<e>>[j - Len(a)]
    BY <1>2, <1>4, ConcatProperties
  <2> HIDE DEF c
  <2>2. \A j \in 1 .. i : j <= i - 1 \/ j = i
    BY <1>1
  <2> QED
    BY <1>1, <1>2, <1>4, <2>1, <2>2
<1> HIDE DEF c
<1>6. /\ c \o b \in Seq(W) /\ Len(c \o b) = Len(c) + Len(b)
      /\ \A j \in 1 .. Len(c) + Len(b) : (c \o b)[j] = IF j <= Len(c) THEN c[j] ELSE b[j - Len(c)]
  BY <1>3, <1>5, ConcatProperties
<1>7. InsertAt(s, i, e) = c \o b
  BY DEF InsertAt, a, b, c
<1>8. ASSUME NEW j \in 1 .. Len(s) + 1
      PROVE  (c \o b)[j] = IF j < i THEN s[j] ELSE IF j = i THEN e ELSE s[j - 1]
  <2>1. CASE j <= i
    BY <1>1, <1>3, <1>5, <1>6, <2>1
  <2>2. CASE j > i
    <3>1. j - i \in 1 .. Len(s) - i + 1 /\ i + (j - i) - 1 = j - 1
      BY <1>1, <2>2
    <3>2. b[j - i] = s[j - 1]
      BY <1>3, <3>1
    <3> QED
      BY <1>1, <1>3, <1>5, <1>6, <2>2, <3>2
  <2>3. j <= i \/ j > i
    BY <1>1
  <2> QED
    BY <2>1, <2>2, <2>3, Zenon
<1> QED
  BY <1>1, <1>3, <1>5, <1>6, <1>7, <1>8

\* The types of the parts of entries.
LEMMA EntriesAre ==
    ASSUME NEW s \in Seq(Entry)
    PROVE  /\ Len(s) \in Nat /\ DOMAIN s = 1 .. Len(s)
           /\ \A j \in 1 .. Len(s) : s[j] \in Entry /\ s[j].key \in Int
<1>1. Len(s) \in Nat /\ DOMAIN s = 1 .. Len(s) /\ \A j \in 1 .. Len(s) : s[j] \in Entry
  BY LenProperties, ElementOfSeq
<1>2. \A e \in Entry : e.key \in Int
  BY DEF Entry
<1> QED
  BY <1>1, <1>2

\* Entries up to the slot for a key are not above it, the others are.
LEMMA SlotFacts ==
    ASSUME NEW s \in Seq(Entry), Ordered(s), NEW key \in Int
    PROVE  /\ Slot(s, key) \in 1 .. Len(s) + 1
           /\ \A j \in 1 .. Len(s) : /\ j < Slot(s, key) => s[j].key <= key
                                     /\ j >= Slot(s, key) => key < s[j].key
<1>1. Len(s) \in Nat /\ DOMAIN s = 1 .. Len(s) /\ \A j \in 1 .. Len(s) : s[j].key \in Int
  BY EntriesAre
<1> DEFINE low == {0} \cup {i \in DOMAIN s : ~(key < s[i].key)}
           far == {Len(s) - i : i \in low}
           m == Max(low)
<1>2. low \subseteq 0 .. Len(s)
  BY <1>1
<1>3. PICK f \in far : \A h \in far : f <= h
  <2>1. far \in SUBSET Nat /\ far # {}
    BY <1>1, <1>2
  <2> HIDE DEF far
  <2> QED
    BY <2>1, LeastElement
<1>4. PICK x \in low : f = Len(s) - x
  BY <1>3
<1>5. \A y \in low : x >= y
  <2> SUFFICES ASSUME NEW y \in low PROVE x >= y
    OBVIOUS
  <2>1. Len(s) - y \in far
    OBVIOUS
  <2> HIDE DEF far, low
  <2> QED
    BY <1>1, <1>2, <1>3, <1>4, <2>1
<1>6. m \in low /\ \A y \in low : m >= y
  BY <1>5 DEF Max
<1> HIDE DEF m
<1>7. Slot(s, key) = 1 + m
  BY DEF Slot, m
<1>8. ASSUME NEW j \in 1 .. Len(s), j < 1 + m
      PROVE  s[j].key <= key
  <2>1. m \in 1 .. Len(s) /\ s[m].key <= key
    BY <1>1, <1>2, <1>6, <1>8
  <2>2. j = m \/ s[j].key <= s[m].key
    BY <1>1, <1>8, <2>1 DEF Ordered
  <2> QED
    BY <1>1, <2>1, <2>2
<1>9. ASSUME NEW j \in 1 .. Len(s), j >= 1 + m
      PROVE  key < s[j].key
  <2>1. j \notin low
    <3>1. m \in Int
      BY <1>1, <1>2, <1>6
    <3> HIDE DEF low
    <3> QED
      BY <1>6, <1>9, <3>1
  <2> QED
    BY <1>1, <2>1
<1>10. m \in 0 .. Len(s)
  BY <1>2, <1>6
<1> QED
  BY <1>1, <1>7, <1>8, <1>9, <1>10

\* Entries up to the probe for a key are below it, the others are not.
LEMMA ProbeFacts ==
    ASSUME NEW x, x.entries \in Seq(Entry), Ordered(x.entries), NEW key \in Int
    PROVE  /\ Probe(x, key) \in 1 .. Len(x.entries) + 1
           /\ \A j \in 1 .. Len(x.entries) : /\ j < Probe(x, key) => x.entries[j].key < key
                                             /\ j >= Probe(x, key) => key <= x.entries[j].key
<1> DEFINE s == x.entries
           high == {Len(s) + 1} \cup {i \in DOMAIN s : ~(key > s[i].key)}
           m == Min(high)
<1>1. Len(s) \in Nat /\ DOMAIN s = 1 .. Len(s) /\ \A j \in 1 .. Len(s) : s[j].key \in Int
  BY EntriesAre
<1> HIDE DEF s
<1>2. high \subseteq 1 .. Len(s) + 1
  BY <1>1
<1>3. PICK y \in high : \A z \in high : y <= z
  <2>1. high \in SUBSET Nat /\ high # {}
    BY <1>1, <1>2
  <2> HIDE DEF high
  <2> QED
    BY <2>1, LeastElement
<1>4. m \in high /\ \A z \in high : m <= z
  BY <1>3 DEF Min
<1> HIDE DEF m
<1>5. Probe(x, key) = m
  BY DEF Probe, m, s
<1>6. ASSUME NEW j \in 1 .. Len(s), j < m
      PROVE  s[j].key < key
  <2>1. j \notin high
    <3>1. m \in Int
      BY <1>1, <1>2, <1>4
    <3> HIDE DEF high
    <3> QED
      BY <1>4, <1>6, <3>1
  <2> QED
    BY <1>1, <2>1
<1>7. ASSUME NEW j \in 1 .. Len(s), j >= m
      PROVE  key <= s[j].key
  <2>1. m \in 1 .. Len(s) /\ key <= s[m].key
    <3>1. m \in 1 .. Len(s)
      <4>1. m \in 1 .. Len(s) + 1
        BY <1>2, <1>4
      <4> HIDE DEF high
      <4> QED
        BY <1>1, <1>7, <4>1
    <3>2. m # Len(s) + 1
      BY <1>1, <3>1
    <3> QED
      BY <1>1, <1>4, <3>1, <3>2
  <2>2. j = m \/ s[m].key <= s[j].key
    <3>1. j = m \/ m < j
      BY <1>1, <1>7, <2>1
    <3>2. Ordered(s) /\ m \in DOMAIN s /\ j \in DOMAIN s
      BY <1>1, <2>1 DEF s
    <3> QED
      BY <3>1, <3>2 DEF Ordered
  <2> HIDE DEF high
  <2> QED
    BY <1>1, <2>1, <2>2
<1>8. m \in 1 .. Len(s) + 1
  BY <1>2, <1>4
<1> QED
  BY <1>5, <1>6, <1>7, <1>8 DEF s

-------------------------------------------------------------------------------
\* A part of a sequence.
LEMMA Cut ==
    ASSUME NEW W, NEW s \in Seq(W), NEW a \in Int, NEW b \in Int, 1 <= a, a <= b + 1, b <= Len(s)
    PROVE  /\ SubSeq(s, a, b) \in Seq(W) /\ Len(SubSeq(s, a, b)) = b - a + 1
           /\ \A i \in 1 .. b - a + 1 : SubSeq(s, a, b)[i] = s[a + i - 1]
<1>1. Len(s) \in Nat /\ \A j \in 1 .. Len(s) : s[j] \in W
  BY LenProperties, ElementOfSeq
<1>2. \A j \in a .. b : s[j] \in W
  BY <1>1
<1>3. /\ SubSeq(s, a, b) \in Seq(W) /\ Len(SubSeq(s, a, b)) = (IF a <= b THEN b - a + 1 ELSE 0)
      /\ \A i \in 1 .. b - a + 1 : SubSeq(s, a, b)[i] = s[a + i - 1]
  BY <1>2, SubSeqProperties
<1> QED
  BY <1>3

\* A sequence is one over its own elements.
LEMMA OwnElements ==
    ASSUME NEW W, NEW s \in Seq(W)
    PROVE  /\ s \in Seq(ToSet(s)) /\ Len(s) \in Nat /\ DOMAIN s = 1 .. Len(s)
           /\ ToSet(s) = {s[i] : i \in 1 .. Len(s)}
           /\ s = <<>> <=> Len(s) = 0
<1>1. Len(s) \in Nat /\ DOMAIN s = 1 .. Len(s) /\ \A i \in 1 .. Len(s) : s[i] \in ToSet(s)
  BY LenProperties DEF ToSet
<1>2. s \in Seq(Range(s))
  BY SeqOfRange
<1>3. Range(s) = ToSet(s)
  BY DEF Range, ToSet
<1>4. s = <<>> <=> Len(s) = 0
  BY EmptySeq
<1> QED
  BY <1>1, <1>2, <1>3, <1>4 DEF ToSet

\* A node that is made of ordered entries and of children.
LEMMA NodeIs ==
    ASSUME NEW W, NEW entries \in Seq(Entry), Len(entries) <= maxEntries, Ordered(entries),
           NEW children \in Seq(W)
    PROVE  LET n == Node(entries, children)
           IN  /\ Sized(n) /\ n.entries = entries /\ n.children = children
               /\ n.leaf <=> children = <<>>
<1> DEFINE n == Node(entries, children)
<1>1. /\ n.entries = entries /\ n.children = children
      /\ n.leaf <=> children = <<>>
  BY DEF Node
<1>2. DOMAIN n = {"leaf", "entries", "children"} /\ n.leaf = (children = <<>>)
  BY DEF Node
<1> HIDE DEF n
<1>3. children \in Seq(ToSet(children))
  BY OwnElements
<1>4. n.leaf = (n.children = <<>>)
  BY <1>1, <1>2, Zenon
<1>5. Sized(n)
  BY <1>1, <1>2, <1>3, <1>4, Zenon DEF Sized
<1> QED
  BY <1>1, <1>5 DEF n

\* The same for a leaf.
LEMMA LeafNodeIs ==
    ASSUME NEW entries \in Seq(Entry), Len(entries) <= maxEntries, Ordered(entries)
    PROVE  LET n == Node(entries, <<>>)
           IN  Sized(n) /\ n.entries = entries /\ n.children = <<>>
<1>1. ASSUME NEW none \in Seq(Entry)
      PROVE  LET n == Node(entries, none)
             IN  Sized(n) /\ n.entries = entries /\ n.children = none
  BY NodeIs
<1>2. <<>> \in Seq(Entry)
  BY EmptySeq
<1> QED
  BY <1>1, <1>2, Zenon

LowHalf(y) == Node(SubSeq(y.entries, 1, t - 1), IF y.leaf THEN <<>> ELSE SubSeq(y.children, 1, t))

HighHalf(y) == Node(SubSeq(y.entries, t + 1, maxEntries),
                    IF y.leaf THEN <<>> ELSE SubSeq(y.children, t + 1, 2 * t))

\* What a sized node is made of.
LEMMA SizedParts ==
    ASSUME NEW n, Sized(n)
    PROVE  /\ n.entries \in Seq(Entry) /\ Len(n.entries) \in Nat /\ Ordered(n.entries)
           /\ DOMAIN n.entries = 1 .. Len(n.entries)
           /\ \A j \in 1 .. Len(n.entries) : n.entries[j] \in Entry /\ n.entries[j].key \in Int
           /\ n.children \in Seq(ToSet(n.children)) /\ Len(n.children) \in Nat
           /\ DOMAIN n.children = 1 .. Len(n.children)
           /\ n.leaf <=> n.children = <<>>
           /\ n.leaf <=> Len(n.children) = 0
<1>1. n.leaf <=> n.children = <<>>
  BY DEF Sized
<1> QED
  BY <1>1, EntriesAre, OwnElements DEF Sized

\* The entries of a full node: the low ones, the median and the high ones.
LEMMA EntriesShared ==
    ASSUME NEW s \in Seq(Entry), Len(s) = maxEntries, Ordered(s)
    PROVE  LET a == SubSeq(s, 1, t - 1)
               b == SubSeq(s, t + 1, maxEntries)
           IN  /\ a \in Seq(Entry) /\ Len(a) = t - 1 /\ Ordered(a)
               /\ b \in Seq(Entry) /\ Len(b) = t - 1 /\ Ordered(b)
               /\ \A j \in 1 .. t - 1 : a[j] = s[j] /\ b[j] = s[t + j]
               /\ ToSet(s) = ToSet(a) \cup ToSet(b) \cup {s[t]}
               /\ s[t] \in Entry
               /\ \A e \in ToSet(a) : e.key <= s[t].key
               /\ \A e \in ToSet(b) : s[t].key <= e.key
<1> DEFINE a == SubSeq(s, 1, t - 1)
           b == SubSeq(s, t + 1, maxEntries)
<1>1. t \in Nat /\ t >= 2 /\ maxEntries = 2 * t - 1
  BY DegreeAssumption DEF maxEntries
<1>2. DOMAIN s = 1 .. 2 * t - 1 /\ \A j \in 1 .. 2 * t - 1 : s[j] \in Entry /\ s[j].key \in Int
  BY <1>1, EntriesAre
<1>3. /\ a \in Seq(Entry) /\ Len(a) = t - 1
      /\ \A j \in 1 .. t - 1 : a[j] = s[j]
  <2>1. /\ a \in Seq(Entry) /\ Len(a) = t - 1 - 1 + 1
        /\ \A j \in 1 .. t - 1 - 1 + 1 : a[j] = s[1 + j - 1]
    BY <1>1, Cut
  <2> HIDE DEF a
  <2> QED
    BY <1>1, <2>1
<1>4. /\ b \in Seq(Entry) /\ Len(b) = t - 1
      /\ \A j \in 1 .. t - 1 : b[j] = s[t + j]
  <2>1. /\ b \in Seq(Entry) /\ Len(b) = maxEntries - (t + 1) + 1
        /\ \A j \in 1 .. maxEntries - (t + 1) + 1 : b[j] = s[t + 1 + j - 1]
    BY <1>1, Cut
  <2> HIDE DEF b
  <2> QED
    BY <1>1, <2>1
<1> HIDE DEF a, b
<1>5. DOMAIN a = 1 .. t - 1 /\ DOMAIN b = 1 .. t - 1
  BY <1>3, <1>4, EntriesAre
<1>6. Ordered(a) /\ Ordered(b)
  <2>1. \A i, j \in 1 .. 2 * t - 1 : i < j => s[i].key <= s[j].key
    BY <1>2 DEF Ordered
  <2>2. \A i, j \in 1 .. t - 1 : i < j => a[i].key <= a[j].key /\ b[i].key <= b[j].key
    <3> SUFFICES ASSUME NEW i \in 1 .. t - 1, NEW j \in 1 .. t - 1, i < j
                 PROVE  a[i].key <= a[j].key /\ b[i].key <= b[j].key
      OBVIOUS
    <3>1. i \in 1 .. 2 * t - 1 /\ j \in 1 .. 2 * t - 1 /\ t + i \in 1 .. 2 * t - 1
          /\ t + j \in 1 .. 2 * t - 1 /\ t + i < t + j
      BY <1>1
    <3> QED
      BY <1>3, <1>4, <2>1, <3>1
  <2> QED
    BY <1>5, <2>2 DEF Ordered
<1>7. /\ ToSet(a) = {s[j] : j \in 1 .. t - 1}
      /\ ToSet(b) = {s[j] : j \in t + 1 .. 2 * t - 1}
      /\ ToSet(s) = {s[j] : j \in 1 .. 2 * t - 1}
  <2>1. ToSet(a) = {s[j] : j \in 1 .. t - 1}
    BY <1>3, <1>5 DEF ToSet
  <2>2. ToSet(b) = {s[t + j] : j \in 1 .. t - 1}
    BY <1>4, <1>5 DEF ToSet
  <2>3. \A j \in t + 1 .. 2 * t - 1 : j - t \in 1 .. t - 1 /\ t + (j - t) = j
    BY <1>1
  <2>4. \A j \in 1 .. t - 1 : t + j \in t + 1 .. 2 * t - 1
    BY <1>1
  <2>5. {s[t + j] : j \in 1 .. t - 1} = {s[j] : j \in t + 1 .. 2 * t - 1}
    <3>1. ASSUME NEW j \in t + 1 .. 2 * t - 1
          PROVE  s[j] \in {s[t + i] : i \in 1 .. t - 1}
      BY <2>3, Zenon
    <3>2. ASSUME NEW j \in 1 .. t - 1
          PROVE  s[t + j] \in {s[i] : i \in t + 1 .. 2 * t - 1}
      BY <2>4, Zenon
    <3> QED
      BY <3>1, <3>2
  <2>6. ToSet(s) = {s[j] : j \in 1 .. 2 * t - 1}
    BY <1>2 DEF ToSet
  <2> QED
    BY <2>1, <2>2, <2>5, <2>6
<1>8. 1 .. 2 * t - 1 = (1 .. t - 1) \cup {t} \cup (t + 1 .. 2 * t - 1)
  BY <1>1
<1>9. ToSet(s) = ToSet(a) \cup ToSet(b) \cup {s[t]}
  BY <1>7, <1>8
<1>10. t \in 1 .. 2 * t - 1 /\ s[t] \in Entry
  BY <1>1, <1>2
<1>11. /\ \A e \in ToSet(a) : e.key <= s[t].key
       /\ \A e \in ToSet(b) : s[t].key <= e.key
  <2>1. \A j \in 1 .. t - 1 : j \in DOMAIN s /\ j < t
    BY <1>1, <1>2
  <2>2. \A j \in t + 1 .. 2 * t - 1 : j \in DOMAIN s /\ t < j
    BY <1>1, <1>2
  <2> QED
    BY <1>2, <1>7, <1>10, <2>1, <2>2 DEF Ordered
<1> QED
  BY <1>3, <1>4, <1>6, <1>9, <1>10, <1>11 DEF a, b

\* The entries S are those under two nodes, and one between them.
Halved(k, low, high, med, S) ==
    \E A, B \in SUBSET Entry :
        /\ At(k, low, A) /\ At(k, high, B)
        /\ S = A \cup B \cup {med}
        /\ \A e \in A : e.key <= med.key
        /\ \A e \in B : med.key <= e.key

\* The two halves of a full node have the entries it had, but for the median, which
\* is between them.
LEMMA SplitHalves ==
    ASSUME NEW k, NEW y, NEW S, At(k, y, S), Len(y.entries) = maxEntries
    PROVE  /\ y.entries[t] \in Entry
           /\ Len(LowHalf(y).entries) = t - 1 /\ Len(HighHalf(y).entries) = t - 1
           /\ Halved(k, LowHalf(y), HighHalf(y), y.entries[t], S)
<1> DEFINE es == y.entries
           cs == y.children
           a == SubSeq(es, 1, t - 1)
           b == SubSeq(es, t + 1, maxEntries)
           med == es[t]
           low == LowHalf(y)
           high == HighHalf(y)
<1>1. t \in Nat /\ t >= 2 /\ maxEntries = 2 * t - 1
  BY DegreeAssumption DEF maxEntries
<1>2. k \in Nat /\ Sized(y)
  BY AtMeans
<1>3. /\ a \in Seq(Entry) /\ Len(a) = t - 1 /\ Ordered(a)
      /\ b \in Seq(Entry) /\ Len(b) = t - 1 /\ Ordered(b)
      /\ \A j \in 1 .. t - 1 : a[j] = es[j] /\ b[j] = es[t + j]
      /\ ToSet(es) = ToSet(a) \cup ToSet(b) \cup {med}
      /\ med \in Entry
      /\ \A e \in ToSet(a) : e.key <= med.key
      /\ \A e \in ToSet(b) : med.key <= e.key
  BY <1>2, EntriesShared, SizedParts
<1>4. ToSet(a) \subseteq Entry /\ ToSet(b) \subseteq Entry
  <2> HIDE DEF a, b
  <2> QED
    BY <1>3, EntriesAre DEF ToSet
<1>5. Len(a) <= maxEntries /\ Len(b) <= maxEntries
  BY <1>1, <1>3
<1>6. CASE k = 0
  <2>1. cs = <<>> /\ S = ToSet(es) /\ y.leaf
    BY <1>2, <1>6, AtMeans, SizedParts
  <2>2. low = Node(a, <<>>) /\ high = Node(b, <<>>)
    BY <2>1 DEF LowHalf, HighHalf
  <2> HIDE DEF a, b, es, low, high
  <2>4. /\ Sized(low) /\ low.entries = a /\ low.children = <<>>
        /\ Sized(high) /\ high.entries = b /\ high.children = <<>>
    <3>1. LET n == Node(a, <<>>)
          IN  Sized(n) /\ n.entries = a /\ n.children = <<>>
      BY <1>3, <1>5, LeafNodeIs
    <3>2. LET n == Node(b, <<>>)
          IN  Sized(n) /\ n.entries = b /\ n.children = <<>>
      BY <1>3, <1>5, LeafNodeIs
    <3> QED
      BY <2>2, <3>1, <3>2
  <2>5. At(0, low, ToSet(a)) /\ At(0, high, ToSet(b))
    BY <2>4, LeafIsAt
  <2> QED
    BY <1>3, <1>4, <1>6, <2>1, <2>4, <2>5 DEF es, low, high, Halved
<1>7. CASE k # 0
  <2>1. PICK g : /\ Shares(y, g, S)
                 /\ \A i \in 1 .. Len(cs) : At(k - 1, cs[i], g[i])
    BY <1>7, AtMeans
  <2>2. /\ cs \in Seq(ToSet(cs)) /\ Len(cs) = 2 * t /\ ~y.leaf
    BY <1>1, <1>2, <2>1, SizedParts DEF Shares
  <2> DEFINE c == SubSeq(cs, 1, t)
             d == SubSeq(cs, t + 1, 2 * t)
             ga == [i \in 1 .. t |-> g[i]]
             gb == [i \in 1 .. t |-> g[t + i]]
             A == ToSet(a) \cup UNION {ga[i] : i \in 1 .. t}
             B == ToSet(b) \cup UNION {gb[i] : i \in 1 .. t}
  <2>3. low = Node(a, c) /\ high = Node(b, d)
    BY <2>2 DEF LowHalf, HighHalf
  <2>4. /\ c \in Seq(ToSet(cs)) /\ Len(c) = t
        /\ \A i \in 1 .. t : c[i] = cs[i]
    <3>1. /\ c \in Seq(ToSet(cs)) /\ Len(c) = t - 1 + 1
          /\ \A i \in 1 .. t - 1 + 1 : c[i] = cs[1 + i - 1]
      BY <1>1, <2>2, Cut
    <3> HIDE DEF c
    <3> QED
      BY <1>1, <3>1
  <2>5. /\ d \in Seq(ToSet(cs)) /\ Len(d) = t
        /\ \A i \in 1 .. t : d[i] = cs[t + i]
    <3>1. /\ d \in Seq(ToSet(cs)) /\ Len(d) = 2 * t - (t + 1) + 1
          /\ \A i \in 1 .. 2 * t - (t + 1) + 1 : d[i] = cs[t + 1 + i - 1]
      BY <1>1, <2>2, Cut
    <3> HIDE DEF d
    <3> QED
      BY <1>1, <3>1
  <2> HIDE DEF a, b, c, d, low, high
  <2>6. /\ Sized(low) /\ low.entries = a /\ low.children = c
        /\ Sized(high) /\ high.entries = b /\ high.children = d
    BY <1>3, <1>5, <2>3, <2>4, <2>5, NodeIs
  <2>7. /\ g \in [1 .. 2 * t -> SUBSET Entry]
        /\ \A i \in 1 .. 2 * t, j \in 1 .. 2 * t - 1 : \A e \in g[i] :
               /\ j < i => es[j].key <= e.key
               /\ j >= i => e.key <= es[j].key
        /\ S = ToSet(es) \cup UNION {g[i] : i \in 1 .. 2 * t}
        /\ \A i \in 1 .. 2 * t : Len(cs[i].entries) >= t - 1
    BY <1>1, <2>1, <2>2 DEF Shares
  <2>8. \A i \in 1 .. t : /\ i \in 1 .. 2 * t /\ t + i \in 1 .. 2 * t
                          /\ ga[i] = g[i] /\ gb[i] = g[t + i]
    BY <1>1
  <2>9. ga \in [1 .. t -> SUBSET Entry] /\ gb \in [1 .. t -> SUBSET Entry]
    BY <2>7, <2>8
  <2> HIDE DEF ga, gb
  <2>10. /\ \A i \in 1 .. t, j \in 1 .. t - 1 : \A e \in ga[i] :
               /\ j < i => a[j].key <= e.key
               /\ j >= i => e.key <= a[j].key
    <3>1. \A j \in 1 .. t - 1 : j \in 1 .. 2 * t - 1 /\ a[j] = es[j]
      BY <1>1, <1>3
    <3> QED
      BY <2>7, <2>8, <3>1
  <2>11. /\ \A i \in 1 .. t, j \in 1 .. t - 1 : \A e \in gb[i] :
               /\ j < i => b[j].key <= e.key
               /\ j >= i => e.key <= b[j].key
    <3>1. \A j \in 1 .. t - 1 : t + j \in 1 .. 2 * t - 1 /\ b[j] = es[t + j]
      <4>1. \A j \in 1 .. t - 1 : t + j \in 1 .. 2 * t - 1
        BY <1>1
      <4> QED
        BY <1>3, <4>1
    <3>2. \A i \in 1 .. t, j \in 1 .. t - 1 : (j < i <=> t + j < t + i) /\ (j >= i <=> t + j >= t + i)
      BY <1>1
    <3> QED
      BY <2>7, <2>8, <3>1, <3>2
  <2>12. Shares(low, ga, A) /\ Shares(high, gb, B)
    <3>1. t = (t - 1) + 1
      BY <1>1
    <3>2. \A i \in 1 .. t : Len(c[i].entries) >= t - 1 /\ Len(d[i].entries) >= t - 1
      BY <2>4, <2>5, <2>7, <2>8
    <3> QED
      BY <1>3, <2>4, <2>5, <2>6, <2>9, <2>10, <2>11, <3>1, <3>2 DEF Shares
  <2>13. At(k, low, A) /\ At(k, high, B)
    <3>1. k - 1 \in Nat /\ (k - 1) + 1 = k
      BY <1>2, <1>7
    <3>2. \A i \in 1 .. t : At(k - 1, c[i], ga[i]) /\ At(k - 1, d[i], gb[i])
      BY <2>1, <2>2, <2>4, <2>5, <2>8
    <3> HIDE DEF A, B
    <3>3. ASSUME NEW n, NEW gn, NEW Q, Sized(n), Shares(n, gn, Q),
                 \A i \in 1 .. Len(n.children) : At(k - 1, n.children[i], gn[i])
          PROVE  At(k, n, Q)
      <4>1. At((k - 1) + 1, n, Q)
        BY <3>1, <3>3, InnerIsAt
      <4> QED
        BY <3>1, <4>1
    <3>4. \A i \in 1 .. Len(low.children) : At(k - 1, low.children[i], ga[i])
      BY <2>4, <2>6, <3>2
    <3>5. \A i \in 1 .. Len(high.children) : At(k - 1, high.children[i], gb[i])
      BY <2>5, <2>6, <3>2
    <3> QED
      BY <2>6, <2>12, <3>3, <3>4, <3>5
  <2>14. A \in SUBSET Entry /\ B \in SUBSET Entry
    BY <1>4, <2>9
  <2>15. S = A \cup B \cup {med}
    <3>1. 1 .. 2 * t = (1 .. t) \cup {t + i : i \in 1 .. t}
      <4>1. \A i \in 1 .. 2 * t : i \in 1 .. t \/ (i - t \in 1 .. t /\ i = t + (i - t))
        BY <1>1
      <4> QED
        BY <2>8, <4>1
    <3>2. UNION {g[i] : i \in 1 .. 2 * t} = (UNION {ga[i] : i \in 1 .. t}) \cup UNION {gb[i] : i \in 1 .. t}
      BY <2>8, <3>1
    <3> HIDE DEF med
    <3> QED
      BY <1>3, <2>7, <3>2
  <2>16. /\ \A e \in A : e.key <= med.key
         /\ \A e \in B : med.key <= e.key
    <3>1. \A i \in 1 .. t : t \in 1 .. 2 * t - 1 /\ t >= i /\ t < t + i
      BY <1>1
    <3>2. ASSUME NEW i \in 1 .. t
          PROVE  /\ \A e \in ga[i] : e.key <= med.key
                 /\ \A e \in gb[i] : med.key <= e.key
      <4>1. /\ \A e \in g[i] : e.key <= med.key
            /\ \A e \in g[t + i] : med.key <= e.key
        BY <2>7, <2>8, <3>1
      <4> QED
        BY <2>8, <4>1
    <3>3. ASSUME NEW e \in A
          PROVE  e.key <= med.key
      <4>1. e \in ToSet(a) \/ \E i \in 1 .. t : e \in ga[i]
        OBVIOUS
      <4> QED
        BY <1>3, <3>2, <4>1
    <3>4. ASSUME NEW e \in B
          PROVE  med.key <= e.key
      <4>1. e \in ToSet(b) \/ \E i \in 1 .. t : e \in gb[i]
        OBVIOUS
      <4> QED
        BY <1>3, <3>2, <4>1
    <3> QED
      BY <3>3, <3>4
  <2> QED
    BY <1>3, <2>6, <2>13, <2>14, <2>15, <2>16 DEF low, high, Halved
<1> QED
  BY <1>6, <1>7

\* A split leaves the same entries under the node.
LEMMA SplitKeeps ==
    ASSUME NEW k, NEW x, NEW S, At(k, x, S), k # 0, NEW i \in 1 .. Len(x.children),
           isFull(x.children[i]), Len(x.entries) < maxEntries
    PROVE  LET u   == splitChild(x, i)
               y   == x.children[i]
           IN  /\ At(k, u, S) /\ Len(u.entries) = Len(x.entries) + 1
               /\ \A j \in 1 .. Len(u.entries) :
                      u.entries[j] = IF j < i THEN x.entries[j]
                                     ELSE IF j = i THEN y.entries[t] ELSE x.entries[j - 1]
               /\ u.children[i] = LowHalf(y) /\ u.children[i + 1] = HighHalf(y)
               /\ Len(LowHalf(y).entries) = t - 1 /\ Len(HighHalf(y).entries) = t - 1
<1> DEFINE es == x.entries
           cs == x.children
           y == cs[i]
           med == y.entries[t]
           low == LowHalf(y)
           high == HighHalf(y)
           W == ToSet(cs) \cup {low, high}
           es2 == InsertAt(es, i, med)
           cs1 == [cs EXCEPT ![i] = low]
           cs2 == InsertAt(cs1, i + 1, high)
           u == splitChild(x, i)
<1>1. t \in Nat /\ t >= 2 /\ maxEntries = 2 * t - 1
  BY DegreeAssumption DEF maxEntries
<1>2. k \in Nat /\ Sized(x)
  BY AtMeans
<1>3. PICK g : /\ Shares(x, g, S)
               /\ \A j \in 1 .. Len(cs) : At(k - 1, cs[j], g[j])
  BY AtMeans
<1>4. /\ es \in Seq(Entry) /\ Len(es) \in Nat /\ Ordered(es) /\ DOMAIN es = 1 .. Len(es)
      /\ \A j \in 1 .. Len(es) : es[j] \in Entry /\ es[j].key \in Int
      /\ cs \in Seq(ToSet(cs)) /\ DOMAIN cs = 1 .. Len(cs) /\ Len(cs) = Len(es) + 1
  BY <1>2, <1>3, SizedParts DEF Shares
<1>5. /\ g \in [1 .. Len(es) + 1 -> SUBSET Entry]
      /\ \A j \in 1 .. Len(es) + 1, m \in 1 .. Len(es) : \A e \in g[j] :
             /\ m < j => es[m].key <= e.key
             /\ m >= j => e.key <= es[m].key
      /\ S = ToSet(es) \cup UNION {g[j] : j \in 1 .. Len(es) + 1}
      /\ \A j \in 1 .. Len(es) + 1 : Len(cs[j].entries) >= t - 1
  BY <1>3, <1>4 DEF Shares
<1>6. i \in 1 .. Len(es) + 1
  BY <1>4
<1>7. /\ med \in Entry /\ Len(low.entries) = t - 1 /\ Len(high.entries) = t - 1
      /\ Halved(k - 1, low, high, med, g[i])
  <2>1. At(k - 1, y, g[i]) /\ Len(y.entries) = maxEntries
    BY <1>3 DEF isFull
  <2> HIDE DEF y, es, cs, W, es2, cs1, cs2, u
  <2> QED
    BY <2>1, SplitHalves
<1>8. PICK A, B \in SUBSET Entry :
             /\ At(k - 1, low, A) /\ At(k - 1, high, B)
             /\ g[i] = A \cup B \cup {med}
             /\ \A e \in A : e.key <= med.key
             /\ \A e \in B : med.key <= e.key
  BY <1>7 DEF Halved
<1>9. u = Node(es2, cs2)
  BY DEF splitChild, LowHalf, HighHalf
<1> HIDE DEF low, high, med, y
<1>10. /\ es2 \in Seq(Entry) /\ Len(es2) = Len(es) + 1
       /\ \A j \in 1 .. Len(es) + 1 :
              es2[j] = IF j < i THEN es[j] ELSE IF j = i THEN med ELSE es[j - 1]
  <2>1. es \in Seq(Entry) /\ med \in Entry
    BY <1>4, <1>7
  <2> HIDE DEF es
  <2> QED
    BY <1>6, <2>1, InsertedAt
<1>11. cs \in Seq(W)
  BY <1>4, SeqMonotonic
<1>12. /\ cs1 \in Seq(W) /\ Len(cs1) = Len(es) + 1
       /\ \A j \in 1 .. Len(es) + 1 : cs1[j] = IF j = i THEN low ELSE cs[j]
  <2>1. i \in 1 .. Len(cs) /\ low \in W
    OBVIOUS
  <2> HIDE DEF W
  <2> QED
    BY <1>4, <1>11, <2>1, ExceptSeq
<1>13. /\ cs2 \in Seq(W) /\ Len(cs2) = Len(es) + 2
       /\ \A j \in 1 .. Len(es) + 2 :
              cs2[j] = IF j < i THEN cs[j] ELSE IF j = i THEN low
                       ELSE IF j = i + 1 THEN high ELSE cs[j - 1]
  <2>1. high \in W /\ i + 1 \in 1 .. Len(cs1) + 1
    BY <1>4, <1>6, <1>12
  <2> HIDE DEF W, cs1
  <2>2. /\ cs2 \in Seq(W) /\ Len(cs2) = Len(cs1) + 1
        /\ \A j \in 1 .. Len(cs1) + 1 :
               cs2[j] = IF j < i + 1 THEN cs1[j] ELSE IF j = i + 1 THEN high ELSE cs1[j - 1]
    BY <1>12, <2>1, InsertedAt
  <2> HIDE DEF cs2
  <2>3. Len(cs2) = Len(es) + 2
    BY <1>4, <1>12, <2>2
  <2>4. ASSUME NEW j \in 1 .. Len(es) + 2
        PROVE  cs2[j] = IF j < i THEN cs[j] ELSE IF j = i THEN low
                        ELSE IF j = i + 1 THEN high ELSE cs[j - 1]
    <3>1. j \in 1 .. Len(cs1) + 1
      BY <1>4, <1>12
    <3>2. CASE j < i
      <4>1. j < i + 1 /\ j # i /\ j \in 1 .. Len(es) + 1
        BY <1>4, <1>6, <3>2
      <4> QED
        BY <1>12, <2>2, <3>1, <3>2, <4>1
    <3>3. CASE j = i
      <4>1. j < i + 1 /\ j \in 1 .. Len(es) + 1
        BY <1>4, <1>6, <3>3
      <4> QED
        BY <1>12, <2>2, <3>1, <3>3, <4>1
    <3>4. CASE j = i + 1
      BY <1>4, <1>6, <1>12, <2>2, <3>1, <3>4
    <3>5. CASE j > i + 1
      <4>1. j - 1 \in 1 .. Len(es) + 1 /\ j - 1 # i
        BY <1>4, <1>6, <3>5
      <4>2. cs2[j] = cs1[j - 1]
        BY <1>4, <1>6, <2>2, <3>1, <3>5
      <4> QED
        BY <1>4, <1>6, <1>12, <3>5, <4>1, <4>2
    <3>6. j < i \/ j = i \/ j = i + 1 \/ j > i + 1
      BY <1>4, <1>6
    <3> QED
      BY <3>2, <3>3, <3>4, <3>5, <3>6, Zenon
  <2> QED
    BY <2>2, <2>3, <2>4
<1> HIDE DEF es2, cs1, cs2, W
<1>14. \A j \in 1 .. Len(es) + 1 : es2[j] \in Entry /\ es2[j].key \in Int
  BY <1>10, EntriesAre
<1>15. med.key \in Int /\ \A e \in g[i] : e.key \in Int
  BY <1>5, <1>6, <1>7 DEF Entry
<1>16. med \in g[i] /\ A \subseteq g[i] /\ B \subseteq g[i]
  BY <1>8
<1>17. Ordered(es2)
  <2> SUFFICES ASSUME NEW p \in 1 .. Len(es) + 1, NEW q \in 1 .. Len(es) + 1, p < q
               PROVE  es2[p].key <= es2[q].key
    BY <1>10, EntriesAre DEF Ordered
  <2>1. p \in Int /\ q \in Int /\ i \in Int
    BY <1>4, <1>6
  <2>2. CASE q < i
    <3>1. es2[p] = es[p] /\ es2[q] = es[q] /\ p \in 1 .. Len(es) /\ q \in 1 .. Len(es)
      BY <1>4, <1>6, <1>10, <2>2
    <3> QED
      BY <1>4, <3>1 DEF Ordered
  <2>3. CASE q = i
    <3>1. es2[p] = es[p] /\ es2[q] = med /\ p \in 1 .. Len(es) /\ p < i
      BY <1>4, <1>6, <1>10, <2>3
    <3> QED
      BY <1>5, <1>6, <1>16, <3>1
  <2>4. CASE p < i /\ i < q
    <3>1. es2[p] = es[p] /\ es2[q] = es[q - 1] /\ p \in 1 .. Len(es) /\ q - 1 \in 1 .. Len(es)
      <4>1. p \in 1 .. Len(es) /\ q - 1 \in 1 .. Len(es) /\ ~(q < i) /\ q # i
        BY <1>4, <1>6, <2>1, <2>4
      <4> QED
        BY <1>10, <2>4, <4>1
    <3>2. p < q - 1 \/ p = q - 1
      BY <2>1, <2>4
    <3>3. CASE p < q - 1
      BY <1>4, <3>1, <3>3 DEF Ordered
    <3>4. CASE p = q - 1
      BY <1>4, <3>1, <3>4
    <3> QED
      BY <3>2, <3>3, <3>4
  <2>5. CASE p = i
    <3>1. es2[p] = med /\ es2[q] = es[q - 1] /\ q - 1 \in 1 .. Len(es) /\ q - 1 >= i
      BY <1>4, <1>6, <1>10, <2>5
    <3> QED
      BY <1>5, <1>6, <1>16, <3>1
  <2>6. CASE p > i
    <3>1. /\ es2[p] = es[p - 1] /\ es2[q] = es[q - 1]
          /\ p - 1 \in 1 .. Len(es) /\ q - 1 \in 1 .. Len(es) /\ p - 1 < q - 1
      BY <1>4, <1>6, <1>10, <2>6
    <3> QED
      BY <1>4, <3>1 DEF Ordered
  <2> QED
    BY <2>1, <2>2, <2>3, <2>4, <2>5, <2>6
<1>18. /\ Sized(u) /\ u.entries = es2 /\ u.children = cs2
  <2>1. Len(es2) <= maxEntries
    BY <1>1, <1>4, <1>10
  <2> QED
    BY <1>9, <1>10, <1>13, <1>17, <2>1, NodeIs
<1> HIDE DEF u
<1> DEFINE g2 == [j \in 1 .. Len(es) + 2 |-> IF j < i THEN g[j] ELSE IF j = i THEN A
                                             ELSE IF j = i + 1 THEN B ELSE g[j - 1]]
<1>19. ASSUME NEW j \in 1 .. Len(es) + 2
       PROVE  /\ j < i => j \in 1 .. Len(es) + 1 /\ g2[j] = g[j] /\ cs2[j] = cs[j]
              /\ j = i => g2[j] = A /\ cs2[j] = low
              /\ j = i + 1 => g2[j] = B /\ cs2[j] = high
              /\ j > i + 1 => /\ j - 1 \in 1 .. Len(es) + 1 /\ j - 1 > i
                              /\ g2[j] = g[j - 1] /\ cs2[j] = cs[j - 1]
              /\ j < i \/ j = i \/ j = i + 1 \/ j > i + 1
  BY <1>4, <1>6, <1>13
<1>20. g2 \in [1 .. Len(es) + 2 -> SUBSET Entry]
  <2>1. \A j \in 1 .. Len(es) + 2 : g2[j] \in SUBSET Entry
    BY <1>5, <1>19
  <2> QED
    BY <2>1
<1> HIDE DEF g2
<1>21. ASSUME NEW j \in 1 .. Len(es) + 2, NEW m \in 1 .. Len(es) + 1, NEW e \in g2[j]
       PROVE  /\ m < j => es2[m].key <= e.key
              /\ m >= j => e.key <= es2[m].key
  <2>1. e.key \in Int /\ j \in Int /\ m \in Int
    <3>1. e \in Entry
      BY <1>20
    <3> QED
      BY <1>4, <3>1 DEF Entry
  <2>2. PICK h \in 1 .. Len(es) + 1 : /\ e \in g[h]
                                      /\ j <= i => h = j
                                      /\ j > i => h = j - 1
    <3>1. CASE j < i
      BY <1>19, <3>1
    <3>2. CASE j = i
      BY <1>4, <1>6, <1>16, <1>19, <3>2
    <3>3. CASE j = i + 1
      BY <1>4, <1>6, <1>16, <1>19, <3>3
    <3>4. CASE j > i + 1
      <4>1. j - 1 \in 1 .. Len(es) + 1 /\ e \in g[j - 1]
        BY <1>19, <3>4
      <4>2. j > i
        BY <1>4, <1>6, <3>4
      <4>3. ~(j <= i)
        BY <1>4, <1>6, <4>2
      <4> QED
        BY <4>1, <4>2, <4>3
    <3> QED
      BY <1>19, <3>1, <3>2, <3>3, <3>4
  <2>3. CASE m < i
    <3>1. es2[m] = es[m] /\ m \in 1 .. Len(es)
      BY <1>4, <1>6, <1>10, <2>3
    <3>2. (m < j <=> m < h) /\ (m >= j <=> m >= h)
      BY <1>4, <1>6, <2>1, <2>2, <2>3
    <3> QED
      BY <1>5, <2>2, <3>1, <3>2
  <2>4. CASE m > i
    <3>1. es2[m] = es[m - 1] /\ m - 1 \in 1 .. Len(es)
      BY <1>4, <1>6, <1>10, <2>4
    <3>2. (m < j <=> m - 1 < h) /\ (m >= j <=> m - 1 >= h)
      BY <1>4, <1>6, <2>1, <2>2, <2>4
    <3> QED
      BY <1>5, <2>2, <3>1, <3>2
  <2>5. CASE m = i
    <3>1. es2[m] = med
      BY <1>10, <2>5
    <3>2. CASE j < i
      <4>1. i - 1 \in 1 .. Len(es) /\ i - 1 >= j /\ i - 1 < i /\ h = j
        BY <1>4, <1>6, <2>1, <2>2, <3>2
      <4>2. e.key <= es[i - 1].key /\ es[i - 1].key <= med.key
        BY <1>5, <1>6, <1>16, <2>2, <4>1
      <4>3. es[i - 1].key \in Int /\ med.key \in Int
        BY <1>4, <1>15, <4>1
      <4>4. e.key <= med.key
        <5>1. \A p, q, r \in Int : p <= q /\ q <= r => p <= r
          OBVIOUS
        <5> QED
          BY <2>1, <4>2, <4>3, <5>1, Zenon
      <4>5. ~(m < j)
        BY <1>4, <1>6, <2>5, <3>2
      <4> QED
        BY <3>1, <4>4, <4>5
    <3>3. CASE j = i
      BY <1>8, <1>19, <2>1, <2>5, <3>1, <3>3
    <3>4. CASE j = i + 1
      BY <1>8, <1>19, <2>1, <2>5, <3>1, <3>4
    <3>5. CASE j > i + 1
      <4>1. i \in 1 .. Len(es) /\ i < h
        BY <1>4, <1>6, <2>1, <2>2, <3>5
      <4>2. med.key <= es[i].key /\ es[i].key <= e.key
        BY <1>5, <1>6, <1>16, <2>2, <4>1
      <4>3. es[i].key \in Int /\ med.key \in Int
        BY <1>4, <1>15, <4>1
      <4>4. med.key <= e.key
        <5>1. \A a, b, c \in Int : a <= b /\ b <= c => a <= c
          OBVIOUS
        <5> QED
          BY <2>1, <4>2, <4>3, <5>1, Zenon
      <4>5. ~(m >= j)
        BY <1>4, <1>6, <2>5, <3>5
      <4> QED
        BY <3>1, <4>4, <4>5
    <3> QED
      BY <1>19, <3>2, <3>3, <3>4, <3>5
  <2> QED
    BY <1>4, <1>6, <2>1, <2>3, <2>4, <2>5
<1>22. S = ToSet(es2) \cup UNION {g2[j] : j \in 1 .. Len(es) + 2}
  <2>0. ToSet(es) = {es[m] : m \in 1 .. Len(es)} /\ ToSet(es2) = {es2[m] : m \in 1 .. Len(es) + 1}
    BY <1>4, <1>10, EntriesAre DEF ToSet
  <2>1. ASSUME NEW e, NEW m \in 1 .. Len(es), e = es[m]
        PROVE  \E n \in 1 .. Len(es) + 1 : e = es2[n]
    <3>1. CASE m < i
      BY <1>4, <1>6, <1>10, <2>1, <3>1
    <3>2. CASE m >= i
      <4>1. m + 1 \in 1 .. Len(es) + 1 /\ (m + 1) - 1 = m /\ m + 1 > i
        BY <1>4, <1>6, <3>2
      <4>2. es2[m + 1] = es[m]
        BY <1>4, <1>6, <1>10, <4>1
      <4> QED
        BY <2>1, <4>1, <4>2
    <3> QED
      BY <1>4, <1>6, <3>1, <3>2
  <2>2. ASSUME NEW e, NEW j \in 1 .. Len(es) + 1, e \in g[j]
        PROVE  \/ \E n \in 1 .. Len(es) + 1 : e = es2[n]
               \/ \E n \in 1 .. Len(es) + 2 : e \in g2[n]
    <3>1. CASE j < i
      <4>1. j \in 1 .. Len(es) + 2
        BY <1>4
      <4> QED
        BY <1>19, <2>2, <3>1, <4>1
    <3>2. CASE j = i
      <4>1. i \in 1 .. Len(es) + 2 /\ i + 1 \in 1 .. Len(es) + 2 /\ i + 1 # i
        BY <1>4, <1>6
      <4>2. g2[i] = A /\ g2[i + 1] = B /\ es2[i] = med
        BY <1>6, <1>10, <1>19, <4>1
      <4> QED
        BY <1>6, <1>8, <2>2, <3>2, <4>1, <4>2
    <3>3. CASE j > i
      <4>1. j + 1 \in 1 .. Len(es) + 2 /\ j + 1 > i + 1 /\ (j + 1) - 1 = j
        BY <1>4, <1>6, <3>3
      <4>2. g2[j + 1] = g[j]
        BY <1>19, <4>1
      <4> QED
        BY <2>2, <4>1, <4>2
    <3> QED
      BY <1>4, <1>6, <3>1, <3>2, <3>3
  <2>3. ASSUME NEW m \in 1 .. Len(es) + 1
        PROVE  es2[m] \in S
    <3>1. CASE m < i
      <4>1. m \in 1 .. Len(es) /\ es2[m] = es[m]
        BY <1>4, <1>6, <1>10, <3>1
      <4> QED
        BY <1>5, <2>0, <4>1
    <3>2. CASE m = i
      <4>1. es2[m] \in g[i]
        BY <1>10, <1>16, <3>2
      <4> QED
        BY <1>5, <1>6, <4>1
    <3>3. CASE m > i
      <4>1. m - 1 \in 1 .. Len(es) /\ es2[m] = es[m - 1]
        BY <1>4, <1>6, <1>10, <3>3
      <4> QED
        BY <1>5, <2>0, <4>1
    <3> QED
      BY <1>4, <1>6, <3>1, <3>2, <3>3
  <2>4. ASSUME NEW j \in 1 .. Len(es) + 2
        PROVE  g2[j] \subseteq S
    <3>1. PICK h \in 1 .. Len(es) + 1 : g2[j] \subseteq g[h]
      <4>1. CASE j = i \/ j = i + 1
        BY <1>6, <1>16, <1>19, <4>1
      <4>2. CASE j < i \/ j > i + 1
        BY <1>19, <4>2
      <4> QED
        BY <1>19, <4>1, <4>2
    <3> QED
      BY <1>5, <3>1
  <2>5. \A e \in S : \/ \E n \in 1 .. Len(es) + 1 : e = es2[n]
                     \/ \E n \in 1 .. Len(es) + 2 : e \in g2[n]
    <3> SUFFICES ASSUME NEW e \in S
                 PROVE  \/ \E n \in 1 .. Len(es) + 1 : e = es2[n]
                        \/ \E n \in 1 .. Len(es) + 2 : e \in g2[n]
      OBVIOUS
    <3>1. (\E m \in 1 .. Len(es) : e = es[m]) \/ \E j \in 1 .. Len(es) + 1 : e \in g[j]
      BY <1>5, <2>0
    <3> QED
      BY <2>1, <2>2, <3>1
  <2> QED
    BY <2>0, <2>3, <2>4, <2>5
<1>23. Shares(u, g2, S)
  <2>1. Len(cs2) = Len(es2) + 1 /\ Len(cs2) = Len(es) + 2 /\ Len(es2) = Len(es) + 1
    BY <1>4, <1>10, <1>13
  <2>2. \A j \in 1 .. Len(es) + 2 : Len(cs2[j].entries) >= t - 1
    <3>1. Len(low.entries) >= t - 1 /\ Len(high.entries) >= t - 1
      BY <1>1, <1>7
    <3> QED
      BY <1>5, <1>19, <3>1
  <2> QED
    BY <1>18, <1>20, <1>21, <1>22, <2>1, <2>2 DEF Shares
<1>24. At(k, u, S)
  <2>1. k - 1 \in Nat /\ (k - 1) + 1 = k
    BY <1>2
  <2>2. \A j \in 1 .. Len(es) + 2 : At(k - 1, cs2[j], g2[j])
    <3> SUFFICES ASSUME NEW j \in 1 .. Len(es) + 2
                 PROVE  At(k - 1, cs2[j], g2[j])
      OBVIOUS
    <3>1. CASE j < i \/ j > i + 1
      <4>1. PICK h \in 1 .. Len(cs) : cs2[j] = cs[h] /\ g2[j] = g[h]
        BY <1>4, <1>19, <3>1
      <4> QED
        BY <1>3, <4>1
    <3>2. CASE j = i \/ j = i + 1
      BY <1>8, <1>19, <3>2
    <3> QED
      BY <1>19, <3>1, <3>2
  <2> QED
    BY <1>13, <1>18, <1>23, <2>1, <2>2, InnerIsAt
<1>25. i \in 1 .. Len(es) + 2 /\ i + 1 \in 1 .. Len(es) + 2 /\ cs2[i] = low /\ cs2[i + 1] = high
  BY <1>4, <1>6, <1>19
<1> QED
  BY <1>7, <1>10, <1>18, <1>24, <1>25 DEF u, y, low, high, med
\* Keys up to child w of a node are not above key, and those from it on not below.
Gap(n, w, key) == \A j \in 1 .. Len(n.entries) : /\ j < w => n.entries[j].key <= key
                                                 /\ j >= w => key <= n.entries[j].key

\* The child that an insertion descends into is not full, and the key belongs there.
LEMMA Descended ==
    ASSUME NEW k, NEW x, NEW S, At(k, x, S), k # 0, Len(x.entries) < maxEntries, NEW key \in Int
    PROVE  LET r == Ready(x, key)
               w == Way(x, key)
           IN  /\ At(k, r, S) /\ Len(r.entries) >= Len(x.entries)
               /\ w \in 1 .. Len(r.children) /\ Len(r.children[w].entries) < maxEntries
               /\ Gap(r, w, key)
<1> DEFINE i == Slot(x.entries, key)
           y == x.children[i]
           u == splitChild(x, i)
<1>1. t \in Nat /\ t >= 2 /\ maxEntries = 2 * t - 1
  BY DegreeAssumption DEF maxEntries
<1>2. k \in Nat /\ Sized(x)
  BY AtMeans
<1>3. PICK g : /\ Shares(x, g, S)
               /\ \A j \in 1 .. Len(x.children) : At(k - 1, x.children[j], g[j])
  BY AtMeans
<1>4. /\ Len(x.entries) \in Nat /\ Len(x.children) = Len(x.entries) + 1
      /\ x.entries \in Seq(Entry) /\ Ordered(x.entries)
  BY <1>2, <1>3, SizedParts DEF Shares
<1>5. /\ i \in 1 .. Len(x.children)
      /\ \A j \in 1 .. Len(x.entries) : /\ j < i => x.entries[j].key <= key
                                        /\ j >= i => key < x.entries[j].key
  BY <1>4, SlotFacts
<1>6. /\ Ready(x, key) = IF isFull(y) THEN u ELSE x
      /\ Way(x, key) = IF isFull(y) THEN Half(u, i, key) ELSE i
  BY DEF Ready, Way
<1>7. At(k - 1, y, g[i]) /\ Sized(y)
  BY <1>3, <1>5, AtMeans
<1> HIDE DEF i
<1>8. CASE ~isFull(y)
  <2>1. Len(y.entries) < maxEntries
    <3>1. Len(y.entries) \in Nat /\ Len(y.entries) <= maxEntries /\ Len(y.entries) # maxEntries
      BY <1>7, <1>8, SizedParts DEF Sized, isFull
    <3> QED
      BY <1>1, <3>1
  <2>2. Gap(x, i, key)
    <3>1. \A j \in 1 .. Len(x.entries) : x.entries[j].key \in Int
      BY <1>4, EntriesAre
    <3> QED
      BY <1>5, <3>1 DEF Gap
  <2> QED
    BY <1>4, <1>5, <1>6, <1>8, <2>1, <2>2
<1>9. CASE isFull(y)
  <2>1. /\ At(k, u, S) /\ Len(u.entries) = Len(x.entries) + 1
        /\ \A j \in 1 .. Len(u.entries) :
               u.entries[j] = IF j < i THEN x.entries[j]
                              ELSE IF j = i THEN y.entries[t] ELSE x.entries[j - 1]
        /\ u.children[i] = LowHalf(y) /\ u.children[i + 1] = HighHalf(y)
        /\ Len(LowHalf(y).entries) = t - 1 /\ Len(HighHalf(y).entries) = t - 1
    BY <1>5, <1>9, SplitKeeps
  <2>2. Sized(u) /\ Len(u.children) = Len(u.entries) + 1
    BY <2>1, AtMeans DEF Shares
  <2> DEFINE w == Half(u, i, key)
  <2>3. w = i \/ w = i + 1
    BY DEF Half
  <2>4. w \in 1 .. Len(u.children) /\ Len(u.children[w].entries) < maxEntries
    <3>1. i \in 1 .. Len(u.children) /\ i + 1 \in 1 .. Len(u.children)
      BY <1>4, <1>5, <2>1, <2>2
    <3>2. Len(u.children[i].entries) = t - 1 /\ Len(u.children[i + 1].entries) = t - 1
      BY <2>1
    <3>3. t - 1 < maxEntries
      BY <1>1
    <3> HIDE DEF w, u
    <3> QED
      BY <2>3, <3>1, <3>2, <3>3
  <2>5. i \in 1 .. Len(u.entries)
    BY <1>4, <1>5, <2>1
  <2>6. u.entries[i].key \in Int /\ \A j \in 1 .. Len(x.entries) : x.entries[j].key \in Int
    BY <1>4, <2>2, <2>5, EntriesAre, SizedParts
  <2>7. /\ w = i => key <= u.entries[i].key
        /\ w = i + 1 => u.entries[i].key <= key
    <3>1. i \in Int
      BY <1>5
    <3> QED
      BY <2>6, <3>1 DEF Half
  <2> HIDE DEF w, u
  <2>8. Gap(u, w, key)
    <3> SUFFICES ASSUME NEW j \in 1 .. Len(u.entries)
                 PROVE  /\ j < w => u.entries[j].key <= key
                        /\ j >= w => key <= u.entries[j].key
      BY DEF Gap
    <3>1. i \in Int /\ j \in Int
      BY <1>5
    <3>2. CASE j < i
      <4>1. j \in 1 .. Len(x.entries) /\ u.entries[j] = x.entries[j] /\ ~(j >= w)
        BY <1>4, <1>5, <2>1, <2>3, <3>2
      <4> QED
        BY <1>5, <3>2, <4>1
    <3>3. CASE j = i
      BY <2>3, <2>7, <3>1, <3>3
    <3>4. CASE j > i
      <4>1. /\ j - 1 \in 1 .. Len(x.entries) /\ j - 1 >= i
            /\ u.entries[j] = x.entries[j - 1] /\ ~(j < w)
        BY <1>4, <1>5, <2>1, <2>3, <3>4
      <4>2. key < x.entries[j - 1].key
        BY <1>5, <4>1
      <4> QED
        BY <2>6, <4>1, <4>2
    <3> QED
      BY <3>1, <3>2, <3>3, <3>4
  <2>9. Len(u.entries) >= Len(x.entries)
    BY <1>4, <2>1
  <2>10. Ready(x, key) = u /\ Way(x, key) = w
    BY <1>6, <1>9 DEF u, w
  <2> QED
    BY <2>1, <2>4, <2>8, <2>9, <2>10 DEF u
<1> QED
  BY <1>8, <1>9

WithChild(n, w, y) == [n EXCEPT !.children[w] = y]

\* Child w of r has C under it; once it has entry as well, so has r.
Room(k, r, S, w, entry, C) ==
    /\ At(k - 1, r.children[w], C) /\ Len(r.children[w].entries) >= t - 1
    /\ \A y : At(k - 1, y, C \cup {entry}) /\ Len(y.entries) >= t - 1 =>
           /\ At(k, WithChild(r, w, y), S \cup {entry})
           /\ WithChild(r, w, y).entries = r.entries

\* An entry put under the child where it belongs is put under the node.
LEMMA ChildReplaced ==
    ASSUME NEW k, NEW r, NEW S, At(k, r, S), k # 0, NEW w \in 1 .. Len(r.children),
           NEW entry \in Entry, Gap(r, w, entry.key)
    PROVE  \E C : Room(k, r, S, w, entry, C)
<1> DEFINE es == r.entries
           cs == r.children
<1>1. k \in Nat /\ Sized(r)
  BY AtMeans
<1>2. PICK g : /\ Shares(r, g, S)
               /\ \A j \in 1 .. Len(cs) : At(k - 1, cs[j], g[j])
  BY AtMeans
<1>3. /\ es \in Seq(Entry) /\ Len(es) \in Nat /\ Ordered(es) /\ Len(es) <= maxEntries
      /\ cs \in Seq(ToSet(cs)) /\ Len(cs) = Len(es) + 1
  BY <1>1, <1>2, SizedParts DEF Shares, Sized
<1>4. /\ g \in [1 .. Len(cs) -> SUBSET Entry]
      /\ \A j \in 1 .. Len(cs), m \in 1 .. Len(es) : \A e \in g[j] :
             /\ m < j => es[m].key <= e.key
             /\ m >= j => e.key <= es[m].key
      /\ S = ToSet(es) \cup UNION {g[j] : j \in 1 .. Len(cs)}
      /\ \A j \in 1 .. Len(cs) : Len(cs[j].entries) >= t - 1
  BY <1>2, <1>3 DEF Shares
<1> SUFFICES ASSUME NEW y, At(k - 1, y, g[w] \cup {entry}), Len(y.entries) >= t - 1
             PROVE  /\ At(k, WithChild(r, w, y), S \cup {entry})
                    /\ WithChild(r, w, y).entries = r.entries
  BY <1>2, <1>4 DEF Room
<1> DEFINE n == [r EXCEPT !.children[w] = y]
           W == ToSet(cs) \cup {y}
           cs2 == [cs EXCEPT ![w] = y]
           g2 == [g EXCEPT ![w] = @ \cup {entry}]
<1>5. /\ cs2 \in Seq(W) /\ Len(cs2) = Len(cs)
      /\ \A j \in 1 .. Len(cs) : cs2[j] = IF j = w THEN y ELSE cs[j]
  <2>1. cs \in Seq(W) /\ y \in W
    BY <1>3, SeqMonotonic
  <2> HIDE DEF W
  <2> QED
    BY <2>1, ExceptSeq
<1>6. /\ DOMAIN n = {"leaf", "entries", "children"}
      /\ n.leaf = r.leaf /\ n.entries = es /\ n.children = cs2
  BY <1>1 DEF Sized
<1> HIDE DEF cs2, W, n
<1>7. Sized(n) /\ n.entries = es /\ n.children = cs2
  <2>1. r.leaf <=> Len(cs) = 0
    BY <1>1, SizedParts
  <2>2. cs2 = <<>> <=> Len(cs2) = 0
    BY <1>5, OwnElements
  <2>3. cs2 \in Seq(ToSet(cs2))
    BY <1>5, OwnElements
  <2>4. n.leaf <=> n.children = <<>>
    BY <1>5, <1>6, <2>1, <2>2
  <2>5. n.leaf \in BOOLEAN
    <3>1. r.leaf = (r.children = <<>>)
      BY <1>1 DEF Sized
    <3> QED
      BY <1>6, <3>1, Zenon
  <2>6. n.leaf = (n.children = <<>>)
    BY <2>4, <2>5, Zenon
  <2>7. n.entries \in Seq(Entry) /\ Len(n.entries) <= maxEntries /\ Ordered(n.entries)
    BY <1>3, <1>6
  <2>8. n.children \in Seq(ToSet(n.children))
    BY <1>6, <2>3
  <2>9. Sized(n)
    BY <1>6, <2>6, <2>7, <2>8, Zenon DEF Sized
  <2> QED
    BY <1>6, <2>9
<1>8. \A j \in 1 .. Len(cs) : g2[j] = IF j = w THEN g[w] \cup {entry} ELSE g[j]
  BY <1>4
<1>9. g2 \in [1 .. Len(cs) -> SUBSET Entry]
  BY <1>4
<1> HIDE DEF g2
<1>10. \A j \in 1 .. Len(cs), m \in 1 .. Len(es) : \A e \in g2[j] :
             /\ m < j => es[m].key <= e.key
             /\ m >= j => e.key <= es[m].key
  BY <1>4, <1>8 DEF Gap
<1>11. S \cup {entry} = ToSet(es) \cup UNION {g2[j] : j \in 1 .. Len(cs)}
  <2>1. UNION {g2[j] : j \in 1 .. Len(cs)} = (UNION {g[j] : j \in 1 .. Len(cs)}) \cup {entry}
    BY <1>8
  <2> QED
    BY <1>4, <2>1
<1>12. \A j \in 1 .. Len(cs) : Len(cs2[j].entries) >= t - 1
  BY <1>4, <1>5
<1>13. Shares(n, g2, S \cup {entry})
  BY <1>3, <1>5, <1>7, <1>9, <1>10, <1>11, <1>12 DEF Shares
<1>14. At(k, n, S \cup {entry})
  <2>1. k - 1 \in Nat /\ (k - 1) + 1 = k
    BY <1>1
  <2>2. \A j \in 1 .. Len(cs) : At(k - 1, cs2[j], g2[j])
    BY <1>2, <1>5, <1>8
  <2> QED
    BY <1>5, <1>7, <1>13, <2>1, <2>2, InnerIsAt
<1> QED
  BY <1>7, <1>14 DEF n, WithChild

\* An entry put into a leaf that is not full.
LEMMA LeafEntered ==
    ASSUME NEW x, NEW S, At(0, x, S), Len(x.entries) < maxEntries, NEW entry \in Entry
    PROVE  LET n == Node(InsertAt(x.entries, Slot(x.entries, entry.key), entry), <<>>)
           IN  At(0, n, S \cup {entry}) /\ Len(n.entries) = Len(x.entries) + 1
<1> DEFINE es == x.entries
           i == Slot(es, entry.key)
           es2 == InsertAt(es, i, entry)
           n == Node(es2, <<>>)
<1>1. Sized(x) /\ S = ToSet(es)
  BY AtMeans
<1>2. /\ es \in Seq(Entry) /\ Len(es) \in Nat /\ Ordered(es) /\ DOMAIN es = 1 .. Len(es)
      /\ \A j \in 1 .. Len(es) : es[j] \in Entry /\ es[j].key \in Int
  BY <1>1, SizedParts
<1>3. entry.key \in Int
  BY DEF Entry
<1>4. /\ i \in 1 .. Len(es) + 1
      /\ \A j \in 1 .. Len(es) : /\ j < i => es[j].key <= entry.key
                                 /\ j >= i => entry.key < es[j].key
  BY <1>2, <1>3, SlotFacts
<1> HIDE DEF i
<1>5. /\ es2 \in Seq(Entry) /\ Len(es2) = Len(es) + 1
      /\ \A j \in 1 .. Len(es) + 1 :
             es2[j] = IF j < i THEN es[j] ELSE IF j = i THEN entry ELSE es[j - 1]
  <2>1. es \in Seq(Entry)
    BY <1>2
  <2> HIDE DEF es
  <2> QED
    BY <1>4, <2>1, InsertedAt
<1> HIDE DEF es2
<1>6. i \in Int
  BY <1>4
<1>7. Ordered(es2)
  <2> SUFFICES ASSUME NEW p \in 1 .. Len(es) + 1, NEW q \in 1 .. Len(es) + 1, p < q
               PROVE  es2[p].key <= es2[q].key
    BY <1>5, EntriesAre DEF Ordered
  <2>1. p \in Int /\ q \in Int
    BY <1>2
  <2>2. CASE q < i
    <3>1. es2[p] = es[p] /\ es2[q] = es[q] /\ p \in 1 .. Len(es) /\ q \in 1 .. Len(es)
      BY <1>2, <1>4, <1>5, <2>2
    <3> QED
      BY <1>2, <3>1 DEF Ordered
  <2>3. CASE q = i
    <3>1. es2[p] = es[p] /\ es2[q] = entry /\ p \in 1 .. Len(es) /\ p < i
      BY <1>2, <1>4, <1>5, <2>3
    <3> QED
      BY <1>4, <3>1
  <2>4. CASE p < i /\ i < q
    <3>1. /\ es2[p] = es[p] /\ es2[q] = es[q - 1] /\ p \in 1 .. Len(es) /\ q - 1 \in 1 .. Len(es)
          /\ q - 1 >= i
      BY <1>2, <1>4, <1>5, <2>4
    <3>2. es[p].key <= entry.key /\ entry.key < es[q - 1].key
      BY <1>4, <2>4, <3>1
    <3>3. es[p].key \in Int /\ es[q - 1].key \in Int
      BY <1>2, <3>1
    <3> QED
      BY <1>3, <3>1, <3>2, <3>3
  <2>5. CASE p = i
    <3>1. es2[p] = entry /\ es2[q] = es[q - 1] /\ q - 1 \in 1 .. Len(es) /\ q - 1 >= i
      BY <1>2, <1>4, <1>5, <2>5
    <3>2. entry.key < es[q - 1].key /\ es[q - 1].key \in Int
      BY <1>2, <1>4, <3>1
    <3> QED
      BY <1>3, <3>1, <3>2
  <2>6. CASE p > i
    <3>1. /\ es2[p] = es[p - 1] /\ es2[q] = es[q - 1]
          /\ p - 1 \in 1 .. Len(es) /\ q - 1 \in 1 .. Len(es) /\ p - 1 < q - 1
      BY <1>2, <1>4, <1>5, <2>6
    <3> QED
      BY <1>2, <3>1 DEF Ordered
  <2> QED
    BY <1>6, <2>1, <2>2, <2>3, <2>4, <2>5, <2>6
<1>8. Len(es2) <= maxEntries
  <2>1. maxEntries \in Int
    BY DegreeAssumption DEF maxEntries
  <2> QED
    BY <1>2, <1>5, <2>1
<1>9. Sized(n) /\ n.entries = es2 /\ n.children = <<>>
  BY <1>5, <1>7, <1>8, LeafNodeIs
<1>10. ToSet(es2) = S \cup {entry}
  <2>0. ToSet(es) = {es[m] : m \in 1 .. Len(es)} /\ ToSet(es2) = {es2[m] : m \in 1 .. Len(es) + 1}
    BY <1>2, <1>5, EntriesAre DEF ToSet
  <2>1. ASSUME NEW m \in 1 .. Len(es)
        PROVE  es[m] \in ToSet(es2)
    <3>1. CASE m < i
      <4>1. m \in 1 .. Len(es) + 1 /\ es2[m] = es[m]
        BY <1>2, <1>5, <3>1
      <4> QED
        BY <2>0, <4>1
    <3>2. CASE m >= i
      <4>1. m + 1 \in 1 .. Len(es) + 1 /\ (m + 1) - 1 = m /\ m + 1 > i
        BY <1>2, <1>4, <3>2
      <4>2. es2[m + 1] = es[m]
        BY <1>2, <1>5, <1>6, <4>1
      <4> QED
        BY <2>0, <4>1, <4>2
    <3> QED
      BY <1>2, <1>6, <3>1, <3>2
  <2>2. ASSUME NEW m \in 1 .. Len(es) + 1
        PROVE  es2[m] \in ToSet(es) \cup {entry}
    <3>1. CASE m < i
      <4>1. m \in 1 .. Len(es) /\ es2[m] = es[m]
        BY <1>2, <1>4, <1>5, <3>1
      <4> QED
        BY <2>0, <4>1
    <3>2. CASE m = i
      BY <1>5, <3>2
    <3>3. CASE m > i
      <4>1. m - 1 \in 1 .. Len(es) /\ es2[m] = es[m - 1]
        BY <1>2, <1>4, <1>5, <3>3
      <4> QED
        BY <2>0, <4>1
    <3> QED
      BY <1>2, <1>6, <3>1, <3>2, <3>3
  <2>3. entry \in ToSet(es2)
    BY <1>4, <1>5, <2>0
  <2>4. ToSet(es) \subseteq ToSet(es2)
    BY <2>0, <2>1
  <2>5. ToSet(es2) \subseteq ToSet(es) \cup {entry}
    BY <2>0, <2>2
  <2> QED
    BY <1>1, <2>3, <2>4, <2>5
<1> HIDE DEF n
<1>11. At(0, n, S \cup {entry})
  BY <1>9, <1>10, LeafIsAt
<1> QED
  BY <1>5, <1>9, <1>11 DEF n, i, es2

-------------------------------------------------------------------------------
(* LAB-6: an insertion goes down and is carried up.                         *)

Onward(n, key) == IF n.leaf THEN n ELSE Ready(n, key).children[Way(n, key)]

Put(n, entry, y) ==
    IF n.leaf THEN Node(InsertAt(n.entries, Slot(n.entries, entry.key), entry), <<>>)
    ELSE [Ready(n, entry.key) EXCEPT !.children[Way(n, entry.key)] = y]

\* The nodes on the way down, and what is left in their places.
Goes(f, x, key) == f = [d \in Nat |-> IF d = 0 THEN x ELSE Onward(f[d - 1], key)]

Leaves(l, f, entry) == l = [d \in Nat |-> Put(f[d], entry, l[d + 1])]

\* One level of the way down and up.
LEMMA PutKeeps ==
    ASSUME NEW k, NEW x, NEW S, At(k, x, S), k # 0, Len(x.entries) < maxEntries,
           NEW entry \in Entry
    PROVE  LET c == Onward(x, entry.key)
           IN  /\ ~x.leaf /\ Len(c.entries) < maxEntries
               /\ \E C : /\ At(k - 1, c, C)
                         /\ \A y : At(k - 1, y, C \cup {entry}) /\ Len(y.entries) >= Len(c.entries) =>
                                /\ At(k, Put(x, entry, y), S \cup {entry})
                                /\ Len(Put(x, entry, y).entries) >= Len(x.entries)
<1> DEFINE key == entry.key
           r == Ready(x, key)
           w == Way(x, key)
           c == Onward(x, key)
<1>1. key \in Int
  BY DEF Entry
<1>2. /\ At(k, r, S) /\ Len(r.entries) >= Len(x.entries)
      /\ w \in 1 .. Len(r.children) /\ Len(r.children[w].entries) < maxEntries
      /\ Gap(r, w, key)
  <2> HIDE DEF key
  <2> QED
    BY <1>1, Descended
<1>3. ~x.leaf
  <2>1. Sized(x) /\ \E g : Shares(x, g, S)
    BY AtMeans
  <2> QED
    BY <2>1, SizedParts DEF Shares
<1>4. c = r.children[w]
  BY <1>3 DEF Onward
<1>5. \A y : Put(x, entry, y) = WithChild(r, w, y)
  BY <1>3 DEF Put, WithChild
<1> HIDE DEF c, r, w
<1>6. PICK C : Room(k, r, S, w, entry, C)
  BY <1>2, ChildReplaced
<1>7. Len(c.entries) \in Nat /\ t - 1 \in Int
  <2>1. Sized(c)
    BY <1>4, <1>6, AtMeans DEF Room
  <2> QED
    BY <2>1, SizedParts, DegreeAssumption
<1>8. ASSUME NEW y, At(k - 1, y, C \cup {entry}), Len(y.entries) >= Len(c.entries)
      PROVE  /\ At(k, Put(x, entry, y), S \cup {entry})
             /\ Len(Put(x, entry, y).entries) >= Len(x.entries)
  <2>1. Len(y.entries) \in Nat
    BY <1>8, AtMeans, SizedParts
  <2>2. Len(y.entries) >= t - 1
    BY <1>4, <1>6, <1>7, <1>8, <2>1 DEF Room
  <2>3. /\ At(k, WithChild(r, w, y), S \cup {entry})
        /\ WithChild(r, w, y).entries = r.entries
    BY <1>6, <1>8, <2>2 DEF Room
  <2> QED
    BY <1>2, <1>5, <2>3
<1> QED
  BY <1>2, <1>3, <1>4, <1>6, <1>8 DEF c, Room

\* A leaf has height 0 only.
LEMMA LeafHeight ==
    ASSUME NEW k, NEW x, NEW S, At(k, x, S)
    PROVE  x.leaf <=> k = 0
<1>1. Sized(x) /\ (k = 0 => x.children = <<>>) /\ (k # 0 => \E g : Shares(x, g, S))
  BY AtMeans
<1> QED
  BY <1>1, SizedParts DEF Shares

\* There is a way down from a node and up again.
LEMMA InsertionEnds ==
    ASSUME NEW entry \in Entry, NEW k, NEW x, NEW S, At(k, x, S), Len(x.entries) < maxEntries
    PROVE  \E f, l : Goes(f, x, entry.key) /\ Leaves(l, f, entry)
<1> DEFINE Fine(n) == \E f, l : Goes(f, n, entry.key) /\ Leaves(l, f, entry)
           bad == {h \in Nat : \E n, Q : At(h, n, Q) /\ Len(n.entries) < maxEntries /\ ~Fine(n)}
<1>1. bad = {}
  <2> SUFFICES ASSUME bad # {} PROVE FALSE
    OBVIOUS
  <2>1. PICK h \in bad : \A m \in bad : h <= m
    <3>1. bad \in SUBSET Nat
      OBVIOUS
    <3> HIDE DEF bad
    <3> QED
      BY <3>1, LeastElement
  <2>2. PICK n, Q : At(h, n, Q) /\ Len(n.entries) < maxEntries /\ ~Fine(n)
    BY <2>1
  <2>3. h \in Nat
    BY <2>1
  <2>4. CASE h = 0
    <3>1. n.leaf
      BY <2>2, <2>4, LeafHeight
    <3> DEFINE f == [d \in Nat |-> n]
               l == [d \in Nat |-> Put(n, entry, n)]
    <3>2. Onward(n, entry.key) = n
      BY <3>1 DEF Onward
    <3>3. Goes(f, n, entry.key)
      <4>1. \A d \in Nat : d # 0 => d - 1 \in Nat
        OBVIOUS
      <4> QED
        BY <3>2, <4>1 DEF Goes
    <3>4. \A y : Put(n, entry, y) = Put(n, entry, n)
      BY <3>1 DEF Put
    <3>5. Leaves(l, f, entry)
      BY <3>4 DEF Leaves
    <3> HIDE DEF f, l
    <3> QED
      BY <2>2, <3>3, <3>5
  <2>5. CASE h # 0
    <3> DEFINE c == Onward(n, entry.key)
    <3>1. Len(c.entries) < maxEntries /\ \E C : At(h - 1, c, C)
      BY <2>2, <2>5, PutKeeps
    <3>2. h - 1 \in Nat /\ h - 1 \notin bad
      <4> HIDE DEF bad
      <4> QED
        BY <2>1, <2>3, <2>5
    <3>3. Fine(c)
      <4> HIDE DEF Fine, c
      <4> QED
        BY <3>1, <3>2
    <3>4. PICK fc, lc : Goes(fc, c, entry.key) /\ Leaves(lc, fc, entry)
      BY <3>3
    <3> HIDE DEF bad, Fine
    <3> DEFINE f == [d \in Nat |-> IF d = 0 THEN n ELSE fc[d - 1]]
               l == [d \in Nat |-> IF d = 0 THEN Put(n, entry, lc[0]) ELSE lc[d - 1]]
    <3>5. Goes(f, n, entry.key)
      <4>1. ASSUME NEW d \in Nat
            PROVE  f[d] = IF d = 0 THEN n ELSE Onward(f[d - 1], entry.key)
        <5>1. CASE d = 0
          BY <5>1
        <5>2. CASE d = 1
          <6>1. f[1] = fc[0] /\ f[0] = n
            OBVIOUS
          <6>2. fc[0] = c
            BY <3>4 DEF Goes
          <6> QED
            BY <5>2, <6>1, <6>2
        <5>3. CASE d > 1
          <6>1. d - 1 \in Nat /\ d - 1 # 0 /\ (d - 1) - 1 \in Nat
            BY <5>3
          <6>2. f[d] = fc[d - 1] /\ f[d - 1] = fc[(d - 1) - 1]
            BY <5>3, <6>1
          <6>3. fc[d - 1] = Onward(fc[(d - 1) - 1], entry.key)
            <7> HIDE DEF c
            <7> QED
              BY <3>4, <6>1 DEF Goes
          <6> QED
            BY <5>3, <6>2, <6>3
        <5> QED
          BY <5>1, <5>2, <5>3
      <4>2. f = [d \in Nat |-> f[d]]
        OBVIOUS
      <4> HIDE DEF f
      <4> QED
        BY <4>1, <4>2 DEF Goes
    <3>6. Leaves(l, f, entry)
      <4>1. ASSUME NEW d \in Nat
            PROVE  l[d] = Put(f[d], entry, l[d + 1])
        <5>1. CASE d = 0
          <6>1. l[0] = Put(n, entry, lc[0]) /\ l[1] = lc[0] /\ f[0] = n
            OBVIOUS
          <6> HIDE DEF l, f
          <6> QED
            BY <5>1, <6>1
        <5>2. CASE d > 0
          <6>1. d - 1 \in Nat /\ d + 1 \in Nat /\ d + 1 # 0 /\ (d + 1) - 1 = (d - 1) + 1
            BY <5>2
          <6>2. l[d] = lc[d - 1] /\ f[d] = fc[d - 1] /\ l[d + 1] = lc[(d - 1) + 1]
            BY <5>2, <6>1
          <6>3. lc[d - 1] = Put(fc[d - 1], entry, lc[(d - 1) + 1])
            BY <3>4, <6>1 DEF Leaves
          <6> HIDE DEF l, f
          <6> QED
            BY <6>2, <6>3
        <5> QED
          BY <5>1, <5>2
      <4>2. l = [d \in Nat |-> l[d]]
        OBVIOUS
      <4> HIDE DEF l, f
      <4> QED
        BY <4>1, <4>2 DEF Leaves
    <3> HIDE DEF f, l
    <3>7. Fine(n)
      BY <3>5, <3>6 DEF Fine
    <3> QED
      BY <2>2, <3>7
  <2> QED
    BY <2>4, <2>5
<1>2. k \in Nat
  BY AtMeans
<1> QED
  BY <1>1, <1>2

\* Whatever way that is, a tree with the entry is left.
LEMMA InsertionKeeps ==
    ASSUME NEW entry \in Entry, NEW k, NEW x, NEW S, At(k, x, S), Len(x.entries) < maxEntries,
           NEW f, NEW l, Goes(f, x, entry.key), Leaves(l, f, entry)
    PROVE  At(k, l[0], S \cup {entry}) /\ Len(l[0].entries) >= Len(x.entries)
           /\ (k = 0 => Len(l[0].entries) = Len(x.entries) + 1)
<1> DEFINE Wrong(h, n, Q, u, v) ==
               /\ At(h, n, Q) /\ Len(n.entries) < maxEntries
               /\ Goes(u, n, entry.key) /\ Leaves(v, u, entry)
               /\ ~(At(h, v[0], Q \cup {entry}) /\ Len(v[0].entries) >= Len(n.entries))
           bad == {h \in Nat : \E n, Q, u, v : Wrong(h, n, Q, u, v)}
<1>1. ASSUME NEW n, NEW Q, At(0, n, Q), Len(n.entries) < maxEntries, NEW u, NEW v,
             Goes(u, n, entry.key), Leaves(v, u, entry)
      PROVE  At(0, v[0], Q \cup {entry}) /\ Len(v[0].entries) = Len(n.entries) + 1
  <2>1. n.leaf
    BY <1>1, LeafHeight
  <2>2. u[0] = n
    BY <1>1 DEF Goes
  <2>3. v[0] = Put(u[0], entry, v[0 + 1])
    BY <1>1 DEF Leaves
  <2>4. v[0] = Node(InsertAt(n.entries, Slot(n.entries, entry.key), entry), <<>>)
    BY <2>1, <2>2, <2>3 DEF Put
  <2>5. LET m == Node(InsertAt(n.entries, Slot(n.entries, entry.key), entry), <<>>)
        IN  At(0, m, Q \cup {entry}) /\ Len(m.entries) = Len(n.entries) + 1
    BY <1>1, LeafEntered
  <2> QED
    BY <2>4, <2>5
<1>2. bad = {}
  <2> SUFFICES ASSUME bad # {} PROVE FALSE
    OBVIOUS
  <2>1. PICK h \in bad : \A m \in bad : h <= m
    <3>1. bad \in SUBSET Nat
      OBVIOUS
    <3> HIDE DEF bad
    <3> QED
      BY <3>1, LeastElement
  <2>2. PICK n, Q, u, v : Wrong(h, n, Q, u, v)
    BY <2>1
  <2>3. h \in Nat
    BY <2>1
  <2>4. Len(n.entries) \in Nat
    BY <2>2, AtMeans, SizedParts
  <2>5. CASE h = 0
    <3>1. At(0, v[0], Q \cup {entry}) /\ Len(v[0].entries) = Len(n.entries) + 1
      BY <1>1, <2>2, <2>5
    <3> QED
      BY <2>2, <2>4, <2>5, <3>1
  <2>6. CASE h # 0
    <3> DEFINE c == Onward(n, entry.key)
               uc == [d \in Nat |-> u[d + 1]]
               vc == [d \in Nat |-> v[d + 1]]
    <3>1. PICK C : /\ Len(c.entries) < maxEntries /\ At(h - 1, c, C)
                   /\ \A y : At(h - 1, y, C \cup {entry}) /\ Len(y.entries) >= Len(c.entries) =>
                          /\ At(h, Put(n, entry, y), Q \cup {entry})
                          /\ Len(Put(n, entry, y).entries) >= Len(n.entries)
      BY <2>2, <2>6, PutKeeps
    <3>2. h - 1 \in Nat /\ h - 1 \notin bad
      <4> HIDE DEF bad
      <4> QED
        BY <2>1, <2>3, <2>6
    <3>3. \A d \in Nat : u[d] = IF d = 0 THEN n ELSE Onward(u[d - 1], entry.key)
      BY <2>2 DEF Goes
    <3>4. Goes(uc, c, entry.key)
      <4>1. ASSUME NEW d \in Nat
            PROVE  uc[d] = IF d = 0 THEN c ELSE Onward(uc[d - 1], entry.key)
        <5>1. d + 1 \in Nat /\ d + 1 # 0 /\ (d + 1) - 1 = d
          OBVIOUS
        <5>2. uc[d] = Onward(u[d], entry.key)
          BY <3>3, <5>1
        <5>3. CASE d = 0
          BY <3>3, <5>2, <5>3
        <5>4. CASE d # 0
          <6>1. d - 1 \in Nat /\ (d - 1) + 1 = d
            BY <5>4
          <6>2. uc[d - 1] = u[d]
            BY <6>1
          <6> QED
            BY <5>2, <5>4, <6>2
        <5> QED
          BY <5>3, <5>4
      <4>2. uc = [d \in Nat |-> uc[d]]
        OBVIOUS
      <4> HIDE DEF uc, c
      <4> QED
        BY <4>1, <4>2 DEF Goes
    <3>5. \A d \in Nat : v[d] = Put(u[d], entry, v[d + 1])
      BY <2>2 DEF Leaves
    <3>6. Leaves(vc, uc, entry)
      <4>1. ASSUME NEW d \in Nat
            PROVE  vc[d] = Put(uc[d], entry, vc[d + 1])
        <5>1. d + 1 \in Nat
          OBVIOUS
        <5>2. vc[d] = v[d + 1] /\ uc[d] = u[d + 1] /\ vc[d + 1] = v[d + 1 + 1]
          BY <5>1
        <5> HIDE DEF vc, uc
        <5> QED
          BY <3>5, <5>1, <5>2
      <4>2. vc = [d \in Nat |-> vc[d]]
        OBVIOUS
      <4> HIDE DEF vc, uc
      <4> QED
        BY <4>1, <4>2 DEF Leaves
    <3>7. At(h - 1, vc[0], C \cup {entry}) /\ Len(vc[0].entries) >= Len(c.entries)
      <4> HIDE DEF c, uc, vc
      <4> QED
        BY <3>1, <3>2, <3>4, <3>6
    <3>8. vc[0] = v[1] /\ v[0] = Put(n, entry, v[1])
      BY <3>3, <3>5
    <3> HIDE DEF c, uc, vc, bad
    <3> QED
      BY <2>2, <3>1, <3>7, <3>8
  <2> QED
    BY <2>5, <2>6
<1>3. k \in Nat
  BY AtMeans
<1>4. At(k, l[0], S \cup {entry}) /\ Len(l[0].entries) >= Len(x.entries)
  BY <1>2, <1>3
<1> HIDE DEF bad
<1>5. k = 0 => Len(l[0].entries) = Len(x.entries) + 1
  BY <1>1
<1> QED
  BY <1>4, <1>5

\* There is one way down.
LEMMA OneWay ==
    ASSUME NEW x, NEW key, NEW f, NEW g, Goes(f, x, key), Goes(g, x, key)
    PROVE  f = g
<1> DEFINE bad == {d \in Nat : f[d] # g[d]}
<1>1. \A d \in Nat : /\ f[d] = IF d = 0 THEN x ELSE Onward(f[d - 1], key)
                     /\ g[d] = IF d = 0 THEN x ELSE Onward(g[d - 1], key)
  BY DEF Goes
<1>2. bad = {}
  <2> SUFFICES ASSUME bad # {} PROVE FALSE
    OBVIOUS
  <2>1. PICK d \in bad : \A m \in bad : d <= m
    <3>1. bad \in SUBSET Nat
      OBVIOUS
    <3> HIDE DEF bad
    <3> QED
      BY <3>1, LeastElement
  <2>2. d \in Nat /\ f[d] # g[d]
    OBVIOUS
  <2>3. d # 0
    BY <1>1, <2>2
  <2>4. d - 1 \in Nat /\ f[d - 1] = g[d - 1]
    <3>1. d - 1 \in Nat /\ ~(d <= d - 1)
      BY <2>2, <2>3
    <3> QED
      BY <2>1, <3>1
  <2> QED
    BY <1>1, <2>2, <2>3, <2>4
<1>3. \A d \in Nat : f[d] = g[d]
  BY <1>2
<1>4. f = [d \in Nat |-> f[d]] /\ g = [d \in Nat |-> g[d]]
  BY DEF Goes
<1> QED
  BY <1>3, <1>4

\* insertNonFull leaves a tree with one more entry, and the node at its top has as
\* many entries as before, or more.
LEMMA Inserted ==
    ASSUME NEW entry \in Entry, NEW k, NEW x, NEW S, At(k, x, S), Len(x.entries) < maxEntries
    PROVE  LET n == insertNonFull(x, entry)
           IN  /\ At(k, n, S \cup {entry}) /\ Len(n.entries) >= Len(x.entries)
<1> DEFINE f == CHOOSE f : Goes(f, x, entry.key)
           l == CHOOSE l : Leaves(l, f, entry)
<1>1. PICK g, h : Goes(g, x, entry.key) /\ Leaves(h, g, entry)
  BY InsertionEnds
<1>2. Goes(f, x, entry.key)
  BY <1>1
<1>3. f = g
  BY <1>1, <1>2, OneWay
<1>4. insertNonFull(x, entry) = l[0]
  BY DEF insertNonFull, Goes, Leaves, Onward, Put
<1> HIDE DEF f
<1>5. Leaves(l, f, entry)
  BY <1>1, <1>3
<1> HIDE DEF l
<1>6. At(k, l[0], S \cup {entry}) /\ Len(l[0].entries) >= Len(x.entries)
  BY <1>2, <1>5, InsertionKeeps
<1> QED
  BY <1>4, <1>6

-------------------------------------------------------------------------------
(* LAB-6: a search.                                                         *)

\* The answer to a search for key where the entries S are.
Answer(found, S, key) == \/ found = {} /\ \A e \in S : e.key # key
                         \/ \E e \in S : e.key = key /\ found = {e}

Below(n, key) == IF n.leaf THEN n ELSE n.children[Probe(n, key)]

Told(n, key, further) == IF Here(n, key) # {} \/ n.leaf THEN Here(n, key) ELSE further

\* The nodes on the way down, and what is found from each of them on.
Seeks(f, x, key) == f = [d \in Nat |-> IF d = 0 THEN x ELSE Below(f[d - 1], key)]

Tells(r, f, key) == r = [d \in Nat |-> Told(f[d], key, r[d + 1])]

\* What the node itself and the one child that may have the key say.
LEMMA SearchStep ==
    ASSUME NEW k, NEW x, NEW S, At(k, x, S), NEW key \in Int
    PROVE  /\ Here(x, key) # {} \/ k = 0 => Answer(Here(x, key), S, key)
           /\ k # 0 => \E C : /\ At(k - 1, Below(x, key), C)
                              /\ Here(x, key) = {} =>
                                     \A found : Answer(found, C, key) => Answer(found, S, key)
<1> DEFINE es == x.entries
           p == Probe(x, key)
<1>1. /\ Sized(x) /\ es \in Seq(Entry) /\ Len(es) \in Nat /\ Ordered(es) /\ DOMAIN es = 1 .. Len(es)
      /\ \A j \in 1 .. Len(es) : es[j] \in Entry /\ es[j].key \in Int
      /\ k \in Nat
  BY AtMeans, SizedParts
<1>2. /\ p \in 1 .. Len(es) + 1
      /\ \A j \in 1 .. Len(es) : /\ j < p => es[j].key < key
                                 /\ j >= p => key <= es[j].key
  BY <1>1, ProbeFacts
<1>3. Here(x, key) = {es[i] : i \in {j \in {p} \cap DOMAIN es : es[j].key = key}}
  BY DEF Here
<1>4. ToSet(es) = {es[j] : j \in 1 .. Len(es)}
  BY <1>1 DEF ToSet
<1>5. ToSet(es) \subseteq S
  BY AtMeans DEF Shares
<1> HIDE DEF p
<1>6. CASE p \in 1 .. Len(es) /\ es[p].key = key
  <2>1. Here(x, key) = {es[p]}
    BY <1>1, <1>3, <1>6
  <2>2. es[p] \in S
    BY <1>4, <1>5, <1>6
  <2>3. Answer(Here(x, key), S, key)
    BY <1>6, <2>1, <2>2 DEF Answer
  <2>4. ASSUME k # 0
        PROVE  \E C : At(k - 1, Below(x, key), C)
    <3>1. PICK g : /\ Shares(x, g, S)
                   /\ \A j \in 1 .. Len(x.children) : At(k - 1, x.children[j], g[j])
      BY <2>4, AtMeans
    <3>2. p \in 1 .. Len(x.children) /\ Below(x, key) = x.children[p]
      BY <1>1, <1>2, <3>1, SizedParts DEF Shares, Below, p
    <3> QED
      BY <3>1, <3>2
  <2> QED
    BY <2>1, <2>3, <2>4
<1>7. CASE ~(p \in 1 .. Len(es) /\ es[p].key = key)
  <2>1. Here(x, key) = {}
    BY <1>1, <1>3, <1>7
  <2>2. \A j \in 1 .. Len(es) : /\ j < p => es[j].key < key
                                /\ j >= p => key < es[j].key
    <3> SUFFICES ASSUME NEW j \in 1 .. Len(es), j >= p
                 PROVE  key < es[j].key
      BY <1>2
    <3>1. p \in 1 .. Len(es) /\ es[p].key # key /\ key <= es[p].key
      BY <1>1, <1>2, <1>7
    <3>2. j = p \/ es[p].key <= es[j].key
      <4>1. j = p \/ p < j
        BY <1>1, <3>1
      <4>2. p \in DOMAIN es /\ j \in DOMAIN es /\ Ordered(es)
        BY <1>1, <1>2, <3>1
      <4> HIDE DEF p, es
      <4> QED
        BY <4>1, <4>2 DEF Ordered
    <3> QED
      BY <1>1, <3>1, <3>2
  <2>3. \A e \in ToSet(es) : e.key # key
    <3>1. \A j \in 1 .. Len(es) : es[j].key # key
      BY <1>1, <1>2, <2>2
    <3> QED
      BY <1>4, <3>1
  <2>4. CASE k = 0
    <3>1. S = ToSet(es)
      BY <2>4, AtMeans
    <3> QED
      BY <2>1, <2>3, <2>4, <3>1 DEF Answer
  <2>5. CASE k # 0
    <3>1. PICK g : /\ Shares(x, g, S)
                   /\ \A j \in 1 .. Len(x.children) : At(k - 1, x.children[j], g[j])
      BY <2>5, AtMeans
    <3>2. p \in 1 .. Len(x.children) /\ Below(x, key) = x.children[p]
      BY <1>1, <1>2, <3>1, SizedParts DEF Shares, Below, p
    <3>3. /\ Len(x.children) = Len(es) + 1 /\ g \in [1 .. Len(es) + 1 -> SUBSET Entry]
          /\ \A i \in 1 .. Len(es) + 1, j \in 1 .. Len(es) : \A e \in g[i] :
                 /\ j < i => es[j].key <= e.key
                 /\ j >= i => e.key <= es[j].key
          /\ S = ToSet(es) \cup UNION {g[i] : i \in 1 .. Len(es) + 1}
      BY <3>1 DEF Shares
    <3>4. ASSUME NEW e \in S, e.key = key
          PROVE  e \in g[p]
      <4>1. PICK i \in 1 .. Len(es) + 1 : e \in g[i]
        BY <2>3, <3>3, <3>4
      <4>2. CASE i < p
        <5>1. i \in 1 .. Len(es)
          BY <1>1, <1>2, <4>2
        <5>2. e.key <= es[i].key /\ es[i].key < key
          BY <1>1, <2>2, <3>3, <4>1, <4>2, <5>1
        <5> QED
          BY <1>1, <3>4, <5>1, <5>2
      <4>3. CASE i > p
        <5>1. p \in 1 .. Len(es) /\ p < i /\ p >= p
          BY <1>1, <1>2, <4>3
        <5>2. es[p].key <= e.key /\ key < es[p].key
          BY <1>1, <2>2, <3>3, <4>1, <5>1
        <5> QED
          BY <1>1, <3>4, <5>1, <5>2
      <4> QED
        BY <1>1, <1>2, <4>1, <4>2, <4>3
    <3>5. g[p] \subseteq S
      BY <1>2, <3>3
    <3>6. ASSUME NEW found, Answer(found, g[p], key)
          PROVE  Answer(found, S, key)
      BY <3>4, <3>5, <3>6 DEF Answer
    <3> QED
      BY <2>1, <2>5, <3>1, <3>2, <3>6
  <2> QED
    BY <2>4, <2>5
<1> QED
  BY <1>6, <1>7

\* There is a way for a search, with an answer at its end.
LEMMA SearchEnds ==
    ASSUME NEW key \in Int, NEW k, NEW x, NEW S, At(k, x, S)
    PROVE  \E f, r : Seeks(f, x, key) /\ Tells(r, f, key)
<1> DEFINE Fine(n) == \E f, r : Seeks(f, n, key) /\ Tells(r, f, key)
           bad == {h \in Nat : \E n, Q : At(h, n, Q) /\ ~Fine(n)}
<1>1. bad = {}
  <2> SUFFICES ASSUME bad # {} PROVE FALSE
    OBVIOUS
  <2>1. PICK h \in bad : \A m \in bad : h <= m
    <3>1. bad \in SUBSET Nat
      OBVIOUS
    <3> HIDE DEF bad
    <3> QED
      BY <3>1, LeastElement
  <2>2. PICK n, Q : At(h, n, Q) /\ ~Fine(n)
    BY <2>1
  <2>3. h \in Nat
    BY <2>1
  <2>4. CASE h = 0
    <3>1. n.leaf
      BY <2>2, <2>4, LeafHeight
    <3> DEFINE f == [d \in Nat |-> n]
               r == [d \in Nat |-> Here(n, key)]
    <3>2. Below(n, key) = n
      BY <3>1 DEF Below
    <3>3. Seeks(f, n, key)
      <4>1. \A d \in Nat : d # 0 => d - 1 \in Nat
        OBVIOUS
      <4> QED
        BY <3>2, <4>1 DEF Seeks
    <3>4. \A y : Told(n, key, y) = Here(n, key)
      BY <3>1 DEF Told
    <3>5. Tells(r, f, key)
      BY <3>4 DEF Tells
    <3> HIDE DEF f, r
    <3> QED
      BY <2>2, <3>3, <3>5
  <2>5. CASE h # 0
    <3> DEFINE c == Below(n, key)
    <3>1. \E C : At(h - 1, c, C)
      BY <2>2, <2>5, SearchStep
    <3>2. h - 1 \in Nat /\ h - 1 \notin bad
      <4> HIDE DEF bad
      <4> QED
        BY <2>1, <2>3, <2>5
    <3>3. Fine(c)
      <4> HIDE DEF Fine, c
      <4> QED
        BY <3>1, <3>2
    <3>4. PICK fc, rc : Seeks(fc, c, key) /\ Tells(rc, fc, key)
      BY <3>3
    <3> HIDE DEF bad, Fine
    <3> DEFINE f == [d \in Nat |-> IF d = 0 THEN n ELSE fc[d - 1]]
               r == [d \in Nat |-> IF d = 0 THEN Told(n, key, rc[0]) ELSE rc[d - 1]]
    <3>5. Seeks(f, n, key)
      <4>1. ASSUME NEW d \in Nat
            PROVE  f[d] = IF d = 0 THEN n ELSE Below(f[d - 1], key)
        <5>1. CASE d = 0
          BY <5>1
        <5>2. CASE d = 1
          <6>1. f[1] = fc[0] /\ f[0] = n
            OBVIOUS
          <6>2. fc[0] = c
            BY <3>4 DEF Seeks
          <6> QED
            BY <5>2, <6>1, <6>2
        <5>3. CASE d > 1
          <6>1. d - 1 \in Nat /\ d - 1 # 0 /\ (d - 1) - 1 \in Nat
            BY <5>3
          <6>2. f[d] = fc[d - 1] /\ f[d - 1] = fc[(d - 1) - 1]
            BY <5>3, <6>1
          <6>3. fc[d - 1] = Below(fc[(d - 1) - 1], key)
            <7> HIDE DEF c
            <7> QED
              BY <3>4, <6>1 DEF Seeks
          <6> QED
            BY <5>3, <6>2, <6>3
        <5> QED
          BY <5>1, <5>2, <5>3
      <4>2. f = [d \in Nat |-> f[d]]
        OBVIOUS
      <4> HIDE DEF f
      <4> QED
        BY <4>1, <4>2 DEF Seeks
    <3>6. Tells(r, f, key)
      <4>1. ASSUME NEW d \in Nat
            PROVE  r[d] = Told(f[d], key, r[d + 1])
        <5>1. CASE d = 0
          <6>1. r[0] = Told(n, key, rc[0]) /\ r[1] = rc[0] /\ f[0] = n
            OBVIOUS
          <6> HIDE DEF r, f
          <6> QED
            BY <5>1, <6>1
        <5>2. CASE d > 0
          <6>1. d - 1 \in Nat /\ d + 1 \in Nat /\ d + 1 # 0 /\ (d + 1) - 1 = (d - 1) + 1
            BY <5>2
          <6>2. r[d] = rc[d - 1] /\ f[d] = fc[d - 1] /\ r[d + 1] = rc[(d - 1) + 1]
            BY <5>2, <6>1
          <6>3. rc[d - 1] = Told(fc[d - 1], key, rc[(d - 1) + 1])
            BY <3>4, <6>1 DEF Tells
          <6> HIDE DEF r, f
          <6> QED
            BY <6>2, <6>3
        <5> QED
          BY <5>1, <5>2
      <4>2. r = [d \in Nat |-> r[d]]
        OBVIOUS
      <4> HIDE DEF r, f
      <4> QED
        BY <4>1, <4>2 DEF Tells
    <3> HIDE DEF f, r
    <3>7. Fine(n)
      BY <3>5, <3>6 DEF Fine
    <3> QED
      BY <2>2, <3>7
  <2> QED
    BY <2>4, <2>5
<1>2. k \in Nat
  BY AtMeans
<1> QED
  BY <1>1, <1>2

\* Whatever way that is, the answer is right.
LEMMA SearchAnswers ==
    ASSUME NEW key \in Int, NEW k, NEW x, NEW S, At(k, x, S),
           NEW f, NEW r, Seeks(f, x, key), Tells(r, f, key)
    PROVE  Answer(r[0], S, key)
<1> DEFINE Wrong(h, n, Q, u, v) ==
               /\ At(h, n, Q) /\ Seeks(u, n, key) /\ Tells(v, u, key)
               /\ ~Answer(v[0], Q, key)
           bad == {h \in Nat : \E n, Q, u, v : Wrong(h, n, Q, u, v)}
<1>1. bad = {}
  <2> SUFFICES ASSUME bad # {} PROVE FALSE
    OBVIOUS
  <2>1. PICK h \in bad : \A m \in bad : h <= m
    <3>1. bad \in SUBSET Nat
      OBVIOUS
    <3> HIDE DEF bad
    <3> QED
      BY <3>1, LeastElement
  <2>2. PICK n, Q, u, v : Wrong(h, n, Q, u, v)
    BY <2>1
  <2>3. h \in Nat
    BY <2>1
  <2>4. \A d \in Nat : u[d] = IF d = 0 THEN n ELSE Below(u[d - 1], key)
    BY <2>2 DEF Seeks
  <2>5. \A d \in Nat : v[d] = Told(u[d], key, v[d + 1])
    BY <2>2 DEF Tells
  <2>6. v[0] = Told(n, key, v[1])
    BY <2>4, <2>5
  <2>7. CASE Here(n, key) # {} \/ h = 0
    <3>1. v[0] = Here(n, key)
      BY <2>2, <2>6, <2>7, LeafHeight DEF Told
    <3> QED
      BY <2>2, <2>7, <3>1, SearchStep
  <2>8. CASE Here(n, key) = {} /\ h # 0
    <3> DEFINE c == Below(n, key)
               uc == [d \in Nat |-> u[d + 1]]
               vc == [d \in Nat |-> v[d + 1]]
    <3>1. PICK C : /\ At(h - 1, c, C)
                   /\ \A found : Answer(found, C, key) => Answer(found, Q, key)
      BY <2>2, <2>8, SearchStep
    <3>2. h - 1 \in Nat /\ h - 1 \notin bad
      <4> HIDE DEF bad
      <4> QED
        BY <2>1, <2>3, <2>8
    <3>3. Seeks(uc, c, key)
      <4>1. ASSUME NEW d \in Nat
            PROVE  uc[d] = IF d = 0 THEN c ELSE Below(uc[d - 1], key)
        <5>1. d + 1 \in Nat /\ d + 1 # 0 /\ (d + 1) - 1 = d
          OBVIOUS
        <5>2. uc[d] = Below(u[d], key)
          BY <2>4, <5>1
        <5>3. CASE d = 0
          BY <2>4, <5>2, <5>3
        <5>4. CASE d # 0
          <6>1. d - 1 \in Nat /\ (d - 1) + 1 = d
            BY <5>4
          <6>2. uc[d - 1] = u[d]
            BY <6>1
          <6> QED
            BY <5>2, <5>4, <6>2
        <5> QED
          BY <5>3, <5>4
      <4>2. uc = [d \in Nat |-> uc[d]]
        OBVIOUS
      <4> HIDE DEF uc, c
      <4> QED
        BY <4>1, <4>2 DEF Seeks
    <3>4. Tells(vc, uc, key)
      <4>1. ASSUME NEW d \in Nat
            PROVE  vc[d] = Told(uc[d], key, vc[d + 1])
        <5>1. d + 1 \in Nat
          OBVIOUS
        <5>2. vc[d] = v[d + 1] /\ uc[d] = u[d + 1] /\ vc[d + 1] = v[d + 1 + 1]
          BY <5>1
        <5> HIDE DEF vc, uc
        <5> QED
          BY <2>5, <5>1, <5>2
      <4>2. vc = [d \in Nat |-> vc[d]]
        OBVIOUS
      <4> HIDE DEF vc, uc
      <4> QED
        BY <4>1, <4>2 DEF Tells
    <3>5. Answer(vc[0], C, key)
      <4> HIDE DEF c, uc, vc
      <4> QED
        BY <3>1, <3>2, <3>3, <3>4
    <3>6. vc[0] = v[1]
      OBVIOUS
    <3>7. v[0] = v[1]
      BY <2>2, <2>6, <2>8, LeafHeight DEF Told
    <3> HIDE DEF c, uc, vc, bad
    <3> QED
      BY <2>2, <3>1, <3>5, <3>6, <3>7
  <2> QED
    BY <2>7, <2>8
<1>2. k \in Nat
  BY AtMeans
<1> QED
  BY <1>1, <1>2

\* There is one way for a search.
LEMMA OneSearch ==
    ASSUME NEW x, NEW key, NEW f, NEW g, Seeks(f, x, key), Seeks(g, x, key)
    PROVE  f = g
<1> DEFINE bad == {d \in Nat : f[d] # g[d]}
<1>1. \A d \in Nat : /\ f[d] = IF d = 0 THEN x ELSE Below(f[d - 1], key)
                     /\ g[d] = IF d = 0 THEN x ELSE Below(g[d - 1], key)
  BY DEF Seeks
<1>2. bad = {}
  <2> SUFFICES ASSUME bad # {} PROVE FALSE
    OBVIOUS
  <2>1. PICK d \in bad : \A m \in bad : d <= m
    <3>1. bad \in SUBSET Nat
      OBVIOUS
    <3> HIDE DEF bad
    <3> QED
      BY <3>1, LeastElement
  <2>2. d \in Nat /\ f[d] # g[d]
    OBVIOUS
  <2>3. d # 0
    BY <1>1, <2>2
  <2>4. d - 1 \in Nat /\ f[d - 1] = g[d - 1]
    <3>1. d - 1 \in Nat /\ ~(d <= d - 1)
      BY <2>2, <2>3
    <3> QED
      BY <2>1, <3>1
  <2> QED
    BY <1>1, <2>2, <2>3, <2>4
<1>3. \A d \in Nat : f[d] = g[d]
  BY <1>2
<1>4. f = [d \in Nat |-> f[d]] /\ g = [d \in Nat |-> g[d]]
  BY DEF Seeks
<1> QED
  BY <1>3, <1>4

\* searchNode finds an entry of the key if there is one, and nothing else.
LEMMA Searched ==
    ASSUME NEW key \in Int, NEW k, NEW x, NEW S, At(k, x, S)
    PROVE  Answer(searchNode(x, key), S, key)
<1> DEFINE f == CHOOSE f : Seeks(f, x, key)
           r == CHOOSE r : Tells(r, f, key)
<1>1. PICK g, h : Seeks(g, x, key) /\ Tells(h, g, key)
  BY SearchEnds
<1>2. Seeks(f, x, key)
  BY <1>1
<1>3. f = g
  BY <1>1, <1>2, OneSearch
<1>4. searchNode(x, key) = r[0]
  BY DEF searchNode, Seeks, Tells, Below, Told
<1> HIDE DEF f
<1>5. Tells(r, f, key)
  BY <1>1, <1>3
<1> HIDE DEF r
<1> QED
  BY <1>2, <1>4, <1>5, SearchAnswers

-------------------------------------------------------------------------------
(* LAB-6: the shape of the tree.                                            *)

Widens(v, N) == v = [d \in Nat |-> IF d = 0 THEN N ELSE UNION {ToSet(n.children) : n \in v[d - 1]}]

Least(n, d) == IF d > 0 THEN t - 1 ELSE IF n.leaf THEN 0 ELSE 1

LevelShaped(N, d) ==
    /\ \A n \in N : /\ Len(n.entries) \in Least(n, d) .. maxEntries
                    /\ ~n.leaf => Len(n.children) = Len(n.entries) + 1
    /\ \A m, n \in N : m.leaf = n.leaf

Shapes(s, v) ==
    s = [d \in Nat |-> \/ v[d] = {}
                       \/ /\ \A n \in v[d] :
                                 /\ Len(n.entries) \in Least(n, d) .. maxEntries
                                 /\ ~n.leaf => Len(n.children) = Len(n.entries) + 1
                          /\ \A m, n \in v[d] : m.leaf = n.leaf
                          /\ s[d + 1]]

Among(N, h) == \A n \in N : \E S : At(h, n, S)

\* The children of nodes of one height are of one height.
LEMMA ChildrenAmong ==
    ASSUME NEW N, NEW h \in Nat, Among(N, h)
    PROVE  LET M == UNION {ToSet(n.children) : n \in N}
           IN  /\ h = 0 => M = {}
               /\ h # 0 => Among(M, h - 1) /\ \A m \in M : Len(m.entries) >= t - 1
<1>1. ASSUME h = 0, NEW n \in N
      PROVE  ToSet(n.children) = {}
  <2>1. \E S : At(0, n, S)
    BY <1>1 DEF Among
  <2>2. Sized(n) /\ n.children = <<>>
    BY <2>1, AtMeans
  <2>3. Len(n.children) = 0 /\ DOMAIN n.children = 1 .. Len(n.children)
    BY <2>2, SizedParts
  <2> QED
    BY <2>3 DEF ToSet
<1>2. ASSUME h # 0, NEW n \in N, NEW m \in ToSet(n.children)
      PROVE  (\E S : At(h - 1, m, S)) /\ Len(m.entries) >= t - 1
  <2>1. PICK S : At(h, n, S)
    BY DEF Among
  <2>2. PICK g : /\ Shares(n, g, S)
                 /\ \A i \in 1 .. Len(n.children) : At(h - 1, n.children[i], g[i])
    BY <1>2, <2>1, AtMeans
  <2>3. PICK i \in 1 .. Len(n.children) : m = n.children[i]
    <3>1. Sized(n)
      BY <2>1, AtMeans
    <3>2. DOMAIN n.children = 1 .. Len(n.children)
      BY <3>1, SizedParts
    <3> QED
      BY <1>2, <3>2 DEF ToSet
  <2> QED
    BY <2>2, <2>3 DEF Shares
<1>3. h # 0 => Among(UNION {ToSet(n.children) : n \in N}, h - 1)
  BY <1>2 DEF Among
<1> QED
  BY <1>1, <1>2, <1>3

\* A tree has levels.
LEMMA LevelsEnd ==
    ASSUME NEW N, NEW h \in Nat, Among(N, h)
    PROVE  \E v : Widens(v, N)
<1> DEFINE bad == {j \in Nat : \E M : Among(M, j) /\ ~\E v : Widens(v, M)}
<1>1. bad = {}
  <2> SUFFICES ASSUME bad # {} PROVE FALSE
    OBVIOUS
  <2>1. PICK j \in bad : \A m \in bad : j <= m
    <3>1. bad \in SUBSET Nat
      OBVIOUS
    <3> HIDE DEF bad
    <3> QED
      BY <3>1, LeastElement
  <2>2. PICK M : Among(M, j) /\ ~\E v : Widens(v, M)
    BY <2>1
  <2>3. j \in Nat
    BY <2>1
  <2> DEFINE C == UNION {ToSet(n.children) : n \in M}
  <2>4. CASE j = 0
    <3> DEFINE v == [d \in Nat |-> IF d = 0 THEN M ELSE {}]
    <3>1. C = {}
      BY <2>2, <2>4, ChildrenAmong
    <3>2. ASSUME NEW d \in Nat
          PROVE  v[d] = IF d = 0 THEN M ELSE UNION {ToSet(n.children) : n \in v[d - 1]}
      <4>1. CASE d = 0
        BY <4>1
      <4>2. CASE d = 1
        BY <3>1, <4>2
      <4>3. CASE d > 1
        <5>1. d - 1 \in Nat /\ d - 1 # 0 /\ d # 0
          BY <4>3
        <5>2. v[d - 1] = {} /\ v[d] = {}
          BY <5>1
        <5> QED
          BY <5>1, <5>2
      <4> QED
        BY <4>1, <4>2, <4>3
    <3>3. v = [d \in Nat |-> v[d]]
      OBVIOUS
    <3> HIDE DEF v
    <3>4. Widens(v, M)
      BY <3>2, <3>3 DEF Widens
    <3> QED
      BY <2>2, <3>4
  <2>5. CASE j # 0
    <3>1. Among(C, j - 1)
      BY <2>2, <2>3, <2>5, ChildrenAmong
    <3>2. j - 1 \in Nat /\ j - 1 \notin bad
      <4> HIDE DEF bad
      <4> QED
        BY <2>1, <2>3, <2>5
    <3>3. PICK vc : Widens(vc, C)
      <4> HIDE DEF C
      <4> QED
        BY <3>1, <3>2
    <3> HIDE DEF bad
    <3> DEFINE v == [d \in Nat |-> IF d = 0 THEN M ELSE vc[d - 1]]
    <3>4. ASSUME NEW d \in Nat
          PROVE  v[d] = IF d = 0 THEN M ELSE UNION {ToSet(n.children) : n \in v[d - 1]}
      <4>1. CASE d = 0
        BY <4>1
      <4>2. CASE d = 1
        <5>1. v[1] = vc[0] /\ v[0] = M
          OBVIOUS
        <5>2. vc[0] = C
          BY <3>3 DEF Widens
        <5> HIDE DEF v
        <5> QED
          BY <4>2, <5>1, <5>2
      <4>3. CASE d > 1
        <5>1. d - 1 \in Nat /\ d - 1 # 0 /\ (d - 1) - 1 \in Nat /\ d # 0
          BY <4>3
        <5>2. v[d] = vc[d - 1] /\ v[d - 1] = vc[(d - 1) - 1]
          BY <5>1
        <5>3. vc[d - 1] = UNION {ToSet(n.children) : n \in vc[(d - 1) - 1]}
          <6> HIDE DEF C
          <6> QED
            BY <3>3, <5>1 DEF Widens
        <5> HIDE DEF v
        <5> QED
          BY <5>1, <5>2, <5>3
      <4> QED
        BY <4>1, <4>2, <4>3
    <3>5. v = [d \in Nat |-> v[d]]
      OBVIOUS
    <3> HIDE DEF v
    <3>6. Widens(v, M)
      BY <3>4, <3>5 DEF Widens
    <3> QED
      BY <2>2, <3>6
  <2> QED
    BY <2>4, <2>5
<1> QED
  BY <1>1

\* Level d of a tree has nodes d levels below the top, or none.
LEMMA LevelsAmong ==
    ASSUME NEW k \in Nat, NEW x, NEW S, At(k, x, S), NEW v, Widens(v, {x}), NEW d \in Nat
    PROVE  /\ d <= k => /\ Among(v[d], k - d)
                        /\ d # 0 => \A n \in v[d] : Len(n.entries) >= t - 1
           /\ d > k => v[d] = {}
<1> DEFINE Fine(j) == /\ j <= k => /\ Among(v[j], k - j)
                                   /\ j # 0 => \A n \in v[j] : Len(n.entries) >= t - 1
                      /\ j > k => v[j] = {}
           bad == {j \in Nat : ~Fine(j)}
<1>1. v[0] = {x} /\ \A j \in Nat : j # 0 => v[j] = UNION {ToSet(n.children) : n \in v[j - 1]}
  BY DEF Widens
<1>2. bad = {}
  <2> SUFFICES ASSUME bad # {} PROVE FALSE
    OBVIOUS
  <2>1. PICK j \in bad : \A m \in bad : j <= m
    <3>1. bad \in SUBSET Nat
      OBVIOUS
    <3> HIDE DEF bad
    <3> QED
      BY <3>1, LeastElement
  <2>2. j \in Nat /\ ~Fine(j)
    OBVIOUS
  <2>3. CASE j = 0
    <3>1. Among(v[0], k - 0)
      BY <1>1 DEF Among
    <3> QED
      BY <2>2, <2>3, <3>1
  <2>4. CASE j # 0
    <3>1. j - 1 \in Nat /\ ~(j <= j - 1)
      BY <2>2, <2>4
    <3>2. Fine(j - 1)
      <4>1. j - 1 \notin bad
        <5> HIDE DEF bad
        <5> QED
          BY <2>1, <3>1
      <4> HIDE DEF Fine
      <4> QED
        BY <3>1, <4>1
    <3>3. v[j] = UNION {ToSet(n.children) : n \in v[j - 1]}
      BY <1>1, <2>2, <2>4
    <3>4. CASE j <= k
      <4>1. k - (j - 1) \in Nat /\ k - (j - 1) # 0 /\ (k - (j - 1)) - 1 = k - j
        BY <2>2, <3>4
      <4>2. Among(v[j - 1], k - (j - 1))
        BY <2>2, <3>2, <3>4
      <4>3. LET M == UNION {ToSet(n.children) : n \in v[j - 1]}
            IN  Among(M, (k - (j - 1)) - 1) /\ \A m \in M : Len(m.entries) >= t - 1
        <5> HIDE DEF bad, Fine
        <5> QED
          BY <4>1, <4>2, ChildrenAmong
      <4>4. Among(v[j], k - j) /\ \A n \in v[j] : Len(n.entries) >= t - 1
        <5> HIDE DEF bad, Fine
        <5> QED
          BY <3>3, <4>1, <4>3
      <4> QED
        BY <2>2, <3>4, <4>4
    <3>5. CASE j = k + 1
      <4>1. Among(v[j - 1], 0)
        <5>1. k - (j - 1) = 0 /\ j - 1 <= k
          BY <3>5
        <5> QED
          BY <3>2, <5>1
      <4>2. v[j] = {}
        BY <3>3, <4>1, ChildrenAmong
      <4> QED
        BY <2>2, <3>5, <4>2
    <3>6. CASE j > k + 1
      <4>1. v[j - 1] = {}
        BY <2>2, <3>2, <3>6
      <4>2. v[j] = {}
        BY <3>3, <4>1
      <4> QED
        BY <2>2, <3>6, <4>2
    <3> QED
      BY <2>2, <3>4, <3>5, <3>6
  <2> QED
    BY <2>3, <2>4
<1> QED
  BY <1>2

\* Every level of a tree has the shape it should have.
LEMMA LevelsShaped ==
    ASSUME NEW k \in Nat, NEW x, NEW S, At(k, x, S), k # 0 => Len(x.entries) >= 1,
           NEW v, Widens(v, {x}), NEW d \in Nat
    PROVE  v[d] = {} \/ LevelShaped(v[d], d)
<1> SUFFICES ASSUME v[d] # {} PROVE LevelShaped(v[d], d)
  OBVIOUS
<1>1. d <= k /\ Among(v[d], k - d) /\ (d # 0 => \A n \in v[d] : Len(n.entries) >= t - 1)
  <2>1. /\ d <= k => /\ Among(v[d], k - d)
                     /\ d # 0 => \A n \in v[d] : Len(n.entries) >= t - 1
        /\ d > k => v[d] = {}
    BY LevelsAmong
  <2>2. d <= k
    BY <2>1
  <2> QED
    BY <2>1, <2>2
<1>2. v[0] = {x}
  BY DEF Widens
<1>3. t \in Nat /\ maxEntries \in Nat
  BY DegreeAssumption DEF maxEntries
<1>4. ASSUME NEW n \in v[d]
      PROVE  /\ Len(n.entries) \in Least(n, d) .. maxEntries
             /\ ~n.leaf => Len(n.children) = Len(n.entries) + 1
             /\ n.leaf = (k - d = 0)
  <2>1. PICK Q : At(k - d, n, Q)
    BY <1>1 DEF Among
  <2>2. /\ Sized(n)
        /\ k - d = 0 => n.children = <<>>
        /\ k - d # 0 => \E g : Shares(n, g, Q)
    BY <2>1, AtMeans
  <2>3. Len(n.entries) \in Nat /\ Len(n.entries) <= maxEntries /\ (n.leaf <=> Len(n.children) = 0)
    BY <2>2, SizedParts DEF Sized
  <2>4. k - d # 0 => Len(n.children) = Len(n.entries) + 1
    BY <2>2 DEF Shares
  <2>5. n.leaf <=> k - d = 0
    BY <2>1, LeafHeight
  <2>6. n.leaf = (k - d = 0)
    <3>1. n.leaf = (n.children = <<>>)
      BY <2>2 DEF Sized
    <3>2. n.leaf \in BOOLEAN
      BY <3>1
    <3> QED
      BY <2>5, <3>2
  <2>7. Len(n.entries) >= Least(n, d) /\ Least(n, d) \in Int
    <3>1. CASE d > 0
      BY <1>1, <1>3, <3>1 DEF Least
    <3>2. CASE d = 0 /\ n.leaf
      BY <2>3, <3>2 DEF Least
    <3>3. CASE d = 0 /\ ~n.leaf
      <4>1. n = x /\ k # 0
        BY <1>2, <2>5, <3>3
      <4> QED
        BY <3>3, <4>1 DEF Least
    <3> QED
      BY <3>1, <3>2, <3>3
  <2> QED
    BY <1>3, <2>3, <2>4, <2>5, <2>6, <2>7
<1> QED
  BY <1>4 DEF LevelShaped

\* A tree of any height has the shape the properties list.
LEMMA ShapeHolds ==
    ASSUME NEW k \in Nat, NEW S, At(k, btree, S), k # 0 => Len(btree.entries) >= 1
    PROVE  BTreeShape
<1> DEFINE v == CHOOSE v : Widens(v, {btree})
           s == CHOOSE s : Shapes(s, v)
<1>1. Widens(v, {btree})
  <2>1. Among({btree}, k)
    BY DEF Among
  <2>2. \E w : Widens(w, {btree})
    BY <2>1, LevelsEnd
  <2> QED
    BY <2>2
<1>2. BTreeShape = s[0]
  BY Zenon DEF BTreeShape, Shapes, Widens, Least
<1> HIDE DEF v
<1>3. \A d \in Nat : v[d] = {} \/ LevelShaped(v[d], d)
  BY <1>1, LevelsShaped
<1>4. Shapes([d \in Nat |-> TRUE], v)
  <2>1. \A d \in Nat : [e \in Nat |-> TRUE][d + 1]
    OBVIOUS
  <2> QED
    BY <1>3, <2>1 DEF Shapes, LevelShaped
<1>5. Shapes(s, v)
  BY <1>4
<1> HIDE DEF s
<1>6. \A d \in Nat : s[d] <=> (v[d] = {} \/ s[d + 1])
  BY <1>3, <1>5 DEF Shapes, LevelShaped
<1> DEFINE bad == {j \in 0 .. k + 1 : ~s[k + 1 - j]}
<1>7. bad = {}
  <2> SUFFICES ASSUME bad # {} PROVE FALSE
    OBVIOUS
  <2>1. PICK j \in bad : \A m \in bad : j <= m
    <3>1. bad \in SUBSET Nat
      OBVIOUS
    <3> HIDE DEF bad
    <3> QED
      BY <3>1, LeastElement
  <2>2. j \in 0 .. k + 1 /\ ~s[k + 1 - j] /\ k + 1 - j \in Nat
    OBVIOUS
  <2>3. CASE j = 0
    <3>1. v[k + 1] = {}
      <4>1. k \in Nat
        OBVIOUS
      <4>2. k + 1 \in Nat /\ k + 1 > k
        OBVIOUS
      <4> HIDE DEF bad
      <4> QED
        BY <1>1, <4>1, <4>2, LevelsAmong
    <3> QED
      BY <1>6, <2>2, <2>3, <3>1
  <2>4. CASE j # 0
    <3>1. j - 1 \in 0 .. k + 1 /\ ~(j <= j - 1) /\ k + 1 - (j - 1) = (k + 1 - j) + 1
      BY <2>2, <2>4
    <3>2. s[k + 1 - (j - 1)]
      BY <2>1, <3>1
    <3> QED
      BY <1>6, <2>2, <3>1, <3>2
  <2> QED
    BY <2>3, <2>4
<1>8. s[0]
  <2>1. k + 1 \in 0 .. k + 1 /\ k + 1 - (k + 1) = 0
    OBVIOUS
  <2> QED
    BY <1>7, <2>1
<1> QED
  BY <1>2, <1>8

-------------------------------------------------------------------------------
(* LAB-6: the theorems.                                                     *)

VARIABLE held  \* the entries inserted so far (auxiliary)

\* The tree by itself, with its calls of Insert.
BTreeNext == \E entry \in Entry : Insert(entry.key, entry.row) /\ held' = held \cup {entry}

BTreeSpec == BTreeInit /\ held = {} /\ [][BTreeNext]_<<btree, held>>

\* A search finds a row that was inserted with the key, if there is one.
SearchFindsWhatWasInserted ==
    \A key \in Int : \/ Search(key) = {} /\ \A e \in held : e.key # key
                     \/ \E e \in held : e.key = key /\ Search(key) = {e.row}

\* The inductive invariant: under the root is what was inserted, and a root that is
\* not a leaf is not empty.
BTreeSound == \E k : At(k, btree, held) /\ (k # 0 => Len(btree.entries) >= 1)

\* What is under a node are entries.
LEMMA EntriesUnder ==
    ASSUME NEW k, NEW n, NEW S, At(k, n, S)
    PROVE  S \subseteq Entry
<1>1. ToSet(n.entries) \subseteq Entry
  <2>1. Sized(n)
    BY AtMeans
  <2>2. n.entries \in Seq(Entry)
    BY <2>1 DEF Sized
  <2> QED
    BY <2>2, ElementOfSeq DEF ToSet
<1>2. CASE k = 0
  BY <1>1, <1>2, AtMeans
<1>3. CASE k # 0
  <2>1. PICK g : Shares(n, g, S)
    BY <1>3, AtMeans
  <2> QED
    BY <1>1, <2>1 DEF Shares
<1> QED
  BY <1>2, <1>3

\* The empty tree satisfies the invariant.
LEMMA StartsSound == BTreeInit /\ held = {} => BTreeSound
<1> SUFFICES ASSUME BTreeInit, held = {} PROVE BTreeSound
  OBVIOUS
<1>1. <<>> \in Seq(Entry) /\ Len(<<>>) = 0 /\ Ordered(<<>>) /\ Len(<<>>) <= maxEntries
  BY EmptySeq, DegreeAssumption DEF Ordered, maxEntries
<1>2. Sized(btree) /\ btree.entries = <<>> /\ btree.children = <<>>
  BY <1>1, LeafNodeIs DEF BTreeInit
<1>3. At(0, btree, ToSet(<<>>))
  BY <1>2, LeafIsAt
<1>4. ToSet(<<>>) = {}
  BY DEF ToSet
<1> QED
  BY <1>3, <1>4 DEF BTreeSound

\* A full root is put under a new one.
LEMMA RootSplit ==
    ASSUME NEW k, NEW S, At(k, btree, S), isFull(btree)
    PROVE  LET u == splitChild(Node(<<>>, <<btree>>), 1)
           IN  At(k + 1, u, S) /\ Len(u.entries) = 1
<1> DEFINE x == Node(<<>>, <<btree>>)
           g == [i \in 1 .. 1 |-> S]
<1>1. t \in Nat /\ t >= 2 /\ maxEntries = 2 * t - 1
  BY DegreeAssumption DEF maxEntries
<1>2. Len(btree.entries) = maxEntries /\ k \in Nat /\ S \subseteq Entry
  BY AtMeans, EntriesUnder DEF isFull
<1>3. <<>> \in Seq(Entry) /\ Len(<<>>) = 0 /\ Ordered(<<>>) /\ Len(<<>>) <= maxEntries
  BY <1>1, EmptySeq DEF Ordered
<1>4. <<btree>> \in Seq({btree}) /\ Len(<<btree>>) = 1 /\ <<btree>>[1] = btree
  OBVIOUS
<1>5. Sized(x) /\ x.entries = <<>> /\ x.children = <<btree>>
  <2>1. ASSUME NEW es \in Seq(Entry), Len(es) <= maxEntries, Ordered(es),
               NEW cs \in Seq({btree})
        PROVE  Sized(Node(es, cs)) /\ Node(es, cs).entries = es /\ Node(es, cs).children = cs
    BY <2>1, NodeIs
  <2> QED
    BY <1>3, <1>4, <2>1, Zenon
<1> HIDE DEF x
<1>6. Shares(x, g, S)
  <2>1. Len(btree.entries) >= t - 1
    BY <1>1, <1>2
  <2>2. ToSet(<<>>) = {} /\ UNION {g[i] : i \in 1 .. 1} = S
    BY DEF ToSet
  <2>3. g \in [1 .. 1 -> SUBSET Entry]
    BY <1>2
  <2> HIDE DEF g
  <2> QED
    BY <1>3, <1>4, <1>5, <2>1, <2>2, <2>3 DEF Shares
<1>7. At(k + 1, x, S)
  <2>1. \A i \in 1 .. Len(x.children) : At(k, x.children[i], g[i])
    BY <1>4, <1>5
  <2> HIDE DEF g
  <2> QED
    BY <1>2, <1>5, <1>6, <2>1, InnerIsAt
<1>8. /\ k + 1 # 0 /\ 1 \in 1 .. Len(x.children) /\ isFull(x.children[1])
      /\ Len(x.entries) < maxEntries /\ Len(x.entries) = 0
  BY <1>1, <1>2, <1>3, <1>4, <1>5 DEF isFull
<1>9. At(k + 1, splitChild(x, 1), S) /\ Len(splitChild(x, 1).entries) = Len(x.entries) + 1
  <2>1. ASSUME NEW kk, NEW i, At(kk, x, S), kk # 0, i \in 1 .. Len(x.children),
               isFull(x.children[i]), Len(x.entries) < maxEntries
        PROVE  LET u == splitChild(x, i)
               IN  At(kk, u, S) /\ Len(u.entries) = Len(x.entries) + 1
    <3> HIDE DEF g
    <3> QED
      BY <2>1, SplitKeeps
  <2> HIDE DEF g
  <2> QED
    BY <1>7, <1>8, <2>1
<1>10. At(k + 1, splitChild(x, 1), S) /\ Len(splitChild(x, 1).entries) = 1
  BY <1>8, <1>9
<1> QED
  BY <1>10 DEF x

\* An insertion keeps the invariant.
LEMMA StaysSound == BTreeSound /\ [BTreeNext]_<<btree, held>> => BTreeSound'
<1> SUFFICES ASSUME BTreeSound, [BTreeNext]_<<btree, held>> PROVE BTreeSound'
  OBVIOUS
<1>1. CASE UNCHANGED <<btree, held>>
  BY <1>1 DEF BTreeSound
<1>2. ASSUME NEW entry \in Entry, Insert(entry.key, entry.row), held' = held \cup {entry}
      PROVE  BTreeSound'
  <2>1. t \in Nat /\ t >= 2 /\ maxEntries = 2 * t - 1
    BY DegreeAssumption DEF maxEntries
  <2>2. PICK k : At(k, btree, held) /\ (k # 0 => Len(btree.entries) >= 1)
    BY DEF BTreeSound
  <2> DEFINE root == IF isFull(btree) THEN splitChild(Node(<<>>, <<btree>>), 1) ELSE btree
  <2>3. btree' = insertNonFull(root, entry)
    <3>1. entry = [key |-> entry.key, row |-> entry.row]
      BY DEF Entry
    <3> QED
      BY <1>2, <3>1 DEF Insert
  <2>4. PICK h : /\ At(h, root, held) /\ (h # 0 => Len(root.entries) >= 1)
                 /\ Len(root.entries) < maxEntries
    <3>1. CASE isFull(btree)
      <4>1. At(k + 1, root, held) /\ Len(root.entries) = 1
        BY <2>2, <3>1, RootSplit
      <4>2. Len(root.entries) < maxEntries /\ Len(root.entries) >= 1
        <5> HIDE DEF root
        <5> QED
          BY <2>1, <4>1
      <4> HIDE DEF root
      <4> QED
        BY <4>1, <4>2
    <3>2. CASE ~isFull(btree)
      <4>1. Len(btree.entries) \in Nat /\ Len(btree.entries) <= maxEntries
        BY <2>2, AtMeans, SizedParts DEF Sized
      <4>2. Len(btree.entries) < maxEntries
        BY <2>1, <3>2, <4>1 DEF isFull
      <4> QED
        BY <2>2, <3>2, <4>2
    <3> QED
      BY <3>1, <3>2
  <2> HIDE DEF root
  <2>5. At(h, btree', held \cup {entry}) /\ Len((btree').entries) >= Len(root.entries)
    BY <2>3, <2>4, Inserted
  <2>6. Len((btree').entries) \in Nat /\ Len(root.entries) \in Nat
    BY <2>4, <2>5, AtMeans, SizedParts
  <2>7. At(h, btree', held') /\ (h # 0 => Len((btree').entries) >= 1)
    BY <1>2, <2>4, <2>5, <2>6
  <2> QED
    BY <2>7 DEF BTreeSound
<1> QED
  BY <1>1, <1>2 DEF BTreeNext

\* Whatever is inserted, in whatever order, every node keeps its bounds, an inner
\* node has one child more than entries, and all leaves are at one depth.
THEOREM BTreeShapeHolds == BTreeSpec => []BTreeShape
<1>1. BTreeSound => BTreeShape
  <2> SUFFICES ASSUME BTreeSound PROVE BTreeShape
    OBVIOUS
  <2>1. PICK k : At(k, btree, held) /\ (k # 0 => Len(btree.entries) >= 1)
    BY DEF BTreeSound
  <2>2. k \in Nat
    BY <2>1, AtMeans
  <2> QED
    BY <2>1, <2>2, ShapeHolds
<1> QED
  BY <1>1, StartsSound, StaysSound, PTL DEF BTreeSpec

\* Splits lose no entry and put none where a search does not look: a search finds a
\* row that was inserted with the key, and nothing if there is none.
THEOREM SearchFindsInserted == BTreeSpec => []SearchFindsWhatWasInserted
<1>1. BTreeSound => SearchFindsWhatWasInserted
  <2> SUFFICES ASSUME BTreeSound, NEW key \in Int
               PROVE  \/ Search(key) = {} /\ \A e \in held : e.key # key
                      \/ \E e \in held : e.key = key /\ Search(key) = {e.row}
    BY DEF SearchFindsWhatWasInserted
  <2>1. PICK k : At(k, btree, held)
    BY DEF BTreeSound
  <2>2. Answer(searchNode(btree, key), held, key)
    BY <2>1, Searched
  <2>3. Search(key) = {e.row : e \in searchNode(btree, key)}
    BY DEF Search
  <2> QED
    BY <2>2, <2>3 DEF Answer
<1> QED
  BY <1>1, StartsSound, StaysSound, PTL DEF BTreeSpec

-------------------------------------------------------------------------------
(* LAB-7: the shunting-yard.                                                *)

Reading == \E tok \in Token : Read(tok)

YardSpec == YardInit /\ [][Reading]_yard

\* Operators are no parentheses, and each has a precedence.
LEMMA OperatorsRanked ==
    /\ \A o \in OPS : Precedence[o] \in 1 .. 7
    /\ "(" \notin OPS
<1>1. ASSUME NEW o \in OPS
      PROVE  Precedence[o] \in 1 .. 7
  <2>1. PICK p \in 1 .. 7 : o \in Level[p]
    BY DEF OPS
  <2>2. (CHOOSE q \in 1 .. 7 : o \in Level[q]) \in 1 .. 7
    BY <2>1
  <2> QED
    BY <2>2 DEF Precedence
<1>2. \A p \in 1 .. 7 : "(" \notin Level[p]
  BY DEF Level
<1> QED
  BY <1>1, <1>2 DEF OPS

\* The first n entries of the stack are a stack.
LEMMA StackCut ==
    ASSUME NEW S, NEW s \in Seq(S), NEW n \in 0 .. Len(s)
    PROVE  /\ SubSeq(s, 1, n) \in Seq(S)
           /\ Len(SubSeq(s, 1, n)) = n
           /\ \A i \in 1 .. n : SubSeq(s, 1, n)[i] = s[i]
  OBVIOUS

\* What is taken off the stack, in the order in which it is taken off.
LEMMA ReversedIsSequence ==
    ASSUME NEW S, NEW s \in Seq(S)
    PROVE  Reverse(s) \in Seq(S)
<1> DEFINE n == Len(s)
<1>1. n \in Nat
  OBVIOUS
<1>2. \A i \in 1 .. n : (n - i) + 1 \in 1 .. n
  BY <1>1
<1>3. \A i \in 1 .. n : s[(n - i) + 1] \in S
  BY <1>2
<1>4. [i \in 1 .. n |-> s[(n - i) + 1]] \in [1 .. n -> S]
  BY <1>3
<1>5. [1 .. n -> S] \subseteq Seq(S)
  BY <1>1
<1> QED
  BY <1>4, <1>5 DEF Reverse

LEMMA StackTop ==
    ASSUME NEW S, NEW s \in Seq(S), NEW n \in 0 .. Len(s)
    PROVE  Reverse(SubSeq(s, n + 1, Len(s))) \in Seq(S)
<1>1. SubSeq(s, n + 1, Len(s)) \in Seq(S)
  OBVIOUS
<1> QED
  BY <1>1, ReversedIsSequence

\* The stack and the output hold tokens.
THEOREM YardTypeCorrect == YardSpec => []YardTypeOK
<1>1. YardInit => YardTypeOK
  <2>1. <<>> \in Seq(Token) /\ <<>> \in Seq(OPS \cup {"("})
    OBVIOUS
  <2> QED
    BY <2>1 DEF YardInit, YardTypeOK
<1>2. YardTypeOK /\ [Reading]_yard => YardTypeOK'
  <2> SUFFICES ASSUME YardTypeOK, [Reading]_yard
               PROVE  YardTypeOK'
    OBVIOUS
  <2> USE DEF YardTypeOK
  <2>1. ASSUME NEW tok \in Token, ReadOperand(tok)
        PROVE  YardTypeOK'
    BY <2>1 DEF ReadOperand
  <2>2. ASSUME NEW tok \in Token, ReadOperator(tok)
        PROVE  YardTypeOK'
    <3>1. PICK kept \in 0 .. Len(ops) :
              /\ tok \in OPS
              /\ output' = output \o Reverse(SubSeq(ops, kept + 1, Len(ops)))
              /\ ops' = Append(SubSeq(ops, 1, kept), tok)
              /\ UNCHANGED threw
      BY <2>2 DEF ReadOperator
    <3>2. ops' \in Seq(OPS \cup {"("})
      BY <3>1, StackCut
    <3>3. Reverse(SubSeq(ops, kept + 1, Len(ops))) \in Seq(OPS \cup {"("})
      BY StackTop
    <3>4. Reverse(SubSeq(ops, kept + 1, Len(ops))) \in Seq(Token)
      BY <3>3 DEF Token, Parenthesis
    <3> QED
      BY <3>1, <3>2, <3>4
  <2>3. CASE ReadOpen
    BY <2>3 DEF ReadOpen
  <2>4. CASE ReadClose
    <3>1. PICK open \in 1 .. Len(ops) :
              /\ output' = output \o Reverse(SubSeq(ops, open + 1, Len(ops)))
              /\ ops' = SubSeq(ops, 1, open - 1)
              /\ UNCHANGED threw
      BY <2>4 DEF ReadClose
    <3>2. ops' \in Seq(OPS \cup {"("})
      BY <3>1, StackCut
    <3>3. Reverse(SubSeq(ops, open + 1, Len(ops))) \in Seq(OPS \cup {"("})
      BY StackTop
    <3>4. Reverse(SubSeq(ops, open + 1, Len(ops))) \in Seq(Token)
      BY <3>3 DEF Token, Parenthesis
    <3> QED
      BY <3>1, <3>2, <3>4
  <2>5. CASE Mismatch
    BY <2>5 DEF Mismatch
  <2>6. CASE UNCHANGED yard
    BY <2>6 DEF yard
  <2> QED
    BY <2>1, <2>2, <2>3, <2>4, <2>5, <2>6 DEF Reading, Read
<1> QED
  BY <1>1, <1>2, PTL DEF YardSpec

\* Whatever is typed, the operators between two parentheses on the stack bind
\* tighter upwards.
THEOREM YardStaysOrdered == YardSpec => []YardOrdered
<1>1. YardInit => YardOrdered
  BY DEF YardInit, YardOrdered
<1>2. YardTypeOK /\ YardOrdered /\ [Reading]_yard => YardOrdered'
  <2> SUFFICES ASSUME YardTypeOK, YardOrdered, [Reading]_yard
               PROVE  YardOrdered'
    OBVIOUS
  <2>t. ops \in Seq(OPS \cup {"("})
    BY DEF YardTypeOK
  <2>1. ASSUME NEW tok \in Token, ReadOperator(tok)
        PROVE  YardOrdered'
    <3>1. PICK kept \in 0 .. Len(ops) :
              /\ tok \in OPS
              /\ kept # 0 => ~Yields(ops[kept], tok)
              /\ ops' = Append(SubSeq(ops, 1, kept), tok)
      BY <2>1 DEF ReadOperator
    <3>2. /\ Len(ops') = kept + 1
          /\ ops'[kept + 1] = tok
          /\ \A i \in 1 .. kept : ops'[i] = ops[i]
      BY <2>t, <3>1, StackCut
    <3> SUFFICES ASSUME NEW i \in 1 .. kept, ops'[i] \in OPS, ops'[i + 1] \in OPS
                 PROVE  \/ Precedence[ops'[i]] < Precedence[ops'[i + 1]]
                        \/ /\ Precedence[ops'[i]] = Precedence[ops'[i + 1]]
                           /\ right_assoc[ops'[i + 1]]
      BY <3>2 DEF YardOrdered
    <3>3. CASE i < kept
      <4>1. Len(ops) \in Nat /\ i + 1 \in 1 .. kept
        BY <2>t, <3>3
      <4>2. i \in 1 .. Len(ops) - 1 /\ ops'[i] = ops[i] /\ ops'[i + 1] = ops[i + 1]
        BY <3>2, <3>3, <4>1
      <4> QED
        BY <4>2 DEF YardOrdered
    <3>4. CASE i = kept
      <4>1. ops[kept] \in OPS /\ ~Yields(ops[kept], tok)
        BY <3>1, <3>2, <3>4
      <4>2. Precedence[ops[kept]] \in 1 .. 7 /\ Precedence[tok] \in 1 .. 7
        BY <4>1, <3>1, OperatorsRanked
      <4> QED
        BY <4>1, <4>2, <3>2, <3>4 DEF Yields
    <3> QED
      BY <3>3, <3>4
  <2>2. CASE ReadOpen
    BY <2>2, <2>t, OperatorsRanked DEF ReadOpen, YardOrdered
  <2>3. CASE ReadClose
    <3>1. PICK open \in 1 .. Len(ops) : ops' = SubSeq(ops, 1, open - 1)
      BY <2>3 DEF ReadClose
    <3>2. /\ Len(ops') = open - 1
          /\ \A i \in 1 .. open - 1 : ops'[i] = ops[i]
      BY <2>t, <3>1, StackCut
    <3> QED
      BY <3>2, <2>t DEF YardOrdered
  <2>4. CASE UNCHANGED ops
    BY <2>4 DEF YardOrdered
  <2> QED
    BY <2>1, <2>2, <2>3, <2>4 DEF Reading, Read, ReadOperand, Mismatch, yard
<1> QED
  BY <1>1, <1>2, YardTypeCorrect, PTL DEF YardSpec
===============================================================================
