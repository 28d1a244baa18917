------------------------- MODULE HasCycleSearch_proofs -------------------------
(* Proof that the depth-first search of hasCycle computes HasCycle, for     *)
(* every finite graph.                                                      *)
EXTENDS HasCycleSearch, FiniteSetTheorems, TLAPS

\* Everything met is in every closed set that contains start's successors ...
OnlyReachable ==
    \A S \in SUBSET Node :
        graph[start] \subseteq S /\ ClosedUnder(graph, S)
            => visited \cup Elems(stack) \subseteq S

\* ... and what is met but not yet expanded is still on the stack.
NothingDropped ==
    /\ start \notin visited
    /\ graph[start] \subseteq visited \cup Elems(stack)
    /\ \A n \in visited : graph[n] \subseteq visited \cup Elems(stack)

SearchInv == /\ TypeOK
             /\ OnlyReachable
             /\ result = "searching" => NothingDropped
             /\ SearchIsCorrect

LEMMA ListingType ==
    ASSUME IsFiniteSet(Node), NEW S \in SUBSET Node, NEW s \in Listings(S)
    PROVE  s \in Seq(Node) /\ Elems(s) = S
<1>1. IsFiniteSet(S)
  BY FS_Subset
<1>2. Cardinality(S) \in Nat
  BY <1>1, FS_CardinalityType
<1> QED
  BY <1>2 DEF Listings

LEMMA PopElems ==
    ASSUME stack \in Seq(Node), stack # <<>>
    PROVE  /\ Top \in Node
           /\ Rest \in Seq(Node)
           /\ Elems(stack) = Elems(Rest) \cup {Top}
<1>1. Len(stack) \in Nat \ {0}
  OBVIOUS
<1>2. /\ Rest \in Seq(Node)
      /\ Len(Rest) = Len(stack) - 1
      /\ \A i \in 1 .. Len(stack) - 1 : Rest[i] = stack[i]
  <2>1. PICK n \in Nat : n = Len(stack) - 1
    BY <1>1
  <2>2. Rest = [i \in 1 .. n |-> stack[i]]
    BY <1>1, <2>1 DEF Rest
  <2>3. \A i \in 1 .. n : stack[i] \in Node
    BY <1>1, <2>1
  <2> QED
    BY <2>1, <2>2, <2>3
<1>3. 1 .. Len(stack) = (1 .. Len(stack) - 1) \cup {Len(stack)}
  BY <1>1
<1> QED
  BY <1>1, <1>2, <1>3 DEF Top, Elems

LEMMA ConcatElems ==
    ASSUME NEW s \in Seq(Node), NEW u \in Seq(Node)
    PROVE  s \o u \in Seq(Node) /\ Elems(s \o u) = Elems(s) \cup Elems(u)
<1> DEFINE c == s \o u
<1>1. /\ c \in Seq(Node) /\ Len(c) = Len(s) + Len(u)
      /\ \A i \in 1 .. Len(s) : c[i] = s[i]
      /\ \A i \in 1 .. Len(u) : c[Len(s) + i] = u[i]
      /\ Len(s) \in Nat /\ Len(u) \in Nat
  OBVIOUS
<1> HIDE DEF c
<1>2. Elems(c) \subseteq Elems(s) \cup Elems(u)
  <2> SUFFICES ASSUME NEW i \in 1 .. Len(c)
               PROVE  c[i] \in Elems(s) \cup Elems(u)
    BY DEF Elems
  <2>1. CASE i \in 1 .. Len(s)
    BY <1>1, <2>1 DEF Elems
  <2>2. CASE i \notin 1 .. Len(s)
    <3>1. i - Len(s) \in 1 .. Len(u) /\ i = Len(s) + (i - Len(s))
      BY <1>1, <2>2
    <3> QED
      BY <1>1, <3>1 DEF Elems
  <2> QED
    BY <2>1, <2>2
<1>3. Elems(s) \subseteq Elems(c)
  BY <1>1 DEF Elems
<1>4. Elems(u) \subseteq Elems(c)
  <2> SUFFICES ASSUME NEW i \in 1 .. Len(u)
               PROVE  u[i] \in Elems(c)
    BY DEF Elems
  <2>1. Len(s) + i \in 1 .. Len(c) /\ c[Len(s) + i] = u[i]
    BY <1>1
  <2> QED
    BY <2>1 DEF Elems
<1>5. Elems(c) = Elems(s) \cup Elems(u)
  BY <1>2, <1>3, <1>4
<1> QED
  BY <1>1, <1>5 DEF c

\* Among finitely many transactions hasCycle returns true exactly on a cycle
\* through start.
THEOREM SearchCorrect ==
    ASSUME IsFiniteSet(Node)
    PROVE  Spec => []SearchIsCorrect
<1>1. Init => SearchInv
  <2> SUFFICES ASSUME Init PROVE SearchInv
    OBVIOUS
  <2>1. stack \in Seq(Node) /\ Elems(stack) = graph[start]
    BY ListingType DEF Init
  <2> QED
    BY <2>1 DEF Init, SearchInv, TypeOK, OnlyReachable, NothingDropped, SearchIsCorrect
<1>2. SearchInv /\ [Next]_vars => SearchInv'
  <2> SUFFICES ASSUME SearchInv, [Next]_vars PROVE SearchInv'
    OBVIOUS
  <2>1. CASE Found
    <3>1. /\ Top \in Node /\ Rest \in Seq(Node)
          /\ Elems(stack) = Elems(Rest) \cup {Top}
      BY <2>1, PopElems DEF Found, Searching, SearchInv, TypeOK
    <3>2. HasCycle(graph, start)
      BY <2>1, <3>1 DEF Found, SearchInv, OnlyReachable, HasCycle, TypeOK
    <3> QED
      BY <2>1, <3>1, <3>2
         DEF Found, SearchInv, TypeOK, OnlyReachable, SearchIsCorrect
  <2>2. CASE Skip
    <3>1. /\ Top \in Node /\ Rest \in Seq(Node)
          /\ Elems(stack) = Elems(Rest) \cup {Top}
      BY <2>2, PopElems DEF Skip, Searching, SearchInv, TypeOK
    <3>2. visited' \cup Elems(stack') = visited \cup Elems(stack)
      BY <2>2, <3>1 DEF Skip
    <3> QED
      BY <2>2, <3>1, <3>2
         DEF Skip, Searching, SearchInv, TypeOK, OnlyReachable, NothingDropped,
             SearchIsCorrect
  <2>3. CASE Expand
    <3>1. /\ Top \in Node /\ Rest \in Seq(Node)
          /\ Elems(stack) = Elems(Rest) \cup {Top}
      BY <2>3, PopElems DEF Expand, Searching, SearchInv, TypeOK
    <3>2. PICK s \in Listings(graph[Top]) : stack' = Rest \o s
      BY <2>3 DEF Expand
    <3>3. s \in Seq(Node) /\ Elems(s) = graph[Top]
      BY <3>1, <3>2, ListingType DEF SearchInv, TypeOK
    <3>4. stack' \in Seq(Node) /\ Elems(stack') = Elems(Rest) \cup graph[Top]
      BY <3>1, <3>2, <3>3, ConcatElems
    <3>5. visited' = visited \cup {Top} /\ UNCHANGED <<graph, start, result>>
      BY <2>3 DEF Expand
    <3>6. visited' \cup Elems(stack') = visited \cup Elems(stack) \cup graph[Top]
      BY <3>1, <3>4, <3>5
    <3>7. OnlyReachable'
      BY <3>1, <3>5, <3>6 DEF SearchInv, OnlyReachable, ClosedUnder
    <3>8. NothingDropped'
      BY <2>3, <3>1, <3>5, <3>6
         DEF Expand, Searching, SearchInv, NothingDropped
    <3> QED
      BY <2>3, <3>1, <3>4, <3>5, <3>7, <3>8
         DEF Expand, Searching, SearchInv, TypeOK, SearchIsCorrect
  <2>4. CASE Exhausted
    <3>1. Elems(stack) = {}
      BY <2>4 DEF Exhausted, Elems
    <3>2. graph[start] \subseteq visited /\ ClosedUnder(graph, visited) /\ start \notin visited
      BY <2>4, <3>1 DEF Exhausted, SearchInv, NothingDropped, ClosedUnder
    <3>3. ~HasCycle(graph, start)
      BY <3>2 DEF HasCycle, SearchInv, TypeOK
    <3> QED
      BY <2>4, <3>3
         DEF Exhausted, SearchInv, TypeOK, OnlyReachable, SearchIsCorrect
  <2>5. CASE UNCHANGED vars
    BY <2>5 DEF vars, SearchInv, TypeOK, OnlyReachable, NothingDropped, SearchIsCorrect
  <2> QED
    BY <2>1, <2>2, <2>3, <2>4, <2>5 DEF Next
<1>3. SearchInv => SearchIsCorrect
  BY DEF SearchInv
<1> QED
  BY <1>1, <1>2, <1>3, PTL DEF Spec
===============================================================================
