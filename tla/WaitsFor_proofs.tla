---------------------------- MODULE WaitsFor_proofs ----------------------------
(* Facts about waits-for graphs, for graphs of any size.                    *)
EXTENDS WaitsFor, TLAPS

\* Removing edges creates no cycle.
LEMMA FewerEdges ==
    ASSUME NEW N, NEW g \in [N -> SUBSET N], NEW h \in [N -> SUBSET N],
           \A n \in N : h[n] \subseteq g[n],
           Acyclic(g)
    PROVE  Acyclic(h)
BY DEF Acyclic, CyclicCore

\* Giving t new edges creates no cycle if the search from t finds none: a
\* cyclic core through t, cut down to a closed set that t cannot reach itself
\* from, would be a cyclic core of the old graph.
LEMMA NewEdges ==
    ASSUME NEW N, NEW g \in [N -> SUBSET N], NEW t \in N, NEW b \in SUBSET N,
           Acyclic(g), ~HasCycle([g EXCEPT ![t] = b], t)
    PROVE  Acyclic([g EXCEPT ![t] = b])
<1> DEFINE h == [g EXCEPT ![t] = b]
<1>1. h \in [N -> SUBSET N] /\ \A n \in N \ {t} : h[n] = g[n]
  OBVIOUS
<1>2. PICK S \in SUBSET N : h[t] \subseteq S /\ ClosedUnder(h, S) /\ t \notin S
  BY <1>1 DEF HasCycle
<1> HIDE DEF h
<1>3. ASSUME NEW C \in SUBSET N, CyclicCore(h, C)
      PROVE  FALSE
  <2>1. CASE t \notin C
    <3>1. CyclicCore(g, C)
      BY <1>1, <1>3, <2>1 DEF CyclicCore
    <3> QED
      BY <3>1 DEF Acyclic
  <2>2. CASE t \in C
    <3>1. h[t] \cap C # {}
      BY <1>3, <2>2 DEF CyclicCore
    <3>2. C \cap S # {}
      BY <1>2, <3>1
    <3>3. ASSUME NEW n \in C \cap S
          PROVE  g[n] \cap (C \cap S) # {}
      <4>1. h[n] \cap C # {} /\ h[n] \subseteq S
        BY <1>2, <1>3 DEF CyclicCore, ClosedUnder
      <4>2. h[n] = g[n]
        BY <1>1, <1>2
      <4> QED
        BY <4>1, <4>2
    <3>4. CyclicCore(g, C \cap S)
      BY <3>2, <3>3 DEF CyclicCore
    <3> QED
      BY <3>4 DEF Acyclic
  <2> QED
    BY <2>1, <2>2
<1>4. Acyclic(h)
  BY <1>1, <1>3 DEF Acyclic
<1> QED
  BY <1>4 DEF h
===============================================================================
