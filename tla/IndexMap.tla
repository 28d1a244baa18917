-------------------------------- MODULE IndexMap --------------------------------
(***************************************************************************)
(* What a primary-key index promises: a map from keys to rows, in which an *)
(* insert of a known key overwrites its row, and the number of its keys.   *)
(***************************************************************************)
EXTENDS Naturals, FiniteSets

CONSTANTS Key, Rows

VARIABLES index, size

vars == <<index, size>>

Init == index = <<>> /\ size = 0

insert(k, rid) == index' = [j \in DOMAIN index \cup {k} |-> IF j = k THEN rid ELSE index[j]]

erase(k) == index' = [j \in DOMAIN index \ {k} |-> index[j]]

Next == /\ \E k \in Key : erase(k) \/ \E rid \in Rows[k] : insert(k, rid)
        /\ size' = Cardinality(DOMAIN index')

Spec == Init /\ [][Next]_vars
===============================================================================
