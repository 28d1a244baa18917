------------------------------ MODULE SerialStore ------------------------------
(***************************************************************************)
(* What strict two-phase locking promises: a store whose transactions      *)
(* commit one at a time, each as if it ran alone at the instant it         *)
(* commits.  A running transaction may be told anything, but it commits    *)
(* only if everything it was told is still the state of the store.         *)
(***************************************************************************)
CONSTANTS Txn, Key, Value, Zero, Unset

VARIABLES
    db,      \* key -> committed value
    phase,   \* transaction -> "unborn", "running", "committed" or "aborted"
    buffer,  \* transaction -> its uncommitted writes
    seen     \* transaction -> key -> the committed values it was shown

vars == <<db, phase, buffer, seen>>

Nothing == [k \in Key |-> Unset]
Unread  == [k \in Key |-> {}]

Init == /\ db = [k \in Key |-> Zero]
        /\ phase = [t \in Txn |-> "unborn"]
        /\ buffer = [t \in Txn |-> Nothing]
        /\ seen = [t \in Txn |-> Unread]

Seed(k, v) == /\ \A t \in Txn : phase[t] = "unborn"
              /\ db' = [db EXCEPT ![k] = v]
              /\ UNCHANGED <<phase, buffer, seen>>

Begin(t) == /\ phase[t] = "unborn"
            /\ phase' = [phase EXCEPT ![t] = "running"]
            /\ UNCHANGED <<db, buffer, seen>>

Show(t, k, v) == /\ phase[t] = "running"
                 /\ seen' = [seen EXCEPT ![t][k] = @ \cup {v}]
                 /\ UNCHANGED <<db, phase, buffer>>

Put(t, k, v) == /\ phase[t] = "running"
                /\ buffer' = [buffer EXCEPT ![t][k] = v]
                /\ UNCHANGED <<db, phase, seen>>

End(t, outcome) == /\ phase[t] = "running"
                   /\ phase' = [phase EXCEPT ![t] = outcome]
                   /\ buffer' = [buffer EXCEPT ![t] = Nothing]
                   /\ seen' = [seen EXCEPT ![t] = Unread]

\* The transaction's reads are the store's state now, so reads and writes
\* take effect together, here.
Commit(t) == /\ \A k \in Key : seen[t][k] \subseteq {db[k]}
             /\ db' = [k \in Key |-> IF buffer[t][k] = Unset
                                     THEN db[k] ELSE buffer[t][k]]
             /\ End(t, "committed")

Abort(t) == End(t, "aborted") /\ UNCHANGED db

Next == \/ \E k \in Key, v \in Value : Seed(k, v)
        \/ \E t \in Txn :
              \/ Begin(t) \/ Commit(t) \/ Abort(t)
              \/ \E k \in Key, v \in Value : Show(t, k, v) \/ Put(t, k, v)

Spec == Init /\ [][Next]_vars
===============================================================================
