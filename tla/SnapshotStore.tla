----------------------------- MODULE SnapshotStore -----------------------------
(***************************************************************************)
(* What the MVCC mode promises, snapshot isolation: a transaction reads a  *)
(* private copy of the store made when it began, and commits only if no    *)
(* key it writes has been committed by another transaction since then, so  *)
(* no committed update is overwritten unseen.  Write skew is permitted.    *)
(***************************************************************************)
CONSTANTS Txn, Key, Value, Zero, Unset

VARIABLES
    db,      \* key -> committed value
    phase,   \* transaction -> "unborn", "running", "committed" or "aborted"
    buffer,  \* transaction -> its uncommitted writes
    copy,    \* transaction -> the store when it began
    dirty,   \* running transaction -> keys committed since it began
    seen     \* transaction -> key -> the committed values it was shown

vars == <<db, phase, buffer, copy, dirty, seen>>

Nothing == [k \in Key |-> Unset]
Unread  == [k \in Key |-> {}]
Empty   == [k \in Key |-> Zero]
Written(t) == {k \in Key : buffer[t][k] # Unset}

Init == /\ db = Empty
        /\ phase = [t \in Txn |-> "unborn"]
        /\ buffer = [t \in Txn |-> Nothing]
        /\ copy = [t \in Txn |-> Empty]
        /\ dirty = [t \in Txn |-> {}]
        /\ seen = [t \in Txn |-> Unread]

Seed(k, v) == /\ \A t \in Txn : phase[t] = "unborn"
              /\ db' = [db EXCEPT ![k] = v]
              /\ UNCHANGED <<phase, buffer, copy, dirty, seen>>

Begin(t) == /\ phase[t] = "unborn"
            /\ phase' = [phase EXCEPT ![t] = "running"]
            /\ copy'  = [copy EXCEPT ![t] = db]
            /\ UNCHANGED <<db, buffer, dirty, seen>>

Show(t, k) == /\ phase[t] = "running"
              /\ seen' = [seen EXCEPT ![t][k] = @ \cup {copy[t][k]}]
              /\ UNCHANGED <<db, phase, buffer, copy, dirty>>

Put(t, k, v) == /\ phase[t] = "running"
                /\ buffer' = [buffer EXCEPT ![t][k] = v]
                /\ UNCHANGED <<db, phase, copy, dirty, seen>>

End(t, outcome) == /\ phase[t] = "running"
                   /\ phase' = [phase EXCEPT ![t] = outcome]
                   /\ buffer' = [buffer EXCEPT ![t] = Nothing]
                   /\ seen' = [seen EXCEPT ![t] = Unread]
                   /\ copy' = [copy EXCEPT ![t] = Empty]

\* The others that are running now have a stale copy of what t wrote.
Commit(t) == /\ Written(t) \cap dirty[t] = {}
             /\ db' = [k \in Key |-> IF k \in Written(t)
                                     THEN buffer[t][k] ELSE db[k]]
             /\ dirty' = [u \in Txn |->
                            IF u # t /\ phase[u] = "running"
                            THEN dirty[u] \cup Written(t)
                            ELSE IF u = t THEN {} ELSE dirty[u]]
             /\ End(t, "committed")

Abort(t) == /\ dirty' = [dirty EXCEPT ![t] = {}]
            /\ End(t, "aborted")
            /\ UNCHANGED db

Next == \/ \E k \in Key, v \in Value : Seed(k, v)
        \/ \E t \in Txn :
              \/ Begin(t) \/ Commit(t) \/ Abort(t)
              \/ \E k \in Key : Show(t, k) \/ \E v \in Value : Put(t, k, v)

Spec == Init /\ [][Next]_vars
===============================================================================
