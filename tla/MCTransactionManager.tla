------------------------ MODULE MCTransactionManager ------------------------
(* Instances of the concurrency engine for TLC.                             *)
EXTENDS TransactionManagerProps, TLC

CONSTANTS t1, t2, t3, k1, k2

Txn3 == {t1, t2, t3}
Txn2 == {t1, t2}
Keys2 == {k1, k2}

Symm3 == Permutations(Txn3) \cup Permutations(Keys2)

\* Views: what the rest of a behaviour can depend on.  In TWO_PL mode nothing
\* reads the clock, the snapshots or the timestamps, and of a key's versions
\* only the latest value is used.  No step reads the auxiliary variable seen,
\* and every step that adds to it is checked as it is taken.
View2PL  == <<[k \in Key |-> <<history[k] = <<>>, Latest(k)>>], writes, locks,
              waits, status, request, seen>>
ViewMVCC == <<commit_clock, history,
              [t \in Txn |-> IF Live(t) THEN snapshot[t] ELSE 0],
              writes, locks, waits, status, request>>
\* Waiting does not depend on values at all.
ViewLive == <<writes, locks, waits, status, request>>
===============================================================================
