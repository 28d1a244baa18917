------------------------------- MODULE Lab8Props -------------------------------
(***************************************************************************)
(* What the transaction manager of LAB-8 is checked for.                   *)
(***************************************************************************)
EXTENDS Lab8

\* A thread inside acquire_lock's loop has one request that is not granted, in
\* the queue of its call's key; nobody else has one.
Waiting(t) == pc[t] \in {"asleep", "woken"}

OnePending ==
    /\ \A k \in Key : \A i \in DOMAIN queue[k] :
           ~queue[k][i].granted =>
               /\ Waiting(queue[k][i].xid) /\ call[queue[k][i].xid].key = k
               /\ \A j \in DOMAIN queue[k] :
                      queue[k][j].xid = queue[k][i].xid /\ ~queue[k][j].granted => j = i
    /\ \A t \in Xid : Waiting(t) =>
           /\ call[t] # NoCall
           /\ \E i \in DOMAIN queue[call[t].key] :
                  queue[call[t].key][i].xid = t /\ ~queue[call[t].key][i].granted

Types ==
    /\ next_xid \in 1 .. MaxXid + 1
    /\ tx_status \in [Xid -> {"unborn", "ACTIVE", "COMMITTED", "ABORTED"}]
    /\ heap \in [Key -> Seq(Version)]
    /\ queue \in [Key -> Seq(LockRequest)]
    /\ waits_for \in [Xid -> SUBSET Xid]
    /\ pc \in [Xid -> {"unborn", "idle", "asleep", "woken", "locked", "scanning",
                       "victim", "releasing", "ended"}]
    /\ call \in [Xid -> Call \cup {NoCall}]
    /\ to_release \in [Xid -> SUBSET Key]
    /\ at \in Nat /\ (at = 0 <=> HeapFree)
    /\ overtaken \in SUBSET Xid
    /\ calls \in [Xid -> 0 .. MaxCalls]
    /\ seen \in [Xid -> [Key -> SUBSET (Xid \cup {None})]]
    /\ snapshot \in [Xid -> SUBSET Xid]

\* Types, and the requests of waiting threads.
TypeOK == Types /\ OnePending

\* Who keeps a waiting transaction from its lock.
BlockersNow(t) == Blocking(queue[call[t].key], Pending(t, call[t].key))

Asleep == {t \in Xid : pc[t] = "asleep"}

\* No wake-up is missed: a thread asleep in acquire_lock is blocked, and by
\* every transaction its recorded edges name.
NoLostWakeup ==
    \A t \in Asleep : waits_for[t] # {} /\ waits_for[t] \subseteq BlockersNow(t)

\* No set of sleepers blocks itself: each has a member blocked by somebody
\* outside, who is awake or waits on.
NoStalledSet ==
    \A S \in SUBSET Asleep : S # {} => \E t \in S : ~(BlockersNow(t) \subseteq S)

\* The search before every sleep keeps the stored graph free of cycles.
WaitsForAcyclic == Acyclic(waits_for)

\* t has marked a version of k and left no version of its own in its place.
Removed(k, t) ==
    /\ \E i \in DOMAIN heap[k] : heap[k][i].xmax = t
    /\ \A i \in DOMAIN heap[k] : heap[k][i].xmin = t => heap[k][i].xmax = t

\* At every moment a row that nobody has removed has a version that a running
\* transaction may see, whatever updates were committed or aborted around it.  A
\* scan, which tests the versions one after the other, may still miss it.
RowStaysVisible ==
    \A k \in Key : (\A t \in Xid : ~Removed(k, t)) =>
        \A t \in Xid : tx_status[t] = "ACTIVE" => VisibleTo(k, t) # {}

\* A read of a row that nobody has removed comes back with nothing only when it was
\* overtaken: what it should have found is by then the version of a transaction that
\* committed after the scan began, and that the scan had passed (mvcc_read_key).
OnlyOvertakenReadsMiss ==
    [][\A t \in Xid :
           LET k == call[t].key
           IN  /\ NotFound(t)
               /\ call[t].op = "read"
               /\ \A u \in Xid : ~Removed(k, u)
               => \E i \in VisibleTo(k, t) : heap[k][i].xmin \in overtaken]_vars

\* A read finds a row that nobody has removed: the versions a scan meets belong
\* to one snapshot (README.md of LAB-8, "readers see a consistent snapshot").
ReadsFindRows ==
    \A t \in Xid, k \in Key : tx_status[t] = "ACTIVE" /\ None \in seen[t][k] =>
        \E u \in Xid : Removed(k, u) \/ (u = t /\ \E i \in DOMAIN heap[k] : heap[k][i].xmax = t)

\* Only versions of transactions that have committed are read, besides one's own.
NoDirtyRead ==
    \A t \in Xid, k \in Key : seen[t][k] \subseteq Committed \cup {t, None}

\* Two transactions do not hold conflicting locks on a key (README.md of
\* LAB-8, "a strict 2PL lock manager with shared/exclusive locks").
LockExclusion ==
    \A k \in Key : \A i, j \in DOMAIN queue[k] :
        /\ queue[k][i].granted /\ queue[k][j].granted
        /\ queue[k][i].xid # queue[k][j].xid
        => queue[k][i].mode = "S" /\ queue[k][j].mode = "S"

\* A transaction reads from those that had committed when it began (comment in
\* begin_transaction, "see all commits that finished before this xid").
SnapshotIsFixed ==
    \A t \in Xid, k \in Key : seen[t][k] \subseteq snapshot[t] \cup {t, None}

Wrote(t, k) == \E i \in DOMAIN heap[k] : heap[k][i].xmin = t

\* Of two committed transactions that wrote a key after reading it, one has
\* read what the other wrote: no update is lost (README.md of LAB-8, table
\* "MVCC vs 2PL", "Serializable (X lock)").
NoLostUpdate ==
    \A k \in Key : \A t, u \in Committed \ {Loader} :
        t # u /\ Wrote(t, k) /\ Wrote(u, k) =>
            seen[t][k] \cap seen[u][k] = {}

\* Aborting hides the versions the transaction created (README.md of LAB-8,
\* "its own inserts are hidden").
AbortHides ==
    \A k \in Key : \A i \in DOMAIN heap[k] :
        tx_status[heap[k][i].xmin] = "ABORTED" => heap[k][i].xmax = heap[k][i].xmin

\* Every transaction that has begun ends, and no thread waits for ever.
EveryTxnEnds == \A t \in Xid : (pc[t] = "idle") ~> (pc[t] = "ended")
===============================================================================
