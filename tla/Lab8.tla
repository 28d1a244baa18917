---------------------------------- MODULE Lab8 ----------------------------------
(***************************************************************************)
(* The transaction manager of LAB-8 (LAB-8/txn_manager.cpp): row versions  *)
(* stamped with the transactions that created and superseded them, and a   *)
(* queue of lock requests per key.                                         *)
(*                                                                         *)
(* A call takes the key's lock in acquire_lock, where it holds the mutex   *)
(* of the key's queue except while it waits on the condition variable, and *)
(* then scans the key's versions under the heap mutex.  A status is read   *)
(* under a mutex of its own, so a transaction may commit in the middle of  *)
(* a scan: one action per version.  (Within a version the test of xmin and *)
(* that of xmax need no action each: a commit is never taken back.)        *)
(* commit and abort set the status first and then empty the queues one     *)
(* after the other.  The flag in_shrinking is set exactly from pc          *)
(* "releasing" on, when the client makes no more calls.  Every key has had *)
(* its row inserted by the loader, so its queue exists: the lock table     *)
(* itself, which no mutex protects, does not change any more.              *)
(***************************************************************************)
EXTENDS Integers, Sequences, SequencesExt, FiniteSets, WaitsFor

CONSTANTS
    MaxXid,    \* bound: transactions
    Key,       \* row keys
    Op,        \* the calls clients make, of those below
    MaxCalls   \* bound: calls of one transaction, commit and abort apart

ASSUME MaxXidAssumption == MaxXid \in Nat \ {0}
ASSUME OpAssumption == Op \subseteq {"read", "insert", "update", "remove"}
ASSUME MaxCallsAssumption == MaxCalls \in Nat

Xid    == 1 .. MaxXid
Loader == 1   \* the transaction that inserted the rows
None   == 0   \* xmax of a live version; also "no version" in seen

VARIABLES
    next_xid,    \* the next transaction number
    tx_status,   \* transaction -> its entry in g_transactions
    heap,        \* key -> versions, the newest first
    queue,       \* key -> lock requests, the oldest first
    waits_for,   \* the waits-for graph as stored
    pc,          \* transaction -> where its thread is
    call,        \* transaction -> the call it is in
    to_release,  \* transaction -> queues its end has still to empty
    at,          \* the version a scan has come to, under the heap mutex; else 0
    overtaken,   \* who has committed since that scan began (auxiliary)
    calls,       \* transaction -> calls so far
    seen,        \* transaction -> key -> creators of the versions read (auxiliary)
    snapshot     \* transaction -> those committed when it began (auxiliary)

data  == <<heap, seen>>
locks == <<queue, waits_for>>
vars  == <<next_xid, tx_status, heap, queue, waits_for, pc, call, to_release,
           at, overtaken, calls, seen, snapshot>>

Call    == [op : Op, key : Key]
NoCall  == [op |-> "none"]
Version == [xmin : Xid, xmax : Xid \cup {None}]
LockRequest == [xid : Xid, mode : {"S", "X"}, granted : BOOLEAN]

\* The loader has inserted every row and committed.
Init ==
    /\ next_xid = Loader + 1
    /\ tx_status = [t \in Xid |-> IF t = Loader THEN "COMMITTED" ELSE "unborn"]
    /\ heap = [k \in Key |-> <<[xmin |-> Loader, xmax |-> None]>>]
    /\ queue = [k \in Key |-> <<>>]
    /\ waits_for = [t \in Xid |-> {}]
    /\ pc = [t \in Xid |-> IF t = Loader THEN "ended" ELSE "unborn"]
    /\ call = [t \in Xid |-> NoCall]
    /\ to_release = [t \in Xid |-> {}]
    /\ at = 0
    /\ overtaken = {}
    /\ calls = [t \in Xid |-> 0]
    /\ seen = [t \in Xid |-> [k \in Key |-> {}]]
    /\ snapshot = [t \in Xid |-> {}]

Committed == {t \in Xid : tx_status[t] = "COMMITTED"}

begin_transaction ==
    /\ next_xid \in Xid
    /\ next_xid' = next_xid + 1
    /\ tx_status' = [tx_status EXCEPT ![next_xid] = "ACTIVE"]
    /\ pc' = [pc EXCEPT ![next_xid] = "idle"]
    /\ snapshot' = [snapshot EXCEPT ![next_xid] = Committed]
    /\ UNCHANGED <<data, locks, call, to_release, at, overtaken, calls>>

-------------------------------------------------------------------------------
(* Versions.  A transaction's snapshot_xid is its own number.               *)

\* Wrong on purpose, for the mutation runs (as is every definition named
\* Bug...): running transactions count as committed.
BugInSnapshot(creator, t) == creator < t

InSnapshot(creator, t) == creator \in Committed /\ creator < t

\* A version superseded after the snapshot is not shown any more.
BugIsVisible(v, t) ==
    /\ v.xmin = t \/ InSnapshot(v.xmin, t)
    /\ v.xmax # None => v.xmax # t /\ v.xmax \notin Committed

is_visible(v, t) ==
    /\ v.xmin = t \/ InSnapshot(v.xmin, t)
    /\ v.xmax # None => v.xmax # t /\ ~InSnapshot(v.xmax, t)

VisibleTo(k, t) == {i \in DOMAIN heap[k] : is_visible(heap[k][i], t)}

\* What a scan of a key's versions stops at.
Wanted(op, v, t) == is_visible(v, t) /\ (op = "read" \/ v.xmax = None)

WithNew(versions, t) == <<[xmin |-> t, xmax |-> None]>> \o versions

HeapFree == \A u \in Xid : pc[u] # "scanning"

mvcc_insert(t) ==
    /\ pc[t] = "locked"
    /\ HeapFree
    /\ call[t].op = "insert"
    /\ heap' = [heap EXCEPT ![call[t].key] = WithNew(@, t)]
    /\ pc' = [pc EXCEPT ![t] = "idle"]
    /\ call' = [call EXCEPT ![t] = NoCall]
    /\ UNCHANGED <<next_xid, tx_status, locks, seen, at, overtaken, to_release,
                   calls, snapshot>>

\* A read, an update or a removal looks at the version it has come to.
Scanning(t) ==
    /\ call[t].op # "insert"
    /\ pc[t] = "scanning" \/ (pc[t] = "locked" /\ HeapFree)

Position(t) == IF pc[t] = "scanning" THEN at ELSE 1

Here(t) == heap[call[t].key][Position(t)]

ScanEnds(t) ==
    /\ pc' = [pc EXCEPT ![t] = "idle"]
    /\ call' = [call EXCEPT ![t] = NoCall]
    /\ at' = 0
    /\ overtaken' = {}
    /\ UNCHANGED <<next_xid, tx_status, locks, to_release, calls, snapshot>>

\* What the scan has found: a read returns its creator, the others mark it.
Found(t) ==
    /\ Scanning(t)
    /\ Wanted(call[t].op, Here(t), t)
    /\ LET k      == call[t].key
           marked == [heap[k] EXCEPT ![Position(t)].xmax = t]
       IN  \/ /\ call[t].op = "read"
              /\ seen' = [seen EXCEPT ![t][k] = @ \cup {Here(t).xmin}]
              /\ UNCHANGED heap
           \/ /\ call[t].op = "update"
              /\ heap' = [heap EXCEPT ![k] = WithNew(marked, t)]
              /\ UNCHANGED seen
           \/ /\ call[t].op = "remove"
              /\ heap' = [heap EXCEPT ![k] = marked]
              /\ UNCHANGED seen
    /\ ScanEnds(t)

\* It goes on to the next version; a transaction may commit meanwhile.
Passed(t) ==
    /\ Scanning(t)
    /\ ~Wanted(call[t].op, Here(t), t)
    /\ Position(t) < Len(heap[call[t].key])
    /\ at' = Position(t) + 1
    /\ pc' = [pc EXCEPT ![t] = "scanning"]
    /\ UNCHANGED <<next_xid, tx_status, data, locks, call, to_release, overtaken,
                   calls, snapshot>>

\* No version was wanted: a read returns nothing, an update only inserts.
NotFound(t) ==
    /\ Scanning(t)
    /\ ~Wanted(call[t].op, Here(t), t)
    /\ Position(t) = Len(heap[call[t].key])
    /\ LET k == call[t].key
       IN  \/ /\ call[t].op = "read"
              /\ seen' = [seen EXCEPT ![t][k] = @ \cup {None}]
              /\ UNCHANGED heap
           \/ /\ call[t].op = "update"
              /\ heap' = [heap EXCEPT ![k] = WithNew(@, t)]
              /\ UNCHANGED seen
           \/ call[t].op = "remove" /\ UNCHANGED data
    /\ ScanEnds(t)

Apply(t) == mvcc_insert(t) \/ Found(t) \/ Passed(t) \/ NotFound(t)

-------------------------------------------------------------------------------
(* Locks.                                                                   *)

ModeOf(op) == IF op = "read" THEN "S" ELSE "X"

AlreadyHolds(k, t, mode) ==
    \E i \in DOMAIN queue[k] :
        /\ queue[k][i].xid = t
        /\ queue[k][i].granted
        /\ mode = "S" \/ queue[k][i].mode = "X"

\* The granted requests ahead of the i-th that conflict with it.
Blocking(q, i) ==
    {q[j].xid : j \in {j \in 1 .. i - 1 : /\ q[j].granted
                                          /\ "X" \in {q[i].mode, q[j].mode}
                                          /\ q[j].xid # q[i].xid}}

\* The search reports a cycle anywhere in what start reaches.
BugSearchFindsNone(g, start) == FALSE

has_cycle(g, start) ==
    \E n \in DOMAIN g :
        /\ HasCycle(g, n)
        /\ \A S \in SUBSET DOMAIN g : start \in S /\ ClosedUnder(g, S) => n \in S

\* remove_if: of the requests in q, those at the positions in keep.
Kept(q, keep) ==
    LET upto[n \in 0 .. Len(q)] ==
            IF n = 0 THEN <<>>
            ELSE IF n \in keep THEN Append(upto[n - 1], q[n]) ELSE upto[n - 1]
    IN  upto[Len(q)]

\* The victim's request stays in the queue.
BugWithdrawn(q, t) == q

Withdrawn(q, t) == Kept(q, {i \in DOMAIN q : q[i].xid # t \/ q[i].granted})

\* The queue without the requests of t.
Without(q, t) == Kept(q, {i \in DOMAIN q : q[i].xid # t})

\* One round of the loop in acquire_lock, for the i-th request of queue q.
Attempt(t, k, q, i) ==
    LET blocking == Blocking(q, i)
        edges    == [waits_for EXCEPT ![t] = blocking]
    IN  \/ /\ blocking = {}
           /\ queue' = [queue EXCEPT ![k] = [q EXCEPT ![i].granted = TRUE]]
           /\ waits_for' = [waits_for EXCEPT ![t] = {}]
           /\ pc' = [pc EXCEPT ![t] = "locked"]
        \/ /\ blocking # {}
           /\ has_cycle(edges, t)
           /\ queue' = [queue EXCEPT ![k] = Withdrawn(q, t)]
           /\ waits_for' = [waits_for EXCEPT ![t] = {}]
           /\ pc' = [pc EXCEPT ![t] = "victim"]
        \/ /\ blocking # {}
           /\ ~has_cycle(edges, t)
           /\ queue' = [queue EXCEPT ![k] = q]
           /\ waits_for' = edges
           /\ pc' = [pc EXCEPT ![t] = "asleep"]

\* read, insert, update or remove, up to the lock.
Request(t, op, k) ==
    /\ pc[t] = "idle"
    /\ calls[t] < MaxCalls
    /\ calls' = [calls EXCEPT ![t] = @ + 1]
    /\ call' = [call EXCEPT ![t] = [op |-> op, key |-> k]]
    /\ LET mode == ModeOf(op)
           new  == [xid |-> t, mode |-> mode, granted |-> FALSE]
       IN  \/ /\ AlreadyHolds(k, t, mode)
              /\ pc' = [pc EXCEPT ![t] = "locked"]
              /\ UNCHANGED locks
           \/ /\ ~AlreadyHolds(k, t, mode)
              /\ Attempt(t, k, Append(queue[k], new), Len(queue[k]) + 1)
    /\ UNCHANGED <<next_xid, tx_status, data, to_release, at, overtaken, snapshot>>

\* The request a waiting thread has in a queue.
Pending(t, k) == CHOOSE i \in DOMAIN queue[k] :
                     queue[k][i].xid = t /\ ~queue[k][i].granted

Resume(t) ==
    /\ pc[t] = "woken"
    /\ Attempt(t, call[t].key, queue[call[t].key], Pending(t, call[t].key))
    /\ UNCHANGED <<next_xid, tx_status, data, call, to_release, at, overtaken,
                   calls, snapshot>>

SpuriousWake(t) ==
    /\ pc[t] = "asleep"
    /\ pc' = [pc EXCEPT ![t] = "woken"]
    /\ UNCHANGED <<next_xid, tx_status, data, locks, call, to_release, at,
                   overtaken, calls, snapshot>>

-------------------------------------------------------------------------------
(* The end of a transaction.                                                *)

EndAs(t, s) ==
    /\ tx_status' = [tx_status EXCEPT ![t] = s]
    /\ pc' = [pc EXCEPT ![t] = "releasing"]
    /\ to_release' = [to_release EXCEPT ![t] = Key]
    /\ call' = [call EXCEPT ![t] = NoCall]
    /\ UNCHANGED <<next_xid, locks, at, calls, seen, snapshot>>

Commit(t) ==
    /\ pc[t] = "idle"
    /\ EndAs(t, "COMMITTED")
    /\ overtaken' = IF HeapFree THEN {} ELSE overtaken \cup {t}
    /\ UNCHANGED heap

\* xmax := xid on the transaction's own versions, then xmax := 0 wherever it is xid.
Undone(v, t) == IF v.xmin = t \/ v.xmax = t THEN [v EXCEPT !.xmax = None] ELSE v

\* The client's decision, or its handler of DeadlockException.
Abort(t) ==
    /\ pc[t] \in {"idle", "victim"}
    /\ HeapFree
    /\ heap' = [k \in Key |-> [i \in DOMAIN heap[k] |-> Undone(heap[k][i], t)]]
    /\ EndAs(t, "ABORTED")
    /\ UNCHANGED overtaken

\* Nobody is woken.
BugNotified(t, k) == {}

\* Sleepers on the queue of k.
Notified(t, k) == {u \in Xid \ {t} : pc[u] = "asleep" /\ call[u].key = k}

\* release_locks, one queue.
Release(t, k) ==
    /\ pc[t] = "releasing"
    /\ k \in to_release[t]
    /\ to_release' = [to_release EXCEPT ![t] = @ \ {k}]
    /\ queue' = [queue EXCEPT ![k] = Without(@, t)]
    /\ pc' = [u \in Xid |->
                IF u \in Notified(t, k) THEN "woken"
                ELSE IF u = t /\ to_release[t] = {k} THEN "ended" ELSE pc[u]]
    /\ waits_for' = IF to_release[t] = {k} THEN [waits_for EXCEPT ![t] = {}]
                    ELSE waits_for
    /\ UNCHANGED <<next_xid, tx_status, data, call, at, overtaken, calls, snapshot>>

-------------------------------------------------------------------------------
ReleaseSome(t) == \E k \in Key : Release(t, k)

Step(t) == \/ \E op \in Op, k \in Key : Request(t, op, k)
           \/ Apply(t) \/ Resume(t) \/ SpuriousWake(t)
           \/ Commit(t) \/ Abort(t) \/ ReleaseSome(t)

Next == begin_transaction \/ \E t \in Xid : Step(t)

Spec == Init /\ [][Next]_vars

\* A thread that is not blocked finishes its call and in the end its
\* transaction, a caught exception leads to abort, a woken thread gets the
\* mutex of the queue.
FairSpec == Spec /\ \A t \in Xid :
    /\ WF_vars(Apply(t)) /\ WF_vars(Resume(t)) /\ WF_vars(ReleaseSome(t))
    /\ WF_vars(Commit(t) \/ Abort(t))
===============================================================================
