-------------------------- MODULE TransactionManager --------------------------
(***************************************************************************)
(* The concurrency engine of MiniDB (src/txn/transaction_manager.cpp): an  *)
(* in-memory versioned key/value store whose transactions run either under *)
(* strict two-phase locking or under snapshot isolation with exclusive     *)
(* write locks.                                                            *)
(*                                                                         *)
(* Every public call holds mtx_ from its first statement to its return,    *)
(* except while acquire() sleeps in cv_.wait, so a call that does not wait *)
(* is one action, and a call that waits is one action up to each wait and  *)
(* one from each wake-up on.  A transaction identifier is compared for     *)
(* equality only, so next_id_ is abstracted to "an identifier not yet      *)
(* given out", and a client thread to the transaction it is running.       *)
(***************************************************************************)
EXTENDS Integers, Sequences, FiniteSets, WaitsFor

CONSTANTS
    Txn,        \* transaction identifiers
    Key,        \* keys of the store
    Value,      \* values a client may write
    Zero,       \* the value read from a key that has no visible version
    NoTxn,      \* no exclusive holder
    Unset,      \* no buffered value
    NoRequest,  \* no lock request in progress
    Mode        \* "MVCC" or "TWO_PL", fixed by the constructor

ASSUME ModeAssumption  == Mode \in {"MVCC", "TWO_PL"}
ASSUME ZeroAssumption  == Zero \in Value
ASSUME NoTxnAssumption == NoTxn \notin Txn
ASSUME UnsetAssumption == Unset \notin Value

VARIABLES
    commit_clock,  \* timestamp of the last commit
    history,       \* key -> its committed versions, oldest first
    snapshot,      \* transaction -> commit_clock when it began
    writes,        \* transaction -> its buffered writes
    xlock,         \* key -> exclusive holder
    slock,         \* key -> shared holders
    held_x,        \* transaction -> keys it holds exclusively
    held_s,        \* transaction -> keys it holds shared
    waits,         \* the waits-for graph as stored
    status,        \* where the client's thread is
    request,       \* the lock request a waiting thread is in the middle of
    seen           \* what read() has returned from the store (auxiliary)

locks == <<xlock, slock, held_x, held_s>>
vars  == <<commit_clock, history, snapshot, writes, xlock, slock, held_x,
           held_s, waits, status, request, seen>>

Request ==
    [key : Key, mode : {"S"}] \cup [key : Key, mode : {"X"}, value : Value]

\* "asleep" is in cv_.wait; "notified" has been woken and waits for mtx_;
\* "victim" and "conflict" have been thrown DeadlockAbort and TxnConflict.
Status == {"unborn", "active", "asleep", "notified", "victim", "conflict",
           "committed", "aborted"}

Live(t)    == status[t] \in {"active", "asleep", "notified", "victim"}
Waiting(t) == status[t] \in {"asleep", "notified"}
Ended(t)   == status[t] \in {"conflict", "committed", "aborted"}

-------------------------------------------------------------------------------
(* The versioned store.                                                     *)

\* The loop runs over the versions until the first that is newer than ts, and
\* the value of the last one it passes is returned.
VisibleAt(ts, k) ==
    LET passed == {i \in 1 .. Len(history[k]) :
                     \A j \in 1 .. i : history[k][j].commit_ts <= ts}
    IN  IF passed = {} THEN Zero ELSE history[k][Cardinality(passed)].value

Latest(k) == IF history[k] = <<>> THEN Zero
             ELSE history[k][Len(history[k])].value

WriteSet(t) == {k \in Key : writes[t][k] # Unset}

\* Another transaction committed k after t's snapshot.
CommittedSince(t, k) ==
    history[k] # <<>> /\ history[k][Len(history[k])].commit_ts > snapshot[t]

-------------------------------------------------------------------------------
(* Locks.                                                                   *)

\* Wrong on purpose, for the mutation runs (as is every definition named
\* Bug...): an upgrade does not wait for the other shared holders.
BugBlockersIgnoreShared(t, k, m) == {xlock[k]} \ {NoTxn, t}

\* canGrant's out-parameter; the request is granted when it is empty.
Blockers(t, k, m) ==
    ({xlock[k]} \ {NoTxn, t}) \cup (IF m = "X" THEN slock[k] \ {t} ELSE {})

\* A shared lock counts as enough to write.
BugHoldsAny(t, k, m) == k \in held_x[t] \cup held_s[t]

Holds(t, k, m) == k \in held_x[t] \/ (m = "S" /\ k \in held_s[t])

TakeShared(t, k) ==
    /\ slock'  = [slock EXCEPT ![k] = @ \cup {t}]
    /\ held_s' = [held_s EXCEPT ![t] = @ \cup {k}]
    /\ UNCHANGED <<xlock, held_x>>

\* The upgraded lock is not entered in the transaction's own list.
BugTakeExclusiveUnlisted(t, k) ==
    /\ slock'  = [slock EXCEPT ![k] = @ \ {t}]
    /\ held_s' = [held_s EXCEPT ![t] = @ \ {k}]
    /\ xlock'  = [xlock EXCEPT ![k] = t]
    /\ UNCHANGED held_x

\* An upgrade gives up the transaction's own shared lock on the key.
TakeExclusive(t, k) ==
    /\ slock'  = [slock EXCEPT ![k] = @ \ {t}]
    /\ held_s' = [held_s EXCEPT ![t] = @ \ {k}]
    /\ xlock'  = [xlock EXCEPT ![k] = t]
    /\ held_x' = [held_x EXCEPT ![t] = @ \cup {k}]

TakeLock(t, r) == \/ r.mode = "S" /\ TakeShared(t, r.key)
                  \/ r.mode = "X" /\ TakeExclusive(t, r.key)

\* The transaction's own lists are not erased.
BugReleaseKeepsLists(t) ==
    /\ xlock' = [k \in Key |-> IF xlock[k] = t THEN NoTxn ELSE xlock[k]]
    /\ slock' = [k \in Key |-> slock[k] \ {t}]
    /\ waits' = [waits EXCEPT ![t] = {}]
    /\ UNCHANGED <<held_x, held_s>>

ReleaseAll(t) ==
    /\ xlock'  = [k \in Key |-> IF k \in held_x[t] /\ xlock[k] = t
                                THEN NoTxn ELSE xlock[k]]
    /\ slock'  = [k \in Key |-> IF k \in held_s[t]
                                THEN slock[k] \ {t} ELSE slock[k]]
    /\ held_x' = [held_x EXCEPT ![t] = {}]
    /\ held_s' = [held_s EXCEPT ![t] = {}]
    /\ waits'  = [waits EXCEPT ![t] = {}]

\* Nobody is woken.
BugNotifyNobody(t, s) == status' = [status EXCEPT ![t] = s]

\* t moves to s and cv_.notify_all wakes every sleeper.
NotifyAll(t, s) ==
    status' = [u \in Txn |-> IF u = t THEN s
                             ELSE IF status[u] = "asleep" THEN "notified"
                             ELSE status[u]]

-------------------------------------------------------------------------------
(* read() and write(): acquire, then touch the data.                        *)

\* What is left of the call once the lock is held: write() buffers the value,
\* read() returns the latest committed one.
Access(t, r) ==
    \/ /\ r.mode = "X"
       /\ writes' = [writes EXCEPT ![t][r.key] = r.value]
       /\ UNCHANGED seen
    \/ /\ r.mode = "S"
       /\ seen' = [seen EXCEPT ![t][r.key] = @ \cup {Latest(r.key)}]
       /\ UNCHANGED writes

\* One evaluation of acquire()'s loop condition and of what follows it: leave
\* the loop with the lock, throw DeadlockAbort, or sleep.
Grant(t, r) ==
    /\ Blockers(t, r.key, r.mode) = {}
    /\ waits'   = [waits EXCEPT ![t] = {}]
    /\ status'  = [status EXCEPT ![t] = "active"]
    /\ request' = [request EXCEPT ![t] = NoRequest]
    /\ TakeLock(t, r)
    /\ Access(t, r)

\* An upgrader counts its own shared lock among those in its way.
BugWaitEdgesWithSelf(t, r) ==
    [waits EXCEPT ![t] = ({xlock[r.key]} \ {NoTxn}) \cup slock[r.key]]

WaitEdges(t, r) == [waits EXCEPT ![t] = Blockers(t, r.key, r.mode)]

Deadlock(t, r) ==
    /\ Blockers(t, r.key, r.mode) # {}
    /\ HasCycle(WaitEdges(t, r), t)
    /\ waits'   = [waits EXCEPT ![t] = {}]
    /\ status'  = [status EXCEPT ![t] = "victim"]
    /\ request' = [request EXCEPT ![t] = NoRequest]
    /\ UNCHANGED <<locks, writes, seen>>

Sleep(t, r) ==
    /\ Blockers(t, r.key, r.mode) # {}
    /\ ~HasCycle(WaitEdges(t, r), t)
    /\ waits'   = WaitEdges(t, r)
    /\ status'  = [status EXCEPT ![t] = "asleep"]
    /\ request' = [request EXCEPT ![t] = r]
    /\ UNCHANGED <<locks, writes, seen>>

Acquire(t, r) ==
    /\ Grant(t, r) \/ Deadlock(t, r) \/ Sleep(t, r)
    /\ UNCHANGED <<commit_clock, history, snapshot>>

\* A read or write whose lock is already held does not enter the loop.
AccessHeld(t, r) ==
    /\ Holds(t, r.key, r.mode)
    /\ Access(t, r)
    /\ UNCHANGED <<commit_clock, history, snapshot, locks, waits, status,
                   request>>

\* write(), and read() in TWO_PL mode.  A read of a key the transaction has
\* written returns the buffered value before any of this and changes nothing.
Call(t, r) ==
    /\ status[t] = "active"
    /\ r.mode = "S" => Mode = "TWO_PL" /\ r.key \notin WriteSet(t)
    /\ \/ AccessHeld(t, r)
       \/ ~Holds(t, r.key, r.mode) /\ Acquire(t, r)

\* read() in MVCC mode takes no lock.
ReadSnapshot(t, k) ==
    /\ status[t] = "active"
    /\ Mode = "MVCC"
    /\ k \notin WriteSet(t)
    /\ seen' = [seen EXCEPT ![t][k] = @ \cup {VisibleAt(snapshot[t], k)}]
    /\ UNCHANGED <<commit_clock, history, snapshot, writes, locks, waits,
                   status, request>>

\* A woken thread has mtx_ again and re-evaluates its loop condition.
Resume(t) ==
    /\ status[t] = "notified"
    /\ Acquire(t, request[t])

\* cv_.wait may return without a notification.
SpuriousWake(t) ==
    /\ status[t] = "asleep"
    /\ status' = [status EXCEPT ![t] = "notified"]
    /\ UNCHANGED <<commit_clock, history, snapshot, writes, locks, waits,
                   request, seen>>

-------------------------------------------------------------------------------
(* Seeding, begin, commit, abort.                                           *)

\* Clients seed each key at most once, before any transaction begins.
SetInitial(k, v) ==
    /\ \A t \in Txn : status[t] = "unborn"
    /\ history[k] = <<>>
    /\ history' = [history EXCEPT ![k] = Append(@, [commit_ts |-> 0, value |-> v])]
    /\ UNCHANGED <<commit_clock, snapshot, writes, locks, waits, status,
                   request, seen>>

\* The snapshot is taken one commit too early.
BugBeginTooEarly(t) ==
    /\ status[t] = "unborn"
    /\ snapshot' = [snapshot EXCEPT ![t] = commit_clock - 1]
    /\ status'   = [status EXCEPT ![t] = "active"]
    /\ UNCHANGED <<commit_clock, history, writes, locks, waits, request, seen>>

Begin(t) ==
    /\ status[t] = "unborn"
    /\ snapshot' = [snapshot EXCEPT ![t] = commit_clock]
    /\ status'   = [status EXCEPT ![t] = "active"]
    /\ UNCHANGED <<commit_clock, history, writes, locks, waits, request, seen>>

NoWrites == [k \in Key |-> Unset]
NoReads  == [k \in Key |-> {}]

\* Common to every end of a transaction: its buffer and its locks are
\* dropped and every sleeper is woken.
EndAs(t, s) ==
    /\ writes' = [writes EXCEPT ![t] = NoWrites]
    /\ seen'   = [seen EXCEPT ![t] = NoReads]
    /\ ReleaseAll(t)
    /\ NotifyAll(t, s)
    /\ UNCHANGED <<snapshot, request>>

\* Lost updates are not looked for.
BugNeverConflicts(t) == FALSE

\* First-committer-wins, checked in MVCC mode only.
Conflicts(t) == Mode = "MVCC" /\ \E k \in WriteSet(t) : CommittedSince(t, k)

\* The clock is advanced after the timestamp is taken, not before.
BugCommitTimeStale == commit_clock

CommitTime == commit_clock + 1

Commit(t) ==
    /\ status[t] = "active"
    /\ ~Conflicts(t)
    /\ commit_clock' = commit_clock + 1
    /\ history' = [k \in Key |->
                     IF k \in WriteSet(t)
                     THEN Append(history[k], [commit_ts |-> CommitTime,
                                              value     |-> writes[t][k]])
                     ELSE history[k]]
    /\ EndAs(t, "committed")

CommitConflict(t) ==
    /\ status[t] = "active"
    /\ Conflicts(t)
    /\ EndAs(t, "conflict")
    /\ UNCHANGED <<commit_clock, history>>

\* The client's own decision, or its handler of either exception.
Abort(t) ==
    /\ status[t] \in {"active", "victim", "conflict"}
    /\ EndAs(t, "aborted")
    /\ UNCHANGED <<commit_clock, history>>

-------------------------------------------------------------------------------
Init ==
    /\ commit_clock = 0
    /\ history  = [k \in Key |-> <<>>]
    /\ snapshot = [t \in Txn |-> 0]
    /\ writes   = [t \in Txn |-> NoWrites]
    /\ xlock    = [k \in Key |-> NoTxn]
    /\ slock    = [k \in Key |-> {}]
    /\ held_x   = [t \in Txn |-> {}]
    /\ held_s   = [t \in Txn |-> {}]
    /\ waits    = [t \in Txn |-> {}]
    /\ status   = [t \in Txn |-> "unborn"]
    /\ request  = [t \in Txn |-> NoRequest]
    /\ seen     = [t \in Txn |-> NoReads]

Step(t) ==
    \/ Begin(t)
    \/ \E r \in Request : Call(t, r)
    \/ \E k \in Key : ReadSnapshot(t, k)
    \/ Resume(t)
    \/ SpuriousWake(t)
    \/ Commit(t)
    \/ CommitConflict(t)
    \/ Abort(t)

Next == \/ \E k \in Key, v \in Value : SetInitial(k, v)
        \/ \E t \in Txn : Step(t)

Spec == Init /\ [][Next]_vars

\* A client thread that is not blocked goes on to end its transaction (the
\* benchmark's transactions are four calls long), a caught exception leads to
\* abort(), and a woken thread gets the mutex.  Nothing obliges a client to
\* begin, and no spurious wake-up is ever promised.
Finish(t)   == Commit(t) \/ CommitConflict(t) \/ Abort(t)
FairSpec    == Spec /\ \A t \in Txn : WF_vars(Finish(t)) /\ WF_vars(Resume(t))
===============================================================================
