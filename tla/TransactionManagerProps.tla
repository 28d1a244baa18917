----------------------- MODULE TransactionManagerProps -----------------------
(***************************************************************************)
(* What must be true of the concurrency engine: its invariants, the steps  *)
(* it may never take, and the stores it implements in its two modes.       *)
(***************************************************************************)
EXTENDS TransactionManager

Version == [commit_ts : Nat, value : Value]

\* Every variable has its type: the shape of TransactionManager's maps, the
\* timestamps of begin() and commit(), the phases of a client's thread, and a
\* lock request for every thread inside acquire().
TypeOK ==
    /\ commit_clock \in Nat
    /\ history  \in [Key -> Seq(Version)]
    /\ snapshot \in [Txn -> Nat]
    /\ writes   \in [Txn -> [Key -> Value \cup {Unset}]]
    /\ xlock    \in [Key -> Txn \cup {NoTxn}]
    /\ slock    \in [Key -> SUBSET Txn]
    /\ held_x   \in [Txn -> SUBSET Key]
    /\ held_s   \in [Txn -> SUBSET Key]
    /\ waits    \in [Txn -> SUBSET Txn]
    /\ status   \in [Txn -> Status]
    /\ request  \in [Txn -> Request \cup {NoRequest}]
    /\ seen     \in [Txn -> [Key -> SUBSET Value]]
    /\ \A t \in Txn : Waiting(t) => request[t] \in Request

-------------------------------------------------------------------------------
(* Locking.                                                                 *)

\* The two views of who holds what, the lock table and the transaction's own
\* sets, agree after every grant, upgrade and releaseAll: releaseAll trusts
\* the one to clean the other, and a leftover would block a key for ever.
LockTablesAgree ==
    \A t \in Txn, k \in Key : /\ (xlock[k] = t) <=> (k \in held_x[t])
                              /\ (t \in slock[k]) <=> (k \in held_s[t])

\* An exclusive holder is alone on its key, upgrades included.
LockExclusion == \A k \in Key : xlock[k] # NoTxn => slock[k] = {}

\* Every buffered write is covered by an exclusive lock until its transaction
\* ends, in both modes: two transactions never have the same key buffered.
WritesAreLocked ==
    \A t \in Txn, k \in Key : writes[t][k] # Unset => xlock[k] = t

\* Only a transaction that has not ended holds locks or has waits-for edges.
OnlyLiveHold ==
    \A t \in Txn : held_x[t] \cup held_s[t] # {} \/ waits[t] # {} => Live(t)

\* The locks are right after every grant, upgrade, victim and releaseAll: the
\* four together, since each is kept only with the help of the others.
LocksCorrect == LockTablesAgree /\ LockExclusion /\ WritesAreLocked /\ OnlyLiveHold

-------------------------------------------------------------------------------
(* Versions.                                                                *)

\* visibleValue stops at the first version that is too new, and commit looks
\* only at the last one: both rely on each key's versions being strictly
\* ascending in time and none being newer than the clock.
VersionsAscend ==
    \A k \in Key :
        /\ \A i, j \in 1 .. Len(history[k]) :
              i < j => history[k][i].commit_ts < history[k][j].commit_ts
        /\ \A i \in 1 .. Len(history[k]) :
              history[k][i].commit_ts <= commit_clock

\* Strict 2PL: what a running transaction has read from the store is still
\* what the store holds, so its reads could all have been made at commit.
ReadsStayCurrent ==
    Mode = "TWO_PL" =>
        \A t \in Txn, k \in Key : seen[t][k] \subseteq {Latest(k)}

-------------------------------------------------------------------------------
(* Waiting.                                                                 *)

\* Who keeps the waiting transaction t from its lock now, whatever waits says.
BlockersNow(t) == Blockers(t, request[t].key, request[t].mode)

\* The wake-up is never missed: a thread that is still asleep in cv_.wait is
\* still blocked, and by every transaction its recorded edges name.
NoLostWakeup ==
    \A t \in Txn : status[t] = "asleep" =>
        /\ waits[t] # {}
        /\ waits[t] \subseteq BlockersNow(t)

\* hasCycle runs before every sleep, so the stored graph never has a cycle.
WaitsForAcyclic == Acyclic(waits)

\* No set of sleepers is closed off: among them and those that block them
\* some thread is awake, and its end will wake them.
NoStalledSet ==
    \A S \in SUBSET {t \in Txn : status[t] = "asleep"} :
        S # {} => \E t \in S : ~(BlockersNow(t) \subseteq S)

\* What the README says of deadlock detection ("a waits-for graph is
\* DFS-checked on every blocked request; a cycle aborts the requester"): no
\* cycle of transactions each asleep on a lock the next one holds.
NoSleepingCycle ==
    \A S \in SUBSET {t \in Txn : status[t] = "asleep"} :
        S # {} => \E t \in S : BlockersNow(t) \cap S = {}

-------------------------------------------------------------------------------
(* Steps.                                                                   *)

\* Strict two-phase locking: as long as a transaction has not ended it keeps
\* every lock it has, an upgrade trading a shared for an exclusive one.
StrictTwoPhase ==
    [][\A t \in Txn : Live(t) /\ Live(t)' =>
          /\ held_x[t] \subseteq held_x'[t]
          /\ held_s[t] \subseteq held_s'[t] \cup held_x'[t]]_vars

\* A transaction is made a deadlock victim only if it really is on a cycle of
\* transactions each blocked by the next, in terms of the locks as they are.
TrueCycle(t, r) ==
    LET edges == [u \in Txn |-> IF u = t THEN Blockers(t, r.key, r.mode)
                                ELSE IF Waiting(u) THEN BlockersNow(u)
                                ELSE {}]
    IN  HasCycle(edges, t)

NoFalseDeadlock ==
    [][\A t \in Txn : status[t] # "victim" /\ status'[t] = "victim" =>
          \E r \in Request : /\ status[t] = "notified" => r = request[t]
                             /\ TrueCycle(t, r)]_vars

-------------------------------------------------------------------------------
(* What the two modes implement.                                            *)

Phase(t) == CASE status[t] = "unborn"    -> "unborn"
              [] status[t] = "committed" -> "committed"
              [] status[t] \in {"conflict", "aborted"} -> "aborted"
              [] OTHER -> "running"

Serial == INSTANCE SerialStore
            WITH db     <- [k \in Key |-> Latest(k)],
                 phase  <- [t \in Txn |-> Phase(t)],
                 buffer <- writes

Snapshot == INSTANCE SnapshotStore
              WITH db     <- [k \in Key |-> Latest(k)],
                   phase  <- [t \in Txn |-> Phase(t)],
                   buffer <- writes,
                   copy   <- [t \in Txn |-> [k \in Key |->
                                IF Live(t) THEN VisibleAt(snapshot[t], k)
                                ELSE Zero]],
                   dirty  <- [t \in Txn |-> {k \in Key :
                                Live(t) /\ CommittedSince(t, k)}]

\* The TWO_PL mode is serializable, in commit order (README, "Strict 2PL is
\* serializable").
Serializable == Serial!Spec

\* The MVCC mode is snapshot isolation: begin-time reads, no lost update.
SnapshotIsolated == Snapshot!Spec

\* Every transaction that has begun ends, and no client waits for ever.
EveryTxnEnds == \A t \in Txn : status[t] = "active" ~> Ended(t)
===============================================================================
