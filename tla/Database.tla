-------------------------------- MODULE Database --------------------------------
(***************************************************************************)
(* The database session of MiniDB (src/catalog/database.cpp) with its      *)
(* write-ahead log (src/recovery/wal.cpp), over one table: autocommitted   *)
(* and explicit transactions, rollback, crash or clean exit, restart and   *)
(* recovery.                                                               *)
(*                                                                         *)
(* The session is a single thread.  Its functions are split at every point *)
(* where a crash can tell the difference: before each record appended to   *)
(* the log (each is flushed) and between changes of pages, any of which    *)
(* may be evicted from the buffer pool, hence written to disk, in between. *)
(* Memory survives neither a crash nor an exit; the log, the data file and *)
(* the page list in the catalog do.                                        *)
(***************************************************************************)
EXTENDS HeapFile, SequencesExt

CONSTANTS
    Loaded,         \* the pages on disk at first, checkpointed
    MaxStatements,  \* bound: statements the clients send
    MaxRestarts,    \* bound: restarts of the program
    Care,           \* what the clients avoid, a subset of Precautions
    Tears           \* "none", "later" (not the first record) or "any"

\* "aborted": keys of a rolled-back transaction are not inserted again while the
\* log mentions them, and no DELETE is rolled back.
\* "deleted": a deleted key is not inserted again while the log has its DELETE.
Precautions == {"aborted", "deleted"}

ASSUME LoadedAssumption ==
    /\ Loaded \in Seq(Page)
    /\ \A p \in DOMAIN Loaded : \A s \in DOMAIN Loaded[p].slots :
           ~TooLarge(Loaded[p].slots[s].image)
    /\ \A k \in Key : \A r, q \in Copies(Loaded, k) : r = q
ASSUME WorkloadAssumption ==
    /\ Care \subseteq Precautions
    /\ Tears \in {"none", "later", "any"}
    /\ MaxStatements \in Nat
    /\ MaxRestarts \in Nat

INVALID_TXN == 0

VARIABLES
    disk,         \* the table's pages in the data file
    log,          \* the log file
    mem,          \* the table's pages as the buffer pool shows them
    index,        \* primary key -> RowId
    current_txn,  \* the open transaction
    next_txn,     \* the next transaction number
    autocommit_started,  \* the open transaction is an implicit one
    undo,         \* inverse operations to replay on ROLLBACK
    pc,           \* where the program is
    op,           \* the row operation the program is in
    keys,         \* keys a DELETE statement has still to delete
    deleted,      \* keys it has deleted
    pos,          \* the record recovery has come to
    committed,    \* content as of the last COMMIT record (auxiliary)
    statements,   \* statements so far
    restarts      \* restarts so far

pages    == <<disk, mem, index>>
session  == <<current_txn, next_txn, autocommit_started, undo>>
dml      == <<op, keys, deleted>>
counters == <<statements, restarts>>
vars     == <<disk, log, mem, index, current_txn, next_txn, autocommit_started,
              undo, pc, op, keys, deleted, pos, committed, statements, restarts>>

RowRecord == [type : {"INSERT", "DELETE"}, txid : Nat, pk : Key, image : Image]
TxnRecord == [type : {"BEGIN", "COMMIT", "ABORT"}, txid : Nat]
Undo      == [was_insert : BOOLEAN, pk : Key, image : Image]
Torn      == [type |-> "TORN", txid |-> 0]   \* a record whose write was cut short
NoOp      == [kind |-> "none"]
RowOp     == [kind : {"INSERT", "DELETE"}, pk : Key, image : Image,
              implicit : BOOLEAN]

Init ==
    /\ disk = Loaded
    /\ log = <<>>
    /\ mem = disk
    /\ index = IndexOf(disk)
    /\ current_txn = INVALID_TXN
    /\ next_txn = 1
    /\ autocommit_started = FALSE
    /\ undo = <<>>
    /\ pc = "ready"
    /\ op = NoOp
    /\ keys = {}
    /\ deleted = {}
    /\ pos = 0
    /\ committed = Contents(disk)
    /\ statements = 0
    /\ restarts = 0

-------------------------------------------------------------------------------
(* The log.                                                                 *)

Logs(type)     == log' = Append(log, [type |-> type, txid |-> current_txn])

\* Reading stops at a torn record.
TornAt == {i \in DOMAIN log : log[i].type = "TORN"}

Readable == IF TornAt = {} THEN log
            ELSE SubSeq(log, 1, (CHOOSE i \in TornAt : \A j \in TornAt : i <= j) - 1)

CommittedTxns == {r.txid : r \in {q \in Range(Readable) : q.type = "COMMIT"}}

MaxTxn == CHOOSE n \in {r.txid : r \in Range(Readable)} :
              \A r \in Range(Readable) : r.txid <= n

RolledBack(k) == \E r, q \in Range(Readable) : /\ r.type \in {"INSERT", "DELETE"}
                                               /\ r.pk = k
                                               /\ q.type = "ABORT"
                                               /\ q.txid = r.txid

Deleted(k) == \E r \in Range(Readable) : r.type = "DELETE" /\ r.pk = k

-------------------------------------------------------------------------------
(* Rows.  A heap that grows allocates the page in the data file and saves   *)
(* the page list at once, and the page's bytes when it is written back.     *)

\* Wrong on purpose, for the mutation runs (as is every definition named
\* Bug...): the page list is not saved when the heap grows.
BugPhysInsert(k, image) ==
    /\ mem' = Inserted(mem, k, image)
    /\ index' = [index EXCEPT ![k] = InsertedAt(mem, image)]
    /\ UNCHANGED disk

PhysInsert(k, image) ==
    /\ mem' = Inserted(mem, k, image)
    /\ index' = [index EXCEPT ![k] = InsertedAt(mem, image)]
    /\ disk' = IF Grows(mem, image) THEN Append(disk, EmptyPage) ELSE disk

\* The row is erased from the heap only.
BugPhysDelete(k) ==
    /\ mem' = IF index[k] = NoRow THEN mem ELSE Erased(mem, index[k])
    /\ UNCHANGED <<index, disk>>

PhysDelete(k) ==
    /\ mem' = IF index[k] = NoRow THEN mem ELSE Erased(mem, index[k])
    /\ index' = [index EXCEPT ![k] = NoRow]
    /\ UNCHANGED disk

\* The buffer pool writes a dirty page back, to reuse its frame.
WriteBack(p) ==
    /\ pc \notin {"down", "refused"}
    /\ mem[p] # disk[p]
    /\ disk' = [disk EXCEPT ![p] = mem[p]]
    /\ UNCHANGED <<log, mem, index, session, pc, dml, pos, committed,
                   counters>>

-------------------------------------------------------------------------------
(* Transactions and statements.                                             *)

Statement == pc = "ready" /\ statements < MaxStatements
             /\ statements' = statements + 1

\* The number is given out again.
BugStartTxnSameNumber ==
    /\ current_txn' = next_txn
    /\ UNCHANGED next_txn
    /\ undo' = <<>>
    /\ log' = Append(log, [type |-> "BEGIN", txid |-> next_txn])

\* BEGIN is logged before the transaction has its number.
BugStartTxnLogsFirst ==
    /\ current_txn' = next_txn
    /\ next_txn' = next_txn + 1
    /\ undo' = <<>>
    /\ Logs("BEGIN")

StartTxn ==
    /\ current_txn' = next_txn
    /\ next_txn' = next_txn + 1
    /\ undo' = <<>>
    /\ log' = Append(log, [type |-> "BEGIN", txid |-> next_txn])

EndTxn(type) ==
    /\ Logs(type)
    /\ current_txn' = INVALID_TXN
    /\ autocommit_started' = FALSE
    /\ undo' = <<>>
    /\ UNCHANGED next_txn

EnsureTxn == \/ /\ current_txn = INVALID_TXN
                /\ StartTxn
                /\ autocommit_started' = TRUE
             \/ current_txn # INVALID_TXN /\ UNCHANGED <<log, session>>

Begin ==
    /\ Statement
    /\ current_txn = INVALID_TXN
    /\ StartTxn
    /\ autocommit_started' = FALSE
    /\ UNCHANGED <<pages, pc, dml, pos, committed, restarts>>

Commit ==
    /\ Statement
    /\ current_txn # INVALID_TXN
    /\ EndTxn("COMMIT")
    /\ committed' = Contents(mem)
    /\ UNCHANGED <<pages, pc, dml, pos, restarts>>

\* insertRow up to its log record.
InsertRow(k, image) ==
    /\ Statement
    /\ index[k] = NoRow
    /\ "aborted" \in Care => ~RolledBack(k)
    /\ "deleted" \in Care => ~Deleted(k)
    /\ EnsureTxn
    /\ op' = [kind |-> "INSERT", pk |-> k, image |-> image,
              implicit |-> current_txn = INVALID_TXN]
    /\ pc' = "log"
    /\ UNCHANGED <<pages, keys, deleted, pos, committed, restarts>>

\* A DELETE statement scans for the keys of the rows it matches ...
RunDelete(K) ==
    /\ Statement
    /\ K \subseteq {k \in Key : Copies(mem, k) # {}}
    /\ keys' = K
    /\ deleted' = {}
    /\ pc' = "rows"
    /\ UNCHANGED <<pages, log, session, op, pos, committed, restarts>>

\* ... and deletes them one by one, in the order of the scan.
FirstKey == CHOOSE k \in keys : \E r \in Copies(mem, k) :
                \A j \in keys \ {k} : \A q \in Copies(mem, j) : ScannedBefore(r, q)

DeleteByKey ==
    /\ pc = "rows"
    /\ keys # {}
    /\ keys' = keys \ {FirstKey}
    /\ \/ /\ index[FirstKey] # NoRow
          /\ EnsureTxn
          /\ op' = [kind |-> "DELETE", pk |-> FirstKey,
                    image |-> At(mem, index[FirstKey]).image,
                    implicit |-> current_txn = INVALID_TXN]
          /\ pc' = "log"
       \/ /\ index[FirstKey] = NoRow
          /\ UNCHANGED <<log, session, op, pc>>
    /\ UNCHANGED <<pages, deleted, pos, committed, counters>>

DeleteDone ==
    /\ pc = "rows"
    /\ keys = {}
    /\ pc' = "ready"
    /\ deleted' = {}
    /\ UNCHANGED <<log, pages, session, op, keys, pos, committed, counters>>

\* The row is changed unlogged.
BugLogRow ==
    /\ pc = "log"
    /\ pc' = "apply"
    /\ UNCHANGED <<log, pages, session, dml, pos, committed, counters>>

LogRow ==
    /\ pc = "log"
    /\ log' = Append(log, [type |-> op.kind, txid |-> current_txn, pk |-> op.pk,
                           image |-> op.image])
    /\ pc' = "apply"
    /\ UNCHANGED <<pages, session, dml, pos, committed, counters>>

\* Where a row operation ends: an implicit transaction is still to be committed.
EndOfRow == IF op.implicit THEN "commit"
            ELSE IF op.kind = "DELETE" THEN "rows" ELSE "ready"

Remember ==
    /\ undo' = Append(undo, [was_insert |-> op.kind = "INSERT", pk |-> op.pk,
                             image |-> op.image])
    /\ pc' = EndOfRow
    /\ op' = IF op.implicit THEN op ELSE NoOp
    /\ UNCHANGED <<log, current_txn, next_txn, autocommit_started, keys, pos,
                   committed, counters>>

ApplyInsert ==
    /\ pc = "apply"
    /\ op.kind = "INSERT"
    /\ ~TooLarge(op.image)
    /\ PhysInsert(op.pk, op.image)
    /\ Remember
    /\ UNCHANGED deleted

\* The heap's insert throws out of insertRow.
InsertThrows ==
    /\ pc = "apply"
    /\ op.kind = "INSERT"
    /\ TooLarge(op.image)
    /\ pc' = "ready"
    /\ op' = NoOp
    /\ UNCHANGED <<log, pages, session, keys, deleted, pos, committed,
                   counters>>

ApplyDelete ==
    /\ pc = "apply"
    /\ op.kind = "DELETE"
    /\ PhysDelete(op.pk)
    /\ deleted' = deleted \cup {op.pk}
    /\ Remember

AutoCommit ==
    /\ pc = "commit"
    /\ EndTxn("COMMIT")
    /\ committed' = Contents(mem)
    /\ pc' = IF op.kind = "DELETE" THEN "rows" ELSE "ready"
    /\ op' = NoOp
    /\ UNCHANGED <<pages, keys, deleted, pos, counters>>

RollbackCall ==
    /\ Statement
    /\ current_txn # INVALID_TXN
    /\ "aborted" \in Care => \A i \in DOMAIN undo : undo[i].was_insert
    /\ pc' = "rollback"
    /\ UNCHANGED <<log, pages, session, dml, pos, committed, restarts>>

ToUndo == Last(undo)

UndoOne ==
    /\ pc = "rollback"
    /\ undo # <<>>
    /\ \/ ToUndo.was_insert /\ PhysDelete(ToUndo.pk)
       \/ ~ToUndo.was_insert /\ PhysInsert(ToUndo.pk, ToUndo.image)
    /\ undo' = Front(undo)
    /\ UNCHANGED <<log, current_txn, next_txn, autocommit_started, pc, dml, pos,
                   committed, counters>>

EndRollback ==
    /\ pc = "rollback"
    /\ undo = <<>>
    /\ EndTxn("ABORT")
    /\ pc' = "ready"
    /\ UNCHANGED <<pages, dml, pos, committed, counters>>

-------------------------------------------------------------------------------
(* The end of the program, and its restart.                                 *)

\* What is in memory is gone.
LoseMemory ==
    /\ pc' = "down"
    /\ mem' = disk'
    /\ index' = [k \in Key |-> NoRow]
    /\ current_txn' = INVALID_TXN
    /\ next_txn' = 1
    /\ autocommit_started' = FALSE
    /\ undo' = <<>>
    /\ op' = NoOp
    /\ keys' = {}
    /\ deleted' = {}
    /\ pos' = 0
    /\ UNCHANGED <<committed, counters>>

\* The next step of the program may be the append of a record.
Appending == \/ pc \in {"ready", "rows", "log", "commit"}
             \/ pc = "rollback" /\ undo = <<>>

MayTear == \/ Tears = "any"
           \/ Tears = "later" /\ Readable # <<>>

Crash ==
    /\ pc \notin {"down", "refused"}
    /\ restarts < MaxRestarts
    /\ log' \in {log} \cup (IF Appending /\ MayTear THEN {Append(log, Torn)} ELSE {})
    /\ UNCHANGED disk
    /\ LoseMemory

\* EXIT, or the end of the input: every dirty page is written.
Exit ==
    /\ pc = "ready"
    /\ restarts < MaxRestarts
    /\ disk' = mem
    /\ UNCHANGED log
    /\ LoseMemory

\* The catalog loads the page list and scans the heap for the index.
Load == mem' = disk /\ index' = IndexOf(disk)

\* recover() has nothing to do without a readable record; otherwise it first
\* learns which transactions committed and which numbers are taken.
StartRecovery ==
    \/ /\ Readable = <<>>
       /\ pc' = "ready"
       /\ UNCHANGED <<next_txn, pos>>
    \/ /\ Readable # <<>>
       /\ pc' = "redo"
       /\ pos' = 1
       /\ next_txn' = MaxTxn + 1

Restart ==
    /\ pc \in {"down", "refused"}
    /\ restarts < MaxRestarts
    /\ restarts' = restarts + 1
    /\ Load
    /\ StartRecovery
    /\ UNCHANGED <<disk, log, current_txn, autocommit_started, undo, dml,
                   committed, statements>>

Record == Readable[pos]

Won(r) == r.txid \in CommittedTxns

RedoInserts(r) ==
    Won(r) /\ r.type = "INSERT" /\ index[r.pk] = NoRow

RedoDeletes(r) ==
    Won(r) /\ r.type = "DELETE" /\ index[r.pk] # NoRow

UndoDeletes(r) ==
    ~Won(r) /\ r.type = "INSERT" /\ index[r.pk] # NoRow

\* Deletes of losers are not taken back.
BugUndoInserts(r) == FALSE

UndoInserts(r) ==
    ~Won(r) /\ r.type = "DELETE" /\ index[r.pk] = NoRow

\* One record of pass 2 or 3.
Recovering(inserts(_), deletes(_)) ==
    \/ inserts(Record) /\ ~TooLarge(Record.image) /\ PhysInsert(Record.pk, Record.image)
    \/ deletes(Record) /\ PhysDelete(Record.pk)
    \/ ~inserts(Record) /\ ~deletes(Record) /\ UNCHANGED pages

Redo ==
    /\ pc = "redo"
    /\ pos <= Len(Readable)
    /\ Recovering(RedoInserts, RedoDeletes)
    /\ pos' = pos + 1
    /\ UNCHANGED <<log, session, pc, dml, committed, counters>>

RedoDone ==
    /\ pc = "redo"
    /\ pos > Len(Readable)
    /\ pc' = "undo"
    /\ pos' = Len(Readable)
    /\ UNCHANGED <<log, pages, session, dml, committed, counters>>

\* physInsert throws out of the constructor; the program ends.
RedoThrows ==
    /\ pc = "redo"
    /\ pos <= Len(Readable)
    /\ RedoInserts(Record)
    /\ TooLarge(Record.image)
    /\ pc' = "refused"
    /\ UNCHANGED <<log, pages, session, dml, pos, committed, counters>>

\* The loop over the log does not advance.
BugUndoLoser ==
    /\ pc = "undo"
    /\ pos >= 1
    /\ Recovering(UndoInserts, UndoDeletes)
    /\ UNCHANGED <<pos, log, session, pc, dml, committed, counters>>

UndoLoser ==
    /\ pc = "undo"
    /\ pos >= 1
    /\ Recovering(UndoInserts, UndoDeletes)
    /\ pos' = pos - 1
    /\ UNCHANGED <<log, session, pc, dml, committed, counters>>

\* The checkpoint: every dirty page is written, then the log is emptied.
Flush ==
    /\ pc = "undo"
    /\ pos = 0
    /\ disk' = mem
    /\ pc' = "flushed"
    /\ UNCHANGED <<log, mem, index, session, dml, pos, committed, counters>>

Reset ==
    /\ pc = "flushed"
    /\ log' = <<>>
    /\ pc' = "ready"
    /\ UNCHANGED <<pages, session, dml, pos, committed, counters>>

-------------------------------------------------------------------------------

Write == \/ \E k \in Key, image \in Image : InsertRow(k, image)
         \/ \E K \in SUBSET Key \ {{}} : RunDelete(K)
         \/ DeleteByKey \/ DeleteDone
         \/ LogRow \/ ApplyInsert \/ InsertThrows \/ ApplyDelete \/ AutoCommit

Recover == Restart \/ Redo \/ RedoDone \/ RedoThrows \/ UndoLoser \/ Flush \/ Reset

Next == \/ Begin \/ Commit \/ RollbackCall \/ UndoOne \/ EndRollback
        \/ Write
        \/ Recover
        \/ Crash \/ Exit
        \/ \E p \in DOMAIN mem : WriteBack(p)

Spec == Init /\ [][Next]_vars

FairSpec == Spec /\ WF_vars(Recover)
===============================================================================
