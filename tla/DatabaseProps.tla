----------------------------- MODULE DatabaseProps -----------------------------
(***************************************************************************)
(* What the database session is checked for.                               *)
(***************************************************************************)
EXTENDS Database

\* Types: the heap has as many pages in memory as in the data file, the number of
\* the open transaction is one that was given out, and recovery stays within the
\* log it read.  What the index leads to is the matter of IndexAgrees.
TypeOK ==
    /\ disk \in Seq(Page) /\ mem \in Seq(Page)
    /\ Len(disk) = Len(mem)
    /\ log \in Seq(RowRecord \cup TxnRecord \cup {Torn})
    /\ index \in [Key -> (Nat \X Nat) \cup {NoRow}]
    /\ current_txn \in 0 .. next_txn - 1
    /\ autocommit_started \in BOOLEAN
    /\ undo \in Seq(Undo)
    /\ pc \in {"ready", "rows", "log", "apply", "commit", "rollback", "down",
               "redo", "undo", "flushed", "refused"}
    /\ op \in RowOp \cup {NoOp}
    /\ keys \in SUBSET Key /\ deleted \in SUBSET Key
    /\ pos \in 0 .. Len(Readable) + 1
    /\ committed \in [Key -> Image \cup {Absent}]
    /\ statements \in 0 .. MaxStatements /\ restarts \in 0 .. MaxRestarts

Running == pc \notin {"down", "refused"}

\* A key has at most one live row, and the index leads to exactly that row:
\* what a query finds does not depend on the access path the optimizer picks
\* (heap_file.cpp erase and bplus_tree.hpp erase are called in pairs).
IndexAgrees ==
    Running => \A k \in Key : Copies(mem, k) = {index[k]} \ {NoRow}

\* Outside a transaction, a scan shows the committed content and nothing else:
\* rolled-back and crashed transactions leave no trace, committed ones survive.
IdleShowsCommitted ==
    pc = "ready" /\ current_txn = INVALID_TXN => Contents(mem) = committed

InLog(type, k, image) ==
    \E r \in Range(Readable) :
        /\ r.type = type
        /\ r.pk = k
        /\ r.image = image

\* The write-ahead rule: a live row on disk that is not committed has its
\* INSERT in the log, and a committed row that is missing from the disk has its
\* INSERT or DELETE there.  Any page may be written back at any time.
WriteAhead ==
    /\ \A rid \in LiveRows(disk) :
           LET row == At(disk, rid)
           IN  committed[row.pk] # row.image =>
                   \/ InLog("INSERT", row.pk, row.image)
                   \/ InLog("DELETE", row.pk, row.image)
    /\ \A k \in Key : committed[k] \in Image =>
           \/ \E rid \in Copies(disk, k) : At(disk, rid).image = committed[k]
           \/ InLog("INSERT", k, committed[k])
           \/ InLog("DELETE", k, committed[k])

\* Two transactions in one log have different numbers, the open one included:
\* recovery tells winners from losers by the number alone.
NumbersIdentify ==
    LET records == Readable
    IN  \A i, j \in DOMAIN records :
            /\ i < j /\ records[i].type = "BEGIN" /\ records[j].type = "BEGIN"
                   => records[i].txid # records[j].txid
            /\ records[i].type \in {"COMMIT", "ABORT"} =>
                   records[i].txid # current_txn

\* A log that holds records is replayed and emptied before the session takes
\* its first statement: a session's log describes that session only, and the
\* transaction it has open is the last one in it.
OpenTxnIsLast ==
    current_txn # INVALID_TXN =>
        /\ \E i \in DOMAIN Readable :
               /\ Readable[i] = [type |-> "BEGIN", txid |-> current_txn]
               /\ \A j \in i .. Len(Readable) : Readable[j].txid = current_txn

\* What a restart can tell from the log: whose each record is, and what was open.
LogTellsTxns == NumbersIdentify /\ OpenTxnIsLast

\* A statement outside an explicit transaction runs in a transaction of its
\* own: between statements no implicit transaction is open.
NoImplicitLeft == pc = "ready" => ~autocommit_started

\* While a DELETE statement still has rows to delete, none of those it has
\* deleted is gone for good.
StatementAtomic ==
    pc = "rows" /\ keys # {} => \A k \in deleted : committed[k] # Absent

\* A database that was left in any state can be opened.
AlwaysOpens == pc # "refused"

-------------------------------------------------------------------------------

\* The session implements the durable store.  While statements run, the visible
\* content is that of the pages in memory, changed by the rows of the open
\* transaction only.  During a rollback, and from a crash or an exit to the end of
\* recovery, it counts as the committed content; the step that ends either makes
\* the pages count again, and they must then show the committed rows, none lost
\* and none brought back.
Serving == pc \in {"ready", "rows", "log", "apply", "commit"}
Store == INSTANCE DurableStore WITH
    visible <- IF Serving THEN Contents(mem) ELSE committed,
    phase <- IF ~Serving THEN "settling"
             ELSE IF current_txn = INVALID_TXN THEN "idle" ELSE "open"
Durable == Store!Spec

\* A program that was started ends up taking statements or refusing to start,
\* unless it crashes again: recovery is bounded by the log.
RecoveryEnds == (pc = "down") ~> (pc \in {"ready", "refused"})
===============================================================================
