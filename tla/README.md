# A verification project for MiniDB and the database labs

This directory holds TLA+ modules that model the program in `src/`, the TLC
configurations that check them on small instances, and TLAPS proofs for
instances of every size. The repository is a database course: `Capstone-MiniDB`
is a small relational engine with a write-ahead log, a buffer pool, a B+ tree,
an SQL front end and an in-memory concurrency engine; the `LAB-*` directories
are stand-alone programs.

Paths below are relative to `src/`.

## 1. Inventory

| component | state it keeps | operations | hard behaviour | what makes it correct |
|---|---|---|---|---|
| **TransactionManager** (`Capstone-MiniDB/src/txn/`) | commit clock, version history, write buffers, lock tables, per-transaction lock lists, waits-for graph | setInitial, begin, read, write, commit, abort | threads blocked in a condition variable, upgrades, deadlock victims, stale waits-for edges, snapshot reads, first committer wins | locks exclude, lock tables agree, no missed wake-up, no stall, 2PL serializable, MVCC snapshot isolation |
| **hasCycle** (same file) | DFS stack and visited set | one search | arbitrary graphs, cycles that avoid the start | answers true exactly on a cycle through the start, and ends |
| **Database session, WAL, recovery** (`src/catalog/database.*`, `src/recovery/wal.*`) | open transaction, undo list, pending log records, log file, heap pages in memory and on disk, index | begin, commit, rollback, insertRow, deleteByKey, flush, recover | a crash between any two steps, pages written back in any order, torn log tail, redo and undo order | committed changes survive, uncommitted ones do not, recovery can be repeated, the index agrees with the heap |
| **LAB-8 transaction manager** (`LAB-8/txn_manager.cpp`) | version chains with xmin/xmax, lock queues, transaction table | begin, read, insert, update, delete, commit, abort | lock queues with several waiters, visibility by transaction number, abort undoing marks | exclusive locks exclude, updates are not lost, a snapshot does not move |
| **BufferPool** (`src/storage/buffer_pool.*`) | frames, page table, pins, reference counters, clock hand | fetchPage, newPage, unpinPage, flushAll | eviction with everything pinned, callers' raw pointers, a file that grows before a frame is found | a page in use is never evicted, no dirty page is dropped, each page has one frame, a sweep ends |
| **DiskManager** (`src/storage/disk_manager.*`) | page count, file | readPage, writePage, allocatePage | short reads, bad page numbers | a page reads back as written |
| **HeapFile, SlottedPage** (`src/storage/heap_file.*`, `page.hpp`) | page list, slots, free space pointer | insert, get, erase, scan | 16-bit offsets, a full page, tombstones | records do not overlap, a RID keeps its record until erased |
| **B+ tree** (`src/index/bplus_tree.*`) | inner nodes, chained leaves | insert, search, range, remove | splits up to the root, lazily emptied leaves | keys sorted, all leaves at one depth, search finds what was inserted |
| **Catalog, Schema** (`src/catalog/catalog.*`, `schema.*`) | table list, schema and index of each table | createTable, load, save, rebuildIndex | the save truncates the file first | what was saved is loaded |
| **Query layer** (`src/query/*`) | token list, syntax tree, plan, operator state | lex, parse, plan, execute | operator precedence, index choice, residual predicates, join order | a clause is read as the grammar says; a statement does the same whatever the plan |
| **REPL** (`src/main.cpp`) | - | reads a line, prints the rows; `CRASH` exits without flushing | the crash command | it is the client of Database |
| **LAB-2, LAB-4** | - | notes and SQL text | - | - |
| **LAB-3** (`LAB-3/sol.cpp`) | clock-sweep cache | putKey, getKey | a key put twice | one frame per key |
| **LAB-5** (`LAB-5/red_black_tree.cpp`) | nodes with colour, parent and children | insert, contains, isValid | the repair after an insert, in the middle of which rules are broken | equal black heights, no two red nodes in a row, what was inserted is found |
| **LAB-6** (`LAB-6/btree_index.cpp`) | nodes with entries and children | Insert, Search, Scan | a full child is split before the descent; equal keys | between t - 1 and 2t - 1 entries, leaves at one depth, a scan in order and complete |
| **LAB-7** (`LAB-7/sql_query_processor.cpp`) | tokens, output queue, operator stack | to_rpn, eval_rpn, parse_select, execute | precedence, associativity, parentheses | the postfix form means what the infix form means |

Interaction: the REPL calls `execute` (query layer), which asks the catalog for
tables, reads rows through `SeqScan`/`IndexScan` from heap and B+ tree, and
changes them through `Database::insertRow` and `deleteByKey`; these log to the
WAL and change heap and index; the heap goes through the buffer pool to the
disk manager. The concurrency engine is a separate in-memory store with its own
benchmark; the SQL path does not use it.

## 2. What is modelled

| module | models |
|---|---|
| `TransactionManager`, `TransactionManagerProps`, `MCTransactionManager` | the concurrency engine; its properties; its instances |
| `SerialStore`, `SnapshotStore` | abstract: what its two modes promise |
| `WaitsFor`, `HasCycleSearch` | waits-for graphs by closed sets; `hasCycle`, the loop of the search |
| `Database`, `DatabaseProps`, `MCDatabase` | session, write-ahead log, crash, restart, recovery |
| `HeapFile` | the heap and its slotted pages, as operators on a value |
| `DurableStore` | abstract: what a session promises |
| `Lab8`, `Lab8Props`, `MCLab8` | the transaction manager of LAB-8 |
| `BufferPool`, `BufferPoolProps` | the buffer pool over the data file |
| `PageStore` | abstract: what a pool promises |
| `BPlusTree`, `BPlusTreeProps`, `MCBPlusTree` | the primary-key index |
| `IndexMap` | abstract: what an index promises |
| `RedBlackTree`, `BTree`, `LabTrees` | the trees of LAB-5 and LAB-6; both given the same keys |
| `ShuntingYard` | LAB-7's `to_rpn` and `eval_rpn` |
| `Query` | MiniDB's expression parser, optimizer and executor |
| `WhereClauses`, `MCWhereClauses` | a clause read by both parsers, and the statements run with it |
| `TransactionManager_proofs`, `WaitsFor_proofs`, `HasCycleSearch_proofs`, `BufferPool_proofs`, `Database_proofs`, `BPlusTree_proofs`, `Lab8_proofs`, `Labs_proofs` | TLAPS proofs |

`Database` EXTENDS `HeapFile`; `TransactionManager` and `Lab8` EXTEND
`WaitsFor`; `LabTrees` EXTENDS the two trees, `WhereClauses` `ShuntingYard` and
`Query`; each `...Props` module INSTANCEs the abstract module its component
is shown to implement. Definitions named `Bug...` are wrong on purpose: each is
a plausible slip in the code that one of the properties is there to catch.

### TransactionManager

Every public call holds `mtx_` throughout except while `acquire` sleeps in
`cv_.wait`. So `Begin`, `Commit`, `CommitConflict`, `Abort`, `ReadSnapshot` and
a `Call` that gets its lock are single actions. A call that blocks goes
`Sleep` - (`NotifyAll` by another transaction, or `SpuriousWake`) - `Resume`,
where it evaluates the loop condition again and is granted, made a victim, or
sleeps again. Between being notified and resuming other threads may run: that
is the interleaving the properties are about. `seen` is an auxiliary variable:
the values `read` returned from the store. Transaction numbers are compared for
equality only, so `next_id_` is abstracted away. Reading one's own buffered
write changes nothing and is not an action. `deadlocks_` is a counter for the
benchmark and is left out.

### Database, HeapFile

A session runs in one thread, but it can crash anywhere. Its functions are
split before every append to the log (`WAL::append` flushes each record) and
between changes of pages, and `WriteBack` may write any changed page to the data
file in between, as the pool does when it needs the frame: `InsertRow` logs the
BEGIN of an implicit transaction, `LogRow` the row, `ApplyInsert` changes heap
and index and remembers the inverse, `AutoCommit` ends the implicit
transaction. A DELETE statement is `RunDelete` (the scan) and one `DeleteByKey`
... `ApplyDelete` for each row. `ROLLBACK` is `RollbackCall`, one `UndoOne` for
each entry of the undo list, and `EndRollback`. `Crash` loses memory and may
leave a torn record; `Exit` writes every page first. `Restart` loads the page
list and rebuilds the index; `Redo`, `Undo...`, the flush and the emptying of the
log are steps of their own, so recovery itself can crash and be repeated.

A heap is the sequence of its pages, a page the room left on it and its slots.
Rows have a primary key and an image, and an image takes a number of bytes
(`Size`); byte offsets are left out because tuples are never moved. `committed`
is auxiliary: the content as of the last COMMIT record.

The session implements `DurableStore` only for clients that take two
precautions (`Care`). "aborted": they do not insert again a key that a
rolled-back transaction of the same log has touched, nor roll back a DELETE.
"deleted": a deleted key is not inserted again while the log has its DELETE.
Without them recovery goes wrong: see the findings and variants. It would not be
enough to insert a deleted key again only where its old row was: redo puts the
rows back in the order of the log, so in the redone heap the DELETE may open a
hole that another row takes, and the second INSERT goes to another page. If only
that page is written back before the next crash, the key has two live rows. `Tears` says which record a crash
may tear: "later" leaves the first record of a log whole, since a log whose
first record is torn is not emptied at the restart (see the variants).

### Lab8

A call takes the lock of its key in `acquire_lock`, where it holds the mutex of
the key's queue except while it waits, and then scans the versions of the key
under the heap mutex. A status is read under a mutex of its own, so a
transaction may commit in the middle of a scan: one action per version. `commit`
and `abort` set the status and then empty the queues one after the other
(`ReleaseSome`), and the waiters they notify resume in any order. A version is
named by its creator (`xmin`); the values of rows are left out. `overtaken` is
auxiliary: the transactions that have committed since the scan under way began. The loader has
inserted a row for every key before, so the lock table does not change any
more: two first requests that race for the insertion of a queue in the table,
which no mutex protects, are outside the model.

### BufferPool

A sweep is one action per frame it looks at (`Pass`, `Claim`); every other call
is one action. `pointer`, `users` and `touched` are the callers: the frame they
were given for a page, the pins they still hold, the pages they changed and
have yet to unpin as dirty. A caller that throws never unpins, so users need
not leave. `newPage` appends a page of zeros to the file before it seeks a
frame, and a sweep that gives up leaves that page allocated. The abstract
`PageStore` has the content of each page, the file and the users: a page's
content changes only by `Write`, and the file receives the content of pages
nobody uses (eviction) or of all pages but some in use (`flushAll`).

### BPlusTree

`nodes` maps names to nodes. A node is named by its height and by the separator
on its left when it was made, which no two nodes share, so the same tree is the
same state however it came about. `insertInto` and `findLeaf` are recursive
functions on the names; `SplitLeaf` copies the separator up, `SplitInner` moves it
up; `erase` never merges, so leaves may become empty and a split may follow at
their side. `rangeScan` walks the chain of leaves. `ORDER` is 4 in the code.

### RedBlackTree, BTree, LabTrees

LAB-5's `insert` is the link of the new node (`insert`) and the rounds of the
repair loop (`Recolor`, `Restructure`, `Repaired`), one action each, so that the
rules can be stated of the tree in the middle of a repair. The code has every
rotation and every case twice, for the left and the right; the model has a side
as parameter. A key has one node, which is named by it. LAB-6's nodes have one
owner each, so the whole tree is one value and `Insert`, with all its splits, one
action. Its recursive functions `insertNonFull` and `searchNode` go down one path;
they are functions of the depth they have reached (`find`, then `leave` or
`result` on the way back), which lets the module be proved about. `Scan` calls
itself for every child and is in `LabTrees`. `LabTrees` gives both trees the same keys; a key that comes a second
time is ignored by the first tree and entered again by the second.

### ShuntingYard, Query, WhereClauses

In `WhereClauses` a client types a clause token by token. `ShuntingYard` reads
each token as it comes: `output` and `ops` are the two containers of `to_rpn`, and
one action is one round of its loop. `eval_rpn` keeps what it computes as a tree
in place of a number, so that two expressions are equal only if every operator
has the same operands. `Query` is MiniDB's parser as three mutually recursive
functions that return a tree and the next position, the optimizer's choices
as conditions, and the executor's operators as functions from rows to rows: a
statement runs in one thread and reads its tables before it changes any. An
exception anywhere makes the result `Failure`. Tokens are abstract: names, numbers
and a text, though LAB-7's tokenizer would make several words of a text or of a name with a dot; AND
and OR are written as LAB-7 has them. To LAB-7 an operand is a number if
`stod` reads it (`Number`), else a column of the row (`Variable`), else
`eval_rpn` throws (`Unknown`). Tables have up to five
rows, so that the index is cheaper for some and not for others.

## 3. Runs

Each run explores its instance to the end.

| run | bounds | question |
|---|---|---|
| `tm_2pl` | 3 transactions, 2 keys, 2 values, symmetry on transactions and keys | strict 2PL: the lock tables, wake-ups, deadlock victims, `Serializable` |
| `tm_mvcc` | the same | snapshot isolation: `VersionsAscend`, `SnapshotIsolated` |
| `tm_live` | 3 transactions, 2 keys, 1 value, no symmetry | `EveryTxnEnds` under `FairSpec` |
| `db_sessions` | 2 keys; rows that share a page, fill one or fit none; 1 row loaded; 3 statements; 2 restarts; both precautions; torn records but a log's first | `Durable`, `RecoveryEnds`, the index, the write-ahead rule, transaction numbers |
| `db_undo_aborted` | 1 image; no row loaded; without the precaution "aborted" | expected violation of `IdleShowsCommitted` |
| `lab8_one_key` | the loader and 3 clients, 1 key, 2 calls each | wake-ups, `OnlyOvertakenReadsMiss`, no dirty reads |
| `lab8_live` | the loader and 2 clients, 2 keys, 2 calls each | no stored cycle, no stalled set, `EveryTxnEnds` |
| `lab8_exclusion` | as `lab8_one_key` | expected violation of `LockExclusion` |
| `buffer_pool` | 2 frames, 3 pages, up to 2 pins on a page, 2 contents | who is evicted and when the sweep gives up; `StoresPages`; every call returns |
| `bplus_tree` | ORDER 3, keys 1..7, one of them with two rows | shape, scans against searches, `ImplementsMap` |
| `lab_trees` | keys 1..8 in any order, two of them possibly twice, 9 inserts; t = 2 as in LAB-6's `main` | `RedBlackRules`, `BTreeShape`, both find what was given, `RepairEnds` |
| `where_clauses` | any clause of up to 5 of the 13 tokens; arithmetic of 4 operands; MiniDB's clauses of 3 comparisons; 2 pairs of parentheses; depth limit 2 | `YardOrdered`, `ParsersAgree`, `PlansAgree` |

*Why these bounds.* Locks: three transactions are needed, two in a cycle and a
third whose end wakes them, or one upgrader with two other readers; two keys
make cross-key cycles and write skew possible; two values tell a stale read
from a current one. In LAB-8 a third client on one key makes two waiters with a
holder. Each transaction identifier is used once, so their number also bounds
the commit clock. The session: three statements are an explicit transaction of
one change with its end, or three changes that commit by themselves, so that a
key is inserted, deleted and inserted again; two restarts are a crash in the
middle of recovery. Four statements pass as well, in ten times the states. The pool: three pages for two frames force evictions, and
two pins per page tell a pin from a counter. The tree: with ORDER 3 seven keys
build trees of three levels, with splits of inner nodes. LAB-6's tree reaches
three levels at eight entries; red-black trees of eight keys have all
four rotations and a recolouring that goes up by two levels. Clauses: four
operands nest three operators, so that each of them can be on either side of the
others; the clauses of five tokens in any order are those that leave the grammar early, and a
depth limit of two stands for the code's 500. Deadlock checking is off where a system that has spent its bounded
statements or transactions is a legitimate end; the tree never stops.

*Views.* Four runs compare states by a VIEW (defined, with its reason, in the MC
module): it leaves out what no later step reads, such as the commit clock in
2PL mode or the calls counted for a transaction that is over. An action
property is checked on every step that is taken, before the view drops what it
speaks about; a state property that reads something dropped would be part of the
view (`NoDirtyRead` is).

*Fairness.* `tm_live`: a thread not blocked in `acquire` goes on to commit or
abort (`WF(Finish)`: the benchmark's transactions make four calls and its
handlers call `abort`), and a woken thread gets the mutex again (`WF(Resume)`).
`lab_trees`: the repair is a loop of one thread. `lab8_live`: the same as `tm_live` for a thread inside a call, woken, releasing, or between
calls. Nothing makes a client begin, and no spurious wake-up is assumed. With
finitely many transactions a waiter cannot be overtaken for ever; an endless
stream of new ones is outside these runs. `db_sessions`: a program that was started goes on with recovery, a loop
over the log. `buffer_pool`: the loop of `evictVictim` goes on.

### Findings

- `db_undo_aborted`: `recover` takes every transaction without a COMMIT record
  for a loser, rolled-back ones included, and undoes it after redo. BEGIN,
  INSERT k, ROLLBACK, INSERT k (committed), restart: the undo pass finds k
  present and deletes the committed row. It needs no crash, since a clean exit
  does not empty the log. `docs/design_decisions.md` says of undo that it is
  "idempotently keyed by primary key" and "provably correct for our operations".
- `lab8_exclusion`: the loop of `acquire_lock` looks only at requests ahead of
  its own. Of two waiters woken together the later one may run first and be
  granted; the earlier one ignores that grant and is granted as well. LAB-8's
  README promises a "strict 2PL lock manager with shared/exclusive locks".

### Variants

Further configurations, to be run with `tlc -config X.cfg M`. All but the last
three end in the violation named.

| config (module) | violates | what the code does, and the line that says otherwise |
|---|---|---|
| `tm_sleeping_cycle` (`MCTransactionManager`) | `NoSleepingCycle` | a sleeper's recorded edges grow stale, so a cycle may be closed that no search sees (MiniDB `README.md:184`); `NoStalledSet` and `EveryTxnEnds` bound the harm: some member is blocked by an outsider, at whose end the cycle is found |
| `db_two_pages` (`MCDatabase`) | `IdleShowsCommitted` | without the precaution "deleted": a row is deleted and inserted again on a second page, and only that page is written back before a crash. Redo, or undo if the transaction did not commit, trusts the index rebuilt from the pages, erases one of the two live rows and inserts a third: two rows with one key (`docs/design_decisions.md:41-42`: "correct regardless of which heap pages happened to be flushed before the crash") |
| `db_torn_first` (`MCDatabase`) | `WriteAhead` | a log whose first record is torn reads as empty, is not emptied, and later records are appended behind the tear, where no recovery finds them (`wal.hpp:26-29`) |
| `db_oversized` (`MCDatabase`) | `AlwaysOpens` | a row too large for a page is logged before the heap refuses it; in a transaction that commits, every later redo throws and the database does not open (`README.md:200-202`) |
| `db_delete_rows` (`MCDatabase`) | `StatementAtomic` | outside a transaction each row of a DELETE statement is committed by itself (`docs/architecture.md:56-57`) |
| `lab8_snapshot` (`MCLab8`) | `SnapshotIsFixed` | a transaction with a smaller number that commits later becomes visible (`txn_manager.cpp:52`) |
| `lab8_cycles` (`MCLab8`) | - | passes: no stored cycle and no stalled set among 3 clients on 3 keys |
| `bplus_order4` (`MCBPlusTree`) | - | passes: the tree with the code's ORDER, keys 1..10 |
| `has_cycle` (`HasCycleSearch`) | - | passes: `SearchEnds`, and what `SearchCorrect` proves, for all graphs of 3 nodes |

Six more definitions are false of the code, and `ParsersAgree` is for a column
with an unlucky name; to see it, put each in place of the INVARIANTs of the
configuration named.

| definition | configuration | what the code does |
|---|---|---|
| `NoImplicitLeft` | `db_oversized`, with `Image = {v1, big}` | the exception for a row too large leaves an implicit transaction open, which later statements join (`docs/architecture.md:56-57`) |
| `ReadsFindRows` | `lab8_snapshot`, with `MaxXid = 4` | a commit between two versions of one scan hides a row that nobody removed (LAB-8 `README.md:10-11`) |
| `NoLostUpdate` | `lab8_snapshot` | of two updates in a row the second may start from what it read before the first (LAB-8 `README.md:63-64`) |
| `AbortHides` | `lab8_snapshot` | abort leaves the versions it created unmarked; they are hidden by the status alone (LAB-8 `README.md:68-69`) |
| `SeparatorsSeparate` | `lab_trees` | a key inserted twice is equal to its separator (`btree_index.cpp:14`); search and scan still work |
| `FailuresAgree` | `where_clauses` | `a < 'x' AND id = 2` on a table large enough for the index fails only if the table holds key 2; by a scan it would fail on any row. Nothing is promised of failures |
| `ParsersAgree` | `where_clauses`, with "a" in `Number` as well | a column whose name `stod` reads as a number (inf, nan, info) is never looked up (LAB-7) |

## 4. Proofs

Proved for every value of the constants that meets the named assumptions:

| theorem | says |
|---|---|
| `TransactionManager_proofs`: `TypeCorrect`, `LockingCorrect`, `WaitingCorrect`, `WaitsForStaysAcyclic`, `NoStall`, `TwoPhase`, `VictimsAreDeadlocked` | the safety properties of `tm_2pl`, in both modes |
| the same module: `VersionsCorrect`, `SerializableUnder2PL`, `SnapshotIsolationUnderMVCC` | version order; the two refinements |
| `HasCycleSearch_proofs`: `SearchCorrect` | in a finite graph, the search answers true exactly on a cycle through its start |
| `BufferPool_proofs`: `TypeCorrect`, `FramesAgree`, `FramesCorrect`, `GivesUpRightly`, `PoolStoresPages` | types; frames, pins and pointers; the limit of the sweep; the pool implements `PageStore` |
| `Database_proofs`: `LogTellsTxnsCorrect` | whose each record of the log is, over any number of sessions and crashes |
| the same module: `TypeOKCorrect`, `IndexAgreesCorrect`, `WriteAheadCorrect` | types; one live row per key, found by the index; the write-ahead rule |
| the same module: `DurableCorrect`, `IdleShowsCommittedCorrect` | the session, its crashes and its recovery implement `DurableStore`, and lose or bring back no row when a rollback or a recovery ends; outside a transaction a scan shows what was committed |
| the same module: `FittingRowsAlwaysOpen` | if every row fits a page, recovery never throws |
| `BPlusTree_proofs`: `TypeOKCorrect`, `ImplementsMapCorrect`, `LeavesChained`, `ScansAgreeWithSearchCorrect` | shape and balance; the tree implements a map; the chain passes every leaf in order; a scan returns what searches find between its bounds, in order |
| `Lab8_proofs`: `TypeCorrect`, `NoWakeupIsLost`, `WaitsForStaysAcyclic`, `NoSetStalls`, `NoReadIsDirty`, `RowsStayVisible`, `OvertakenReadsMiss` | types and the requests of waiting threads; sleepers are blocked by whom their edges name; no stored cycle, no stalled set, no dirty read; of a row nobody removed some version is visible at every moment, and a read that finds none was overtaken by a commit |
| `Labs_proofs`: `RedBlackRulesHold`, `ContainsWhatWasInserted` | LAB-5: the rules of the tree and the verdict of `isValid`; `contains` answers true exactly for the keys inserted |
| the same module: `BTreeShapeHolds`, `SearchFindsInserted` | LAB-6, for any minimum degree from 2: the bounds of the nodes and one depth for all leaves; `Search` finds a row inserted with the key, and nothing if there is none |
| the same module: `YardTypeCorrect`, `YardStaysOrdered` | LAB-7: types; the order of the operators on the stack, for any input |

*TransactionManager.* `TypeCorrect` is the type invariant. `LockInv` adds to the
lock invariants that a thread inside `acquire`'s loop lacks the lock it asks for
(`WaitersLack`): without it a shared lock could be granted to its exclusive
holder. `WaitInv` adds `EdgesJustified`: a recorded edge of a waiting thread
names a transaction that still blocks it or has ended. From it
`NoFalseDeadlock` follows, since an ended transaction has no edges and a path
through it leads nowhere. Acyclicity is kept by two graph lemmas
(`WaitsFor_proofs`): removing edges creates no cycle, and adding edges at `t`
creates none if the search from `t` fails: a cyclic core through `t`,
intersected with a closed set that avoids `t`, would be a cyclic core before.
`DataInv` adds that what a 2PL transaction has read is still locked
(`ReadsAreLocked`), hence still current. The refinements map each step to a step
of the abstract store or to a stutter.

*HasCycleSearch.* Everything met lies in every closed set containing the
start's successors, and the successors of everything expanded are expanded or
on the stack.

*BufferPool.* The inductive invariant is `IInv`. `PinsAreUsers` says that a page's
frame is pinned as often as the page is used and that an unframed page has no
users: with it an unpinned victim has no users, and a user's pointer stays
good. `PassedFrames` is what makes the limit of the sweep right: by `Age`, the
number of steps since the hand stood on a frame, a frame passed once in this
sweep is pinned or has no reference left, and one passed twice is pinned, so
after the limit every frame is. `CleanFramesAgree` says that a frame neither
dirty nor touched shows what is in the file, so that eviction without a write
loses nothing; it also covers a page just allocated, which is zeros in the file
before it has a frame. That a frame in use has a page of the file
(`FramesHavePages`) is kept because the file only grows. For the refinement, `Claim` and a hit are a `Pin`, `newPage`
an `Allocate`, and the search for a frame is hidden.

*Database.* `LogInv` relates the log to where the program is. A torn record ends
the log, behind a whole one, and is there only until recovery has emptied the
log (`TornIsLast`), so whatever a session appends can be read. The numbers in the
log are below the next one to be given out (`NumbersAscend`), which recovery sets
past the greatest it reads: that number exists because the numbers are bounded.
A transaction is open only in a session (`OpenInSession`). Every step starts a
transaction, logs a row, ends a transaction, is quiet, stops the program,
restarts it or empties the log (`LogSteps`), and each of the seven keeps `LogInv`.
The theorem assumes `Tears # "any"`: with a torn first record TLC finds
`LogTellsTxns` violated, for the reason `db_torn_first` shows.

*Database, rows.* The theorems about rows assume both precautions as well
(`Care = Precautions`); without either, `db_two_pages` and `db_undo_aborted` refute
them. `StoreInv` says, key by key, how log, memory, disk and `committed` hang
together. `HeapInv`: a key has one row at most, at one place, in memory and on
disk, and the index leads to it. `LogOrder`: of a key the log has INSERTs
followed by at most one DELETE of the same image, and nobody acts on a key after
a loser; this is what the precautions buy. `LogTellsCommitted`: what is committed
of the key, told from its records and from who won. `RowsAreLogged`: every row
on disk or in memory has the image that the log has for its key, and a key
without records is committed as it is on disk; `WriteAhead` follows from these
two. `GoneFromMem` gives the reason why a row is on disk and not in memory, so
that recovery, which starts from the disk, can be shown to remove it again.
`MemFollowsLog` ties memory to the log while a session runs, `UndoTells` the undo
list to what has changed since the last COMMIT; `OpReady` and `KeysShown` describe
the operation and the statement under way, and `Recovered` how far redo and undo
have come: as to the records behind the loop's position, the key is as they
leave it. A crash in the middle of recovery loses that much again; the next
recovery finds rows of the same images, which redo and undo test for and skip.
Each action keeps `StoreInv` by showing what it does to the rows of one key and
that it leaves the others' alone. For `Durable`, memory is the visible content
while statements run (`Serving`), which change it only in a transaction (phase
"open"). ROLLBACK and a crash map to `FallBack`, the steps of a rollback and of
recovery to stutters, and the end of either to `Settle`: memory counts again, and
`Settle` leaves what is visible as it is, so memory must then be the committed
content, to the row (`ServingShows`). The committed row lost in `db_undo_aborted`
violates `Durable` for that reason: a lost row is a `Delete`, and no transaction is open.
`FittingRowsAlwaysOpen`: redo throws only for a row that fits no page.

*BPlusTree.* Everything follows from what a name says: a node at height `h` made
with the separator `k` is `<<h, k>>`. A node's keys are at least the `k` of its
name and smaller than that of any further node at its height (`Within`), its
children are the nodes that its separators name one level below (`InnerShape`),
and every node but the root is under one (`Under`). So at each height one node
covers a key, the one with the greatest name up to it; routing leads from the
node that covers a key to the child that covers it (`ChildCovers`), and a search
ends in the only leaf that may hold it. `findLeaf` and `insertInto` are
recursive functions on a set of nodes that has no order of its own: that they
have a value at all is shown by the height (`DescentExists`, `IntoExists`), as a
function built level by level, by a least height at which it would fail.
`insertInto` works on a tree that is out of order above the node it has reached,
so its contract (`Result`) speaks of the nodes up to that height: they are as
they should be, but that a node split off is not yet known to a parent (`Grown`,
`SplitOff`); the rows held are those before and the new one (`Stored`); and the
leaves are still chained. The contract is shown for a leaf (a row overwritten, a
key entered, a split) and carried up a level in three ways: the child was not
split, its new sibling found room, or the node is split as well. A new root or
an erasure then leaves a tree again, since nothing asks a leaf to hold a key.
The invariant `IInv` adds that `count_` is the number of keys found. For the
refinement, `insert` and `erase` change the map at one key. A scan walks over
(leaf, position). Each step raises the name of the leaf or the position in it,
and the names have a bound (`NamesBounded`), so by a number that declines the
walk has a value from every spot on (`FromTheEnd`): the rows ahead of that spot
with keys up to the upper bound, in order (`Shows`). It starts in the leaf
that covers the lower bound, so every row from that bound on is ahead of it.

*Red-black tree.* `RedBlackRules` is not inductive: in the middle of a repair a rule
is broken, and nothing in it says where. The invariant `Sound` says that there
are an interval for every node and a black height for every node with these
properties. The root's interval is everything, a node's key lies in its interval,
and its two children have the parts below and above the key (`Formed`): so a node
has one parent, no path comes back to where it was, and a key lies on one path
only. Both children of a node have the black height that its own tells
(`Balanced`). A red node has a red child only where the repair stands, and the
root is black but for that (`RedRule`). A rotation is shown to share the
intervals out anew and to leave everything under its three subtrees as it was;
a recolouring moves the broken place two nodes up. `contains` goes down, and `validate`
up from the leaves, through intervals that grow narrower; that these recursive
functions have values is shown by a least width at which they would fail. The
theorems are about `RedBlackSpec`, the tree with its two actions on any finite set
of keys. A step of `LabTrees` is a step of it or leaves the tree alone; `LabTrees`
itself has the recursive scan of LAB-6, which keeps theorems out of it.

*B-tree.* `BTreeShape` is not inductive: to split a node rightly its entries must
be in order and its child must be where the key belongs. A tree here is a value
and not a set of named nodes, so the invariant `BTreeSound` is stated by the
entries under a node: node, height and entries are related (`At`) if some
relation has them in which each triple is justified by those of its children
(`Grounded`). A leaf is at height 0 with its own entries; any other node has
children one level below, one more than entries, with `t - 1` entries or more
each, which with its own are the entries under it (`Shares`). The node's entries
separate those of its children, but not strictly, because a key may come twice
and the median that goes up may equal keys on both sides. A split leaves the
height and the entries under the node as they were (`SplitKeeps`). After it the
key to be inserted is between the separators on both sides of the child that is
descended into, and that child is not full, so no split on the way needs to go
back up; a full root is put under a new one first (`RootSplit`). The ways down of
`insertNonFull` and `searchNode`, and the levels that `BTreeShape` speaks of, are
functions on all depths: that they have values, which end where the leaves are,
is shown by a least height at which they would not. `searchNode` goes on
before the first separator that is not below the key, unless it is the key: the
separators to the left are below the key and this one is above it, so the key is in
the child between them or nowhere. The auxiliary `held` is what
was inserted; the theorems are about `BTreeSpec`, the tree with its `Insert`.

*ShuntingYard.* `YardOrdered` is inductive. Popping keeps a prefix of the stack,
whose neighbours are neighbours in the stack before. Pushing adds one pair, of
the operator kept on top and the one read: the former does not yield to the
latter, which is to say that it binds looser, or equally and the latter is
right-associative.

*Lab8.* `IInv` adds to `TypeOK` that a transaction is `ACTIVE` exactly while its
thread runs calls (`StatusTold`) and where a scan is (`OneScanner`). `TypeOK`
holds the part the wake-ups need, `OnePending`: a waiting thread has one request
that is not granted, in its own call's queue, so `Pending` names it after any
change of the queue. What `remove_if` leaves of a queue (`Kept`, a recursive
function) is shown by looking for the least position at which it would go
wrong: others' requests and grants are kept, in their order. Hence a granted
request ahead of a sleeper's stays ahead of it (`StillAhead`) until its owner
releases the queue, which wakes the sleeper. The two refuted promises
`LockExclusion` and `NoLostUpdate` are not needed: no sleeper stalls even though
locks may conflict. A set of sleepers that blocks itself would be a cycle in
the recorded edges, and `WaitsForAcyclic` excludes it by the lemmas above.
`RowStaysVisible` (`RowsStayVisible` proves it) does not rest on the locks either. `VersionsInOrder`: a version is
marked by its creator or by a later transaction, and the loader's version is
never gone. If a transaction saw no version of a key, each version in its view
would be marked by a transaction in its view; the last of these markers, having
removed nothing, would have left a version of its own that somebody else
marked, hence a later marker. A read tests the versions one after the other, so it may
miss the row all the same (`ReadsFindRows` is refuted). `OnlyOvertakenReadsMiss`
says that a commit during the scan is the only cause. By `PassedUnseen`, of the
versions that a read has passed it could see by now only those of transactions
that have committed since it began: the heap does not change under a scan, and of
the statuses only a commit makes a version visible. At the end all versions are
passed and one is visible.

Assumptions used: the mode is one of the two, the default value is a value, and
the markers for "no holder" and "not written" are neither transactions nor
values; operands are neither operators nor parentheses; the pool has at least
one frame, and a page may have at least one pin; a B+ tree node has at least
three children (4 in the code), and keys are positive: the tree only compares
them, so this fixes a name for the leftmost node of a height and no more. The
red-black tree has a finite set of keys, which are positive and below `Above`, the
bound that `validate` starts from: the code's keys are `int`, and its `isValid`
excludes the two ends of the range. The B-tree's minimum degree is at least 2 (its
`main` takes 2), its keys are integers and may repeat, and rows are numbers. The heap a session starts from has at most one row for each key, and none that fits
no page (`LoadedAssumption`). Theorems about the session assume that a crash
does not tear the first record of a log, and those about its rows that the
clients take both precautions.

Only model-checked: liveness (`EveryTxnEnds`, `SearchEnds`, `RecoveryEnds`,
`CallsReturn`, `RepairEnds`), which is outside the proof system's reach here; of
`BothFindWhatWasGiven`, that LAB-6's scan lists every entry once and in order, which
is recursive over all children (what it says of `contains` and of `Search` is
proved of each tree by itself); and the queries (`ParsersAgree`, `PlansAgree`): what the parsers
and `eval_rpn` compute is defined by recursion over an input, and needs an
induction over it. The library's induction rules are out of the provers' reach,
and the detour by a least counterexample, taken for `Kept` and for the three
trees, is long for three functions that call each other.

## 5. Not modelled, and why

- Byte layouts (slots, log records, row serialization) are data; the 16-bit
  arithmetic of a page is planned as a module of its own.
- Several tables and `createTable`: one table has every interaction of log,
  heap, index and recovery. The catalog's file, which is truncated before it is
  written, is planned.
- The lexers, the fixed forms of the statements (`parseInsert` and so on) and
  value formatting are text processing, one token after the other. LAB-7's
  `parse_select` and `execute` and the query layer's `COUNT(*)` are single loops
  without a choice that meets another. `selectivity` is only printed.
- LAB-3 is the sweep of the buffer pool over values, without pins.
- Short reads, failing writes and bad page numbers in the data file: the code
  throws, and no caller handles it.
- The unprotected lock table of LAB-8 while it grows: a data race on a hash map
  has no outcomes to enumerate.
- LAB-2 and LAB-4 hold notes only; the benchmark's timing and the REPL's input
  and output are not behaviour of the engine.

## 6. Plan

Order of work still to do, the most important first.

1. *Composition*: the heap over the buffer pool, so that `WriteBack` of `Database` is
   the pool's eviction and an exception in a scan leaves its page pinned.
2. *Slotted page* with 16-bit offsets, against the abstract page of `HeapFile`;
   *Catalog* with a crash between the truncation and the end of a save.
3. *LAB-3*'s cache and *LAB-7*'s SELECT.
