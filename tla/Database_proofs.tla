---------------------------- MODULE Database_proofs ----------------------------
(***************************************************************************)
(* Proofs about the database session, for any rows and any number of       *)
(* statements and restarts.  First its log and its heap, with every        *)
(* client; then its rows, for clients that take the two precautions: the   *)
(* index, the write-ahead rule and the refinement of DurableStore.         *)
(***************************************************************************)
EXTENDS DatabaseProps, FiniteSetTheorems, WellFoundedInduction, TLAPS

\* The program takes statements or is in the middle of one.
Session == {"ready", "rows", "log", "apply", "commit", "rollback"}

\* A torn record ends the log, after a whole one, and only until recovery has
\* emptied the log.
TornIsLast ==
    \A i \in DOMAIN log : log[i].type = "TORN" =>
        i = Len(log) /\ i > 1 /\ pc \notin Session

\* Numbers are given out in ascending order: those in the log are below the next.
NumbersAscend ==
    /\ next_txn \in Nat \ {0}
    /\ current_txn \in Nat /\ current_txn < next_txn
    /\ \A i \in DOMAIN Readable : Readable[i].txid \in Nat \ {0}
    /\ \E n \in Nat : /\ \A i \in DOMAIN Readable : Readable[i].txid <= n
                      /\ pc \in Session => n < next_txn

\* A transaction is open only in a session, and wherever one is about to log.
OpenInSession ==
    /\ current_txn # INVALID_TXN => pc \in Session
    /\ pc \in {"log", "apply", "commit", "rollback"} => current_txn # INVALID_TXN
    /\ pc = "log" => op.kind \in {"INSERT", "DELETE"}

LogInv ==
    /\ \E S : log \in Seq(S)
    /\ TornIsLast
    /\ NumbersAscend
    /\ OpenInSession
    /\ LogTellsTxns

LEMMA LeastElement ==
    ASSUME NEW S \in SUBSET Nat, S # {}
    PROVE  \E n \in S : \A m \in S : n <= m
<1>1. PICK x \in S : \A y \in S : ~(<<y, x>> \in OpToRel(<, Nat))
  BY WFMin, NatLessThanWellFounded
<1>2. \A y \in S : ~(y < x)
  BY <1>1 DEF OpToRel
<1> QED
  BY <1>2

\* In a session every record can be read.
LEMMA AllReadable ==
    ASSUME LogInv, pc \in Session
    PROVE  Readable = log
BY DEF LogInv, TornIsLast, TornAt, Readable

LEMMA OnlyTorn ==
    ASSUME NEW n \in Nat
    PROVE  (CHOOSE i \in {n} : \A j \in {n} : i <= j) = n
<1>1. \A i \in {n} : (\A j \in {n} : i <= j) <=> i = n
  OBVIOUS
<1>2. n \in {n} /\ \A j \in {n} : n <= j
  OBVIOUS
<1>3. (CHOOSE i \in {n} : \A j \in {n} : i <= j) \in {n}
  BY <1>2
<1> QED
  BY <1>3

\* What can be read of a log, and that a log which is not empty has a record that can.
LEMMA ReadableIs ==
    ASSUME LogInv, NEW S, log \in Seq(S)
    PROVE  /\ Readable \in Seq(S)
           /\ log # <<>> => 1 \in DOMAIN Readable
<1>1. CASE TornAt = {}
  <2>1. Readable = log
    BY <1>1 DEF Readable
  <2>2. log # <<>> => 1 \in DOMAIN log
    OBVIOUS
  <2> QED
    BY <2>1, <2>2
<1>2. CASE TornAt # {}
  <2>1. PICK i \in TornAt : i = Len(log) /\ i > 1 /\ i \in Nat
    BY <1>2 DEF LogInv, TornIsLast, TornAt
  <2>2. TornAt = {i}
    BY <2>1 DEF LogInv, TornIsLast, TornAt
  <2>3. Readable = SubSeq(log, 1, i - 1)
    BY <2>1, <2>2, OnlyTorn DEF Readable
  <2>4. SubSeq(log, 1, i - 1) \in Seq(S) /\ Len(SubSeq(log, 1, i - 1)) = i - 1
    BY <2>1
  <2>5. Len(Readable) >= 1 /\ Len(Readable) \in Nat /\ Readable \in Seq(S)
    BY <2>1, <2>3, <2>4
  <2> QED
    BY <2>5
<1> QED
  BY <1>1, <1>2

\* A record cut short at the end of a log without one changes nothing readable.
LEMMA TearsOff ==
    ASSUME LogInv, TornAt = {}, log' = Append(log, Torn)
    PROVE  /\ Readable' = log
           /\ \A i \in DOMAIN log' : log'[i].type = "TORN" => i = Len(log') /\ i = Len(log) + 1
<1>1. PICK S : log \in Seq(S)
  BY DEF LogInv
<1>2. \A i \in DOMAIN log : log[i].type # "TORN"
  BY DEF TornAt
<1> DEFINE n == Len(log) + 1
<1>3. log \in Seq(S \cup {Torn}) /\ Torn \in S \cup {Torn}
  BY <1>1
<1>4. /\ log' \in Seq(S \cup {Torn}) /\ Len(log') = n /\ DOMAIN log' = 1 .. n /\ n \in Nat
      /\ log'[n] = Torn /\ \A i \in 1 .. Len(log) : log'[i] = log[i]
  BY <1>3
<1>5. Torn.type = "TORN"
  BY DEF Torn
<1>6. TornAt' = {n}
  BY <1>1, <1>2, <1>4, <1>5 DEF TornAt
<1>7. (CHOOSE i \in TornAt' : \A j \in TornAt' : i <= j) = n
  BY <1>4, <1>6
<1>8. Readable' = SubSeq(log', 1, n - 1)
  BY <1>6, <1>7 DEF Readable
<1>9. SubSeq(log', 1, n - 1) = log
  BY <1>1, <1>3, <1>4
<1> QED
  BY <1>4, <1>6, <1>8, <1>9 DEF TornAt

\* Recovery learns the greatest number in the log.
LEMMA MaxTxnIs ==
    ASSUME LogInv, Readable # <<>>
    PROVE  MaxTxn \in Nat
<1> DEFINE T == {r.txid : r \in Range(Readable)}
           bounds == {n \in Nat : \A x \in T : x <= n}
<1>1. \A i \in DOMAIN Readable : Readable[i].txid \in Nat \ {0}
  BY DEF LogInv, NumbersAscend
<1>2. \A x \in T : x \in Nat \ {0} /\ \E i \in DOMAIN Readable : x = Readable[i].txid
  BY <1>1 DEF Range
<1>3. T # {}
  <2>1. PICK S : log \in Seq(S)
    BY DEF LogInv
  <2>2. log # <<>>
    <3>1. log = <<>> => TornAt = {}
      BY DEF TornAt
    <3> QED
      BY <3>1 DEF Readable
  <2>3. 1 \in DOMAIN Readable
    BY <2>1, <2>2, ReadableIs
  <2> QED
    BY <2>3 DEF Range
<1>4. bounds # {}
  <2>1. PICK n \in Nat : \A i \in DOMAIN Readable : Readable[i].txid <= n
    BY DEF LogInv, NumbersAscend
  <2> QED
    BY <1>2, <2>1
<1>5. PICK n \in bounds : \A m \in bounds : n <= m
  <2> HIDE DEF T
  <2>1. bounds \in SUBSET Nat
    OBVIOUS
  <2> HIDE DEF bounds
  <2> QED
    BY <1>4, <2>1, LeastElement
<1>6. n \in T
  <2> SUFFICES ASSUME n \notin T PROVE FALSE
    OBVIOUS
  <2>1. n \in Nat /\ \A x \in T : x <= n
    OBVIOUS
  <2> HIDE DEF T
  <2>2. n > 0 /\ \A x \in T : x <= n - 1
    BY <1>2, <1>3, <2>1
  <2>3. n - 1 \in bounds
    BY <2>1, <2>2
  <2> QED
    BY <1>5, <2>1, <2>3
<1>7. \E m \in T : \A r \in Range(Readable) : r.txid <= m
  BY <1>6
<1>8. MaxTxn \in T
  BY <1>7 DEF MaxTxn
<1> QED
  BY <1>2, <1>8

-------------------------------------------------------------------------------
(* The steps, as far as the log and the numbers are concerned.              *)

Starts ==
    /\ pc \in Session /\ pc' \in Session /\ pc' \notin {"apply", "commit", "rollback"}
    /\ pc' = "log" => op'.kind \in {"INSERT", "DELETE"}
    /\ current_txn = INVALID_TXN /\ current_txn' = next_txn /\ next_txn' = next_txn + 1
    /\ log' = Append(log, [type |-> "BEGIN", txid |-> next_txn])

LogsRow ==
    /\ pc = "log" /\ pc' = "apply"
    /\ UNCHANGED <<current_txn, next_txn>>
    /\ log' = Append(log, [type |-> op.kind, txid |-> current_txn, pk |-> op.pk,
                           image |-> op.image])

Ends ==
    /\ pc \in Session /\ pc' \in {"ready", "rows"}
    /\ current_txn # INVALID_TXN /\ current_txn' = INVALID_TXN /\ UNCHANGED next_txn
    /\ \E type \in {"COMMIT", "ABORT"} :
          log' = Append(log, [type |-> type, txid |-> current_txn])

Quiet ==
    /\ UNCHANGED <<log, current_txn, next_txn>>
    /\ pc' \in Session <=> pc \in Session
    /\ pc' \in {"log", "apply", "commit", "rollback"} => current_txn # INVALID_TXN
    /\ pc' = "log" => op'.kind \in {"INSERT", "DELETE"}

Stops ==
    /\ pc' = "down"
    /\ current_txn' = INVALID_TXN /\ next_txn' = 1
    /\ \/ UNCHANGED log
       \/ /\ Appending /\ MayTear
          /\ log' = Append(log, Torn)

LEMMA EnsureCases ==
    ASSUME EnsureTxn, pc \in Session, pc' = "log", op'.kind \in {"INSERT", "DELETE"}
    PROVE  Starts \/ Quiet
BY DEF EnsureTxn, StartTxn, session, Starts, Quiet, Session

LEMMA StatementSteps ==
    ASSUME LogInv,
           \/ Begin \/ Commit \/ RollbackCall \/ UndoOne \/ EndRollback
           \/ \E k \in Key, image \in Image : InsertRow(k, image)
           \/ \E K \in SUBSET Key : RunDelete(K)
    PROVE  Starts \/ Ends \/ Quiet
<1>1. CASE Begin
  BY <1>1 DEF Begin, Statement, StartTxn, Starts, Session
<1>2. CASE Commit
  BY <1>2 DEF Commit, Statement, EndTxn, Logs, Ends, Session
<1>3. CASE RollbackCall
  BY <1>3 DEF RollbackCall, Statement, session, Quiet, Session
<1>4. CASE UndoOne
  BY <1>4 DEF UndoOne, Quiet, LogInv, OpenInSession, Session
<1>5. CASE EndRollback
  BY <1>5 DEF EndRollback, EndTxn, Logs, Ends, Session, LogInv, OpenInSession
<1>6. ASSUME NEW k \in Key, NEW image \in Image, InsertRow(k, image)
      PROVE  Starts \/ Quiet
  <2>1. pc \in Session /\ EnsureTxn /\ pc' = "log" /\ op'.kind = "INSERT"
    BY <1>6 DEF InsertRow, Statement, Session
  <2> QED
    BY <2>1, EnsureCases
<1>7. ASSUME NEW K \in SUBSET Key, RunDelete(K)
      PROVE  Quiet
  BY <1>7 DEF RunDelete, Statement, session, Quiet, Session
<1> QED
  BY <1>1, <1>2, <1>3, <1>4, <1>5, <1>6, <1>7

LEMMA RowSteps ==
    ASSUME LogInv,
           \/ DeleteByKey \/ DeleteDone \/ LogRow \/ ApplyInsert \/ InsertThrows
           \/ ApplyDelete \/ AutoCommit
    PROVE  Starts \/ LogsRow \/ Ends \/ Quiet
<1>1. CASE DeleteByKey
  <2>1. CASE index[FirstKey] # NoRow
    <3>1. pc \in Session /\ EnsureTxn /\ pc' = "log" /\ op'.kind = "DELETE"
      BY <1>1, <2>1 DEF DeleteByKey, Session
    <3> QED
      BY <3>1, EnsureCases
  <2>2. CASE index[FirstKey] = NoRow
    BY <1>1, <2>2 DEF DeleteByKey, session, Quiet, LogInv, OpenInSession
  <2> QED
    BY <2>1, <2>2
<1>2. CASE DeleteDone
  BY <1>2 DEF DeleteDone, session, Quiet, Session
<1>3. CASE LogRow
  BY <1>3 DEF LogRow, session, LogsRow
<1>4. ASSUME ApplyInsert \/ ApplyDelete
      PROVE  Quiet
  BY <1>4 DEF ApplyInsert, ApplyDelete, Remember, EndOfRow, Quiet, Session, LogInv,
              OpenInSession
<1>5. CASE InsertThrows
  BY <1>5 DEF InsertThrows, session, Quiet, Session
<1>6. CASE AutoCommit
  BY <1>6 DEF AutoCommit, EndTxn, Logs, Ends, Session, LogInv, OpenInSession
<1> QED
  BY <1>1, <1>2, <1>3, <1>4, <1>5, <1>6

LEMMA OtherSteps ==
    ASSUME LogInv,
           \/ Redo \/ RedoDone \/ RedoThrows \/ UndoLoser \/ Flush
           \/ Crash \/ Exit
           \/ \E p \in DOMAIN mem : WriteBack(p)
    PROVE  Quiet \/ Stops
<1>1. ASSUME Redo \/ RedoDone \/ RedoThrows \/ UndoLoser \/ Flush
      PROVE  Quiet
  BY <1>1 DEF Redo, RedoDone, RedoThrows, UndoLoser, Flush, session, Quiet, Session
<1>2. CASE \E p \in DOMAIN mem : WriteBack(p)
  BY <1>2 DEF WriteBack, session, dml, Quiet, LogInv, OpenInSession
<1>3. CASE Crash \/ Exit
  BY <1>3 DEF Crash, Exit, LoseMemory, Stops
<1> QED
  BY <1>1, <1>2, <1>3

LEMMA LogSteps ==
    ASSUME LogInv, [Next]_vars
    PROVE  Starts \/ LogsRow \/ Ends \/ Quiet \/ Stops \/ Restart \/ Reset
<1>1. UNCHANGED vars => Quiet
  BY DEF vars, Quiet, LogInv, OpenInSession
<1> QED
  BY <1>1, StatementSteps, RowSteps, OtherSteps DEF Next, Write, Recover

-------------------------------------------------------------------------------
(* Each keeps the invariant.                                                *)

LEMMA Appended ==
    ASSUME LogInv, pc \in Session, NEW r, r.type # "TORN", log' = Append(log, r)
    PROVE  /\ \E S : log' \in Seq(S)
           /\ Readable = log /\ Readable' = log' /\ TornAt' = {}
           /\ Len(log) \in Nat /\ Len(log') = Len(log) + 1
           /\ DOMAIN log = 1 .. Len(log) /\ DOMAIN log' = 1 .. Len(log) + 1
           /\ log'[Len(log) + 1] = r /\ \A i \in 1 .. Len(log) : log'[i] = log[i]
<1>1. PICK S : log \in Seq(S)
  BY DEF LogInv
<1>2. Readable = log /\ TornAt = {}
  BY AllReadable DEF LogInv, TornIsLast, TornAt
<1>3. log \in Seq(S \cup {r}) /\ r \in S \cup {r}
  BY <1>1
<1>4. /\ log' \in Seq(S \cup {r}) /\ Len(log) \in Nat /\ Len(log') = Len(log) + 1
      /\ DOMAIN log = 1 .. Len(log) /\ DOMAIN log' = 1 .. Len(log) + 1
      /\ log'[Len(log) + 1] = r /\ \A i \in 1 .. Len(log) : log'[i] = log[i]
  BY <1>3
<1>5. TornAt' = {}
  <2>1. ASSUME NEW i \in 1 .. Len(log) + 1 PROVE log'[i].type # "TORN"
    <3>1. CASE i = Len(log) + 1
      BY <1>4, <3>1
    <3>2. CASE i # Len(log) + 1
      BY <1>2, <1>4, <3>2 DEF TornAt
    <3> QED
      BY <3>1, <3>2
  <2> QED
    BY <1>4, <2>1 DEF TornAt
<1>6. Readable' = log'
  BY <1>5 DEF Readable
<1> QED
  BY <1>2, <1>4, <1>5, <1>6

\* What is known of the numbers when a record is appended.
LEMMA SessionNumbers ==
    ASSUME LogInv, pc \in Session
    PROVE  /\ next_txn \in Nat \ {0}
           /\ current_txn \in Nat /\ current_txn < next_txn
           /\ \A i \in DOMAIN log : log[i].txid \in Nat \ {0} /\ log[i].txid < next_txn
           /\ \A i, j \in DOMAIN log :
                 /\ i < j /\ log[i].type = "BEGIN" /\ log[j].type = "BEGIN"
                        => log[i].txid # log[j].txid
                 /\ log[i].type \in {"COMMIT", "ABORT"} => log[i].txid # current_txn
<1>1. Readable = log
  BY AllReadable
<1>2. PICK n \in Nat : (\A i \in DOMAIN log : log[i].txid <= n) /\ n < next_txn
  BY <1>1 DEF LogInv, NumbersAscend
<1>3. /\ next_txn \in Nat \ {0}
      /\ current_txn \in Nat /\ current_txn < next_txn
      /\ \A i \in DOMAIN log : log[i].txid \in Nat \ {0}
  BY <1>1 DEF LogInv, NumbersAscend
<1> QED
  BY <1>1, <1>2, <1>3 DEF LogInv, LogTellsTxns, NumbersIdentify

LEMMA StartKeeps ==
    ASSUME LogInv, Starts
    PROVE  LogInv'
<1> DEFINE r == [type |-> "BEGIN", txid |-> next_txn]
           n == Len(log) + 1
<1>1. /\ \E S : log' \in Seq(S)
      /\ Readable = log /\ Readable' = log' /\ TornAt' = {}
      /\ Len(log) \in Nat /\ Len(log') = n
      /\ DOMAIN log = 1 .. Len(log) /\ DOMAIN log' = 1 .. n
      /\ log'[n] = r /\ \A i \in 1 .. Len(log) : log'[i] = log[i]
  BY Appended DEF Starts
<1>2. current_txn' = next_txn /\ next_txn' = next_txn + 1 /\ pc \in Session /\ pc' \in Session
  BY DEF Starts
<1>3. TornIsLast'
  BY <1>1 DEF TornAt, TornIsLast
<1>4. next_txn \in Nat \ {0}
  BY <1>2, SessionNumbers
<1>5. \A i \in 1 .. n : log'[i].txid \in Nat \ {0} /\ log'[i].txid <= next_txn
  <2>1. ASSUME NEW i \in 1 .. n
        PROVE  log'[i].txid \in Nat \ {0} /\ log'[i].txid <= next_txn
    <3>1. CASE i = n
      BY <1>1, <1>4, <3>1
    <3>2. CASE i # n
      <4>1. i \in DOMAIN log /\ log'[i] = log[i]
        BY <1>1, <3>2
      <4>2. log[i].txid \in Nat \ {0} /\ log[i].txid < next_txn
        BY <1>2, <4>1, SessionNumbers
      <4> QED
        BY <1>4, <4>1, <4>2
    <3> QED
      BY <3>1, <3>2
  <2> QED
    BY <2>1
<1>6. NumbersAscend'
  <2>1. next_txn < next_txn' /\ next_txn' \in Nat \ {0}
    BY <1>2, <1>4
  <2> QED
    BY <1>1, <1>2, <1>4, <1>5, <2>1 DEF NumbersAscend
<1>7. OpenInSession'
  BY <1>2, <1>4 DEF OpenInSession, Starts, INVALID_TXN
<1>8. NumbersIdentify'
  <2>1. ASSUME NEW i \in 1 .. n, NEW j \in 1 .. n
        PROVE  /\ i < j /\ log'[i].type = "BEGIN" /\ log'[j].type = "BEGIN"
                      => log'[i].txid # log'[j].txid
               /\ log'[i].type \in {"COMMIT", "ABORT"} => log'[i].txid # next_txn
    <3>1. \A m \in 1 .. n : m # n => m \in DOMAIN log /\ log'[m] = log[m] /\ log[m].txid < next_txn
      BY <1>1, <1>2, SessionNumbers
    <3>2. \A m \in 1 .. n : m # n => log'[m].txid # next_txn
      <4>1. \A m \in 1 .. n : m # n => log'[m].txid \in Nat
        BY <1>5
      <4> QED
        BY <1>4, <3>1, <4>1
    <3>3. log'[n].txid = next_txn /\ log'[n].type = "BEGIN"
      BY <1>1
    <3>4. i < j => i # n
      BY <1>1
    <3>5. CASE j # n
      BY <1>2, <3>1, <3>2, <3>3, <3>4, <3>5, SessionNumbers
    <3>6. CASE j = n
      BY <3>2, <3>3, <3>4, <3>6
    <3> QED
      BY <3>5, <3>6
  <2> QED
    BY <1>1, <1>2, <2>1 DEF NumbersIdentify
<1>9. OpenTxnIsLast'
  <2>1. n \in DOMAIN log' /\ log'[n] = [type |-> "BEGIN", txid |-> current_txn']
    BY <1>1, <1>2
  <2>2. \A j \in n .. Len(log') : log'[j].txid = current_txn'
    BY <1>1, <1>2, <2>1
  <2> QED
    BY <1>1, <2>1, <2>2 DEF OpenTxnIsLast
<1> QED
  BY <1>1, <1>3, <1>6, <1>7, <1>8, <1>9 DEF LogInv, LogTellsTxns

\* A record of the open transaction that is not its BEGIN; the transaction stays
\* open or ends.
LEMMA OwnRecordKeeps ==
    ASSUME LogInv, pc \in Session, pc' \in Session, current_txn # INVALID_TXN,
           NEW r, r.type \notin {"TORN", "BEGIN"}, r.txid = current_txn,
           log' = Append(log, r), next_txn' = next_txn,
           \/ current_txn' = current_txn /\ r.type \notin {"COMMIT", "ABORT"}
           \/ current_txn' = INVALID_TXN,
           OpenInSession'
    PROVE  LogInv'
<1> DEFINE n == Len(log) + 1
<1>1. /\ \E S : log' \in Seq(S)
      /\ Readable = log /\ Readable' = log' /\ TornAt' = {}
      /\ Len(log) \in Nat /\ Len(log') = n
      /\ DOMAIN log = 1 .. Len(log) /\ DOMAIN log' = 1 .. n
      /\ log'[n] = r /\ \A i \in 1 .. Len(log) : log'[i] = log[i]
  BY Appended
<1>2. TornIsLast'
  BY <1>1 DEF TornAt, TornIsLast
<1>3. next_txn \in Nat \ {0} /\ current_txn \in Nat \ {0} /\ current_txn < next_txn
  BY SessionNumbers DEF INVALID_TXN
<1>4. ASSUME NEW i \in 1 .. n
      PROVE  log'[i].txid \in Nat \ {0} /\ log'[i].txid < next_txn
  <2>1. CASE i = n
    BY <1>1, <1>3, <2>1
  <2>2. CASE i # n
    BY <1>1, <2>2, SessionNumbers
  <2> QED
    BY <2>1, <2>2
<1>5. NumbersAscend'
  <2>1. next_txn - 1 \in Nat /\ next_txn - 1 < next_txn'
    BY <1>3
  <2>2. \A i \in DOMAIN Readable' : Readable'[i].txid <= next_txn - 1
    BY <1>1, <1>3, <1>4
  <2>3. current_txn' \in Nat /\ current_txn' < next_txn'
    BY <1>3 DEF INVALID_TXN
  <2> QED
    BY <1>1, <1>3, <1>4, <2>1, <2>2, <2>3 DEF NumbersAscend
<1>6. NumbersIdentify'
  <2>1. ASSUME NEW i \in 1 .. n, NEW j \in 1 .. n
        PROVE  /\ i < j /\ log'[i].type = "BEGIN" /\ log'[j].type = "BEGIN"
                      => log'[i].txid # log'[j].txid
               /\ log'[i].type \in {"COMMIT", "ABORT"} => log'[i].txid # current_txn'
    <3>1. \A m \in 1 .. n : m # n => m \in DOMAIN log /\ log'[m] = log[m]
      BY <1>1
    <3>2. i < j /\ log'[i].type = "BEGIN" /\ log'[j].type = "BEGIN"
              => log'[i].txid # log'[j].txid
      BY <1>1, <3>1, SessionNumbers
    <3>3. log'[i].type \in {"COMMIT", "ABORT"} => log'[i].txid # current_txn'
      <4>1. CASE current_txn' = INVALID_TXN
        BY <1>4, <4>1 DEF INVALID_TXN
      <4>2. CASE current_txn' = current_txn /\ r.type \notin {"COMMIT", "ABORT"}
        BY <1>1, <3>1, <4>2, SessionNumbers
      <4> QED
        BY <4>1, <4>2
    <3> QED
      BY <3>2, <3>3
  <2> QED
    BY <1>1, <2>1 DEF NumbersIdentify
<1>7. OpenTxnIsLast'
  <2> SUFFICES ASSUME current_txn' = current_txn
               PROVE  \E i \in DOMAIN log' :
                          /\ log'[i] = [type |-> "BEGIN", txid |-> current_txn]
                          /\ \A j \in i .. Len(log') : log'[j].txid = current_txn
    BY <1>1 DEF OpenTxnIsLast
  <2>1. PICK i \in DOMAIN log :
            /\ log[i] = [type |-> "BEGIN", txid |-> current_txn]
            /\ \A j \in i .. Len(log) : log[j].txid = current_txn
    BY <1>1 DEF LogInv, LogTellsTxns, OpenTxnIsLast
  <2>2. i \in DOMAIN log' /\ log'[i] = log[i]
    BY <1>1
  <2>3. ASSUME NEW j \in i .. n PROVE log'[j].txid = current_txn
    <3>1. CASE j = n
      BY <1>1, <3>1
    <3>2. CASE j # n
      <4>1. j \in i .. Len(log) /\ j \in 1 .. Len(log)
        BY <1>1, <3>2
      <4> QED
        BY <1>1, <2>1, <4>1
    <3> QED
      BY <3>1, <3>2
  <2> QED
    BY <1>1, <2>1, <2>2, <2>3
<1> QED
  BY <1>1, <1>2, <1>5, <1>6, <1>7 DEF LogInv, LogTellsTxns

LEMMA RowKeeps ==
    ASSUME LogInv, LogsRow \/ Ends
    PROVE  LogInv'
<1>1. CASE LogsRow
  <2> DEFINE r == [type |-> op.kind, txid |-> current_txn, pk |-> op.pk, image |-> op.image]
  <2>1. pc \in Session /\ pc' \in Session /\ current_txn # INVALID_TXN
    BY <1>1 DEF LogsRow, LogInv, OpenInSession, Session
  <2>2. op.kind \in {"INSERT", "DELETE"}
    BY <1>1 DEF LogsRow, LogInv, OpenInSession
  <2>3. OpenInSession'
    BY <1>1, <2>1 DEF LogsRow, OpenInSession
  <2>4. r.type \notin {"TORN", "BEGIN", "COMMIT", "ABORT"} /\ r.txid = current_txn
    BY <2>2
  <2>5. log' = Append(log, r) /\ next_txn' = next_txn /\ current_txn' = current_txn
    BY <1>1 DEF LogsRow
  <2> HIDE DEF r
  <2> QED
    BY <2>1, <2>3, <2>4, <2>5, OwnRecordKeeps
<1>2. CASE Ends
  <2>1. PICK type \in {"COMMIT", "ABORT"} : log' = Append(log, [type |-> type, txid |-> current_txn])
    BY <1>2 DEF Ends
  <2> DEFINE r == [type |-> type, txid |-> current_txn]
  <2>2. pc \in Session /\ pc' \in Session /\ current_txn # INVALID_TXN
    BY <1>2 DEF Ends, Session
  <2>3. OpenInSession'
    BY <1>2 DEF Ends, OpenInSession
  <2>4. r.type \notin {"TORN", "BEGIN"} /\ r.txid = current_txn
    OBVIOUS
  <2>5. log' = Append(log, r) /\ next_txn' = next_txn /\ current_txn' = INVALID_TXN
    BY <1>2, <2>1 DEF Ends
  <2> HIDE DEF r
  <2> QED
    BY <2>2, <2>3, <2>4, <2>5, OwnRecordKeeps
<1> QED
  BY <1>1, <1>2

LEMMA SameLog ==
    ASSUME log' = log
    PROVE  TornAt' = TornAt /\ Readable' = Readable
BY DEF TornAt, Readable

LEMMA QuietKeeps ==
    ASSUME LogInv, Quiet
    PROVE  LogInv'
<1>1. TornAt' = TornAt /\ Readable' = Readable
  BY SameLog DEF Quiet
<1>2. (\E S : log \in Seq(S))'
  BY DEF LogInv, Quiet
<1>3. TornIsLast'
  BY DEF LogInv, Quiet, TornIsLast
<1>4. NumbersAscend'
  BY <1>1 DEF LogInv, Quiet, NumbersAscend
<1>5. OpenInSession'
  <2>1. current_txn' # INVALID_TXN => pc' \in Session
    BY DEF LogInv, OpenInSession, Quiet
  <2> QED
    BY <2>1 DEF OpenInSession, Quiet
<1>6. LogTellsTxns'
  BY <1>1 DEF LogInv, Quiet, LogTellsTxns, NumbersIdentify, OpenTxnIsLast
<1> QED
  BY <1>2, <1>3, <1>4, <1>5, <1>6 DEF LogInv

\* A crash that tears a record does so behind a whole one.
LEMMA StopKeeps ==
    ASSUME LogInv, Tears # "any", Stops
    PROVE  LogInv'
<1>1. pc' = "down" /\ current_txn' = 0 /\ next_txn' = 1
  BY DEF Stops, INVALID_TXN
<1>2. /\ Readable' = Readable
      /\ \E S : log' \in Seq(S)
      /\ \A i \in DOMAIN log' : log'[i].type = "TORN" => i = Len(log') /\ i > 1
  <2>1. CASE UNCHANGED log
    BY <2>1, SameLog DEF LogInv, TornIsLast
  <2>2. CASE Appending /\ MayTear /\ log' = Append(log, Torn)
    <3>1. PICK S : log \in Seq(S)
      BY DEF LogInv
    <3>2. pc \in Session
      BY <2>2 DEF Appending, Session
    <3>3. Readable = log /\ TornAt = {}
      BY <3>2, AllReadable DEF LogInv, TornIsLast, TornAt
    <3>4. Len(log) \in Nat /\ Len(log) >= 1
      <4>1. log # <<>>
        BY <2>2, <3>3, WorkloadAssumption DEF MayTear
      <4> QED
        BY <3>1, <4>1
    <3>5. log \in Seq(S \cup {Torn}) /\ Torn \in S \cup {Torn}
      BY <3>1
    <3>6. log' \in Seq(S \cup {Torn})
      BY <2>2, <3>5
    <3> QED
      BY <2>2, <3>3, <3>4, <3>6, TearsOff
  <2> QED
    BY <2>1, <2>2 DEF Stops
<1>3. TornIsLast'
  BY <1>1, <1>2 DEF TornIsLast, Session
<1>4. NumbersAscend'
  <2>1. PICK n \in Nat : \A i \in DOMAIN Readable : Readable[i].txid <= n
    BY DEF LogInv, NumbersAscend
  <2>2. \A i \in DOMAIN Readable : Readable[i].txid \in Nat \ {0}
    BY DEF LogInv, NumbersAscend
  <2> QED
    BY <1>1, <1>2, <2>1, <2>2 DEF NumbersAscend, Session
<1>5. OpenInSession'
  BY <1>1 DEF OpenInSession, INVALID_TXN
<1>6. NumbersIdentify'
  BY <1>1, <1>2 DEF LogInv, NumbersAscend, LogTellsTxns, NumbersIdentify
<1>7. OpenTxnIsLast'
  BY <1>1 DEF OpenTxnIsLast, INVALID_TXN
<1> QED
  BY <1>2, <1>3, <1>4, <1>5, <1>6, <1>7 DEF LogInv, LogTellsTxns

\* A program that starts reads a log that is empty or has a number to go on from.
LEMMA RestartKeeps ==
    ASSUME LogInv, Restart
    PROVE  LogInv'
<1>1. pc \notin Session /\ log' = log /\ current_txn' = current_txn
  BY DEF Restart, Session
<1>2. current_txn = INVALID_TXN
  BY <1>1 DEF LogInv, OpenInSession
<1>3. TornAt' = TornAt /\ Readable' = Readable
  BY <1>1, SameLog
<1>4. PICK S : log \in Seq(S)
  BY DEF LogInv
<1>5. \/ Readable = <<>> /\ pc' = "ready" /\ next_txn' = next_txn
      \/ Readable # <<>> /\ pc' = "redo" /\ next_txn' = MaxTxn + 1
  BY DEF Restart, StartRecovery
<1>6. Readable = <<>> => log = <<>>
  BY <1>4, ReadableIs
<1>7. TornIsLast'
  <2>1. CASE Readable = <<>>
    <3>1. log' = <<>>
      BY <1>1, <1>6, <2>1
    <3> QED
      BY <3>1 DEF TornIsLast
  <2>2. CASE Readable # <<>>
    BY <1>1, <1>5, <2>2 DEF LogInv, TornIsLast, Session
  <2> QED
    BY <2>1, <2>2
<1>8. NumbersAscend'
  <2>1. next_txn' \in Nat \ {0}
    BY <1>5, MaxTxnIs DEF LogInv, NumbersAscend
  <2>2. current_txn' \in Nat /\ current_txn' < next_txn'
    BY <1>1, <1>2, <2>1 DEF INVALID_TXN
  <2>3. \E n \in Nat : /\ \A i \in DOMAIN Readable' : Readable'[i].txid <= n
                       /\ pc' \in Session => n < next_txn'
    <3>1. CASE Readable = <<>>
      BY <1>3, <2>1, <3>1
    <3>2. CASE Readable # <<>>
      BY <1>3, <1>5, <3>2 DEF LogInv, NumbersAscend, Session
    <3> QED
      BY <3>1, <3>2
  <2> QED
    BY <1>3, <2>1, <2>2, <2>3 DEF LogInv, NumbersAscend
<1>9. OpenInSession'
  BY <1>1, <1>2, <1>5 DEF OpenInSession
<1>10. LogTellsTxns'
  BY <1>1, <1>3 DEF LogInv, LogTellsTxns, NumbersIdentify, OpenTxnIsLast
<1> QED
  BY <1>1, <1>4, <1>7, <1>8, <1>9, <1>10 DEF LogInv

\* The log is empty and nothing is under way.
Blank ==
    /\ log = <<>>
    /\ next_txn \in Nat \ {0} /\ current_txn = INVALID_TXN
    /\ pc \notin {"log", "apply", "commit", "rollback"}

LEMMA BlankIsGood == Blank => LogInv
<1> SUFFICES ASSUME Blank PROVE LogInv
  OBVIOUS
<1>1. Readable = <<>> /\ DOMAIN Readable = {}
  BY DEF Blank, Readable, TornAt
<1>2. \E S : log \in Seq(S)
  BY DEF Blank
<1>3. TornIsLast /\ OpenInSession
  BY DEF Blank, TornIsLast, OpenInSession
<1>4. NumbersAscend
  BY <1>1 DEF Blank, NumbersAscend, INVALID_TXN
<1>5. LogTellsTxns
  BY <1>1 DEF Blank, LogTellsTxns, NumbersIdentify, OpenTxnIsLast
<1> QED
  BY <1>2, <1>3, <1>4, <1>5 DEF LogInv

LEMMA ResetKeeps ==
    ASSUME LogInv, Reset
    PROVE  LogInv'
<1>1. Blank'
  BY DEF Reset, session, Blank, LogInv, OpenInSession, NumbersAscend, Session
<1>2. (Blank => LogInv)'
  BY BlankIsGood, PTL
<1> QED
  BY <1>1, <1>2

LEMMA InitLogInv == Init => LogInv
<1>1. Init => log = <<>> /\ current_txn = INVALID_TXN /\ next_txn = 1 /\ pc = "ready"
  BY Zenon DEF Init
<1>2. Init => Blank
  BY <1>1 DEF Blank
<1> QED
  BY <1>2, BlankIsGood

\* Recovery can tell from the log's numbers alone whose each record is, and the
\* transaction a session has open is the last one in it: NumbersIdentify and
\* OpenTxnIsLast, over any number of sessions, crashes and torn records, as long
\* as no crash tears the first record of a log (database.cpp startTxn, recover).
THEOREM LogTellsTxnsCorrect ==
    ASSUME Tears # "any"
    PROVE  Spec => []LogTellsTxns
<1>1. LogInv /\ [Next]_vars => LogInv'
  BY LogSteps, StartKeeps, RowKeeps, QuietKeeps, StopKeeps, RestartKeeps, ResetKeeps
<1>2. LogInv => LogTellsTxns
  BY DEF LogInv
<1> QED
  BY <1>1, <1>2, InitLogInv, PTL DEF Spec

-------------------------------------------------------------------------------
(* What the operations of the heap do to the rows of a key.                 *)

\* The rows of a key with their images.
RowsOf(heap, k) == {<<r, At(heap, r).image>> : r \in Copies(heap, k)}

\* Every row on a page, erased or not, fits a page.
RowsFit(heap) == \A p \in DOMAIN heap : \A s \in DOMAIN heap[p].slots :
                     ~TooLarge(heap[p].slots[s].image)

LEMMA LiveRow ==
    ASSUME NEW heap, NEW r
    PROVE  r \in LiveRows(heap) <=>
               \E p \in DOMAIN heap : \E s \in DOMAIN heap[p].slots :
                   r = <<p, s>> /\ heap[p].slots[s].live
BY DEF LiveRows

LEMMA PageType ==
    ASSUME NEW heap \in Seq(Page), NEW p \in DOMAIN heap
    PROVE  /\ heap[p] \in Page /\ heap[p].free \in 0 .. PageBytes
           /\ heap[p].slots \in Seq(Slot) /\ p \in 1 .. Len(heap) /\ p \in Nat \ {0}
           /\ \A s \in DOMAIN heap[p].slots :
                  /\ s \in Nat \ {0} /\ s \in 1 .. Len(heap[p].slots)
                  /\ heap[p].slots[s] \in Slot
                  /\ heap[p].slots[s].pk \in Key /\ heap[p].slots[s].image \in Image
                  /\ heap[p].slots[s].live \in BOOLEAN
<1>1. heap[p] \in Page /\ p \in 1 .. Len(heap) /\ p \in Nat \ {0}
  OBVIOUS
<1>2. heap[p].free \in 0 .. PageBytes /\ heap[p].slots \in Seq(Slot)
  BY <1>1 DEF Page
<1>3. ASSUME NEW s \in DOMAIN heap[p].slots
      PROVE  s \in Nat \ {0} /\ s \in 1 .. Len(heap[p].slots) /\ heap[p].slots[s] \in Slot
  BY <1>2
<1>4. \A x \in Slot : x.pk \in Key /\ x.image \in Image /\ x.live \in BOOLEAN
  BY DEF Slot
<1> QED
  BY <1>1, <1>2, <1>3, <1>4

\* A row is inserted behind the slots of a page that has the room for it.
LEMMA TupleInserted ==
    ASSUME NEW page \in Page, NEW pk \in Key, NEW image \in Image,
           Size[image] <= page.free
    PROVE  LET q == InsertTuple(page, pk, image)
               n == Len(page.slots) + 1
           IN  /\ q \in Page /\ n \in Nat \ {0}
               /\ DOMAIN q.slots = 1 .. n /\ DOMAIN page.slots = 1 .. Len(page.slots)
               /\ Len(page.slots) \in Nat
               /\ q.slots[n] = [pk |-> pk, image |-> image, live |-> TRUE]
               /\ \A s \in 1 .. Len(page.slots) : q.slots[s] = page.slots[s]
<1> DEFINE slot == [pk |-> pk, image |-> image, live |-> TRUE]
           q == InsertTuple(page, pk, image)
<1>1. page.free \in 0 .. PageBytes /\ page.slots \in Seq(Slot) /\ slot \in Slot
  BY DEF Page, Slot
<1>2. Size[image] \in Nat \ {0} /\ PageBytes \in Nat
  BY SizeAssumption
<1>3. page.free - Size[image] \in 0 .. PageBytes
  BY <1>1, <1>2
<1>4. q = [free |-> page.free - Size[image], slots |-> Append(page.slots, slot)]
  BY DEF InsertTuple
<1> HIDE DEF slot
<1>5. Append(page.slots, slot) \in Seq(Slot)
  BY <1>1
<1>6. q \in Page
  BY <1>3, <1>4, <1>5 DEF Page
<1>7. /\ DOMAIN q.slots = 1 .. (Len(page.slots) + 1) /\ DOMAIN page.slots = 1 .. Len(page.slots)
      /\ Len(page.slots) \in Nat
      /\ q.slots[Len(page.slots) + 1] = slot
      /\ \A s \in 1 .. Len(page.slots) : q.slots[s] = page.slots[s]
  BY <1>1, <1>4, <1>5
<1> QED
  BY <1>6, <1>7 DEF slot

LEMMA FirstFitIs ==
    ASSUME NEW heap \in Seq(Page), NEW image \in Image, ~Grows(heap, image)
    PROVE  FirstFit(heap, image) \in Fitting(heap, image)
<1>1. Fitting(heap, image) \in SUBSET Nat /\ Fitting(heap, image) # {}
  BY DEF Grows, Fitting
<1>2. \E p \in Fitting(heap, image) : \A q \in Fitting(heap, image) : p <= q
  BY <1>1, LeastElement
<1> QED
  BY <1>1, <1>2 DEF FirstFit

LEMMA InsertedIs ==
    ASSUME NEW heap \in Seq(Page), NEW pk \in Key, NEW image \in Image, ~TooLarge(image)
    PROVE  LET new == Inserted(heap, pk, image)
               r   == InsertedAt(heap, image)
           IN  /\ new \in Seq(Page)
               /\ Len(new) = IF Grows(heap, image) THEN Len(heap) + 1 ELSE Len(heap)
               /\ r \in Nat \X Nat /\ r \notin LiveRows(heap)
               /\ LiveRows(new) = LiveRows(heap) \cup {r}
               /\ \A q \in LiveRows(heap) : At(new, q) = At(heap, q)
               /\ At(new, r) = [pk |-> pk, image |-> image, live |-> TRUE]
               /\ RowsFit(heap) => RowsFit(new)
<1> DEFINE new  == Inserted(heap, pk, image)
           p    == FirstFit(heap, image)
           old  == IF Grows(heap, image) THEN EmptyPage ELSE heap[p]
           page == InsertTuple(old, pk, image)
           n    == Len(old.slots) + 1
           slot == [pk |-> pk, image |-> image, live |-> TRUE]
<1>1. /\ old \in Page /\ Size[image] <= old.free
      /\ p \in Nat \ {0} /\ p = IF Grows(heap, image) THEN Len(heap) + 1 ELSE p
      /\ ~Grows(heap, image) => p \in DOMAIN heap
  <2>1. CASE Grows(heap, image)
    <3>1. EmptyPage \in Page
      BY SizeAssumption DEF EmptyPage, Page
    <3>2. Size[image] <= EmptyPage.free
      BY SizeAssumption DEF EmptyPage, TooLarge
    <3>3. p = Len(heap) + 1
      BY <2>1 DEF FirstFit, Grows
    <3> QED
      BY <2>1, <3>1, <3>2, <3>3
  <2>2. CASE ~Grows(heap, image)
    <3>1. p \in DOMAIN heap /\ Size[image] <= heap[p].free
      BY <2>2, FirstFitIs DEF Fitting
    <3> QED
      BY <2>2, <3>1, PageType
  <2> QED
    BY <2>1, <2>2
<1>2. Grows(heap, image) => p = Len(heap) + 1
  BY <1>1
<1>3. new = IF Grows(heap, image) THEN Append(heap, page) ELSE [heap EXCEPT ![p] = page]
  BY DEF Inserted
<1>4. /\ page \in Page /\ n \in Nat \ {0} /\ Len(old.slots) \in Nat
      /\ DOMAIN page.slots = 1 .. n /\ DOMAIN old.slots = 1 .. Len(old.slots)
      /\ page.slots[n] = slot
      /\ \A s \in 1 .. Len(old.slots) : page.slots[s] = old.slots[s]
  <2> HIDE DEF old
  <2> QED
    BY <1>1, TupleInserted
<1>5. InsertedAt(heap, image) = <<p, n>>
  <2>1. EmptyPage.slots = <<>> /\ Len(<<>>) = 0
    BY DEF EmptyPage
  <2>2. CASE Grows(heap, image)
    BY <2>1, <2>2 DEF InsertedAt
  <2>3. CASE ~Grows(heap, image)
    BY <2>3 DEF InsertedAt
  <2> QED
    BY <2>2, <2>3
<1> HIDE DEF page, p, new
<1>6. /\ new \in Seq(Page) /\ Len(heap) \in Nat
      /\ Len(new) = IF Grows(heap, image) THEN Len(heap) + 1 ELSE Len(heap)
      /\ DOMAIN heap = 1 .. Len(heap) /\ DOMAIN new = 1 .. Len(new)
      /\ p \in DOMAIN new /\ new[p] = page
      /\ \A q \in DOMAIN heap : q \in DOMAIN new /\ (q # p => new[q] = heap[q])
      /\ \A q \in DOMAIN new : q # p => q \in DOMAIN heap
  <2>1. CASE Grows(heap, image)
    BY <1>1, <1>2, <1>3, <1>4, <2>1
  <2>2. CASE ~Grows(heap, image)
    BY <1>1, <1>3, <1>4, <2>2
  <2> QED
    BY <2>1, <2>2
\* The slots of the new heap are those of the old one and the new one.
<1>7. /\ \A q \in DOMAIN heap : \A s \in DOMAIN heap[q].slots :
             s \in DOMAIN new[q].slots /\ new[q].slots[s] = heap[q].slots[s] /\ <<q, s>> # <<p, n>>
      /\ \A q \in DOMAIN new : \A s \in DOMAIN new[q].slots : <<q, s>> # <<p, n>> =>
             q \in DOMAIN heap /\ s \in DOMAIN heap[q].slots
      /\ n \in DOMAIN new[p].slots /\ new[p].slots[n] = slot
  <2>1. ASSUME NEW q \in DOMAIN heap, NEW s \in DOMAIN heap[q].slots
        PROVE  s \in DOMAIN new[q].slots /\ new[q].slots[s] = heap[q].slots[s] /\ <<q, s>> # <<p, n>>
    <3>1. CASE q # p
      BY <1>6, <3>1
    <3>2. CASE q = p
      <4>1. ~Grows(heap, image) /\ old = heap[p]
        BY <1>2, <1>6, <3>2
      <4> HIDE DEF old
      <4>2. heap[q] = old /\ new[q] = page
        BY <1>6, <3>2, <4>1
      <4>3. s \in 1 .. Len(old.slots) /\ s # n
        BY <1>4, <4>2
      <4>4. s \in 1 .. n
        BY <1>4, <4>3
      <4> QED
        BY <1>4, <4>2, <4>3, <4>4
    <3> QED
      BY <3>1, <3>2
  <2>2. ASSUME NEW q \in DOMAIN new, NEW s \in DOMAIN new[q].slots, <<q, s>> # <<p, n>>
        PROVE  q \in DOMAIN heap /\ s \in DOMAIN heap[q].slots
    <3>1. CASE q # p
      BY <1>6, <3>1
    <3>2. CASE q = p
      <4>1. s \in 1 .. Len(old.slots)
        <5> HIDE DEF old
        <5> QED
          BY <1>4, <1>6, <2>2, <3>2
      <4>2. ~Grows(heap, image)
        <5>1. Len(EmptyPage.slots) = 0
          BY DEF EmptyPage
        <5> QED
          BY <4>1, <5>1
      <4>3. s \in DOMAIN old.slots /\ old = heap[p]
        <5>1. s \in DOMAIN old.slots
          <6> HIDE DEF old
          <6> QED
            BY <1>4, <4>1
        <5> QED
          BY <4>2, <5>1
      <4> QED
        BY <1>1, <3>2, <4>2, <4>3
    <3> QED
      BY <3>1, <3>2
  <2>3. n \in DOMAIN new[p].slots /\ new[p].slots[n] = slot
    <3> HIDE DEF old
    <3> QED
      BY <1>4, <1>6
  <2> QED
    BY <2>1, <2>2, <2>3
<1> HIDE DEF old, n
<1>8. <<p, n>> \in Nat \X Nat
  BY <1>1, <1>4
<1>9. <<p, n>> \notin LiveRows(heap)
  BY <1>7, LiveRow
<1>10. ASSUME NEW r PROVE r \in LiveRows(new) <=> r \in LiveRows(heap) \cup {<<p, n>>}
  <2>1. ASSUME r \in LiveRows(new) PROVE r \in LiveRows(heap) \cup {<<p, n>>}
    <3>1. PICK q \in DOMAIN new : \E s \in DOMAIN new[q].slots : r = <<q, s>> /\ new[q].slots[s].live
      BY <2>1, LiveRow
    <3>2. PICK s \in DOMAIN new[q].slots : r = <<q, s>> /\ new[q].slots[s].live
      BY <3>1
    <3>3. CASE r # <<p, n>>
      <4>1. q \in DOMAIN heap /\ s \in DOMAIN heap[q].slots
        BY <1>7, <3>2, <3>3
      <4>2. heap[q].slots[s].live
        BY <1>7, <3>2, <4>1
      <4> QED
        BY <3>2, <4>1, <4>2, LiveRow
    <3> QED
      BY <3>3
  <2>2. ASSUME r \in LiveRows(heap) PROVE r \in LiveRows(new)
    <3>1. PICK q \in DOMAIN heap : \E s \in DOMAIN heap[q].slots : r = <<q, s>> /\ heap[q].slots[s].live
      BY <2>2, LiveRow
    <3>2. PICK s \in DOMAIN heap[q].slots : r = <<q, s>> /\ heap[q].slots[s].live
      BY <3>1
    <3> QED
      BY <1>6, <1>7, <3>2, LiveRow
  <2>3. <<p, n>> \in LiveRows(new)
    <3>1. p \in DOMAIN new /\ n \in DOMAIN new[p].slots /\ new[p].slots[n].live
      BY <1>6, <1>7
    <3> QED
      BY <3>1, LiveRow
  <2> QED
    BY <2>1, <2>2, <2>3
<1>11. ASSUME NEW r \in LiveRows(heap) PROVE At(new, r) = At(heap, r)
  <2>1. PICK q \in DOMAIN heap : \E s \in DOMAIN heap[q].slots : r = <<q, s>>
    BY <1>11, LiveRow
  <2>2. PICK s \in DOMAIN heap[q].slots : r = <<q, s>>
    BY <2>1
  <2> QED
    BY <1>7, <2>2 DEF At
<1>12. At(new, <<p, n>>) = slot
  BY <1>7 DEF At
<1>13. RowsFit(heap) => RowsFit(new)
  <2> SUFFICES ASSUME RowsFit(heap), NEW q \in DOMAIN new, NEW s \in DOMAIN new[q].slots
               PROVE  ~TooLarge(new[q].slots[s].image)
    BY DEF RowsFit
  <2>1. CASE <<q, s>> = <<p, n>>
    BY <1>7, <2>1
  <2>2. CASE <<q, s>> # <<p, n>>
    <3>1. q \in DOMAIN heap /\ s \in DOMAIN heap[q].slots
      BY <1>7, <2>2
    <3>2. new[q].slots[s] = heap[q].slots[s]
      BY <1>7, <3>1
    <3> QED
      BY <3>1, <3>2 DEF RowsFit
  <2> QED
    BY <2>1, <2>2
<1> QED
  BY <1>5, <1>6, <1>8, <1>9, <1>10, <1>11, <1>12, <1>13 DEF new

LEMMA RowOf ==
    ASSUME NEW heap, NEW k, NEW a
    PROVE  a \in RowsOf(heap, k) <=>
               \E r \in LiveRows(heap) : At(heap, r).pk = k /\ a = <<r, At(heap, r).image>>
BY DEF RowsOf, Copies

LEMMA RowsInserted ==
    ASSUME NEW heap \in Seq(Page), NEW pk \in Key, NEW image \in Image, ~TooLarge(image)
    PROVE  LET new == Inserted(heap, pk, image)
               r   == InsertedAt(heap, image)
           IN  /\ RowsOf(new, pk) = RowsOf(heap, pk) \cup {<<r, image>>}
               /\ Copies(new, pk) = Copies(heap, pk) \cup {r}
               /\ \A k : k # pk => /\ RowsOf(new, k) = RowsOf(heap, k)
                                   /\ Copies(new, k) = Copies(heap, k)
<1> DEFINE new == Inserted(heap, pk, image)
           r   == InsertedAt(heap, image)
<1>1. /\ r \notin LiveRows(heap) /\ LiveRows(new) = LiveRows(heap) \cup {r}
      /\ \A q \in LiveRows(heap) : At(new, q) = At(heap, q)
      /\ At(new, r) = [pk |-> pk, image |-> image, live |-> TRUE]
  BY InsertedIs
<1> HIDE DEF new, r
<1>2. At(new, r).pk = pk /\ At(new, r).image = image
  BY <1>1
<1>3. /\ Copies(new, pk) = Copies(heap, pk) \cup {r}
      /\ \A k : k # pk => Copies(new, k) = Copies(heap, k)
  BY <1>1, <1>2 DEF Copies
<1>4. ASSUME NEW k, NEW a
      PROVE  a \in RowsOf(new, k) <=>
                 a \in RowsOf(heap, k) \cup (IF k = pk THEN {<<r, image>>} ELSE {})
  <2>1. a \in RowsOf(new, k) <=>
            \E q \in LiveRows(new) : At(new, q).pk = k /\ a = <<q, At(new, q).image>>
    BY RowOf
  <2>2. a \in RowsOf(heap, k) <=>
            \E q \in LiveRows(heap) : At(heap, q).pk = k /\ a = <<q, At(heap, q).image>>
    BY RowOf
  <2> QED
    BY <1>1, <1>2, <2>1, <2>2
<1>5. RowsOf(new, pk) = RowsOf(heap, pk) \cup {<<r, image>>}
  BY <1>4
<1>6. ASSUME NEW k, k # pk PROVE RowsOf(new, k) = RowsOf(heap, k)
  <2>1. \A a : a \in RowsOf(new, k) <=> a \in RowsOf(heap, k)
    BY <1>4, <1>6
  <2> QED
    BY <2>1 DEF RowsOf
<1> QED
  BY <1>3, <1>5, <1>6 DEF new, r

LEMMA ErasedIs ==
    ASSUME NEW heap \in Seq(Page), NEW r \in LiveRows(heap)
    PROVE  LET new == Erased(heap, r)
           IN  /\ new \in Seq(Page) /\ Len(new) = Len(heap)
               /\ LiveRows(new) = LiveRows(heap) \ {r}
               /\ \A q \in LiveRows(heap) \ {r} : At(new, q) = At(heap, q)
               /\ RowsFit(heap) => RowsFit(new)
<1> DEFINE new == Erased(heap, r)
<1>1. PICK p \in DOMAIN heap : \E s \in DOMAIN heap[p].slots : r = <<p, s>> /\ heap[p].slots[s].live
  BY LiveRow
<1>2. PICK s \in DOMAIN heap[p].slots : r = <<p, s>> /\ heap[p].slots[s].live
  BY <1>1
<1> DEFINE slot  == [heap[p].slots[s] EXCEPT !.live = FALSE]
           slots == [heap[p].slots EXCEPT ![s] = slot]
           page  == [heap[p] EXCEPT !.slots = slots]
<1>3. new = [heap EXCEPT ![p] = page]
  BY <1>2 DEF Erased
<1>4. /\ slot \in Slot /\ ~slot.live
      /\ slot.pk = heap[p].slots[s].pk /\ slot.image = heap[p].slots[s].image
  BY PageType, ZenonT(40) DEF Slot
<1> HIDE DEF slot
<1>5. /\ slots \in Seq(Slot) /\ DOMAIN slots = DOMAIN heap[p].slots /\ slots[s] = slot
      /\ \A t \in DOMAIN slots : t # s => slots[t] = heap[p].slots[t]
  <2>1. heap[p].slots \in Seq(Slot)
    BY PageType
  <2> QED
    BY <1>4, <2>1
<1> HIDE DEF slots
<1>6. page \in Page /\ page.slots = slots
  <2>1. heap[p] \in Page
    BY PageType
  <2> QED
    BY <1>5, <2>1 DEF Page
<1> HIDE DEF page, new
<1>7. /\ new \in Seq(Page) /\ Len(new) = Len(heap) /\ DOMAIN new = DOMAIN heap
      /\ new[p] = page /\ \A q \in DOMAIN heap : q # p => new[q] = heap[q]
  BY <1>3, <1>6
<1>8. ASSUME NEW q \in DOMAIN heap
      PROVE  /\ DOMAIN new[q].slots = DOMAIN heap[q].slots
             /\ \A t \in DOMAIN heap[q].slots :
                    /\ <<q, t>> # r => new[q].slots[t] = heap[q].slots[t]
                    /\ <<q, t>> = r => ~new[q].slots[t].live
                    /\ new[q].slots[t].image = heap[q].slots[t].image
  <2>1. CASE q # p
    BY <1>2, <1>7, <2>1
  <2>2. CASE q = p
    <3>1. new[q].slots = slots
      BY <1>6, <1>7, <2>2
    <3> QED
      BY <1>2, <1>4, <1>5, <2>2, <3>1
  <2> QED
    BY <2>1, <2>2
<1>9. ASSUME NEW q PROVE q \in LiveRows(new) <=> q \in LiveRows(heap) \ {r}
  <2>1. q \in LiveRows(new) <=>
            \E x \in DOMAIN new : \E t \in DOMAIN new[x].slots : q = <<x, t>> /\ new[x].slots[t].live
    BY LiveRow
  <2>2. q \in LiveRows(heap) <=>
            \E x \in DOMAIN heap : \E t \in DOMAIN heap[x].slots : q = <<x, t>> /\ heap[x].slots[t].live
    BY LiveRow
  <2>3. ASSUME q \in LiveRows(new) PROVE q \in LiveRows(heap) \ {r}
    <3>1. PICK x \in DOMAIN heap : \E t \in DOMAIN new[x].slots : q = <<x, t>> /\ new[x].slots[t].live
      BY <1>7, <2>1, <2>3
    <3>2. PICK t \in DOMAIN new[x].slots : q = <<x, t>> /\ new[x].slots[t].live
      BY <3>1
    <3>3. t \in DOMAIN heap[x].slots /\ q # r
      BY <1>8, <3>2
    <3>4. heap[x].slots[t].live
      BY <1>8, <3>2, <3>3
    <3> QED
      BY <2>2, <3>2, <3>3, <3>4
  <2>4. ASSUME q \in LiveRows(heap) \ {r} PROVE q \in LiveRows(new)
    <3>1. PICK x \in DOMAIN heap : \E t \in DOMAIN heap[x].slots : q = <<x, t>> /\ heap[x].slots[t].live
      BY <2>2, <2>4
    <3>2. PICK t \in DOMAIN heap[x].slots : q = <<x, t>> /\ heap[x].slots[t].live
      BY <3>1
    <3>3. x \in DOMAIN new /\ t \in DOMAIN new[x].slots /\ new[x].slots[t].live
      BY <1>7, <1>8, <2>4, <3>2
    <3> QED
      BY <2>1, <3>2, <3>3
  <2> QED
    BY <2>3, <2>4
<1>10. ASSUME NEW q \in LiveRows(heap) \ {r} PROVE At(new, q) = At(heap, q)
  <2>1. PICK x \in DOMAIN heap : \E t \in DOMAIN heap[x].slots : q = <<x, t>>
    BY LiveRow
  <2>2. PICK t \in DOMAIN heap[x].slots : q = <<x, t>>
    BY <2>1
  <2> QED
    BY <1>8, <2>2 DEF At
<1>11. RowsFit(heap) => RowsFit(new)
  BY <1>7, <1>8 DEF RowsFit
<1> QED
  BY <1>7, <1>9, <1>10, <1>11 DEF new

LEMMA RowsErased ==
    ASSUME NEW heap \in Seq(Page), NEW pk, NEW r \in Copies(heap, pk)
    PROVE  LET new == Erased(heap, r)
           IN  /\ RowsOf(new, pk) = {a \in RowsOf(heap, pk) : a[1] # r}
               /\ Copies(new, pk) = Copies(heap, pk) \ {r}
               /\ \A k : k # pk => /\ RowsOf(new, k) = RowsOf(heap, k)
                                   /\ Copies(new, k) = Copies(heap, k)
<1> DEFINE new == Erased(heap, r)
<1>1. r \in LiveRows(heap) /\ At(heap, r).pk = pk
  BY DEF Copies
<1>2. /\ LiveRows(new) = LiveRows(heap) \ {r}
      /\ \A q \in LiveRows(heap) \ {r} : At(new, q) = At(heap, q)
  BY <1>1, ErasedIs
<1> HIDE DEF new
<1>3. /\ Copies(new, pk) = Copies(heap, pk) \ {r}
      /\ \A k : k # pk => Copies(new, k) = Copies(heap, k)
  BY <1>1, <1>2 DEF Copies
<1>4. ASSUME NEW k, NEW a
      PROVE  a \in RowsOf(new, k) <=> a \in RowsOf(heap, k) /\ (k = pk => a[1] # r)
  <2>1. a \in RowsOf(new, k) <=>
            \E q \in LiveRows(new) : At(new, q).pk = k /\ a = <<q, At(new, q).image>>
    BY RowOf
  <2>2. a \in RowsOf(heap, k) <=>
            \E q \in LiveRows(heap) : At(heap, q).pk = k /\ a = <<q, At(heap, q).image>>
    BY RowOf
  <2> QED
    BY <1>1, <1>2, <2>1, <2>2
<1>5. RowsOf(new, pk) = {a \in RowsOf(heap, pk) : a[1] # r}
  BY <1>4
<1>6. ASSUME NEW k, k # pk PROVE RowsOf(new, k) = RowsOf(heap, k)
  <2>1. \A a : a \in RowsOf(new, k) <=> a \in RowsOf(heap, k)
    BY <1>4, <1>6
  <2> QED
    BY <2>1 DEF RowsOf
<1> QED
  BY <1>3, <1>5, <1>6 DEF new

LEMMA RowsGrown ==
    ASSUME NEW heap \in Seq(Page)
    PROVE  LET new == Append(heap, EmptyPage)
           IN  /\ new \in Seq(Page) /\ Len(new) = Len(heap) + 1
               /\ \A k : RowsOf(new, k) = RowsOf(heap, k)
               /\ RowsFit(heap) => RowsFit(new)
<1> DEFINE new == Append(heap, EmptyPage)
<1>1. EmptyPage \in Page /\ DOMAIN EmptyPage.slots = {}
  BY SizeAssumption DEF EmptyPage, Page
<1>2. /\ new \in Seq(Page) /\ Len(new) = Len(heap) + 1
      /\ \A p \in DOMAIN heap : p \in DOMAIN new /\ new[p] = heap[p]
      /\ \A p \in DOMAIN new : p \in DOMAIN heap \/ new[p] = EmptyPage
  BY <1>1
<1> HIDE DEF new
<1>3. ASSUME NEW r
      PROVE  /\ r \in LiveRows(new) <=> r \in LiveRows(heap)
             /\ r \in LiveRows(heap) => At(new, r) = At(heap, r)
  <2>1. r \in LiveRows(new) <=>
            \E x \in DOMAIN new : \E t \in DOMAIN new[x].slots : r = <<x, t>> /\ new[x].slots[t].live
    BY LiveRow
  <2>2. r \in LiveRows(heap) <=>
            \E x \in DOMAIN heap : \E t \in DOMAIN heap[x].slots : r = <<x, t>> /\ heap[x].slots[t].live
    BY LiveRow
  <2>3. r \in LiveRows(heap) => At(new, r) = At(heap, r)
    BY <1>2, <2>2 DEF At
  <2> QED
    BY <1>1, <1>2, <2>1, <2>2, <2>3
<1>4. ASSUME NEW k, NEW a PROVE a \in RowsOf(new, k) <=> a \in RowsOf(heap, k)
  <2>1. a \in RowsOf(new, k) <=>
            \E q \in LiveRows(new) : At(new, q).pk = k /\ a = <<q, At(new, q).image>>
    BY RowOf
  <2>2. a \in RowsOf(heap, k) <=>
            \E q \in LiveRows(heap) : At(heap, q).pk = k /\ a = <<q, At(heap, q).image>>
    BY RowOf
  <2> QED
    BY <1>3, <2>1, <2>2
<1>5. RowsFit(heap) => RowsFit(new)
  BY <1>1, <1>2 DEF RowsFit
<1>6. ASSUME NEW k PROVE RowsOf(new, k) = RowsOf(heap, k)
  <2>1. \A a : a \in RowsOf(new, k) <=> a \in RowsOf(heap, k)
    BY <1>4
  <2> QED
    BY <2>1 DEF RowsOf
<1> QED
  BY <1>2, <1>5, <1>6 DEF new

\* A page that is written back brings its rows as they are in memory.
LEMMA RowsWritten ==
    ASSUME NEW heap \in Seq(Page), NEW from \in Seq(Page), Len(from) = Len(heap),
           NEW p \in DOMAIN heap
    PROVE  LET new == [heap EXCEPT ![p] = from[p]]
           IN  /\ new \in Seq(Page) /\ Len(new) = Len(heap)
               /\ \A k : RowsOf(new, k) = {a \in RowsOf(heap, k) : a[1][1] # p}
                                          \cup {a \in RowsOf(from, k) : a[1][1] = p}
               /\ RowsFit(heap) /\ RowsFit(from) => RowsFit(new)
<1> DEFINE new == [heap EXCEPT ![p] = from[p]]
<1>1. p \in DOMAIN from /\ from[p] \in Page /\ DOMAIN from = DOMAIN heap
  OBVIOUS
<1>2. /\ new \in Seq(Page) /\ Len(new) = Len(heap) /\ DOMAIN new = DOMAIN heap
      /\ new[p] = from[p] /\ \A q \in DOMAIN heap : q # p => new[q] = heap[q]
  BY <1>1
<1> HIDE DEF new
<1>3. ASSUME NEW r
      PROVE  /\ r \in LiveRows(new) <=> \/ r \in LiveRows(heap) /\ r[1] # p
                                        \/ r \in LiveRows(from) /\ r[1] = p
             /\ r \in LiveRows(heap) /\ r[1] # p => At(new, r) = At(heap, r)
             /\ r \in LiveRows(from) /\ r[1] = p => At(new, r) = At(from, r)
  <2>1. r \in LiveRows(new) <=>
            \E x \in DOMAIN new : \E t \in DOMAIN new[x].slots : r = <<x, t>> /\ new[x].slots[t].live
    BY LiveRow
  <2>2. r \in LiveRows(heap) <=>
            \E x \in DOMAIN heap : \E t \in DOMAIN heap[x].slots : r = <<x, t>> /\ heap[x].slots[t].live
    BY LiveRow
  <2>3. r \in LiveRows(from) <=>
            \E x \in DOMAIN from : \E t \in DOMAIN from[x].slots : r = <<x, t>> /\ from[x].slots[t].live
    BY LiveRow
  <2>4. r \in LiveRows(heap) /\ r[1] # p => At(new, r) = At(heap, r)
    BY <1>2, <2>2 DEF At
  <2>5. r \in LiveRows(from) /\ r[1] = p => At(new, r) = At(from, r)
    BY <1>2, <2>3 DEF At
  <2>6. r \in LiveRows(new) => \/ r \in LiveRows(heap) /\ r[1] # p
                               \/ r \in LiveRows(from) /\ r[1] = p
    <3> SUFFICES ASSUME r \in LiveRows(new)
                 PROVE  \/ r \in LiveRows(heap) /\ r[1] # p
                        \/ r \in LiveRows(from) /\ r[1] = p
      OBVIOUS
    <3>1. PICK x \in DOMAIN new : \E t \in DOMAIN new[x].slots : r = <<x, t>> /\ new[x].slots[t].live
      BY <2>1
    <3>2. r[1] = x
      BY <3>1
    <3> QED
      BY <1>1, <1>2, <2>2, <2>3, <3>1, <3>2
  <2>7. r \in LiveRows(heap) /\ r[1] # p => r \in LiveRows(new)
    BY <1>2, <2>1, <2>2
  <2>8. r \in LiveRows(from) /\ r[1] = p => r \in LiveRows(new)
    BY <1>1, <1>2, <2>1, <2>3
  <2> QED
    BY <2>4, <2>5, <2>6, <2>7, <2>8
<1>4. ASSUME NEW k, NEW a
      PROVE  a \in RowsOf(new, k) <=> \/ a \in RowsOf(heap, k) /\ a[1][1] # p
                                      \/ a \in RowsOf(from, k) /\ a[1][1] = p
  <2>1. a \in RowsOf(new, k) <=>
            \E q \in LiveRows(new) : At(new, q).pk = k /\ a = <<q, At(new, q).image>>
    BY RowOf
  <2>2. a \in RowsOf(heap, k) <=>
            \E q \in LiveRows(heap) : At(heap, q).pk = k /\ a = <<q, At(heap, q).image>>
    BY RowOf
  <2>3. a \in RowsOf(from, k) <=>
            \E q \in LiveRows(from) : At(from, q).pk = k /\ a = <<q, At(from, q).image>>
    BY RowOf
  <2> QED
    BY <1>3, <2>1, <2>2, <2>3
<1>5. RowsFit(heap) /\ RowsFit(from) => RowsFit(new)
  BY <1>1, <1>2 DEF RowsFit
<1> QED
  BY <1>2, <1>4, <1>5 DEF new

-------------------------------------------------------------------------------
(* The rows of clients that take the precautions.                           *)

\* The rows of a key with their images, in memory or on disk.
InMem(k)  == RowsOf(mem, k)
OnDisk(k) == RowsOf(disk, k)

\* The content of a key, as a set of rows shows it.
Shows(rows, content) == \/ content = Absent /\ rows = {}
                        \/ content \in Image /\ rows # {} /\ \A a \in rows : a[2] = content

\* The records of a key in the log.
InsertsOf(k) == {i \in DOMAIN Readable : Readable[i].type = "INSERT" /\ Readable[i].pk = k}
DeletesOf(k) == {i \in DOMAIN Readable : Readable[i].type = "DELETE" /\ Readable[i].pk = k}
RecordsOf(k) == InsertsOf(k) \cup DeletesOf(k)

\* A row that fits no page is logged, but never stored.
Fits(i)     == ~TooLarge(Readable[i].image)
Winner(i)   == Readable[i].txid \in CommittedTxns
Own(i)      == Readable[i].txid = current_txn
AbortedTxns == {r.txid : r \in {q \in Range(Readable) : q.type = "ABORT"}}
Aborted(i)  == Readable[i].txid \in AbortedTxns

-------------------------------------------------------------------------------

\* A key has one row at most, the same on disk and in memory if it is on both.
OneRow ==
    /\ Len(disk) = Len(mem)
    /\ \A k \in Key : \A a, b \in InMem(k) \cup OnDisk(k) : a = b

HeapTypes ==
    /\ disk \in Seq(Page) /\ mem \in Seq(Page)
    /\ RowsFit(disk) /\ RowsFit(mem)
    /\ index \in [Key -> (Nat \X Nat) \cup {NoRow}]

HeapInv == HeapTypes /\ OneRow /\ IndexAgrees

\* What the log says of one key: an INSERT that was stored, then a DELETE, of
\* the same image, and after what a loser did only what it did itself.
Ordered(k) ==
    /\ \A i \in DeletesOf(k) : Fits(i)
    /\ \A i \in DeletesOf(k) : \A j \in RecordsOf(k) : j <= i
    /\ \A i, j \in RecordsOf(k) :
           /\ Fits(i) /\ Fits(j) => Readable[i].image = Readable[j].image
           /\ i < j /\ ~Winner(i) => Readable[j].txid = Readable[i].txid
    /\ \A i, j \in InsertsOf(k) : i < j => ~Fits(i)

LogOrder == \A k \in Key : Ordered(k)

\* Which records tell what is committed of a key.
Tells(k) ==
    /\ \A i \in DeletesOf(k) : Winner(i) => committed[k] = Absent
    /\ \A i \in InsertsOf(k) :
           /\ ~Winner(i) => committed[k] = Absent
           /\ Winner(i) /\ Fits(i) =>
                  \/ committed[k] = Readable[i].image
                  \/ \E j \in DeletesOf(k) : Winner(j)
    /\ \A i \in DeletesOf(k) : ~Winner(i) =>
           \/ committed[k] = Readable[i].image
           \/ \E j \in InsertsOf(k) : ~Winner(j)
    /\ InsertsOf(k) # {} /\ (\A i \in RecordsOf(k) : ~Fits(i)) => committed[k] = Absent

LogTellsCommitted == \A k \in Key : Tells(k)

\* Rows come from the log, or are committed, on disk and as they were when it
\* was emptied.
Logged(k) ==
    /\ \A i \in RecordsOf(k) : Fits(i) =>
           \A a \in InMem(k) \cup OnDisk(k) : a[2] = Readable[i].image
    /\ (\A i \in RecordsOf(k) : ~Fits(i)) =>
           /\ Shows(OnDisk(k), committed[k])
           /\ pc # "refused" => InMem(k) = OnDisk(k)

RowsAreLogged == \A k \in Key : Logged(k)

\* Why a row is on disk and not in memory.
WhyGone(k) ==
    \/ /\ pc \in Session
       /\ \/ DeletesOf(k) # {}
          \/ \E i \in InsertsOf(k) : Aborted(i)
          \/ pc = "rollback" /\ \E i \in InsertsOf(k) : Own(i)
    \/ pc = "redo" /\ \E i \in DeletesOf(k) : Winner(i) /\ i < pos
    \/ /\ pc = "undo"
       /\ \/ \E i \in DeletesOf(k) : Winner(i)
          \/ \E i \in InsertsOf(k) : ~Winner(i) /\ i > pos
    \/ pc = "refused"

GoneFromMem == \A k \in Key : OnDisk(k) # {} /\ InMem(k) = {} => WhyGone(k)

\* In a session, records and memory agree, but for the row that is being applied
\* and for those a rollback has come to.
BeingApplied(k) == pc = "apply" /\ op.pk = k

Follows(k) ==
    /\ DeletesOf(k) # {} => InMem(k) = {} \/ BeingApplied(k)
    /\ \A i \in DeletesOf(k) : ~Aborted(i)
    /\ \A i \in InsertsOf(k) :
           /\ Aborted(i) => InMem(k) = {}
           /\ Fits(i) /\ ~Aborted(i) =>
                  \/ InMem(k) # {}
                  \/ DeletesOf(k) # {}
                  \/ BeingApplied(k)
                  \/ pc = "rollback" /\ Own(i)

TxnsEnd == /\ \A i \in DOMAIN Readable : Own(i) \/ Winner(i) \/ Aborted(i)
           /\ CommittedTxns \cap AbortedTxns = {}

MemFollowsLog == pc \in Session => TxnsEnd /\ \A k \in Key : Follows(k)

\* The undo list accounts for all that differs from the committed content, and
\* for all that the open transaction has logged.
Undoable(k) ==
    \A i \in DOMAIN undo : undo[i].pk = k =>
        /\ undo[i].was_insert =>
               committed[k] = Absent /\ \E j \in InsertsOf(k) : Own(j) /\ Fits(j)
        /\ ~undo[i].was_insert => \E j \in DeletesOf(k) : Own(j)

Remembered(k) ==
    /\ Shows(InMem(k), committed[k]) \/ \E i \in DOMAIN undo : undo[i].pk = k
    /\ \A j \in DeletesOf(k) : Own(j) =>
           \/ pc = "apply" /\ op.kind = "DELETE" /\ op.pk = k
           \/ pc # "rollback" /\ \E i \in DOMAIN undo : ~undo[i].was_insert

UndoTells ==
    /\ current_txn = INVALID_TXN => undo = <<>>
    /\ pc \notin Session => current_txn = INVALID_TXN
    /\ pc = "rollback" => \A i \in DOMAIN undo : undo[i].was_insert
    /\ \A k \in Key : Undoable(k)
    /\ pc \in Session => \A k \in Key : Remembered(k)

\* The row operation under way.
OpReady ==
    /\ pc \in {"log", "apply"} => op \in RowOp
    /\ pc \in {"log", "apply"} /\ op.kind = "INSERT" => InMem(op.pk) = {}
    /\ pc \in {"log", "apply"} /\ op.kind = "DELETE" => Shows(InMem(op.pk), op.image)
    /\ pc = "log" /\ op.kind = "INSERT" =>
           DeletesOf(op.pk) = {} /\ \A i \in InsertsOf(op.pk) : ~Aborted(i)
    /\ pc = "apply" =>
           /\ Readable # <<>>
           /\ Readable[Len(Readable)] = [type |-> op.kind, txid |-> current_txn,
                                         pk |-> op.pk, image |-> op.image]

\* How far recovery has come.
Redone(k) ==
    /\ \A i \in DeletesOf(k) : Winner(i) /\ i < pos => InMem(k) = {}
    /\ \A i \in InsertsOf(k) : Winner(i) /\ i < pos /\ Fits(i) =>
           InMem(k) # {} \/ \E j \in DeletesOf(k) : Winner(j) /\ j < pos

Undone(k) ==
    /\ \A i \in DeletesOf(k) : Winner(i) => InMem(k) = {}
    /\ \A i \in InsertsOf(k) : Winner(i) /\ Fits(i) =>
           InMem(k) # {} \/ \E j \in DeletesOf(k) : Winner(j)
    /\ \A i \in InsertsOf(k) : ~Winner(i) /\ i > pos => InMem(k) = {}
    /\ \A i \in DeletesOf(k) : ~Winner(i) /\ i > pos =>
           InMem(k) # {} \/ \E j \in InsertsOf(k) : ~Winner(j) /\ j > pos

Restored(k) == InMem(k) = OnDisk(k) /\ Shows(InMem(k), committed[k])

Recovered ==
    /\ pc = "redo" => \A k \in Key : Redone(k)
    /\ pc = "undo" => \A k \in Key : Undone(k)
    /\ pc = "flushed" => pos = 0 /\ \A k \in Key : Restored(k)
    /\ pc = "down" => mem = disk

\* What a DELETE statement has still to delete is there; the ends of recovery's
\* two loops.
KeysShown ==
    /\ \A k \in keys : InMem(k) # {}
    /\ keys # {} => pc \in {"rows", "log", "apply", "commit"}
    /\ pc \in {"log", "apply", "commit"} /\ keys # {} => op.kind = "DELETE"
    /\ pc \in {"log", "apply"} => op.pk \notin keys
    /\ pc = "redo" => pos >= 1
    /\ pc = "undo" => pos <= Len(Readable)

RowsInv ==
    /\ HeapInv
    /\ LogOrder
    /\ LogTellsCommitted
    /\ RowsAreLogged
    /\ GoneFromMem
    /\ MemFollowsLog
    /\ UndoTells
    /\ OpReady
    /\ KeysShown
    /\ Recovered

StoreInv == LogInv /\ TypeOK /\ RowsInv

-------------------------------------------------------------------------------
(* The log.                                                                 *)

LEMMA SameRecords ==
    ASSUME Readable' = Readable
    PROVE  /\ CommittedTxns' = CommittedTxns /\ AbortedTxns' = AbortedTxns
           /\ \A k : /\ InsertsOf(k)' = InsertsOf(k) /\ DeletesOf(k)' = DeletesOf(k)
                     /\ RecordsOf(k)' = RecordsOf(k)
           /\ \A i : Fits(i)' <=> Fits(i)
           /\ \A i : Winner(i)' <=> Winner(i)
           /\ \A i : Aborted(i)' <=> Aborted(i)
           /\ UNCHANGED current_txn => \A i : Own(i)' <=> Own(i)
BY DEF CommittedTxns, AbortedTxns, InsertsOf, DeletesOf, RecordsOf, Fits, Winner, Aborted, Own

LEMMA SameOrder ==
    ASSUME Readable' = Readable, LogOrder
    PROVE  LogOrder'
BY SameRecords DEF LogOrder, Ordered

LEMMA SameCommitted ==
    ASSUME Readable' = Readable, UNCHANGED committed, LogTellsCommitted
    PROVE  LogTellsCommitted'
BY SameRecords DEF LogTellsCommitted, Tells

-------------------------------------------------------------------------------
(* What the steps of the program do to the rows.                            *)

LEMMA RowsAndCopies ==
    ASSUME NEW heap, NEW k
    PROVE  /\ RowsOf(heap, k) = {} <=> Copies(heap, k) = {}
           /\ \A r : Copies(heap, k) = {r} => RowsOf(heap, k) = {<<r, At(heap, r).image>>}
BY DEF RowsOf

\* A row has a page's type.
LEMMA RowType ==
    ASSUME NEW heap \in Seq(Page), NEW k, NEW r \in Copies(heap, k)
    PROVE  /\ r \in Nat \X Nat /\ r[1] \in DOMAIN heap
           /\ k \in Key /\ At(heap, r).image \in Image /\ At(heap, r).pk = k
           /\ RowsFit(heap) => ~TooLarge(At(heap, r).image)
<1>1. r \in LiveRows(heap) /\ At(heap, r).pk = k
  BY DEF Copies
<1>2. PICK p \in DOMAIN heap : \E s \in DOMAIN heap[p].slots : r = <<p, s>>
  BY <1>1, LiveRow
<1>3. PICK s \in DOMAIN heap[p].slots : r = <<p, s>>
  BY <1>2
<1>4. /\ p \in Nat /\ s \in Nat
      /\ heap[p].slots[s].pk \in Key /\ heap[p].slots[s].image \in Image
  BY PageType
<1>5. At(heap, r) = heap[p].slots[s]
  BY <1>3 DEF At
<1> QED
  BY <1>1, <1>3, <1>4, <1>5 DEF RowsFit

LEMMA RowsType ==
    ASSUME NEW heap \in Seq(Page), NEW k
    PROVE  \A a \in RowsOf(heap, k) : /\ a[2] \in Image /\ a[1][1] \in DOMAIN heap
                                      /\ a[1] \in Copies(heap, k) /\ a[2] = At(heap, a[1]).image
                                      /\ RowsFit(heap) => ~TooLarge(a[2])
<1> SUFFICES ASSUME NEW a \in RowsOf(heap, k)
             PROVE  /\ a[2] \in Image /\ a[1][1] \in DOMAIN heap
                    /\ a[1] \in Copies(heap, k) /\ a[2] = At(heap, a[1]).image
                    /\ RowsFit(heap) => ~TooLarge(a[2])
  OBVIOUS
<1>1. PICK r \in Copies(heap, k) : a = <<r, At(heap, r).image>>
  BY DEF RowsOf
<1> QED
  BY <1>1, RowType

\* The index tells whether a key has a row, and where.
LEMMA IndexTells ==
    ASSUME HeapInv, Running, NEW k \in Key
    PROVE  /\ index[k] = NoRow <=> InMem(k) = {}
           /\ index[k] # NoRow =>
                  /\ Copies(mem, k) = {index[k]}
                  /\ InMem(k) = {<<index[k], At(mem, index[k]).image>>}
                  /\ At(mem, index[k]).image \in Image
<1>1. Copies(mem, k) = {index[k]} \ {NoRow}
  BY DEF HeapInv, IndexAgrees
<1>2. mem \in Seq(Page)
  BY DEF HeapInv, HeapTypes
<1>3. CASE index[k] = NoRow
  <2>1. Copies(mem, k) = {}
    BY <1>1, <1>3
  <2> QED
    BY <1>3, <2>1, RowsAndCopies DEF InMem
<1>4. CASE index[k] # NoRow
  <2>1. Copies(mem, k) = {index[k]}
    BY <1>1, <1>4
  <2>2. At(mem, index[k]).image \in Image
    BY <1>2, <2>1, RowType
  <2> QED
    BY <1>4, <2>1, <2>2, RowsAndCopies DEF InMem
<1> QED
  BY <1>3, <1>4

LEMMA PutKeeps ==
    ASSUME HeapInv, Running, NEW k \in Key, NEW image \in Image, ~TooLarge(image),
           InMem(k) = {}, OnDisk(k) = {}, PhysInsert(k, image)
    PROVE  /\ HeapInv'
           /\ \E r : InMem(k)' = {<<r, image>>}
           /\ OnDisk(k)' = {}
           /\ \A j \in Key : j # k => InMem(j)' = InMem(j) /\ OnDisk(j)' = OnDisk(j)
<1> DEFINE r == InsertedAt(mem, image)
<1>1. /\ disk \in Seq(Page) /\ mem \in Seq(Page) /\ RowsFit(disk) /\ RowsFit(mem)
      /\ index \in [Key -> (Nat \X Nat) \cup {NoRow}]
      /\ Len(disk) = Len(mem)
      /\ \A j \in Key : \A a, b \in InMem(j) \cup OnDisk(j) : a = b
      /\ \A j \in Key : Copies(mem, j) = {index[j]} \ {NoRow}
  BY DEF HeapInv, HeapTypes, OneRow, IndexAgrees
<1>2. mem' = Inserted(mem, k, image) /\ index' = [index EXCEPT ![k] = r]
  BY DEF PhysInsert
<1>3. /\ mem' \in Seq(Page) /\ RowsFit(mem')
      /\ Len(mem') = IF Grows(mem, image) THEN Len(mem) + 1 ELSE Len(mem)
      /\ r \in Nat \X Nat
  BY <1>1, <1>2, InsertedIs
<1>4. /\ InMem(k)' = InMem(k) \cup {<<r, image>>}
      /\ Copies(mem', k) = Copies(mem, k) \cup {r}
      /\ \A j : j # k => InMem(j)' = InMem(j) /\ Copies(mem', j) = Copies(mem, j)
  BY <1>1, <1>2, RowsInserted DEF InMem
<1>5. /\ disk' \in Seq(Page) /\ RowsFit(disk')
      /\ Len(disk') = IF Grows(mem, image) THEN Len(disk) + 1 ELSE Len(disk)
      /\ \A j : OnDisk(j)' = OnDisk(j)
  <2>1. CASE Grows(mem, image)
    <3>1. disk' = Append(disk, EmptyPage)
      BY <2>1 DEF PhysInsert
    <3> QED
      BY <1>1, <2>1, <3>1, RowsGrown DEF OnDisk
  <2>2. CASE ~Grows(mem, image)
    <3>1. disk' = disk
      BY <2>2 DEF PhysInsert
    <3> QED
      BY <1>1, <2>2, <3>1 DEF OnDisk
  <2> QED
    BY <2>1, <2>2
<1> HIDE DEF r
<1>6. Copies(mem, k) = {}
  BY RowsAndCopies DEF InMem
<1>7. InMem(k)' = {<<r, image>>} /\ Copies(mem', k) = {r}
  BY <1>4, <1>6
<1>8. HeapTypes'
  BY <1>1, <1>2, <1>3, <1>5 DEF HeapTypes
<1>9. OneRow'
  <2>1. Len(disk') = Len(mem')
    BY <1>1, <1>3, <1>5
  <2>2. ASSUME NEW j \in Key, NEW a \in InMem(j)' \cup OnDisk(j)', NEW b \in InMem(j)' \cup OnDisk(j)'
        PROVE  a = b
    <3>1. CASE j = k
      <4>1. OnDisk(k)' = {}
        BY <1>5
      <4> QED
        BY <1>7, <2>2, <3>1, <4>1
    <3>2. CASE j # k
      <4>1. InMem(j)' = InMem(j) /\ OnDisk(j)' = OnDisk(j)
        BY <1>4, <1>5, <3>2
      <4> QED
        BY <1>1, <2>2, <4>1
    <3> QED
      BY <3>1, <3>2
  <2> QED
    BY <2>1, <2>2 DEF OneRow
<1>10. IndexAgrees'
  <2>1. r # NoRow
    BY <1>3, NoRowAssumption
  <2>2. ASSUME NEW j \in Key PROVE Copies(mem', j) = {index'[j]} \ {NoRow}
    BY <1>1, <1>2, <1>4, <1>7, <2>1
  <2> QED
    BY <2>2 DEF IndexAgrees
<1> QED
  BY <1>4, <1>5, <1>7, <1>8, <1>9, <1>10 DEF HeapInv

LEMMA DropKeeps ==
    ASSUME HeapInv, Running, NEW k \in Key, PhysDelete(k)
    PROVE  /\ HeapInv' /\ InMem(k)' = {}
           /\ \A j \in Key : j # k => InMem(j)' = InMem(j)
           /\ \A j : OnDisk(j)' = OnDisk(j)
<1>1. /\ disk \in Seq(Page) /\ mem \in Seq(Page) /\ RowsFit(disk) /\ RowsFit(mem)
      /\ index \in [Key -> (Nat \X Nat) \cup {NoRow}]
      /\ Len(disk) = Len(mem)
      /\ \A j \in Key : \A a, b \in InMem(j) \cup OnDisk(j) : a = b
      /\ \A j \in Key : Copies(mem, j) = {index[j]} \ {NoRow}
  BY DEF HeapInv, HeapTypes, OneRow, IndexAgrees
<1>2. disk' = disk /\ index' = [index EXCEPT ![k] = NoRow]
  BY DEF PhysDelete
<1>3. /\ mem' \in Seq(Page) /\ RowsFit(mem') /\ Len(mem') = Len(mem)
      /\ InMem(k)' = {} /\ Copies(mem', k) = {}
      /\ \A j : j # k => InMem(j)' = InMem(j) /\ Copies(mem', j) = Copies(mem, j)
  <2>1. CASE index[k] = NoRow
    <3>1. mem' = mem
      BY <2>1 DEF PhysDelete
    <3>2. Copies(mem, k) = {}
      BY <1>1, <2>1
    <3> QED
      BY <1>1, <3>1, <3>2, RowsAndCopies DEF InMem
  <2>2. CASE index[k] # NoRow
    <3>1. mem' = Erased(mem, index[k])
      BY <2>2 DEF PhysDelete
    <3>2. Copies(mem, k) = {index[k]}
      BY <1>1, <2>2
    <3>3. index[k] \in LiveRows(mem)
      BY <3>2 DEF Copies
    <3>4. mem' \in Seq(Page) /\ RowsFit(mem') /\ Len(mem') = Len(mem)
      BY <1>1, <3>1, <3>3, ErasedIs
    <3>5. /\ Copies(mem', k) = Copies(mem, k) \ {index[k]}
          /\ \A j : j # k => RowsOf(mem', j) = RowsOf(mem, j) /\ Copies(mem', j) = Copies(mem, j)
      BY <1>1, <3>1, <3>2, RowsErased
    <3>6. Copies(mem', k) = {}
      BY <3>2, <3>5
    <3> QED
      BY <3>4, <3>5, <3>6, RowsAndCopies DEF InMem
  <2> QED
    BY <2>1, <2>2
<1>4. \A j : OnDisk(j)' = OnDisk(j)
  BY <1>2 DEF OnDisk
<1>5. HeapTypes'
  BY <1>1, <1>2, <1>3 DEF HeapTypes
<1>6. OneRow'
  <2>1. Len(disk') = Len(mem')
    BY <1>1, <1>2, <1>3
  <2>2. ASSUME NEW j \in Key, NEW a \in InMem(j)' \cup OnDisk(j)', NEW b \in InMem(j)' \cup OnDisk(j)'
        PROVE  a = b
    BY <1>1, <1>3, <1>4, <2>2
  <2> QED
    BY <2>1, <2>2 DEF OneRow
<1>7. IndexAgrees'
  <2>1. ASSUME NEW j \in Key PROVE Copies(mem', j) = {index'[j]} \ {NoRow}
    BY <1>1, <1>2, <1>3
  <2> QED
    BY <2>1 DEF IndexAgrees
<1> QED
  BY <1>3, <1>4, <1>5, <1>6, <1>7 DEF HeapInv

LEMMA StayKeeps ==
    ASSUME HeapInv, UNCHANGED pages, pc' \in {"down", "refused"} \/ Running
    PROVE  /\ HeapInv'
           /\ \A j : InMem(j)' = InMem(j) /\ OnDisk(j)' = OnDisk(j)
<1>1. disk' = disk /\ mem' = mem /\ index' = index
  BY DEF pages
<1>2. \A j : InMem(j)' = InMem(j) /\ OnDisk(j)' = OnDisk(j)
  BY <1>1 DEF InMem, OnDisk
<1>3. HeapTypes' /\ OneRow'
  BY <1>1, <1>2 DEF HeapInv, HeapTypes, OneRow
<1>4. IndexAgrees'
  BY <1>1 DEF HeapInv, IndexAgrees, Running
<1> QED
  BY <1>2, <1>3, <1>4 DEF HeapInv

\* A page that is written back brings no row that is not in memory.
LEMMA WriteBackKeeps ==
    ASSUME HeapInv, NEW p \in DOMAIN mem, WriteBack(p)
    PROVE  /\ HeapInv'
           /\ \A j \in Key : /\ InMem(j)' = InMem(j) /\ OnDisk(j)' \subseteq OnDisk(j) \cup InMem(j)
                             /\ InMem(j) = OnDisk(j) => OnDisk(j)' = OnDisk(j)
<1>1. /\ disk \in Seq(Page) /\ mem \in Seq(Page) /\ RowsFit(disk) /\ RowsFit(mem)
      /\ Len(disk) = Len(mem)
      /\ \A j \in Key : \A a, b \in InMem(j) \cup OnDisk(j) : a = b
  BY DEF HeapInv, HeapTypes, OneRow
<1>2. disk' = [disk EXCEPT ![p] = mem[p]] /\ mem' = mem /\ index' = index /\ pc' = pc
  BY DEF WriteBack
<1>3. p \in DOMAIN disk
  BY <1>1
<1>4. /\ disk' \in Seq(Page) /\ RowsFit(disk') /\ Len(disk') = Len(disk)
      /\ \A j : OnDisk(j)' = {a \in OnDisk(j) : a[1][1] # p} \cup {a \in InMem(j) : a[1][1] = p}
  <2> DEFINE new == [disk EXCEPT ![p] = mem[p]]
  <2>1. /\ new \in Seq(Page) /\ Len(new) = Len(disk) /\ RowsFit(new)
        /\ \A k : RowsOf(new, k) = {a \in RowsOf(disk, k) : a[1][1] # p}
                                   \cup {a \in RowsOf(mem, k) : a[1][1] = p}
    BY <1>1, <1>3, RowsWritten, ZenonT(40)
  <2>2. disk' = new
    BY <1>2
  <2> HIDE DEF new
  <2>3. \A j : OnDisk(j)' = RowsOf(new, j)
    BY <2>2 DEF OnDisk
  <2> QED
    BY <2>1, <2>2, <2>3 DEF OnDisk, InMem
<1>5. \A j : InMem(j)' = InMem(j)
  BY <1>2 DEF InMem
<1>6. \A j \in Key : /\ OnDisk(j)' \subseteq OnDisk(j) \cup InMem(j)
                     /\ InMem(j) = OnDisk(j) => OnDisk(j)' = OnDisk(j)
  BY <1>4
<1>7. HeapTypes'
  BY <1>1, <1>2, <1>4 DEF HeapInv, HeapTypes
<1>8. OneRow'
  <2>1. ASSUME NEW j \in Key PROVE \A a, b \in InMem(j)' \cup OnDisk(j)' : a = b
    BY <1>1, <1>5, <1>6
  <2> QED
    BY <1>1, <1>2, <1>4, <2>1 DEF OneRow
<1>9. IndexAgrees'
  BY <1>2 DEF HeapInv, IndexAgrees, Running
<1> QED
  BY <1>5, <1>6, <1>7, <1>8, <1>9 DEF HeapInv

\* Every dirty page is written.
LEMMA FlushKeeps ==
    ASSUME HeapInv, disk' = mem, UNCHANGED <<mem, index>>, Running
    PROVE  HeapInv' /\ \A j : InMem(j)' = InMem(j) /\ OnDisk(j)' = InMem(j)
<1>1. \A j : InMem(j)' = InMem(j) /\ OnDisk(j)' = InMem(j)
  BY DEF InMem, OnDisk
<1>2. HeapTypes'
  BY DEF HeapInv, HeapTypes
<1>3. OneRow'
  <2>1. ASSUME NEW j \in Key PROVE \A a, b \in InMem(j)' \cup OnDisk(j)' : a = b
    BY <1>1 DEF HeapInv, OneRow
  <2> QED
    BY <2>1 DEF OneRow
<1>4. IndexAgrees'
  BY DEF HeapInv, IndexAgrees, Running
<1> QED
  BY <1>1, <1>2, <1>3, <1>4 DEF HeapInv

\* What a crash or an exit leaves, and what is read again at the next start.
LEMMA LoseKeeps ==
    ASSUME HeapInv, disk' \in {disk, mem}, LoseMemory
    PROVE  /\ HeapInv' /\ \A j : InMem(j)' = OnDisk(j)'
           /\ \/ \A j : OnDisk(j)' = OnDisk(j)
              \/ disk' = mem /\ \A j : OnDisk(j)' = InMem(j)
<1>1. mem' = disk' /\ index' = [k \in Key |-> NoRow] /\ pc' = "down"
  BY DEF LoseMemory
<1>2. \A j : InMem(j)' = OnDisk(j)'
  BY <1>1 DEF InMem, OnDisk
<1>3. \/ \A j : OnDisk(j)' = OnDisk(j)
      \/ disk' = mem /\ \A j : OnDisk(j)' = InMem(j)
  BY DEF InMem, OnDisk
<1>4. HeapTypes'
  BY <1>1 DEF HeapInv, HeapTypes
<1>5. OneRow'
  <2>1. ASSUME NEW j \in Key PROVE \A a, b \in InMem(j)' \cup OnDisk(j)' : a = b
    BY <1>2, <1>3 DEF HeapInv, OneRow
  <2> QED
    BY <1>1, <2>1 DEF OneRow
<1>6. IndexAgrees'
  BY <1>1 DEF IndexAgrees, Running
<1> QED
  BY <1>2, <1>3, <1>4, <1>5, <1>6 DEF HeapInv

\* The index of a heap in which no key has two rows.
LEMMA IndexOfIs ==
    ASSUME NEW heap \in Seq(Page), NEW k \in Key, \A r, q \in Copies(heap, k) : r = q
    PROVE  /\ Copies(heap, k) = {IndexOf(heap)[k]} \ {NoRow}
           /\ IndexOf(heap)[k] \in (Nat \X Nat) \cup {NoRow}
<1>1. CASE Copies(heap, k) = {}
  BY <1>1 DEF IndexOf
<1>2. CASE Copies(heap, k) # {}
  <2>1. PICK r \in Copies(heap, k) : TRUE
    BY <1>2
  <2>2. Copies(heap, k) \ {r} = {} /\ Copies(heap, k) = {r}
    BY <2>1
  <2>3. \E x \in Copies(heap, k) : \A q \in Copies(heap, k) \ {x} : ScannedBefore(q, x)
    BY <2>1, <2>2
  <2>4. IndexOf(heap)[k] \in Copies(heap, k)
    BY <1>2, <2>3 DEF IndexOf
  <2>5. r \in Nat \X Nat /\ r # NoRow
    BY RowType, NoRowAssumption
  <2> QED
    BY <2>2, <2>4, <2>5
<1> QED
  BY <1>1, <1>2

LEMMA LoadKeeps ==
    ASSUME HeapInv, Load, UNCHANGED disk
    PROVE  HeapInv' /\ \A j : InMem(j)' = OnDisk(j) /\ OnDisk(j)' = OnDisk(j)
<1>1. disk \in Seq(Page) /\ RowsFit(disk) /\ \A j \in Key : \A a, b \in OnDisk(j) : a = b
  BY DEF HeapInv, HeapTypes, OneRow
<1>2. mem' = disk /\ disk' = disk /\ index' = IndexOf(disk)
  BY DEF Load
<1>3. \A j : InMem(j)' = OnDisk(j) /\ OnDisk(j)' = OnDisk(j)
  BY <1>2 DEF InMem, OnDisk
<1>4. ASSUME NEW j \in Key
      PROVE  /\ Copies(disk, j) = {IndexOf(disk)[j]} \ {NoRow}
             /\ IndexOf(disk)[j] \in (Nat \X Nat) \cup {NoRow}
  <2>1. ASSUME NEW r \in Copies(disk, j), NEW q \in Copies(disk, j) PROVE r = q
    <3>1. <<r, At(disk, r).image>> = <<q, At(disk, q).image>>
      BY <1>1 DEF OnDisk, RowsOf
    <3> QED
      BY <3>1
  <2> QED
    BY <1>1, <2>1, IndexOfIs
<1>5. index' \in [Key -> (Nat \X Nat) \cup {NoRow}]
  <2>1. IndexOf(disk) = [j \in Key |-> IndexOf(disk)[j]]
    BY DEF IndexOf
  <2> HIDE DEF IndexOf
  <2> QED
    BY <1>2, <1>4, <2>1
<1>6. HeapTypes'
  BY <1>1, <1>2, <1>5 DEF HeapTypes
<1>7. OneRow'
  BY <1>1, <1>2, <1>3 DEF OneRow
<1>8. IndexAgrees'
  BY <1>2, <1>4 DEF IndexAgrees
<1> QED
  BY <1>3, <1>6, <1>7, <1>8 DEF HeapInv

\* What a scan shows of a key that has one row at most.
LEMMA ContentsShow ==
    ASSUME NEW heap \in Seq(Page), \A k \in Key : \A a, b \in RowsOf(heap, k) : a = b
    PROVE  /\ Contents(heap) \in [Key -> Image \cup {Absent}]
           /\ \A k \in Key : Shows(RowsOf(heap, k), Contents(heap)[k])
<1> DEFINE shown(k) == LET rids == Copies(heap, k)
                       IN  IF rids = {} THEN Absent
                           ELSE IF Cardinality(rids) = 1
                           THEN At(heap, CHOOSE rid \in rids : TRUE).image
                           ELSE Duplicated
<1>1. Contents(heap) = [k \in Key |-> shown(k)]
  BY DEF Contents
<1>2. ASSUME NEW k \in Key
      PROVE  shown(k) \in Image \cup {Absent} /\ Shows(RowsOf(heap, k), shown(k))
  <2>1. CASE Copies(heap, k) = {}
    BY <2>1, RowsAndCopies DEF Shows
  <2>2. CASE Copies(heap, k) # {}
    <3>1. PICK r \in Copies(heap, k) : TRUE
      BY <2>2
    <3>2. \A q \in Copies(heap, k) : <<q, At(heap, q).image>> \in RowsOf(heap, k)
      BY DEF RowsOf
    <3>3. ASSUME NEW q \in Copies(heap, k) PROVE q = r
      <4>1. \A a, b \in RowsOf(heap, k) : a = b
        OBVIOUS
      <4>2. <<q, At(heap, q).image>> = <<r, At(heap, r).image>>
        <5> HIDE DEF shown
        <5> QED
          BY <3>1, <3>2, <4>1
      <4> QED
        BY <4>2
    <3>4. Copies(heap, k) = {r}
      BY <3>1, <3>3
    <3>5. Cardinality({r}) = 1 /\ (CHOOSE q \in {r} : TRUE) = r
      BY FS_Singleton
    <3>6. shown(k) = At(heap, r).image /\ shown(k) \in Image
      BY <3>4, <3>5, RowType
    <3>7. RowsOf(heap, k) = {<<r, At(heap, r).image>>}
      BY <3>4, RowsAndCopies
    <3> HIDE DEF shown
    <3> QED
      BY <3>6, <3>7 DEF Shows
  <2> QED
    BY <2>1, <2>2
<1> HIDE DEF shown
<1> QED
  BY <1>1, <1>2

\* A set of rows shows one content only.
LEMMA ShowsOne ==
    ASSUME NEW rows, NEW c, NEW d, Shows(rows, c), Shows(rows, d)
    PROVE  c = d
BY DEF Shows

LEMMA ShowsRow ==
    ASSUME NEW r, NEW c \in Image
    PROVE  Shows({<<r, c>>}, c)
BY DEF Shows

-------------------------------------------------------------------------------
(* What the steps of the program do to the records.                         *)

LEMMA RecordIs ==
    ASSUME NEW k, NEW i \in RecordsOf(k)
    PROVE  i \in DOMAIN Readable /\ Readable[i].pk = k /\ Readable[i].type \in {"INSERT", "DELETE"}
BY DEF RecordsOf, InsertsOf, DeletesOf

LEMMA RecordTypes ==
    ASSUME LogInv, TypeOK
    PROVE  /\ Len(Readable) \in Nat /\ DOMAIN Readable = 1 .. Len(Readable)
           /\ \A i \in DOMAIN Readable : Readable[i].type \in {"INSERT", "DELETE"} =>
                  Readable[i].pk \in Key /\ Readable[i].image \in Image
           /\ \A k : \A i \in RecordsOf(k) : i \in Nat \ {0} /\ i <= Len(Readable)
                                             /\ k \in Key /\ Readable[i].image \in Image
<1> DEFINE R == RowRecord \cup TxnRecord \cup {Torn}
<1>1. log \in Seq(R)
  BY DEF TypeOK
<1>2. Readable \in Seq(R)
  <2> HIDE DEF R
  <2> QED
    BY <1>1, ReadableIs
<1>3. \A r \in R : r.type \in {"INSERT", "DELETE"} => r.pk \in Key /\ r.image \in Image
  BY DEF RowRecord, TxnRecord, Torn
<1> HIDE DEF R
<1>4. /\ Len(Readable) \in Nat /\ DOMAIN Readable = 1 .. Len(Readable)
      /\ \A i \in DOMAIN Readable : Readable[i] \in R
  BY <1>2
<1>5. \A i \in DOMAIN Readable : Readable[i].type \in {"INSERT", "DELETE"} =>
                  Readable[i].pk \in Key /\ Readable[i].image \in Image
  BY <1>3, <1>4
<1>6. ASSUME NEW k, NEW i \in RecordsOf(k)
      PROVE  i \in Nat \ {0} /\ i <= Len(Readable) /\ k \in Key /\ Readable[i].image \in Image
  BY <1>4, <1>5, RecordIs
<1> QED
  BY <1>4, <1>5, <1>6

\* The open transaction has not ended, and without one there are no records of its own.
LEMMA OpenIsOpen ==
    ASSUME LogInv
    PROVE  /\ current_txn \notin CommittedTxns /\ current_txn \notin AbortedTxns
           /\ \A i : Own(i) => ~Winner(i) /\ ~Aborted(i)
           /\ current_txn = INVALID_TXN => \A i \in DOMAIN Readable : ~Own(i)
<1>1. \A i \in DOMAIN Readable : /\ Readable[i].type \in {"COMMIT", "ABORT"} =>
                                        Readable[i].txid # current_txn
                                 /\ Readable[i].txid \in Nat \ {0}
  BY DEF LogInv, LogTellsTxns, NumbersIdentify, NumbersAscend
<1>2. current_txn \notin CommittedTxns /\ current_txn \notin AbortedTxns
  BY <1>1 DEF CommittedTxns, AbortedTxns, Range
<1> QED
  BY <1>1, <1>2 DEF Own, Winner, Aborted, INVALID_TXN

\* One more record, whatever it is.
LEMMA OneMore ==
    ASSUME LogInv, pc \in Session, NEW r, r.type # "TORN", log' = Append(log, r)
    PROVE  LET n == Len(Readable) + 1
           IN  /\ Len(Readable) \in Nat /\ DOMAIN Readable = 1 .. Len(Readable)
               /\ DOMAIN Readable' = 1 .. n /\ Len(Readable)' = n
               /\ Readable'[n] = r /\ n \notin DOMAIN Readable
               /\ \A i \in DOMAIN Readable :
                      Readable'[i] = Readable[i] /\ i \in Nat /\ i < n /\ (Fits(i)' <=> Fits(i))
               /\ CommittedTxns' = CommittedTxns \cup (IF r.type = "COMMIT" THEN {r.txid} ELSE {})
               /\ AbortedTxns' = AbortedTxns \cup (IF r.type = "ABORT" THEN {r.txid} ELSE {})
               /\ \A k : InsertsOf(k)' = InsertsOf(k) \cup
                             (IF r.type = "INSERT" /\ r.pk = k THEN {n} ELSE {})
               /\ \A k : DeletesOf(k)' = DeletesOf(k) \cup
                             (IF r.type = "DELETE" /\ r.pk = k THEN {n} ELSE {})
<1> DEFINE n == Len(Readable) + 1
<1>1. /\ Len(Readable) \in Nat /\ DOMAIN Readable = 1 .. Len(Readable)
      /\ DOMAIN Readable' = 1 .. n /\ Len(Readable)' = n /\ Readable'[n] = r
      /\ \A i \in DOMAIN Readable : Readable'[i] = Readable[i]
  BY Appended
<1>2. /\ n \notin DOMAIN Readable /\ DOMAIN Readable' = DOMAIN Readable \cup {n}
      /\ \A i \in DOMAIN Readable : i \in Nat /\ i < n
  BY <1>1
<1> HIDE DEF n
<1>3. \A i \in DOMAIN Readable : Fits(i)' <=> Fits(i)
  BY <1>1 DEF Fits
<1>4. Range(Readable') = Range(Readable) \cup {r}
  BY <1>1, <1>2, SMTT(20) DEF Range
<1>5. CommittedTxns' = CommittedTxns \cup (IF r.type = "COMMIT" THEN {r.txid} ELSE {})
  BY <1>4 DEF CommittedTxns
<1>6. AbortedTxns' = AbortedTxns \cup (IF r.type = "ABORT" THEN {r.txid} ELSE {})
  BY <1>4 DEF AbortedTxns
<1>7. ASSUME NEW k
      PROVE  /\ InsertsOf(k)' = InsertsOf(k) \cup
                    (IF r.type = "INSERT" /\ r.pk = k THEN {n} ELSE {})
             /\ DeletesOf(k)' = DeletesOf(k) \cup
                    (IF r.type = "DELETE" /\ r.pk = k THEN {n} ELSE {})
  BY <1>1, <1>2 DEF InsertsOf, DeletesOf
<1> QED
  BY <1>1, <1>2, <1>3, <1>5, <1>6, <1>7 DEF n

\* BEGIN, COMMIT and ABORT are about no key.
LEMMA TxnLogged ==
    ASSUME LogInv, pc \in Session, NEW n, n = Len(Readable) + 1,
           NEW type \in {"BEGIN", "COMMIT", "ABORT"}, NEW t,
           log' = Append(log, [type |-> type, txid |-> t])
    PROVE  /\ Len(Readable) \in Nat /\ DOMAIN Readable = 1 .. Len(Readable)
           /\ DOMAIN Readable' = DOMAIN Readable \cup {n} /\ Len(Readable)' = n
           /\ Readable'[n].txid = t
           /\ \A i \in DOMAIN Readable :
                  /\ Readable'[i] = Readable[i] /\ i < n /\ (Fits(i)' <=> Fits(i))
                  /\ Winner(i)' <=> Winner(i) \/ (type = "COMMIT" /\ Readable[i].txid = t)
                  /\ Aborted(i)' <=> Aborted(i) \/ (type = "ABORT" /\ Readable[i].txid = t)
           /\ CommittedTxns' = CommittedTxns \cup (IF type = "COMMIT" THEN {t} ELSE {})
           /\ AbortedTxns' = AbortedTxns \cup (IF type = "ABORT" THEN {t} ELSE {})
           /\ \A k : /\ InsertsOf(k)' = InsertsOf(k) /\ DeletesOf(k)' = DeletesOf(k)
                     /\ RecordsOf(k)' = RecordsOf(k)
<1> DEFINE r == [type |-> type, txid |-> t]
<1>1. r.type = type /\ r.txid = t /\ r.type \notin {"TORN", "INSERT", "DELETE"}
  OBVIOUS
<1> HIDE DEF r
<1>2. log' = Append(log, r)
  BY DEF r
<1>3. /\ Len(Readable) \in Nat /\ DOMAIN Readable = 1 .. Len(Readable)
      /\ DOMAIN Readable' = 1 .. n /\ Len(Readable)' = n
      /\ Readable'[n] = r
      /\ \A i \in DOMAIN Readable : Readable'[i] = Readable[i] /\ i < n /\ (Fits(i)' <=> Fits(i))
      /\ CommittedTxns' = CommittedTxns \cup (IF r.type = "COMMIT" THEN {r.txid} ELSE {})
      /\ AbortedTxns' = AbortedTxns \cup (IF r.type = "ABORT" THEN {r.txid} ELSE {})
      /\ \A k : InsertsOf(k)' = InsertsOf(k) \cup (IF r.type = "INSERT" /\ r.pk = k THEN {n} ELSE {})
      /\ \A k : DeletesOf(k)' = DeletesOf(k) \cup (IF r.type = "DELETE" /\ r.pk = k THEN {n} ELSE {})
  BY <1>1, <1>2, OneMore
<1>4. DOMAIN Readable' = DOMAIN Readable \cup {n}
  BY <1>3
<1>5. \A i \in DOMAIN Readable :
          /\ Winner(i)' <=> Winner(i) \/ (type = "COMMIT" /\ Readable[i].txid = t)
          /\ Aborted(i)' <=> Aborted(i) \/ (type = "ABORT" /\ Readable[i].txid = t)
  BY <1>1, <1>3 DEF Winner, Aborted
<1>6. \A k : InsertsOf(k)' = InsertsOf(k) /\ DeletesOf(k)' = DeletesOf(k)
  BY <1>1, <1>3
<1>7. \A k : RecordsOf(k)' = RecordsOf(k)
  BY <1>6 DEF RecordsOf
<1> QED
  BY <1>1, <1>3, <1>4, <1>5, <1>6, <1>7

\* A row record of the open transaction.
LEMMA RowLogged ==
    ASSUME LogInv, pc \in Session, NEW n, n = Len(Readable) + 1,
           NEW kind \in {"INSERT", "DELETE"}, NEW k, NEW image,
           NEW r, r.type = kind, r.txid = current_txn, r.pk = k, r.image = image,
           log' = Append(log, r), UNCHANGED current_txn
    PROVE  /\ Len(Readable) \in Nat /\ DOMAIN Readable = 1 .. Len(Readable)
           /\ DOMAIN Readable' = DOMAIN Readable \cup {n} /\ Len(Readable)' = n
           /\ Readable'[n] = r
           /\ Fits(n)' <=> ~TooLarge(image)
           /\ ~Winner(n)' /\ ~Aborted(n)' /\ Own(n)'
           /\ \A i \in DOMAIN Readable :
                  /\ Readable'[i] = Readable[i] /\ i < n /\ (Fits(i)' <=> Fits(i))
                  /\ (Winner(i)' <=> Winner(i)) /\ (Aborted(i)' <=> Aborted(i))
                  /\ (Own(i)' <=> Own(i))
           /\ CommittedTxns' = CommittedTxns /\ AbortedTxns' = AbortedTxns
           /\ \A j : j # k => /\ InsertsOf(j)' = InsertsOf(j) /\ DeletesOf(j)' = DeletesOf(j)
                              /\ RecordsOf(j)' = RecordsOf(j)
           /\ InsertsOf(k)' = InsertsOf(k) \cup (IF kind = "INSERT" THEN {n} ELSE {})
           /\ DeletesOf(k)' = DeletesOf(k) \cup (IF kind = "DELETE" THEN {n} ELSE {})
           /\ RecordsOf(k)' = RecordsOf(k) \cup {n}
           /\ n \notin RecordsOf(k)
<1>1. /\ r.type = kind /\ r.txid = current_txn /\ r.pk = k /\ r.image = image
      /\ r.type \notin {"TORN", "COMMIT", "ABORT"}
  OBVIOUS
<1>3. /\ Len(Readable) \in Nat /\ DOMAIN Readable = 1 .. Len(Readable)
      /\ DOMAIN Readable' = 1 .. n /\ Len(Readable)' = n
      /\ Readable'[n] = r /\ n \notin DOMAIN Readable
      /\ \A i \in DOMAIN Readable : Readable'[i] = Readable[i] /\ i < n /\ (Fits(i)' <=> Fits(i))
      /\ CommittedTxns' = CommittedTxns \cup (IF r.type = "COMMIT" THEN {r.txid} ELSE {})
      /\ AbortedTxns' = AbortedTxns \cup (IF r.type = "ABORT" THEN {r.txid} ELSE {})
      /\ \A j : InsertsOf(j)' = InsertsOf(j) \cup (IF r.type = "INSERT" /\ r.pk = j THEN {n} ELSE {})
      /\ \A j : DeletesOf(j)' = DeletesOf(j) \cup (IF r.type = "DELETE" /\ r.pk = j THEN {n} ELSE {})
  BY <1>1, OneMore
<1>4. DOMAIN Readable' = DOMAIN Readable \cup {n} /\ n \notin RecordsOf(k)
  BY <1>3, RecordIs
<1>5. CommittedTxns' = CommittedTxns /\ AbortedTxns' = AbortedTxns
  BY <1>1, <1>3
<1>6. /\ Fits(n)' <=> ~TooLarge(image)
      /\ ~Winner(n)' /\ ~Aborted(n)' /\ Own(n)'
  BY <1>1, <1>3, <1>5, OpenIsOpen DEF Fits, Winner, Aborted, Own
<1>7. \A i \in DOMAIN Readable :
          /\ (Winner(i)' <=> Winner(i)) /\ (Aborted(i)' <=> Aborted(i)) /\ (Own(i)' <=> Own(i))
  BY <1>3, <1>5 DEF Winner, Aborted, Own
<1>8. \A j : j # k => InsertsOf(j)' = InsertsOf(j) /\ DeletesOf(j)' = DeletesOf(j)
  BY <1>1, <1>3
<1>9. /\ InsertsOf(k)' = InsertsOf(k) \cup (IF kind = "INSERT" THEN {n} ELSE {})
      /\ DeletesOf(k)' = DeletesOf(k) \cup (IF kind = "DELETE" THEN {n} ELSE {})
  BY <1>1, <1>3
<1>10. /\ \A j : j # k => RecordsOf(j)' = RecordsOf(j)
       /\ RecordsOf(k)' = RecordsOf(k) \cup {n}
  BY <1>8, <1>9 DEF RecordsOf
<1> QED
  BY <1>3, <1>4, <1>5, <1>6, <1>7, <1>8, <1>9, <1>10

-------------------------------------------------------------------------------
(* Steps of a session that change no row and log none.                      *)

NoNews ==
    /\ UNCHANGED <<disk, mem, index, committed, undo>>
    /\ \A k : InsertsOf(k)' = InsertsOf(k) /\ DeletesOf(k)' = DeletesOf(k)
    /\ \A i \in DOMAIN Readable :
           /\ Readable'[i] = Readable[i]
           /\ (Winner(i)' <=> Winner(i)) /\ (Aborted(i)' <=> Aborted(i)) /\ (Own(i)' <=> Own(i))
    /\ \A i \in DOMAIN Readable' : i \in DOMAIN Readable \/ Own(i)'
    /\ CommittedTxns' = CommittedTxns /\ AbortedTxns' = AbortedTxns
    /\ current_txn' = INVALID_TXN => current_txn = INVALID_TXN

LEMMA NoNewsIs ==
    ASSUME StoreInv, UNCHANGED <<pages, committed>>, pc \in Session,
           \/ EnsureTxn
           \/ current_txn = INVALID_TXN /\ StartTxn
           \/ UNCHANGED <<log, session>>
    PROVE  NoNews
<1>1. CASE UNCHANGED <<log, session>>
  <2>1. Readable' = Readable /\ current_txn' = current_txn /\ undo' = undo
    BY <1>1, SameLog DEF session
  <2>2. \A i : Own(i)' <=> Own(i)
    BY <2>1, SameRecords
  <2> QED
    BY <2>1, <2>2, SameRecords DEF NoNews, pages
<1>2. CASE current_txn = INVALID_TXN /\ StartTxn
  <2>1. /\ log' = Append(log, [type |-> "BEGIN", txid |-> next_txn])
        /\ current_txn' = next_txn /\ undo' = <<>>
    BY <1>2 DEF StartTxn
  <2>2. LogInv /\ undo = <<>>
    BY <1>2 DEF StoreInv, RowsInv, UndoTells
  <2>0. PICK n : n = Len(Readable) + 1
    OBVIOUS
  <2>3. /\ DOMAIN Readable' = DOMAIN Readable \cup {n}
        /\ Readable'[n].txid = next_txn
        /\ \A i \in DOMAIN Readable :
               /\ Readable'[i] = Readable[i]
               /\ (Winner(i)' <=> Winner(i)) /\ (Aborted(i)' <=> Aborted(i))
        /\ CommittedTxns' = CommittedTxns /\ AbortedTxns' = AbortedTxns
        /\ \A k : InsertsOf(k)' = InsertsOf(k) /\ DeletesOf(k)' = DeletesOf(k)
    BY <2>0, <2>1, <2>2, TxnLogged
  <2>4. /\ next_txn \in Nat \ {0}
        /\ \A i \in DOMAIN Readable : Readable[i].txid \in Nat \ {0} /\ Readable[i].txid < next_txn
    BY <2>2, SessionNumbers, AllReadable
  <2>5. \A i \in DOMAIN Readable : ~Own(i) /\ ~Own(i)'
    BY <1>2, <2>1, <2>3, <2>4 DEF Own, INVALID_TXN
  <2>6. \A i \in DOMAIN Readable' : i \in DOMAIN Readable \/ Own(i)'
    BY <2>1, <2>3 DEF Own
  <2> QED
    BY <1>2, <2>1, <2>2, <2>3, <2>5, <2>6 DEF NoNews, pages
<1>3. CASE EnsureTxn
  BY <1>1, <1>2, <1>3 DEF EnsureTxn
<1> QED
  BY <1>1, <1>2, <1>3

LEMMA NoNewsRecords ==
    ASSUME NoNews
    PROVE  /\ \A k : /\ InsertsOf(k)' = InsertsOf(k) /\ DeletesOf(k)' = DeletesOf(k)
                     /\ RecordsOf(k)' = RecordsOf(k)
                     /\ InMem(k)' = InMem(k) /\ OnDisk(k)' = OnDisk(k)
                     /\ \A i \in RecordsOf(k) :
                            /\ Readable'[i] = Readable[i] /\ (Fits(i)' <=> Fits(i))
                            /\ (Winner(i)' <=> Winner(i)) /\ (Aborted(i)' <=> Aborted(i))
                            /\ (Own(i)' <=> Own(i))
                     /\ InsertsOf(k) \subseteq RecordsOf(k) /\ DeletesOf(k) \subseteq RecordsOf(k)
<1>1. \A k : RecordsOf(k)' = RecordsOf(k)
  BY DEF NoNews, RecordsOf
<1>2. \A k : InMem(k)' = InMem(k) /\ OnDisk(k)' = OnDisk(k)
  BY DEF NoNews, InMem, OnDisk
<1>3. \A k : \A i \in RecordsOf(k) :
          /\ Readable'[i] = Readable[i] /\ (Fits(i)' <=> Fits(i))
          /\ (Winner(i)' <=> Winner(i)) /\ (Aborted(i)' <=> Aborted(i))
          /\ (Own(i)' <=> Own(i))
  BY RecordIs DEF NoNews, Fits
<1> QED
  BY <1>1, <1>2, <1>3 DEF NoNews, RecordsOf

\* A key about which nothing changes.
SameKey(k) ==
    /\ InsertsOf(k)' = InsertsOf(k) /\ DeletesOf(k)' = DeletesOf(k)
    /\ InMem(k)' = InMem(k) /\ OnDisk(k)' = OnDisk(k)
    /\ \A i \in RecordsOf(k) :
           /\ Readable'[i] = Readable[i]
           /\ (Winner(i)' <=> Winner(i)) /\ (Aborted(i)' <=> Aborted(i)) /\ (Own(i)' <=> Own(i))
    /\ committed'[k] = committed[k]

LEMMA SameKeyIs ==
    ASSUME NEW k, SameKey(k)
    PROVE  /\ InsertsOf(k)' = InsertsOf(k) /\ DeletesOf(k)' = DeletesOf(k)
           /\ RecordsOf(k)' = RecordsOf(k)
           /\ InMem(k)' = InMem(k) /\ OnDisk(k)' = OnDisk(k)
           /\ InsertsOf(k) \subseteq RecordsOf(k) /\ DeletesOf(k) \subseteq RecordsOf(k)
           /\ \A i \in RecordsOf(k) :
                  /\ Readable'[i] = Readable[i] /\ (Fits(i)' <=> Fits(i))
                  /\ (Winner(i)' <=> Winner(i)) /\ (Aborted(i)' <=> Aborted(i))
                  /\ (Own(i)' <=> Own(i))
           /\ committed'[k] = committed[k]
BY DEF SameKey, RecordsOf, Fits

LEMMA SameKeyKeeps ==
    ASSUME NEW k, SameKey(k)
    PROVE  /\ Ordered(k) => Ordered(k)'
           /\ Tells(k) => Tells(k)'
           /\ Logged(k) /\ (pc = "refused" => pc' = "refused") => Logged(k)'
           /\ WhyGone(k) /\ pc \in Session /\ pc' \in Session
                 /\ (pc = "rollback" => pc' = "rollback") => WhyGone(k)'
           /\ Follows(k) /\ (pc = "rollback" => pc' = "rollback")
                 /\ (BeingApplied(k) => BeingApplied(k)') => Follows(k)'
           /\ Redone(k) /\ UNCHANGED pos => Redone(k)'
           /\ Undone(k) /\ UNCHANGED pos => Undone(k)'
           /\ Restored(k) => Restored(k)'
<1> USE SameKeyIs
<1>1. Ordered(k) => Ordered(k)'
  BY DEF Ordered
<1>2. Tells(k) => Tells(k)'
  BY DEF Tells
<1>3. Logged(k) /\ (pc = "refused" => pc' = "refused") => Logged(k)'
  BY DEF Logged
<1>4. WhyGone(k) /\ pc \in Session /\ pc' \in Session
          /\ (pc = "rollback" => pc' = "rollback") => WhyGone(k)'
  BY DEF WhyGone, Session
<1>5. Follows(k) /\ (pc = "rollback" => pc' = "rollback")
          /\ (BeingApplied(k) => BeingApplied(k)') => Follows(k)'
  BY DEF Follows
<1>6. Redone(k) /\ UNCHANGED pos => Redone(k)'
  BY DEF Redone
<1>7. Undone(k) /\ UNCHANGED pos => Undone(k)'
  BY DEF Undone
<1>8. Restored(k) => Restored(k)'
  BY DEF Restored
<1> QED
  BY <1>1, <1>2, <1>3, <1>4, <1>5, <1>6, <1>7, <1>8

LEMMA NoNewsKeeps ==
    ASSUME StoreInv, NoNews, pc \in Session \ {"apply"}, pc' \in Session \ {"apply"},
           \/ pc' = "rollback" <=> pc = "rollback"
           \/ pc = "ready" /\ \A i \in DOMAIN undo : undo[i].was_insert
    PROVE  /\ HeapInv' /\ LogOrder' /\ LogTellsCommitted' /\ RowsAreLogged' /\ GoneFromMem'
           /\ MemFollowsLog' /\ UndoTells' /\ Recovered'
<1>1. HeapInv'
  <2>1. UNCHANGED pages /\ Running
    BY DEF NoNews, pages, Running, Session
  <2> QED
    BY <2>1, StayKeeps DEF StoreInv, RowsInv
<1>2. undo' = undo /\ CommittedTxns' = CommittedTxns /\ AbortedTxns' = AbortedTxns
  BY DEF NoNews
<1>3. \A k : SameKey(k)
  BY NoNewsRecords DEF SameKey, NoNews
<1>4. /\ (pc = "refused" => pc' = "refused") /\ (pc = "rollback" => pc' = "rollback")
      /\ \A k : ~BeingApplied(k)
  BY DEF Session, BeingApplied
<1>5. LogOrder'
  BY <1>3, SameKeyKeeps DEF StoreInv, RowsInv, LogOrder
<1>6. LogTellsCommitted'
  BY <1>3, SameKeyKeeps DEF StoreInv, RowsInv, LogTellsCommitted
<1>7. RowsAreLogged'
  BY <1>3, <1>4, SameKeyKeeps DEF StoreInv, RowsInv, RowsAreLogged
<1>8. GoneFromMem'
  BY <1>3, <1>4, SameKeyKeeps, SameKeyIs DEF StoreInv, RowsInv, GoneFromMem
<1>9. MemFollowsLog'
  <2>1. TxnsEnd'
    BY <1>2 DEF NoNews, StoreInv, RowsInv, MemFollowsLog, TxnsEnd
  <2>2. \A k \in Key : Follows(k)'
    BY <1>3, <1>4, SameKeyKeeps DEF StoreInv, RowsInv, MemFollowsLog
  <2> QED
    BY <2>1, <2>2 DEF MemFollowsLog
<1>10. UndoTells'
  <2>1. current_txn' = INVALID_TXN => undo' = <<>>
    BY <1>2 DEF StoreInv, RowsInv, UndoTells, NoNews
  <2>2. ASSUME NEW k \in Key PROVE Undoable(k)'
    <3>1. Undoable(k)
      BY DEF StoreInv, RowsInv, UndoTells
    <3> QED
      BY <1>2, <1>3, <3>1, SameKeyIs DEF Undoable
  <2>3. ASSUME NEW k \in Key PROVE Remembered(k)'
    <3>1. Remembered(k)
      BY DEF StoreInv, RowsInv, UndoTells
    <3> QED
      BY <1>2, <1>3, <1>4, <3>1, SameKeyIs DEF Remembered
  <2>4. pc' = "rollback" => \A i \in DOMAIN undo' : undo'[i].was_insert
    BY <1>2 DEF StoreInv, RowsInv, UndoTells
  <2> QED
    BY <2>1, <2>2, <2>3, <2>4 DEF UndoTells
<1>11. Recovered'
  BY DEF Recovered, Session
<1> QED
  BY <1>1, <1>5, <1>6, <1>7, <1>8, <1>9, <1>10, <1>11

\* The key that a DELETE statement deletes next is one of those it has left.
LEMMA FirstKeyIs ==
    ASSUME StoreInv, keys # {}
    PROVE  FirstKey \in keys /\ FirstKey \in Key
<1> DEFINE rows == UNION {Copies(mem, k) : k \in keys}
           P == {r[1] : r \in rows}
<1>1. mem \in Seq(Page) /\ keys \subseteq Key
  BY DEF StoreInv, TypeOK
<1>2. \A k \in keys : Copies(mem, k) # {}
  BY RowsAndCopies DEF StoreInv, RowsInv, KeysShown, InMem
<1>3. \A k \in keys : \A r \in Copies(mem, k) : r \in Nat \X Nat /\ At(mem, r).pk = k
  BY <1>1, RowType
<1>4. P \in SUBSET Nat /\ P # {}
  BY <1>2, <1>3
<1>5. PICK p \in P : \A q \in P : p <= q
  <2> HIDE DEF P
  <2> QED
    BY <1>4, LeastElement
<1> DEFINE S == {r[2] : r \in {x \in rows : x[1] = p}}
<1>6. S \in SUBSET Nat /\ S # {}
  BY <1>3
<1>7. PICK s \in S : \A q \in S : s <= q
  <2> HIDE DEF S
  <2> QED
    BY <1>6, LeastElement
<1>8. PICK r \in rows : r[1] = p /\ r[2] = s
  OBVIOUS
<1>9. PICK k \in keys : r \in Copies(mem, k)
  OBVIOUS
<1>10. ASSUME NEW j \in keys \ {k}, NEW q \in Copies(mem, j)
       PROVE  ScannedBefore(r, q)
  <2>1. q \in rows /\ q[1] \in P
    OBVIOUS
  <2>2. p <= q[1] /\ p \in Nat /\ q[1] \in Nat
    BY <1>4, <1>5, <2>1
  <2>3. q[1] = p => q[2] \in S
    BY <2>1
  <2>4. q[1] = p => s <= q[2] /\ s \in Nat /\ q[2] \in Nat
    BY <1>6, <1>7, <2>3
  <2>5. q # r
    BY <1>3, <1>9
  <2>6. q = <<q[1], q[2]>> /\ r = <<r[1], r[2]>>
    BY <1>3, <1>9
  <2>7. q[1] = p => s # q[2]
    BY <1>8, <2>5, <2>6
  <2> QED
    BY <1>8, <2>2, <2>4, <2>7 DEF ScannedBefore
<1>11. \E x \in Copies(mem, k) : \A j \in keys \ {k} : \A q \in Copies(mem, j) : ScannedBefore(x, q)
  BY <1>9, <1>10
<1>12. \E x \in keys : \E y \in Copies(mem, x) :
          \A j \in keys \ {x} : \A q \in Copies(mem, j) : ScannedBefore(y, q)
  BY <1>11
<1>13. FirstKey \in keys
  BY <1>12 DEF FirstKey
<1> QED
  BY <1>1, <1>13

\* Keys of a rolled-back transaction, and keys with a DELETE in the log.
LEMMA NotMentioned ==
    ASSUME NEW k
    PROVE  /\ ~Deleted(k) => DeletesOf(k) = {}
           /\ ~RolledBack(k) => \A i \in RecordsOf(k) : ~Aborted(i)
<1>1. ASSUME ~Deleted(k), NEW i \in DeletesOf(k) PROVE FALSE
  BY <1>1 DEF Deleted, DeletesOf, Range
<1>2. ASSUME ~RolledBack(k), NEW i \in RecordsOf(k), Aborted(i) PROVE FALSE
  <2>1. PICK q \in Range(Readable) : q.type = "ABORT" /\ q.txid = Readable[i].txid
    BY <1>2 DEF Aborted, AbortedTxns
  <2>2. /\ Readable[i] \in Range(Readable) /\ Readable[i].pk = k
        /\ Readable[i].type \in {"INSERT", "DELETE"}
    BY RecordIs DEF Range
  <2> QED
    BY <1>2, <2>1, <2>2 DEF RolledBack
<1> QED
  BY <1>1, <1>2

LEMMA BeginKeepsRows ==
    ASSUME StoreInv, Begin
    PROVE  RowsInv'
<1>1. /\ pc = "ready" /\ pc' = "ready" /\ UNCHANGED <<pages, committed, op, keys>>
      /\ current_txn = INVALID_TXN /\ StartTxn
  BY DEF Begin, Statement, dml
<1>2. NoNews
  BY <1>1, NoNewsIs DEF Session
<1>3. /\ HeapInv' /\ LogOrder' /\ LogTellsCommitted' /\ RowsAreLogged' /\ GoneFromMem'
      /\ MemFollowsLog' /\ UndoTells' /\ Recovered'
  BY <1>1, <1>2, NoNewsKeeps DEF Session
<1>4. OpReady' /\ KeysShown'
  BY <1>1 DEF OpReady, KeysShown, StoreInv, RowsInv
<1> QED
  BY <1>3, <1>4 DEF RowsInv

LEMMA InsertRowKeepsRows ==
    ASSUME Care = Precautions, StoreInv, NEW k \in Key, NEW image \in Image, InsertRow(k, image)
    PROVE  RowsInv'
<1>1. /\ pc = "ready" /\ pc' = "log" /\ UNCHANGED <<pages, committed, keys>>
      /\ EnsureTxn /\ index[k] = NoRow /\ ~RolledBack(k) /\ ~Deleted(k)
      /\ op'.kind = "INSERT" /\ op'.pk = k /\ op' \in RowOp
  BY DEF InsertRow, Statement, Precautions, RowOp
<1>2. NoNews
  BY <1>1, NoNewsIs DEF Session
<1>3. /\ HeapInv' /\ LogOrder' /\ LogTellsCommitted' /\ RowsAreLogged' /\ GoneFromMem'
      /\ MemFollowsLog' /\ UndoTells' /\ Recovered'
  BY <1>1, <1>2, NoNewsKeeps DEF Session
<1>4. InMem(k) = {} /\ InMem(k)' = {}
  <2>1. HeapInv /\ Running
    BY <1>1 DEF StoreInv, RowsInv, Running
  <2> QED
    BY <1>1, <1>2, <2>1, IndexTells, NoNewsRecords
<1>5. DeletesOf(k)' = {} /\ \A i \in InsertsOf(k)' : ~Aborted(i)'
  BY <1>1, <1>2, NotMentioned, NoNewsRecords
<1>6. op'.pk = k => /\ InMem(op.pk)' = InMem(k)' /\ DeletesOf(op.pk)' = DeletesOf(k)'
                    /\ InsertsOf(op.pk)' = InsertsOf(k)'
  BY DEF InMem, DeletesOf, InsertsOf
<1>7. OpReady'
  BY <1>1, <1>4, <1>5, <1>6 DEF OpReady
<1>8. KeysShown'
  <2>1. keys = {}
    BY <1>1 DEF StoreInv, RowsInv, KeysShown
  <2> QED
    BY <1>1, <2>1 DEF KeysShown
<1> QED
  BY <1>3, <1>7, <1>8 DEF RowsInv

LEMMA RunDeleteKeepsRows ==
    ASSUME StoreInv, NEW K \in SUBSET Key, RunDelete(K)
    PROVE  RowsInv'
<1>1. /\ pc = "ready" /\ pc' = "rows" /\ UNCHANGED <<pages, committed, log, session>>
      /\ keys' = K /\ \A k \in K : Copies(mem, k) # {}
  BY DEF RunDelete, Statement
<1>2. NoNews
  BY <1>1, NoNewsIs DEF Session
<1>3. /\ HeapInv' /\ LogOrder' /\ LogTellsCommitted' /\ RowsAreLogged' /\ GoneFromMem'
      /\ MemFollowsLog' /\ UndoTells' /\ Recovered'
  BY <1>1, <1>2, NoNewsKeeps DEF Session
<1>4. \A k \in keys' : InMem(k)' # {}
  BY <1>1, <1>2, NoNewsRecords, RowsAndCopies DEF InMem
<1>5. OpReady' /\ KeysShown'
  BY <1>1, <1>4 DEF OpReady, KeysShown
<1> QED
  BY <1>3, <1>5 DEF RowsInv

LEMMA DeleteByKeyKeepsRows ==
    ASSUME StoreInv, DeleteByKey
    PROVE  RowsInv'
<1> DEFINE k == FirstKey
<1>1. pc = "rows" /\ keys # {} /\ keys' = keys \ {k} /\ UNCHANGED <<pages, committed>>
  BY DEF DeleteByKey
<1>2. k \in keys /\ k \in Key
  BY <1>1, FirstKeyIs
<1> HIDE DEF k
<1>3. HeapInv /\ Running
  BY <1>1 DEF StoreInv, RowsInv, Running
<1>4. PICK j : j = k
  OBVIOUS
<1>5. CASE index[k] # NoRow
  <2>1. /\ pc' = "log" /\ EnsureTxn
        /\ op' = [kind |-> "DELETE", pk |-> j, image |-> At(mem, index[j]).image,
                  implicit |-> current_txn = INVALID_TXN]
    BY <1>4, <1>5 DEF DeleteByKey, k
  <2>2. NoNews
    BY <1>1, <2>1, NoNewsIs DEF Session
  <2>3. /\ HeapInv' /\ LogOrder' /\ LogTellsCommitted' /\ RowsAreLogged' /\ GoneFromMem'
        /\ MemFollowsLog' /\ UndoTells' /\ Recovered'
    BY <1>1, <2>1, <2>2, NoNewsKeeps DEF Session
  <2>4. /\ InMem(j) = {<<index[j], At(mem, index[j]).image>>}
        /\ At(mem, index[j]).image \in Image
    BY <1>2, <1>3, <1>4, <1>5, IndexTells
  <2>5. op' \in RowOp /\ op'.kind = "DELETE" /\ op'.pk = j /\ op'.image = At(mem, index[j]).image
    BY <1>2, <1>4, <2>1, <2>4 DEF RowOp
  <2>6. Shows(InMem(j)', op'.image)
    <3>1. InMem(j)' = {<<index[j], op'.image>>} /\ op'.image \in Image
      BY <2>2, <2>4, <2>5, NoNewsRecords
    <3> QED
      BY <3>1, ShowsRow
  <2>7. InMem(op.pk)' = InMem(j)'
    BY <2>5 DEF InMem
  <2>8. OpReady'
    BY <2>1, <2>5, <2>6, <2>7 DEF OpReady
  <2>9. \A x \in keys' : InMem(x)' # {} /\ x # j
    BY <1>1, <1>4, <2>2, NoNewsRecords DEF StoreInv, RowsInv, KeysShown
  <2>10. KeysShown'
    BY <2>1, <2>5, <2>9 DEF KeysShown
  <2> QED
    BY <2>3, <2>8, <2>10 DEF RowsInv
<1>6. CASE index[k] = NoRow
  <2>1. pc' = "rows" /\ UNCHANGED <<log, session, op>>
    BY <1>1, <1>6 DEF DeleteByKey, k
  <2>2. NoNews
    BY <1>1, <2>1, NoNewsIs DEF Session
  <2>3. /\ HeapInv' /\ LogOrder' /\ LogTellsCommitted' /\ RowsAreLogged' /\ GoneFromMem'
        /\ MemFollowsLog' /\ UndoTells' /\ Recovered'
    BY <1>1, <2>1, <2>2, NoNewsKeeps DEF Session
  <2>4. \A x \in keys' : InMem(x)' # {}
    BY <1>1, <2>2, NoNewsRecords DEF StoreInv, RowsInv, KeysShown
  <2>5. OpReady' /\ KeysShown'
    BY <2>1, <2>4 DEF OpReady, KeysShown
  <2> QED
    BY <2>3, <2>5 DEF RowsInv
<1> QED
  BY <1>5, <1>6

LEMMA QuietKeepsRows ==
    ASSUME Care = Precautions, StoreInv, DeleteDone \/ RollbackCall
    PROVE  RowsInv'
<1>1. /\ UNCHANGED <<pages, committed, log, session, op>> /\ keys' = {}
      /\ \/ pc = "rows" /\ pc' = "ready"
         \/ /\ pc = "ready" /\ pc' = "rollback"
            /\ \A i \in DOMAIN undo : undo[i].was_insert
  BY DEF DeleteDone, RollbackCall, Statement, dml, Precautions, StoreInv, RowsInv, KeysShown
<1>2. NoNews
  BY <1>1, NoNewsIs DEF Session
<1>3. /\ HeapInv' /\ LogOrder' /\ LogTellsCommitted' /\ RowsAreLogged' /\ GoneFromMem'
      /\ MemFollowsLog' /\ UndoTells' /\ Recovered'
  BY <1>1, <1>2, NoNewsKeeps DEF Session
<1>4. OpReady' /\ KeysShown'
  BY <1>1 DEF OpReady, KeysShown
<1> QED
  BY <1>3, <1>4 DEF RowsInv

-------------------------------------------------------------------------------
(* A row is logged.                                                         *)

\* The record that a key has got, after those it had.
OneMoreRecord(k, n, kind, image) ==
    /\ n \in Nat /\ n \notin RecordsOf(k)
    /\ Readable'[n].txid = current_txn /\ Readable'[n].image = image
    /\ (Fits(n)' <=> ~TooLarge(image))
    /\ ~Winner(n)' /\ ~Aborted(n)' /\ Own(n)'
    /\ \A i \in RecordsOf(k) :
           /\ Readable'[i] = Readable[i] /\ i \in Nat /\ i < n /\ (Fits(i)' <=> Fits(i))
           /\ (Winner(i)' <=> Winner(i)) /\ (Aborted(i)' <=> Aborted(i))
           /\ (Own(i)' <=> Own(i))
    /\ InsertsOf(k)' = InsertsOf(k) \cup (IF kind = "INSERT" THEN {n} ELSE {})
    /\ DeletesOf(k)' = DeletesOf(k) \cup (IF kind = "DELETE" THEN {n} ELSE {})
    /\ RecordsOf(k)' = RecordsOf(k) \cup {n}
    /\ InMem(k)' = InMem(k) /\ OnDisk(k)' = OnDisk(k)
    /\ UNCHANGED <<committed, undo>>
    /\ pc = "log" /\ pc' = "apply" /\ op' = op /\ op.pk = k /\ op.kind = kind

LEMMA LogInsertKeeps ==
    ASSUME StoreInv, NEW k \in Key, NEW image \in Image, NEW n, op.pk = k,
           OneMoreRecord(k, n, "INSERT", image)
    PROVE  /\ Ordered(k)' /\ Tells(k)' /\ Logged(k)' /\ OnDisk(k)' = {} /\ Follows(k)'
           /\ Undoable(k)' /\ Remembered(k)'
<1>1. pc = "log" /\ pc' = "apply" /\ op.kind = "INSERT" /\ op'.pk = k
  BY DEF OneMoreRecord
<1>2. InMem(k) = {} /\ DeletesOf(k) = {} /\ \A i \in InsertsOf(k) : ~Aborted(i)
  BY <1>1 DEF StoreInv, RowsInv, OpReady
<1>3. RecordsOf(k) = InsertsOf(k)
  BY <1>2 DEF RecordsOf
<1>4. OnDisk(k) = {}
  BY <1>1, <1>2 DEF StoreInv, RowsInv, GoneFromMem, WhyGone
<1>5. Follows(k) /\ TxnsEnd
  BY <1>1 DEF StoreInv, RowsInv, MemFollowsLog, Session
<1>6. \A i \in RecordsOf(k) : ~Fits(i)
  BY <1>1, <1>2, <1>3, <1>5 DEF Follows, BeingApplied
<1>7. \A i \in RecordsOf(k) : ~Winner(i) => Readable[i].txid = current_txn
  BY <1>2, <1>3, <1>5, RecordIs DEF TxnsEnd, Own
<1>8. Undoable(k) /\ Remembered(k)
  BY <1>1 DEF StoreInv, RowsInv, UndoTells, Session
<1>9. committed[k] = Absent
  BY <1>2, <1>8 DEF Undoable, Remembered, Shows
<1>10. committed' = committed /\ undo' = undo
  BY DEF OneMoreRecord
<1>11. /\ InsertsOf(k)' = InsertsOf(k) \cup {n} /\ DeletesOf(k)' = {}
       /\ RecordsOf(k)' = InsertsOf(k) \cup {n}
       /\ InMem(k)' = {} /\ OnDisk(k)' = {}
  BY <1>2, <1>3, <1>4 DEF OneMoreRecord
<1>12. \A i \in InsertsOf(k) : i \in Nat /\ i < n /\ ~Fits(i)' /\ ~Aborted(i)' /\ (Own(i)' <=> Own(i))
  BY <1>2, <1>3, <1>6 DEF OneMoreRecord
<1>13. /\ n \in Nat /\ ~Winner(n)' /\ ~Aborted(n)' /\ Own(n)' /\ Readable'[n].txid = current_txn
       /\ Readable'[n].image = image
  BY DEF OneMoreRecord
<1>14. \A i \in InsertsOf(k) : ~Winner(i)' => Readable'[i].txid = current_txn
  BY <1>3, <1>7 DEF OneMoreRecord
<1>15. Ordered(k)'
  <2>1. Ordered(k)
    BY DEF StoreInv, RowsInv, LogOrder
  <2>2. \A i \in InsertsOf(k) \cup {n} : Fits(i)' => i = n
    BY <1>12
  <2>3. \A i, j \in InsertsOf(k) \cup {n} : i < j => i \in InsertsOf(k)
    BY <1>12, <1>13
  <2>4. ASSUME NEW i \in InsertsOf(k), NEW j \in InsertsOf(k) \cup {n}, i < j, ~Winner(i)'
        PROVE  Readable'[j].txid = Readable'[i].txid
    <3>1. CASE j = n
      BY <1>13, <1>14, <2>4, <3>1
    <3>2. CASE j # n
      <4>1. /\ Readable'[j] = Readable[j] /\ Readable'[i] = Readable[i]
            /\ (Winner(i)' <=> Winner(i)) /\ i \in RecordsOf(k) /\ j \in RecordsOf(k)
        BY <1>3, <2>4, <3>2 DEF OneMoreRecord
      <4> QED
        BY <2>1, <2>4, <4>1 DEF Ordered
    <3> QED
      BY <3>1, <3>2
  <2> QED
    BY <1>11, <1>12, <2>2, <2>3, <2>4 DEF Ordered
<1>16. Tells(k)'
  BY <1>9, <1>10, <1>11, <1>12, <1>13 DEF Tells
<1>17. Logged(k)'
  <2>1. Shows({}, Absent)
    BY DEF Shows
  <2> QED
    BY <1>9, <1>10, <1>11, <2>1 DEF Logged
<1>18. Follows(k)'
  <2>1. BeingApplied(k)'
    BY <1>1 DEF BeingApplied
  <2> QED
    BY <1>11, <1>12, <1>13, <2>1 DEF Follows
<1>19. Undoable(k)'
  BY <1>2, <1>3, <1>6, <1>8, <1>9, <1>10, <1>11, <1>12 DEF Undoable
<1>20. Remembered(k)'
  BY <1>2, <1>8, <1>9, <1>10, <1>11 DEF Remembered, Shows
<1> QED
  BY <1>11, <1>15, <1>16, <1>17, <1>18, <1>19, <1>20

LEMMA LogDeleteKeeps ==
    ASSUME StoreInv, NEW k \in Key, NEW image \in Image, NEW n, op.pk = k, op.image = image,
           OneMoreRecord(k, n, "DELETE", image)
    PROVE  /\ Ordered(k)' /\ Tells(k)' /\ Logged(k)' /\ InMem(k)' # {} /\ Follows(k)'
           /\ Undoable(k)' /\ Remembered(k)'
<1>1. pc = "log" /\ pc' = "apply" /\ op.kind = "DELETE" /\ op'.pk = k /\ op'.kind = "DELETE"
  BY DEF OneMoreRecord
<1>2. InMem(k) # {} /\ \A a \in InMem(k) : a[2] = image
  <2>1. Shows(InMem(k), image)
    BY <1>1 DEF StoreInv, RowsInv, OpReady
  <2>2. image # Absent
    BY ContentAssumption
  <2> QED
    BY <2>1, <2>2 DEF Shows
<1>3. Follows(k) /\ TxnsEnd
  BY <1>1 DEF StoreInv, RowsInv, MemFollowsLog, Session
<1>4. DeletesOf(k) = {} /\ \A i \in InsertsOf(k) : ~Aborted(i)
  BY <1>1, <1>2, <1>3 DEF Follows, BeingApplied
<1>5. RecordsOf(k) = InsertsOf(k)
  BY <1>4 DEF RecordsOf
<1>6. \A i \in RecordsOf(k) : ~Winner(i) => Readable[i].txid = current_txn
  BY <1>3, <1>4, <1>5, RecordIs DEF TxnsEnd, Own
<1>7. ~TooLarge(image)
  <2>1. mem \in Seq(Page) /\ RowsFit(mem)
    BY DEF StoreInv, RowsInv, HeapInv, HeapTypes
  <2> QED
    BY <1>2, <2>1, RowsType DEF InMem
<1>8. Logged(k) /\ Ordered(k) /\ Tells(k)
  BY DEF StoreInv, RowsInv, RowsAreLogged, LogOrder, LogTellsCommitted
<1>9. \A i \in RecordsOf(k) : Fits(i) => Readable[i].image = image
  BY <1>2, <1>8 DEF Logged
<1>10. Undoable(k) /\ Remembered(k)
  BY <1>1 DEF StoreInv, RowsInv, UndoTells, Session
<1>11. committed[k] = image \/ \E j \in InsertsOf(k) : Own(j)
  BY <1>2, <1>4, <1>10 DEF Undoable, Remembered, Shows
<1>12. \A a \in InMem(k) \cup OnDisk(k) : a[2] = image
  BY <1>2 DEF StoreInv, RowsInv, HeapInv, OneRow
<1>13. committed' = committed /\ undo' = undo
  BY DEF OneMoreRecord
<1>14. /\ InsertsOf(k)' = InsertsOf(k) /\ DeletesOf(k)' = {n}
       /\ RecordsOf(k)' = InsertsOf(k) \cup {n}
       /\ InMem(k)' = InMem(k) /\ OnDisk(k)' = OnDisk(k)
  BY <1>4, <1>5 DEF OneMoreRecord
<1>15. \A i \in InsertsOf(k) :
           /\ i \in Nat /\ i < n /\ ~Aborted(i)' /\ (Own(i)' <=> Own(i)) /\ (Fits(i)' <=> Fits(i))
           /\ (Winner(i)' <=> Winner(i)) /\ Readable'[i] = Readable[i]
  BY <1>4, <1>5 DEF OneMoreRecord
<1>16. /\ n \in Nat /\ ~Winner(n)' /\ ~Aborted(n)' /\ Own(n)' /\ Readable'[n].txid = current_txn
       /\ Readable'[n].image = image /\ Fits(n)' /\ n \notin InsertsOf(k)
  BY <1>5, <1>7 DEF OneMoreRecord
<1>17. Ordered(k)'
  <2>1. \A i, j \in InsertsOf(k) : i < j => ~Fits(i)'
    BY <1>8, <1>15 DEF Ordered
  <2>2. \A i \in InsertsOf(k) : Fits(i)' => Readable'[i].image = image
    BY <1>5, <1>9, <1>15
  <2>3. \A i \in InsertsOf(k) : ~Winner(i)' => Readable'[i].txid = current_txn
    BY <1>5, <1>6, <1>15
  <2>4. \A i, j \in InsertsOf(k) \cup {n} :
           i < j /\ ~Winner(i)' => Readable'[j].txid = Readable'[i].txid
    <3> SUFFICES ASSUME NEW i \in InsertsOf(k) \cup {n}, NEW j \in InsertsOf(k) \cup {n},
                        i < j, ~Winner(i)'
                 PROVE  Readable'[j].txid = Readable'[i].txid
      OBVIOUS
    <3>1. i # n
      BY <1>15, <1>16
    <3>2. CASE j = n
      BY <1>16, <2>3, <3>1, <3>2
    <3>3. CASE j # n
      BY <1>5, <1>8, <1>15, <3>1, <3>3 DEF Ordered
    <3> QED
      BY <3>2, <3>3
  <2>5. \A i, j \in InsertsOf(k) \cup {n} :
           Fits(i)' /\ Fits(j)' => Readable'[i].image = Readable'[j].image
    BY <1>16, <2>2
  <2>6. \A j \in InsertsOf(k) \cup {n} : j <= n
    BY <1>15, <1>16
  <2> QED
    BY <1>14, <1>16, <2>1, <2>4, <2>5, <2>6 DEF Ordered
<1>18. Tells(k)'
  <2>1. \A i \in InsertsOf(k) : /\ ~Winner(i) => committed[k] = Absent
                                /\ Winner(i) /\ Fits(i) => committed[k] = Readable[i].image
    BY <1>4, <1>8 DEF Tells
  <2>2. \A i \in InsertsOf(k) : Own(i) => ~Winner(i)
    BY OpenIsOpen DEF StoreInv
  <2> QED
    BY <1>11, <1>13, <1>14, <1>15, <1>16, <2>1, <2>2 DEF Tells
<1>19. Logged(k)'
  <2>1. \A i \in RecordsOf(k)' : Fits(i)' => Readable'[i].image = image
    BY <1>5, <1>9, <1>14, <1>15, <1>16
  <2> QED
    BY <1>12, <1>14, <1>16, <2>1 DEF Logged
<1>20. Follows(k)'
  <2>1. BeingApplied(k)'
    BY <1>1 DEF BeingApplied
  <2> QED
    BY <1>14, <1>15, <1>16, <2>1 DEF Follows
<1>21. Undoable(k)'
  BY <1>4, <1>10, <1>13, <1>14, <1>15, <1>16 DEF Undoable
<1>22. Remembered(k)'
  BY <1>1, <1>10, <1>13, <1>14 DEF Remembered
<1> QED
  BY <1>2, <1>14, <1>17, <1>18, <1>19, <1>20, <1>21, <1>22

LEMMA LogRowKeepsRows ==
    ASSUME StoreInv, LogRow
    PROVE  RowsInv'
<1>1. /\ pc = "log" /\ pc' = "apply" /\ UNCHANGED <<pages, session, dml, pos, committed>>
      /\ log' = Append(log, [type |-> op.kind, txid |-> current_txn, pk |-> op.pk, image |-> op.image])
  BY DEF LogRow
<1>2. LogInv /\ TypeOK /\ OpReady /\ op \in RowOp /\ current_txn # INVALID_TXN
  BY <1>1 DEF StoreInv, RowsInv, OpReady, LogInv, OpenInSession
<1>3. PICK k \in Key, image \in Image, kind \in {"INSERT", "DELETE"} :
          op.pk = k /\ op.image = image /\ op.kind = kind
  BY <1>2 DEF RowOp
<1>4. PICK n, r : /\ n = Len(Readable) + 1
                 /\ r = [type |-> op.kind, txid |-> current_txn, pk |-> op.pk, image |-> op.image]
  OBVIOUS
<1>5. /\ disk' = disk /\ mem' = mem /\ index' = index /\ op' = op /\ undo' = undo
      /\ current_txn' = current_txn /\ committed' = committed /\ keys' = keys
  BY <1>1 DEF pages, session, dml
<1>6. \A j : InMem(j)' = InMem(j) /\ OnDisk(j)' = OnDisk(j)
  BY <1>5 DEF InMem, OnDisk
<1>7. /\ Len(Readable) \in Nat /\ DOMAIN Readable = 1 .. Len(Readable)
      /\ DOMAIN Readable' = DOMAIN Readable \cup {n} /\ Len(Readable)' = n
      /\ Readable'[n] = r
      /\ Fits(n)' <=> ~TooLarge(image)
      /\ ~Winner(n)' /\ ~Aborted(n)' /\ Own(n)'
      /\ \A i \in DOMAIN Readable :
             /\ Readable'[i] = Readable[i] /\ i < n /\ (Fits(i)' <=> Fits(i))
             /\ (Winner(i)' <=> Winner(i)) /\ (Aborted(i)' <=> Aborted(i))
             /\ (Own(i)' <=> Own(i))
      /\ CommittedTxns' = CommittedTxns /\ AbortedTxns' = AbortedTxns
      /\ \A j : j # k => /\ InsertsOf(j)' = InsertsOf(j) /\ DeletesOf(j)' = DeletesOf(j)
                         /\ RecordsOf(j)' = RecordsOf(j)
      /\ InsertsOf(k)' = InsertsOf(k) \cup (IF kind = "INSERT" THEN {n} ELSE {})
      /\ DeletesOf(k)' = DeletesOf(k) \cup (IF kind = "DELETE" THEN {n} ELSE {})
      /\ RecordsOf(k)' = RecordsOf(k) \cup {n}
      /\ n \notin RecordsOf(k)
  <2>1. pc \in Session
    BY <1>1 DEF Session
  <2>2. /\ r.type = kind /\ r.txid = current_txn /\ r.pk = k /\ r.image = image
        /\ log' = Append(log, r)
    BY <1>1, <1>3, <1>4
  <2>3. LogInv /\ UNCHANGED current_txn
    BY <1>2, <1>5
  <2>4. n = Len(Readable) + 1
    BY <1>4
  <2> QED
    BY <2>1, <2>2, <2>3, <2>4, RowLogged, ZenonT(40)
<1>8. OneMoreRecord(k, n, kind, image)
  <2>1. \A i \in RecordsOf(k) : i \in DOMAIN Readable /\ i \in Nat
    BY <1>7, RecordIs
  <2>2. n \in Nat
    BY <1>4, <1>7
  <2> QED
    BY <1>1, <1>3, <1>4, <1>5, <1>6, <1>7, <2>1, <2>2 DEF OneMoreRecord
<1>9. \A j : j # k => SameKey(j)
  BY <1>5, <1>6, <1>7, RecordIs DEF SameKey
<1>10. /\ Ordered(k)' /\ Tells(k)' /\ Logged(k)' /\ (OnDisk(k)' = {} \/ InMem(k)' # {})
       /\ Follows(k)' /\ Undoable(k)' /\ Remembered(k)'
  BY <1>3, <1>8, LogInsertKeeps, LogDeleteKeeps
<1>11. pc # "refused" /\ pc # "rollback" /\ \A j : ~BeingApplied(j)
  BY <1>1 DEF BeingApplied
<1>12. HeapInv'
  <2>1. UNCHANGED pages /\ Running
    BY <1>1 DEF Running
  <2> QED
    BY <2>1, StayKeeps DEF StoreInv, RowsInv
<1>13. LogOrder'
  BY <1>9, <1>10, SameKeyKeeps DEF StoreInv, RowsInv, LogOrder
<1>14. LogTellsCommitted'
  BY <1>9, <1>10, SameKeyKeeps DEF StoreInv, RowsInv, LogTellsCommitted
<1>15. RowsAreLogged'
  BY <1>9, <1>10, <1>11, SameKeyKeeps DEF StoreInv, RowsInv, RowsAreLogged
<1>16. GoneFromMem'
  <2>1. ASSUME NEW j \in Key, j # k, OnDisk(j)' # {}, InMem(j)' = {} PROVE WhyGone(j)'
    <3>1. WhyGone(j)
      BY <1>6, <2>1 DEF StoreInv, RowsInv, GoneFromMem
    <3>2. pc \in Session /\ pc' \in Session
      BY <1>1 DEF Session
    <3> QED
      BY <1>9, <1>11, <2>1, <3>1, <3>2, SameKeyKeeps
  <2> QED
    BY <1>10, <2>1 DEF GoneFromMem
<1>17. MemFollowsLog'
  <2>1. TxnsEnd /\ \A j \in Key : Follows(j)
    BY <1>1 DEF StoreInv, RowsInv, MemFollowsLog, Session
  <2>2. TxnsEnd'
    BY <1>7, <2>1 DEF TxnsEnd
  <2>3. \A j \in Key : Follows(j)'
    BY <1>9, <1>10, <1>11, <2>1, SameKeyKeeps
  <2> QED
    BY <2>2, <2>3 DEF MemFollowsLog
<1>18. UndoTells'
  <2>1. (\A j \in Key : Undoable(j)) /\ \A j \in Key : Remembered(j)
    BY <1>1 DEF StoreInv, RowsInv, UndoTells, Session
  <2>2. ASSUME NEW j \in Key, j # k PROVE Undoable(j)'
    BY <1>5, <1>9, <2>1, <2>2, SameKeyIs DEF Undoable
  <2>3. ASSUME NEW j \in Key, j # k PROVE Remembered(j)'
    BY <1>1, <1>5, <1>9, <2>1, <2>3, SameKeyIs DEF Remembered
  <2>4. pc' \in Session
    BY <1>1 DEF Session
  <2> QED
    BY <1>1, <1>2, <1>5, <1>10, <2>2, <2>3, <2>4 DEF UndoTells
<1>19. OpReady'
  <2>1. /\ op.kind = "INSERT" => InMem(k)' = {}
        /\ op.kind = "DELETE" => Shows(InMem(k)', image)
    BY <1>1, <1>2, <1>3, <1>6 DEF OpReady
  <2>2. InMem(op.pk)' = InMem(k)'
    BY <1>3, <1>5 DEF InMem
  <2>3. Readable' # <<>> /\ Readable'[Len(Readable)'] = [type |-> op'.kind, txid |-> current_txn',
                                         pk |-> op'.pk, image |-> op'.image]
    BY <1>4, <1>5, <1>7
  <2> QED
    BY <1>1, <1>2, <1>3, <1>5, <2>1, <2>2, <2>3 DEF OpReady
<1>20. KeysShown' /\ Recovered'
  BY <1>1, <1>5, <1>6 DEF StoreInv, RowsInv, KeysShown, Recovered
<1> QED
  BY <1>12, <1>13, <1>14, <1>15, <1>16, <1>17, <1>18, <1>19, <1>20 DEF RowsInv

-------------------------------------------------------------------------------
(* A row that was logged is applied.                                        *)

LEMMA LastLogged ==
    ASSUME StoreInv, pc = "apply", NEW k, op.pk = k, NEW n, n = Len(Readable)
    PROVE  /\ k \in Key /\ op.image \in Image /\ op.kind \in {"INSERT", "DELETE"}
           /\ n \in RecordsOf(k)
           /\ op.kind = "INSERT" => n \in InsertsOf(k)
           /\ op.kind = "DELETE" => n \in DeletesOf(k)
           /\ Readable[n].image = op.image /\ Readable[n].txid = current_txn
           /\ Own(n) /\ ~Winner(n) /\ ~Aborted(n)
           /\ Fits(n) <=> ~TooLarge(op.image)
           /\ \A i \in RecordsOf(k) : i \in Nat /\ i <= n /\ n \in Nat
<1>1. /\ op \in RowOp /\ Readable # <<>>
      /\ Readable[n] = [type |-> op.kind, txid |-> current_txn, pk |-> op.pk, image |-> op.image]
  BY DEF StoreInv, RowsInv, OpReady
<1>2. /\ Len(Readable) \in Nat /\ DOMAIN Readable = 1 .. Len(Readable)
      /\ \A i \in RecordsOf(k) : i \in Nat /\ i <= Len(Readable)
  BY RecordTypes DEF StoreInv
<1>3. n \in DOMAIN Readable
  <2>1. \E S : Readable \in Seq(S)
    BY ReadableIs DEF StoreInv, LogInv
  <2>2. Len(Readable) # 0
    BY <1>1, <2>1
  <2> QED
    BY <1>2, <2>2
<1>4. k \in Key /\ op.image \in Image /\ op.kind \in {"INSERT", "DELETE"}
  BY <1>1 DEF RowOp
<1>5. /\ Readable[n].type = op.kind /\ Readable[n].txid = current_txn
      /\ Readable[n].pk = k /\ Readable[n].image = op.image
  BY <1>1
<1>6. Own(n) /\ ~Winner(n) /\ ~Aborted(n) /\ (Fits(n) <=> ~TooLarge(op.image))
  BY <1>5, OpenIsOpen DEF Own, Fits, StoreInv
<1>7. /\ op.kind = "INSERT" => n \in InsertsOf(k)
      /\ op.kind = "DELETE" => n \in DeletesOf(k)
  BY <1>3, <1>5 DEF InsertsOf, DeletesOf
<1> QED
  BY <1>2, <1>4, <1>5, <1>6, <1>7 DEF RecordsOf

\* Whatever was done to the key of a row that is being inserted is undone or lost.
LEMMA InsertIsAlone ==
    ASSUME StoreInv, pc = "apply", op.kind = "INSERT", NEW k, op.pk = k
    PROVE  /\ DeletesOf(k) = {} /\ \A i \in InsertsOf(k) : ~Aborted(i)
           /\ InMem(k) = {} /\ OnDisk(k) = {} /\ committed[k] = Absent
<1>1. PICK n : n = Len(Readable)
  OBVIOUS
<1>2. /\ k \in Key /\ n \in RecordsOf(k) /\ n \in InsertsOf(k)
      /\ Readable[n].txid = current_txn /\ ~Winner(n) /\ ~Aborted(n)
      /\ \A i \in RecordsOf(k) : i \in Nat /\ i <= n /\ n \in Nat
  BY <1>1, LastLogged
<1>3. Ordered(k) /\ Tells(k) /\ TxnsEnd
  BY <1>2 DEF StoreInv, RowsInv, LogOrder, LogTellsCommitted, MemFollowsLog, Session
<1>4. \A i : ~(i \in InsertsOf(k) /\ i \in DeletesOf(k))
  BY DEF InsertsOf, DeletesOf
<1>5. DeletesOf(k) = {}
  <2> SUFFICES ASSUME NEW i \in DeletesOf(k) PROVE FALSE
    OBVIOUS
  <2>1. i \in RecordsOf(k)
    BY DEF RecordsOf
  <2>2. i = n
    BY <1>2, <1>3, <2>1 DEF Ordered
  <2> QED
    BY <1>2, <1>4, <2>2
<1>6. ASSUME NEW i \in InsertsOf(k) PROVE ~Aborted(i)
  <2> SUFFICES ASSUME Aborted(i) PROVE FALSE
    OBVIOUS
  <2>1. i \in RecordsOf(k)
    BY DEF RecordsOf
  <2>2. i < n
    BY <1>2, <2>1
  <2>3. ~Winner(i)
    BY <1>3 DEF TxnsEnd, Winner, Aborted
  <2>4. Readable[n].txid = Readable[i].txid
    BY <1>2, <1>3, <2>1, <2>2, <2>3 DEF Ordered
  <2> QED
    BY <1>2, <2>4 DEF Aborted
<1>7. InMem(k) = {}
  BY DEF StoreInv, RowsInv, OpReady
<1>8. OnDisk(k) = {}
  BY <1>2, <1>5, <1>6, <1>7 DEF StoreInv, RowsInv, GoneFromMem, WhyGone
<1>9. committed[k] = Absent
  BY <1>2, <1>3 DEF Tells
<1> QED
  BY <1>5, <1>6, <1>7, <1>8, <1>9

\* One more operation to undo.
LEMMA OneMoreUndo ==
    ASSUME undo \in Seq(Undo), NEW e \in Undo, undo' = Append(undo, e)
    PROVE  /\ \A i \in DOMAIN undo : i \in DOMAIN undo' /\ undo'[i] = undo[i]
           /\ \E n : n \in DOMAIN undo' /\ undo'[n] = e
                     /\ DOMAIN undo' = DOMAIN undo \cup {n}
           /\ undo' \in Seq(Undo)
<1>1. /\ Len(undo) + 1 \in DOMAIN undo' /\ undo'[Len(undo) + 1] = e
      /\ DOMAIN undo' = DOMAIN undo \cup {Len(undo) + 1}
      /\ undo' \in Seq(Undo)
      /\ \A i \in DOMAIN undo : i \in DOMAIN undo' /\ undo'[i] = undo[i]
  OBVIOUS
<1> QED
  BY <1>1

\* Every other key when a row has been applied.
LEMMA OthersApplied ==
    ASSUME StoreInv, NEW k, NEW j \in Key, j # k, SameKey(j), undo \in Seq(Undo),
           NEW e \in Undo, e.pk = k, undo' = Append(undo, e),
           pc = "apply", op.pk = k, pc' \in Session \ {"apply", "rollback"}
    PROVE  /\ Logged(j)' /\ (WhyGone(j) => WhyGone(j)') /\ Follows(j)'
           /\ Undoable(j)' /\ Remembered(j)'
<1>1. /\ Logged(j) /\ Follows(j) /\ Undoable(j) /\ Remembered(j)
  BY DEF StoreInv, RowsInv, RowsAreLogged, MemFollowsLog, UndoTells, Session
<1>2. PICK n : /\ \A i \in DOMAIN undo : i \in DOMAIN undo' /\ undo'[i] = undo[i]
               /\ n \in DOMAIN undo' /\ undo'[n] = e /\ DOMAIN undo' = DOMAIN undo \cup {n}
  BY OneMoreUndo
<1>3. Logged(j)' /\ (WhyGone(j) => WhyGone(j)') /\ Follows(j)'
  BY <1>1, SameKeyKeeps DEF Session, BeingApplied
<1>4. Undoable(j)'
  BY <1>1, <1>2, SameKeyIs DEF Undoable
<1>5. Remembered(j)'
  <2>1. Shows(InMem(j)', committed'[j]) \/ \E i \in DOMAIN undo' : undo'[i].pk = j
    BY <1>1, <1>2, SameKeyIs DEF Remembered
  <2>2. ASSUME NEW i \in DeletesOf(j)', Own(i)'
        PROVE  pc' # "rollback" /\ \E x \in DOMAIN undo' : ~undo'[x].was_insert
    <3>1. \E x \in DOMAIN undo : ~undo[x].was_insert
      BY <1>1, <2>2, SameKeyIs DEF Remembered
    <3> QED
      BY <1>2, <3>1
  <2> QED
    BY <2>1, <2>2 DEF Remembered
<1> QED
  BY <1>3, <1>4, <1>5

LEMMA ApplyKeepsRows ==
    ASSUME StoreInv, ApplyInsert \/ ApplyDelete
    PROVE  RowsInv'
<1>1. pc = "apply" /\ Remember
  BY DEF ApplyInsert, ApplyDelete
<1>2. PICK k, n, e : /\ k = op.pk /\ n = Len(Readable)
                     /\ e = [was_insert |-> op.kind = "INSERT", pk |-> op.pk, image |-> op.image]
  OBVIOUS
<1>3. /\ k \in Key /\ op.image \in Image /\ op.kind \in {"INSERT", "DELETE"}
      /\ n \in RecordsOf(k)
      /\ op.kind = "INSERT" => n \in InsertsOf(k)
      /\ op.kind = "DELETE" => n \in DeletesOf(k)
      /\ Readable[n].image = op.image
      /\ Own(n) /\ (Fits(n) <=> ~TooLarge(op.image))
  BY <1>1, <1>2, LastLogged
<1>4. /\ log' = log /\ committed' = committed /\ current_txn' = current_txn /\ keys' = keys
      /\ undo' = Append(undo, e) /\ pc' = EndOfRow
  BY <1>1, <1>2 DEF Remember
<1>5. pc' \in {"commit", "rows", "ready"} /\ (pc' = "ready" => op.kind = "INSERT")
      /\ (pc' = "rows" => op.kind = "DELETE") /\ (pc' = "commit" => op' = op)
  BY <1>1, <1>3 DEF Remember, EndOfRow
<1>6. e \in Undo /\ e.pk = k /\ (e.was_insert <=> op.kind = "INSERT")
  BY <1>2, <1>3 DEF Undo
<1>7. /\ Readable' = Readable /\ CommittedTxns' = CommittedTxns /\ AbortedTxns' = AbortedTxns
      /\ \A j : InsertsOf(j)' = InsertsOf(j) /\ DeletesOf(j)' = DeletesOf(j) /\ RecordsOf(j)' = RecordsOf(j)
      /\ \A i : /\ (Fits(i)' <=> Fits(i)) /\ (Winner(i)' <=> Winner(i)) /\ (Aborted(i)' <=> Aborted(i))
                /\ (Own(i)' <=> Own(i))
  BY <1>4, SameLog, SameRecords
<1>8. HeapInv /\ Running /\ undo \in Seq(Undo) /\ Ordered(k) /\ Logged(k) /\ Follows(k) /\ Undoable(k)
      /\ TxnsEnd
  BY <1>1, <1>3 DEF StoreInv, TypeOK, RowsInv, Running, LogOrder, RowsAreLogged, MemFollowsLog,
                    UndoTells, Session
<1>9. /\ HeapInv'
      /\ \A j \in Key : j # k => InMem(j)' = InMem(j) /\ OnDisk(j)' = OnDisk(j)
      /\ \/ /\ op.kind = "INSERT" /\ ~TooLarge(op.image)
            /\ (\E r : InMem(k)' = {<<r, op.image>>}) /\ OnDisk(k)' = {}
         \/ op.kind = "DELETE" /\ InMem(k)' = {} /\ OnDisk(k)' = OnDisk(k)
  <2>1. CASE ApplyInsert
    <3>1. op.kind = "INSERT" /\ ~TooLarge(op.image)
      BY <2>1 DEF ApplyInsert
    <3>2. PICK x \in Image : x = op.image
      BY <1>3
    <3>3. PhysInsert(k, x) /\ ~TooLarge(x)
      BY <1>2, <2>1, <3>2 DEF ApplyInsert
    <3>4. InMem(k) = {} /\ OnDisk(k) = {}
      BY <1>1, <1>2, <3>1, InsertIsAlone
    <3> QED
      BY <1>3, <1>8, <3>1, <3>2, <3>3, <3>4, PutKeeps
  <2>2. CASE ApplyDelete
    <3>1. PhysDelete(k) /\ op.kind = "DELETE"
      BY <1>2, <2>2 DEF ApplyDelete
    <3> QED
      BY <1>3, <1>8, <3>1, DropKeeps
  <2> QED
    BY <2>1, <2>2
<1>10. \A j \in Key : j # k => SameKey(j)
  BY <1>4, <1>7, <1>9 DEF SameKey
<1>11. \A j \in Key : j # k =>
           /\ Logged(j)' /\ (WhyGone(j) => WhyGone(j)') /\ Follows(j)'
           /\ Undoable(j)' /\ Remembered(j)'
  BY <1>1, <1>2, <1>4, <1>5, <1>6, <1>8, <1>10, OthersApplied DEF Session
<1>12. PICK m : /\ \A i \in DOMAIN undo : i \in DOMAIN undo' /\ undo'[i] = undo[i]
                /\ m \in DOMAIN undo' /\ undo'[m] = e /\ DOMAIN undo' = DOMAIN undo \cup {m}
  BY <1>4, <1>6, <1>8, OneMoreUndo
<1>13. Logged(k)' /\ (OnDisk(k)' # {} /\ InMem(k)' = {} => WhyGone(k)') /\ Follows(k)'
       /\ Undoable(k)' /\ Remembered(k)'
  <2>1. pc' \in Session /\ pc' # "rollback" /\ ~BeingApplied(k)'
    BY <1>5 DEF Session, BeingApplied
  <2>2. CASE op.kind = "INSERT"
    <3>1. PICK r : InMem(k)' = {<<r, op.image>>}
      BY <1>9, <2>2
    <3>2. OnDisk(k)' = {} /\ Fits(n)
      BY <1>3, <1>9, <2>2
    <3>3. DeletesOf(k) = {} /\ (\A i \in InsertsOf(k) : ~Aborted(i)) /\ committed[k] = Absent
      BY <1>1, <1>2, <2>2, InsertIsAlone
    <3>4. \A i \in RecordsOf(k) : Fits(i) => Readable[i].image = op.image
      BY <1>3, <1>8, <3>2 DEF Ordered
    <3>5. Logged(k)'
      BY <1>3, <1>7, <3>1, <3>2, <3>4 DEF Logged
    <3>6. Follows(k)'
      BY <1>7, <3>1, <3>3 DEF Follows
    <3>7. Undoable(k)'
      BY <1>3, <1>4, <1>6, <1>7, <1>8, <1>12, <2>2, <3>2, <3>3 DEF Undoable
    <3>8. Remembered(k)'
      BY <1>6, <1>7, <1>12, <3>3 DEF Remembered
    <3> QED
      BY <3>1, <3>5, <3>6, <3>7, <3>8
  <2>3. CASE op.kind = "DELETE"
    <3>1. InMem(k)' = {} /\ OnDisk(k)' = OnDisk(k) /\ n \in DeletesOf(k)
      BY <1>3, <1>9, <2>3
    <3>2. Fits(n)
      BY <1>8, <3>1 DEF Ordered
    <3>3. Logged(k)'
      BY <1>3, <1>7, <1>8, <3>1, <3>2 DEF Logged
    <3>4. WhyGone(k)'
      BY <1>7, <2>1, <3>1 DEF WhyGone
    <3>5. Follows(k)'
      BY <1>7, <1>8, <3>1 DEF Follows
    <3>6. Undoable(k)'
      BY <1>3, <1>4, <1>6, <1>7, <1>8, <1>12, <2>3, <3>1 DEF Undoable
    <3>7. Remembered(k)'
      BY <1>6, <1>12, <2>1, <2>3 DEF Remembered
    <3> QED
      BY <3>3, <3>4, <3>5, <3>6, <3>7
  <2> QED
    BY <1>3, <2>2, <2>3
<1>14. LogOrder' /\ LogTellsCommitted'
  BY <1>4, <1>7, SameOrder, SameCommitted DEF StoreInv, RowsInv
<1>15. RowsAreLogged'
  BY <1>11, <1>13 DEF RowsAreLogged
<1>16. GoneFromMem'
  BY <1>9, <1>11, <1>13 DEF GoneFromMem, StoreInv, RowsInv
<1>17. MemFollowsLog'
  <2>1. TxnsEnd'
    BY <1>7, <1>8 DEF TxnsEnd
  <2> QED
    BY <1>11, <1>13, <2>1 DEF MemFollowsLog
<1>18. UndoTells'
  <2>1. current_txn' # INVALID_TXN /\ pc' \in Session /\ pc' # "rollback"
    BY <1>1, <1>4, <1>5 DEF StoreInv, LogInv, OpenInSession, Session
  <2> QED
    BY <1>11, <1>13, <2>1 DEF UndoTells
<1>19. OpReady' /\ Recovered'
  BY <1>5 DEF OpReady, Recovered
<1>20. KeysShown'
  <2>1. KeysShown
    BY DEF StoreInv, RowsInv
  <2>2. \A j \in keys : j \in Key /\ j # k
    BY <1>1, <1>2, <2>1 DEF KeysShown, StoreInv, TypeOK
  <2>3. \A j \in keys' : InMem(j)' # {}
    BY <1>4, <1>9, <2>1, <2>2 DEF KeysShown
  <2>4. keys # {} => op.kind = "DELETE"
    BY <1>1, <2>1 DEF KeysShown
  <2> QED
    BY <1>4, <1>5, <2>3, <2>4 DEF KeysShown
<1> QED
  BY <1>9, <1>14, <1>15, <1>16, <1>17, <1>18, <1>19, <1>20 DEF RowsInv

\* The heap rejects the row: its record stays, and recovery will not find room
\* for it either.
LEMMA InsertThrowsKeepsRows ==
    ASSUME StoreInv, InsertThrows
    PROVE  RowsInv'
<1>1. /\ pc = "apply" /\ op.kind = "INSERT" /\ TooLarge(op.image) /\ pc' = "ready"
      /\ disk' = disk /\ mem' = mem /\ index' = index /\ log' = log /\ committed' = committed
      /\ current_txn' = current_txn /\ undo' = undo /\ keys' = keys
  BY DEF InsertThrows, pages, session
<1>2. PICK k, n : k = op.pk /\ n = Len(Readable)
  OBVIOUS
<1>3. /\ k \in Key /\ n \in InsertsOf(k) /\ ~Fits(n)
      /\ \A i \in RecordsOf(k) : i \in Nat /\ i <= n /\ n \in Nat
  BY <1>1, <1>2, LastLogged
<1>4. DeletesOf(k) = {} /\ (\A i \in InsertsOf(k) : ~Aborted(i)) /\ InMem(k) = {}
  BY <1>1, <1>2, InsertIsAlone
<1>5. \A i \in InsertsOf(k) : ~Fits(i)
  <2>1. Ordered(k)
    BY <1>3 DEF StoreInv, RowsInv, LogOrder
  <2>2. InsertsOf(k) \subseteq RecordsOf(k)
    BY DEF RecordsOf
  <2> QED
    BY <1>3, <2>1, <2>2 DEF Ordered
<1>6. /\ Readable' = Readable /\ CommittedTxns' = CommittedTxns /\ AbortedTxns' = AbortedTxns
      /\ \A j : InsertsOf(j)' = InsertsOf(j) /\ DeletesOf(j)' = DeletesOf(j) /\ RecordsOf(j)' = RecordsOf(j)
      /\ \A i : /\ (Fits(i)' <=> Fits(i)) /\ (Winner(i)' <=> Winner(i)) /\ (Aborted(i)' <=> Aborted(i))
                /\ (Own(i)' <=> Own(i))
  BY <1>1, SameLog, SameRecords
<1>7. \A j : SameKey(j)
  BY <1>1, <1>6 DEF SameKey, InMem, OnDisk
<1>8. HeapInv'
  <2>1. UNCHANGED pages /\ Running
    BY <1>1 DEF Running, pages
  <2> QED
    BY <2>1, StayKeeps DEF StoreInv, RowsInv
<1>9. LogOrder' /\ LogTellsCommitted'
  BY <1>1, <1>6, SameOrder, SameCommitted DEF StoreInv, RowsInv
<1>10. RowsAreLogged'
  BY <1>1, <1>7, SameKeyKeeps DEF StoreInv, RowsInv, RowsAreLogged
<1>11. GoneFromMem'
  <2>1. pc \in Session /\ pc' \in Session /\ pc # "rollback"
    BY <1>1 DEF Session
  <2>2. \A j \in Key : OnDisk(j) # {} /\ InMem(j) = {} => WhyGone(j)
    BY DEF StoreInv, RowsInv, GoneFromMem
  <2> QED
    BY <1>7, <2>1, <2>2, SameKeyKeeps, SameKeyIs DEF GoneFromMem
<1>12. MemFollowsLog'
  <2>1. TxnsEnd /\ \A j \in Key : Follows(j)
    BY <1>1 DEF StoreInv, RowsInv, MemFollowsLog, Session
  <2>2. TxnsEnd'
    BY <1>6, <2>1 DEF TxnsEnd
  <2>3. ASSUME NEW j \in Key PROVE Follows(j)'
    <3>1. CASE j = k
      BY <1>4, <1>5, <1>6, <1>7, <3>1 DEF Follows, SameKey
    <3>2. CASE j # k
      BY <1>1, <1>2, <1>7, <2>1, <3>2, SameKeyKeeps DEF BeingApplied
    <3> QED
      BY <3>1, <3>2
  <2> QED
    BY <2>2, <2>3 DEF MemFollowsLog
<1>13. UndoTells'
  <2>1. /\ current_txn # INVALID_TXN
        /\ \A j \in Key : Undoable(j) /\ Remembered(j)
    BY <1>1 DEF StoreInv, RowsInv, LogInv, OpenInSession, UndoTells, Session
  <2>2. ASSUME NEW j \in Key PROVE Undoable(j)' /\ Remembered(j)'
    <3>1. Undoable(j)'
      BY <1>1, <1>7, <2>1, SameKeyIs DEF Undoable
    <3>2. Remembered(j)'
      BY <1>1, <1>7, <2>1, SameKeyIs DEF Remembered
    <3> QED
      BY <3>1, <3>2
  <2> QED
    BY <1>1, <2>1, <2>2 DEF UndoTells, Session
<1>14. KeysShown'
  BY <1>1, <1>7 DEF StoreInv, RowsInv, KeysShown, SameKey
<1>15. OpReady' /\ Recovered'
  BY <1>1 DEF OpReady, Recovered
<1> QED
  BY <1>8, <1>9, <1>10, <1>11, <1>12, <1>13, <1>14, <1>15 DEF RowsInv

-------------------------------------------------------------------------------
(* The end of a transaction.                                                *)

\* The last operation is taken back; the transaction is one that only inserted.
LEMMA UndoOneKeepsRows ==
    ASSUME StoreInv, UndoOne
    PROVE  RowsInv'
<1>1. /\ pc = "rollback" /\ pc' = "rollback" /\ log' = log /\ committed' = committed
      /\ current_txn' = current_txn /\ keys' = keys /\ undo # <<>> /\ undo' = Front(undo)
  BY DEF UndoOne, dml
<1>2. undo \in Seq(Undo)
  BY DEF StoreInv, TypeOK
<1>3. PICK m, e : m = Len(undo) /\ e = undo[m]
  OBVIOUS
<1>4. /\ m \in DOMAIN undo /\ ToUndo = e /\ e \in Undo
      /\ DOMAIN undo' = DOMAIN undo \ {m}
      /\ \A i \in DOMAIN undo' : undo'[i] = undo[i]
  <2>1. Len(undo) \in Nat /\ Len(undo) # 0 /\ DOMAIN undo = 1 .. Len(undo)
    BY <1>1, <1>2
  <2>2. Front(undo) = SubSeq(undo, 1, Len(undo) - 1) /\ Last(undo) = undo[Len(undo)]
    BY DEF Front, Last
  <2>3. /\ DOMAIN SubSeq(undo, 1, Len(undo) - 1) = 1 .. Len(undo) - 1
        /\ \A i \in 1 .. Len(undo) - 1 : SubSeq(undo, 1, Len(undo) - 1)[i] = undo[i]
    BY <1>2, <2>1
  <2>4. ToUndo = e
    BY <1>3, <2>2 DEF ToUndo
  <2> QED
    BY <1>1, <1>2, <1>3, <2>1, <2>2, <2>3, <2>4
<1>5. PICK k \in Key : k = e.pk
  BY <1>4 DEF Undo
<1>6. e.was_insert /\ PhysDelete(k)
  <2>1. e.was_insert
    BY <1>1, <1>3, <1>4 DEF StoreInv, RowsInv, UndoTells
  <2> QED
    BY <1>4, <1>5, <2>1 DEF UndoOne
<1>7. /\ \A j \in Key : Undoable(j) /\ Remembered(j) /\ Follows(j) /\ Logged(j) /\ Ordered(j)
      /\ TxnsEnd /\ HeapInv /\ Running
  BY <1>1 DEF StoreInv, RowsInv, UndoTells, MemFollowsLog, LogOrder, RowsAreLogged, Session, Running
<1>8. committed[k] = Absent /\ \E j \in InsertsOf(k) : Own(j) /\ Fits(j)
  BY <1>3, <1>4, <1>5, <1>6, <1>7 DEF Undoable
<1>9. PICK n \in InsertsOf(k) : Own(n) /\ Fits(n)
  BY <1>8
<1>10. /\ HeapInv' /\ InMem(k)' = {}
       /\ \A j \in Key : j # k => InMem(j)' = InMem(j)
       /\ \A j : OnDisk(j)' = OnDisk(j)
  BY <1>6, <1>7, DropKeeps
<1>11. /\ Readable' = Readable /\ CommittedTxns' = CommittedTxns /\ AbortedTxns' = AbortedTxns
       /\ \A j : InsertsOf(j)' = InsertsOf(j) /\ DeletesOf(j)' = DeletesOf(j) /\ RecordsOf(j)' = RecordsOf(j)
       /\ \A i : /\ (Fits(i)' <=> Fits(i)) /\ (Winner(i)' <=> Winner(i)) /\ (Aborted(i)' <=> Aborted(i))
                 /\ (Own(i)' <=> Own(i))
  BY <1>1, SameLog, SameRecords
<1>12. \A j \in Key : j # k => SameKey(j)
  BY <1>1, <1>10, <1>11 DEF SameKey
<1>13. LogOrder' /\ LogTellsCommitted'
  BY <1>1, <1>11, SameOrder, SameCommitted DEF StoreInv, RowsInv
<1>14. RowsAreLogged'
  <2>1. Logged(k)'
    <3>1. n \in RecordsOf(k)
      BY DEF RecordsOf
    <3> QED
      BY <1>7, <1>9, <1>10, <1>11, <3>1 DEF Logged
  <2>2. \A j \in Key : j # k => Logged(j)'
    BY <1>1, <1>7, <1>12, SameKeyKeeps
  <2> QED
    BY <2>1, <2>2 DEF RowsAreLogged
<1>15. GoneFromMem'
  <2>1. WhyGone(k)'
    BY <1>1, <1>9, <1>11 DEF WhyGone, Session
  <2>2. ASSUME NEW j \in Key, j # k, OnDisk(j)' # {}, InMem(j)' = {} PROVE WhyGone(j)'
    <3>1. WhyGone(j)
      BY <1>10, <2>2 DEF StoreInv, RowsInv, GoneFromMem
    <3> QED
      BY <1>1, <1>12, <2>2, <3>1, SameKeyKeeps DEF Session
  <2> QED
    BY <2>1, <2>2 DEF GoneFromMem
<1>16. MemFollowsLog'
  <2>1. TxnsEnd'
    BY <1>7, <1>11 DEF TxnsEnd
  \* The row's INSERT is the open transaction's, as no other of the key fits.
  <2>2. \A i \in InsertsOf(k) : Fits(i) => i = n
    <3>1. Ordered(k)
      BY <1>7
    <3>2. \A i \in InsertsOf(k) : i \in Nat
      BY RecordTypes DEF StoreInv, RecordsOf
    <3> QED
      BY <1>9, <3>1, <3>2 DEF Ordered
  <2>3. Follows(k)'
    <3>1. \A i \in DeletesOf(k) : ~Aborted(i)
      BY <1>7 DEF Follows
    <3> QED
      BY <1>1, <1>9, <1>10, <1>11, <2>2, <3>1 DEF Follows
  <2>4. \A j \in Key : j # k => Follows(j)'
    BY <1>1, <1>7, <1>12, SameKeyKeeps DEF BeingApplied
  <2> QED
    BY <2>1, <2>3, <2>4 DEF MemFollowsLog
<1>17. UndoTells'
  <2>1. current_txn' # INVALID_TXN
    BY <1>1 DEF StoreInv, LogInv, OpenInSession
  <2>2. \A i \in DOMAIN undo' : undo'[i].was_insert
    BY <1>1, <1>4 DEF StoreInv, RowsInv, UndoTells
  <2>3. ASSUME NEW j \in Key PROVE Undoable(j)'
    BY <1>1, <1>4, <1>7, <1>11 DEF Undoable
  <2>4. ASSUME NEW j \in Key PROVE Remembered(j)'
    <3>1. \A i \in DeletesOf(j) : ~Own(i)
      BY <1>1, <1>7 DEF Remembered
    <3>2. Shows(InMem(j)', committed[j]) \/ \E i \in DOMAIN undo' : undo'[i].pk = j
      <4>1. CASE j = k
        BY <1>8, <1>10, <4>1 DEF Shows
      <4>2. CASE j # k
        <5>1. InMem(j)' = InMem(j)
          BY <1>10, <4>2
        <5>2. Shows(InMem(j), committed[j]) \/ \E i \in DOMAIN undo : undo[i].pk = j
          BY <1>7 DEF Remembered
        <5>3. \A i \in DOMAIN undo : undo[i].pk = j => i \in DOMAIN undo' /\ undo'[i].pk = j
          BY <1>3, <1>4, <1>5, <4>2
        <5> QED
          BY <5>1, <5>2, <5>3
      <4> QED
        BY <4>1, <4>2
    <3> QED
      BY <1>1, <1>11, <3>1, <3>2 DEF Remembered
  <2> QED
    BY <1>1, <2>1, <2>2, <2>3, <2>4 DEF UndoTells, Session
<1>18. KeysShown'
  BY <1>1 DEF StoreInv, RowsInv, KeysShown
<1>19. OpReady' /\ Recovered'
  BY <1>1 DEF OpReady, Recovered
<1> QED
  BY <1>10, <1>13, <1>14, <1>15, <1>16, <1>17, <1>18, <1>19 DEF RowsInv

\* The records once the open transaction has ended.
EndedWith(type) ==
    /\ \A k : /\ InsertsOf(k)' = InsertsOf(k) /\ DeletesOf(k)' = DeletesOf(k)
              /\ RecordsOf(k)' = RecordsOf(k)
              /\ InMem(k)' = InMem(k) /\ OnDisk(k)' = OnDisk(k)
              /\ InsertsOf(k) \subseteq RecordsOf(k) /\ DeletesOf(k) \subseteq RecordsOf(k)
              /\ \A i \in RecordsOf(k) : /\ Readable'[i] = Readable[i]
                                         /\ (Fits(i)' <=> Fits(i)) /\ ~Own(i)'
                                         /\ i \in DOMAIN Readable
    /\ \A i \in DOMAIN Readable :
           /\ Winner(i)' <=> Winner(i) \/ (type = "COMMIT" /\ Own(i))
           /\ Aborted(i)' <=> Aborted(i) \/ (type = "ABORT" /\ Own(i))
    /\ TxnsEnd => TxnsEnd'

LEMMA Ended ==
    ASSUME StoreInv, NEW type \in {"COMMIT", "ABORT"}, EndTxn(type), pc \in Session,
           current_txn # INVALID_TXN, UNCHANGED <<disk, mem, index>>
    PROVE  EndedWith(type)
<1>1. /\ log' = Append(log, [type |-> type, txid |-> current_txn])
      /\ current_txn' = INVALID_TXN
  BY DEF EndTxn, Logs
<1>2. PICK n, t : n = Len(Readable) + 1 /\ t = current_txn
  OBVIOUS
<1>3. /\ Len(Readable) \in Nat /\ DOMAIN Readable = 1 .. Len(Readable)
      /\ DOMAIN Readable' = DOMAIN Readable \cup {n} /\ Len(Readable)' = n
      /\ Readable'[n].txid = t
      /\ \A i \in DOMAIN Readable :
             /\ Readable'[i] = Readable[i] /\ i < n /\ (Fits(i)' <=> Fits(i))
             /\ Winner(i)' <=> Winner(i) \/ (type = "COMMIT" /\ Readable[i].txid = t)
             /\ Aborted(i)' <=> Aborted(i) \/ (type = "ABORT" /\ Readable[i].txid = t)
      /\ CommittedTxns' = CommittedTxns \cup (IF type = "COMMIT" THEN {t} ELSE {})
      /\ AbortedTxns' = AbortedTxns \cup (IF type = "ABORT" THEN {t} ELSE {})
      /\ \A k : /\ InsertsOf(k)' = InsertsOf(k) /\ DeletesOf(k)' = DeletesOf(k)
                /\ RecordsOf(k)' = RecordsOf(k)
  <2>1. log' = Append(log, [type |-> type, txid |-> t]) /\ LogInv /\ n = Len(Readable) + 1
    BY <1>1, <1>2 DEF StoreInv
  <2> QED
    BY <2>1, TxnLogged
<1>4. \A k : InMem(k)' = InMem(k) /\ OnDisk(k)' = OnDisk(k)
  BY DEF InMem, OnDisk
<1>5. \A i \in DOMAIN Readable : Readable[i].txid # INVALID_TXN
  BY DEF StoreInv, LogInv, NumbersAscend, INVALID_TXN
<1>6. \A i \in DOMAIN Readable : ~Own(i)' /\ (Own(i) <=> Readable[i].txid = t)
  BY <1>1, <1>2, <1>3, <1>5 DEF Own
<1>7. \A k : \A i \in RecordsOf(k) : i \in DOMAIN Readable
  BY RecordIs
<1>8. \A k : InsertsOf(k) \subseteq RecordsOf(k) /\ DeletesOf(k) \subseteq RecordsOf(k)
  BY DEF RecordsOf
<1>9. TxnsEnd => TxnsEnd'
  <2> SUFFICES ASSUME TxnsEnd PROVE TxnsEnd'
    OBVIOUS
  <2>1. ASSUME NEW i \in DOMAIN Readable' PROVE Winner(i)' \/ Aborted(i)'
    <3>1. CASE i = n
      BY <1>3, <3>1 DEF Winner, Aborted
    <3>2. CASE i # n
      BY <1>3, <1>6, <3>2 DEF TxnsEnd
    <3> QED
      BY <3>1, <3>2
  <2>2. CommittedTxns' \cap AbortedTxns' = {}
    <3>1. t \notin CommittedTxns /\ t \notin AbortedTxns
      BY <1>2, OpenIsOpen DEF StoreInv
    <3> QED
      BY <1>3, <3>1 DEF TxnsEnd
  <2> QED
    BY <2>1, <2>2 DEF TxnsEnd
<1> QED
  BY <1>3, <1>4, <1>6, <1>7, <1>8, <1>9 DEF EndedWith

LEMMA CommitKeepsRows ==
    ASSUME StoreInv, EndTxn("COMMIT"), committed' = Contents(mem),
           pc \in {"ready", "commit"}, pc' \in {"ready", "rows"}, current_txn # INVALID_TXN,
           UNCHANGED <<disk, mem, index, keys>>,
           \/ pc = "ready" /\ pc' = "ready"
           \/ pc = "commit" /\ (op.kind # "DELETE" <=> pc' = "ready")
    PROVE  RowsInv' /\ committed' \in [Key -> Image \cup {Absent}]
<1>1. pc \in Session /\ pc' \in Session /\ pc' # "rollback" /\ current_txn' = INVALID_TXN /\ undo' = <<>>
      /\ \A k : ~BeingApplied(k) /\ ~BeingApplied(k)'
  BY DEF EndTxn, Session, BeingApplied
<1>2. EndedWith("COMMIT")
  BY <1>1, Ended
<1>3. /\ \A k \in Key : Ordered(k) /\ Tells(k) /\ Logged(k) /\ Follows(k)
      /\ TxnsEnd /\ HeapInv /\ Running
  BY <1>1 DEF StoreInv, RowsInv, MemFollowsLog, LogOrder, LogTellsCommitted, RowsAreLogged, Session,
              Running
<1>4. /\ committed' \in [Key -> Image \cup {Absent}]
      /\ \A k \in Key : Shows(InMem(k), committed'[k])
  <2>1. mem \in Seq(Page) /\ \A k \in Key : \A a, b \in RowsOf(mem, k) : a = b
    BY <1>3 DEF HeapInv, HeapTypes, OneRow, InMem
  <2> QED
    BY <2>1, ContentsShow DEF InMem
<1>5. ASSUME NEW k \in Key
      PROVE  /\ Ordered(k)' /\ Tells(k)' /\ Logged(k)' /\ (WhyGone(k) => WhyGone(k)') /\ Follows(k)'
             /\ Undoable(k)' /\ Remembered(k)'
  <2> DEFINE c == committed'[k]
  <2>1. /\ InsertsOf(k)' = InsertsOf(k) /\ DeletesOf(k)' = DeletesOf(k)
        /\ RecordsOf(k)' = RecordsOf(k)
        /\ InMem(k)' = InMem(k) /\ OnDisk(k)' = OnDisk(k)
        /\ InsertsOf(k) \subseteq RecordsOf(k) /\ DeletesOf(k) \subseteq RecordsOf(k)
        /\ \A i \in RecordsOf(k) : /\ Readable'[i] = Readable[i]
                                   /\ (Fits(i)' <=> Fits(i)) /\ ~Own(i)'
                                   /\ (Winner(i)' <=> Winner(i) \/ Own(i))
                                   /\ (Aborted(i)' <=> Aborted(i))
                                   /\ (Winner(i)' \/ Aborted(i)') /\ ~(Winner(i)' /\ Aborted(i)')
    <3>1. TxnsEnd'
      BY <1>2, <1>3 DEF EndedWith
    <3>2. \A i : ~(Winner(i)' /\ Aborted(i)')
      BY <3>1 DEF TxnsEnd, Winner, Aborted
    <3>3. /\ InsertsOf(k)' = InsertsOf(k) /\ DeletesOf(k)' = DeletesOf(k)
          /\ RecordsOf(k)' = RecordsOf(k)
          /\ InMem(k)' = InMem(k) /\ OnDisk(k)' = OnDisk(k)
          /\ InsertsOf(k) \subseteq RecordsOf(k) /\ DeletesOf(k) \subseteq RecordsOf(k)
          /\ \A i \in RecordsOf(k) : /\ Readable'[i] = Readable[i]
                                     /\ (Fits(i)' <=> Fits(i)) /\ ~Own(i)'
                                     /\ (Winner(i)' <=> Winner(i) \/ Own(i))
                                     /\ (Aborted(i)' <=> Aborted(i))
      BY <1>2 DEF EndedWith
    <3>4. \A i \in RecordsOf(k) : Winner(i) \/ Aborted(i) \/ Own(i)
      BY <1>3, RecordIs DEF TxnsEnd
    <3> QED
      BY <3>2, <3>3, <3>4
  <2>2. /\ Ordered(k) /\ Tells(k) /\ Logged(k) /\ Follows(k)
        /\ Shows(InMem(k), c) /\ c \in Image \cup {Absent} /\ Absent \notin Image
        /\ pc \in Session /\ pc' \in Session /\ pc # "rollback" /\ pc' # "rollback"
        /\ ~BeingApplied(k) /\ ~BeingApplied(k)'
    BY <1>1, <1>3, <1>4, ContentAssumption
  <2> HIDE DEF c
  <2>3. Ordered(k)'
    BY <2>1, <2>2 DEF Ordered
  <2>4. /\ DeletesOf(k) # {} => InMem(k) = {}
        /\ \A i \in DeletesOf(k) : Winner(i)'
        /\ \A i \in InsertsOf(k) :
               /\ ~Winner(i)' => InMem(k) = {}
               /\ Winner(i)' /\ Fits(i) => InMem(k) # {} \/ DeletesOf(k) # {}
    BY <2>1, <2>2 DEF Follows
  <2>5. InMem(k) = {} <=> c = Absent
    BY <2>2 DEF Shows
  <2>6. \A i \in RecordsOf(k) : Fits(i) /\ InMem(k) # {} => c = Readable[i].image
    BY <2>2 DEF Logged, Shows
  <2>7. (\A i \in RecordsOf(k) : ~Fits(i)) => InMem(k) = OnDisk(k) /\ Shows(OnDisk(k), committed[k])
    BY <2>2, <1>3 DEF Logged, Session
  <2>8. InsertsOf(k) # {} /\ (\A i \in RecordsOf(k) : ~Fits(i)) => InMem(k) = {}
    BY <2>2, <2>7 DEF Tells, Shows
  <2>9. c = committed'[k]
    BY DEF c
  <2>10. Tells(k)'
    BY <2>1, <2>4, <2>5, <2>6, <2>8, <2>9 DEF Tells
  <2>11. Logged(k)'
    <3>1. \A i \in RecordsOf(k) : Fits(i) =>
              \A a \in InMem(k) \cup OnDisk(k) : a[2] = Readable[i].image
      BY <2>2 DEF Logged
    <3> QED
      BY <2>1, <2>2, <2>7, <2>9, <3>1 DEF Logged
  <2>12. WhyGone(k) => WhyGone(k)'
    BY <2>1, <2>2 DEF WhyGone, Session
  <2>13. Follows(k)'
    BY <2>1, <2>2 DEF Follows
  <2>14. Undoable(k)'
    BY <1>1 DEF Undoable
  <2>15. Remembered(k)'
    BY <2>1, <2>2, <2>9 DEF Remembered
  <2> QED
    BY <2>3, <2>10, <2>11, <2>12, <2>13, <2>14, <2>15
<1>6. HeapInv'
  <2>1. UNCHANGED pages
    BY DEF pages
  <2> QED
    BY <1>3, <2>1, StayKeeps
<1>7. LogOrder' /\ LogTellsCommitted' /\ RowsAreLogged'
  BY <1>5 DEF LogOrder, LogTellsCommitted, RowsAreLogged
<1>8. GoneFromMem'
  <2>1. \A k \in Key : OnDisk(k)' # {} /\ InMem(k)' = {} => WhyGone(k)
    BY <1>2 DEF EndedWith, StoreInv, RowsInv, GoneFromMem
  <2> QED
    BY <1>5, <2>1 DEF GoneFromMem
<1>9. MemFollowsLog'
  BY <1>2, <1>3, <1>5 DEF MemFollowsLog, EndedWith
<1>10. UndoTells'
  BY <1>1, <1>5 DEF UndoTells
<1>11. KeysShown'
  <2>1. \A k : InMem(k)' = InMem(k)
    BY <1>2 DEF EndedWith
  <2> QED
    BY <2>1 DEF StoreInv, RowsInv, KeysShown
<1>12. OpReady' /\ Recovered'
  BY DEF OpReady, Recovered
<1> QED
  BY <1>4, <1>6, <1>7, <1>8, <1>9, <1>10, <1>11, <1>12 DEF RowsInv

LEMMA EndRollbackKeepsRows ==
    ASSUME StoreInv, EndRollback
    PROVE  RowsInv'
<1>1. /\ pc = "rollback" /\ pc' = "ready" /\ EndTxn("ABORT") /\ UNCHANGED <<disk, mem, index>>
      /\ undo = <<>> /\ committed' = committed /\ keys' = keys
      /\ current_txn' = INVALID_TXN /\ undo' = <<>> /\ \A k : ~BeingApplied(k) /\ ~BeingApplied(k)'
  BY DEF EndRollback, pages, dml, EndTxn, BeingApplied
<1>2. current_txn # INVALID_TXN
  BY <1>1 DEF StoreInv, LogInv, OpenInSession
<1>3. EndedWith("ABORT")
  BY <1>1, <1>2, Ended DEF Session
<1>4. /\ \A k \in Key : Ordered(k) /\ Tells(k) /\ Logged(k) /\ Follows(k) /\ Remembered(k)
      /\ TxnsEnd /\ HeapInv /\ Running
  BY <1>1 DEF StoreInv, RowsInv, MemFollowsLog, LogOrder, LogTellsCommitted, RowsAreLogged, Session,
              Running, UndoTells
<1>5. ASSUME NEW k \in Key
      PROVE  /\ Ordered(k)' /\ Tells(k)' /\ Logged(k)' /\ (WhyGone(k) => WhyGone(k)') /\ Follows(k)'
             /\ Undoable(k)' /\ Remembered(k)'
  <2>1. /\ InsertsOf(k)' = InsertsOf(k) /\ DeletesOf(k)' = DeletesOf(k)
        /\ RecordsOf(k)' = RecordsOf(k)
        /\ InMem(k)' = InMem(k) /\ OnDisk(k)' = OnDisk(k)
        /\ InsertsOf(k) \subseteq RecordsOf(k) /\ DeletesOf(k) \subseteq RecordsOf(k)
        /\ \A i \in RecordsOf(k) : /\ Readable'[i] = Readable[i]
                                   /\ (Fits(i)' <=> Fits(i)) /\ ~Own(i)'
                                   /\ (Winner(i)' <=> Winner(i))
                                   /\ (Aborted(i)' <=> Aborted(i) \/ Own(i))
    BY <1>3 DEF EndedWith
  <2>2. Ordered(k) /\ Tells(k) /\ Logged(k) /\ Follows(k) /\ Remembered(k)
    BY <1>4
  <2>3. \A i \in DeletesOf(k) : ~Own(i)
    BY <1>1, <2>2 DEF Remembered
  <2>4. Shows(InMem(k), committed[k])
    BY <1>1, <2>2 DEF Remembered
  <2>5. \A i \in InsertsOf(k) : Own(i) => InMem(k) = {}
    <3>1. \A i : Own(i) => ~Winner(i)
      BY OpenIsOpen DEF StoreInv
    <3> QED
      BY <2>2, <2>4, <3>1, ContentAssumption DEF Tells, Shows
  <2>6. Ordered(k)'
    BY <2>1, <2>2 DEF Ordered
  <2>7. Tells(k)'
    BY <1>1, <2>1, <2>2 DEF Tells
  <2>8. Logged(k)'
    BY <1>1, <2>1, <2>2 DEF Logged
  <2>9. WhyGone(k) => WhyGone(k)'
    BY <1>1, <2>1 DEF WhyGone, Session
  <2>10. Follows(k)'
    BY <1>1, <2>1, <2>2, <2>3, <2>5 DEF Follows
  <2>11. Undoable(k)'
    BY <1>1 DEF Undoable
  <2>12. Remembered(k)'
    BY <1>1, <2>1, <2>4 DEF Remembered
  <2> QED
    BY <2>6, <2>7, <2>8, <2>9, <2>10, <2>11, <2>12
<1>6. HeapInv'
  <2>1. UNCHANGED pages
    BY <1>1 DEF pages
  <2> QED
    BY <1>4, <2>1, StayKeeps
<1>7. LogOrder' /\ LogTellsCommitted' /\ RowsAreLogged'
  BY <1>5 DEF LogOrder, LogTellsCommitted, RowsAreLogged
<1>8. GoneFromMem'
  <2>1. \A k \in Key : OnDisk(k)' # {} /\ InMem(k)' = {} => WhyGone(k)
    BY <1>3 DEF EndedWith, StoreInv, RowsInv, GoneFromMem
  <2> QED
    BY <1>5, <2>1 DEF GoneFromMem
<1>9. MemFollowsLog'
  BY <1>3, <1>4, <1>5 DEF MemFollowsLog, EndedWith
<1>10. UndoTells'
  BY <1>1, <1>5 DEF UndoTells, Session
<1>11. KeysShown'
  BY <1>1 DEF StoreInv, RowsInv, KeysShown
<1>12. OpReady' /\ Recovered'
  BY <1>1 DEF OpReady, Recovered
<1> QED
  BY <1>6, <1>7, <1>8, <1>9, <1>10, <1>11, <1>12 DEF RowsInv

LEMMA CommitsKeepRows ==
    ASSUME StoreInv, Commit \/ AutoCommit
    PROVE  RowsInv' /\ committed' \in [Key -> Image \cup {Absent}]
<1>1. CASE Commit
  <2>1. /\ pc = "ready" /\ pc' = "ready" /\ current_txn # INVALID_TXN /\ EndTxn("COMMIT")
        /\ committed' = Contents(mem) /\ UNCHANGED <<disk, mem, index, keys>>
    BY <1>1 DEF Commit, Statement, pages, dml
  <2>2. pc \in {"ready", "commit"}
    BY <2>1
  <2>3. pc' \in {"ready", "rows"}
    BY <2>1
  <2>4. \/ pc = "ready" /\ pc' = "ready"
        \/ pc = "commit" /\ (op.kind # "DELETE" <=> pc' = "ready")
    BY <2>1
  <2>5. UNCHANGED <<disk, mem, index, keys>> /\ EndTxn("COMMIT") /\ committed' = Contents(mem)
    BY <2>1
  <2>6. current_txn # INVALID_TXN
    BY <2>1
  <2> QED
    BY <2>2, <2>3, <2>4, <2>5, <2>6, CommitKeepsRows
<1>2. CASE AutoCommit
  <2>1. /\ pc = "commit" /\ EndTxn("COMMIT") /\ pc' \in {"ready", "rows"}
        /\ op.kind # "DELETE" <=> pc' = "ready"
        /\ committed' = Contents(mem) /\ UNCHANGED <<disk, mem, index, keys>>
    BY <1>2 DEF AutoCommit, pages
  <2>2. current_txn # INVALID_TXN
    BY <2>1 DEF StoreInv, LogInv, OpenInSession
  <2> QED
    BY <2>1, <2>2, CommitKeepsRows
<1> QED
  BY <1>1, <1>2

-------------------------------------------------------------------------------
(* The end of the program, and recovery.                                    *)

\* Outside a session no transaction is open and no operation is under way.
LEMMA OutOfSession ==
    ASSUME pc' \notin Session, current_txn' = INVALID_TXN, undo' = <<>>, keys' = {},
           pc' = "redo" => pos' >= 1, pc' = "undo" => pos' <= Len(Readable')
    PROVE  MemFollowsLog' /\ UndoTells' /\ OpReady' /\ KeysShown'
<1>1. pc' \notin {"ready", "rows", "log", "apply", "commit", "rollback"}
  BY DEF Session
<1>2. MemFollowsLog'
  BY DEF MemFollowsLog
<1>3. UndoTells'
  BY <1>1 DEF UndoTells, Undoable
<1>4. OpReady'
  BY <1>1 DEF OpReady
<1>5. KeysShown'
  BY <1>1 DEF KeysShown
<1> QED
  BY <1>2, <1>3, <1>4, <1>5

LEMMA LoseKeepsRows ==
    ASSUME StoreInv, Running, disk' \in {disk, mem}, LoseMemory, Readable' = Readable
    PROVE  RowsInv'
<1>1. /\ HeapInv' /\ \A j : InMem(j)' = OnDisk(j)'
      /\ \/ \A j : OnDisk(j)' = OnDisk(j)
         \/ disk' = mem /\ \A j : OnDisk(j)' = InMem(j)
  BY LoseKeeps DEF StoreInv, RowsInv
<1>2. pc' = "down" /\ mem' = disk' /\ UNCHANGED committed
  BY DEF LoseMemory
<1>3. LogOrder' /\ LogTellsCommitted'
  BY <1>2, SameOrder, SameCommitted DEF StoreInv, RowsInv
<1>4. MemFollowsLog' /\ UndoTells' /\ OpReady' /\ KeysShown'
  BY OutOfSession DEF LoseMemory, Session
<1>5. RowsAreLogged'
  <2> SUFFICES ASSUME NEW k \in Key PROVE Logged(k)'
    BY DEF RowsAreLogged
  <2>1. Logged(k)
    BY DEF StoreInv, RowsInv, RowsAreLogged
  <2>2. RecordsOf(k)' = RecordsOf(k) /\ \A i : Fits(i)' <=> Fits(i)
    BY SameRecords
  <2>3. (\A i \in RecordsOf(k) : ~Fits(i)) =>
            Shows(OnDisk(k), committed[k]) /\ InMem(k) = OnDisk(k)
    BY <2>1 DEF Logged, Running
  <2>4. OnDisk(k)' \subseteq OnDisk(k) \cup InMem(k)
        /\ (InMem(k) = OnDisk(k) => OnDisk(k)' = OnDisk(k))
        /\ InMem(k)' = OnDisk(k)'
    BY <1>1
  <2>5. (\A i \in RecordsOf(k)' : Fits(i)' =>
           \A a \in InMem(k)' \cup OnDisk(k)' : a[2] = Readable'[i].image)
    BY <2>1, <2>2, <2>4 DEF Logged
  <2>6. (\A i \in RecordsOf(k)' : ~Fits(i)') =>
            Shows(OnDisk(k)', committed'[k]) /\ InMem(k)' = OnDisk(k)'
    BY <1>2, <2>2, <2>3, <2>4
  <2> QED
    BY <2>5, <2>6 DEF Logged
<1>6. GoneFromMem' /\ Recovered'
  BY <1>1, <1>2 DEF GoneFromMem, Recovered
<1> QED
  BY <1>1, <1>3, <1>4, <1>5, <1>6 DEF RowsInv

\* Whatever is left of a page or of a record, a crash loses no row that counts.
LEMMA StopKeepsRows ==
    ASSUME Tears # "any", StoreInv, Crash \/ Exit
    PROVE  RowsInv'
<1>1. Running /\ LoseMemory /\ disk' \in {disk, mem}
  BY DEF Crash, Exit, Running
<1>2. Readable' = Readable
  <2>1. CASE log' = log
    BY <2>1, SameLog
  <2>2. CASE log' = Append(log, Torn) /\ Appending
    <3>1. pc \in Session /\ LogInv
      BY <2>2 DEF Appending, Session, StoreInv
    <3>2. Readable = log
      BY <3>1, AllReadable
    <3>3. TornAt = {}
      BY <3>1 DEF TornAt, LogInv, TornIsLast
    <3> QED
      BY <2>2, <3>1, <3>2, <3>3, TearsOff
  <2> QED
    BY <2>1, <2>2 DEF Crash, Exit
<1> QED
  BY <1>1, <1>2, LoseKeepsRows

LEMMA RestartKeepsRows ==
    ASSUME StoreInv, Restart
    PROVE  RowsInv'
<1>1. /\ pc \in {"down", "refused"} /\ Load /\ UNCHANGED <<disk, log, committed>>
      /\ UNCHANGED <<current_txn, undo, keys>>
  BY DEF Restart, dml
<1>2. HeapInv' /\ \A j : InMem(j)' = OnDisk(j) /\ OnDisk(j)' = OnDisk(j)
  BY <1>1, LoadKeeps DEF StoreInv, RowsInv
<1>3. Readable' = Readable
  BY <1>1, SameLog
<1>4. LogOrder' /\ LogTellsCommitted'
  BY <1>1, <1>3, SameOrder, SameCommitted DEF StoreInv, RowsInv
<1>5. current_txn = INVALID_TXN /\ undo = <<>> /\ keys = {}
  BY <1>1 DEF StoreInv, RowsInv, UndoTells, KeysShown, Session
<1>6. GoneFromMem'
  BY <1>2 DEF GoneFromMem
<1>7. ASSUME NEW k \in Key
      PROVE  Logged(k)' /\ ((\A i \in RecordsOf(k) : ~Fits(i)) => Shows(InMem(k)', committed'[k]))
  <2>1. Logged(k)
    BY DEF StoreInv, RowsInv, RowsAreLogged
  <2>2. RecordsOf(k)' = RecordsOf(k) /\ \A i : Fits(i)' <=> Fits(i)
    BY <1>3, SameRecords
  <2>3. \A i \in RecordsOf(k)' : Fits(i)' =>
           \A a \in InMem(k)' \cup OnDisk(k)' : a[2] = Readable'[i].image
    BY <1>2, <1>3, <2>1, <2>2 DEF Logged
  <2>4. (\A i \in RecordsOf(k)' : ~Fits(i)') =>
            Shows(OnDisk(k)', committed'[k]) /\ InMem(k)' = OnDisk(k)'
    BY <1>1, <1>2, <2>1, <2>2 DEF Logged
  <2> QED
    BY <2>2, <2>3, <2>4 DEF Logged
<1>8. RowsAreLogged'
  BY <1>7 DEF RowsAreLogged
<1>9. CASE Readable = <<>> /\ pc' = "ready"
  <2>1. DOMAIN Readable = {} /\ DOMAIN Readable' = {} /\ Range(Readable') = {}
    BY <1>3, <1>9 DEF Range
  <2>2. \A k : InsertsOf(k)' = {} /\ DeletesOf(k)' = {} /\ RecordsOf(k)' = {} /\ RecordsOf(k) = {}
    BY <2>1 DEF InsertsOf, DeletesOf, RecordsOf
  <2>3. TxnsEnd'
    BY <2>1 DEF TxnsEnd, CommittedTxns
  <2>4. \A k \in Key : Follows(k)'
    BY <2>2 DEF Follows
  <2>5. MemFollowsLog'
    BY <2>3, <2>4 DEF MemFollowsLog
  <2>6. UndoTells'
    <3>1. \A k \in Key : Undoable(k)'
      BY <1>1, <1>5 DEF Undoable
    <3>2. \A k \in Key : Remembered(k)'
      BY <1>7, <2>2 DEF Remembered
    <3> QED
      BY <1>1, <1>5, <1>9, <3>1, <3>2 DEF UndoTells
  <2>7. OpReady' /\ KeysShown' /\ Recovered'
    BY <1>1, <1>5, <1>9 DEF OpReady, KeysShown, Recovered
  <2> QED
    BY <1>2, <1>4, <1>6, <1>8, <2>5, <2>6, <2>7 DEF RowsInv
<1>10. CASE pc' = "redo" /\ pos' = 1
  <2>1. MemFollowsLog' /\ UndoTells' /\ OpReady' /\ KeysShown'
    BY <1>1, <1>5, <1>10, OutOfSession DEF Session
  <2>2. ASSUME NEW k \in Key PROVE Redone(k)'
    <3>1. \A i \in RecordsOf(k)' : i \in Nat \ {0}
      BY <1>3, RecordTypes, SameRecords DEF StoreInv
    <3>2. \A i \in InsertsOf(k)' \cup DeletesOf(k)' : ~(i < pos')
      BY <1>10, <3>1 DEF RecordsOf
    <3> QED
      BY <3>2 DEF Redone
  <2>3. Recovered'
    BY <1>10, <2>2 DEF Recovered
  <2> QED
    BY <1>2, <1>4, <1>6, <1>8, <2>1, <2>3 DEF RowsInv
<1> QED
  BY <1>9, <1>10 DEF Restart, StartRecovery

\* What the steps of recovery leave alone.
RecoveryStep ==
    /\ pc \in {"redo", "undo", "flushed"} /\ pc' \in {"redo", "undo", "flushed", "refused"}
    /\ UNCHANGED <<log, current_txn, undo, keys, committed>>

LEMMA RecoveryKeeps ==
    ASSUME StoreInv, RecoveryStep, pc' = "redo" => pos' >= 1, pc' = "undo" => pos' <= Len(Readable')
    PROVE  /\ Readable' = Readable
           /\ LogOrder' /\ LogTellsCommitted' /\ MemFollowsLog' /\ UndoTells' /\ OpReady' /\ KeysShown'
<1>1. Readable' = Readable
  BY SameLog DEF RecoveryStep
<1>2. LogOrder' /\ LogTellsCommitted'
  BY <1>1, SameOrder, SameCommitted DEF StoreInv, RowsInv, RecoveryStep
<1>3. current_txn = INVALID_TXN /\ undo = <<>> /\ keys = {}
  BY DEF RecoveryStep, StoreInv, RowsInv, UndoTells, KeysShown, Session
<1>4. MemFollowsLog' /\ UndoTells' /\ OpReady' /\ KeysShown'
  <2>1. current_txn' = INVALID_TXN /\ undo' = <<>> /\ keys' = {} /\ pc' \notin Session
    BY <1>3 DEF RecoveryStep, Session
  <2> QED
    BY <2>1, OutOfSession
<1> QED
  BY <1>1, <1>2, <1>4

\* The record that recovery has come to.
LEMMA RecordAtPos ==
    ASSUME StoreInv, pos >= 1, pos <= Len(Readable), Record.type \in {"INSERT", "DELETE"},
           NEW i, i = pos, NEW k, k = Record.pk
    PROVE  /\ i \in DOMAIN Readable /\ Record = Readable[i] /\ i \in Nat
           /\ k \in Key /\ Record.image \in Image /\ Readable[i].image = Record.image
           /\ Record.type = "INSERT" => i \in InsertsOf(k) /\ i \notin DeletesOf(k)
           /\ Record.type = "DELETE" => i \in DeletesOf(k) /\ i \notin InsertsOf(k)
           /\ i \in RecordsOf(k)
           /\ Fits(i) <=> ~TooLarge(Record.image)
           /\ Winner(i) <=> Won(Record)
           /\ \A j : j # k => i \notin RecordsOf(j)
<1>1. pos \in Nat /\ Len(Readable) \in Nat /\ DOMAIN Readable = 1 .. Len(Readable)
  BY RecordTypes DEF StoreInv, TypeOK
<1>2. i \in DOMAIN Readable /\ Record = Readable[i] /\ i \in Nat
  BY <1>1 DEF Record
<1>3. k \in Key /\ Record.image \in Image
  BY <1>2, RecordTypes DEF StoreInv
<1>4. /\ Record.type = "INSERT" => i \in InsertsOf(k) /\ i \notin DeletesOf(k)
      /\ Record.type = "DELETE" => i \in DeletesOf(k) /\ i \notin InsertsOf(k)
      /\ \A j : j # k => i \notin RecordsOf(j)
  BY <1>2 DEF InsertsOf, DeletesOf, RecordsOf
<1>5. (Fits(i) <=> ~TooLarge(Record.image)) /\ (Winner(i) <=> Won(Record))
  BY <1>2 DEF Fits, Winner, Won
<1>6. i \in RecordsOf(k)
  BY <1>4 DEF RecordsOf
<1> QED
  BY <1>2, <1>3, <1>4, <1>5, <1>6

\* Keys that the record is not about.
LEMMA OthersRecovered ==
    ASSUME StoreInv, RecoveryStep, pc' = pc, NEW j \in Key,
           InMem(j)' = InMem(j), OnDisk(j)' = OnDisk(j), pos \in Nat, pos \notin RecordsOf(j),
           \/ pc = "redo" /\ pos' = pos + 1
           \/ pc = "undo" /\ pos' = pos - 1
    PROVE  /\ Logged(j)'
           /\ OnDisk(j)' # {} /\ InMem(j)' = {} => WhyGone(j)'
           /\ pc = "redo" => Redone(j)'
           /\ pc = "undo" => Undone(j)'
<1>1. Readable' = Readable
  BY SameLog DEF RecoveryStep
<1>2. /\ InsertsOf(j)' = InsertsOf(j) /\ DeletesOf(j)' = DeletesOf(j)
      /\ RecordsOf(j)' = RecordsOf(j)
      /\ \A i : (Fits(i)' <=> Fits(i)) /\ (Winner(i)' <=> Winner(i)) /\ (Aborted(i)' <=> Aborted(i))
                 /\ (Own(i)' <=> Own(i))
      /\ committed'[j] = committed[j]
  BY <1>1, SameRecords DEF RecoveryStep
<1>3. \A i \in RecordsOf(j) : i \in Nat /\ i # pos
  BY RecordTypes DEF StoreInv
<1>4. /\ \A i \in InsertsOf(j) : i \in Nat /\ i # pos
      /\ \A i \in DeletesOf(j) : i \in Nat /\ i # pos
  BY <1>3 DEF RecordsOf
<1>5. SameKey(j)
  BY <1>1, <1>2 DEF SameKey
<1>6. Logged(j)'
  BY <1>5, SameKeyKeeps DEF StoreInv, RowsInv, RowsAreLogged, RecoveryStep
<1>7. ASSUME OnDisk(j)' # {}, InMem(j)' = {} PROVE WhyGone(j)'
  <2>1. WhyGone(j)
    BY <1>7 DEF StoreInv, RowsInv, GoneFromMem
  <2>2. CASE pc = "redo"
    <3>1. \E i \in DeletesOf(j) : Winner(i) /\ i < pos
      BY <2>1, <2>2 DEF WhyGone, Session
    <3>2. \E i \in DeletesOf(j)' : Winner(i)' /\ i < pos'
      BY <1>2, <1>4, <2>2, <3>1
    <3> QED
      BY <2>2, <3>2 DEF WhyGone
  <2>3. CASE pc = "undo"
    <3>1. \/ \E i \in DeletesOf(j) : Winner(i)
          \/ \E i \in InsertsOf(j) : ~Winner(i) /\ i > pos
      BY <2>1, <2>3 DEF WhyGone, Session
    <3>2. \/ \E i \in DeletesOf(j)' : Winner(i)'
          \/ \E i \in InsertsOf(j)' : ~Winner(i)' /\ i > pos'
      BY <1>2, <1>4, <2>3, <3>1
    <3> QED
      BY <2>3, <3>2 DEF WhyGone
  <2> QED
    BY <2>2, <2>3
<1>8. ASSUME pc = "redo" PROVE Redone(j)'
  <2>1. Redone(j)
    BY <1>8 DEF StoreInv, RowsInv, Recovered
  <2>2. \A i \in InsertsOf(j) \cup DeletesOf(j) : i < pos' <=> i < pos
    BY <1>4, <1>8
  <2> QED
    BY <1>2, <2>1, <2>2 DEF Redone
<1>9. ASSUME pc = "undo" PROVE Undone(j)'
  <2>1. Undone(j)
    BY <1>9 DEF StoreInv, RowsInv, Recovered
  <2>2. \A i \in InsertsOf(j) \cup DeletesOf(j) : i > pos' <=> i > pos
    BY <1>4, <1>9
  <2> QED
    BY <1>2, <2>1, <2>2 DEF Undone
<1> QED
  BY <1>6, <1>7, <1>8, <1>9

\* How far a key has come.
Caught(k) ==
    /\ Logged(k)
    /\ OnDisk(k) # {} /\ InMem(k) = {} => WhyGone(k)
    /\ pc = "redo" => Redone(k)
    /\ pc = "undo" => Undone(k)

LEMMA KeysCaught ==
    ASSUME StoreInv, RecoveryStep, pc' = pc, pc \in {"redo", "undo"}, HeapInv',
           pc' = "redo" => pos' >= 1, pc' = "undo" => pos' <= Len(Readable'),
           \A k \in Key : Caught(k)'
    PROVE  RowsInv'
<1>1. LogOrder' /\ LogTellsCommitted' /\ MemFollowsLog' /\ UndoTells' /\ OpReady' /\ KeysShown'
  BY RecoveryKeeps
<1>2. RowsAreLogged' /\ GoneFromMem'
  BY DEF Caught, RowsAreLogged, GoneFromMem
<1>3. Recovered'
  BY DEF Caught, Recovered
<1> QED
  BY <1>1, <1>2, <1>3 DEF RowsInv

\* A row that recovery inserts is that of the key's records, and nowhere yet.
LEMMA PutBack ==
    ASSUME StoreInv, RecoveryStep, NEW k \in Key, NEW i \in RecordsOf(k), Fits(i), NEW r,
           InMem(k)' = {<<r, Readable[i].image>>}, OnDisk(k)' = {}
    PROVE  Logged(k)' /\ InMem(k)' # {}
<1>1. Readable' = Readable
  BY SameLog DEF RecoveryStep
<1>2. RecordsOf(k)' = RecordsOf(k) /\ \A j : Fits(j)' <=> Fits(j)
  BY <1>1, SameRecords
<1>3. \A j \in RecordsOf(k) : Fits(j) => Readable[j].image = Readable[i].image
  BY DEF StoreInv, RowsInv, LogOrder, Ordered
<1>4. \A a \in InMem(k)' \cup OnDisk(k)' : a[2] = Readable[i].image
  OBVIOUS
<1>5. \A j \in RecordsOf(k)' : Fits(j)' =>
           \A a \in InMem(k)' \cup OnDisk(k)' : a[2] = Readable'[j].image
  BY <1>1, <1>2, <1>3, <1>4
<1> QED
  BY <1>2, <1>5 DEF Logged

\* A row that recovery deletes.
LEMMA TakenAway ==
    ASSUME StoreInv, RecoveryStep, NEW k \in Key, InMem(k)' = {}, OnDisk(k)' = OnDisk(k),
           (\A i \in RecordsOf(k) : ~Fits(i)) => InMem(k) = {}
    PROVE  Logged(k)'
<1>1. Readable' = Readable
  BY SameLog DEF RecoveryStep
<1>2. RecordsOf(k)' = RecordsOf(k) /\ \A j : Fits(j)' <=> Fits(j)
  BY <1>1, SameRecords
<1>3. Logged(k)
  BY DEF StoreInv, RowsInv, RowsAreLogged
<1>4. \A j \in RecordsOf(k)' : Fits(j)' =>
           \A a \in InMem(k)' \cup OnDisk(k)' : a[2] = Readable'[j].image
  BY <1>1, <1>2, <1>3 DEF Logged
<1>5. (\A i \in RecordsOf(k)' : ~Fits(i)') =>
          Shows(OnDisk(k)', committed'[k]) /\ InMem(k)' = OnDisk(k)'
  BY <1>2, <1>3 DEF Logged, RecoveryStep
<1> QED
  BY <1>4, <1>5 DEF Logged

\* Nothing happens to a key.
LEMMA LeftAlone ==
    ASSUME StoreInv, RecoveryStep, NEW k \in Key, InMem(k)' = InMem(k), OnDisk(k)' = OnDisk(k)
    PROVE  Logged(k)'
<1>1. Readable' = Readable
  BY SameLog DEF RecoveryStep
<1>2. RecordsOf(k)' = RecordsOf(k) /\ \A j : Fits(j)' <=> Fits(j)
  BY <1>1, SameRecords
<1>3. Logged(k)
  BY DEF StoreInv, RowsInv, RowsAreLogged
<1> QED
  BY <1>1, <1>2, <1>3 DEF Logged, RecoveryStep

-------------------------------------------------------------------------------

LEMMA RedoneRow ==
    ASSUME StoreInv, Redo, RecoveryStep, NEW k \in Key, NEW i, i = pos, i \in Nat,
           i \in RecordsOf(k), RecordsOf(k)' = RecordsOf(k),
           InsertsOf(k)' = InsertsOf(k), DeletesOf(k)' = DeletesOf(k),
           \A j : (Fits(j)' <=> Fits(j)) /\ (Winner(j)' <=> Winner(j)),
           \/ /\ i \in InsertsOf(k) /\ Winner(i) /\ Fits(i) /\ InMem(k) = {}
              /\ OnDisk(k)' = {} /\ \E r : InMem(k)' = {<<r, Readable[i].image>>}
           \/ /\ i \in DeletesOf(k) /\ Winner(i) /\ InMem(k) # {}
              /\ InMem(k)' = {} /\ OnDisk(k)' = OnDisk(k)
           \/ /\ ~(i \in InsertsOf(k) /\ Winner(i) /\ Fits(i) /\ InMem(k) = {})
              /\ ~(i \in DeletesOf(k) /\ Winner(i) /\ InMem(k) # {})
              /\ InMem(k)' = InMem(k) /\ OnDisk(k)' = OnDisk(k)
    PROVE  Caught(k)'
<1>1. pc = "redo" /\ pc' = "redo" /\ pos' = i + 1 /\ pos = i
  BY DEF Redo
<1>2. Redone(k) /\ Ordered(k) /\ (OnDisk(k) # {} /\ InMem(k) = {} => WhyGone(k))
  BY <1>1 DEF StoreInv, RowsInv, Recovered, LogOrder, GoneFromMem
<1>3. \A j \in RecordsOf(k) : j \in Nat /\ (j < pos' <=> j < pos \/ j = i)
  BY <1>1, RecordTypes DEF StoreInv
<1>4. InsertsOf(k) \subseteq RecordsOf(k) /\ DeletesOf(k) \subseteq RecordsOf(k)
      /\ InsertsOf(k) \cap DeletesOf(k) = {}
  BY DEF RecordsOf, InsertsOf, DeletesOf
<1>5. CASE /\ i \in InsertsOf(k) /\ Winner(i) /\ Fits(i) /\ InMem(k) = {}
           /\ OnDisk(k)' = {} /\ \E r : InMem(k)' = {<<r, Readable[i].image>>}
  <2>1. Logged(k)' /\ InMem(k)' # {}
    BY <1>5, PutBack
  <2>2. \A j \in DeletesOf(k) : i <= j /\ i # j
    BY <1>2, <1>4, <1>5 DEF Ordered
  <2>3. \A j \in DeletesOf(k) : ~(j < pos')
    BY <1>1, <1>3, <1>4, <2>2
  <2>4. Redone(k)'
    BY <2>1, <2>3 DEF Redone
  <2> QED
    BY <1>1, <2>1, <2>4 DEF Caught
<1>6. CASE /\ i \in DeletesOf(k) /\ Winner(i) /\ InMem(k) # {}
           /\ InMem(k)' = {} /\ OnDisk(k)' = OnDisk(k)
  <2>1. Fits(i)
    BY <1>2, <1>6 DEF Ordered
  <2>2. Logged(k)'
    BY <1>6, <2>1, TakenAway
  <2>3. i < pos' /\ i \in DeletesOf(k)' /\ Winner(i)'
    BY <1>1, <1>6
  <2>4. Redone(k)'
    BY <1>6, <2>3 DEF Redone
  <2>5. WhyGone(k)'
    BY <1>1, <2>3 DEF WhyGone
  <2> QED
    BY <1>1, <2>2, <2>4, <2>5 DEF Caught
<1>7. CASE /\ ~(i \in InsertsOf(k) /\ Winner(i) /\ Fits(i) /\ InMem(k) = {})
           /\ ~(i \in DeletesOf(k) /\ Winner(i) /\ InMem(k) # {})
           /\ InMem(k)' = InMem(k) /\ OnDisk(k)' = OnDisk(k)
  <2>1. Logged(k)'
    BY <1>7, LeftAlone
  <2>2. Redone(k)'
    <3>1. ASSUME NEW j \in DeletesOf(k), Winner(j), j < pos' PROVE InMem(k)' = {}
      BY <1>2, <1>3, <1>4, <1>7, <3>1 DEF Redone
    <3>2. ASSUME NEW j \in InsertsOf(k), Winner(j), Fits(j), j < pos'
          PROVE  InMem(k)' # {} \/ \E m \in DeletesOf(k) : Winner(m) /\ m < pos'
      BY <1>2, <1>3, <1>4, <1>7, <3>2 DEF Redone
    <3> QED
      BY <3>1, <3>2 DEF Redone
  <2>3. ASSUME OnDisk(k)' # {}, InMem(k)' = {} PROVE WhyGone(k)'
    <3>1. \E j \in DeletesOf(k) : Winner(j) /\ j < pos
      BY <1>1, <1>2, <1>7, <2>3 DEF WhyGone, Session
    <3>2. \E j \in DeletesOf(k)' : Winner(j)' /\ j < pos'
      BY <1>3, <1>4, <3>1
    <3> QED
      BY <1>1, <3>2 DEF WhyGone
  <2> QED
    BY <1>1, <2>1, <2>2, <2>3 DEF Caught
<1> QED
  BY <1>5, <1>6, <1>7

\* A record that is about no row.
LEMMA NoRowRecovered ==
    ASSUME StoreInv, RecoveryStep, pc' = pc, UNCHANGED pages,
           \/ pc = "redo" /\ pos' = pos + 1
           \/ pc = "undo" /\ pos' = pos - 1,
           pos >= 1, pos <= Len(Readable), Record.type \notin {"INSERT", "DELETE"}
    PROVE  HeapInv' /\ \A j \in Key : Caught(j)'
<1>1. HeapInv' /\ \A j : InMem(j)' = InMem(j) /\ OnDisk(j)' = OnDisk(j)
  BY StayKeeps DEF StoreInv, RowsInv, RecoveryStep, Running
<1>2. pos \in Nat
  BY DEF StoreInv, TypeOK
<1>3. \A j : pos \notin RecordsOf(j)
  BY RecordIs DEF Record
<1>4. ASSUME NEW j \in Key PROVE Caught(j)'
  <2>1. /\ Logged(j)'
        /\ OnDisk(j)' # {} /\ InMem(j)' = {} => WhyGone(j)'
        /\ pc = "redo" => Redone(j)'
        /\ pc = "undo" => Undone(j)'
    BY <1>1, <1>2, <1>3, OthersRecovered
  <2> QED
    BY <2>1 DEF Caught
<1> QED
  BY <1>1, <1>4

LEMMA RedoKeepsRows ==
    ASSUME StoreInv, Redo
    PROVE  RowsInv'
<1>1. /\ RecoveryStep /\ pc = "redo" /\ pc' = "redo" /\ pos' = pos + 1 /\ pos <= Len(Readable)
      /\ Recovering(RedoInserts, RedoDeletes)
  BY DEF Redo, RecoveryStep, session, dml
<1>2. pos >= 1 /\ pos \in Nat /\ HeapInv /\ Running
  BY <1>1 DEF StoreInv, RowsInv, KeysShown, TypeOK, Running
<1>3. Readable' = Readable
  BY <1>1, SameLog DEF RecoveryStep
<1>4. HeapInv' /\ \A j \in Key : Caught(j)'
  <2>1. CASE Record.type \notin {"INSERT", "DELETE"}
    <3>1. UNCHANGED pages
      BY <1>1, <2>1 DEF Recovering, RedoInserts, RedoDeletes
    <3> QED
      BY <1>1, <1>2, <2>1, <3>1, NoRowRecovered
  <2>2. CASE Record.type \in {"INSERT", "DELETE"}
    <3>1. PICK i, k : i = pos /\ k = Record.pk
      OBVIOUS
    <3>2. /\ i \in DOMAIN Readable /\ Record = Readable[i] /\ i \in Nat
          /\ k \in Key /\ Record.image \in Image /\ Readable[i].image = Record.image
          /\ Record.type = "INSERT" => i \in InsertsOf(k) /\ i \notin DeletesOf(k)
          /\ Record.type = "DELETE" => i \in DeletesOf(k) /\ i \notin InsertsOf(k)
          /\ i \in RecordsOf(k)
          /\ Fits(i) <=> ~TooLarge(Record.image)
          /\ Winner(i) <=> Won(Record)
          /\ \A j : j # k => i \notin RecordsOf(j)
      BY <1>1, <1>2, <2>2, <3>1, RecordAtPos
    <3>3. index[k] = NoRow <=> InMem(k) = {}
      BY <1>2, <3>2, IndexTells
    <3>4. RedoInserts(Record) <=> i \in InsertsOf(k) /\ Winner(i) /\ InMem(k) = {}
      BY <2>2, <3>1, <3>2, <3>3 DEF RedoInserts
    <3>5. RedoDeletes(Record) <=> i \in DeletesOf(k) /\ Winner(i) /\ InMem(k) # {}
      BY <2>2, <3>1, <3>2, <3>3 DEF RedoDeletes
    <3>6. /\ InsertsOf(k)' = InsertsOf(k) /\ DeletesOf(k)' = DeletesOf(k)
          /\ RecordsOf(k)' = RecordsOf(k)
          /\ \A j : (Fits(j)' <=> Fits(j)) /\ (Winner(j)' <=> Winner(j))
      BY <1>3, SameRecords
    <3>7. /\ HeapInv'
          /\ \A j \in Key : j # k => InMem(j)' = InMem(j) /\ OnDisk(j)' = OnDisk(j)
          /\ \/ /\ i \in InsertsOf(k) /\ Winner(i) /\ Fits(i) /\ InMem(k) = {}
                /\ OnDisk(k)' = {} /\ \E r : InMem(k)' = {<<r, Readable[i].image>>}
             \/ /\ i \in DeletesOf(k) /\ Winner(i) /\ InMem(k) # {}
                /\ InMem(k)' = {} /\ OnDisk(k)' = OnDisk(k)
             \/ /\ ~(i \in InsertsOf(k) /\ Winner(i) /\ Fits(i) /\ InMem(k) = {})
                /\ ~(i \in DeletesOf(k) /\ Winner(i) /\ InMem(k) # {})
                /\ InMem(k)' = InMem(k) /\ OnDisk(k)' = OnDisk(k)
      <4>1. CASE RedoInserts(Record) /\ ~TooLarge(Record.image) /\ PhysInsert(Record.pk, Record.image)
        <5>1. OnDisk(k) = {}
          <6>1. SUFFICES ASSUME OnDisk(k) # {} PROVE FALSE
            OBVIOUS
          <6>2. WhyGone(k) /\ Ordered(k)
            BY <3>2, <3>4, <4>1, <6>1 DEF StoreInv, RowsInv, GoneFromMem, LogOrder
          <6>3. PICK j \in DeletesOf(k) : j < pos
            BY <1>1, <6>2 DEF WhyGone, Session
          <6>4. i <= j /\ j \in Nat
            BY <3>2, <6>2, <6>3, RecordTypes DEF Ordered, StoreInv, RecordsOf
          <6> QED
            BY <3>1, <3>2, <6>3, <6>4
        <5>2. PhysInsert(k, Record.image) /\ InMem(k) = {}
          BY <3>1, <3>4, <4>1
        <5>3. /\ HeapInv'
              /\ \E r : InMem(k)' = {<<r, Record.image>>}
              /\ OnDisk(k)' = {}
              /\ \A j \in Key : j # k => InMem(j)' = InMem(j) /\ OnDisk(j)' = OnDisk(j)
          BY <1>2, <3>2, <4>1, <5>1, <5>2, PutKeeps
        <5> QED
          BY <3>2, <3>4, <4>1, <5>3
      <4>2. CASE RedoDeletes(Record) /\ PhysDelete(Record.pk)
        <5>1. PhysDelete(k)
          BY <3>1, <4>2
        <5> QED
          BY <1>2, <3>2, <3>5, <4>2, <5>1, DropKeeps
      <4>3. CASE ~RedoInserts(Record) /\ ~RedoDeletes(Record) /\ UNCHANGED pages
        <5>1. HeapInv' /\ \A j : InMem(j)' = InMem(j) /\ OnDisk(j)' = OnDisk(j)
          BY <1>2, <4>3, StayKeeps
        <5> QED
          BY <3>4, <3>5, <4>3, <5>1
      <4> QED
        BY <1>1, <4>1, <4>2, <4>3 DEF Recovering
    <3>8. Caught(k)'
      BY <1>1, <3>1, <3>2, <3>6, <3>7, RedoneRow
    <3>9. ASSUME NEW j \in Key, j # k PROVE Caught(j)'
      <4>1. pos \notin RecordsOf(j)
        BY <3>1, <3>2, <3>9
      <4>2. Logged(j)' /\ (OnDisk(j)' # {} /\ InMem(j)' = {} => WhyGone(j)') /\ Redone(j)'
        BY <1>1, <1>2, <3>7, <3>9, <4>1, OthersRecovered
      <4> QED
        BY <1>1, <4>2 DEF Caught
    <3> QED
      BY <3>7, <3>8, <3>9
  <2> QED
    BY <2>1, <2>2
<1>5. pos' >= 1
  BY <1>1, <1>2
<1> QED
  BY <1>1, <1>4, <1>5, KeysCaught

LEMMA UndoneRow ==
    ASSUME StoreInv, UndoLoser, RecoveryStep, NEW k \in Key, NEW i, i = pos, i \in Nat,
           i \in RecordsOf(k), RecordsOf(k)' = RecordsOf(k),
           InsertsOf(k)' = InsertsOf(k), DeletesOf(k)' = DeletesOf(k),
           \A j : (Fits(j)' <=> Fits(j)) /\ (Winner(j)' <=> Winner(j)),
           Readable' = Readable,
           \/ /\ i \in DeletesOf(k) /\ ~Winner(i) /\ InMem(k) = {}
              /\ OnDisk(k)' = {} /\ \E r : InMem(k)' = {<<r, Readable[i].image>>}
           \/ /\ i \in InsertsOf(k) /\ ~Winner(i) /\ InMem(k) # {}
              /\ InMem(k)' = {} /\ OnDisk(k)' = OnDisk(k)
           \/ /\ ~(i \in DeletesOf(k) /\ ~Winner(i) /\ InMem(k) = {})
              /\ ~(i \in InsertsOf(k) /\ ~Winner(i) /\ InMem(k) # {})
              /\ InMem(k)' = InMem(k) /\ OnDisk(k)' = OnDisk(k)
    PROVE  Caught(k)'
<1>1. pc = "undo" /\ pc' = "undo" /\ pos' = i - 1 /\ pos = i
  BY DEF UndoLoser
<1>2. Undone(k) /\ Ordered(k) /\ Tells(k) /\ Logged(k) /\ (OnDisk(k) # {} /\ InMem(k) = {} => WhyGone(k))
  BY <1>1 DEF StoreInv, RowsInv, Recovered, LogOrder, GoneFromMem, LogTellsCommitted, RowsAreLogged
<1>3. \A j \in RecordsOf(k) : /\ j \in Nat /\ (j > pos' <=> j > pos \/ j = i)
                              /\ Readable[j].image \in Image
  BY <1>1, RecordTypes DEF StoreInv
<1>4. InsertsOf(k) \subseteq RecordsOf(k) /\ DeletesOf(k) \subseteq RecordsOf(k)
      /\ InsertsOf(k) \cap DeletesOf(k) = {}
  BY DEF RecordsOf, InsertsOf, DeletesOf
<1>5. CASE /\ i \in DeletesOf(k) /\ ~Winner(i) /\ InMem(k) = {}
           /\ OnDisk(k)' = {} /\ \E r : InMem(k)' = {<<r, Readable[i].image>>}
  <2>1. Fits(i) /\ \A j \in RecordsOf(k) : j <= i
    BY <1>2, <1>5 DEF Ordered
  <2>2. Logged(k)' /\ InMem(k)' # {}
    BY <1>5, <2>1, PutBack
  <2>3. \A j \in DeletesOf(k) : j = i
    <3> SUFFICES ASSUME NEW j \in DeletesOf(k) PROVE j = i
      OBVIOUS
    <3>1. i <= j /\ j <= i /\ j \in Nat
      BY <1>2, <1>3, <1>4, <2>1 DEF Ordered
    <3> QED
      BY <3>1
  <2>4. \A j \in InsertsOf(k) : ~(j > pos')
    BY <1>1, <1>3, <1>4, <1>5, <2>1
  <2>5. Undone(k)'
    BY <1>5, <2>2, <2>3, <2>4 DEF Undone
  <2> QED
    BY <1>1, <2>2, <2>5 DEF Caught
<1>6. CASE /\ i \in InsertsOf(k) /\ ~Winner(i) /\ InMem(k) # {}
           /\ InMem(k)' = {} /\ OnDisk(k)' = OnDisk(k)
  <2>1. committed[k] = Absent
    BY <1>2, <1>6 DEF Tells
  <2>2. ASSUME \A j \in RecordsOf(k) : ~Fits(j) PROVE InMem(k) = {}
    <3>1. Shows(OnDisk(k), committed[k]) /\ InMem(k) = OnDisk(k)
      BY <1>1, <1>2, <2>2 DEF Logged
    <3> QED
      BY <2>1, <3>1, ContentAssumption DEF Shows
  <2>3. Logged(k)'
    BY <1>6, <2>2, TakenAway
  <2>4. i > pos' /\ i \in InsertsOf(k)' /\ ~Winner(i)'
    BY <1>1, <1>6
  <2>5. \A j \in InsertsOf(k) : Winner(j) /\ Fits(j) => \E m \in DeletesOf(k) : Winner(m)
    BY <1>2, <1>3, <1>4, <2>1, ContentAssumption DEF Tells
  <2>6. Undone(k)'
    BY <1>6, <2>4, <2>5 DEF Undone
  <2>7. WhyGone(k)'
    BY <1>1, <2>4 DEF WhyGone
  <2> QED
    BY <1>1, <2>3, <2>6, <2>7 DEF Caught
<1>7. CASE /\ ~(i \in DeletesOf(k) /\ ~Winner(i) /\ InMem(k) = {})
           /\ ~(i \in InsertsOf(k) /\ ~Winner(i) /\ InMem(k) # {})
           /\ InMem(k)' = InMem(k) /\ OnDisk(k)' = OnDisk(k)
  <2>1. Logged(k)'
    BY <1>7, LeftAlone
  <2>2. Undone(k)'
    <3>1. ASSUME NEW j \in InsertsOf(k), ~Winner(j), j > pos' PROVE InMem(k)' = {}
      BY <1>2, <1>3, <1>4, <1>7, <3>1 DEF Undone
    <3>2. ASSUME NEW j \in DeletesOf(k), ~Winner(j), j > pos'
          PROVE  InMem(k)' # {} \/ \E m \in InsertsOf(k) : ~Winner(m) /\ m > pos'
      BY <1>2, <1>3, <1>4, <1>7, <3>2 DEF Undone
    <3>3. /\ \A j \in DeletesOf(k) : Winner(j) => InMem(k)' = {}
          /\ \A j \in InsertsOf(k) : Winner(j) /\ Fits(j) =>
                 InMem(k)' # {} \/ \E m \in DeletesOf(k) : Winner(m)
      BY <1>2, <1>7 DEF Undone
    <3> QED
      BY <3>1, <3>2, <3>3 DEF Undone
  <2>3. ASSUME OnDisk(k)' # {}, InMem(k)' = {} PROVE WhyGone(k)'
    <3>1. \/ \E j \in DeletesOf(k) : Winner(j)
          \/ \E j \in InsertsOf(k) : ~Winner(j) /\ j > pos
      BY <1>1, <1>2, <1>7, <2>3 DEF WhyGone, Session
    <3>2. \/ \E j \in DeletesOf(k)' : Winner(j)'
          \/ \E j \in InsertsOf(k)' : ~Winner(j)' /\ j > pos'
      BY <1>3, <1>4, <3>1
    <3> QED
      BY <1>1, <3>2 DEF WhyGone
  <2> QED
    BY <1>1, <2>1, <2>2, <2>3 DEF Caught
<1> QED
  BY <1>5, <1>6, <1>7

LEMMA UndoLoserKeepsRows ==
    ASSUME StoreInv, UndoLoser
    PROVE  RowsInv'
<1>1. /\ RecoveryStep /\ pc = "undo" /\ pc' = "undo" /\ pos' = pos - 1 /\ pos >= 1
      /\ Recovering(UndoInserts, UndoDeletes)
  BY DEF UndoLoser, RecoveryStep, session, dml
<1>2. pos <= Len(Readable) /\ pos \in Nat /\ HeapInv /\ Running /\ Len(Readable) \in Nat
  BY <1>1, RecordTypes DEF StoreInv, RowsInv, KeysShown, TypeOK, Running
<1>3. Readable' = Readable
  BY <1>1, SameLog DEF RecoveryStep
<1>4. HeapInv' /\ \A j \in Key : Caught(j)'
  <2>1. CASE Record.type \notin {"INSERT", "DELETE"}
    <3>1. UNCHANGED pages
      BY <1>1, <2>1 DEF Recovering, UndoInserts, UndoDeletes
    <3> QED
      BY <1>1, <1>2, <2>1, <3>1, NoRowRecovered
  <2>2. CASE Record.type \in {"INSERT", "DELETE"}
    <3>1. PICK i, k : i = pos /\ k = Record.pk
      OBVIOUS
    <3>2. /\ i \in DOMAIN Readable /\ Record = Readable[i] /\ i \in Nat
          /\ k \in Key /\ Record.image \in Image /\ Readable[i].image = Record.image
          /\ Record.type = "INSERT" => i \in InsertsOf(k) /\ i \notin DeletesOf(k)
          /\ Record.type = "DELETE" => i \in DeletesOf(k) /\ i \notin InsertsOf(k)
          /\ i \in RecordsOf(k)
          /\ Fits(i) <=> ~TooLarge(Record.image)
          /\ Winner(i) <=> Won(Record)
          /\ \A j : j # k => i \notin RecordsOf(j)
      BY <1>1, <1>2, <2>2, <3>1, RecordAtPos
    <3>3. index[k] = NoRow <=> InMem(k) = {}
      BY <1>2, <3>2, IndexTells
    <3>4. UndoInserts(Record) <=> i \in DeletesOf(k) /\ ~Winner(i) /\ InMem(k) = {}
      BY <2>2, <3>1, <3>2, <3>3 DEF UndoInserts
    <3>5. UndoDeletes(Record) <=> i \in InsertsOf(k) /\ ~Winner(i) /\ InMem(k) # {}
      BY <2>2, <3>1, <3>2, <3>3 DEF UndoDeletes
    <3>6. /\ InsertsOf(k)' = InsertsOf(k) /\ DeletesOf(k)' = DeletesOf(k)
          /\ RecordsOf(k)' = RecordsOf(k)
          /\ \A j : (Fits(j)' <=> Fits(j)) /\ (Winner(j)' <=> Winner(j))
      BY <1>3, SameRecords
    <3>7. /\ HeapInv'
          /\ \A j \in Key : j # k => InMem(j)' = InMem(j) /\ OnDisk(j)' = OnDisk(j)
          /\ \/ /\ i \in DeletesOf(k) /\ ~Winner(i) /\ InMem(k) = {}
                /\ OnDisk(k)' = {} /\ \E r : InMem(k)' = {<<r, Readable[i].image>>}
             \/ /\ i \in InsertsOf(k) /\ ~Winner(i) /\ InMem(k) # {}
                /\ InMem(k)' = {} /\ OnDisk(k)' = OnDisk(k)
             \/ /\ ~(i \in DeletesOf(k) /\ ~Winner(i) /\ InMem(k) = {})
                /\ ~(i \in InsertsOf(k) /\ ~Winner(i) /\ InMem(k) # {})
                /\ InMem(k)' = InMem(k) /\ OnDisk(k)' = OnDisk(k)
      <4>1. CASE UndoInserts(Record) /\ ~TooLarge(Record.image) /\ PhysInsert(Record.pk, Record.image)
        <5>1. OnDisk(k) = {}
          <6>1. SUFFICES ASSUME OnDisk(k) # {} PROVE FALSE
            OBVIOUS
          <6>2. WhyGone(k) /\ Ordered(k) /\ i \in DeletesOf(k) /\ ~Winner(i)
            BY <3>2, <3>4, <4>1, <6>1 DEF StoreInv, RowsInv, GoneFromMem, LogOrder
          <6>3. PICK j \in RecordsOf(k) : \/ j \in DeletesOf(k) /\ Winner(j)
                                          \/ j \in InsertsOf(k) /\ j > pos
            BY <1>1, <6>2 DEF WhyGone, Session, RecordsOf
          <6>4. j <= i /\ j \in Nat /\ (j \in DeletesOf(k) => i <= j)
            BY <3>2, <6>2, <6>3, RecordTypes DEF Ordered, StoreInv
          <6> QED
            BY <3>1, <3>2, <6>2, <6>3, <6>4
        <5>2. PhysInsert(k, Record.image) /\ InMem(k) = {}
          BY <3>1, <3>4, <4>1
        <5>3. /\ HeapInv'
              /\ \E r : InMem(k)' = {<<r, Record.image>>}
              /\ OnDisk(k)' = {}
              /\ \A j \in Key : j # k => InMem(j)' = InMem(j) /\ OnDisk(j)' = OnDisk(j)
          BY <1>2, <3>2, <4>1, <5>1, <5>2, PutKeeps
        <5> QED
          BY <3>2, <3>4, <4>1, <5>3
      <4>2. CASE UndoDeletes(Record) /\ PhysDelete(Record.pk)
        <5>1. PhysDelete(k)
          BY <3>1, <4>2
        <5> QED
          BY <1>2, <3>2, <3>5, <4>2, <5>1, DropKeeps
      <4>3. CASE ~UndoInserts(Record) /\ ~UndoDeletes(Record) /\ UNCHANGED pages
        <5>1. HeapInv' /\ \A j : InMem(j)' = InMem(j) /\ OnDisk(j)' = OnDisk(j)
          BY <1>2, <4>3, StayKeeps
        <5> QED
          BY <3>4, <3>5, <4>3, <5>1
      <4> QED
        BY <1>1, <4>1, <4>2, <4>3 DEF Recovering
    <3>8. Caught(k)'
      BY <1>3, <3>1, <3>2, <3>6, <3>7, <1>1, UndoneRow
    <3>9. ASSUME NEW j \in Key, j # k PROVE Caught(j)'
      <4>1. pos \notin RecordsOf(j)
        BY <3>1, <3>2, <3>9
      <4>2. Logged(j)' /\ (OnDisk(j)' # {} /\ InMem(j)' = {} => WhyGone(j)') /\ Undone(j)'
        BY <1>1, <1>2, <3>7, <3>9, <4>1, OthersRecovered
      <4> QED
        BY <1>1, <4>2 DEF Caught
    <3> QED
      BY <3>7, <3>8, <3>9
  <2> QED
    BY <2>1, <2>2
<1>5. pos' <= Len(Readable')
  BY <1>1, <1>2, <1>3
<1> QED
  BY <1>1, <1>4, <1>5, KeysCaught

LEMMA RedoDoneKeepsRows ==
    ASSUME StoreInv, RedoDone
    PROVE  RowsInv'
<1>1. /\ RecoveryStep /\ pc = "redo" /\ pc' = "undo" /\ pos > Len(Readable)
      /\ pos' = Len(Readable) /\ UNCHANGED pages
  BY DEF RedoDone, RecoveryStep, session, dml
<1>2. HeapInv' /\ \A j : InMem(j)' = InMem(j) /\ OnDisk(j)' = OnDisk(j)
  BY <1>1, StayKeeps DEF StoreInv, RowsInv, Running
<1>3. Readable' = Readable
  BY <1>1, SameLog DEF RecoveryStep
<1>4. Len(Readable) \in Nat /\ pos \in Nat
  BY RecordTypes DEF StoreInv, TypeOK
<1>5. LogOrder' /\ LogTellsCommitted' /\ MemFollowsLog' /\ UndoTells' /\ OpReady' /\ KeysShown'
  BY <1>1, <1>3, <1>4, RecoveryKeeps
<1>6. RowsAreLogged'
  BY <1>1, <1>2, LeftAlone DEF RowsAreLogged
<1>7. ASSUME NEW k \in Key
      PROVE  /\ InsertsOf(k)' = InsertsOf(k) /\ DeletesOf(k)' = DeletesOf(k)
             /\ \A i : (Winner(i)' <=> Winner(i)) /\ (Fits(i)' <=> Fits(i))
             /\ \A i \in InsertsOf(k) \cup DeletesOf(k) : i < pos /\ ~(i > pos')
  <2>1. \A i \in RecordsOf(k) : i < pos /\ ~(i > pos')
    BY <1>1, <1>4, RecordTypes DEF StoreInv
  <2> QED
    BY <1>3, <2>1, SameRecords DEF RecordsOf
<1>8. GoneFromMem'
  <2> SUFFICES ASSUME NEW k \in Key, OnDisk(k)' # {}, InMem(k)' = {} PROVE WhyGone(k)'
    BY DEF GoneFromMem
  <2>1. WhyGone(k)
    BY <1>2 DEF StoreInv, RowsInv, GoneFromMem
  <2>2. \E i \in DeletesOf(k) : Winner(i)
    BY <1>1, <2>1 DEF WhyGone, Session
  <2>3. \E i \in DeletesOf(k)' : Winner(i)'
    BY <1>7, <2>2
  <2> QED
    BY <1>1, <2>3 DEF WhyGone
<1>9. ASSUME NEW k \in Key PROVE Undone(k)'
  <2>1. Redone(k)
    BY <1>1 DEF StoreInv, RowsInv, Recovered
  <2>2. /\ \A i \in DeletesOf(k) : Winner(i) => InMem(k) = {}
        /\ \A i \in InsertsOf(k) : Winner(i) /\ Fits(i) =>
               InMem(k) # {} \/ \E j \in DeletesOf(k) : Winner(j)
    BY <1>7, <2>1 DEF Redone
  <2> QED
    BY <1>2, <1>7, <2>2 DEF Undone
<1>10. Recovered'
  BY <1>1, <1>9 DEF Recovered
<1> QED
  BY <1>2, <1>5, <1>6, <1>8, <1>10 DEF RowsInv

LEMMA RedoThrowsKeepsRows ==
    ASSUME StoreInv, RedoThrows
    PROVE  RowsInv'
<1>1. RecoveryStep /\ pc' = "refused" /\ UNCHANGED pages
  BY DEF RedoThrows, RecoveryStep, session, dml
<1>2. HeapInv' /\ \A j : InMem(j)' = InMem(j) /\ OnDisk(j)' = OnDisk(j)
  BY <1>1, StayKeeps DEF StoreInv, RowsInv
<1>3. LogOrder' /\ LogTellsCommitted' /\ MemFollowsLog' /\ UndoTells' /\ OpReady' /\ KeysShown'
  BY <1>1, RecoveryKeeps
<1>4. RowsAreLogged'
  BY <1>1, <1>2, LeftAlone DEF RowsAreLogged
<1>5. GoneFromMem' /\ Recovered'
  BY <1>1 DEF GoneFromMem, Recovered, WhyGone
<1> QED
  BY <1>2, <1>3, <1>4, <1>5 DEF RowsInv

\* When all records have been redone or undone, the rows are the committed ones.
LEMMA AllRestored ==
    ASSUME StoreInv, pc = "undo", pos = 0, NEW k \in Key
    PROVE  Shows(InMem(k), committed[k])
<1>1. Undone(k) /\ Tells(k) /\ Logged(k)
  BY DEF StoreInv, RowsInv, Recovered, LogTellsCommitted, RowsAreLogged
<1>2. /\ \A i \in RecordsOf(k) : i > pos /\ Readable[i].image \in Image
      /\ InsertsOf(k) \subseteq RecordsOf(k) /\ DeletesOf(k) \subseteq RecordsOf(k)
      /\ RecordsOf(k) = InsertsOf(k) \cup DeletesOf(k)
  BY RecordTypes DEF StoreInv, RecordsOf
<1>3. CASE \A i \in RecordsOf(k) : ~Fits(i)
  BY <1>1, <1>3 DEF Logged
<1>4. CASE \E i \in DeletesOf(k) : Winner(i)
  BY <1>1, <1>4 DEF Undone, Tells, Shows
<1>5. CASE /\ ~\E i \in DeletesOf(k) : Winner(i)
           /\ \E i \in InsertsOf(k) : Winner(i) /\ Fits(i)
  <2>1. PICK i \in InsertsOf(k) : Winner(i) /\ Fits(i)
    BY <1>5
  <2>2. InMem(k) # {} /\ committed[k] = Readable[i].image
    BY <1>1, <1>5, <2>1 DEF Undone, Tells
  <2>3. \A a \in InMem(k) : a[2] = Readable[i].image
    BY <1>1, <1>2, <2>1 DEF Logged
  <2> QED
    BY <1>2, <2>1, <2>2, <2>3 DEF Shows
<1>6. CASE \E i \in InsertsOf(k) : ~Winner(i)
  <2>1. InMem(k) = {} /\ committed[k] = Absent
    BY <1>1, <1>2, <1>6 DEF Undone, Tells
  <2> QED
    BY <2>1 DEF Shows
<1>7. CASE /\ \A i \in InsertsOf(k) : Winner(i) /\ ~Fits(i)
           /\ \A i \in DeletesOf(k) : ~Winner(i)
           /\ \E i \in RecordsOf(k) : Fits(i)
  <2>1. PICK i \in DeletesOf(k) : Fits(i) /\ ~Winner(i)
    BY <1>2, <1>7
  <2>2. InMem(k) # {} /\ committed[k] = Readable[i].image
    BY <1>1, <1>2, <1>7, <2>1 DEF Undone, Tells
  <2>3. \A a \in InMem(k) : a[2] = Readable[i].image
    BY <1>1, <1>2, <2>1 DEF Logged
  <2> QED
    BY <1>2, <2>1, <2>2, <2>3 DEF Shows
<1> QED
  BY <1>3, <1>4, <1>5, <1>6, <1>7

LEMMA FlushKeepsRows ==
    ASSUME StoreInv, Flush
    PROVE  RowsInv'
<1>1. /\ RecoveryStep /\ pc = "undo" /\ pc' = "flushed" /\ pos = 0 /\ pos' = 0
      /\ disk' = mem /\ UNCHANGED <<mem, index>>
  BY DEF Flush, RecoveryStep, session, dml
<1>2. HeapInv' /\ \A j : InMem(j)' = InMem(j) /\ OnDisk(j)' = InMem(j)
  BY <1>1, FlushKeeps DEF StoreInv, RowsInv, Running
<1>3. LogOrder' /\ LogTellsCommitted' /\ MemFollowsLog' /\ UndoTells' /\ OpReady' /\ KeysShown'
  BY <1>1, RecoveryKeeps
<1>4. Readable' = Readable /\ UNCHANGED committed
  BY <1>1, SameLog DEF RecoveryStep
<1>5. ASSUME NEW k \in Key PROVE Logged(k)' /\ Restored(k)'
  <2>1. Shows(InMem(k), committed[k])
    BY <1>1, AllRestored
  <2>2. Restored(k)'
    BY <1>2, <1>4, <2>1 DEF Restored
  <2>3. Logged(k)
    BY DEF StoreInv, RowsInv, RowsAreLogged
  <2>4. RecordsOf(k)' = RecordsOf(k) /\ \A i : Fits(i)' <=> Fits(i)
    BY <1>4, SameRecords
  <2>5. \A i \in RecordsOf(k)' : Fits(i)' =>
             \A a \in InMem(k)' \cup OnDisk(k)' : a[2] = Readable'[i].image
    BY <1>2, <1>4, <2>3, <2>4 DEF Logged
  <2>6. Shows(OnDisk(k)', committed'[k]) /\ InMem(k)' = OnDisk(k)'
    BY <1>2, <1>4, <2>1
  <2> QED
    BY <2>2, <2>5, <2>6 DEF Logged
<1>6. RowsAreLogged' /\ Recovered'
  BY <1>1, <1>5 DEF RowsAreLogged, Recovered
<1>7. GoneFromMem'
  BY <1>2 DEF GoneFromMem
<1> QED
  BY <1>2, <1>3, <1>6, <1>7 DEF RowsInv

\* With an empty log, memory and disk have to show the committed rows.
LEMMA EmptyLogIsGood ==
    ASSUME HeapInv', Readable' = <<>>, pc' = "ready", current_txn' = INVALID_TXN, undo' = <<>>,
           keys' = {}, \A k \in Key : Restored(k)'
    PROVE  RowsInv'
<1>1. DOMAIN Readable' = {} /\ Range(Readable') = {}
  BY DEF Range
<1>2. \A k : InsertsOf(k)' = {} /\ DeletesOf(k)' = {} /\ RecordsOf(k)' = {}
  BY <1>1 DEF InsertsOf, DeletesOf, RecordsOf
<1>3. LogOrder' /\ LogTellsCommitted'
  BY <1>2 DEF LogOrder, Ordered, LogTellsCommitted, Tells
<1>4. RowsAreLogged'
  BY <1>2 DEF RowsAreLogged, Logged, Restored
<1>5. GoneFromMem'
  BY DEF GoneFromMem, Restored
<1>6. MemFollowsLog'
  BY <1>1, <1>2 DEF MemFollowsLog, TxnsEnd, Follows, CommittedTxns
<1>7. UndoTells'
  <2>1. \A k \in Key : Undoable(k)' /\ Remembered(k)'
    BY <1>2 DEF Undoable, Remembered, Restored
  <2> QED
    BY <2>1 DEF UndoTells
<1>8. OpReady' /\ KeysShown' /\ Recovered'
  BY DEF OpReady, KeysShown, Recovered
<1> QED
  BY <1>3, <1>4, <1>5, <1>6, <1>7, <1>8 DEF RowsInv

LEMMA ResetKeepsRows ==
    ASSUME StoreInv, Reset
    PROVE  RowsInv'
<1>1. /\ pc = "flushed" /\ pc' = "ready" /\ log' = <<>>
      /\ UNCHANGED <<disk, mem, index, current_txn, undo, keys, committed>> /\ UNCHANGED pages
  BY DEF Reset, session, dml, pages
<1>2. HeapInv' /\ \A j : InMem(j)' = InMem(j) /\ OnDisk(j)' = OnDisk(j)
  BY <1>1, StayKeeps DEF StoreInv, RowsInv, Running
<1>3. Readable' = <<>>
  BY <1>1 DEF Readable, TornAt
<1>4. current_txn = INVALID_TXN /\ undo = <<>> /\ keys = {}
  BY <1>1 DEF StoreInv, RowsInv, UndoTells, KeysShown, Session
<1>5. \A k \in Key : Restored(k)'
  BY <1>1, <1>2 DEF StoreInv, RowsInv, Recovered, Restored
<1> QED
  BY <1>1, <1>2, <1>3, <1>4, <1>5, EmptyLogIsGood

\* Nothing happens but, at most, that a page is written back.
LEMMA IdleKeepsRows ==
    ASSUME StoreInv, HeapInv',
           UNCHANGED <<log, current_txn, undo, pc, op, keys, pos, committed>>,
           \A j \in Key : /\ InMem(j)' = InMem(j) /\ OnDisk(j)' \subseteq OnDisk(j) \cup InMem(j)
                          /\ InMem(j) = OnDisk(j) => OnDisk(j)' = OnDisk(j),
           Running \/ UNCHANGED <<disk, mem>>
    PROVE  RowsInv'
<1>1. UNCHANGED <<log, current_txn, undo, pc, op, keys, pos, committed>>
  OBVIOUS
<1>2. /\ HeapInv'
      /\ \A j \in Key : /\ InMem(j)' = InMem(j) /\ OnDisk(j)' \subseteq OnDisk(j) \cup InMem(j)
                        /\ InMem(j) = OnDisk(j) => OnDisk(j)' = OnDisk(j)
                        /\ Running \/ OnDisk(j)' = OnDisk(j)
  BY DEF OnDisk
<1>3. Readable' = Readable
  BY <1>1, SameLog
<1>4. LogOrder' /\ LogTellsCommitted'
  BY <1>1, <1>3, SameOrder, SameCommitted DEF StoreInv, RowsInv
<1>5. /\ \A k : /\ InsertsOf(k)' = InsertsOf(k) /\ DeletesOf(k)' = DeletesOf(k)
                /\ RecordsOf(k)' = RecordsOf(k)
      /\ \A i : (Fits(i)' <=> Fits(i)) /\ (Winner(i)' <=> Winner(i)) /\ (Aborted(i)' <=> Aborted(i))
                /\ (Own(i)' <=> Own(i))
      /\ CommittedTxns' = CommittedTxns /\ AbortedTxns' = AbortedTxns
  BY <1>1, <1>3, SameRecords
<1>6. ASSUME NEW k \in Key PROVE Logged(k)'
  <2>1. Logged(k)
    BY DEF StoreInv, RowsInv, RowsAreLogged
  <2> QED
    BY <1>1, <1>2, <1>3, <1>5, <2>1 DEF Logged, Running
<1>7. GoneFromMem'
  <2> SUFFICES ASSUME NEW k \in Key, OnDisk(k)' # {}, InMem(k)' = {} PROVE WhyGone(k)'
    BY DEF GoneFromMem
  <2>1. WhyGone(k)
    BY <1>2 DEF StoreInv, RowsInv, GoneFromMem
  <2> QED
    BY <1>1, <1>5, <2>1 DEF WhyGone
<1>8. MemFollowsLog'
  <2> SUFFICES ASSUME pc \in Session PROVE TxnsEnd' /\ \A k \in Key : Follows(k)'
    BY <1>1 DEF MemFollowsLog
  <2>1. TxnsEnd /\ \A k \in Key : Follows(k)
    BY DEF StoreInv, RowsInv, MemFollowsLog
  <2>2. TxnsEnd'
    BY <1>3, <1>5, <2>1 DEF TxnsEnd
  <2>3. ASSUME NEW k \in Key PROVE Follows(k)'
    <3>1. BeingApplied(k)' <=> BeingApplied(k)
      BY <1>1 DEF BeingApplied
    <3> QED
      BY <1>1, <1>2, <1>5, <2>1, <3>1 DEF Follows
  <2> QED
    BY <2>2, <2>3
<1>9. UndoTells'
  <2>1. ASSUME NEW k \in Key PROVE Undoable(k)' /\ (pc \in Session => Remembered(k)')
    BY <1>1, <1>2, <1>5 DEF StoreInv, RowsInv, UndoTells, Undoable, Remembered
  <2> QED
    BY <1>1, <2>1 DEF StoreInv, RowsInv, UndoTells
<1>10. OpReady'
  <2>1. OpReady
    BY DEF StoreInv, RowsInv
  <2>2. PICK k : k = op.pk
    OBVIOUS
  <2>3. pc \in {"log", "apply"} => k \in Key
    BY <2>1, <2>2 DEF OpReady, RowOp
  <2>4. /\ InMem(op.pk) = InMem(k) /\ InMem(op.pk)' = InMem(k)'
        /\ DeletesOf(op.pk) = DeletesOf(k) /\ DeletesOf(op.pk)' = DeletesOf(k)'
        /\ InsertsOf(op.pk) = InsertsOf(k) /\ InsertsOf(op.pk)' = InsertsOf(k)'
    BY <1>1, <2>2 DEF InMem, DeletesOf, InsertsOf
  <2>5. pc \in {"log", "apply"} => InMem(k)' = InMem(k)
    BY <1>2, <2>3
  <2> QED
    BY <1>1, <1>3, <1>5, <2>1, <2>4, <2>5 DEF OpReady
<1>11. KeysShown'
  BY <1>1, <1>2, <1>3 DEF StoreInv, RowsInv, TypeOK, KeysShown
<1>12. Recovered'
  BY <1>1, <1>2, <1>3, <1>5 DEF StoreInv, RowsInv, Recovered, Redone, Undone, Restored, Running
<1> QED
  BY <1>2, <1>4, <1>6, <1>7, <1>8, <1>9, <1>10, <1>11, <1>12 DEF RowsInv, RowsAreLogged

LEMMA WriteBackKeepsRows ==
    ASSUME StoreInv, NEW p \in DOMAIN mem, WriteBack(p)
    PROVE  RowsInv'
<1>1. Running /\ UNCHANGED <<log, current_txn, undo, pc, op, keys, pos, committed>>
  BY DEF WriteBack, session, dml, Running
<1>2. /\ HeapInv'
      /\ \A j \in Key : /\ InMem(j)' = InMem(j) /\ OnDisk(j)' \subseteq OnDisk(j) \cup InMem(j)
                        /\ InMem(j) = OnDisk(j) => OnDisk(j)' = OnDisk(j)
  BY WriteBackKeeps DEF StoreInv, RowsInv
<1> QED
  BY <1>1, <1>2, IdleKeepsRows

LEMMA StutterKeepsRows ==
    ASSUME StoreInv, UNCHANGED vars
    PROVE  RowsInv'
<1>1. /\ UNCHANGED <<log, current_txn, undo, pc, op, keys, pos, committed>>
      /\ UNCHANGED <<disk, mem, index>>
  BY DEF vars
<1>2. HeapInv'
  BY <1>1 DEF StoreInv, RowsInv, HeapInv, HeapTypes, RowsFit, OneRow, IndexAgrees, Running,
              InMem, OnDisk
<1>3. \A j : InMem(j)' = InMem(j) /\ OnDisk(j)' = OnDisk(j)
  BY <1>1 DEF InMem, OnDisk
<1> QED
  BY <1>1, <1>2, <1>3, IdleKeepsRows

-------------------------------------------------------------------------------
(* Types.                                                                   *)

Records   == RowRecord \cup TxnRecord \cup {Torn}
LogType   == log \in Seq(Records)
PosType   == pos \in 0 .. Len(Readable) + 1
RestTypes ==
    /\ autocommit_started \in BOOLEAN
    /\ undo \in Seq(Undo)
    /\ pc \in {"ready", "rows", "log", "apply", "commit", "rollback", "down",
               "redo", "undo", "flushed", "refused"}
    /\ op \in RowOp \cup {NoOp}
    /\ keys \in SUBSET Key /\ deleted \in SUBSET Key
    /\ statements \in 0 .. MaxStatements /\ restarts \in 0 .. MaxRestarts
CommittedType == committed \in [Key -> Image \cup {Absent}]

LEMMA TypesMakeTypeOK ==
    ASSUME LogInv, RowsInv, LogType, PosType, RestTypes, CommittedType
    PROVE  TypeOK
<1>1. current_txn \in 0 .. next_txn - 1
  BY DEF LogInv, NumbersAscend
<1>2. disk \in Seq(Page) /\ mem \in Seq(Page) /\ index \in [Key -> (Nat \X Nat) \cup {NoRow}]
      /\ Len(disk) = Len(mem)
  BY DEF RowsInv, HeapInv, HeapTypes, OneRow
<1> QED
  BY <1>1, <1>2 DEF TypeOK, LogType, PosType, RestTypes, CommittedType, Records

LEMMA TypeOKMakesTypes ==
    ASSUME TypeOK
    PROVE  LogType /\ PosType /\ RestTypes /\ CommittedType
BY DEF TypeOK, LogType, PosType, RestTypes, CommittedType, Records

LEMMA AppendTypes ==
    ASSUME StoreInv, pc \in Session, NEW r \in RowRecord \cup TxnRecord, log' = Append(log, r),
           pos' = pos
    PROVE  LogType' /\ PosType'
<1>1. r.type # "TORN"
  BY DEF RowRecord, TxnRecord
<1>2. Len(Readable) \in Nat /\ Len(Readable)' = Len(Readable) + 1
  BY <1>1, OneMore DEF StoreInv
<1>3. PosType'
  BY <1>2, TypeOKMakesTypes DEF PosType, StoreInv
<1>4. r \in Records
  BY DEF Records
<1>5. LogType'
  BY <1>4, TypeOKMakesTypes DEF LogType, StoreInv
<1> QED
  BY <1>3, <1>5

LEMMA SameLogTypes ==
    ASSUME StoreInv, log' = log, pos' \in 0 .. Len(Readable) + 1
    PROVE  LogType' /\ PosType'
<1>1. Readable' = Readable
  BY SameLog
<1> QED
  BY <1>1, TypeOKMakesTypes DEF StoreInv, LogType, PosType

LEMMA EnsureTypes ==
    ASSUME StoreInv, pc \in Session, pos' = pos,
           EnsureTxn \/ StartTxn \/ \E type \in {"BEGIN", "COMMIT", "ABORT"} : EndTxn(type)
    PROVE  LogType' /\ PosType' /\ (undo' \in Seq(Undo))
           /\ (EnsureTxn => autocommit_started' \in BOOLEAN)
<1>1. current_txn \in Nat /\ next_txn \in Nat
  BY DEF StoreInv, LogInv, NumbersAscend
<1>2. pos \in 0 .. Len(Readable) + 1 /\ undo \in Seq(Undo) /\ autocommit_started \in BOOLEAN
  BY DEF StoreInv, TypeOK
<1>3. <<>> \in Seq(Undo)
  OBVIOUS
<1>4. CASE StartTxn
  <2>1. [type |-> "BEGIN", txid |-> next_txn] \in TxnRecord
    BY <1>1 DEF TxnRecord
  <2>2. log' = Append(log, [type |-> "BEGIN", txid |-> next_txn]) /\ undo' = <<>>
    BY <1>4 DEF StartTxn
  <2>3. LogType' /\ PosType'
    BY <2>1, <2>2, AppendTypes
  <2>4. EnsureTxn => autocommit_started' \in BOOLEAN
    BY <1>2 DEF EnsureTxn, session
  <2> QED
    BY <1>3, <2>2, <2>3, <2>4
<1>5. CASE UNCHANGED <<log, session>>
  BY <1>2, <1>5, SameLogTypes DEF session
<1>6. ASSUME NEW type \in {"BEGIN", "COMMIT", "ABORT"}, EndTxn(type)
      PROVE  LogType' /\ PosType' /\ undo' \in Seq(Undo) /\ autocommit_started' \in BOOLEAN
  <2>1. [type |-> type, txid |-> current_txn] \in TxnRecord
    BY <1>1 DEF TxnRecord
  <2>2. /\ log' = Append(log, [type |-> type, txid |-> current_txn])
        /\ undo' = <<>> /\ autocommit_started' = FALSE
    BY <1>6 DEF EndTxn, Logs
  <2> QED
    BY <1>3, <2>1, <2>2, AppendTypes
<1>7. CASE EnsureTxn
  <2>1. CASE StartTxn
    BY <1>4, <2>1
  <2>2. CASE UNCHANGED <<log, session>>
    BY <1>5, <2>2
  <2> QED
    BY <1>7, <2>1, <2>2 DEF EnsureTxn
<1> QED
  BY <1>4, <1>6, <1>7

StoreTypes == LogType /\ PosType /\ RestTypes /\ CommittedType

\* Whatever a step leaves alone keeps its type.
LEMMA TypesAre ==
    ASSUME StoreInv
    PROVE  /\ autocommit_started \in BOOLEAN /\ undo \in Seq(Undo)
           /\ pc \in {"ready", "rows", "log", "apply", "commit", "rollback", "down",
                      "redo", "undo", "flushed", "refused"}
           /\ op \in RowOp \cup {NoOp} /\ keys \in SUBSET Key /\ deleted \in SUBSET Key
           /\ statements \in 0 .. MaxStatements /\ restarts \in 0 .. MaxRestarts
           /\ pos \in 0 .. Len(Readable) + 1 /\ pos \in Nat /\ Len(Readable) \in Nat
           /\ committed \in [Key -> Image \cup {Absent}]
           /\ MaxStatements \in Nat /\ MaxRestarts \in Nat
           /\ current_txn \in Nat
           /\ \A i \in DOMAIN undo : undo[i].pk \in Key /\ undo[i].image \in Image
<1>1. PosType /\ RestTypes /\ CommittedType /\ MaxStatements \in Nat /\ MaxRestarts \in Nat
  BY TypeOKMakesTypes, WorkloadAssumption DEF StoreInv
<1>2. Len(Readable) \in Nat /\ current_txn \in Nat
  BY RecordTypes DEF StoreInv, LogInv, NumbersAscend
<1>3. pos \in Nat
  BY <1>1, <1>2 DEF PosType
<1>4. undo \in Seq(Undo)
  BY <1>1 DEF RestTypes
<1>5. \A e \in Undo : e.pk \in Key /\ e.image \in Image
  BY DEF Undo
<1>6. \A i \in DOMAIN undo : undo[i].pk \in Key /\ undo[i].image \in Image
  BY <1>4, <1>5
<1> QED
  BY <1>1, <1>2, <1>3, <1>6 DEF PosType, RestTypes, CommittedType

LEMMA BeginTypes ==
    ASSUME StoreInv, Begin
    PROVE  StoreTypes'
<1>1. /\ pc = "ready" /\ pc' = pc /\ StartTxn /\ pos' = pos /\ autocommit_started' = FALSE
      /\ statements < MaxStatements /\ statements' = statements + 1
      /\ UNCHANGED <<op, keys, deleted, committed, restarts>>
  BY DEF Begin, Statement, dml
<1>2. LogType' /\ PosType' /\ undo' \in Seq(Undo)
  BY <1>1, EnsureTypes DEF Session
<1>3. statements' \in 0 .. MaxStatements
  BY <1>1, TypesAre
<1>4. RestTypes'
  BY <1>1, <1>2, <1>3, TypesAre DEF RestTypes
<1> QED
  BY <1>1, <1>2, <1>4, TypesAre DEF StoreTypes, CommittedType

LEMMA InsertRowTypes ==
    ASSUME StoreInv, NEW k \in Key, NEW image \in Image, InsertRow(k, image)
    PROVE  StoreTypes'
<1>1. /\ pc = "ready" /\ pc' = "log" /\ EnsureTxn /\ pos' = pos
      /\ statements < MaxStatements /\ statements' = statements + 1
      /\ UNCHANGED <<keys, deleted, committed, restarts>> /\ op' \in RowOp
  BY DEF InsertRow, Statement, RowOp
<1>2. LogType' /\ PosType' /\ undo' \in Seq(Undo) /\ autocommit_started' \in BOOLEAN
  BY <1>1, EnsureTypes DEF Session
<1> QED
  BY <1>1, <1>2, TypesAre DEF StoreTypes, RestTypes, CommittedType

LEMMA DeleteByKeyTypes ==
    ASSUME StoreInv, DeleteByKey
    PROVE  StoreTypes'
<1>1. /\ pc = "rows" /\ pos' = pos /\ keys' \subseteq keys
      /\ UNCHANGED <<deleted, committed, statements, restarts>>
  BY DEF DeleteByKey, counters
<1>2. CASE index[FirstKey] = NoRow /\ UNCHANGED <<log, session, op, pc>>
  <2>1. LogType' /\ PosType'
    BY <1>1, <1>2, TypesAre, SameLogTypes
  <2> QED
    BY <1>1, <1>2, <2>1, TypesAre DEF StoreTypes, RestTypes, CommittedType, session
<1>3. CASE /\ index[FirstKey] # NoRow /\ EnsureTxn /\ pc' = "log"
           /\ op' = [kind |-> "DELETE", pk |-> FirstKey, image |-> At(mem, index[FirstKey]).image,
                     implicit |-> current_txn = INVALID_TXN]
  <2>1. LogType' /\ PosType' /\ undo' \in Seq(Undo) /\ autocommit_started' \in BOOLEAN
    BY <1>1, <1>3, EnsureTypes DEF Session
  <2>2. PICK k \in Key : k = FirstKey
    BY FirstKeyIs DEF DeleteByKey
  <2>3. At(mem, index[FirstKey]).image \in Image
    BY <1>1, <1>3, <2>2, IndexTells DEF StoreInv, RowsInv, Running
  <2>4. op' \in RowOp
    BY <1>3, <2>2, <2>3 DEF RowOp
  <2> QED
    BY <1>1, <1>3, <2>1, <2>4, TypesAre DEF StoreTypes, RestTypes, CommittedType
<1> QED
  BY <1>2, <1>3 DEF DeleteByKey

LEMMA EndTypes ==
    ASSUME StoreInv, Commit \/ AutoCommit \/ EndRollback
    PROVE  StoreTypes'
<1>1. /\ pc \in Session /\ \E type \in {"BEGIN", "COMMIT", "ABORT"} : EndTxn(type)
      /\ pc' \in {"ready", "rows"} /\ pos' = pos /\ op' \in {op, NoOp}
      /\ UNCHANGED <<keys, deleted, restarts>>
      /\ \/ statements' = statements
         \/ statements < MaxStatements /\ statements' = statements + 1
  BY DEF Commit, AutoCommit, EndRollback, Statement, dml, counters, Session
<1>2. LogType' /\ PosType' /\ undo' \in Seq(Undo)
  BY <1>1, EnsureTypes
<1>3. autocommit_started' = FALSE
  BY DEF Commit, AutoCommit, EndRollback, EndTxn
<1>4. CommittedType'
  <2>1. CASE EndRollback
    BY <2>1, TypesAre DEF EndRollback, CommittedType
  <2>2. CASE Commit \/ AutoCommit
    BY <2>2, CommitsKeepRows DEF CommittedType
  <2> QED
    BY <2>1, <2>2
<1>5. statements' \in 0 .. MaxStatements
  BY <1>1, TypesAre
<1>6. RestTypes'
  BY <1>1, <1>2, <1>3, <1>5, TypesAre DEF RestTypes
<1> QED
  BY <1>2, <1>4, <1>6 DEF StoreTypes

LEMMA LogRowTypes ==
    ASSUME StoreInv, LogRow
    PROVE  StoreTypes'
<1>1. /\ pc = "log" /\ pc' = "apply" /\ pos' = pos
      /\ log' = Append(log, [type |-> op.kind, txid |-> current_txn, pk |-> op.pk,
                             image |-> op.image])
      /\ UNCHANGED <<autocommit_started, undo, op, keys, deleted, committed, statements, restarts>>
  BY DEF LogRow, session, dml, counters
<1>2. op \in RowOp /\ current_txn \in Nat
  BY <1>1, TypesAre DEF StoreInv, RowsInv, OpReady
<1>3. op.kind \in {"INSERT", "DELETE"} /\ op.pk \in Key /\ op.image \in Image
  BY <1>2 DEF RowOp
<1>4. [type |-> op.kind, txid |-> current_txn, pk |-> op.pk, image |-> op.image]
          \in RowRecord \cup TxnRecord
  BY <1>2, <1>3 DEF RowRecord
<1>5. LogType' /\ PosType'
  BY <1>1, <1>4, AppendTypes DEF Session
<1> QED
  BY <1>1, <1>5, TypesAre DEF StoreTypes, RestTypes, CommittedType

LEMMA ApplyTypes ==
    ASSUME StoreInv, ApplyInsert \/ ApplyDelete
    PROVE  StoreTypes'
<1>1. /\ pc = "apply" /\ pc' \in {"commit", "rows", "ready"} /\ pos' = pos /\ log' = log
      /\ undo' = Append(undo, [was_insert |-> op.kind = "INSERT", pk |-> op.pk,
                               image |-> op.image])
      /\ op' \in {op, NoOp} /\ deleted' \in {deleted, deleted \cup {op.pk}}
      /\ UNCHANGED <<autocommit_started, keys, committed, statements, restarts>>
  BY DEF ApplyInsert, ApplyDelete, Remember, EndOfRow, counters
<1>2. op \in RowOp
  BY <1>1 DEF StoreInv, RowsInv, OpReady
<1>3. op.pk \in Key /\ op.image \in Image
  BY <1>2 DEF RowOp
<1>4. [was_insert |-> op.kind = "INSERT", pk |-> op.pk, image |-> op.image] \in Undo
  BY <1>3 DEF Undo
<1>5. undo' \in Seq(Undo)
  BY <1>1, <1>4, TypesAre
<1>6. LogType' /\ PosType'
  BY <1>1, SameLogTypes, TypesAre
<1> QED
  BY <1>1, <1>3, <1>5, <1>6, TypesAre DEF StoreTypes, RestTypes, CommittedType

LEMMA UndoOneTypes ==
    ASSUME StoreInv, UndoOne
    PROVE  StoreTypes'
<1>1. /\ undo # <<>> /\ undo' = Front(undo) /\ log' = log
      /\ UNCHANGED <<autocommit_started, pc, op, keys, deleted, pos, committed, statements, restarts>>
  BY DEF UndoOne, dml, counters
<1>2. undo' \in Seq(Undo)
  BY <1>1, TypesAre DEF Front
<1>3. LogType' /\ PosType'
  BY <1>1, SameLogTypes, TypesAre
<1> QED
  BY <1>1, <1>2, <1>3, TypesAre DEF StoreTypes, RestTypes, CommittedType

LEMMA QuietTypes ==
    ASSUME StoreInv,
           \/ \E K \in SUBSET Key : RunDelete(K)
           \/ DeleteDone \/ InsertThrows \/ RollbackCall \/ RedoDone \/ RedoThrows \/ Flush
           \/ \E p \in DOMAIN mem : WriteBack(p)
           \/ UNCHANGED vars
    PROVE  StoreTypes'
<1>1. /\ log' = log /\ UNCHANGED <<autocommit_started, undo, committed, restarts>>
      /\ pc' \in {pc, "rows", "ready", "rollback", "undo", "refused", "flushed"}
      /\ op' \in {op, NoOp} /\ keys' \in SUBSET Key /\ deleted' \in {deleted, {}}
      /\ pos' \in {pos, Len(Readable)}
      /\ \/ statements' = statements
         \/ statements < MaxStatements /\ statements' = statements + 1
  BY TypesAre DEF RunDelete, DeleteDone, InsertThrows, RollbackCall, RedoDone, RedoThrows, Flush,
     WriteBack, Statement, session, dml, counters, vars
<1>2. LogType' /\ PosType'
  BY <1>1, SameLogTypes, TypesAre
<1> QED
  BY <1>1, <1>2, TypesAre DEF StoreTypes, RestTypes, CommittedType

LEMMA RecoverTypes ==
    ASSUME StoreInv, Redo \/ UndoLoser \/ Reset
    PROVE  StoreTypes'
<1>1. /\ pc' \in {pc, "ready"}
      /\ UNCHANGED <<autocommit_started, undo, op, keys, deleted, committed, statements, restarts>>
  BY DEF Redo, UndoLoser, Reset, session, dml, counters
<1>2. LogType' /\ PosType'
  <2>1. CASE Redo
    BY <2>1, SameLogTypes, TypesAre DEF Redo
  <2>2. CASE UndoLoser
    BY <2>2, SameLogTypes, TypesAre DEF UndoLoser
  <2>3. CASE Reset
    <3>1. log' = <<>> /\ pos' = pos /\ pos = 0
      BY <2>3 DEF Reset, StoreInv, RowsInv, Recovered
    <3>2. Readable' = <<>>
      BY <3>1 DEF Readable, TornAt
    <3>3. Len(Readable') = 0
      BY <3>2
    <3> QED
      BY <3>1, <3>3 DEF LogType, PosType
  <2> QED
    BY <2>1, <2>2, <2>3
<1> QED
  BY <1>1, <1>2, TypesAre DEF StoreTypes, RestTypes, CommittedType

LEMMA StopTypes ==
    ASSUME Tears # "any", StoreInv, Crash \/ Exit
    PROVE  StoreTypes'
<1>1. /\ pc' = "down" /\ autocommit_started' = FALSE /\ undo' = <<>> /\ op' = NoOp
      /\ keys' = {} /\ deleted' = {} /\ pos' = 0 /\ UNCHANGED <<committed, statements, restarts>>
  BY DEF Crash, Exit, LoseMemory, counters
<1>2. LogType' /\ PosType'
  <2>1. CASE log' = log
    BY <1>1, <2>1, SameLogTypes, TypesAre
  <2>2. CASE log' = Append(log, Torn) /\ Appending
    <3>1. pc \in Session /\ LogInv
      BY <2>2 DEF Appending, Session, StoreInv
    <3>2. Readable = log /\ TornAt = {}
      BY <3>1, AllReadable DEF TornAt, LogInv, TornIsLast
    <3>3. Readable' = Readable
      BY <2>2, <3>1, <3>2, TearsOff
    <3>4. PosType'
      BY <1>1, <3>3, TypesAre DEF PosType
    <3>5. Torn \in Records
      BY DEF Records
    <3>6. LogType'
      BY <2>2, <3>5, TypeOKMakesTypes DEF LogType, StoreInv
    <3> QED
      BY <3>4, <3>6
  <2> QED
    BY <2>1, <2>2 DEF Crash, Exit
<1>3. undo' \in Seq(Undo)
  BY <1>1
<1> QED
  BY <1>1, <1>2, <1>3, TypesAre DEF StoreTypes, RestTypes, CommittedType

LEMMA RestartTypes ==
    ASSUME StoreInv, Restart
    PROVE  StoreTypes'
<1>1. /\ pc' \in {"ready", "redo"} /\ log' = log /\ pos' \in {pos, 1}
      /\ restarts < MaxRestarts /\ restarts' = restarts + 1
      /\ UNCHANGED <<autocommit_started, undo, op, keys, deleted, committed, statements>>
  BY DEF Restart, StartRecovery, dml
<1>2. LogType' /\ PosType'
  BY <1>1, SameLogTypes, TypesAre
<1>3. restarts' \in 0 .. MaxRestarts
  BY <1>1, TypesAre
<1>4. RestTypes'
  BY <1>1, <1>3, TypesAre DEF RestTypes
<1> QED
  BY <1>1, <1>2, <1>4, TypesAre DEF StoreTypes, CommittedType

-------------------------------------------------------------------------------
(* Together.                                                                *)

LEMMA LogInvKept ==
    ASSUME Tears # "any", LogInv, [Next]_vars
    PROVE  LogInv'
BY LogSteps, StartKeeps, RowKeeps, QuietKeeps, StopKeeps, RestartKeeps, ResetKeeps

LEMMA RowsInvKept ==
    ASSUME Care = Precautions, Tears # "any", StoreInv, [Next]_vars
    PROVE  RowsInv' /\ StoreTypes'
<1>1. CASE Begin
  BY <1>1, BeginKeepsRows, BeginTypes
<1>2. CASE Commit
  BY <1>2, CommitsKeepRows, EndTypes
<1>3. CASE RollbackCall
  BY <1>3, QuietKeepsRows, QuietTypes
<1>4. CASE UndoOne
  BY <1>4, UndoOneKeepsRows, UndoOneTypes
<1>5. CASE EndRollback
  BY <1>5, EndRollbackKeepsRows, EndTypes
<1>6. CASE Write
  <2>1. ASSUME NEW k \in Key, NEW image \in Image, InsertRow(k, image)
        PROVE  RowsInv' /\ StoreTypes'
    BY <2>1, InsertRowKeepsRows, InsertRowTypes
  <2>2. ASSUME NEW K \in SUBSET Key, RunDelete(K) PROVE RowsInv' /\ StoreTypes'
    BY <2>2, RunDeleteKeepsRows, QuietTypes
  <2>3. CASE DeleteByKey
    BY <2>3, DeleteByKeyKeepsRows, DeleteByKeyTypes
  <2>4. CASE DeleteDone
    BY <2>4, QuietKeepsRows, QuietTypes
  <2>5. CASE LogRow
    BY <2>5, LogRowKeepsRows, LogRowTypes
  <2>6. CASE ApplyInsert \/ ApplyDelete
    BY <2>6, ApplyKeepsRows, ApplyTypes
  <2>7. CASE InsertThrows
    BY <2>7, InsertThrowsKeepsRows, QuietTypes
  <2>8. CASE AutoCommit
    BY <2>8, CommitsKeepRows, EndTypes
  <2> QED
    BY <1>6, <2>1, <2>2, <2>3, <2>4, <2>5, <2>6, <2>7, <2>8 DEF Write
<1>7. CASE Recover
  <2>1. CASE Restart
    BY <2>1, RestartKeepsRows, RestartTypes
  <2>2. CASE Redo
    BY <2>2, RedoKeepsRows, RecoverTypes
  <2>3. CASE RedoDone
    BY <2>3, RedoDoneKeepsRows, QuietTypes
  <2>4. CASE RedoThrows
    BY <2>4, RedoThrowsKeepsRows, QuietTypes
  <2>5. CASE UndoLoser
    BY <2>5, UndoLoserKeepsRows, RecoverTypes
  <2>6. CASE Flush
    BY <2>6, FlushKeepsRows, QuietTypes
  <2>7. CASE Reset
    BY <2>7, ResetKeepsRows, RecoverTypes
  <2> QED
    BY <1>7, <2>1, <2>2, <2>3, <2>4, <2>5, <2>6, <2>7 DEF Recover
<1>8. CASE Crash \/ Exit
  BY <1>8, StopKeepsRows, StopTypes
<1>9. ASSUME NEW p \in DOMAIN mem, WriteBack(p) PROVE RowsInv' /\ StoreTypes'
  BY <1>9, WriteBackKeepsRows, QuietTypes
<1>10. CASE UNCHANGED vars
  BY <1>10, StutterKeepsRows, QuietTypes
<1> QED
  BY <1>1, <1>2, <1>3, <1>4, <1>5, <1>6, <1>7, <1>8, <1>9, <1>10 DEF Next

LEMMA StoreInvKept ==
    ASSUME Care = Precautions, Tears # "any", StoreInv, [Next]_vars
    PROVE  StoreInv'
<1>1. LogInv'
  BY LogInvKept DEF StoreInv
<1>2. RowsInv' /\ StoreTypes'
  BY RowsInvKept
<1>3. TypeOK'
  <2>1. current_txn' \in 0 .. next_txn' - 1
    <3>1. current_txn' \in Nat /\ next_txn' \in Nat /\ current_txn' < next_txn'
      BY <1>1 DEF LogInv, NumbersAscend
    <3>2. \A a, b \in Nat : a < b => a \in 0 .. b - 1
      OBVIOUS
    <3> QED
      BY <3>1, <3>2
  <2>2. (/\ disk \in Seq(Page) /\ mem \in Seq(Page)
         /\ index \in [Key -> (Nat \X Nat) \cup {NoRow}] /\ Len(disk) = Len(mem))'
    BY <1>2 DEF RowsInv, HeapInv, HeapTypes, OneRow
  <2> QED
    BY <1>2, <2>1, <2>2
       DEF TypeOK, StoreTypes, LogType, PosType, RestTypes, CommittedType, Records
<1> QED
  BY <1>1, <1>2, <1>3 DEF StoreInv

LEMMA InitStoreInv ==
    ASSUME Init
    PROVE  StoreInv
<1>1. /\ disk = Loaded /\ mem = Loaded /\ index = IndexOf(Loaded) /\ committed = Contents(Loaded)
      /\ log = <<>> /\ current_txn = INVALID_TXN /\ undo = <<>> /\ pc = "ready" /\ keys = {}
      /\ deleted = {} /\ pos = 0 /\ op = NoOp /\ statements = 0 /\ restarts = 0
      /\ autocommit_started = FALSE
  BY DEF Init
<1>2. LogInv
  BY InitLogInv
<1>3. HeapTypes
  <2>1. \A k \in Key : IndexOf(Loaded)[k] \in (Nat \X Nat) \cup {NoRow}
    BY LoadedAssumption, IndexOfIs
  <2>2. IndexOf(Loaded) \in [Key -> (Nat \X Nat) \cup {NoRow}]
    BY <2>1 DEF IndexOf
  <2> QED
    BY <1>1, <2>2, LoadedAssumption DEF HeapTypes, RowsFit
<1>4. \A k \in Key : \A a, b \in RowsOf(Loaded, k) : a = b
  BY LoadedAssumption DEF RowsOf
<1>5. HeapInv
  <2>1. OneRow
    BY <1>1, <1>4 DEF OneRow, InMem, OnDisk
  <2>2. IndexAgrees
    BY <1>1, LoadedAssumption, IndexOfIs DEF IndexAgrees
  <2> QED
    BY <1>3, <2>1, <2>2 DEF HeapInv
<1>6. /\ Contents(Loaded) \in [Key -> Image \cup {Absent}]
      /\ \A k \in Key : Shows(RowsOf(Loaded, k), Contents(Loaded)[k])
  BY <1>4, LoadedAssumption, ContentsShow
<1>7. Readable = <<>>
  BY <1>1 DEF Readable, TornAt
<1>8. DOMAIN Readable = {} /\ Range(Readable) = {} /\ Len(Readable) = 0
  BY <1>7 DEF Range
<1>9. \A k : InsertsOf(k) = {} /\ DeletesOf(k) = {} /\ RecordsOf(k) = {}
  BY <1>8 DEF InsertsOf, DeletesOf, RecordsOf
<1>10. LogOrder /\ LogTellsCommitted
  BY <1>9 DEF LogOrder, Ordered, LogTellsCommitted, Tells
<1>11. RowsAreLogged /\ GoneFromMem
  BY <1>1, <1>6, <1>9 DEF RowsAreLogged, Logged, GoneFromMem, InMem, OnDisk
<1>12. MemFollowsLog
  BY <1>8, <1>9 DEF MemFollowsLog, TxnsEnd, Follows, CommittedTxns
<1>13. UndoTells
  <2>1. \A k \in Key : Undoable(k) /\ Remembered(k)
    BY <1>1, <1>6, <1>9 DEF Undoable, Remembered, InMem
  <2> QED
    BY <1>1, <2>1 DEF UndoTells
<1>14. OpReady /\ KeysShown /\ Recovered
  BY <1>1 DEF OpReady, KeysShown, Recovered
<1>15. RowsInv
  BY <1>5, <1>10, <1>11, <1>12, <1>13, <1>14 DEF RowsInv
<1>16. LogType /\ PosType /\ RestTypes /\ CommittedType
  <2>1. LogType /\ PosType /\ CommittedType
    BY <1>1, <1>6, <1>8 DEF LogType, PosType, CommittedType
  <2>2. undo \in Seq(Undo) /\ 0 \in 0 .. MaxStatements /\ 0 \in 0 .. MaxRestarts
    BY <1>1, WorkloadAssumption
  <2>3. RestTypes
    BY <1>1, <2>2 DEF RestTypes
  <2> QED
    BY <2>1, <2>3
<1> QED
  BY <1>2, <1>15, <1>16, TypesMakeTypeOK DEF StoreInv

LEMMA StoreInvCorrect ==
    ASSUME Care = Precautions, Tears # "any"
    PROVE  Spec => []StoreInv
<1>1. Init => StoreInv
  BY InitStoreInv
<1>2. StoreInv /\ [Next]_vars => StoreInv'
  BY StoreInvKept
<1> QED
  BY <1>1, <1>2, PTL DEF Spec

-------------------------------------------------------------------------------
(* What the invariant says.                                                 *)

\* Types, over any number of statements and restarts: every number in the log, the
\* undo list and the place recovery has come to (database.cpp).
THEOREM TypeOKCorrect ==
    ASSUME Care = Precautions, Tears # "any"
    PROVE  Spec => []TypeOK
<1>1. StoreInv => TypeOK
  BY DEF StoreInv
<1> QED
  BY <1>1, StoreInvCorrect, PTL

\* IndexAgrees: whatever statements, rollbacks, crashes and recoveries happen, a key
\* has one live row at most and the index leads to it (database.cpp physInsert,
\* physDelete; catalog.cpp rebuildIndex).
THEOREM IndexAgreesCorrect ==
    ASSUME Care = Precautions, Tears # "any"
    PROVE  Spec => []IndexAgrees
<1>1. StoreInv => IndexAgrees
  BY DEF StoreInv, RowsInv, HeapInv
<1> QED
  BY <1>1, StoreInvCorrect, PTL

\* A record of a key, found by its place in the log.
LEMMA InLogIs ==
    ASSUME NEW k, NEW i \in RecordsOf(k)
    PROVE  InLog("INSERT", k, Readable[i].image) \/ InLog("DELETE", k, Readable[i].image)
<1>1. i \in DOMAIN Readable /\ Readable[i].pk = k /\ Readable[i].type \in {"INSERT", "DELETE"}
  BY RecordIs
<1>2. Readable[i] \in Range(Readable)
  BY <1>1 DEF Range
<1> QED
  BY <1>1, <1>2 DEF InLog

\* WriteAhead: at every moment the log makes up for the difference between the pages
\* on disk and the committed rows, although pages are written back at any time and
\* the log is emptied by recovery (wal.cpp append, database.cpp recover).
THEOREM WriteAheadCorrect ==
    ASSUME Care = Precautions, Tears # "any"
    PROVE  Spec => []WriteAhead
<1>1. ASSUME StoreInv PROVE WriteAhead
  <2>1. ASSUME NEW rid \in LiveRows(disk), NEW k, k = At(disk, rid).pk,
               committed[k] # At(disk, rid).image
        PROVE  \/ InLog("INSERT", k, At(disk, rid).image)
               \/ InLog("DELETE", k, At(disk, rid).image)
    <3>1. rid \in Copies(disk, k) /\ disk \in Seq(Page)
      BY <1>1, <2>1 DEF Copies, StoreInv, TypeOK
    <3>2. k \in Key
      BY <3>1, RowType
    <3>3. Logged(k)
      BY <1>1, <3>2 DEF StoreInv, RowsInv, RowsAreLogged
    <3>4. <<rid, At(disk, rid).image>> \in OnDisk(k)
      BY <3>1 DEF OnDisk, RowsOf
    <3>5. CASE \A i \in RecordsOf(k) : ~Fits(i)
      <4>1. Shows(OnDisk(k), committed[k])
        BY <3>3, <3>5 DEF Logged
      <4>2. \A a \in OnDisk(k) : a[2] = committed[k]
        BY <4>1 DEF Shows
      <4> QED
        BY <2>1, <3>4, <4>2
    <3>6. CASE \E i \in RecordsOf(k) : Fits(i)
      <4>1. PICK i \in RecordsOf(k) : Fits(i)
        BY <3>6
      <4>2. At(disk, rid).image = Readable[i].image
        BY <3>3, <3>4, <4>1 DEF Logged
      <4> QED
        BY <4>2, InLogIs
    <3> QED
      BY <3>5, <3>6
  <2>2. ASSUME NEW k \in Key, committed[k] \in Image
        PROVE  \/ \E rid \in Copies(disk, k) : At(disk, rid).image = committed[k]
               \/ InLog("INSERT", k, committed[k])
               \/ InLog("DELETE", k, committed[k])
    <3>1. Logged(k) /\ Tells(k)
      BY <1>1 DEF StoreInv, RowsInv, RowsAreLogged, LogTellsCommitted
    <3>2. committed[k] # Absent
      BY <2>2, ContentAssumption
    <3>3. CASE \A i \in RecordsOf(k) : ~Fits(i)
      <4>1. Shows(OnDisk(k), committed[k])
        BY <3>1, <3>3 DEF Logged
      <4>2. PICK a \in OnDisk(k) : a[2] = committed[k]
        BY <3>2, <4>1 DEF Shows
      <4>3. PICK r \in Copies(disk, k) : a = <<r, At(disk, r).image>>
        BY DEF OnDisk, RowsOf
      <4> QED
        BY <4>2, <4>3
    <3>4. CASE \E i \in RecordsOf(k) : Fits(i)
      <4>1. PICK i \in RecordsOf(k) : Fits(i)
        BY <3>4
      <4>2. i \in InsertsOf(k) \/ i \in DeletesOf(k)
        BY DEF RecordsOf
      <4>3. \A j \in DeletesOf(k) : ~Winner(j)
        BY <3>1, <3>2 DEF Tells
      <4>4. \A j \in InsertsOf(k) : Winner(j)
        BY <3>1, <3>2 DEF Tells
      <4>5. committed[k] = Readable[i].image
        BY <3>1, <4>1, <4>2, <4>3, <4>4 DEF Tells
      <4> QED
        BY <4>5, InLogIs
    <3> QED
      BY <3>3, <3>4
  <2> QED
    BY <2>1, <2>2 DEF WriteAhead
<1>2. StoreInv => WriteAhead
  BY <1>1
<1> QED
  BY <1>2, StoreInvCorrect, PTL

LEMMA MemShows ==
    ASSUME StoreInv
    PROVE  /\ Contents(mem) \in [Key -> Image \cup {Absent}]
           /\ \A k \in Key : Shows(InMem(k), Contents(mem)[k])
<1>1. mem \in Seq(Page) /\ \A k \in Key : \A a, b \in RowsOf(mem, k) : a = b
  BY DEF StoreInv, TypeOK, RowsInv, HeapInv, OneRow, InMem, OnDisk
<1> QED
  BY <1>1, ContentsShow DEF InMem

LEMMA IdleShows ==
    ASSUME StoreInv
    PROVE  IdleShowsCommitted
<1> SUFFICES ASSUME pc = "ready", current_txn = INVALID_TXN
             PROVE  Contents(mem) = committed
  BY DEF IdleShowsCommitted
<1>1. undo = <<>> /\ \A k \in Key : Remembered(k)
  BY DEF StoreInv, RowsInv, UndoTells, Session
<1>2. \A k \in Key : Shows(InMem(k), committed[k])
  BY <1>1 DEF Remembered
<1>3. \A k \in Key : Contents(mem)[k] = committed[k]
  BY <1>2, MemShows, ShowsOne
<1>4. committed \in [Key -> Image \cup {Absent}]
  BY DEF StoreInv, TypeOK
<1> QED
  BY <1>3, <1>4, MemShows

\* IdleShowsCommitted: outside a transaction the pages show the committed rows and no
\* others, after any rollbacks, crashes and recoveries (database.cpp rollback, recover).
THEOREM IdleShowsCommittedCorrect ==
    ASSUME Care = Precautions, Tears # "any"
    PROVE  Spec => []IdleShowsCommitted
<1>1. StoreInv => IdleShowsCommitted
  BY IdleShows
<1> QED
  BY <1>1, StoreInvCorrect, PTL

-------------------------------------------------------------------------------
(* The session implements the durable store.                                *)

Visible == IF Serving THEN Contents(mem) ELSE committed
Phase == IF ~Serving THEN "settling"
         ELSE IF current_txn = INVALID_TXN THEN "idle" ELSE "open"

LEMMA StoreStep ==
    ASSUME \/ /\ Phase = "idle" /\ Phase' = "open"
              /\ Visible' = Visible /\ UNCHANGED committed
           \/ /\ Phase = "open" /\ Phase' = "open" /\ UNCHANGED committed
              /\ \E k \in Key :
                    \/ \E image \in Image : /\ Visible[k] = Absent
                                            /\ Visible' = [Visible EXCEPT ![k] = image]
                    \/ Visible[k] # Absent /\ Visible' = [Visible EXCEPT ![k] = Absent]
           \/ /\ Phase = "open" /\ Phase' = "idle"
              /\ committed' = Visible /\ Visible' = Visible
           \/ /\ Phase # "settling" /\ Phase' = "settling"
              /\ Visible' = committed /\ UNCHANGED committed
           \/ /\ Phase = "settling" /\ Phase' = "idle"
              /\ Visible' = Visible /\ UNCHANGED committed
           \/ Phase' = Phase /\ Visible' = Visible /\ UNCHANGED committed
    PROVE  [Store!Next]_(Store!vars)
BY DEF Visible, Phase, Store!Next, Store!vars, Store!Begin, Store!Insert, Store!Delete,
       Store!Commit, Store!FallBack, Store!Settle

\* A row operation changes the visible content of its key, and of no other.
LEMMA OneKeyShows ==
    ASSUME StoreInv, HeapInv', NEW k \in Key, NEW c,
           Shows(InMem(k)', c), \A j \in Key : j # k => InMem(j)' = InMem(j)
    PROVE  Contents(mem)' = [Contents(mem) EXCEPT ![k] = c]
<1>1. (mem \in Seq(Page))' /\ \A j \in Key : \A a, b \in RowsOf(mem', j) : a = b
  BY DEF HeapInv, HeapTypes, OneRow, InMem, OnDisk
<1>2. /\ Contents(mem') \in [Key -> Image \cup {Absent}]
      /\ \A j \in Key : Shows(RowsOf(mem', j), Contents(mem')[j])
  BY <1>1, ContentsShow
<1>3. \A j \in Key : Shows(InMem(j)', Contents(mem')[j])
  BY <1>2 DEF InMem
<1>4. Contents(mem')[k] = c
  BY <1>3, ShowsOne
<1>5. \A j \in Key : j # k => Contents(mem')[j] = Contents(mem)[j]
  <2> SUFFICES ASSUME NEW j \in Key, j # k PROVE Contents(mem')[j] = Contents(mem)[j]
    OBVIOUS
  <2>1. Shows(InMem(j), Contents(mem')[j]) /\ Shows(InMem(j), Contents(mem)[j])
    BY <1>3, MemShows
  <2> QED
    BY <2>1, ShowsOne
<1>6. Contents(mem') = [Contents(mem) EXCEPT ![k] = c]
  BY <1>2, <1>4, <1>5, MemShows
<1> QED
  BY <1>6

LEMMA ApplyShows ==
    ASSUME StoreInv, HeapInv', ApplyInsert \/ ApplyDelete
    PROVE  [Store!Next]_(Store!vars)
<1>1. /\ pc = "apply" /\ Serving' /\ UNCHANGED <<committed, current_txn>>
      /\ HeapInv /\ Running
  BY DEF ApplyInsert, ApplyDelete, Remember, EndOfRow, Serving, StoreInv, RowsInv, Running
<1>2. op \in RowOp
  BY <1>1 DEF StoreInv, RowsInv, OpReady
<1>3. PICK k \in Key, image \in Image : k = op.pk /\ image = op.image
  BY <1>2 DEF RowOp
<1>4. /\ Visible = Contents(mem) /\ Visible' = Contents(mem)'
      /\ Phase = "open" /\ Phase' = "open"
  BY <1>1 DEF Visible, Phase, Serving, StoreInv, LogInv, OpenInSession
<1>5. CASE ApplyInsert
  <2>1. InMem(k) = {} /\ OnDisk(k) = {} /\ ~TooLarge(image) /\ PhysInsert(k, image)
    BY <1>1, <1>3, <1>5, InsertIsAlone DEF ApplyInsert
  <2>2. /\ \E r : InMem(k)' = {<<r, image>>}
        /\ \A j \in Key : j # k => InMem(j)' = InMem(j) /\ OnDisk(j)' = OnDisk(j)
    BY <1>1, <2>1, PutKeeps
  <2>3. Shows(InMem(k)', image)
    BY <2>2, ShowsRow
  <2>4. Contents(mem)' = [Contents(mem) EXCEPT ![k] = image]
    BY <2>2, <2>3, OneKeyShows
  <2>5. Contents(mem)[k] = Absent
    BY <2>1, MemShows DEF Shows
  <2> QED
    BY <1>1, <1>4, <2>4, <2>5, StoreStep
<1>6. CASE ApplyDelete
  <2>1. PhysDelete(k)
    BY <1>3, <1>6 DEF ApplyDelete
  <2>2. InMem(k)' = {} /\ \A j \in Key : j # k => InMem(j)' = InMem(j)
    BY <1>1, <2>1, DropKeeps
  <2>3. Shows(InMem(k)', Absent)
    BY <2>2 DEF Shows
  <2>4. Contents(mem)' = [Contents(mem) EXCEPT ![k] = Absent]
    BY <2>2, <2>3, OneKeyShows
  <2>5. Shows(InMem(k), image)
    <3>1. op.kind = "DELETE" /\ Shows(InMem(op.pk), op.image)
      BY <1>1, <1>6 DEF ApplyDelete, StoreInv, RowsInv, OpReady
    <3>2. InMem(op.pk) = InMem(k)
      BY <1>3 DEF InMem
    <3> QED
      BY <1>3, <3>1, <3>2
  <2>6. Contents(mem)[k] = image /\ image # Absent
    BY <2>5, MemShows, ShowsOne, ContentAssumption
  <2>7. Contents(mem)[k] # Absent
    BY <2>6
  <2> QED
    BY <1>1, <1>4, <2>4, <2>7, StoreStep
<1> QED
  BY <1>5, <1>6

\* The steps that leave the pages alone while statements run.
LEMMA ServingShows ==
    ASSUME Serving, Serving', mem' = mem, UNCHANGED committed,
           \/ UNCHANGED current_txn
           \/ current_txn = INVALID_TXN /\ current_txn' # INVALID_TXN
    PROVE  [Store!Next]_(Store!vars)
<1>1. Visible' = Visible
  BY DEF Visible
<1>2. Phase' = Phase \/ (Phase = "idle" /\ Phase' = "open")
  BY DEF Phase
<1> QED
  BY <1>1, <1>2, StoreStep

LEMMA EnsureOpens ==
    ASSUME LogInv, EnsureTxn
    PROVE  \/ UNCHANGED current_txn
           \/ current_txn = INVALID_TXN /\ current_txn' # INVALID_TXN
BY DEF EnsureTxn, StartTxn, session, LogInv, NumbersAscend, INVALID_TXN

LEMMA DurableStep ==
    ASSUME StoreInv, StoreInv', IdleShowsCommitted', [Next]_vars
    PROVE  [Store!Next]_(Store!vars)
<1>1. CASE ApplyInsert \/ ApplyDelete
  BY <1>1, ApplyShows DEF StoreInv, RowsInv
<1>2. CASE Commit \/ AutoCommit
  <2>1. /\ committed' = Contents(mem) /\ mem' = mem /\ Serving /\ Serving'
        /\ current_txn # INVALID_TXN /\ current_txn' = INVALID_TXN
    BY <1>2 DEF Commit, AutoCommit, Statement, EndTxn, pages, Serving, StoreInv, LogInv,
       OpenInSession
  <2>2. /\ Visible = Contents(mem) /\ Visible' = Contents(mem)
        /\ Phase = "open" /\ Phase' = "idle"
    BY <2>1 DEF Visible, Phase
  <2> QED
    BY <2>1, <2>2, StoreStep
\* The pages no longer count, or do not count yet.
<1>3. CASE UNCHANGED committed /\ ~Serving'
  <2>1. Visible' = committed /\ Phase' = "settling" /\ (~Serving => Visible = committed)
    BY <1>3 DEF Visible, Phase
  <2>2. Phase = "settling" <=> ~Serving
    BY DEF Phase
  <2> QED
    BY <1>3, <2>1, <2>2, StoreStep
\* They count again, and show what is committed.
<1>4. CASE UNCHANGED committed /\ ~Serving /\ pc' = "ready" /\ current_txn' = INVALID_TXN
  <2>1. Visible' = committed' /\ Visible = committed
    BY <1>4 DEF IdleShowsCommitted, Visible, Serving
  <2>2. Phase = "settling" /\ Phase' = "idle"
    BY <1>4 DEF Phase, Serving
  <2> QED
    BY <1>4, <2>1, <2>2, StoreStep
<1>5. CASE Begin \/ (\E k \in Key, image \in Image : InsertRow(k, image))
           \/ (\E K \in SUBSET Key : RunDelete(K)) \/ DeleteByKey
  <2>1. Serving /\ Serving' /\ mem' = mem /\ UNCHANGED committed
    BY <1>5 DEF Begin, InsertRow, RunDelete, DeleteByKey, Statement, pages, Serving
  <2>2. \/ UNCHANGED current_txn
        \/ current_txn = INVALID_TXN /\ current_txn' # INVALID_TXN
    <3>1. CASE Begin
      BY <3>1 DEF Begin, StartTxn, StoreInv, LogInv, NumbersAscend, INVALID_TXN
    <3>2. CASE EnsureTxn
      BY <3>2, EnsureOpens DEF StoreInv
    <3>3. CASE UNCHANGED session
      BY <3>3 DEF session
    <3> QED
      BY <1>5, <3>1, <3>2, <3>3 DEF InsertRow, RunDelete, DeleteByKey, session
  <2> QED
    BY <2>1, <2>2, ServingShows
<1>6. CASE DeleteDone \/ LogRow \/ InsertThrows
  BY <1>6, ServingShows DEF DeleteDone, LogRow, InsertThrows, pages, session, Serving
<1>7. CASE \/ RollbackCall \/ UndoOne \/ Redo \/ RedoDone \/ RedoThrows \/ UndoLoser \/ Flush
           \/ Crash \/ Exit
  BY <1>3, <1>7 DEF RollbackCall, UndoOne, Redo, RedoDone, RedoThrows, UndoLoser, Flush, Crash,
     Exit, LoseMemory, Serving
<1>8. CASE EndRollback \/ Reset \/ Restart
  <2>1. UNCHANGED committed /\ ~Serving /\ pc' \in {"ready", "redo"}
    BY <1>8 DEF EndRollback, Reset, Restart, StartRecovery, Serving
  <2>2. pc' = "ready" => current_txn' = INVALID_TXN
    <3>1. CASE EndRollback
      BY <3>1 DEF EndRollback, EndTxn
    <3>2. CASE Reset \/ Restart
      BY <3>2 DEF Reset, Restart, session, StoreInv, RowsInv, UndoTells, Session
    <3> QED
      BY <1>8, <3>1, <3>2
  <2> QED
    BY <1>3, <1>4, <2>1, <2>2 DEF Serving
<1>9. CASE (\E p \in DOMAIN mem : WriteBack(p)) \/ UNCHANGED vars
  <2>1. UNCHANGED <<mem, pc, current_txn, committed>>
    BY <1>9 DEF WriteBack, session, vars
  <2>2. CASE Serving
    BY <2>1, <2>2, ServingShows DEF Serving
  <2>3. CASE ~Serving
    BY <1>3, <2>1, <2>3 DEF Serving
  <2> QED
    BY <2>2, <2>3
<1> QED
  BY <1>1, <1>2, <1>5, <1>6, <1>7, <1>8, <1>9 DEF Next, Write, Recover

\* Durable: the session implements DurableStore.  What a COMMIT has shown committed is
\* changed by the next COMMIT only; the visible content leaves it one row at a time,
\* inside a transaction, and is back at it, to the row, when a rollback or a recovery,
\* interrupted or not, gives the table back to statements (database.cpp).
THEOREM DurableCorrect ==
    ASSUME Care = Precautions, Tears # "any"
    PROVE  Spec => Durable
<1>1. Init => Store!Init
  <2> SUFFICES ASSUME Init PROVE Store!Init
    OBVIOUS
  <2>1. StoreInv
    BY InitStoreInv
  <2>2. committed \in [Key -> Image \cup {Absent}]
    BY <2>1 DEF StoreInv, TypeOK
  <2>3. Serving /\ current_txn = INVALID_TXN /\ committed = Contents(mem)
    BY DEF Init, Serving
  <2> QED
    BY <2>2, <2>3 DEF Store!Init
<1>2. StoreInv => IdleShowsCommitted
  BY IdleShows
<1>3. StoreInv /\ StoreInv' /\ IdleShowsCommitted' /\ [Next]_vars => [Store!Next]_(Store!vars)
  BY DurableStep
<1> QED
  BY <1>1, <1>2, <1>3, StoreInvCorrect, PTL DEF Spec, Durable, Store!Spec

\* A table whose rows all fit a page can always be opened: recovery stops at no record
\* (database.cpp recover, physInsert; heap_file.cpp insert).
THEOREM FittingRowsAlwaysOpen ==
    ASSUME Care = Precautions, Tears # "any", \A image \in Image : ~TooLarge(image)
    PROVE  Spec => []AlwaysOpens
<1>1. Init => AlwaysOpens
  BY DEF Init, AlwaysOpens
<1>2. ASSUME StoreInv, AlwaysOpens, [Next]_vars PROVE AlwaysOpens'
  <2>1. CASE RedoThrows
    <3>1. pos >= 1
      BY <1>2, <2>1 DEF RedoThrows, StoreInv, RowsInv, KeysShown
    <3>2. Record.type = "INSERT" /\ pos <= Len(Readable) /\ TooLarge(Record.image)
      BY <2>1 DEF RedoThrows, RedoInserts
    <3>3. Record.image \in Image
      BY <1>2, <3>1, <3>2, RecordAtPos
    <3> QED
      BY <3>2, <3>3
  <2>2. CASE [Next]_vars /\ ~RedoThrows
    <3>1. CASE Begin \/ Commit \/ RollbackCall \/ UndoOne \/ EndRollback \/ Crash \/ Exit
      BY <1>2, <3>1 DEF Begin, Commit, RollbackCall, UndoOne, EndRollback, Crash, Exit, LoseMemory,
         Statement, AlwaysOpens
    <3>2. CASE Write
      BY <1>2, <3>2 DEF Write, InsertRow, RunDelete, DeleteByKey, DeleteDone, LogRow, ApplyInsert,
         InsertThrows, ApplyDelete, AutoCommit, Remember, EndOfRow, AlwaysOpens
    <3>3. CASE Restart \/ Redo \/ RedoDone \/ UndoLoser \/ Flush \/ Reset
      BY <1>2, <3>3 DEF Restart, StartRecovery, Redo, RedoDone, UndoLoser, Flush, Reset, AlwaysOpens
    <3>4. CASE (\E p \in DOMAIN mem : WriteBack(p)) \/ UNCHANGED vars
      BY <1>2, <3>4 DEF WriteBack, vars, AlwaysOpens
    <3> QED
      BY <2>2, <3>1, <3>2, <3>3, <3>4 DEF Next, Recover
  <2> QED
    BY <1>2, <2>1, <2>2
<1>3. StoreInv /\ AlwaysOpens /\ [Next]_vars => AlwaysOpens'
  BY <1>2
<1> QED
  BY <1>1, <1>3, StoreInvCorrect, PTL DEF Spec
===============================================================================
