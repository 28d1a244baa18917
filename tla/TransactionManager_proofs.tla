---------------------- MODULE TransactionManager_proofs ----------------------
(***************************************************************************)
(* Proofs about the concurrency engine, for every set of transactions,     *)
(* keys and values: its locks and waits, its versions and what its         *)
(* transactions read, and the abstract stores its two modes implement.     *)
(***************************************************************************)
EXTENDS TransactionManagerProps, WaitsFor_proofs, FiniteSetTheorems, TLAPS

USE ModeAssumption, ZeroAssumption, NoTxnAssumption, UnsetAssumption

\* A client's or a woken thread's lock request that has to enter the loop.
Trying(t, r) ==
    \/ status[t] = "active" /\ ~Holds(t, r.key, r.mode)
                            /\ (r.mode = "S" => Mode = "TWO_PL" /\ r.key \notin WriteSet(t))
    \/ status[t] = "notified" /\ r = request[t]

AccessAgain(t, r) ==
    /\ status[t] = "active"
    /\ r.mode = "S" => Mode = "TWO_PL" /\ r.key \notin WriteSet(t)
    /\ AccessHeld(t, r)

\* The three ways out of one evaluation of acquire's loop.
Loop(t, r, Way) ==
    Trying(t, r) /\ Way /\ UNCHANGED <<commit_clock, history, snapshot>>

LEMMA RequestFields ==
    ASSUME NEW r \in Request
    PROVE  /\ r.key \in Key
           /\ r.mode \in {"S", "X"}
           /\ r.mode = "X" => r.value \in Value
BY DEF Request

\* Next, one disjunct for each thing a step can be.
LEMMA StepCases ==
    ASSUME TypeOK, Next
    PROVE  \/ \E k \in Key, v \in Value : SetInitial(k, v)
           \/ \E t \in Txn, k \in Key : ReadSnapshot(t, k)
           \/ \E t \in Txn, r \in Request :
                 \/ AccessAgain(t, r)
                 \/ Loop(t, r, Grant(t, r))
                 \/ Loop(t, r, Deadlock(t, r))
                 \/ Loop(t, r, Sleep(t, r))
           \/ \E t \in Txn : \/ Begin(t) \/ SpuriousWake(t) \/ Commit(t)
                             \/ CommitConflict(t) \/ Abort(t)
<1>1. ASSUME NEW t \in Txn, Step(t)
      PROVE  \/ \E k \in Key : ReadSnapshot(t, k)
             \/ \E r \in Request :
                   \/ AccessAgain(t, r)
                   \/ Loop(t, r, Grant(t, r))
                   \/ Loop(t, r, Deadlock(t, r))
                   \/ Loop(t, r, Sleep(t, r))
             \/ Begin(t) \/ SpuriousWake(t) \/ Commit(t)
             \/ CommitConflict(t) \/ Abort(t)
  <2>1. CASE \E r \in Request : Call(t, r)
    BY <2>1 DEF Call, AccessAgain, Acquire, Loop, Trying
  <2>2. CASE Resume(t)
    <3>1. request[t] \in Request
      BY <2>2 DEF TypeOK, Resume, Waiting
    <3> QED
      BY <2>2, <3>1 DEF Resume, Acquire, Loop, Trying
  <2> QED
    BY <1>1, <2>1, <2>2 DEF Step
<1> QED
  BY <1>1 DEF Next

LEMMA LatestType ==
    ASSUME TypeOK, NEW k \in Key
    PROVE  Latest(k) \in Value
<1>1. history[k] \in Seq(Version)
  BY DEF TypeOK
<1>2. ASSUME history[k] # <<>>
      PROVE  Len(history[k]) \in 1 .. Len(history[k])
  BY <1>1, <1>2
<1>3. \A i \in 1 .. Len(history[k]) : history[k][i] \in Version
  BY <1>1
<1> QED
  BY <1>2, <1>3 DEF Latest, Version

LEMMA SubsetOfInterval ==
    ASSUME NEW n \in Nat, NEW S \in SUBSET (1 .. n), S # {}
    PROVE  Cardinality(S) \in 1 .. n
<1>1. IsFiniteSet(1 .. n) /\ Cardinality(1 .. n) = n
  BY FS_Interval, n + 1 - 1 = n
<1>2. IsFiniteSet(S) /\ Cardinality(S) <= n
  BY <1>1, FS_Subset
<1>3. Cardinality(S) \in Nat /\ Cardinality(S) # 0
  BY <1>2, FS_CardinalityType, FS_EmptySet
<1> QED
  BY <1>2, <1>3

LEMMA VisibleType ==
    ASSUME TypeOK, NEW k \in Key, NEW ts
    PROVE  VisibleAt(ts, k) \in Value
<1> DEFINE n == Len(history[k])
           passed == {i \in 1 .. n : \A j \in 1 .. i : history[k][j].commit_ts <= ts}
<1>1. history[k] \in Seq(Version) /\ n \in Nat
  BY DEF TypeOK
<1>2. \A i \in 1 .. n : history[k][i].value \in Value
  <2>1. \A i \in 1 .. n : history[k][i] \in Version
    BY <1>1
  <2> QED
    BY <2>1 DEF Version
<1>3. ASSUME passed # {}
      PROVE  Cardinality(passed) \in 1 .. n
  BY <1>1, <1>3, SubsetOfInterval
<1> HIDE DEF n
<1> QED
  BY <1>2, <1>3 DEF VisibleAt, n

-------------------------------------------------------------------------------
(* Types.                                                                   *)

LEMMA AccessType ==
    ASSUME TypeOK, NEW t \in Txn, NEW r \in Request, Access(t, r)
    PROVE  /\ writes' \in [Txn -> [Key -> Value \cup {Unset}]]
           /\ seen'   \in [Txn -> [Key -> SUBSET Value]]
<1>1. PICK k \in Key : k = r.key
  BY RequestFields
<1>2. /\ writes \in [Txn -> [Key -> Value \cup {Unset}]]
      /\ seen   \in [Txn -> [Key -> SUBSET Value]]
  BY DEF TypeOK
<1>3. CASE r.mode = "X"
  <2>1. PICK v \in Value : v = r.value
    BY <1>3, RequestFields
  <2>2. writes' = [writes EXCEPT ![t][k] = v] /\ seen' = seen
    BY <1>1, <1>3, <2>1 DEF Access
  <2> QED
    BY <1>2, <2>2
<1>4. CASE r.mode = "S"
  <2>1. PICK v \in Value : v = Latest(k)
    BY LatestType
  <2>2. seen' = [seen EXCEPT ![t][k] = @ \cup {v}] /\ writes' = writes
    BY <1>1, <1>4, <2>1 DEF Access
  <2> QED
    BY <1>2, <2>2
<1> QED
  BY <1>3, <1>4, RequestFields

LEMMA TakeLockType ==
    ASSUME TypeOK, NEW t \in Txn, NEW r \in Request, TakeLock(t, r)
    PROVE  /\ xlock'  \in [Key -> Txn \cup {NoTxn}]
           /\ slock'  \in [Key -> SUBSET Txn]
           /\ held_x' \in [Txn -> SUBSET Key]
           /\ held_s' \in [Txn -> SUBSET Key]
<1>1. PICK k \in Key : k = r.key
  BY RequestFields
<1>2. TakeShared(t, k) \/ TakeExclusive(t, k)
  BY <1>1 DEF TakeLock
<1>3. CASE TakeShared(t, k)
  BY <1>3 DEF TypeOK, TakeShared
<1>4. CASE TakeExclusive(t, k)
  BY <1>4 DEF TypeOK, TakeExclusive
<1> QED
  BY <1>2, <1>3, <1>4

LEMMA BlockersType ==
    ASSUME TypeOK, NEW t \in Txn, NEW r \in Request
    PROVE  /\ Blockers(t, r.key, r.mode) \in SUBSET Txn
           /\ WaitEdges(t, r) \in [Txn -> SUBSET Txn]
BY RequestFields DEF TypeOK, Blockers, WaitEdges

LEMMA EndType ==
    ASSUME TypeOK, NEW t \in Txn, NEW s \in Status \ {"asleep", "notified"},
           EndAs(t, s), commit_clock' \in Nat, history' \in [Key -> Seq(Version)]
    PROVE  TypeOK'
<1>1. /\ writes' \in [Txn -> [Key -> Value \cup {Unset}]]
      /\ seen'   \in [Txn -> [Key -> SUBSET Value]]
  BY DEF EndAs, TypeOK, NoWrites, NoReads
<1>2. /\ xlock'  \in [Key -> Txn \cup {NoTxn}]
      /\ slock'  \in [Key -> SUBSET Txn]
      /\ held_x' \in [Txn -> SUBSET Key]
      /\ held_s' \in [Txn -> SUBSET Key]
      /\ waits'  \in [Txn -> SUBSET Txn]
  BY DEF EndAs, ReleaseAll, TypeOK
<1>3. status' \in [Txn -> Status]
  BY DEF EndAs, NotifyAll, TypeOK, Status
<1>4. \A u \in Txn : Waiting(u)' => request'[u] \in Request
  BY DEF EndAs, NotifyAll, TypeOK, Waiting
<1> QED
  BY <1>1, <1>2, <1>3, <1>4 DEF TypeOK, EndAs

LEMMA TypeStep ==
    ASSUME TypeOK, [Next]_vars
    PROVE  TypeOK'
<1>1. ASSUME NEW k \in Key, NEW v \in Value, SetInitial(k, v)
      PROVE  TypeOK'
  <2>1. [commit_ts |-> 0, value |-> v] \in Version
    BY DEF Version
  <2>2. history' \in [Key -> Seq(Version)]
    BY <1>1, <2>1 DEF SetInitial, TypeOK
  <2> QED
    BY <1>1, <2>2 DEF SetInitial, TypeOK, locks, Waiting
<1>2. ASSUME NEW t \in Txn, NEW k \in Key, ReadSnapshot(t, k)
      PROVE  TypeOK'
  <2>1. VisibleAt(snapshot[t], k) \in Value
    BY VisibleType
  <2> QED
    BY <1>2, <2>1 DEF ReadSnapshot, TypeOK, locks, Waiting
<1>3. ASSUME NEW t \in Txn, NEW r \in Request, AccessAgain(t, r)
      PROVE  TypeOK'
  BY <1>3, AccessType DEF AccessAgain, AccessHeld, TypeOK, locks, Waiting
<1>4. ASSUME NEW t \in Txn, NEW r \in Request, Loop(t, r, Grant(t, r))
      PROVE  TypeOK'
  BY <1>4, AccessType, TakeLockType
     DEF Loop, Grant, TypeOK, Status, Waiting
<1>5. ASSUME NEW t \in Txn, NEW r \in Request, Loop(t, r, Deadlock(t, r))
      PROVE  TypeOK'
  BY <1>5 DEF Loop, Deadlock, TypeOK, Status, Waiting, locks
<1>6. ASSUME NEW t \in Txn, NEW r \in Request, Loop(t, r, Sleep(t, r))
      PROVE  TypeOK'
  BY <1>6, BlockersType DEF Loop, Sleep, TypeOK, Status, Waiting, locks
<1>7. ASSUME NEW t \in Txn, Begin(t)
      PROVE  TypeOK'
  BY <1>7 DEF Begin, TypeOK, Status, Waiting, locks
<1>8. ASSUME NEW t \in Txn, SpuriousWake(t)
      PROVE  TypeOK'
  BY <1>8 DEF SpuriousWake, TypeOK, Status, Waiting, locks
<1>9. ASSUME NEW t \in Txn, Commit(t)
      PROVE  TypeOK'
  <2>1. commit_clock' \in Nat
    BY <1>9 DEF Commit, TypeOK
  <2>2. ASSUME NEW k \in Key
        PROVE  history'[k] \in Seq(Version)
    <3>1. CASE k \in WriteSet(t)
      <4>1. writes[t][k] \in Value
        BY <3>1 DEF WriteSet, TypeOK
      <4>2. [commit_ts |-> commit_clock + 1, value |-> writes[t][k]] \in Version
        BY <4>1 DEF Version, TypeOK
      <4> QED
        BY <1>9, <3>1, <4>2 DEF Commit, CommitTime, TypeOK
    <3>2. CASE k \notin WriteSet(t)
      BY <1>9, <3>2 DEF Commit, TypeOK
    <3> QED
      BY <3>1, <3>2
  <2>3. history' \in [Key -> Seq(Version)]
    BY <1>9, <2>2 DEF Commit
  <2> QED
    BY <1>9, <2>1, <2>3, EndType DEF Commit, Status
<1>10. ASSUME NEW t \in Txn, CommitConflict(t) \/ Abort(t)
       PROVE  TypeOK'
  <2>1. commit_clock' \in Nat /\ history' \in [Key -> Seq(Version)]
    BY <1>10 DEF CommitConflict, Abort, TypeOK
  <2> QED
    BY <1>10, <2>1, EndType DEF CommitConflict, Abort, Status
<1>11. CASE UNCHANGED vars
  BY <1>11 DEF vars, TypeOK, Waiting
<1> QED
  BY <1>1, <1>2, <1>3, <1>4, <1>5, <1>6, <1>7, <1>8, <1>9, <1>10, <1>11,
     StepCases

\* Every reachable state is well typed, in both modes.
THEOREM TypeCorrect == Spec => []TypeOK
<1>1. Init => TypeOK
  BY DEF Init, TypeOK, NoWrites, NoReads, Status, Waiting
<1>2. TypeOK /\ [Next]_vars => TypeOK'
  BY TypeStep
<1> QED
  BY <1>1, <1>2, PTL DEF Spec

-------------------------------------------------------------------------------
(* Locks.  The invariant is inductive with one addition: a thread inside    *)
(* acquire's loop lacks the lock it asks for, so a shared lock is never     *)
(* granted to the exclusive holder.                                         *)

WaitersLack ==
    \A t \in Txn : Waiting(t) => ~Holds(t, request[t].key, request[t].mode)

LockInv == /\ LockTablesAgree
           /\ LockExclusion
           /\ WritesAreLocked
           /\ OnlyLiveHold
           /\ WaitersLack

LEMMA TryingLacks ==
    ASSUME TypeOK, LockInv, NEW t \in Txn, NEW r \in Request, Trying(t, r)
    PROVE  ~Holds(t, r.key, r.mode) /\ Live(t)
BY DEF Trying, LockInv, WaitersLack, Waiting, Live

\* A step that leaves the lock tables and the buffers alone.
LEMMA LocksUnchanged ==
    ASSUME LockInv, UNCHANGED <<locks, writes>>,
           \A t \in Txn : Live(t) => Live(t)',
           \A t \in Txn : waits'[t] # {} => Live(t)',
           \A t \in Txn : Waiting(t)' => ~Holds(t, request'[t].key, request'[t].mode)
    PROVE  LockInv'
<1>1. LockTablesAgree' /\ LockExclusion' /\ WritesAreLocked'
  BY DEF LockInv, LockTablesAgree, LockExclusion, WritesAreLocked, locks
<1>2. OnlyLiveHold'
  BY DEF LockInv, OnlyLiveHold, locks
<1>3. WaitersLack'
  BY DEF WaitersLack, Holds, locks
<1> QED
  BY <1>1, <1>2, <1>3 DEF LockInv

LEMMA GrantKeepsLocks ==
    ASSUME TypeOK, LockInv, NEW t \in Txn, NEW r \in Request,
           Trying(t, r), Grant(t, r)
    PROVE  LockInv'
<1>1. PICK k \in Key : k = r.key
  BY RequestFields
<1>2. ~Holds(t, k, r.mode)
  BY <1>1, TryingLacks
<1>3. xlock[k] \in {NoTxn, t}
  BY <1>1 DEF Grant, Blockers
<1>4. xlock[k] = t <=> k \in held_x[t]
  BY DEF LockInv, LockTablesAgree
<1>5. k \notin held_x[t] /\ xlock[k] = NoTxn
  BY <1>2, <1>3, <1>4 DEF Holds
<1>6. \A u \in Txn \ {t} : /\ held_x'[u] = held_x[u] /\ held_s'[u] = held_s[u]
                           /\ waits'[u] = waits[u] /\ status'[u] = status[u]
                           /\ request'[u] = request[u]
  BY <1>1 DEF Grant, TakeLock, TakeShared, TakeExclusive, TypeOK
<1>7. status'[t] = "active"
  BY DEF Grant, TypeOK
<1>8. LockTablesAgree'
  <2>1. CASE TakeShared(t, k)
    BY <2>1 DEF TakeShared, TypeOK, LockInv, LockTablesAgree
  <2>2. CASE TakeExclusive(t, k)
    BY <1>5, <2>2 DEF TakeExclusive, TypeOK, LockInv, LockTablesAgree
  <2> QED
    BY <1>1, <2>1, <2>2 DEF Grant, TakeLock
<1>9. LockExclusion'
  <2>1. CASE TakeShared(t, k)
    BY <1>5, <2>1 DEF TakeShared, TypeOK, LockInv, LockExclusion
  <2>2. CASE r.mode = "X" /\ TakeExclusive(t, k)
    <3>1. slock[k] \ {t} = {}
      BY <1>1, <2>2 DEF Grant, Blockers
    <3> QED
      BY <2>2, <3>1 DEF TakeExclusive, TypeOK, LockInv, LockExclusion
  <2> QED
    BY <1>1, <2>1, <2>2 DEF Grant, TakeLock
<1>10. WritesAreLocked'
  <2>1. CASE r.mode = "S"
    BY <2>1 DEF Grant, TakeLock, TakeShared, Access, LockInv, WritesAreLocked
  <2>2. CASE r.mode = "X"
    <3>1. xlock' = [xlock EXCEPT ![k] = t] /\ writes' = [writes EXCEPT ![t][k] = r.value]
      BY <1>1, <2>2 DEF Grant, TakeLock, TakeExclusive, Access
    <3>2. ASSUME NEW u \in Txn, NEW l \in Key, writes'[u][l] # Unset
          PROVE  xlock'[l] = u
      <4>1. CASE u = t /\ l = k
        BY <3>1, <4>1 DEF TypeOK
      <4>2. CASE ~(u = t /\ l = k)
        <5>1. writes[u][l] # Unset
          BY <3>1, <3>2, <4>2 DEF TypeOK
        <5>2. xlock[l] = u
          BY <5>1 DEF LockInv, WritesAreLocked
        <5>3. l # k
          BY <1>5, <4>2, <5>2
        <5> QED
          BY <3>1, <5>2, <5>3 DEF TypeOK
      <4> QED
        BY <4>1, <4>2
    <3> QED
      BY <3>2 DEF WritesAreLocked
  <2> QED
    BY <2>1, <2>2, RequestFields
<1>11. OnlyLiveHold'
  BY <1>6, <1>7 DEF LockInv, OnlyLiveHold, Live
<1>12. WaitersLack'
  BY <1>6, <1>7 DEF LockInv, WaitersLack, Waiting, Holds
<1> QED
  BY <1>8, <1>9, <1>10, <1>11, <1>12 DEF LockInv

LEMMA EndKeepsLocks ==
    ASSUME TypeOK, LockInv, NEW t \in Txn, NEW s \in {"committed", "conflict", "aborted"},
           EndAs(t, s)
    PROVE  LockInv'
<1>1. \A k \in Key : xlock'[k] = IF xlock[k] = t THEN NoTxn ELSE xlock[k]
  BY DEF EndAs, ReleaseAll, LockInv, LockTablesAgree
<1>2. \A k \in Key : slock'[k] = slock[k] \ {t}
  BY DEF EndAs, ReleaseAll, LockInv, LockTablesAgree
<1>3. held_x'[t] = {} /\ held_s'[t] = {} /\ waits'[t] = {} /\ status'[t] = s
  BY DEF EndAs, ReleaseAll, NotifyAll, TypeOK
<1>4. \A u \in Txn \ {t} : /\ held_x'[u] = held_x[u] /\ held_s'[u] = held_s[u]
                           /\ waits'[u] = waits[u] /\ writes'[u] = writes[u]
                           /\ Live(u)' = Live(u) /\ Waiting(u)' = Waiting(u)
                           /\ request'[u] = request[u]
  BY DEF EndAs, ReleaseAll, NotifyAll, TypeOK, Live, Waiting
<1>5. \A k \in Key : writes'[t][k] = Unset
  BY DEF EndAs, NoWrites, TypeOK
<1>6. LockTablesAgree'
  BY <1>1, <1>2, <1>3, <1>4 DEF LockInv, LockTablesAgree
<1>7. LockExclusion'
  BY <1>1, <1>2 DEF LockInv, LockExclusion
<1>8. WritesAreLocked'
  <2>1. ASSUME NEW u \in Txn, NEW k \in Key, writes'[u][k] # Unset
        PROVE  xlock'[k] = u
    <3>1. u # t
      BY <1>5, <2>1
    <3>2. xlock[k] = u
      BY <1>4, <2>1, <3>1 DEF LockInv, WritesAreLocked
    <3> QED
      BY <1>1, <3>1, <3>2
  <2> QED
    BY <2>1 DEF WritesAreLocked
<1>9. OnlyLiveHold'
  BY <1>3, <1>4 DEF LockInv, OnlyLiveHold
<1>10. WaitersLack'
  BY <1>3, <1>4 DEF LockInv, WaitersLack, Holds, Waiting
<1> QED
  BY <1>6, <1>7, <1>8, <1>9, <1>10 DEF LockInv

LEMMA LockStep ==
    ASSUME TypeOK, LockInv, [Next]_vars
    PROVE  LockInv'
<1>1. ASSUME NEW k \in Key, NEW v \in Value, SetInitial(k, v)
      PROVE  LockInv'
  BY <1>1, LocksUnchanged
     DEF SetInitial, Live, Waiting, LockInv, OnlyLiveHold, WaitersLack
<1>2. ASSUME NEW t \in Txn, NEW k \in Key, ReadSnapshot(t, k)
      PROVE  LockInv'
  BY <1>2, LocksUnchanged
     DEF ReadSnapshot, Live, Waiting, LockInv, OnlyLiveHold, WaitersLack
<1>3. ASSUME NEW t \in Txn, NEW r \in Request, AccessAgain(t, r)
      PROVE  LockInv'
  <2>1. PICK k \in Key : k = r.key
    BY RequestFields
  <2>2. CASE r.mode = "S"
    BY <1>3, <2>2, LocksUnchanged
       DEF AccessAgain, AccessHeld, Access, Live, Waiting, LockInv,
           OnlyLiveHold, WaitersLack
  <2>3. CASE r.mode = "X"
    <3>1. xlock[k] = t
      BY <1>3, <2>1, <2>3
         DEF AccessAgain, AccessHeld, Holds, LockInv, LockTablesAgree
    <3>2. writes' = [writes EXCEPT ![t][k] = r.value]
      BY <1>3, <2>1, <2>3 DEF AccessAgain, AccessHeld, Access
    <3>3. WritesAreLocked'
      BY <1>3, <3>1, <3>2
         DEF AccessAgain, AccessHeld, LockInv, WritesAreLocked, TypeOK, locks
    <3> QED
      BY <1>3, <3>3
         DEF AccessAgain, AccessHeld, locks, LockInv, LockTablesAgree,
             LockExclusion, OnlyLiveHold, WaitersLack, Live, Waiting, Holds
  <2> QED
    BY <2>2, <2>3, RequestFields
<1>4. ASSUME NEW t \in Txn, NEW r \in Request, Loop(t, r, Grant(t, r))
      PROVE  LockInv'
  BY <1>4, GrantKeepsLocks DEF Loop
<1>5. ASSUME NEW t \in Txn, NEW r \in Request, Loop(t, r, Deadlock(t, r))
      PROVE  LockInv'
  <2>1. Trying(t, r) /\ Deadlock(t, r)
    BY <1>5 DEF Loop
  <2>2. \A u \in Txn : Live(u) => Live(u)'
    BY <2>1 DEF Deadlock, Live, TypeOK
  <2>3. \A u \in Txn : waits'[u] # {} => Live(u)'
    BY <2>1, <2>2 DEF Deadlock, TypeOK, LockInv, OnlyLiveHold
  <2>4. \A u \in Txn : Waiting(u)' => ~Holds(u, request'[u].key, request'[u].mode)
    BY <2>1 DEF Deadlock, TypeOK, LockInv, WaitersLack, Waiting
  <2> QED
    BY <2>1, <2>2, <2>3, <2>4, LocksUnchanged DEF Deadlock
<1>6. ASSUME NEW t \in Txn, NEW r \in Request, Loop(t, r, Sleep(t, r))
      PROVE  LockInv'
  <2>1. Trying(t, r) /\ Sleep(t, r)
    BY <1>6 DEF Loop
  <2>2. \A u \in Txn : Live(u) => Live(u)'
    BY <2>1 DEF Sleep, Live, TypeOK
  <2>3. \A u \in Txn : waits'[u] # {} => Live(u)'
    BY <2>1, <2>2, TryingLacks
       DEF Sleep, WaitEdges, TypeOK, LockInv, OnlyLiveHold
  <2>4. \A u \in Txn : Waiting(u)' => ~Holds(u, request'[u].key, request'[u].mode)
    BY <2>1, TryingLacks DEF Sleep, TypeOK, LockInv, WaitersLack, Waiting
  <2> QED
    BY <2>1, <2>2, <2>3, <2>4, LocksUnchanged DEF Sleep
<1>7. ASSUME NEW t \in Txn, Begin(t)
      PROVE  LockInv'
  <2>1. \A u \in Txn : Live(u) => Live(u)'
    BY <1>7 DEF Begin, Live, TypeOK
  <2>2. \A u \in Txn : Waiting(u)' => Waiting(u)
    BY <1>7 DEF Begin, Waiting, TypeOK
  <2> QED
    BY <1>7, <2>1, <2>2, LocksUnchanged
       DEF Begin, LockInv, OnlyLiveHold, WaitersLack
<1>8. ASSUME NEW t \in Txn, SpuriousWake(t)
      PROVE  LockInv'
  <2>1. \A u \in Txn : Live(u) => Live(u)'
    BY <1>8 DEF SpuriousWake, Live, TypeOK
  <2>2. \A u \in Txn : Waiting(u)' => Waiting(u)
    BY <1>8 DEF SpuriousWake, Waiting, TypeOK
  <2> QED
    BY <1>8, <2>1, <2>2, LocksUnchanged
       DEF SpuriousWake, LockInv, OnlyLiveHold, WaitersLack
<1>9. ASSUME NEW t \in Txn, Commit(t) \/ CommitConflict(t) \/ Abort(t)
      PROVE  LockInv'
  BY <1>9, EndKeepsLocks DEF Commit, CommitConflict, Abort
<1>10. CASE UNCHANGED vars
  BY <1>10
     DEF vars, LockInv, LockTablesAgree, LockExclusion, WritesAreLocked,
         OnlyLiveHold, WaitersLack, Live, Waiting, Holds
<1> QED
  BY <1>1, <1>2, <1>3, <1>4, <1>5, <1>6, <1>7, <1>8, <1>9, <1>10, StepCases

\* The lock table and the transactions' own lists agree, an exclusive lock
\* excludes every other, every buffered write is under an exclusive lock, and
\* a transaction that has ended holds nothing.
THEOREM LockingCorrect == Spec => []LocksCorrect
<1>1. Init => LockInv
  BY DEF Init, LockInv, LockTablesAgree, LockExclusion, WritesAreLocked,
         OnlyLiveHold, WaitersLack, NoWrites, Waiting
<1>2. TypeOK /\ LockInv /\ [Next]_vars => LockInv'
  BY LockStep
<1>3. LockInv => LocksCorrect
  BY DEF LockInv, LocksCorrect
<1> QED
  BY <1>1, <1>2, <1>3, TypeCorrect, PTL DEF Spec

-------------------------------------------------------------------------------
(* Waiting.  The recorded edges of a thread inside acquire's loop may be    *)
(* out of date, but only by naming transactions that have ended since or by *)
(* leaving out ones that came later.                                        *)

EdgesJustified ==
    \A t \in Txn :
        /\ ~Waiting(t) => waits[t] = {}
        /\ Waiting(t)  => \A u \in waits[t] : Ended(u) \/ u \in BlockersNow(t)

WaitInv == NoLostWakeup /\ WaitsForAcyclic /\ EdgesJustified

LEMMA GrantKeepsBlockers ==
    ASSUME TypeOK, LockInv, NEW t \in Txn, NEW r \in Request,
           Trying(t, r), Grant(t, r), NEW u \in Txn \ {t}, Waiting(u)
    PROVE  BlockersNow(u) \subseteq BlockersNow(u)'
<1>1. PICK k \in Key : k = r.key
  BY RequestFields
<1>2. xlock[k] \in {NoTxn, t}
  BY <1>1 DEF Grant, Blockers
<1>3. PICK l \in Key : l = request[u].key /\ request[u].mode \in {"S", "X"}
  BY RequestFields DEF TypeOK
<1>4. request'[u] = request[u]
  BY DEF Grant, TypeOK
<1>5. CASE TakeShared(t, k)
  BY <1>3, <1>4, <1>5 DEF TakeShared, BlockersNow, Blockers, TypeOK
<1>6. CASE TakeExclusive(t, k)
  BY <1>2, <1>3, <1>4, <1>6 DEF TakeExclusive, BlockersNow, Blockers, TypeOK
<1> QED
  BY <1>1, <1>5, <1>6 DEF Grant, TakeLock

LEMMA EndKeepsWaiting ==
    ASSUME TypeOK, LockInv, WaitInv, NEW t \in Txn,
           NEW s \in {"committed", "conflict", "aborted"}, EndAs(t, s), ~Waiting(t)
    PROVE  WaitInv'
<1>1. \A k \in Key : /\ xlock'[k] = IF xlock[k] = t THEN NoTxn ELSE xlock[k]
                     /\ slock'[k] = slock[k] \ {t}
  BY DEF EndAs, ReleaseAll, LockInv, LockTablesAgree
<1>2. /\ waits' = [waits EXCEPT ![t] = {}]
      /\ request' = request
      /\ status'[t] = s
      /\ \A u \in Txn : status'[u] # "asleep"
      /\ \A u \in Txn \ {t} : Waiting(u)' = Waiting(u) /\ Ended(u)' = Ended(u)
  BY DEF EndAs, ReleaseAll, NotifyAll, Waiting, Ended
<1>3. NoLostWakeup'
  BY <1>2 DEF NoLostWakeup
<1>4. Acyclic(waits')
  BY <1>2, FewerEdges DEF TypeOK, WaitInv, WaitsForAcyclic
<1>5. ASSUME NEW u \in Txn
      PROVE  /\ ~Waiting(u)' => waits'[u] = {}
             /\ Waiting(u)'  => \A v \in waits'[u] : Ended(v)' \/ v \in BlockersNow(u)'
  <2>1. CASE u = t
    BY <1>2, <2>1 DEF Waiting, TypeOK
  <2>2. CASE u # t /\ ~Waiting(u)
    BY <1>2, <2>2 DEF WaitInv, EdgesJustified, TypeOK
  <2>3. CASE u # t /\ Waiting(u)
    <3>1. PICK l \in Key : l = request[u].key
      BY <2>3, RequestFields DEF TypeOK
    <3>2. BlockersNow(u) \ {t} \subseteq BlockersNow(u)'
      BY <1>1, <1>2, <3>1 DEF BlockersNow, Blockers
    <3>3. Ended(t)'
      BY <1>2 DEF Ended
    <3>4. waits'[u] = waits[u]
      BY <1>2, <2>3 DEF TypeOK
    <3>5. \A v \in waits[u] : v \in Txn /\ (Ended(v) \/ v \in BlockersNow(u))
      BY <2>3 DEF WaitInv, EdgesJustified, TypeOK
    <3>6. \A v \in waits[u] : Ended(v)' \/ v \in BlockersNow(u)'
      BY <1>2, <3>2, <3>3, <3>5
    <3> QED
      BY <1>2, <2>3, <3>4, <3>6
  <2> QED
    BY <2>1, <2>2, <2>3
<1>6. EdgesJustified'
  BY <1>5 DEF EdgesJustified
<1> QED
  BY <1>3, <1>4, <1>6 DEF WaitInv, WaitsForAcyclic

\* A step that changes no lock, request or edge, and puts nobody to sleep.
LEMMA WaitUnchanged ==
    ASSUME WaitInv, UNCHANGED <<locks, waits, request>>,
           \A t \in Txn : /\ status'[t] = "asleep" => status[t] = "asleep"
                          /\ Waiting(t)' = Waiting(t)
                          /\ Ended(t) => Ended(t)',
           TypeOK
    PROVE  WaitInv'
<1>1. \A t \in Txn : BlockersNow(t)' = BlockersNow(t)
  BY DEF BlockersNow, Blockers, locks
<1>2. NoLostWakeup'
  BY <1>1 DEF WaitInv, NoLostWakeup
<1>3. EdgesJustified'
  <2>1. \A t \in Txn : \A u \in waits[t] : u \in Txn
    BY DEF TypeOK
  <2> QED
    BY <1>1, <2>1 DEF WaitInv, EdgesJustified
<1> QED
  BY <1>2, <1>3 DEF WaitInv, WaitsForAcyclic

LEMMA WaitStep ==
    ASSUME TypeOK, LockInv, WaitInv, [Next]_vars
    PROVE  WaitInv'
<1>1. ASSUME NEW k \in Key, NEW v \in Value, SetInitial(k, v)
      PROVE  WaitInv'
  BY <1>1, WaitUnchanged DEF SetInitial, Waiting, Ended
<1>2. ASSUME NEW t \in Txn, NEW k \in Key, ReadSnapshot(t, k)
      PROVE  WaitInv'
  BY <1>2, WaitUnchanged DEF ReadSnapshot, Waiting, Ended
<1>3. ASSUME NEW t \in Txn, NEW r \in Request, AccessAgain(t, r)
      PROVE  WaitInv'
  BY <1>3, WaitUnchanged DEF AccessAgain, AccessHeld, Waiting, Ended
<1>4. ASSUME NEW t \in Txn, NEW r \in Request, Loop(t, r, Grant(t, r))
      PROVE  WaitInv'
  <2>1. Trying(t, r) /\ Grant(t, r)
    BY <1>4 DEF Loop
  <2>2. /\ waits' = [waits EXCEPT ![t] = {}]
        /\ status' = [status EXCEPT ![t] = "active"]
    BY <2>1 DEF Grant
  <2>3. ~Ended(t)
    BY <2>1 DEF Trying, Ended
  <2>4. \A u \in Txn \ {t} : Waiting(u) => BlockersNow(u) \subseteq BlockersNow(u)'
    BY <2>1, GrantKeepsBlockers
  <2>5. NoLostWakeup'
    BY <2>2, <2>4 DEF WaitInv, NoLostWakeup, TypeOK, Waiting
  <2>6. \A u \in Txn : Ended(u) => Ended(u)'
    BY <2>2, <2>3 DEF Ended, TypeOK
  <2>7. EdgesJustified'
    <3>1. \A u \in Txn : \A v \in waits[u] : v \in Txn
      BY DEF TypeOK
    <3> QED
      BY <2>2, <2>4, <2>6, <3>1 DEF WaitInv, EdgesJustified, Waiting, TypeOK
  <2>8. Acyclic(waits')
    BY <2>2, FewerEdges DEF TypeOK, WaitInv, WaitsForAcyclic
  <2> QED
    BY <2>5, <2>7, <2>8 DEF WaitInv, WaitsForAcyclic
<1>5. ASSUME NEW t \in Txn, NEW r \in Request, Loop(t, r, Deadlock(t, r))
      PROVE  WaitInv'
  <2>1. Trying(t, r) /\ Deadlock(t, r)
    BY <1>5 DEF Loop
  <2>2. /\ waits' = [waits EXCEPT ![t] = {}]
        /\ status' = [status EXCEPT ![t] = "victim"]
        /\ request' = [request EXCEPT ![t] = NoRequest]
        /\ UNCHANGED locks
    BY <2>1 DEF Deadlock
  <2>3. ~Ended(t)
    BY <2>1 DEF Trying, Ended
  <2>4. \A u \in Txn \ {t} : BlockersNow(u)' = BlockersNow(u)
    BY <2>2 DEF BlockersNow, Blockers, locks, TypeOK
  <2>5. NoLostWakeup'
    BY <2>2, <2>4 DEF WaitInv, NoLostWakeup, TypeOK
  <2>6. \A u \in Txn : Ended(u) => Ended(u)'
    BY <2>2, <2>3 DEF Ended, TypeOK
  <2>7. EdgesJustified'
    <3>1. \A u \in Txn : \A v \in waits[u] : v \in Txn
      BY DEF TypeOK
    <3> QED
      BY <2>2, <2>4, <2>6, <3>1 DEF WaitInv, EdgesJustified, Waiting, TypeOK
  <2>8. Acyclic(waits')
    BY <2>2, FewerEdges DEF TypeOK, WaitInv, WaitsForAcyclic
  <2> QED
    BY <2>5, <2>7, <2>8 DEF WaitInv, WaitsForAcyclic
<1>6. ASSUME NEW t \in Txn, NEW r \in Request, Loop(t, r, Sleep(t, r))
      PROVE  WaitInv'
  <2>1. Trying(t, r) /\ Sleep(t, r)
    BY <1>6 DEF Loop
  <2> DEFINE b == Blockers(t, r.key, r.mode)
  <2>2. /\ waits' = [waits EXCEPT ![t] = b]
        /\ status' = [status EXCEPT ![t] = "asleep"]
        /\ request' = [request EXCEPT ![t] = r]
        /\ UNCHANGED locks
        /\ b # {}
        /\ ~HasCycle([waits EXCEPT ![t] = b], t)
    BY <2>1 DEF Sleep, WaitEdges
  <2>3. ~Ended(t) /\ b \in SUBSET Txn
    BY <2>1, BlockersType DEF Trying, Ended
  <2>4. \A u \in Txn \ {t} : BlockersNow(u)' = BlockersNow(u)
    BY <2>2 DEF BlockersNow, Blockers, locks, TypeOK
  <2>5. BlockersNow(t)' = b
    BY <2>2 DEF BlockersNow, Blockers, locks, TypeOK
  <2> HIDE DEF b
  <2>6. NoLostWakeup'
    BY <2>2, <2>4, <2>5 DEF WaitInv, NoLostWakeup, TypeOK
  <2>7. \A u \in Txn : Ended(u) => Ended(u)'
    BY <2>2, <2>3 DEF Ended, TypeOK
  <2>8. EdgesJustified'
    <3>1. \A u \in Txn : \A v \in waits[u] : v \in Txn
      BY DEF TypeOK
    <3> QED
      BY <2>2, <2>4, <2>5, <2>7, <3>1 DEF WaitInv, EdgesJustified, Waiting, TypeOK
  <2>9. Acyclic(waits')
    BY <2>2, <2>3, NewEdges DEF TypeOK, WaitInv, WaitsForAcyclic
  <2> QED
    BY <2>6, <2>8, <2>9 DEF WaitInv, WaitsForAcyclic
<1>7. ASSUME NEW t \in Txn, Begin(t)
      PROVE  WaitInv'
  BY <1>7, WaitUnchanged DEF Begin, Waiting, Ended, TypeOK
<1>8. ASSUME NEW t \in Txn, SpuriousWake(t)
      PROVE  WaitInv'
  BY <1>8, WaitUnchanged DEF SpuriousWake, Waiting, Ended, TypeOK
<1>9. ASSUME NEW t \in Txn, Commit(t) \/ CommitConflict(t) \/ Abort(t)
      PROVE  WaitInv'
  BY <1>9, EndKeepsWaiting DEF Commit, CommitConflict, Abort, Waiting
<1>10. CASE UNCHANGED vars
  BY <1>10, WaitUnchanged DEF vars, locks, Waiting, Ended
<1> QED
  BY <1>1, <1>2, <1>3, <1>4, <1>5, <1>6, <1>7, <1>8, <1>9, <1>10, StepCases

LEMMA WaitingInvariant == Spec => [](TypeOK /\ LockInv /\ WaitInv)
<1>1. Init => TypeOK /\ LockInv /\ WaitInv
  <2>1. Init => TypeOK
    BY DEF Init, TypeOK, NoWrites, NoReads, Status, Waiting
  <2>2. Init => LockInv
    BY DEF Init, LockInv, LockTablesAgree, LockExclusion, WritesAreLocked,
           OnlyLiveHold, WaitersLack, NoWrites, Waiting
  <2>3. Init => WaitInv
    BY DEF Init, WaitInv, NoLostWakeup, WaitsForAcyclic, Acyclic, CyclicCore,
           EdgesJustified, Waiting
  <2> QED
    BY <2>1, <2>2, <2>3
<1>2. TypeOK /\ LockInv /\ WaitInv /\ [Next]_vars => (TypeOK /\ LockInv /\ WaitInv)'
  BY TypeStep, LockStep, WaitStep
<1> QED
  BY <1>1, <1>2, PTL DEF Spec

\* A thread asleep in cv_.wait is still blocked by everyone it recorded, so no
\* wake-up is missed.
THEOREM WaitingCorrect == Spec => []NoLostWakeup
<1>1. WaitInv => NoLostWakeup
  BY DEF WaitInv
<1> QED
  BY <1>1, WaitingInvariant, PTL

\* The graph that acquire records, and searches before every wait, never has a
\* cycle.
THEOREM WaitsForStaysAcyclic == Spec => []WaitsForAcyclic
<1>1. WaitInv => WaitsForAcyclic
  BY DEF WaitInv
<1> QED
  BY <1>1, WaitingInvariant, PTL

\* Whatever cycles of sleepers the recorded edges miss, no set of sleepers is
\* blocked only by itself: a global stall is impossible.
THEOREM NoStall == Spec => []NoStalledSet
<1>1. TypeOK /\ WaitInv => NoStalledSet
  <2> SUFFICES ASSUME TypeOK, WaitInv,
                      NEW S \in SUBSET {t \in Txn : status[t] = "asleep"}, S # {},
                      \A t \in S : BlockersNow(t) \subseteq S
               PROVE  FALSE
    BY DEF NoStalledSet
  <2>1. \A t \in S : waits[t] \cap S # {}
    BY DEF WaitInv, NoLostWakeup
  <2>2. CyclicCore(waits, S) /\ S \in SUBSET DOMAIN waits
    BY <2>1 DEF CyclicCore, TypeOK
  <2> QED
    BY <2>2 DEF WaitInv, WaitsForAcyclic, Acyclic
<1> QED
  BY <1>1, WaitingInvariant, PTL

-------------------------------------------------------------------------------
(* Steps.                                                                   *)

\* No lock is given up before its transaction ends.
THEOREM TwoPhase == Spec => StrictTwoPhase
<1> DEFINE Keeps(t) == Live(t) /\ Live(t)' =>
                          /\ held_x[t] \subseteq held_x'[t]
                          /\ held_s[t] \subseteq held_s'[t] \cup held_x'[t]
<1>1. ASSUME TypeOK, [Next]_vars, NEW u \in Txn
      PROVE  Keeps(u)
  <2>1. CASE UNCHANGED locks
    BY <2>1 DEF locks
  <2>2. ASSUME NEW t \in Txn, NEW r \in Request, TakeLock(t, r)
        PROVE  Keeps(u)
    <3>1. PICK k \in Key : k = r.key
      BY RequestFields
    <3>2. CASE TakeShared(t, k)
      BY <1>1, <3>2 DEF TakeShared, TypeOK
    <3>3. CASE TakeExclusive(t, k)
      BY <1>1, <3>3 DEF TakeExclusive, TypeOK
    <3> QED
      BY <2>2, <3>1, <3>2, <3>3 DEF TakeLock
  <2>3. ASSUME NEW t \in Txn, NEW s \in {"committed", "conflict", "aborted"}, EndAs(t, s)
        PROVE  Keeps(u)
    BY <1>1, <2>3 DEF EndAs, ReleaseAll, NotifyAll, TypeOK, Live
  <2>4. CASE UNCHANGED vars
    BY <2>4 DEF vars
  <2> HIDE DEF Keeps
  <2>5. CASE Next
    BY <1>1, <2>1, <2>2, <2>3, <2>5, StepCases
       DEF SetInitial, ReadSnapshot, AccessAgain, AccessHeld, Loop, Grant,
           Deadlock, Sleep, Begin, SpuriousWake, Commit, CommitConflict, Abort
  <2> QED
    BY <1>1, <2>4, <2>5
<1>2. TypeOK /\ [Next]_vars => [\A t \in Txn : Keeps(t)]_vars
  BY <1>1
<1> QED
  BY <1>2, TypeCorrect, PTL DEF Spec, StrictTwoPhase

\* Out-of-date edges never make a victim: those that have gone lead only to
\* transactions that have ended, and from there nowhere.
LEMMA SearchFindsTrueCycle ==
    ASSUME TypeOK, WaitInv, NEW t \in Txn, NEW r \in Request, Live(t),
           HasCycle(WaitEdges(t, r), t)
    PROVE  TrueCycle(t, r)
<1> DEFINE edges == [u \in Txn |-> IF u = t THEN Blockers(t, r.key, r.mode)
                                   ELSE IF Waiting(u) THEN BlockersNow(u)
                                   ELSE {}]
           stored == WaitEdges(t, r)
<1>1. SUFFICES ASSUME NEW S \in SUBSET Txn, edges[t] \subseteq S, ClosedUnder(edges, S)
               PROVE  t \in S
  BY DEF TrueCycle, HasCycle
<1> DEFINE W == S \cup {u \in Txn : Ended(u)}
<1>2. /\ stored \in [Txn -> SUBSET Txn]
      /\ stored[t] = Blockers(t, r.key, r.mode)
      /\ \A u \in Txn \ {t} : stored[u] = waits[u]
  BY BlockersType DEF WaitEdges, TypeOK
<1>3. stored[t] \subseteq W
  BY <1>1, <1>2
<1>4. ASSUME NEW n \in W
      PROVE  stored[n] \subseteq W
  <2>1. CASE n = t
    BY <1>3, <2>1
  <2>2. CASE n # t /\ ~Waiting(n)
    BY <1>2, <2>2 DEF WaitInv, EdgesJustified
  <2>3. CASE n # t /\ Waiting(n)
    <3>1. n \in S
      BY <2>3 DEF Waiting, Ended
    <3>2. BlockersNow(n) \subseteq S
      BY <1>1, <2>3, <3>1 DEF ClosedUnder
    <3>3. \A u \in waits[n] : u \in Txn /\ (Ended(u) \/ u \in BlockersNow(n))
      BY <2>3 DEF WaitInv, EdgesJustified, TypeOK
    <3> QED
      BY <1>2, <2>3, <3>2, <3>3
  <2> QED
    BY <2>1, <2>2, <2>3
<1>5. t \in W
  BY <1>2, <1>3, <1>4 DEF HasCycle, ClosedUnder
<1>6. ~Ended(t)
  BY DEF Live, Ended
<1> QED
  BY <1>5, <1>6

\* Only a transaction that is on a cycle of blocked requests is a victim.
THEOREM VictimsAreDeadlocked == Spec => NoFalseDeadlock
<1> DEFINE Fair(t) == status[t] # "victim" /\ status'[t] = "victim" =>
                        \E r \in Request : /\ status[t] = "notified" => r = request[t]
                                           /\ TrueCycle(t, r)
<1>1. ASSUME TypeOK, WaitInv, [Next]_vars, NEW u \in Txn
      PROVE  Fair(u)
  <2>1. CASE UNCHANGED status
    BY <2>1
  <2>2. ASSUME NEW t \in Txn, NEW s \in Status \ {"victim"}, status' = [status EXCEPT ![t] = s]
        PROVE  Fair(u)
    BY <2>2 DEF TypeOK
  <2>3. ASSUME NEW t \in Txn, NEW s \in {"committed", "conflict", "aborted"}, EndAs(t, s)
        PROVE  Fair(u)
    BY <2>3 DEF EndAs, NotifyAll
  <2>4. ASSUME NEW t \in Txn, NEW r \in Request, Trying(t, r), Deadlock(t, r)
        PROVE  Fair(u)
    <3>1. CASE u = t
      <4>1. Live(t)
        BY <2>4 DEF Trying, Live
      <4>2. TrueCycle(t, r)
        BY <1>1, <2>4, <4>1, SearchFindsTrueCycle DEF Deadlock
      <4> QED
        BY <2>4, <3>1, <4>2 DEF Trying
    <3>2. CASE u # t
      BY <2>4, <3>2 DEF Deadlock, TypeOK
    <3> QED
      BY <3>1, <3>2
  <2>5. CASE UNCHANGED vars
    BY <2>5 DEF vars
  <2> HIDE DEF Fair
  <2>6. CASE Next
    <3>1. ASSUME NEW k \in Key, NEW v \in Value, SetInitial(k, v)
          PROVE  Fair(u)
      BY <2>1, <3>1 DEF SetInitial
    <3>2. ASSUME NEW t \in Txn, NEW k \in Key, ReadSnapshot(t, k)
          PROVE  Fair(u)
      BY <2>1, <3>2 DEF ReadSnapshot
    <3>3. ASSUME NEW t \in Txn, NEW r \in Request, AccessAgain(t, r)
          PROVE  Fair(u)
      BY <2>1, <3>3 DEF AccessAgain, AccessHeld
    <3>4. ASSUME NEW t \in Txn, NEW r \in Request, Grant(t, r) \/ Sleep(t, r)
          PROVE  Fair(u)
      BY <2>2, <3>4 DEF Grant, Sleep, Status
    <3>5. ASSUME NEW t \in Txn, Begin(t) \/ SpuriousWake(t)
          PROVE  Fair(u)
      BY <2>2, <3>5 DEF Begin, SpuriousWake, Status
    <3>6. ASSUME NEW t \in Txn, Commit(t) \/ CommitConflict(t) \/ Abort(t)
          PROVE  Fair(u)
      BY <2>3, <3>6 DEF Commit, CommitConflict, Abort
    <3> QED
      BY <1>1, <2>4, <2>6, <3>1, <3>2, <3>3, <3>4, <3>5, <3>6, StepCases
         DEF Loop
  <2> QED
    BY <1>1, <2>5, <2>6
<1>2. TypeOK /\ WaitInv /\ [Next]_vars => [\A t \in Txn : Fair(t)]_vars
  BY <1>1
<1> QED
  BY <1>2, WaitingInvariant, PTL DEF Spec, NoFalseDeadlock

-------------------------------------------------------------------------------
(* The data: versions, reads and the abstract stores.                        *)

SnapshotsPast == \A t \in Txn : snapshot[t] <= commit_clock

\* Only a live transaction has reads on record.
OnlyLiveSaw == \A t \in Txn, k \in Key : seen[t][k] # {} => Live(t)

\* Strict 2PL: what has been read is still locked.
ReadsAreLocked ==
    Mode = "TWO_PL" =>
        \A t \in Txn, k \in Key : seen[t][k] # {} => k \in held_s[t] \cup held_x[t]

DataInv == /\ VersionsAscend
           /\ SnapshotsPast
           /\ OnlyLiveSaw
           /\ ReadsAreLocked
           /\ ReadsStayCurrent

-------------------------------------------------------------------------------
(* What the data steps do to the latest versions.                           *)

LEMMA LatestAppended ==
    ASSUME TypeOK, NEW k \in Key, NEW ver \in Version,
           history'[k] = Append(history[k], ver)
    PROVE  Latest(k)' = ver.value
<1>1. PICK h \in Seq(Version) : h = history[k]
  BY DEF TypeOK
<1>2. /\ history'[k] # <<>>
      /\ history'[k][Len(history'[k])] = ver
  BY <1>1
<1> QED
  BY <1>2 DEF Latest

LEMMA CommitData ==
    ASSUME TypeOK, NEW t \in Txn, Commit(t), NEW k \in Key
    PROVE  /\ k \notin WriteSet(t) => /\ history'[k] = history[k]
                                      /\ Latest(k)' = Latest(k)
           /\ k \in WriteSet(t) =>
                 /\ history'[k] = Append(history[k], [commit_ts |-> commit_clock + 1,
                                                      value |-> writes[t][k]])
                 /\ Latest(k)' = writes[t][k]
<1>1. CASE k \notin WriteSet(t)
  BY <1>1 DEF Commit, Latest
<1>2. CASE k \in WriteSet(t)
  <2> DEFINE ver == [commit_ts |-> commit_clock + 1, value |-> writes[t][k]]
  <2>1. ver \in Version
    BY <1>2 DEF WriteSet, Version, TypeOK
  <2>2. history'[k] = Append(history[k], ver)
    BY <1>2 DEF Commit, CommitTime
  <2>3. Latest(k)' = ver.value
    BY <2>1, <2>2, LatestAppended
  <2> QED
    BY <1>2, <2>2, <2>3
<1> QED
  BY <1>1, <1>2

LEMMA SeedData ==
    ASSUME TypeOK, NEW k \in Key, NEW v \in Value, SetInitial(k, v)
    PROVE  /\ history'[k] = <<[commit_ts |-> 0, value |-> v]>>
           /\ Latest(k)' = v
           /\ \A l \in Key \ {k} : history'[l] = history[l] /\ Latest(l)' = Latest(l)
<1>1. [commit_ts |-> 0, value |-> v] \in Version
  BY DEF Version
<1>2. history'[k] = Append(history[k], [commit_ts |-> 0, value |-> v])
  BY DEF SetInitial, TypeOK
<1>3. Latest(k)' = v
  BY <1>1, <1>2, LatestAppended
<1>4. \A l \in Key \ {k} : history'[l] = history[l]
  BY DEF SetInitial, TypeOK
<1>5. history'[k] = <<[commit_ts |-> 0, value |-> v]>>
  BY <1>2 DEF SetInitial
<1> QED
  BY <1>3, <1>4, <1>5 DEF Latest

LEMMA AscendAppend ==
    ASSUME NEW h \in Seq(Version), NEW ver \in Version,
           \A i, j \in 1 .. Len(h) : i < j => h[i].commit_ts < h[j].commit_ts,
           \A i \in 1 .. Len(h) : h[i].commit_ts < ver.commit_ts
    PROVE  LET g == Append(h, ver)
           IN  /\ \A i, j \in 1 .. Len(g) : i < j => g[i].commit_ts < g[j].commit_ts
               /\ \A i \in 1 .. Len(g) : g[i].commit_ts <= ver.commit_ts
<1> DEFINE g == Append(h, ver)
<1>1. /\ Len(g) = Len(h) + 1 /\ Len(h) \in Nat
      /\ \A i \in 1 .. Len(h) : g[i] = h[i]
      /\ g[Len(h) + 1] = ver
  OBVIOUS
<1>2. ver.commit_ts \in Nat /\ \A i \in 1 .. Len(h) : h[i].commit_ts \in Nat
  <2>1. \A i \in 1 .. Len(h) : h[i] \in Version
    OBVIOUS
  <2> QED
    BY <2>1 DEF Version
<1> HIDE DEF g
<1>3. \A i, j \in 1 .. Len(g) : i < j => g[i].commit_ts < g[j].commit_ts
  <2> SUFFICES ASSUME NEW i \in 1 .. Len(g), NEW j \in 1 .. Len(g), i < j
               PROVE  g[i].commit_ts < g[j].commit_ts
    OBVIOUS
  <2>1. i \in 1 .. Len(h)
    BY <1>1
  <2>2. CASE j \in 1 .. Len(h)
    BY <1>1, <2>1, <2>2
  <2>3. CASE j = Len(h) + 1
    BY <1>1, <2>1, <2>3
  <2> QED
    BY <1>1, <2>2, <2>3
<1>4. ASSUME NEW i \in 1 .. Len(g)
      PROVE  g[i].commit_ts <= ver.commit_ts
  <2>1. CASE i \in 1 .. Len(h)
    BY <1>1, <1>2, <2>1
  <2>2. CASE i = Len(h) + 1
    BY <1>1, <1>2, <2>2
  <2> QED
    BY <1>1, <2>1, <2>2
<1> QED
  BY <1>3, <1>4 DEF g

-------------------------------------------------------------------------------
(* The data invariant is inductive.                                         *)

\* A step that appends no version and records no read.
LEMMA DataUnchanged ==
    ASSUME DataInv, UNCHANGED <<history, commit_clock, snapshot>>,
           \A t \in Txn : \/ seen'[t] = seen[t]
                          \/ \A k \in Key : seen'[t][k] = {},
           \A t \in Txn : Live(t) /\ (\E k \in Key : seen'[t][k] # {}) => Live(t)',
           Mode = "TWO_PL" =>
              \A t \in Txn, k \in Key : seen'[t][k] # {} => k \in held_s'[t] \cup held_x'[t]
    PROVE  DataInv'
<1>1. VersionsAscend' /\ SnapshotsPast'
  BY DEF DataInv, VersionsAscend, SnapshotsPast
<1>2. OnlyLiveSaw' /\ ReadsAreLocked'
  BY DEF DataInv, OnlyLiveSaw, ReadsAreLocked
<1>3. ReadsStayCurrent'
  <2>1. \A k \in Key : Latest(k)' = Latest(k)
    BY DEF Latest
  <2> QED
    BY <2>1 DEF DataInv, ReadsStayCurrent
<1> QED
  BY <1>1, <1>2, <1>3 DEF DataInv

\* A read or write by a live transaction that holds the lock it needs.
LEMMA AccessKeepsData ==
    ASSUME TypeOK, DataInv, NEW t \in Txn, NEW r \in Request, Access(t, r),
           UNCHANGED <<history, commit_clock, snapshot>>,
           Live(t), Live(t)', \A u \in Txn : Live(u) => Live(u)',
           \A u \in Txn, k \in Key : k \in held_s[u] \cup held_x[u] =>
                                     k \in held_s'[u] \cup held_x'[u],
           r.mode = "S" => r.key \in held_s'[t] \cup held_x'[t]
    PROVE  DataInv'
<1>1. PICK k \in Key : k = r.key
  BY RequestFields
<1>2. CASE r.mode = "X"
  <2>1. seen' = seen
    BY <1>2 DEF Access
  <2> QED
    BY <2>1, DataUnchanged DEF DataInv, ReadsAreLocked
<1>3. CASE r.mode = "S"
  <2>1. seen' = [seen EXCEPT ![t][k] = @ \cup {Latest(k)}]
    BY <1>1, <1>3 DEF Access
  <2>2. \A u \in Txn, l \in Key :
           seen'[u][l] = IF u = t /\ l = k THEN seen[t][k] \cup {Latest(k)} ELSE seen[u][l]
    BY <2>1 DEF TypeOK
  <2>3. \A l \in Key : Latest(l)' = Latest(l)
    BY DEF Latest
  <2>4. VersionsAscend' /\ SnapshotsPast'
    BY DEF DataInv, VersionsAscend, SnapshotsPast
  <2>5. OnlyLiveSaw'
    BY <2>2 DEF DataInv, OnlyLiveSaw
  <2>6. ReadsAreLocked'
    BY <1>1, <1>3, <2>2 DEF DataInv, ReadsAreLocked
  <2>7. ReadsStayCurrent'
    BY <2>2, <2>3 DEF DataInv, ReadsStayCurrent
  <2> QED
    BY <2>4, <2>5, <2>6, <2>7 DEF DataInv
<1> QED
  BY <1>2, <1>3, RequestFields

LEMMA SeedKeepsData ==
    ASSUME TypeOK, LockInv, DataInv, NEW k \in Key, NEW v \in Value, SetInitial(k, v)
    PROVE  DataInv'
<1>1. \A t \in Txn, l \in Key : seen'[t][l] = {}
  BY DEF SetInitial, DataInv, OnlyLiveSaw, Live
<1>2. VersionsAscend'
  BY SeedData DEF SetInitial, DataInv, VersionsAscend, TypeOK
<1> QED
  BY <1>1, <1>2
     DEF DataInv, SetInitial, SnapshotsPast, OnlyLiveSaw, ReadsAreLocked,
         ReadsStayCurrent

LEMMA CommitKeepsData ==
    ASSUME TypeOK, LockInv, DataInv, NEW t \in Txn, Commit(t)
    PROVE  DataInv'
<1>1. commit_clock' = commit_clock + 1 /\ commit_clock \in Nat /\ snapshot' = snapshot
  BY DEF Commit, EndAs, TypeOK
<1>2. \A k \in Key : seen'[t][k] = {}
  BY DEF Commit, EndAs, NoReads, TypeOK
<1>3. \A u \in Txn \ {t} : /\ seen'[u] = seen[u] /\ Live(u)' = Live(u)
                           /\ held_s'[u] = held_s[u] /\ held_x'[u] = held_x[u]
  BY DEF Commit, EndAs, ReleaseAll, NotifyAll, Live, TypeOK
<1>4. SnapshotsPast'
  BY <1>1 DEF DataInv, SnapshotsPast, TypeOK
<1>5. VersionsAscend'
  <2> SUFFICES ASSUME NEW k \in Key
               PROVE  /\ \A i, j \in 1 .. Len(history'[k]) :
                            i < j => history'[k][i].commit_ts < history'[k][j].commit_ts
                      /\ \A i \in 1 .. Len(history'[k]) :
                            history'[k][i].commit_ts <= commit_clock'
    BY DEF VersionsAscend
  <2>1. history[k] \in Seq(Version)
    BY DEF TypeOK
  <2>2. \A i \in 1 .. Len(history[k]) : /\ history[k][i].commit_ts \in Nat
                                        /\ history[k][i].commit_ts <= commit_clock
    <3>1. \A i \in 1 .. Len(history[k]) : history[k][i] \in Version
      BY <2>1
    <3> QED
      BY <3>1 DEF DataInv, VersionsAscend, Version
  <2>3. CASE k \notin WriteSet(t)
    <3>1. history'[k] = history[k]
      BY <2>3, CommitData
    <3>2. \A i \in 1 .. Len(history[k]) : history[k][i].commit_ts <= commit_clock'
      BY <1>1, <2>2
    <3> QED
      BY <3>1, <3>2 DEF DataInv, VersionsAscend
  <2>4. CASE k \in WriteSet(t)
    <3> DEFINE ver == [commit_ts |-> commit_clock + 1, value |-> writes[t][k]]
    <3>1. ver \in Version
      BY <2>4 DEF WriteSet, Version, TypeOK
    <3>2. ver.commit_ts = commit_clock'
      BY <1>1
    <3>3. history'[k] = Append(history[k], ver)
      BY <2>4, CommitData
    <3> HIDE DEF ver
    <3>4. \A i \in 1 .. Len(history[k]) : history[k][i].commit_ts < ver.commit_ts
      BY <1>1, <2>2, <3>2
    <3> QED
      BY <2>1, <3>1, <3>2, <3>3, <3>4, AscendAppend DEF DataInv, VersionsAscend
  <2> QED
    BY <2>3, <2>4
<1>6. OnlyLiveSaw' /\ ReadsAreLocked'
  BY <1>2, <1>3 DEF DataInv, OnlyLiveSaw, ReadsAreLocked
<1>7. ReadsStayCurrent'
  <2> SUFFICES ASSUME Mode = "TWO_PL", NEW u \in Txn, NEW k \in Key, seen'[u][k] # {}
               PROVE  seen'[u][k] \subseteq {Latest(k)'}
    BY DEF ReadsStayCurrent
  <2>1. u # t /\ seen'[u][k] = seen[u][k]
    BY <1>2, <1>3
  <2>2. k \in held_s[u] \cup held_x[u]
    BY <2>1 DEF DataInv, ReadsAreLocked
  <2>3. u \in slock[k] \/ xlock[k] = u
    BY <2>2 DEF LockInv, LockTablesAgree
  <2>4. xlock[k] # t
    BY <2>1, <2>3, NoTxnAssumption DEF LockInv, LockExclusion
  <2>5. k \notin WriteSet(t)
    BY <2>4 DEF LockInv, WritesAreLocked, WriteSet
  <2> QED
    BY <2>1, <2>5, CommitData DEF DataInv, ReadsStayCurrent
<1> QED
  BY <1>4, <1>5, <1>6, <1>7 DEF DataInv

LEMMA DataStep ==
    ASSUME TypeOK, LockInv, DataInv, [Next]_vars
    PROVE  DataInv'
<1>1. ASSUME NEW k \in Key, NEW v \in Value, SetInitial(k, v)
      PROVE  DataInv'
  BY <1>1, SeedKeepsData
<1>2. ASSUME NEW t \in Txn, NEW k \in Key, ReadSnapshot(t, k)
      PROVE  DataInv'
  <2>1. Mode # "TWO_PL" /\ Live(t) /\ UNCHANGED <<history, commit_clock, snapshot, status>>
    BY <1>2 DEF ReadSnapshot, Live
  <2>2. VersionsAscend' /\ SnapshotsPast'
    BY <2>1 DEF DataInv, VersionsAscend, SnapshotsPast
  <2>3. \A u \in Txn \ {t} : seen'[u] = seen[u]
    BY <1>2 DEF ReadSnapshot, TypeOK
  <2>4. OnlyLiveSaw'
    BY <2>1, <2>3 DEF DataInv, OnlyLiveSaw, Live
  <2> QED
    BY <2>1, <2>2, <2>4 DEF DataInv, ReadsAreLocked, ReadsStayCurrent
<1>3. ASSUME NEW t \in Txn, NEW r \in Request, AccessAgain(t, r)
      PROVE  DataInv'
  BY <1>3, AccessKeepsData DEF AccessAgain, AccessHeld, Holds, Live, locks
<1>4. ASSUME NEW t \in Txn, NEW r \in Request, Loop(t, r, Grant(t, r))
      PROVE  DataInv'
  <2>1. PICK k \in Key : k = r.key
    BY RequestFields
  <2>2. Live(t) /\ Live(t)' /\ \A u \in Txn : Live(u) => Live(u)'
    BY <1>4, TryingLacks DEF Loop, Grant, Live, TypeOK
  <2>3. \A u \in Txn, l \in Key : l \in held_s[u] \cup held_x[u] =>
                                  l \in held_s'[u] \cup held_x'[u]
    <3>1. CASE TakeShared(t, k)
      BY <3>1 DEF TakeShared, TypeOK
    <3>2. CASE TakeExclusive(t, k)
      BY <3>2 DEF TakeExclusive, TypeOK
    <3> QED
      BY <1>4, <2>1, <3>1, <3>2 DEF Loop, Grant, TakeLock
  <2>4. r.mode = "S" => r.key \in held_s'[t] \cup held_x'[t]
    BY <1>4, <2>1 DEF Loop, Grant, TakeLock, TakeShared, TypeOK
  <2>5. Access(t, r) /\ UNCHANGED <<history, commit_clock, snapshot>>
    BY <1>4 DEF Loop, Grant
  <2> QED
    BY <2>2, <2>3, <2>4, <2>5, AccessKeepsData
<1>5. ASSUME NEW t \in Txn, NEW r \in Request,
             Trying(t, r), Deadlock(t, r) \/ Sleep(t, r),
             UNCHANGED <<commit_clock, history, snapshot>>
      PROVE  DataInv'
  <2>1. \A u \in Txn : Live(u) => Live(u)'
    BY <1>5 DEF Deadlock, Sleep, Live, TypeOK
  <2> QED
    BY <1>5, <2>1, DataUnchanged
       DEF Deadlock, Sleep, locks, DataInv, ReadsAreLocked
<1>6. ASSUME NEW t \in Txn, Begin(t)
      PROVE  DataInv'
  <2>1. \A u \in Txn : Live(u) => Live(u)'
    BY <1>6 DEF Begin, Live, TypeOK
  <2>2. SnapshotsPast'
    BY <1>6 DEF Begin, DataInv, SnapshotsPast, TypeOK
  <2>3. VersionsAscend' /\ ReadsStayCurrent'
    BY <1>6 DEF Begin, DataInv, VersionsAscend, ReadsStayCurrent, Latest
  <2>4. OnlyLiveSaw' /\ ReadsAreLocked'
    BY <1>6, <2>1 DEF Begin, DataInv, OnlyLiveSaw, ReadsAreLocked, locks
  <2> QED
    BY <2>2, <2>3, <2>4 DEF DataInv
<1>7. ASSUME NEW t \in Txn, SpuriousWake(t)
      PROVE  DataInv'
  <2>1. \A u \in Txn : Live(u) => Live(u)'
    BY <1>7 DEF SpuriousWake, Live, TypeOK
  <2> QED
    BY <1>7, <2>1, DataUnchanged DEF SpuriousWake, locks, DataInv, ReadsAreLocked
<1>8. ASSUME NEW t \in Txn, Commit(t)
      PROVE  DataInv'
  BY <1>8, CommitKeepsData
<1>9. ASSUME NEW t \in Txn, NEW s \in {"conflict", "aborted"}, EndAs(t, s),
             UNCHANGED <<commit_clock, history>>
      PROVE  DataInv'
  <2>1. \A k \in Key : seen'[t][k] = {}
    BY <1>9 DEF EndAs, NoReads, TypeOK
  <2>2. \A u \in Txn \ {t} : /\ seen'[u] = seen[u] /\ Live(u)' = Live(u)
                             /\ held_s'[u] = held_s[u] /\ held_x'[u] = held_x[u]
    BY <1>9 DEF EndAs, ReleaseAll, NotifyAll, Live, TypeOK
  <2>3. snapshot' = snapshot
    BY <1>9 DEF EndAs
  <2> QED
    BY <1>9, <2>1, <2>2, <2>3, DataUnchanged DEF DataInv, ReadsAreLocked
<1>10. CASE UNCHANGED vars
  BY <1>10, DataUnchanged DEF vars, Live, DataInv, ReadsAreLocked
<1> QED
  BY <1>1, <1>2, <1>3, <1>4, <1>5, <1>6, <1>7, <1>8, <1>9, <1>10, StepCases
     DEF Loop, CommitConflict, Abort

LEMMA StoreInvariant == Spec => [](TypeOK /\ LockInv /\ WaitInv /\ DataInv)
<1>1. Init => DataInv
  BY DEF Init, DataInv, VersionsAscend, SnapshotsPast, OnlyLiveSaw,
         ReadsAreLocked, ReadsStayCurrent, NoReads
<1>2. TypeOK /\ LockInv /\ WaitInv /\ DataInv /\ [Next]_vars => DataInv'
  BY DataStep
<1> QED
  BY <1>1, <1>2, WaitingInvariant, PTL DEF Spec

\* Every key's versions ascend in time, none is newer than the clock, and
\* under strict 2PL no committed write overtakes a running reader.
THEOREM VersionsCorrect == Spec => [](VersionsAscend /\ ReadsStayCurrent)
<1>1. DataInv => VersionsAscend /\ ReadsStayCurrent
  BY DEF DataInv
<1> QED
  BY <1>1, StoreInvariant, PTL

-------------------------------------------------------------------------------
(* The TWO_PL mode implements SerialStore.                                  *)

LEMMA PhaseOf ==
    ASSUME NEW t \in Txn
    PROVE  /\ Live(t) => Phase(t) = "running"
           /\ status[t] = "unborn" => Phase(t) = "unborn"
           /\ status[t] = "committed" => Phase(t) = "committed"
           /\ status[t] \in {"conflict", "aborted"} => Phase(t) = "aborted"
BY DEF Phase, Live

\* A step that leaves every version, buffer, read and phase alone.
LEMMA SerialStutter ==
    ASSUME UNCHANGED <<history, writes, seen>>, \A t \in Txn : Phase(t)' = Phase(t)
    PROVE  UNCHANGED Serial!vars
BY DEF Serial!vars, Latest

LEMMA SerialAccess ==
    ASSUME TypeOK, NEW t \in Txn, NEW r \in Request, Access(t, r), Live(t),
           UNCHANGED history, \A u \in Txn : Phase(u)' = Phase(u)
    PROVE  Serial!Next
<1>1. PICK k \in Key : k = r.key
  BY RequestFields
<1>2. [u \in Txn |-> Phase(u)][t] = "running"
  BY PhaseOf
<1>3. [l \in Key |-> Latest(l)]' = [l \in Key |-> Latest(l)]
  BY DEF Latest
<1>4. [u \in Txn |-> Phase(u)]' = [u \in Txn |-> Phase(u)]
  OBVIOUS
<1>5. CASE r.mode = "X"
  <2>1. PICK v \in Value : v = r.value
    BY <1>5, RequestFields
  <2>2. Serial!Put(t, k, v)
    BY <1>1, <1>2, <1>3, <1>4, <1>5, <2>1 DEF Access, Serial!Put
  <2> QED
    BY <2>2 DEF Serial!Next
<1>6. CASE r.mode = "S"
  <2>1. PICK v \in Value : v = Latest(k)
    BY LatestType
  <2>2. Serial!Show(t, k, v)
    BY <1>1, <1>2, <1>3, <1>4, <1>6, <2>1 DEF Access, Serial!Show
  <2> QED
    BY <2>2 DEF Serial!Next
<1> QED
  BY <1>5, <1>6, RequestFields

LEMMA PhasesAtEnd ==
    ASSUME TypeOK, NEW t \in Txn, NEW s, EndAs(t, s)
    PROVE  /\ s = "committed" => Phase(t)' = "committed"
           /\ s \in {"conflict", "aborted"} => Phase(t)' = "aborted"
           /\ \A u \in Txn \ {t} : Phase(u)' = Phase(u)
BY DEF EndAs, NotifyAll, Phase, TypeOK

LEMMA SerialEnd ==
    ASSUME TypeOK, NEW t \in Txn, Live(t), NEW s \in {"committed", "aborted"},
           EndAs(t, s)
    PROVE  Serial!End(t, s)
<1> DEFINE phase == [u \in Txn |-> Phase(u)]
<1>1. phase[t] = "running"
  BY PhaseOf
<1>2. phase' = [phase EXCEPT ![t] = s]
  BY PhasesAtEnd
<1> HIDE DEF phase
<1>3. /\ writes' = [writes EXCEPT ![t] = Serial!Nothing]
      /\ seen' = [seen EXCEPT ![t] = Serial!Unread]
  BY DEF EndAs, NoWrites, NoReads, Serial!Nothing, Serial!Unread
<1> QED
  BY <1>1, <1>2, <1>3 DEF Serial!End, phase

LEMMA SerialCommit ==
    ASSUME TypeOK, DataInv, Mode = "TWO_PL", NEW t \in Txn, Commit(t)
    PROVE  Serial!Commit(t)
<1> DEFINE db == [k \in Key |-> Latest(k)]
<1>1. \A k \in Key : seen[t][k] \subseteq {db[k]}
  BY DEF DataInv, ReadsStayCurrent
<1>2. db' = [k \in Key |-> IF writes[t][k] = Unset THEN db[k] ELSE writes[t][k]]
  <2>1. ASSUME NEW k \in Key
        PROVE  Latest(k)' = IF writes[t][k] = Unset THEN Latest(k) ELSE writes[t][k]
    BY CommitData DEF WriteSet
  <2> QED
    BY <2>1
<1>3. Serial!End(t, "committed")
  BY SerialEnd DEF Commit, Live
<1> HIDE DEF db
<1> QED
  BY <1>1, <1>2, <1>3 DEF Serial!Commit, db

LEMMA SerialStep ==
    ASSUME TypeOK, LockInv, DataInv, Mode = "TWO_PL", [Next]_vars
    PROVE  [Serial!Next]_(Serial!vars)
<1> DEFINE phase == [u \in Txn |-> Phase(u)]
           db == [k \in Key |-> Latest(k)]
<1>1. ASSUME NEW k \in Key, NEW v \in Value, SetInitial(k, v)
      PROVE  Serial!Seed(k, v)
  <2>1. \A t \in Txn : phase[t] = "unborn"
    BY <1>1, PhaseOf DEF SetInitial
  <2>2. phase' = phase
    BY <1>1 DEF SetInitial, Phase
  <2>3. db' = [db EXCEPT ![k] = v]
    BY <1>1, SeedData
  <2> QED
    BY <1>1, <2>1, <2>2, <2>3 DEF SetInitial, Serial!Seed
<1>2. ASSUME NEW t \in Txn, NEW k \in Key, ReadSnapshot(t, k)
      PROVE  FALSE
  BY <1>2 DEF ReadSnapshot
<1>3. ASSUME NEW t \in Txn, NEW r \in Request, AccessAgain(t, r)
      PROVE  Serial!Next
  <2>1. Live(t) /\ \A u \in Txn : Phase(u)' = Phase(u)
    BY <1>3 DEF AccessAgain, AccessHeld, Live, Phase
  <2> QED
    BY <1>3, <2>1, SerialAccess DEF AccessAgain, AccessHeld
<1>4. ASSUME NEW t \in Txn, NEW r \in Request, Loop(t, r, Grant(t, r))
      PROVE  Serial!Next
  <2>1. Live(t)
    BY <1>4, TryingLacks DEF Loop
  <2>2. \A u \in Txn : Phase(u)' = Phase(u)
    BY <1>4, <2>1 DEF Loop, Grant, Phase, Live, TypeOK
  <2> QED
    BY <1>4, <2>1, <2>2, SerialAccess DEF Loop, Grant
<1>5. ASSUME NEW t \in Txn, NEW r \in Request,
             Loop(t, r, Deadlock(t, r)) \/ Loop(t, r, Sleep(t, r))
      PROVE  UNCHANGED Serial!vars
  <2>1. Live(t)
    BY <1>5, TryingLacks DEF Loop
  <2>2. \A u \in Txn : Phase(u)' = Phase(u)
    BY <1>5, <2>1 DEF Loop, Deadlock, Sleep, Phase, Live, TypeOK
  <2> QED
    BY <1>5, <2>2, SerialStutter DEF Loop, Deadlock, Sleep
<1>6. ASSUME NEW t \in Txn, Begin(t)
      PROVE  Serial!Begin(t)
  <2>1. phase[t] = "unborn"
    BY <1>6, PhaseOf DEF Begin
  <2>2. phase' = [phase EXCEPT ![t] = "running"]
    BY <1>6 DEF Begin, Phase, TypeOK
  <2>3. db' = db
    BY <1>6 DEF Begin, Latest
  <2> QED
    BY <1>6, <2>1, <2>2, <2>3 DEF Begin, Serial!Begin
<1>7. ASSUME NEW t \in Txn, SpuriousWake(t)
      PROVE  UNCHANGED Serial!vars
  <2>1. \A u \in Txn : Phase(u)' = Phase(u)
    BY <1>7 DEF SpuriousWake, Phase, TypeOK
  <2> QED
    BY <1>7, <2>1, SerialStutter DEF SpuriousWake
<1>8. ASSUME NEW t \in Txn, Commit(t)
      PROVE  Serial!Commit(t)
  BY <1>8, SerialCommit
<1>9. ASSUME NEW t \in Txn, CommitConflict(t)
      PROVE  FALSE
  BY <1>9 DEF CommitConflict, Conflicts
<1>10. ASSUME NEW t \in Txn, Abort(t)
       PROVE  Serial!Abort(t) \/ UNCHANGED Serial!vars
  <2>1. db' = db
    BY <1>10 DEF Abort, Latest
  <2>2. CASE Live(t)
    <3>1. Serial!End(t, "aborted")
      BY <1>10, <2>2, SerialEnd DEF Abort
    <3> QED
      BY <2>1, <3>1 DEF Serial!Abort
  <2>3. CASE status[t] = "conflict"
    <3>1. ~Live(t)
      BY <2>3 DEF Live
    <3>2. \A k \in Key : writes[t][k] = Unset
      BY <3>1 DEF LockInv, WritesAreLocked, LockTablesAgree, OnlyLiveHold
    <3>3. \A k \in Key : seen[t][k] = {}
      BY <3>1 DEF DataInv, OnlyLiveSaw
    <3>4. writes' = writes /\ seen' = seen
      BY <1>10, <3>2, <3>3 DEF Abort, EndAs, NoWrites, NoReads, TypeOK
    <3>5. \A u \in Txn : Phase(u)' = Phase(u)
      BY <1>10, <2>3, PhasesAtEnd, PhaseOf DEF Abort
    <3> QED
      BY <1>10, <3>4, <3>5, SerialStutter DEF Abort
  <2> QED
    BY <1>10, <2>2, <2>3 DEF Abort, Live
<1>11. CASE UNCHANGED vars
  <2>1. \A u \in Txn : Phase(u)' = Phase(u)
    BY <1>11 DEF vars, Phase
  <2> QED
    BY <1>11, <2>1, SerialStutter DEF vars
<1> HIDE DEF phase, db
<1>12. CASE Next
  BY <1>1, <1>2, <1>3, <1>4, <1>5, <1>6, <1>7, <1>8, <1>9, <1>10, <1>12,
     StepCases DEF Serial!Next
<1> QED
  BY <1>11, <1>12

\* Strict two-phase locking is serializable in commit order: each committed
\* transaction reads and writes as if it ran alone when it commits.
THEOREM SerializableUnder2PL ==
    ASSUME Mode = "TWO_PL"
    PROVE  Spec => Serializable
<1>1. Init => Serial!Init
  BY DEF Init, Serial!Init, Serial!Nothing, Serial!Unread, NoWrites, NoReads,
         Latest, Phase
<1>2. TypeOK /\ LockInv /\ DataInv /\ [Next]_vars => [Serial!Next]_(Serial!vars)
  BY SerialStep
<1> QED
  BY <1>1, <1>2, StoreInvariant, PTL DEF Spec, Serial!Spec, Serializable

-------------------------------------------------------------------------------
(* The MVCC mode implements SnapshotStore.                                  *)

\* In MVCC mode only writers wait.
OnlyWritersWait ==
    Mode = "MVCC" => \A t \in Txn : Waiting(t) => request[t].mode = "X"

LEMMA OnlyWritersWaitStep ==
    ASSUME TypeOK, OnlyWritersWait, [Next]_vars
    PROVE  OnlyWritersWait'
<1>1. ASSUME NEW t \in Txn, NEW r \in Request, Trying(t, r),
             Grant(t, r) \/ Deadlock(t, r)
      PROVE  OnlyWritersWait'
  BY <1>1 DEF Grant, Deadlock, OnlyWritersWait, Waiting, TypeOK
<1>2. ASSUME NEW t \in Txn, NEW r \in Request, Trying(t, r), Sleep(t, r)
      PROVE  OnlyWritersWait'
  <2>1. Mode = "MVCC" => r.mode = "X"
    BY <1>2, RequestFields DEF Trying, OnlyWritersWait, Waiting
  <2> QED
    BY <1>2, <2>1 DEF Sleep, OnlyWritersWait, Waiting, TypeOK
<1>3. ASSUME NEW t \in Txn, NEW s \in {"committed", "conflict", "aborted"}, EndAs(t, s)
      PROVE  OnlyWritersWait'
  BY <1>3 DEF EndAs, NotifyAll, Waiting, OnlyWritersWait
<1>4. ASSUME NEW t \in Txn, Begin(t) \/ SpuriousWake(t)
      PROVE  OnlyWritersWait'
  BY <1>4 DEF Begin, SpuriousWake, Waiting, OnlyWritersWait, TypeOK
<1>5. CASE UNCHANGED <<status, request>>
  BY <1>5 DEF OnlyWritersWait, Waiting
<1>6. CASE Next
  BY <1>1, <1>2, <1>3, <1>4, <1>5, <1>6, StepCases
     DEF SetInitial, ReadSnapshot, AccessAgain, AccessHeld, Loop, Commit,
         CommitConflict, Abort
<1> QED
  BY <1>5, <1>6 DEF vars

\* At the clock's time the last version is the visible one.
LEMMA VisibleNow ==
    ASSUME TypeOK, DataInv, NEW k \in Key
    PROVE  VisibleAt(commit_clock, k) = Latest(k)
<1> DEFINE n == Len(history[k])
           passed == {i \in 1 .. n : \A j \in 1 .. i :
                         history[k][j].commit_ts <= commit_clock}
<1>1. history[k] \in Seq(Version) /\ n \in Nat
  BY DEF TypeOK
<1>2. passed = 1 .. n
  BY <1>1 DEF DataInv, VersionsAscend
<1>3. history[k] = <<>> <=> n = 0
  BY <1>1
<1> HIDE DEF n
<1>4. Cardinality(1 .. n) = n
  BY <1>1, FS_Interval, n + 1 - 1 = n
<1>5. 1 .. n = {} <=> n = 0
  BY <1>1
<1>6. VisibleAt(commit_clock, k) =
         IF passed = {} THEN Zero ELSE history[k][Cardinality(passed)].value
  BY DEF VisibleAt, n
<1> HIDE DEF passed
<1> QED
  BY <1>2, <1>3, <1>4, <1>5, <1>6 DEF Latest, n

\* A version newer than a snapshot does not change what the snapshot sees.
LEMMA VisibleStable ==
    ASSUME TypeOK, NEW k \in Key, NEW ver \in Version, NEW ts \in Nat,
           history'[k] = Append(history[k], ver), ts < ver.commit_ts
    PROVE  VisibleAt(ts, k)' = VisibleAt(ts, k)
<1> DEFINE n == Len(history[k])
           passed == {i \in 1 .. n : \A j \in 1 .. i : history[k][j].commit_ts <= ts}
           after == {i \in 1 .. Len(history'[k]) :
                        \A j \in 1 .. i : history'[k][j].commit_ts <= ts}
<1>1. /\ n \in Nat /\ Len(history'[k]) = n + 1
      /\ history'[k][n + 1] = ver
      /\ \A i \in 1 .. n : history'[k][i] = history[k][i]
  BY DEF TypeOK
<1>2. n + 1 \notin after
  <2>1. ver.commit_ts \in Nat
    BY DEF Version
  <2>2. ~(ver.commit_ts <= ts)
    BY <2>1
  <2> QED
    BY <1>1, <2>2
<1>3. after = passed
  <2>1. ASSUME NEW i \in 1 .. n
        PROVE  i \in after <=> i \in passed
    BY <1>1
  <2>2. after \subseteq 1 .. n /\ passed \subseteq 1 .. n
    BY <1>1, <1>2
  <2> HIDE DEF after, passed
  <2> QED
    BY <2>1, <2>2
<1>4. passed # {} => Cardinality(passed) \in 1 .. n
  BY <1>1, SubsetOfInterval
<1>5. VisibleAt(ts, k) = IF passed = {} THEN Zero ELSE history[k][Cardinality(passed)].value
  BY DEF VisibleAt
<1>6. VisibleAt(ts, k)' = IF after = {} THEN Zero ELSE history'[k][Cardinality(after)].value
  BY DEF VisibleAt
<1> HIDE DEF n, passed, after
<1> QED
  BY <1>1, <1>3, <1>4, <1>5, <1>6

\* The state functions of the refinement mapping.
CopyOf(t)  == [k \in Key |-> IF Live(t) THEN VisibleAt(snapshot[t], k) ELSE Zero]
DirtyOf(t) == {k \in Key : Live(t) /\ CommittedSince(t, k)}

\* A step that leaves versions and snapshots alone.
LEMMA SnapshotUnchanged ==
    ASSUME UNCHANGED <<history, snapshot>>, NEW t \in Txn, Live(t)' = Live(t)
    PROVE  CopyOf(t)' = CopyOf(t) /\ DirtyOf(t)' = DirtyOf(t)
BY DEF CopyOf, DirtyOf, VisibleAt, CommittedSince

LEMMA SnapshotStutter ==
    ASSUME UNCHANGED <<history, snapshot, writes, seen>>,
           \A t \in Txn : Phase(t)' = Phase(t) /\ Live(t)' = Live(t)
    PROVE  UNCHANGED Snapshot!vars
<1>1. \A t \in Txn : CopyOf(t)' = CopyOf(t) /\ DirtyOf(t)' = DirtyOf(t)
  BY SnapshotUnchanged
<1> QED
  BY <1>1 DEF Snapshot!vars, Latest, CopyOf, DirtyOf


LEMMA SnapshotAccess ==
    ASSUME TypeOK, NEW t \in Txn, NEW r \in Request, r.mode = "X", Access(t, r), Live(t),
           UNCHANGED <<history, snapshot>>,
           \A u \in Txn : Phase(u)' = Phase(u) /\ Live(u)' = Live(u)
    PROVE  Snapshot!Next
<1>1. PICK k \in Key : k = r.key
  BY RequestFields
<1>2. PICK v \in Value : v = r.value
  BY RequestFields
<1>3. [u \in Txn |-> Phase(u)][t] = "running"
  BY PhaseOf
<1>4. \A u \in Txn : CopyOf(u)' = CopyOf(u) /\ DirtyOf(u)' = DirtyOf(u)
  BY SnapshotUnchanged
<1>5. Snapshot!Put(t, k, v)
  BY <1>1, <1>2, <1>3, <1>4
     DEF Access, Snapshot!Put, Latest, CopyOf, DirtyOf
<1> QED
  BY <1>5 DEF Snapshot!Next

LEMMA SnapshotEnd ==
    ASSUME TypeOK, NEW t \in Txn, Live(t), NEW s \in {"committed", "conflict", "aborted"},
           EndAs(t, s), \A u \in Txn \ {t} : CopyOf(u)' = CopyOf(u)
    PROVE  Snapshot!End(t, IF s = "committed" THEN s ELSE "aborted")
<1> DEFINE phase == [u \in Txn |-> Phase(u)]
           copy  == [u \in Txn |-> CopyOf(u)]
<1>1. phase[t] = "running"
  BY PhaseOf
<1>2. phase' = [phase EXCEPT ![t] = IF s = "committed" THEN s ELSE "aborted"]
  BY PhasesAtEnd
<1>3. ~Live(t)'
  BY DEF EndAs, NotifyAll, Live
<1>4. CopyOf(t)' = Snapshot!Empty
  BY <1>3 DEF CopyOf, Snapshot!Empty
<1>5. copy' = [copy EXCEPT ![t] = Snapshot!Empty]
  BY <1>4
<1> HIDE DEF phase
<1>6. /\ writes' = [writes EXCEPT ![t] = Snapshot!Nothing]
      /\ seen' = [seen EXCEPT ![t] = Snapshot!Unread]
  BY DEF EndAs, NoWrites, NoReads, Snapshot!Nothing, Snapshot!Unread
<1> QED
  BY <1>1, <1>2, <1>5, <1>6 DEF Snapshot!End, phase, CopyOf

\* A commit changes no running transaction's copy, and makes dirty for each of
\* the others exactly the keys it writes.
LEMMA CommitForOthers ==
    ASSUME TypeOK, DataInv, NEW t \in Txn, Commit(t), NEW u \in Txn \ {t}
    PROVE  /\ CopyOf(u)' = CopyOf(u)
           /\ DirtyOf(u)' = IF Live(u) THEN DirtyOf(u) \cup WriteSet(t) ELSE DirtyOf(u)
<1>1. snapshot'[u] = snapshot[u] /\ Live(u)' = Live(u)
  BY DEF Commit, EndAs, NotifyAll, Live, TypeOK
<1>2. snapshot[u] \in Nat /\ commit_clock \in Nat /\ snapshot[u] < commit_clock + 1
  BY DEF DataInv, SnapshotsPast, TypeOK
<1>3. ASSUME NEW k \in Key
      PROVE  /\ VisibleAt(snapshot[u], k)' = VisibleAt(snapshot[u], k)
             /\ CommittedSince(u, k)' <=> CommittedSince(u, k) \/ k \in WriteSet(t)
  <2>1. CASE k \notin WriteSet(t)
    <3>1. history'[k] = history[k]
      BY <2>1, CommitData
    <3> QED
      BY <1>1, <2>1, <3>1 DEF VisibleAt, CommittedSince
  <2>2. CASE k \in WriteSet(t)
    <3> DEFINE ver == [commit_ts |-> commit_clock + 1, value |-> writes[t][k]]
    <3>1. ver \in Version
      BY <2>2 DEF WriteSet, Version, TypeOK
    <3>2. history'[k] = Append(history[k], ver)
      BY <2>2, CommitData
    <3>3. ver.commit_ts = commit_clock + 1
      OBVIOUS
    <3> HIDE DEF ver
    <3>4. \A ts \in Nat : ts < ver.commit_ts => VisibleAt(ts, k)' = VisibleAt(ts, k)
      BY <3>1, <3>2, VisibleStable
    <3>5. PICK ts \in Nat : ts = snapshot[u]
      BY <1>2
    <3>6. VisibleAt(ts, k)' = VisibleAt(ts, k)
      BY <1>2, <3>3, <3>4, <3>5
    <3>7. VisibleAt(snapshot[u], k)' = VisibleAt(ts, k)'
      BY <1>1, <3>5 DEF VisibleAt
    <3>8. PICK h \in Seq(Version) : h = history[k]
      BY DEF TypeOK
    <3>9. history'[k] # <<>> /\ history'[k][Len(history'[k])] = ver
      BY <3>2, <3>8
    <3>10. CommittedSince(u, k)'
      BY <1>1, <1>2, <3>3, <3>9 DEF CommittedSince
    <3> QED
      BY <2>2, <3>5, <3>6, <3>7, <3>10
  <2> QED
    BY <2>1, <2>2
<1>4. CopyOf(u)' = CopyOf(u)
  BY <1>1, <1>3 DEF CopyOf
<1>5. WriteSet(t) \subseteq Key
  BY DEF WriteSet
<1> QED
  BY <1>1, <1>3, <1>4, <1>5 DEF DirtyOf

LEMMA SnapshotCommit ==
    ASSUME TypeOK, DataInv, Mode = "MVCC", NEW t \in Txn, Commit(t)
    PROVE  Snapshot!Commit(t)
<1> DEFINE db == [k \in Key |-> Latest(k)]
           phase == [u \in Txn |-> Phase(u)]
           dirty == [u \in Txn |-> DirtyOf(u)]
<1>1. Snapshot!Written(t) = WriteSet(t)
  BY DEF Snapshot!Written, WriteSet
<1>2. Live(t) /\ ~Live(t)'
  BY DEF Commit, EndAs, NotifyAll, Live
<1>3. WriteSet(t) \cap dirty[t] = {}
  BY <1>2 DEF Commit, Conflicts, DirtyOf
<1>4. db' = [k \in Key |-> IF k \in WriteSet(t) THEN writes[t][k] ELSE db[k]]
  BY CommitData
<1>5. \A u \in Txn : phase[u] = "running" <=> Live(u)
  BY DEF Phase, Live, TypeOK, Status
<1>6. dirty' = [u \in Txn |-> IF u # t /\ phase[u] = "running"
                              THEN dirty[u] \cup WriteSet(t)
                              ELSE IF u = t THEN {} ELSE dirty[u]]
  <2>1. DirtyOf(t)' = {}
    BY <1>2 DEF DirtyOf
  <2>2. ASSUME NEW u \in Txn \ {t}
        PROVE  DirtyOf(u)' = IF phase[u] = "running" THEN DirtyOf(u) \cup WriteSet(t)
                             ELSE DirtyOf(u)
    BY <1>5, CommitForOthers
  <2> HIDE DEF phase
  <2> QED
    BY <2>1, <2>2
<1>7. Snapshot!End(t, "committed")
  BY <1>2, SnapshotEnd, CommitForOthers DEF Commit
<1> HIDE DEF db, phase
<1> QED
  BY <1>1, <1>3, <1>4, <1>6, <1>7 DEF Snapshot!Commit, db, phase, DirtyOf

LEMMA SnapshotAbort ==
    ASSUME TypeOK, NEW t \in Txn, Live(t), NEW s \in {"conflict", "aborted"},
           EndAs(t, s), UNCHANGED history
    PROVE  Snapshot!Abort(t)
<1> DEFINE dirty == [u \in Txn |-> DirtyOf(u)]
<1>1. snapshot' = snapshot /\ ~Live(t)'
  BY DEF EndAs, NotifyAll, Live
<1>2. \A u \in Txn \ {t} : Live(u)' = Live(u)
  BY DEF EndAs, NotifyAll, Live
<1>3. \A u \in Txn \ {t} : CopyOf(u)' = CopyOf(u) /\ DirtyOf(u)' = DirtyOf(u)
  BY <1>1, <1>2, SnapshotUnchanged
<1>4. DirtyOf(t)' = {}
  BY <1>1 DEF DirtyOf
<1>5. dirty' = [dirty EXCEPT ![t] = {}]
  BY <1>3, <1>4
<1>6. Snapshot!End(t, "aborted")
  BY <1>3, SnapshotEnd
<1> QED
  BY <1>5, <1>6 DEF Snapshot!Abort, Latest, DirtyOf

LEMMA SnapshotStep ==
    ASSUME TypeOK, LockInv, DataInv, OnlyWritersWait, Mode = "MVCC", [Next]_vars
    PROVE  [Snapshot!Next]_(Snapshot!vars)
<1> DEFINE phase == [u \in Txn |-> Phase(u)]
           db == [k \in Key |-> Latest(k)]
           copy == [u \in Txn |-> CopyOf(u)]
           dirty == [u \in Txn |-> DirtyOf(u)]
<1>1. ASSUME NEW k \in Key, NEW v \in Value, SetInitial(k, v)
      PROVE  Snapshot!Seed(k, v)
  <2>1. \A t \in Txn : phase[t] = "unborn"
    BY <1>1, PhaseOf DEF SetInitial
  <2>2. phase' = phase
    BY <1>1 DEF SetInitial, Phase
  <2>3. db' = [db EXCEPT ![k] = v]
    BY <1>1, SeedData
  <2>4. copy' = copy /\ dirty' = dirty
    BY <1>1 DEF SetInitial, Live, CopyOf, DirtyOf
  <2> QED
    BY <1>1, <2>1, <2>2, <2>3, <2>4 DEF SetInitial, Snapshot!Seed, CopyOf, DirtyOf
<1>2. ASSUME NEW t \in Txn, NEW k \in Key, ReadSnapshot(t, k)
      PROVE  Snapshot!Show(t, k)
  <2>1. Live(t) /\ phase[t] = "running"
    BY <1>2, PhaseOf DEF ReadSnapshot, Live
  <2>2. \A u \in Txn : Phase(u)' = Phase(u) /\ Live(u)' = Live(u)
    BY <1>2 DEF ReadSnapshot, Phase, Live
  <2>3. UNCHANGED <<phase, db, copy, dirty, writes>>
    BY <1>2, <2>2, SnapshotUnchanged DEF ReadSnapshot, Latest
  <2>4. copy[t][k] = VisibleAt(snapshot[t], k)
    BY <2>1 DEF CopyOf
  <2>5. seen' = [seen EXCEPT ![t][k] = @ \cup {copy[t][k]}]
    BY <1>2, <2>4 DEF ReadSnapshot
  <2> HIDE DEF phase, db
  <2> QED
    BY <2>1, <2>3, <2>5 DEF Snapshot!Show, CopyOf, DirtyOf, phase, db
<1>3. ASSUME NEW t \in Txn, NEW r \in Request, AccessAgain(t, r)
      PROVE  Snapshot!Next
  <2>1. Live(t) /\ \A u \in Txn : Phase(u)' = Phase(u) /\ Live(u)' = Live(u)
    BY <1>3 DEF AccessAgain, AccessHeld, Live, Phase
  <2>2. r.mode = "X"
    BY <1>3, RequestFields DEF AccessAgain
  <2> QED
    BY <1>3, <2>1, <2>2, SnapshotAccess DEF AccessAgain, AccessHeld
<1>4. ASSUME NEW t \in Txn, NEW r \in Request, Loop(t, r, Grant(t, r))
      PROVE  Snapshot!Next
  <2>1. Live(t)
    BY <1>4, TryingLacks DEF Loop
  <2>2. \A u \in Txn : Phase(u)' = Phase(u) /\ Live(u)' = Live(u)
    BY <1>4, <2>1 DEF Loop, Grant, Phase, Live, TypeOK
  <2>3. r.mode = "X"
    BY <1>4, RequestFields DEF Loop, Trying, OnlyWritersWait, Waiting
  <2> QED
    BY <1>4, <2>1, <2>2, <2>3, SnapshotAccess DEF Loop, Grant
<1>5. ASSUME NEW t \in Txn, NEW r \in Request,
             Loop(t, r, Deadlock(t, r)) \/ Loop(t, r, Sleep(t, r))
      PROVE  UNCHANGED Snapshot!vars
  <2>1. Live(t)
    BY <1>5, TryingLacks DEF Loop
  <2>2. \A u \in Txn : Phase(u)' = Phase(u) /\ Live(u)' = Live(u)
    BY <1>5, <2>1 DEF Loop, Deadlock, Sleep, Phase, Live, TypeOK
  <2> QED
    BY <1>5, <2>2, SnapshotStutter DEF Loop, Deadlock, Sleep
<1>6. ASSUME NEW t \in Txn, Begin(t)
      PROVE  Snapshot!Begin(t)
  <2>1. phase[t] = "unborn"
    BY <1>6, PhaseOf DEF Begin
  <2>2. phase' = [phase EXCEPT ![t] = "running"]
    BY <1>6 DEF Begin, Phase, TypeOK
  <2>3. db' = db
    BY <1>6 DEF Begin, Latest
  <2>4. ~Live(t) /\ Live(t)' /\ snapshot'[t] = commit_clock
    BY <1>6 DEF Begin, Live, TypeOK
  <2>5. CopyOf(t)' = db
    <3>1. \A k \in Key : VisibleAt(snapshot[t], k)' = VisibleAt(commit_clock, k)
      BY <1>6, <2>4 DEF Begin, VisibleAt
    <3> QED
      BY <2>4, <3>1, VisibleNow DEF CopyOf
  <2>6. DirtyOf(t)' = {} /\ DirtyOf(t) = {}
    <3>1. ASSUME NEW k \in Key, CommittedSince(t, k)'
          PROVE  FALSE
      <4>1. PICK h \in Seq(Version) : h = history[k] /\ h # <<>>
        BY <1>6, <3>1 DEF Begin, CommittedSince, TypeOK
      <4>2. Len(h) \in 1 .. Len(h)
        BY <4>1
      <4>3. h[Len(h)].commit_ts <= commit_clock
        BY <4>1, <4>2 DEF DataInv, VersionsAscend
      <4>4. h[Len(h)].commit_ts \in Nat /\ commit_clock \in Nat
        <5>1. h[Len(h)] \in Version
          BY <4>1, <4>2
        <5> QED
          BY <5>1 DEF Version, TypeOK
      <4>5. h[Len(h)].commit_ts > commit_clock
        BY <1>6, <2>4, <3>1, <4>1 DEF Begin, CommittedSince
      <4> QED
        BY <4>3, <4>4, <4>5
    <3> QED
      BY <2>4, <3>1 DEF DirtyOf
  <2>7. \A u \in Txn \ {t} : CopyOf(u)' = CopyOf(u) /\ DirtyOf(u)' = DirtyOf(u)
    <3>1. \A u \in Txn \ {t} : snapshot'[u] = snapshot[u] /\ Live(u)' = Live(u)
      BY <1>6 DEF Begin, Live, TypeOK
    <3> QED
      BY <1>6, <3>1 DEF Begin, CopyOf, DirtyOf, VisibleAt, CommittedSince
  <2>8. copy' = [copy EXCEPT ![t] = db] /\ dirty' = dirty
    BY <2>5, <2>6, <2>7
  <2> HIDE DEF phase, db
  <2> QED
    BY <1>6, <2>1, <2>2, <2>3, <2>8
       DEF Begin, Snapshot!Begin, CopyOf, DirtyOf, phase, db
<1>7. ASSUME NEW t \in Txn, SpuriousWake(t)
      PROVE  UNCHANGED Snapshot!vars
  <2>1. \A u \in Txn : Phase(u)' = Phase(u) /\ Live(u)' = Live(u)
    BY <1>7 DEF SpuriousWake, Phase, Live, TypeOK
  <2> QED
    BY <1>7, <2>1, SnapshotStutter DEF SpuriousWake
<1>8. ASSUME NEW t \in Txn, Commit(t)
      PROVE  Snapshot!Commit(t)
  BY <1>8, SnapshotCommit
<1>9. ASSUME NEW t \in Txn, CommitConflict(t)
      PROVE  Snapshot!Abort(t)
  BY <1>9, SnapshotAbort DEF CommitConflict, Live
<1>10. ASSUME NEW t \in Txn, Abort(t)
       PROVE  Snapshot!Abort(t) \/ UNCHANGED Snapshot!vars
  <2>1. CASE Live(t)
    BY <1>10, <2>1, SnapshotAbort DEF Abort
  <2>2. CASE status[t] = "conflict"
    <3>1. ~Live(t)
      BY <2>2 DEF Live
    <3>2. \A k \in Key : writes[t][k] = Unset
      BY <3>1 DEF LockInv, WritesAreLocked, LockTablesAgree, OnlyLiveHold
    <3>3. \A k \in Key : seen[t][k] = {}
      BY <3>1 DEF DataInv, OnlyLiveSaw
    <3>4. writes' = writes /\ seen' = seen /\ snapshot' = snapshot
      BY <1>10, <3>2, <3>3 DEF Abort, EndAs, NoWrites, NoReads, TypeOK
    <3>5. \A u \in Txn : Phase(u)' = Phase(u)
      BY <1>10, <2>2, PhasesAtEnd, PhaseOf DEF Abort
    <3>6. \A u \in Txn : Live(u)' = Live(u)
      BY <1>10, <3>1 DEF Abort, EndAs, NotifyAll, Live
    <3> QED
      BY <1>10, <3>4, <3>5, <3>6, SnapshotStutter DEF Abort
  <2> QED
    BY <1>10, <2>1, <2>2 DEF Abort, Live
<1>11. CASE UNCHANGED vars
  <2>1. \A u \in Txn : Phase(u)' = Phase(u) /\ Live(u)' = Live(u)
    BY <1>11 DEF vars, Phase, Live
  <2> QED
    BY <1>11, <2>1, SnapshotStutter DEF vars
<1> HIDE DEF phase, db, copy, dirty
<1>12. CASE Next
  BY <1>1, <1>2, <1>3, <1>4, <1>5, <1>6, <1>7, <1>8, <1>9, <1>10, <1>12,
     StepCases DEF Snapshot!Next
<1> QED
  BY <1>11, <1>12

\* MVCC is snapshot isolation: every transaction reads the store as it was
\* when it began, and none overwrites a commit it has not seen.
THEOREM SnapshotIsolationUnderMVCC ==
    ASSUME Mode = "MVCC"
    PROVE  Spec => SnapshotIsolated
<1>1. Init => Snapshot!Init /\ OnlyWritersWait
  BY DEF Init, Snapshot!Init, Snapshot!Nothing, Snapshot!Unread, Snapshot!Empty,
         NoWrites, NoReads, Latest, Phase, Live, OnlyWritersWait, Waiting
<1>2. TypeOK /\ OnlyWritersWait /\ [Next]_vars => OnlyWritersWait'
  BY OnlyWritersWaitStep
<1>3. TypeOK /\ LockInv /\ DataInv /\ OnlyWritersWait /\ [Next]_vars
         => [Snapshot!Next]_(Snapshot!vars)
  BY SnapshotStep
<1> QED
  BY <1>1, <1>2, <1>3, StoreInvariant, PTL DEF Spec, Snapshot!Spec, SnapshotIsolated
==============================================================================
