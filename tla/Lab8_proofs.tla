------------------------------ MODULE Lab8_proofs ------------------------------
(***************************************************************************)
(* Proofs about the transaction manager of LAB-8, for any number of        *)
(* transactions, keys and calls.                                           *)
(***************************************************************************)
EXTENDS Lab8Props, WaitsFor_proofs, WellFoundedInduction, TLAPS

-------------------------------------------------------------------------------
(* Kept: what is left of a queue, and in which order.  The facts are shown  *)
(* by looking for the least counterexample.                                 *)

LEMMA LeastElement ==
    ASSUME NEW S \in SUBSET Nat, S # {}
    PROVE  \E n \in S : \A m \in S : n <= m
<1>1. PICK x \in S : \A y \in S : ~(<<y, x>> \in OpToRel(<, Nat))
  BY WFMin, NatLessThanWellFounded
<1>2. \A y \in S : ~(y < x)
  BY <1>1 DEF OpToRel
<1> QED
  BY <1>2

\* f[n] is what Kept makes of the first n requests, for n up to m.
KeptUpto(q, keep, m, f) ==
    f = [n \in 0 .. m |->
           IF n = 0 THEN <<>>
           ELSE IF n \in keep THEN Append(f[n - 1], q[n]) ELSE f[n - 1]]

LEMMA KeptUptoExists ==
    ASSUME NEW q, NEW keep, NEW len \in Nat
    PROVE  \E f : KeptUpto(q, keep, len, f)
<1> DEFINE without == {n \in Nat : ~ \E f : KeptUpto(q, keep, n, f)}
<1> SUFFICES ASSUME without # {} PROVE FALSE
  OBVIOUS
<1>1. PICK n \in without : \A m \in without : n <= m
  <2> HIDE DEF without
  <2>1. without \in SUBSET Nat
    BY DEF without
  <2> QED
    BY <2>1, LeastElement
<1>2. n \in Nat /\ ~ \E f : KeptUpto(q, keep, n, f)
  OBVIOUS
<1>3. CASE n = 0
  <2>1. KeptUpto(q, keep, 0, [i \in 0 .. 0 |-> <<>>])
    BY DEF KeptUpto
  <2> QED
    BY <1>2, <1>3, <2>1
<1>4. CASE n # 0
  <2>1. n - 1 \in Nat /\ n - 1 \notin without
    BY <1>1, <1>2, <1>4
  <2>2. PICK f : KeptUpto(q, keep, n - 1, f)
    BY <2>1
  <2> DEFINE last == IF n \in keep THEN Append(f[n - 1], q[n]) ELSE f[n - 1]
             g == [i \in 0 .. n |-> IF i < n THEN f[i] ELSE last]
  <2> HIDE DEF without
  <2>3. /\ g[n] = last
        /\ \A i \in 0 .. n - 1 : g[i] = f[i]
    BY <1>2
  <2>4. ASSUME NEW i \in 0 .. n - 1
        PROVE  f[i] = IF i = 0 THEN <<>>
                      ELSE IF i \in keep THEN Append(f[i - 1], q[i]) ELSE f[i - 1]
    BY <2>2 DEF KeptUpto
  <2> HIDE DEF g, last
  <2>5. ASSUME NEW i \in 0 .. n
        PROVE  g[i] = IF i = 0 THEN <<>>
                      ELSE IF i \in keep THEN Append(g[i - 1], q[i]) ELSE g[i - 1]
    <3>1. CASE i = n
      <4>1. g[n - 1] = f[n - 1]
        BY <1>2, <1>4, <2>3
      <4> QED
        BY <1>4, <2>3, <3>1, <4>1 DEF last
    <3>2. CASE i # n /\ i # 0
      <4>1. i \in 0 .. n - 1 /\ i - 1 \in 0 .. n - 1
        BY <1>2, <3>2
      <4> QED
        BY <2>3, <2>4, <3>2, <4>1
    <3>3. CASE i # n /\ i = 0
      BY <1>2, <1>4, <2>3, <2>4, <3>3
    <3> QED
      BY <3>1, <3>2, <3>3
  <2>6. g = [i \in 0 .. n |-> g[i]]
    BY DEF g
  <2>7. KeptUpto(q, keep, n, g)
    BY <2>5, <2>6 DEF KeptUpto
  <2> QED
    BY <1>2, <2>7
<1> QED
  BY <1>3, <1>4

LEMMA KeptIsLast ==
    ASSUME NEW q, NEW keep, Len(q) \in Nat
    PROVE  \E f : KeptUpto(q, keep, Len(q), f) /\ Kept(q, keep) = f[Len(q)]
<1>1. \E f : KeptUpto(q, keep, Len(q), f)
  BY KeptUptoExists
<1> QED
  BY <1>1 DEF Kept, KeptUpto

\* r consists of the first n requests of q at positions in keep, in their order.
Picked(q, keep, n, r) ==
    \E pos \in [1 .. Len(r) -> 1 .. n] :
        /\ \A i \in 1 .. Len(r) : pos[i] \in keep /\ r[i] = q[pos[i]]
        /\ \A i, j \in 1 .. Len(r) : i < j => pos[i] < pos[j]
        /\ \A j \in 1 .. n : j \in keep => \E i \in 1 .. Len(r) : pos[i] = j

LEMMA PickedMore ==
    ASSUME NEW T, NEW q \in Seq(T), NEW keep, NEW n \in 1 .. Len(q),
           NEW r \in Seq(T), Picked(q, keep, n - 1, r)
    PROVE  /\ n \in keep => Append(r, q[n]) \in Seq(T) /\ Picked(q, keep, n, Append(r, q[n]))
           /\ n \notin keep => Picked(q, keep, n, r)
<1>1. PICK pos \in [1 .. Len(r) -> 1 .. n - 1] :
          /\ \A i \in 1 .. Len(r) : pos[i] \in keep /\ r[i] = q[pos[i]]
          /\ \A i, j \in 1 .. Len(r) : i < j => pos[i] < pos[j]
          /\ \A j \in 1 .. n - 1 : j \in keep => \E i \in 1 .. Len(r) : pos[i] = j
  BY DEF Picked
<1>2. Len(q) \in Nat /\ Len(r) \in Nat /\ n \in Nat /\ q[n] \in T
  OBVIOUS
<1>3. CASE n \notin keep
  <2>1. pos \in [1 .. Len(r) -> 1 .. n]
    BY <1>1, <1>2
  <2>2. \A j \in 1 .. n : j \in keep => j \in 1 .. n - 1
    BY <1>2, <1>3
  <2>3. \A j \in 1 .. n : j \in keep => \E i \in 1 .. Len(r) : pos[i] = j
    BY <1>1, <2>2
  <2>4. Picked(q, keep, n, r)
    BY <1>1, <2>1, <2>3 DEF Picked
  <2> QED
    BY <1>3, <2>4
<1>4. CASE n \in keep
  <2> DEFINE more == Append(r, q[n])
             last == Len(r) + 1
             next == [i \in 1 .. last |-> IF i = last THEN n ELSE pos[i]]
  <2>1. /\ more \in Seq(T) /\ Len(more) = last
        /\ more[last] = q[n] /\ \A i \in 1 .. Len(r) : more[i] = r[i]
    BY <1>2
  <2>2. /\ next[last] = n
        /\ \A i \in 1 .. Len(r) : next[i] = pos[i] /\ pos[i] \in 1 .. n - 1
        /\ \A i \in 1 .. last : i = last \/ i \in 1 .. Len(r)
        /\ last \in 1 .. last
    BY <1>1, <1>2
  <2>3. next \in [1 .. last -> 1 .. n]
    BY <1>1, <1>2
  <2> HIDE DEF next, more
  <2>4. \A i \in 1 .. last : next[i] \in keep /\ more[i] = q[next[i]]
    BY <1>1, <1>4, <2>1, <2>2
  <2>5. ASSUME NEW i \in 1 .. last, NEW j \in 1 .. last, i < j
        PROVE  next[i] < next[j]
    <3>1. i \in 1 .. Len(r)
      BY <1>2, <2>5
    <3>2. CASE j = last
      BY <1>2, <2>2, <3>1, <3>2
    <3>3. CASE j \in 1 .. Len(r)
      BY <1>1, <2>2, <2>5, <3>1, <3>3
    <3> QED
      BY <2>2, <3>2, <3>3
  <2>6. ASSUME NEW j \in 1 .. n, j \in keep
        PROVE  \E i \in 1 .. last : next[i] = j
    <3>1. CASE j = n
      BY <2>2, <3>1
    <3>2. CASE j # n
      <4>1. PICK i \in 1 .. Len(r) : pos[i] = j
        BY <1>1, <1>2, <2>6, <3>2
      <4> QED
        BY <1>2, <2>2, <4>1
    <3> QED
      BY <3>1, <3>2
  <2>7. Picked(q, keep, n, more)
    <3>1. Len(more) = last
      BY <2>1
    <3> HIDE DEF last
    <3>2. /\ next \in [1 .. Len(more) -> 1 .. n]
          /\ \A i \in 1 .. Len(more) : next[i] \in keep /\ more[i] = q[next[i]]
          /\ \A i, j \in 1 .. Len(more) : i < j => next[i] < next[j]
          /\ \A j \in 1 .. n : j \in keep => \E i \in 1 .. Len(more) : next[i] = j
      BY <2>3, <2>4, <2>5, <2>6, <3>1
    <3> QED
      BY <3>2 DEF Picked
  <2> QED
    BY <1>4, <2>1, <2>7 DEF more
<1> QED
  BY <1>3, <1>4

LEMMA KeptPicks ==
    ASSUME NEW T, NEW q \in Seq(T), NEW keep
    PROVE  Kept(q, keep) \in Seq(T) /\ Picked(q, keep, Len(q), Kept(q, keep))
<1>1. Len(q) \in Nat
  OBVIOUS
<1>2. PICK f : KeptUpto(q, keep, Len(q), f) /\ Kept(q, keep) = f[Len(q)]
  BY <1>1, KeptIsLast
<1> DEFINE wrong == {n \in 0 .. Len(q) : ~(f[n] \in Seq(T) /\ Picked(q, keep, n, f[n]))}
<1> SUFFICES ASSUME wrong # {} PROVE FALSE
  BY <1>1, <1>2
<1>3. PICK n \in wrong : \A m \in wrong : n <= m
  <2>1. wrong \in SUBSET Nat
    OBVIOUS
  <2> HIDE DEF wrong
  <2> QED
    BY <2>1, LeastElement
<1>4. n \in 0 .. Len(q) /\ ~(f[n] \in Seq(T) /\ Picked(q, keep, n, f[n]))
  OBVIOUS
<1>5. f[n] = IF n = 0 THEN <<>>
             ELSE IF n \in keep THEN Append(f[n - 1], q[n]) ELSE f[n - 1]
  BY <1>2, <1>4 DEF KeptUpto
<1>6. CASE n = 0
  <2>1. f[n] = <<>> /\ f[n] \in Seq(T) /\ Len(f[n]) = 0
    BY <1>5, <1>6
  <2>2. <<>> \in [1 .. Len(f[n]) -> 1 .. n]
    BY <1>6, <2>1
  <2>3. 1 .. Len(f[n]) = {} /\ 1 .. n = {}
    BY <1>6, <2>1
  <2>4. Picked(q, keep, n, f[n])
    BY <2>2, <2>3 DEF Picked
  <2> QED
    BY <1>4, <2>1, <2>4
<1>7. CASE n # 0
  <2>1. n \in 1 .. Len(q) /\ n - 1 \in 0 .. Len(q) /\ n - 1 \notin wrong
    BY <1>1, <1>3, <1>4, <1>7
  <2>2. f[n - 1] \in Seq(T) /\ Picked(q, keep, n - 1, f[n - 1])
    BY <2>1
  <2> HIDE DEF wrong
  <2> QED
    BY <1>4, <1>5, <1>7, <2>1, <2>2, PickedMore
<1> QED
  BY <1>6, <1>7

-------------------------------------------------------------------------------
(* The inductive invariant.                                                 *)

USE MaxXidAssumption, OpAssumption, MaxCallsAssumption

Running == {"idle", "asleep", "woken", "locked", "scanning", "victim"}

\* A transaction's status and its thread tell the same, and numbers not given
\* out yet belong to nobody.
StatusTold ==
    /\ \A t \in Xid : tx_status[t] = "ACTIVE" <=> pc[t] \in Running
    /\ \A t \in Xid : t >= next_xid => tx_status[t] = "unborn"

\* One thread scans, and it is at a version of its key.
OneScanner ==
    /\ \A t \in Xid : pc[t] \in {"locked", "scanning"} => call[t] \in Call
    /\ \A t, u \in Xid : pc[t] = "scanning" /\ pc[u] = "scanning" => t = u
    /\ \A t \in Xid : pc[t] = "scanning" => at \in 1 .. Len(heap[call[t].key])
    /\ \A k \in Key : heap[k] # <<>>

IInv == TypeOK /\ StatusTold /\ OneScanner

LEMMA InitInv == Init => IInv
<1> SUFFICES ASSUME Init PROVE IInv
  OBVIOUS
<1>1. Loader \in Xid /\ Loader + 1 \in 1 .. MaxXid + 1
  BY DEF Xid, Loader
<1>2. [xmin |-> Loader, xmax |-> None] \in Version
  BY <1>1 DEF Version
<1>3. \A t \in Xid : pc[t] \in {"ended", "unborn"}
  BY DEF Init
<1>4. heap \in [Key -> Seq(Version)] /\ \A k \in Key : heap[k] # <<>>
  <2>1. <<[xmin |-> Loader, xmax |-> None]>> \in Seq(Version)
    BY <1>2
  <2>2. <<[xmin |-> Loader, xmax |-> None]>> # <<>>
    OBVIOUS
  <2> QED
    BY <2>1, <2>2 DEF Init
<1>5. queue \in [Key -> Seq(LockRequest)] /\ \A k \in Key : queue[k] = <<>>
  BY DEF Init
<1>6. HeapFree
  BY <1>3 DEF HeapFree
<1>7. Types
  BY <1>1, <1>4, <1>5, <1>6 DEF Init, Types
<1>8. OnePending
  BY <1>3, <1>5 DEF OnePending, Waiting
<1>9. StatusTold
  BY <1>1 DEF Init, StatusTold, Running, Xid, Loader
<1>10. OneScanner
  BY <1>3, <1>4 DEF OneScanner
<1> QED
  BY <1>7, <1>8, <1>9, <1>10 DEF IInv, TypeOK

-------------------------------------------------------------------------------
(* The steps.                                                               *)

\* Request without a need for the loop.
Holding(t, op, k) ==
    /\ pc[t] = "idle"
    /\ calls[t] < MaxCalls
    /\ calls' = [calls EXCEPT ![t] = @ + 1]
    /\ call' = [call EXCEPT ![t] = [op |-> op, key |-> k]]
    /\ pc' = [pc EXCEPT ![t] = "locked"]
    /\ UNCHANGED <<next_xid, tx_status, data, locks, to_release, at, overtaken, snapshot>>

\* Request i of queue q is the one that t has pending; the others are as before.
Enqueued(t, k, q, i) ==
    /\ q \in Seq(LockRequest)
    /\ i \in DOMAIN q
    /\ q[i].xid = t /\ ~q[i].granted
    /\ \A j \in DOMAIN q : q[j].xid = t /\ ~q[j].granted => j = i
    /\ \A j \in DOMAIN queue[k] : j \in DOMAIN q /\ q[j] = queue[k][j]
    /\ \A j \in DOMAIN q : j \in DOMAIN queue[k] \/ j = i
    /\ \A j \in Key \ {k} : \A n \in DOMAIN queue[j] :
           ~queue[j][n].granted => queue[j][n].xid # t

\* Request or Resume, in the loop.
Loop(t, k, q, i) ==
    /\ pc[t] \in {"idle", "woken"}
    /\ Enqueued(t, k, q, i)
    /\ Attempt(t, k, q, i)
    /\ call' \in [Xid -> Call \cup {NoCall}]
    /\ call'[t] \in Call /\ call'[t].key = k
    /\ \A u \in Xid \ {t} : call'[u] = call[u]
    /\ calls' \in [Xid -> 0 .. MaxCalls]
    /\ UNCHANGED <<next_xid, tx_status, data, to_release, at, overtaken, snapshot>>

LEMMA RequestLoops ==
    ASSUME IInv, NEW t \in Xid, NEW op \in Op, NEW k \in Key, Request(t, op, k)
    PROVE  Holding(t, op, k) \/ \E q, i : Loop(t, k, q, i)
<1> DEFINE new == [xid |-> t, mode |-> ModeOf(op), granted |-> FALSE]
           q == Append(queue[k], new)
           n == Len(queue[k])
<1>1. CASE AlreadyHolds(k, t, ModeOf(op))
  BY <1>1 DEF Request, Holding
<1>2. CASE ~AlreadyHolds(k, t, ModeOf(op))
  <2>1. /\ Attempt(t, k, q, n + 1)
        /\ pc[t] = "idle"
        /\ calls[t] < MaxCalls
        /\ calls' = [calls EXCEPT ![t] = @ + 1]
        /\ call' = [call EXCEPT ![t] = [op |-> op, key |-> k]]
        /\ UNCHANGED <<next_xid, tx_status, data, to_release, at, overtaken, snapshot>>
    BY <1>2 DEF Request
  <2>2. /\ call \in [Xid -> Call \cup {NoCall}]
        /\ calls \in [Xid -> 0 .. MaxCalls]
        /\ queue[k] \in Seq(LockRequest)
    BY DEF IInv, TypeOK, Types
  <2>3. /\ call' \in [Xid -> Call \cup {NoCall}]
        /\ call'[t] \in Call /\ call'[t].key = k
        /\ \A u \in Xid \ {t} : call'[u] = call[u]
    BY <2>1, <2>2 DEF Call
  <2>4. calls' \in [Xid -> 0 .. MaxCalls]
    BY <2>1, <2>2
  <2>5. \A j \in Key : \A m \in DOMAIN queue[j] :
           ~queue[j][m].granted => queue[j][m].xid # t
    BY <2>1 DEF IInv, TypeOK, OnePending, Waiting
  <2>6. new \in LockRequest
    BY DEF LockRequest, ModeOf
  <2>7. /\ q \in Seq(LockRequest) /\ n + 1 \in DOMAIN q /\ q[n + 1] = new
        /\ \A j \in DOMAIN queue[k] : j \in DOMAIN q /\ q[j] = queue[k][j]
        /\ \A j \in DOMAIN q : j \in DOMAIN queue[k] \/ j = n + 1
    BY <2>2, <2>6
  <2> HIDE DEF q, n
  <2>8. Enqueued(t, k, q, n + 1)
    BY <2>5, <2>7 DEF Enqueued
  <2>9. Loop(t, k, q, n + 1)
    BY <2>1, <2>3, <2>4, <2>8 DEF Loop
  <2> QED
    BY <2>9
<1> QED
  BY <1>1, <1>2

LEMMA PendingIs ==
    ASSUME NEW t, NEW k, NEW i \in DOMAIN queue[k],
           queue[k][i].xid = t, ~queue[k][i].granted,
           \A j \in DOMAIN queue[k] : queue[k][j].xid = t /\ ~queue[k][j].granted => j = i
    PROVE  Pending(t, k) = i
BY DEF Pending

LEMMA ResumeLoops ==
    ASSUME IInv, NEW t \in Xid, Resume(t)
    PROVE  \E k \in Key : \E q, i : Loop(t, k, q, i)
<1> DEFINE k == call[t].key
           q == queue[k]
<1>1. /\ pc[t] = "woken"
      /\ Attempt(t, k, q, Pending(t, k))
      /\ UNCHANGED <<next_xid, tx_status, data, call, to_release, at, overtaken, calls, snapshot>>
  BY DEF Resume
<1>2. Waiting(t) /\ OnePending
  BY <1>1 DEF Waiting, IInv, TypeOK
<1>3. /\ call \in [Xid -> Call \cup {NoCall}] /\ call[t] \in Call /\ k \in Key
      /\ calls \in [Xid -> 0 .. MaxCalls]
      /\ q \in Seq(LockRequest)
  <2>1. call \in [Xid -> Call \cup {NoCall}] /\ call[t] # NoCall
    BY <1>2 DEF IInv, TypeOK, Types, OnePending
  <2>2. call[t] \in Call /\ k \in Key
    BY <2>1 DEF Call
  <2> QED
    BY <2>1, <2>2 DEF IInv, TypeOK, Types
<1>4. PICK i \in DOMAIN q : q[i].xid = t /\ ~q[i].granted
  BY <1>2 DEF OnePending
<1>5. \A j \in DOMAIN q : q[j].xid = t /\ ~q[j].granted => j = i
  BY <1>2, <1>3, <1>4 DEF OnePending
<1>6. Pending(t, k) = i
  BY <1>4, <1>5, PendingIs
<1>7. \A j \in Key \ {k} : \A n \in DOMAIN queue[j] :
         ~queue[j][n].granted => queue[j][n].xid # t
  BY <1>2 DEF OnePending
<1>8. Enqueued(t, k, q, i)
  BY <1>3, <1>4, <1>5, <1>7 DEF Enqueued
<1>9. Loop(t, k, q, i)
  BY <1>1, <1>3, <1>6, <1>8 DEF Loop
<1> QED
  BY <1>3, <1>9

LEMMA StepCases ==
    ASSUME IInv, Next
    PROVE  \/ begin_transaction
           \/ \E t \in Xid :
                 \/ \E op \in Op, k \in Key : Holding(t, op, k)
                 \/ \E k \in Key : \E q, i : Loop(t, k, q, i)
                 \/ mvcc_insert(t) \/ Found(t) \/ Passed(t) \/ NotFound(t)
                 \/ SpuriousWake(t) \/ Commit(t) \/ Abort(t)
                 \/ \E k \in Key : Release(t, k)
<1>1. ASSUME NEW t \in Xid, \E op \in Op, k \in Key : Request(t, op, k)
      PROVE  \/ \E op \in Op, k \in Key : Holding(t, op, k)
             \/ \E k \in Key : \E q, i : Loop(t, k, q, i)
  BY <1>1, RequestLoops
<1> QED
  BY <1>1, ResumeLoops DEF Next, Step, Apply, ReleaseSome

-------------------------------------------------------------------------------
(* Requests of waiting threads.                                             *)

LEMMA QueueType ==
    ASSUME IInv, NEW k \in Key
    PROVE  /\ queue[k] \in Seq(LockRequest)
           /\ \A i \in DOMAIN queue[k] : queue[k][i].xid \in Xid
<1>1. queue[k] \in Seq(LockRequest)
  BY DEF IInv, TypeOK, Types
<1>2. ASSUME NEW i \in DOMAIN queue[k]
      PROVE  queue[k][i] \in LockRequest
  BY <1>1
<1> QED
  BY <1>1, <1>2 DEF LockRequest

LEMMA SameWaiters ==
    ASSUME IInv, queue' = queue,
           \A u \in Xid : pc'[u] \in {"asleep", "woken"} <=> Waiting(u),
           \A u \in Xid : Waiting(u) => call'[u] = call[u]
    PROVE  OnePending'
<1>1. OnePending
  BY DEF IInv, TypeOK
<1>2. ASSUME NEW k \in Key, NEW i \in DOMAIN queue[k], ~queue[k][i].granted
      PROVE  /\ pc'[queue[k][i].xid] \in {"asleep", "woken"}
             /\ call'[queue[k][i].xid].key = k
  BY <1>1, <1>2, QueueType DEF OnePending
<1>3. ASSUME NEW u \in Xid, pc'[u] \in {"asleep", "woken"}
      PROVE  Waiting(u) /\ call'[u] = call[u]
  BY <1>3
<1> QED
  BY <1>1, <1>2, <1>3 DEF OnePending, Waiting

\* What KeptPicks says, by positions.
LEMMA KeptPending ==
    ASSUME NEW q \in Seq(LockRequest), NEW keep, NEW r, r = Kept(q, keep)
    PROVE  /\ r \in Seq(LockRequest)
           /\ \E pos \in [DOMAIN r -> DOMAIN q] :
                /\ \A i \in DOMAIN r : pos[i] \in keep /\ r[i] = q[pos[i]]
                /\ \A i, j \in DOMAIN r : i < j => pos[i] < pos[j]
                /\ \A i, j \in DOMAIN r : pos[i] = pos[j] => i = j
                /\ \A j \in DOMAIN q : j \in keep => \E i \in DOMAIN r : pos[i] = j
<1>1. r \in Seq(LockRequest) /\ Picked(q, keep, Len(q), r)
  BY KeptPicks
<1>2. DOMAIN r = 1 .. Len(r) /\ DOMAIN q = 1 .. Len(q) /\ Len(r) \in Nat /\ Len(q) \in Nat
  BY <1>1
<1>3. PICK pos \in [1 .. Len(r) -> 1 .. Len(q)] :
          /\ \A i \in 1 .. Len(r) : pos[i] \in keep /\ r[i] = q[pos[i]]
          /\ \A i, j \in 1 .. Len(r) : i < j => pos[i] < pos[j]
          /\ \A j \in 1 .. Len(q) : j \in keep => \E i \in 1 .. Len(r) : pos[i] = j
  BY <1>1 DEF Picked
<1>4. ASSUME NEW i \in DOMAIN r, NEW j \in DOMAIN r, pos[i] = pos[j]
      PROVE  i = j
  <2>1. i \in Nat /\ j \in Nat /\ pos[i] \in Nat
    BY <1>2, <1>3
  <2>2. i < j \/ j < i \/ i = j
    BY <2>1
  <2>3. ~(pos[i] < pos[j]) /\ ~(pos[j] < pos[i])
    BY <1>4, <2>1
  <2> QED
    BY <1>2, <1>3, <2>2, <2>3
<1>5. /\ pos \in [DOMAIN r -> DOMAIN q]
      /\ \A i \in DOMAIN r : pos[i] \in keep /\ r[i] = q[pos[i]]
      /\ \A i, j \in DOMAIN r : i < j => pos[i] < pos[j]
      /\ \A j \in DOMAIN q : j \in keep => \E i \in DOMAIN r : pos[i] = j
  BY <1>2, <1>3
<1>6. \A i, j \in DOMAIN r : pos[i] = pos[j] => i = j
  BY <1>4
<1>7. \E p \in [DOMAIN r -> DOMAIN q] :
         /\ \A i \in DOMAIN r : p[i] \in keep /\ r[i] = q[p[i]]
         /\ \A i, j \in DOMAIN r : i < j => p[i] < p[j]
         /\ \A i, j \in DOMAIN r : p[i] = p[j] => i = j
         /\ \A j \in DOMAIN q : j \in keep => \E i \in DOMAIN r : p[i] = j
  <2> WITNESS pos \in [DOMAIN r -> DOMAIN q]
  <2> QED
    BY <1>5, <1>6
<1> QED
  BY <1>1, <1>7

\* The requests that others have pending in the queue of k are in r once, and no
\* others are.
OthersIn(t, k, r) ==
    /\ \A i \in DOMAIN r : ~r[i].granted =>
           \E j \in DOMAIN queue[k] : queue[k][j] = r[i] /\ r[i].xid # t
    /\ \A i, j \in DOMAIN r :
           r[i].xid = r[j].xid /\ ~r[i].granted /\ ~r[j].granted => i = j
    /\ \A j \in DOMAIN queue[k] : queue[k][j].xid # t /\ ~queue[k][j].granted =>
           \E i \in DOMAIN r : r[i] = queue[k][j]

LEMMA OnePendingKept ==
    ASSUME IInv, NEW t \in Xid, NEW k \in Key, NEW r,
           queue' = [queue EXCEPT ![k] = r],
           \A j \in Key \ {k} : \A n \in DOMAIN queue[j] :
               ~queue[j][n].granted => queue[j][n].xid # t,
           \A u \in Xid \ {t} : pc'[u] \in {"asleep", "woken"} <=> Waiting(u),
           \A u \in Xid \ {t} : call'[u] = call[u],
           pc'[t] \notin {"asleep", "woken"},
           OthersIn(t, k, r)
    PROVE  OnePending'
<1>1. /\ queue'[k] = r
      /\ \A j \in Key \ {k} : queue'[j] = queue[j]
  BY DEF IInv, TypeOK, Types
<1>2. OnePending
  BY DEF IInv, TypeOK
<1>3. ASSUME NEW n \in Key, NEW i \in DOMAIN queue'[n], ~queue'[n][i].granted
      PROVE  /\ pc'[queue'[n][i].xid] \in {"asleep", "woken"}
             /\ call'[queue'[n][i].xid].key = n
             /\ \A j \in DOMAIN queue'[n] :
                    queue'[n][j].xid = queue'[n][i].xid /\ ~queue'[n][j].granted => j = i
  <2>1. CASE n = k
    <3>1. PICK j \in DOMAIN queue[k] : queue[k][j] = r[i] /\ r[i].xid # t
      BY <1>1, <1>3, <2>1 DEF OthersIn
    <3>2. /\ r[i].xid \in Xid \ {t} /\ Waiting(r[i].xid) /\ call[r[i].xid].key = k
      BY <1>1, <1>2, <1>3, <2>1, <3>1, QueueType DEF OnePending
    <3>3. ASSUME NEW m \in DOMAIN r, r[m].xid = r[i].xid, ~r[m].granted
          PROVE  m = i
      BY <1>1, <1>3, <2>1, <3>3 DEF OthersIn
    <3>4. pc'[r[i].xid] \in {"asleep", "woken"} /\ call'[r[i].xid].key = k
      BY <3>2
    <3> QED
      BY <1>1, <2>1, <3>3, <3>4
  <2>2. CASE n # k
    <3>1. queue'[n] = queue[n]
      BY <1>1, <2>2
    <3>2. queue[n][i].xid \in Xid \ {t}
      BY <1>3, <2>2, <3>1, QueueType
    <3>3. /\ Waiting(queue[n][i].xid) /\ call[queue[n][i].xid].key = n
          /\ \A j \in DOMAIN queue[n] :
                 queue[n][j].xid = queue[n][i].xid /\ ~queue[n][j].granted => j = i
      BY <1>2, <1>3, <3>1 DEF OnePending
    <3> QED
      BY <3>1, <3>2, <3>3
  <2> QED
    BY <2>1, <2>2
<1>4. ASSUME NEW u \in Xid, pc'[u] \in {"asleep", "woken"}
      PROVE  /\ call'[u] # NoCall
             /\ \E i \in DOMAIN queue'[call'[u].key] :
                    queue'[call'[u].key][i].xid = u /\ ~queue'[call'[u].key][i].granted
  <2>1. u # t /\ Waiting(u) /\ call'[u] = call[u]
    BY <1>4
  <2>2. PICK j \in DOMAIN queue[call[u].key] :
            queue[call[u].key][j].xid = u /\ ~queue[call[u].key][j].granted
    BY <1>2, <2>1 DEF OnePending
  <2>3. call[u] # NoCall /\ call[u].key \in Key
    BY <1>2, <2>1 DEF OnePending, IInv, TypeOK, Types, Call
  <2>4. CASE call[u].key = k
    BY <1>1, <2>1, <2>2, <2>3, <2>4 DEF OthersIn
  <2>5. CASE call[u].key # k
    BY <1>1, <2>1, <2>2, <2>3, <2>5
  <2> QED
    BY <2>4, <2>5
<1> QED
  BY <1>3, <1>4 DEF OnePending, Waiting

\* The loop's three outcomes.
Granted(t, k, q, i) ==
    /\ Blocking(q, i) = {}
    /\ queue' = [queue EXCEPT ![k] = [q EXCEPT ![i].granted = TRUE]]
    /\ waits_for' = [waits_for EXCEPT ![t] = {}]
    /\ pc' = [pc EXCEPT ![t] = "locked"]

Victim(t, k, q, i) ==
    /\ queue' = [queue EXCEPT ![k] = Withdrawn(q, t)]
    /\ waits_for' = [waits_for EXCEPT ![t] = {}]
    /\ pc' = [pc EXCEPT ![t] = "victim"]

Sleeps(t, k, q, i) ==
    /\ Blocking(q, i) # {}
    /\ ~has_cycle([waits_for EXCEPT ![t] = Blocking(q, i)], t)
    /\ queue' = [queue EXCEPT ![k] = q]
    /\ waits_for' = [waits_for EXCEPT ![t] = Blocking(q, i)]
    /\ pc' = [pc EXCEPT ![t] = "asleep"]

LEMMA Outcomes ==
    ASSUME NEW t, NEW k, NEW q, NEW i, Attempt(t, k, q, i)
    PROVE  Granted(t, k, q, i) \/ Victim(t, k, q, i) \/ Sleeps(t, k, q, i)
BY DEF Attempt, Granted, Victim, Sleeps

\* Who waits in the queue that t has entered.
LEMMA EnqueuedPending ==
    ASSUME IInv, NEW t \in Xid, NEW k \in Key, NEW q, NEW i, Enqueued(t, k, q, i)
    PROVE  /\ \A j \in DOMAIN q : q[j] \in LockRequest
           /\ \A j \in DOMAIN q : j # i /\ ~q[j].granted =>
                 j \in DOMAIN queue[k] /\ queue[k][j] = q[j] /\ q[j].xid # t
           /\ \A j \in DOMAIN queue[k] : queue[k][j].xid # t =>
                 j \in DOMAIN q /\ j # i /\ q[j] = queue[k][j]
           /\ \A j, n \in DOMAIN q :
                 q[j].xid = q[n].xid /\ ~q[j].granted /\ ~q[n].granted => j = n
<1>1. \A j \in DOMAIN q : q[j] \in LockRequest
  <2>1. q \in Seq(LockRequest)
    BY DEF Enqueued
  <2> QED
    BY <2>1
<1>2. \A j \in DOMAIN q : j # i /\ ~q[j].granted =>
         j \in DOMAIN queue[k] /\ queue[k][j] = q[j] /\ q[j].xid # t
  BY DEF Enqueued
<1>3. \A j \in DOMAIN queue[k] : queue[k][j].xid # t =>
         j \in DOMAIN q /\ j # i /\ q[j] = queue[k][j]
  BY DEF Enqueued
<1>4. ASSUME NEW j \in DOMAIN q, NEW n \in DOMAIN q, q[j].xid = q[n].xid,
             ~q[j].granted, ~q[n].granted
      PROVE  j = n
  <2>1. CASE q[j].xid = t
    BY <1>4, <2>1 DEF Enqueued
  <2>2. CASE q[j].xid # t
    <3>1. j # i /\ n # i
      BY <1>4, <2>2 DEF Enqueued
    <3>2. j \in DOMAIN queue[k] /\ n \in DOMAIN queue[k] /\ queue[k][j] = q[j] /\ queue[k][n] = q[n]
      BY <1>2, <1>4, <3>1
    <3> QED
      BY <1>4, <3>2 DEF IInv, TypeOK, OnePending
  <2> QED
    BY <2>1, <2>2
<1> QED
  BY <1>1, <1>2, <1>3, <1>4

LEMMA OnePendingGranted ==
    ASSUME IInv, NEW t \in Xid, NEW k \in Key, NEW q, NEW i, Loop(t, k, q, i),
           Granted(t, k, q, i)
    PROVE  OnePending'
<1> DEFINE r == [q EXCEPT ![i].granted = TRUE]
<1>1. Enqueued(t, k, q, i)
  BY DEF Loop
<1>2. pc \in [Xid -> {"unborn", "idle", "asleep", "woken", "locked", "scanning",
                       "victim", "releasing", "ended"}]
  BY DEF IInv, TypeOK, Types
<1>3. /\ DOMAIN r = DOMAIN q
      /\ r[i].granted
      /\ \A j \in DOMAIN q : j # i => r[j] = q[j]
  <2>1. q \in Seq(LockRequest) /\ i \in DOMAIN q
    BY <1>1 DEF Enqueued
  <2>2. q[i] \in LockRequest
    BY <2>1
  <2>3. [q[i] EXCEPT !.granted = TRUE].granted
    BY <2>2 DEF LockRequest
  <2> QED
    BY <2>1, <2>3
<1>4. /\ queue' = [queue EXCEPT ![k] = r]
      /\ pc' = [pc EXCEPT ![t] = "locked"]
      /\ \A u \in Xid \ {t} : call'[u] = call[u]
      /\ \A j \in Key \ {k} : \A n \in DOMAIN queue[j] :
            ~queue[j][n].granted => queue[j][n].xid # t
  BY <1>1 DEF Granted, Loop, Enqueued
<1> HIDE DEF r
<1>5. /\ \A u \in Xid \ {t} : pc'[u] \in {"asleep", "woken"} <=> Waiting(u)
      /\ pc'[t] \notin {"asleep", "woken"}
  BY <1>2, <1>4 DEF Waiting
<1>6. \A j \in DOMAIN r : ~r[j].granted =>
         \E n \in DOMAIN queue[k] : queue[k][n] = r[j] /\ r[j].xid # t
  BY <1>1, <1>3, EnqueuedPending
<1>7. \A j, n \in DOMAIN r :
         r[j].xid = r[n].xid /\ ~r[j].granted /\ ~r[n].granted => j = n
  BY <1>1, <1>3, EnqueuedPending
<1>8. \A j \in DOMAIN queue[k] : queue[k][j].xid # t /\ ~queue[k][j].granted =>
         \E n \in DOMAIN r : r[n] = queue[k][j]
  BY <1>1, <1>3, EnqueuedPending
<1>9. OthersIn(t, k, r)
  BY <1>6, <1>7, <1>8 DEF OthersIn
<1> QED
  BY <1>4, <1>5, <1>9, OnePendingKept

LEMMA OnePendingVictim ==
    ASSUME IInv, NEW t \in Xid, NEW k \in Key, NEW q, NEW i, Loop(t, k, q, i),
           Victim(t, k, q, i)
    PROVE  OnePending'
<1> DEFINE keep == {j \in DOMAIN q : q[j].xid # t \/ q[j].granted}
           r == Kept(q, keep)
<1>1. Enqueued(t, k, q, i) /\ q \in Seq(LockRequest)
  BY DEF Loop, Enqueued
<1>2. pc \in [Xid -> {"unborn", "idle", "asleep", "woken", "locked", "scanning",
                       "victim", "releasing", "ended"}]
  BY DEF IInv, TypeOK, Types
<1>3. PICK pos \in [DOMAIN r -> DOMAIN q] :
         /\ \A j \in DOMAIN r : pos[j] \in keep /\ r[j] = q[pos[j]]
         /\ \A j, n \in DOMAIN r : pos[j] = pos[n] => j = n
         /\ \A j \in DOMAIN q : j \in keep => \E n \in DOMAIN r : pos[n] = j
  <2> HIDE DEF keep, r
  <2>1. r = Kept(q, keep)
    BY DEF r
  <2> QED
    BY <1>1, <2>1, KeptPending
<1>4. /\ queue' = [queue EXCEPT ![k] = r]
      /\ pc' = [pc EXCEPT ![t] = "victim"]
      /\ \A u \in Xid \ {t} : call'[u] = call[u]
      /\ \A j \in Key \ {k} : \A n \in DOMAIN queue[j] :
            ~queue[j][n].granted => queue[j][n].xid # t
  BY <1>1 DEF Victim, Withdrawn, Loop, Enqueued
<1>5. /\ \A u \in Xid \ {t} : pc'[u] \in {"asleep", "woken"} <=> Waiting(u)
      /\ pc'[t] \notin {"asleep", "woken"}
  BY <1>2, <1>4 DEF Waiting
<1> HIDE DEF r
<1>6. ASSUME NEW j \in DOMAIN r, ~r[j].granted
      PROVE  \E n \in DOMAIN queue[k] : queue[k][n] = r[j] /\ r[j].xid # t
  <2>1. pos[j] \in DOMAIN q /\ r[j] = q[pos[j]] /\ q[pos[j]].xid # t
    BY <1>3, <1>6
  <2>2. pos[j] # i
    BY <1>1, <2>1 DEF Enqueued
  <2> QED
    BY <1>1, <1>6, <2>1, <2>2, EnqueuedPending
<1>7. ASSUME NEW j \in DOMAIN r, NEW n \in DOMAIN r,
             r[j].xid = r[n].xid, ~r[j].granted, ~r[n].granted
      PROVE  j = n
  <2>1. pos[j] = pos[n]
    BY <1>1, <1>3, <1>7, EnqueuedPending
  <2> QED
    BY <1>3, <2>1
<1>8. ASSUME NEW j \in DOMAIN queue[k], queue[k][j].xid # t
      PROVE  \E n \in DOMAIN r : r[n] = queue[k][j]
  <2>1. j \in keep /\ q[j] = queue[k][j]
    BY <1>1, <1>8, EnqueuedPending
  <2> QED
    BY <1>3, <2>1
<1>9. OthersIn(t, k, r)
  BY <1>6, <1>7, <1>8 DEF OthersIn
<1> QED
  BY <1>4, <1>5, <1>9, OnePendingKept

LEMMA OnePendingSleeps ==
    ASSUME IInv, NEW t \in Xid, NEW k \in Key, NEW q, NEW i, Loop(t, k, q, i),
           Sleeps(t, k, q, i)
    PROVE  OnePending'
<1>1. Enqueued(t, k, q, i)
  BY DEF Loop
<1>2. /\ queue'[k] = q
      /\ \A j \in Key \ {k} : queue'[j] = queue[j]
      /\ pc'[t] = "asleep"
      /\ \A u \in Xid \ {t} : pc'[u] = pc[u] /\ call'[u] = call[u]
      /\ call'[t] \in Call /\ call'[t].key = k
  BY DEF Sleeps, Loop, IInv, TypeOK, Types
<1>3. OnePending
  BY DEF IInv, TypeOK
<1>4. ASSUME NEW n \in Key, NEW j \in DOMAIN queue'[n], ~queue'[n][j].granted
      PROVE  /\ pc'[queue'[n][j].xid] \in {"asleep", "woken"}
             /\ call'[queue'[n][j].xid].key = n
             /\ \A m \in DOMAIN queue'[n] :
                    queue'[n][m].xid = queue'[n][j].xid /\ ~queue'[n][m].granted => m = j
  <2>1. CASE n = k
    <3>1. \A m \in DOMAIN q : q[m].xid = q[j].xid /\ ~q[m].granted => m = j
      BY <1>1, <1>2, <1>4, <2>1, EnqueuedPending
    <3>2. CASE j = i
      BY <1>1, <1>2, <2>1, <3>1, <3>2 DEF Enqueued
    <3>3. CASE j # i
      <4>1. j \in DOMAIN queue[k] /\ queue[k][j] = q[j] /\ q[j].xid # t
        BY <1>1, <1>2, <1>4, <2>1, <3>3, EnqueuedPending
      <4>2. q[j].xid \in Xid \ {t} /\ Waiting(q[j].xid) /\ call[q[j].xid].key = k
        BY <1>2, <1>3, <1>4, <2>1, <4>1, QueueType DEF OnePending
      <4> QED
        BY <1>2, <2>1, <3>1, <4>2 DEF Waiting
    <3> QED
      BY <3>2, <3>3
  <2>2. CASE n # k
    <3>1. queue'[n] = queue[n] /\ queue[n][j].xid \in Xid \ {t}
      BY <1>1, <1>2, <1>4, <2>2, QueueType DEF Enqueued
    <3>2. /\ Waiting(queue[n][j].xid) /\ call[queue[n][j].xid].key = n
          /\ \A m \in DOMAIN queue[n] :
                 queue[n][m].xid = queue[n][j].xid /\ ~queue[n][m].granted => m = j
      BY <1>3, <1>4, <3>1 DEF OnePending
    <3> QED
      BY <1>2, <3>1, <3>2 DEF Waiting
  <2> QED
    BY <2>1, <2>2
<1>5. ASSUME NEW u \in Xid, pc'[u] \in {"asleep", "woken"}
      PROVE  /\ call'[u] # NoCall
             /\ \E j \in DOMAIN queue'[call'[u].key] :
                    queue'[call'[u].key][j].xid = u /\ ~queue'[call'[u].key][j].granted
  <2>1. CASE u = t
    <3>1. call'[t] # NoCall
      BY <1>2 DEF Call, NoCall
    <3>2. i \in DOMAIN q /\ q[i].xid = t /\ ~q[i].granted
      BY <1>1 DEF Enqueued
    <3> QED
      BY <1>2, <2>1, <3>1, <3>2
  <2>2. CASE u # t
    <3>1. Waiting(u) /\ call'[u] = call[u]
      BY <1>2, <1>5, <2>2 DEF Waiting
    <3>2. PICK j \in DOMAIN queue[call[u].key] :
              queue[call[u].key][j].xid = u /\ ~queue[call[u].key][j].granted
      BY <1>3, <3>1 DEF OnePending
    <3>3. call[u] # NoCall /\ call[u].key \in Key
      BY <1>3, <3>1 DEF OnePending, IInv, TypeOK, Types, Call
    <3>4. CASE call[u].key = k
      BY <1>1, <1>2, <2>2, <3>1, <3>2, <3>3, <3>4, EnqueuedPending
    <3>5. CASE call[u].key # k
      BY <1>2, <3>1, <3>2, <3>3, <3>5
    <3> QED
      BY <3>4, <3>5
  <2> QED
    BY <2>1, <2>2
<1> QED
  BY <1>4, <1>5 DEF OnePending, Waiting

LEMMA ReleaseNotifies ==
    ASSUME IInv, NEW t \in Xid, NEW k \in Key, Release(t, k)
    PROVE  /\ pc[t] = "releasing" /\ pc'[t] \in {"releasing", "ended"}
           /\ \A u \in Xid \ {t} :
                 pc'[u] = IF pc[u] = "asleep" /\ call[u].key = k THEN "woken" ELSE pc[u]
<1>1. pc \in [Xid -> {"unborn", "idle", "asleep", "woken", "locked", "scanning",
                       "victim", "releasing", "ended"}]
  BY DEF IInv, TypeOK, Types
<1> QED
  BY <1>1 DEF Release, Notified

LEMMA OnePendingRelease ==
    ASSUME IInv, NEW t \in Xid, NEW k \in Key, Release(t, k)
    PROVE  OnePending'
<1> DEFINE keep == {j \in DOMAIN queue[k] : queue[k][j].xid # t}
           r == Kept(queue[k], keep)
<1>1. queue[k] \in Seq(LockRequest) /\ OnePending
  BY QueueType DEF IInv, TypeOK
<1>2. PICK pos \in [DOMAIN r -> DOMAIN queue[k]] :
         /\ \A j \in DOMAIN r : pos[j] \in keep /\ r[j] = queue[k][pos[j]]
         /\ \A j, n \in DOMAIN r : pos[j] = pos[n] => j = n
         /\ \A j \in DOMAIN queue[k] : j \in keep => \E n \in DOMAIN r : pos[n] = j
  <2> HIDE DEF keep, r
  <2>1. r = Kept(queue[k], keep)
    BY DEF r
  <2> QED
    BY <1>1, <2>1, KeptPending
<1>3. queue' = [queue EXCEPT ![k] = r] /\ call' = call
  BY DEF Release, Without, IInv, TypeOK, Types
<1>4. /\ \A u \in Xid \ {t} : pc'[u] \in {"asleep", "woken"} <=> Waiting(u)
      /\ pc'[t] \notin {"asleep", "woken"}
  BY ReleaseNotifies DEF Waiting
<1>5. \A j \in Key \ {k} : \A n \in DOMAIN queue[j] :
         ~queue[j][n].granted => queue[j][n].xid # t
  BY <1>1, ReleaseNotifies DEF OnePending, Waiting
<1> HIDE DEF r
<1>6. \A j \in DOMAIN r : ~r[j].granted =>
         \E n \in DOMAIN queue[k] : queue[k][n] = r[j] /\ r[j].xid # t
  BY <1>2
<1>7. ASSUME NEW j \in DOMAIN r, NEW n \in DOMAIN r,
             r[j].xid = r[n].xid, ~r[j].granted, ~r[n].granted
      PROVE  j = n
  <2>1. pos[j] = pos[n]
    BY <1>1, <1>2, <1>7 DEF OnePending
  <2> QED
    BY <1>2, <2>1
<1>8. ASSUME NEW j \in DOMAIN queue[k], queue[k][j].xid # t
      PROVE  \E n \in DOMAIN r : r[n] = queue[k][j]
  BY <1>2, <1>8
<1>9. OthersIn(t, k, r)
  BY <1>6, <1>7, <1>8 DEF OthersIn
<1> QED
  BY <1>3, <1>4, <1>5, <1>9, OnePendingKept

-------------------------------------------------------------------------------
(* The other parts of the invariant.                                        *)

LEMMA SameScanner ==
    ASSUME IInv, UNCHANGED <<heap, at>>,
           \A u \in Xid : pc'[u] = "scanning" <=> pc[u] = "scanning",
           \A u \in Xid : pc[u] = "scanning" => call'[u] = call[u],
           \A u \in Xid : pc'[u] = "locked" => call'[u] \in Call
    PROVE  OneScanner' /\ (at' = 0 <=> HeapFree')
BY DEF IInv, TypeOK, Types, OneScanner, HeapFree

LEMMA SameStatus ==
    ASSUME IInv, UNCHANGED <<next_xid, tx_status>>,
           \A u \in Xid : pc'[u] \in Running <=> pc[u] \in Running
    PROVE  StatusTold'
BY DEF IInv, StatusTold

Places == {"unborn", "idle", "asleep", "woken", "locked", "scanning", "victim",
           "releasing", "ended"}

LEMMA BeginKeeps == IInv /\ begin_transaction => IInv'
<1> SUFFICES ASSUME IInv, begin_transaction PROVE IInv'
  OBVIOUS
<1>1. /\ next_xid \in Xid /\ next_xid' = next_xid + 1
      /\ UNCHANGED <<heap, seen, queue, waits_for, call, to_release, at, overtaken, calls>>
      /\ tx_status' = [tx_status EXCEPT ![next_xid] = "ACTIVE"]
      /\ pc' = [pc EXCEPT ![next_xid] = "idle"]
      /\ snapshot' = [snapshot EXCEPT ![next_xid] = Committed]
  BY DEF begin_transaction, data, locks
<1>2. Types
  BY DEF IInv, TypeOK
<1>3. tx_status[next_xid] = "unborn"
  BY <1>1 DEF IInv, StatusTold, Xid
<1>4. pc[next_xid] \notin Running
  BY <1>1, <1>3 DEF IInv, StatusTold
<1>5. /\ pc'[next_xid] = "idle" /\ \A u \in Xid \ {next_xid} : pc'[u] = pc[u]
  BY <1>1, <1>2 DEF Types
<1>6. OneScanner' /\ (at' = 0 <=> HeapFree')
  BY <1>1, <1>4, <1>5, SameScanner DEF Running, IInv, OneScanner
<1>7. OnePending'
  BY <1>1, <1>4, <1>5, SameWaiters DEF Running, Waiting
<1>8. StatusTold'
  BY <1>1, <1>2, <1>5 DEF IInv, StatusTold, Types, Running, Xid
<1>9. Types'
  BY <1>1, <1>2, <1>6 DEF Types, Xid, Committed
<1> QED
  BY <1>6, <1>7, <1>8, <1>9 DEF IInv, TypeOK

LEMMA HoldingKeeps ==
    ASSUME IInv, NEW t \in Xid, NEW op \in Op, NEW k \in Key, Holding(t, op, k)
    PROVE  IInv'
<1>1. /\ pc[t] = "idle" /\ calls[t] < MaxCalls
      /\ calls' = [calls EXCEPT ![t] = @ + 1]
      /\ call' = [call EXCEPT ![t] = [op |-> op, key |-> k]]
      /\ pc' = [pc EXCEPT ![t] = "locked"]
      /\ UNCHANGED <<next_xid, tx_status, heap, seen, queue, waits_for, to_release, at, overtaken,
                     snapshot>>
  BY DEF Holding, data, locks
<1>2. Types
  BY DEF IInv, TypeOK
<1>3. [op |-> op, key |-> k] \in Call
  BY DEF Call
<1>4. /\ pc'[t] = "locked" /\ \A u \in Xid \ {t} : pc'[u] = pc[u]
      /\ call'[t] \in Call /\ \A u \in Xid \ {t} : call'[u] = call[u]
  BY <1>1, <1>2, <1>3 DEF Types
<1>5. OneScanner' /\ (at' = 0 <=> HeapFree')
  BY <1>1, <1>4, SameScanner DEF IInv, OneScanner
<1>6. OnePending'
  BY <1>1, <1>4, SameWaiters DEF Waiting
<1>7. StatusTold'
  BY <1>1, <1>4, SameStatus DEF Running
<1>8. Types'
  BY <1>1, <1>2, <1>3, <1>5 DEF Types
<1> QED
  BY <1>5, <1>6, <1>7, <1>8 DEF IInv, TypeOK

LEMMA BlockingType ==
    ASSUME NEW q \in Seq(LockRequest), NEW i \in DOMAIN q
    PROVE  Blocking(q, i) \in SUBSET Xid
<1>1. \A j \in 1 .. i - 1 : j \in DOMAIN q /\ q[j] \in LockRequest
  OBVIOUS
<1> QED
  BY <1>1 DEF Blocking, LockRequest

LEMMA LoopKeeps ==
    ASSUME IInv, NEW t \in Xid, NEW k \in Key, NEW q, NEW i, Loop(t, k, q, i)
    PROVE  IInv'
<1>1. /\ pc[t] \in {"idle", "woken"} /\ Enqueued(t, k, q, i) /\ Attempt(t, k, q, i)
      /\ call' \in [Xid -> Call \cup {NoCall}] /\ call'[t] \in Call
      /\ \A u \in Xid \ {t} : call'[u] = call[u]
      /\ calls' \in [Xid -> 0 .. MaxCalls]
      /\ UNCHANGED <<next_xid, tx_status, heap, seen, to_release, at, overtaken, snapshot>>
  BY DEF Loop, data
<1>2. Types /\ q \in Seq(LockRequest) /\ i \in DOMAIN q
  BY <1>1 DEF IInv, TypeOK, Enqueued
<1>3. Granted(t, k, q, i) \/ Victim(t, k, q, i) \/ Sleeps(t, k, q, i)
  BY <1>1, Outcomes
<1>4. PICK p \in {"locked", "victim", "asleep"} : pc' = [pc EXCEPT ![t] = p]
  BY <1>3 DEF Granted, Victim, Sleeps
<1>5. pc'[t] = p /\ \A u \in Xid \ {t} : pc'[u] = pc[u]
  BY <1>2, <1>4 DEF Types
<1>6. OneScanner' /\ (at' = 0 <=> HeapFree')
  BY <1>1, <1>5, SameScanner DEF IInv, OneScanner
<1>7. StatusTold'
  BY <1>1, <1>5, SameStatus DEF Running
<1>8. OnePending'
  BY <1>3, OnePendingGranted, OnePendingVictim, OnePendingSleeps
<1>9. waits_for' \in [Xid -> SUBSET Xid]
  <2>1. PICK b \in SUBSET Xid : waits_for' = [waits_for EXCEPT ![t] = b]
    BY <1>2, <1>3, BlockingType DEF Granted, Victim, Sleeps
  <2> QED
    BY <1>2, <2>1 DEF Types
<1>10. queue' \in [Key -> Seq(LockRequest)]
  <2>1. \E r \in Seq(LockRequest) : queue' = [queue EXCEPT ![k] = r]
    <3>1. CASE Granted(t, k, q, i)
      <4>1. q[i] \in LockRequest
        BY <1>2
      <4>2. [q[i] EXCEPT !.granted = TRUE] \in LockRequest
        BY <4>1 DEF LockRequest
      <4>3. [q EXCEPT ![i].granted = TRUE] \in Seq(LockRequest)
        BY <1>2, <4>2
      <4> QED
        BY <3>1, <4>3 DEF Granted
    <3>2. CASE Victim(t, k, q, i)
      BY <1>2, <3>2, KeptPicks DEF Victim, Withdrawn
    <3>3. CASE Sleeps(t, k, q, i)
      BY <1>2, <3>3 DEF Sleeps
    <3> QED
      BY <1>3, <3>1, <3>2, <3>3
  <2> QED
    BY <1>2, <2>1 DEF Types
<1>11. Types'
  BY <1>1, <1>2, <1>4, <1>6, <1>9, <1>10 DEF Types
<1> QED
  BY <1>6, <1>7, <1>8, <1>11 DEF IInv, TypeOK

LEMMA SpuriousKeeps ==
    ASSUME IInv, NEW t \in Xid, SpuriousWake(t)
    PROVE  IInv'
<1>1. /\ pc[t] = "asleep" /\ pc' = [pc EXCEPT ![t] = "woken"]
      /\ UNCHANGED <<next_xid, tx_status, heap, seen, queue, waits_for, call,
                     to_release, at, overtaken, calls, snapshot>>
  BY DEF SpuriousWake, data, locks
<1>2. Types
  BY DEF IInv, TypeOK
<1>3. pc'[t] = "woken" /\ \A u \in Xid \ {t} : pc'[u] = pc[u]
  BY <1>1, <1>2 DEF Types
<1>4. OneScanner' /\ (at' = 0 <=> HeapFree')
  BY <1>1, <1>3, SameScanner DEF IInv, OneScanner
<1>5. OnePending' /\ StatusTold'
  BY <1>1, <1>3, SameWaiters, SameStatus DEF Waiting, Running
<1>6. Types'
  BY <1>1, <1>2, <1>4 DEF Types
<1> QED
  BY <1>4, <1>5, <1>6 DEF IInv, TypeOK

LEMMA ReleaseKeeps ==
    ASSUME IInv, NEW t \in Xid, NEW k \in Key, Release(t, k)
    PROVE  IInv'
<1>1. /\ to_release' = [to_release EXCEPT ![t] = @ \ {k}]
      /\ queue' = [queue EXCEPT ![k] = Without(@, t)]
      /\ pc' \in [Xid -> Places]
      /\ waits_for' \in {[waits_for EXCEPT ![t] = {}], waits_for}
      /\ UNCHANGED <<next_xid, tx_status, heap, seen, call, at, overtaken, calls, snapshot>>
  BY DEF Release, data, IInv, TypeOK, Types, Places
<1>2. Types
  BY DEF IInv, TypeOK
<1>3. OneScanner' /\ (at' = 0 <=> HeapFree')
  BY <1>1, ReleaseNotifies, SameScanner DEF IInv, OneScanner
<1>4. StatusTold'
  BY <1>1, ReleaseNotifies, SameStatus DEF Running
<1>5. queue' \in [Key -> Seq(LockRequest)]
  BY <1>1, <1>2, KeptPicks DEF Types, Without
<1>6. Types'
  BY <1>1, <1>2, <1>3, <1>5 DEF Types, Places
<1> QED
  BY <1>3, <1>4, <1>6, OnePendingRelease DEF IInv, TypeOK

\* Commit and Abort, the versions apart.
LEMMA EndKeeps ==
    ASSUME IInv, NEW t \in Xid, pc[t] \in {"idle", "victim"}, NEW s \in {"COMMITTED", "ABORTED"},
           EndAs(t, s), overtaken' \in SUBSET Xid, heap' \in [Key -> Seq(Version)],
           \A k \in Key : Len(heap'[k]) = Len(heap[k])
    PROVE  IInv'
<1>1. /\ tx_status' = [tx_status EXCEPT ![t] = s]
      /\ pc' = [pc EXCEPT ![t] = "releasing"]
      /\ to_release' = [to_release EXCEPT ![t] = Key]
      /\ call' = [call EXCEPT ![t] = NoCall]
      /\ UNCHANGED <<next_xid, queue, waits_for, at, calls, seen, snapshot>>
  BY DEF EndAs, locks
<1>2. Types
  BY DEF IInv, TypeOK
<1>3. /\ pc'[t] = "releasing" /\ tx_status'[t] = s
      /\ \A u \in Xid \ {t} : pc'[u] = pc[u] /\ call'[u] = call[u] /\ tx_status'[u] = tx_status[u]
  BY <1>1, <1>2 DEF Types
<1>4. \A k \in Key : heap'[k] # <<>>
  <2>1. ASSUME NEW k \in Key PROVE heap'[k] # <<>>
    <3>1. heap[k] \in Seq(Version) /\ heap[k] # <<>> /\ heap'[k] \in Seq(Version)
      BY <1>2 DEF Types, IInv, OneScanner
    <3>2. Len(heap[k]) # 0
      BY <3>1
    <3> QED
      BY <3>1, <3>2
  <2> QED
    BY <2>1
<1>5. OneScanner' /\ (at' = 0 <=> HeapFree')
  <2>1. \A u \in Xid : pc'[u] \in {"locked", "scanning"} => u # t /\ pc'[u] = pc[u]
    BY <1>3
  <2>2. \A u \in Xid : pc'[u] \in {"locked", "scanning"} => call'[u] \in Call
    BY <1>3, <2>1 DEF IInv, OneScanner
  <2>3. \A u \in Xid : pc'[u] = "scanning" => at' \in 1 .. Len(heap'[call'[u].key])
    <3>1. \A u \in Xid : pc'[u] = "scanning" => call'[u].key \in Key
      BY <2>2 DEF Call
    <3> QED
      BY <1>1, <1>3, <2>1, <3>1 DEF IInv, OneScanner
  <2>4. at' = 0 <=> HeapFree'
    BY <1>1, <1>2, <1>3 DEF Types, HeapFree
  <2>5. \A u, v \in Xid : pc'[u] = "scanning" /\ pc'[v] = "scanning" => u = v
    BY <2>1 DEF IInv, OneScanner
  <2> QED
    BY <1>4, <2>2, <2>3, <2>4, <2>5 DEF OneScanner
<1>6. OnePending'
  BY <1>1, <1>3, SameWaiters DEF Waiting
<1>7. StatusTold'
  BY <1>1, <1>3 DEF IInv, StatusTold, Running
<1>8. Types'
  BY <1>1, <1>2, <1>5 DEF Types
<1> QED
  BY <1>5, <1>6, <1>7, <1>8 DEF IInv, TypeOK

LEMMA CommitKeeps ==
    ASSUME IInv, NEW t \in Xid, Commit(t)
    PROVE  IInv'
<1>1. heap' = heap /\ heap \in [Key -> Seq(Version)] /\ overtaken' \in SUBSET Xid
  BY DEF Commit, IInv, TypeOK, Types
<1> QED
  BY <1>1, EndKeeps DEF Commit

\* Superseding and undoing keep a key's versions, with other values of xmax.
Remarked(old, new) ==
    /\ new \in Seq(Version) /\ Len(new) = Len(old)
    /\ \A i \in 1 .. Len(old) : new[i].xmin = old[i].xmin

LEMMA AbortRemarks ==
    ASSUME IInv, NEW t \in Xid, Abort(t), NEW k \in Key
    PROVE  Remarked(heap[k], heap'[k])
<1>1. heap[k] \in Seq(Version) /\ heap'[k] = [i \in DOMAIN heap[k] |-> Undone(heap[k][i], t)]
  BY DEF Abort, IInv, TypeOK, Types
<1>2. DOMAIN heap[k] = 1 .. Len(heap[k]) /\ Len(heap[k]) \in Nat
  BY <1>1
<1>3. ASSUME NEW i \in 1 .. Len(heap[k])
      PROVE  Undone(heap[k][i], t) \in Version /\ Undone(heap[k][i], t).xmin = heap[k][i].xmin
  <2>1. heap[k][i] \in Version
    BY <1>1
  <2> QED
    BY <2>1 DEF Undone, Version
<1> DEFINE new == [i \in 1 .. Len(heap[k]) |-> Undone(heap[k][i], t)]
<1>4. new \in [1 .. Len(heap[k]) -> Version]
  BY <1>3
<1>5. new \in Seq(Version) /\ Len(new) = Len(heap[k])
  BY <1>2, <1>4
<1> QED
  BY <1>1, <1>2, <1>3, <1>5 DEF Remarked

LEMMA AbortKeeps ==
    ASSUME IInv, NEW t \in Xid, Abort(t)
    PROVE  IInv'
<1>1. heap' = [k \in Key |-> heap'[k]]
  BY DEF Abort
<1>2. \A k \in Key : heap'[k] \in Seq(Version) /\ Len(heap'[k]) = Len(heap[k])
  BY AbortRemarks DEF Remarked
<1>3. heap' \in [Key -> Seq(Version)]
  <2> DEFINE h == heap'
  <2>1. h = [k \in Key |-> h[k]] /\ \A k \in Key : h[k] \in Seq(Version)
    BY <1>1, <1>2
  <2> HIDE DEF h
  <2>2. h \in [Key -> Seq(Version)]
    BY <2>1
  <2> QED
    BY <2>2 DEF h
<1>4. overtaken' \in SUBSET Xid
  BY DEF Abort, IInv, TypeOK, Types
<1> QED
  BY <1>2, <1>3, <1>4, EndKeeps DEF Abort

\* A call on the versions of a key: the thread is at one of them.
LEMMA ScanningAt ==
    ASSUME IInv, NEW t \in Xid, Scanning(t)
    PROVE  /\ call[t] \in Call /\ call[t].key \in Key /\ pc[t] \in {"locked", "scanning"}
           /\ Position(t) \in 1 .. Len(heap[call[t].key])
           /\ \A u \in Xid : pc[u] = "scanning" => u = t
           /\ Here(t) \in Version
<1>1. call[t] \in Call /\ call[t].key \in Key /\ pc[t] \in {"locked", "scanning"}
  BY DEF Scanning, IInv, OneScanner, Call
<1>2. heap[call[t].key] \in Seq(Version) /\ heap[call[t].key] # <<>>
  BY <1>1 DEF IInv, TypeOK, Types, OneScanner
<1>3. Position(t) \in 1 .. Len(heap[call[t].key])
  <2>1. Len(heap[call[t].key]) \in Nat \ {0}
    BY <1>2
  <2> QED
    BY <2>1 DEF Scanning, Position, IInv, OneScanner
<1>4. \A u \in Xid : pc[u] = "scanning" => u = t
  BY DEF Scanning, HeapFree, IInv, OneScanner
<1> QED
  BY <1>1, <1>2, <1>3, <1>4 DEF Here

LEMMA WithNewType ==
    ASSUME NEW versions \in Seq(Version), NEW t \in Xid
    PROVE  /\ WithNew(versions, t) \in Seq(Version) /\ WithNew(versions, t) # <<>>
           /\ Len(WithNew(versions, t)) = Len(versions) + 1
           /\ WithNew(versions, t)[1] = [xmin |-> t, xmax |-> None]
           /\ \A i \in 1 .. Len(versions) : WithNew(versions, t)[i + 1] = versions[i]
<1>1. [xmin |-> t, xmax |-> None] \in Version
  BY DEF Version
<1> QED
  BY <1>1 DEF WithNew

LEMMA MarkedType ==
    ASSUME NEW versions \in Seq(Version), NEW t \in Xid, NEW i \in 1 .. Len(versions)
    PROVE  /\ [versions EXCEPT ![i].xmax = t] \in Seq(Version)
           /\ Len([versions EXCEPT ![i].xmax = t]) = Len(versions)
<1>1. versions[i] \in Version
  OBVIOUS
<1>2. [versions[i] EXCEPT !.xmax = t] \in Version
  BY <1>1 DEF Version
<1> QED
  BY <1>2

\* A call that ends leaves the heap mutex.
LEMMA CallEnds ==
    ASSUME IInv, NEW t \in Xid, pc[t] \in {"locked", "scanning"},
           \A u \in Xid : pc[u] = "scanning" => u = t,
           pc' = [pc EXCEPT ![t] = "idle"], call' = [call EXCEPT ![t] = NoCall], at' = 0,
           overtaken' \in SUBSET Xid,
           UNCHANGED <<next_xid, tx_status, queue, waits_for, to_release, calls, snapshot>>,
           heap' \in [Key -> Seq(Version)], \A k \in Key : heap'[k] # <<>>,
           seen' \in [Xid -> [Key -> SUBSET (Xid \cup {None})]]
    PROVE  IInv'
<1>1. Types
  BY DEF IInv, TypeOK
<1>2. /\ pc'[t] = "idle" /\ \A u \in Xid \ {t} : pc'[u] = pc[u] /\ call'[u] = call[u]
  BY <1>1 DEF Types
<1>3. HeapFree'
  BY <1>2 DEF HeapFree
<1>4. OneScanner'
  BY <1>2 DEF IInv, OneScanner
<1>5. OnePending' /\ StatusTold'
  BY <1>2, SameWaiters, SameStatus DEF Waiting, Running
<1>6. Types'
  BY <1>1, <1>3 DEF Types
<1> QED
  BY <1>4, <1>5, <1>6 DEF IInv, TypeOK

LEMMA InsertKeeps ==
    ASSUME IInv, NEW t \in Xid, mvcc_insert(t)
    PROVE  IInv'
<1>1. Types /\ pc[t] = "locked" /\ HeapFree
  BY DEF mvcc_insert, IInv, TypeOK
<1>2. call[t] \in Call /\ call[t].key \in Key
  BY <1>1 DEF IInv, OneScanner, Call
<1>3. /\ WithNew(heap[call[t].key], t) \in Seq(Version)
      /\ WithNew(heap[call[t].key], t) # <<>>
  <2>1. heap[call[t].key] \in Seq(Version)
    BY <1>1, <1>2 DEF Types
  <2> QED
    BY <2>1, WithNewType
<1>4. heap' = [heap EXCEPT ![call[t].key] = WithNew(heap[call[t].key], t)]
  BY DEF mvcc_insert
<1>5. heap' \in [Key -> Seq(Version)] /\ \A k \in Key : heap'[k] # <<>>
  BY <1>1, <1>2, <1>3, <1>4 DEF Types, IInv, OneScanner
<1>6. at' = 0 /\ overtaken' \in SUBSET Xid
  BY <1>1 DEF mvcc_insert, Types
<1>7. seen' \in [Xid -> [Key -> SUBSET (Xid \cup {None})]]
  BY <1>1 DEF mvcc_insert, Types
<1> QED
  BY <1>1, <1>5, <1>6, <1>7, CallEnds DEF mvcc_insert, locks, HeapFree

\* What a scan that ends has made of the versions and of the reader's record.
Written(t, k) ==
    \/ UNCHANGED heap
    \/ \E versions \in Seq(Version) :
          /\ versions # <<>>
          /\ heap' = [heap EXCEPT ![k] = versions]

LEMMA ScanKeeps ==
    ASSUME IInv, NEW t \in Xid, Scanning(t), ScanEnds(t), Written(t, call[t].key),
           \/ UNCHANGED seen
           \/ \E v \in Xid \cup {None} : seen' = [seen EXCEPT ![t][call[t].key] = @ \cup {v}]
    PROVE  IInv'
<1>1. Types /\ call[t].key \in Key
  BY ScanningAt DEF IInv, TypeOK
<1>2. heap' \in [Key -> Seq(Version)] /\ \A k \in Key : heap'[k] # <<>>
  <2>1. heap \in [Key -> Seq(Version)] /\ \A k \in Key : heap[k] # <<>>
    BY <1>1 DEF Types, IInv, OneScanner
  <2>2. CASE UNCHANGED heap
    BY <2>1, <2>2
  <2>3. CASE ~UNCHANGED heap
    <3>1. PICK versions \in Seq(Version) :
              versions # <<>> /\ heap' = [heap EXCEPT ![call[t].key] = versions]
      BY <2>3 DEF Written
    <3> QED
      BY <1>1, <2>1, <3>1
  <2> QED
    BY <2>2, <2>3
<1>3. seen' \in [Xid -> [Key -> SUBSET (Xid \cup {None})]]
  <2>1. CASE UNCHANGED seen
    BY <1>1, <2>1 DEF Types
  <2>2. CASE \E v \in Xid \cup {None} : seen' = [seen EXCEPT ![t][call[t].key] = @ \cup {v}]
    <3>1. PICK v \in Xid \cup {None} : seen' = [seen EXCEPT ![t][call[t].key] = @ \cup {v}]
      BY <2>2
    <3>2. seen[t] \in [Key -> SUBSET (Xid \cup {None})]
      BY <1>1 DEF Types
    <3>3. [seen[t] EXCEPT ![call[t].key] = @ \cup {v}] \in [Key -> SUBSET (Xid \cup {None})]
      BY <1>1, <3>2
    <3> QED
      BY <1>1, <3>1, <3>3 DEF Types
  <2> QED
    BY <2>1, <2>2
<1> QED
  BY <1>2, <1>3, CallEnds, ScanningAt DEF ScanEnds, locks

\* What Found does, case by case.
LEMMA FoundCases ==
    ASSUME IInv, NEW t \in Xid, Found(t)
    PROVE  /\ Scanning(t) /\ ScanEnds(t) /\ is_visible(Here(t), t)
           /\ Here(t).xmin \in Xid
           /\ \/ /\ seen' = [seen EXCEPT ![t][call[t].key] = @ \cup {Here(t).xmin}]
                 /\ UNCHANGED heap
              \/ UNCHANGED seen /\ Written(t, call[t].key)
<1>1. /\ Scanning(t) /\ ScanEnds(t) /\ is_visible(Here(t), t)
  BY DEF Found, Wanted
<1>2. Here(t).xmin \in Xid /\ call[t].key \in Key
  BY <1>1, ScanningAt DEF Version
<1> DEFINE marked == [heap[call[t].key] EXCEPT ![Position(t)].xmax = t]
<1>3. heap[call[t].key] \in Seq(Version) /\ heap[call[t].key] # <<>>
  BY <1>2 DEF IInv, TypeOK, Types, OneScanner
<1>4. marked \in Seq(Version) /\ marked # <<>>
  <2>1. Position(t) \in 1 .. Len(heap[call[t].key])
    BY <1>1, ScanningAt
  <2>2. marked \in Seq(Version) /\ Len(marked) = Len(heap[call[t].key])
    BY <1>3, <2>1, MarkedType
  <2>3. Len(marked) # 0
    BY <1>3, <2>2
  <2> HIDE DEF marked
  <2> QED
    BY <2>2, <2>3
<1>5. WithNew(marked, t) \in Seq(Version) /\ WithNew(marked, t) # <<>>
  <2> HIDE DEF marked
  <2> QED
    BY <1>4, WithNewType
<1>6. \/ /\ seen' = [seen EXCEPT ![t][call[t].key] = @ \cup {Here(t).xmin}]
         /\ UNCHANGED heap
      \/ UNCHANGED seen /\ heap' = [heap EXCEPT ![call[t].key] = WithNew(marked, t)]
      \/ UNCHANGED seen /\ heap' = [heap EXCEPT ![call[t].key] = marked]
  BY DEF Found
<1> HIDE DEF marked
<1> QED
  BY <1>1, <1>2, <1>4, <1>5, <1>6 DEF Written

LEMMA NotFoundCases ==
    ASSUME IInv, NEW t \in Xid, NotFound(t)
    PROVE  /\ Scanning(t) /\ ScanEnds(t)
           /\ \/ /\ seen' = [seen EXCEPT ![t][call[t].key] = @ \cup {None}]
                 /\ UNCHANGED heap
              \/ UNCHANGED seen /\ Written(t, call[t].key)
<1>1. Scanning(t) /\ ScanEnds(t)
  BY DEF NotFound
<1>2. call[t].key \in Key /\ heap[call[t].key] \in Seq(Version)
  BY <1>1, ScanningAt DEF IInv, TypeOK, Types
<1>3. /\ WithNew(heap[call[t].key], t) \in Seq(Version)
      /\ WithNew(heap[call[t].key], t) # <<>>
  BY <1>2, WithNewType
<1>4. \/ /\ seen' = [seen EXCEPT ![t][call[t].key] = @ \cup {None}]
         /\ UNCHANGED heap
      \/ UNCHANGED seen /\ heap' = [heap EXCEPT ![call[t].key] = WithNew(heap[call[t].key], t)]
      \/ UNCHANGED seen /\ UNCHANGED heap
  BY DEF NotFound, data
<1> QED
  BY <1>1, <1>3, <1>4 DEF Written

LEMMA FoundKeeps ==
    ASSUME IInv, NEW t \in Xid, Found(t) \/ NotFound(t)
    PROVE  IInv'
<1>1. Scanning(t) /\ ScanEnds(t)
  BY FoundCases, NotFoundCases
<1>2. Written(t, call[t].key)
  BY FoundCases, NotFoundCases DEF Written
<1>3. \/ UNCHANGED seen
      \/ \E v \in Xid \cup {None} : seen' = [seen EXCEPT ![t][call[t].key] = @ \cup {v}]
  BY FoundCases, NotFoundCases
<1> QED
  BY <1>1, <1>2, <1>3, ScanKeeps

LEMMA PassedKeeps ==
    ASSUME IInv, NEW t \in Xid, Passed(t)
    PROVE  IInv'
<1>1. /\ Scanning(t) /\ Position(t) < Len(heap[call[t].key])
      /\ at' = Position(t) + 1 /\ pc' = [pc EXCEPT ![t] = "scanning"]
      /\ UNCHANGED <<next_xid, tx_status, heap, seen, queue, waits_for, call,
                     to_release, overtaken, calls, snapshot>>
  BY DEF Passed, data, locks
<1>2. Types
  BY DEF IInv, TypeOK
<1>3. /\ pc'[t] = "scanning" /\ \A u \in Xid \ {t} : pc'[u] = pc[u] /\ pc[u] # "scanning"
      /\ pc[t] \in {"locked", "scanning"} /\ call[t] \in Call
  BY <1>1, <1>2, ScanningAt DEF Types
<1>4. at' \in Nat /\ at' \in 1 .. Len(heap[call[t].key]) /\ at' # 0
  <2>1. Position(t) \in 1 .. Len(heap[call[t].key]) /\ heap[call[t].key] \in Seq(Version)
    BY <1>1, <1>2, ScanningAt DEF Types
  <2>2. Len(heap[call[t].key]) \in Nat
    BY <2>1
  <2> QED
    BY <1>1, <2>1, <2>2
<1>5. ~HeapFree'
  BY <1>3 DEF HeapFree
<1>6. OneScanner'
  BY <1>1, <1>3, <1>4 DEF IInv, OneScanner
<1>7. OnePending' /\ StatusTold'
  BY <1>1, <1>3, SameWaiters, SameStatus DEF Waiting, Running
<1>8. Types'
  BY <1>1, <1>2, <1>4, <1>5 DEF Types
<1> QED
  BY <1>6, <1>7, <1>8 DEF IInv, TypeOK

LEMMA StutterKeeps == IInv /\ UNCHANGED vars => IInv'
BY DEF vars, IInv, TypeOK, Types, HeapFree, OnePending, Waiting, StatusTold, OneScanner

LEMMA StepInv == IInv /\ [Next]_vars => IInv'
<1> SUFFICES ASSUME IInv, Next PROVE IInv'
  BY StutterKeeps
<1>1. CASE begin_transaction
  BY <1>1, BeginKeeps
<1>2. ASSUME NEW t \in Xid,
             \/ \E op \in Op, k \in Key : Holding(t, op, k)
             \/ \E k \in Key : \E q, i : Loop(t, k, q, i)
      PROVE  IInv'
  BY <1>2, HoldingKeeps, LoopKeeps
<1>3. ASSUME NEW t \in Xid,
             mvcc_insert(t) \/ Found(t) \/ Passed(t) \/ NotFound(t)
      PROVE  IInv'
  BY <1>3, InsertKeeps, FoundKeeps, PassedKeeps
<1>4. ASSUME NEW t \in Xid,
             \/ SpuriousWake(t) \/ Commit(t) \/ Abort(t)
             \/ \E k \in Key : Release(t, k)
      PROVE  IInv'
  BY <1>4, SpuriousKeeps, CommitKeeps, AbortKeeps, ReleaseKeeps
<1> QED
  BY <1>1, <1>2, <1>3, <1>4, StepCases

LEMMA InvariantHolds == Spec => []IInv
BY InitInv, StepInv, PTL DEF Spec

\* The types, and the requests of waiting threads: whatever victims withdraw and
\* ends remove, a thread in the loop of acquire_lock finds one request of its own.
THEOREM TypeCorrect == Spec => []TypeOK
<1>1. IInv => TypeOK
  BY DEF IInv
<1> QED
  BY <1>1, InvariantHolds, PTL

-------------------------------------------------------------------------------
(* The waits-for graph.                                                     *)

LEMMA AcyclicInit == Init => WaitsForAcyclic
BY DEF Init, WaitsForAcyclic, Acyclic, CyclicCore

\* The search that acquire_lock makes before it sleeps is wide enough.
LEMMA SearchFindsOwnCycle ==
    ASSUME NEW g, NEW t \in DOMAIN g, ~has_cycle(g, t)
    PROVE  ~HasCycle(g, t)
BY DEF has_cycle

LEMMA LoopStaysAcyclic ==
    ASSUME IInv, WaitsForAcyclic, NEW t \in Xid, NEW k \in Key, NEW q, NEW i, Loop(t, k, q, i)
    PROVE  WaitsForAcyclic'
<1>1. waits_for \in [Xid -> SUBSET Xid] /\ Acyclic(waits_for)
  BY DEF IInv, TypeOK, Types, WaitsForAcyclic
<1>2. q \in Seq(LockRequest) /\ i \in DOMAIN q
  BY DEF Loop, Enqueued
<1>3. Granted(t, k, q, i) \/ Victim(t, k, q, i) \/ Sleeps(t, k, q, i)
  BY Outcomes DEF Loop
<1>4. CASE waits_for' = [waits_for EXCEPT ![t] = {}]
  <2>1. /\ waits_for' \in [Xid -> SUBSET Xid]
        /\ \A u \in Xid : waits_for'[u] \subseteq waits_for[u]
    BY <1>1, <1>4
  <2>2. Acyclic(waits_for')
    BY <1>1, <2>1, FewerEdges
  <2> QED
    BY <2>2 DEF WaitsForAcyclic
<1>5. CASE Sleeps(t, k, q, i)
  <2>1. Blocking(q, i) \in SUBSET Xid
    BY <1>2, BlockingType
  <2>2. ~HasCycle([waits_for EXCEPT ![t] = Blocking(q, i)], t)
    BY <1>1, <1>5, SearchFindsOwnCycle DEF Sleeps
  <2>3. Acyclic([waits_for EXCEPT ![t] = Blocking(q, i)])
    BY <1>1, <2>1, <2>2, NewEdges
  <2>4. waits_for' = [waits_for EXCEPT ![t] = Blocking(q, i)]
    BY <1>5 DEF Sleeps
  <2> QED
    BY <2>3, <2>4 DEF WaitsForAcyclic
<1> QED
  BY <1>3, <1>4, <1>5 DEF Granted, Victim

LEMMA ReleaseStaysAcyclic ==
    ASSUME IInv, WaitsForAcyclic, NEW t \in Xid, NEW k \in Key, Release(t, k)
    PROVE  WaitsForAcyclic'
<1>1. waits_for \in [Xid -> SUBSET Xid] /\ Acyclic(waits_for)
  BY DEF IInv, TypeOK, Types, WaitsForAcyclic
<1>2. waits_for' = waits_for \/ waits_for' = [waits_for EXCEPT ![t] = {}]
  BY DEF Release
<1>3. /\ waits_for' \in [Xid -> SUBSET Xid]
      /\ \A u \in Xid : waits_for'[u] \subseteq waits_for[u]
  BY <1>1, <1>2
<1>4. Acyclic(waits_for')
  BY <1>1, <1>3, FewerEdges
<1> QED
  BY <1>4 DEF WaitsForAcyclic

LEMMA AcyclicStep == IInv /\ WaitsForAcyclic /\ [Next]_vars => WaitsForAcyclic'
<1> SUFFICES ASSUME IInv, WaitsForAcyclic, [Next]_vars PROVE WaitsForAcyclic'
  OBVIOUS
<1>1. CASE waits_for' = waits_for
  BY <1>1 DEF WaitsForAcyclic
<1>2. ASSUME NEW t \in Xid,
             \/ \E k \in Key : \E q, i : Loop(t, k, q, i)
             \/ \E k \in Key : Release(t, k)
      PROVE  WaitsForAcyclic'
  BY <1>2, LoopStaysAcyclic, ReleaseStaysAcyclic
<1>3. ASSUME NEW t \in Xid,
             \/ \E op \in Op, k \in Key : Holding(t, op, k)
             \/ mvcc_insert(t) \/ Found(t) \/ Passed(t) \/ NotFound(t)
             \/ SpuriousWake(t) \/ Commit(t) \/ Abort(t)
      PROVE  waits_for' = waits_for
  BY <1>3 DEF Holding, mvcc_insert, Found, Passed, NotFound, ScanEnds, SpuriousWake,
              Commit, Abort, EndAs, locks
<1>4. CASE UNCHANGED vars
  BY <1>1, <1>4 DEF vars
<1>5. CASE begin_transaction
  BY <1>1, <1>5 DEF begin_transaction, locks
<1> QED
  BY <1>1, <1>2, <1>3, <1>4, <1>5, StepCases

\* No sequence of requests, wake-ups, aborts and ends makes the stored graph
\* cyclic: only the thread that goes to sleep adds edges, all its own, and it has
\* searched for what they would close.
THEOREM WaitsForStaysAcyclic == Spec => []WaitsForAcyclic
<1>1. Init => WaitsForAcyclic
  BY AcyclicInit
<1>2. IInv /\ WaitsForAcyclic /\ [Next]_vars => WaitsForAcyclic'
  BY AcyclicStep
<1> QED
  BY <1>1, <1>2, InvariantHolds, PTL DEF Spec

-------------------------------------------------------------------------------
(* Reads.                                                                   *)

LEMMA CommittedGrows ==
    ASSUME IInv, [Next]_vars
    PROVE  \A u \in Xid : u \in Committed => u \in Committed'
<1>1. tx_status \in [Xid -> {"unborn", "ACTIVE", "COMMITTED", "ABORTED"}]
  BY DEF IInv, TypeOK, Types
<1>2. CASE tx_status' = tx_status
  BY <1>2 DEF Committed
<1>3. CASE begin_transaction
  <2>1. tx_status[next_xid] = "unborn"
    BY <1>3 DEF begin_transaction, IInv, StatusTold, Xid
  <2> QED
    BY <1>1, <1>3, <2>1 DEF begin_transaction, Committed
<1>4. ASSUME NEW t \in Xid, Commit(t) \/ Abort(t)
      PROVE  \A u \in Xid : u \in Committed => u \in Committed'
  <2>1. tx_status[t] = "ACTIVE"
    BY <1>4 DEF Commit, Abort, IInv, StatusTold, Running
  <2>2. \A u \in Xid \ {t} : tx_status'[u] = tx_status[u]
    BY <1>1, <1>4 DEF Commit, Abort, EndAs
  <2> QED
    BY <2>1, <2>2 DEF Committed
<1>5. ASSUME NEW t \in Xid,
             \/ \E op \in Op, k \in Key : Holding(t, op, k)
             \/ \E k \in Key : \E q, i : Loop(t, k, q, i)
             \/ mvcc_insert(t) \/ Found(t) \/ Passed(t) \/ NotFound(t)
             \/ SpuriousWake(t)
             \/ \E k \in Key : Release(t, k)
      PROVE  tx_status' = tx_status
  BY <1>5 DEF Holding, Loop, mvcc_insert, Found, Passed, NotFound, ScanEnds, SpuriousWake,
              Release
<1>6. CASE UNCHANGED vars
  BY <1>2, <1>6 DEF vars
<1> QED
  BY <1>2, <1>3, <1>4, <1>5, <1>6, StepCases

LEMMA ReadStep == IInv /\ NoDirtyRead /\ [Next]_vars => NoDirtyRead'
<1> SUFFICES ASSUME IInv, NoDirtyRead, [Next]_vars,
                    NEW u \in Xid, NEW j \in Key, NEW x \in seen'[u][j]
             PROVE  x \in Committed' \cup {u, None}
  BY DEF NoDirtyRead
<1>1. seen \in [Xid -> [Key -> SUBSET (Xid \cup {None})]]
  BY DEF IInv, TypeOK, Types
<1>2. CASE x \in seen[u][j]
  <2>1. x \in Committed \cup {u, None}
    BY <1>2 DEF NoDirtyRead
  <2>2. x \in Committed => x \in Xid
    BY DEF Committed
  <2> QED
    BY <2>1, <2>2, CommittedGrows
<1>3. CASE UNCHANGED seen
  BY <1>2, <1>3
<1>4. ASSUME NEW t \in Xid, NEW v, NEW k \in Key, x \notin seen[u][j],
             seen' = [seen EXCEPT ![t][k] = @ \cup {v}]
      PROVE  u = t /\ x = v
  BY <1>1, <1>4
<1>5. ASSUME NEW t \in Xid, Found(t), x \notin seen[u][j]
      PROVE  x \in Committed' \cup {u, None}
  <2>1. CASE UNCHANGED seen
    BY <1>3, <2>1
  <2>2. CASE seen' = [seen EXCEPT ![t][call[t].key] = @ \cup {Here(t).xmin}]
    <3>1. call[t].key \in Key
      BY <1>5, FoundCases, ScanningAt
    <3>2. u = t /\ x = Here(t).xmin
      BY <1>4, <1>5, <2>2, <3>1
    <3>3. Here(t).xmin \in Xid /\ (Here(t).xmin = t \/ Here(t).xmin \in Committed)
      BY <1>5, FoundCases DEF is_visible, InSnapshot
    <3> QED
      BY <3>2, <3>3, CommittedGrows
  <2> QED
    BY <1>5, <2>1, <2>2, FoundCases
<1>6. ASSUME NEW t \in Xid, NotFound(t), x \notin seen[u][j]
      PROVE  x \in Committed' \cup {u, None}
  <2>1. call[t].key \in Key
    BY <1>6, NotFoundCases, ScanningAt
  <2> QED
    BY <1>3, <1>4, <1>6, <2>1, NotFoundCases
<1>7. ASSUME NEW t \in Xid,
             \/ \E op \in Op, k \in Key : Holding(t, op, k)
             \/ \E k \in Key : \E q, i : Loop(t, k, q, i)
             \/ mvcc_insert(t) \/ Passed(t)
             \/ SpuriousWake(t) \/ Commit(t) \/ Abort(t)
             \/ \E k \in Key : Release(t, k)
      PROVE  UNCHANGED seen
  BY <1>7 DEF Holding, Loop, mvcc_insert, Passed, SpuriousWake, Release, Commit, Abort,
              EndAs, data
<1>8. begin_transaction => UNCHANGED seen
  BY DEF begin_transaction, data
<1>9. CASE UNCHANGED vars
  BY <1>3, <1>9 DEF vars
<1> QED
  BY <1>2, <1>3, <1>5, <1>6, <1>7, <1>8, <1>9, StepCases

\* No transaction reads what another one wrote before that one has committed,
\* although every version is tested at a moment of its own.
THEOREM NoReadIsDirty == Spec => []NoDirtyRead
<1>1. Init => NoDirtyRead
  BY DEF Init, NoDirtyRead
<1> QED
  BY <1>1, ReadStep, InvariantHolds, PTL DEF Spec

-------------------------------------------------------------------------------
(* Wake-ups.  Whoever keeps a sleeper from its lock stays ahead of it in    *)
(* its queue until the sleeper is woken.                                    *)

\* What stands granted ahead of the request that u has pending in q does so in r.
StillAhead(q, r, u) ==
    \A i, j \in DOMAIN q :
        /\ q[i].xid = u /\ ~q[i].granted
        /\ j < i /\ q[j].granted /\ q[j].xid # u
        => \E m, n \in DOMAIN r : r[m] = q[i] /\ r[n] = q[j] /\ n < m

LEMMA BlockedByMore ==
    ASSUME NEW q \in Seq(LockRequest), NEW r \in Seq(LockRequest), NEW u,
           StillAhead(q, r, u),
           NEW i \in DOMAIN q, q[i].xid = u, ~q[i].granted,
           NEW m \in DOMAIN r,
           \A n \in DOMAIN r : r[n].xid = u /\ ~r[n].granted => n = m
    PROVE  Blocking(q, i) \subseteq Blocking(r, m)
<1> SUFFICES ASSUME NEW x \in Blocking(q, i) PROVE x \in Blocking(r, m)
  OBVIOUS
<1>1. PICK j \in 1 .. i - 1 : /\ q[j].granted
                              /\ "X" \in {q[i].mode, q[j].mode}
                              /\ q[j].xid # q[i].xid
                              /\ x = q[j].xid
  BY DEF Blocking
<1>2. j \in DOMAIN q /\ j < i
  OBVIOUS
<1>3. PICK mm \in DOMAIN r : \E n \in DOMAIN r : r[mm] = q[i] /\ r[n] = q[j] /\ n < mm
  BY <1>1, <1>2 DEF StillAhead
<1>4. mm = m
  BY <1>3
<1>5. PICK n \in DOMAIN r : r[m] = q[i] /\ r[n] = q[j] /\ n < m
  BY <1>3, <1>4
<1>6. n \in 1 .. m - 1
  BY <1>5
<1> QED
  BY <1>1, <1>5, <1>6 DEF Blocking

\* The pending request of a waiting thread.
LEMMA PendingInQueue ==
    ASSUME IInv, NEW u \in Xid, Waiting(u)
    PROVE  /\ call[u].key \in Key
           /\ Pending(u, call[u].key) \in DOMAIN queue[call[u].key]
           /\ queue[call[u].key][Pending(u, call[u].key)].xid = u
           /\ ~queue[call[u].key][Pending(u, call[u].key)].granted
           /\ \A n \in DOMAIN queue[call[u].key] :
                 queue[call[u].key][n].xid = u /\ ~queue[call[u].key][n].granted
                 => n = Pending(u, call[u].key)
<1> DEFINE k == call[u].key
<1>1. OnePending /\ call[u] # NoCall /\ k \in Key
  BY DEF IInv, TypeOK, Types, OnePending, Call
<1>2. PICK i \in DOMAIN queue[k] : queue[k][i].xid = u /\ ~queue[k][i].granted
  BY <1>1 DEF OnePending
<1>3. \A n \in DOMAIN queue[k] : queue[k][n].xid = u /\ ~queue[k][n].granted => n = i
  BY <1>1, <1>2 DEF OnePending
<1> HIDE DEF k
<1>4. Pending(u, k) = i
  BY <1>2, <1>3, PendingIs
<1> QED
  BY <1>1, <1>2, <1>3, <1>4 DEF k

BlockedAsRecorded(u) == waits_for[u] # {} /\ waits_for[u] \subseteq BlockersNow(u)

LEMMA SleepsOn ==
    ASSUME IInv, IInv', NEW u \in Xid, pc[u] = "asleep", pc'[u] = "asleep",
           call'[u] = call[u], waits_for'[u] = waits_for[u],
           StillAhead(queue[call[u].key], queue'[call[u].key], u),
           BlockedAsRecorded(u)
    PROVE  BlockedAsRecorded(u)'
<1> DEFINE k == call[u].key
           i == Pending(u, k)
           m == Pending(u, k)'
<1>1. /\ k \in Key /\ i \in DOMAIN queue[k] /\ queue[k][i].xid = u /\ ~queue[k][i].granted
  BY PendingInQueue DEF Waiting
<1>2. \E n \in DOMAIN queue'[k] :
         /\ queue'[k][n].xid = u /\ ~queue'[k][n].granted
         /\ \A l \in DOMAIN queue'[k] : queue'[k][l].xid = u /\ ~queue'[k][l].granted => l = n
  <2>1. OnePending'
    BY DEF IInv, TypeOK
  <2>2. PICK n \in DOMAIN queue'[k] : queue'[k][n].xid = u /\ ~queue'[k][n].granted
    BY <2>1 DEF OnePending, Waiting
  <2>3. \A l \in DOMAIN queue'[k] : queue'[k][l].xid = u /\ ~queue'[k][l].granted => l = n
    BY <1>1, <2>1, <2>2 DEF OnePending
  <2> QED
    BY <2>2, <2>3
<1>3. /\ m \in DOMAIN queue'[k]
      /\ \A l \in DOMAIN queue'[k] : queue'[k][l].xid = u /\ ~queue'[k][l].granted => l = m
  BY <1>2 DEF Pending
<1>4. queue[k] \in Seq(LockRequest) /\ queue'[k] \in Seq(LockRequest)
  BY <1>1 DEF IInv, TypeOK, Types
<1>5. Blocking(queue[k], i) \subseteq Blocking(queue'[k], m)
  <2> HIDE DEF i, m
  <2>1. StillAhead(queue[k], queue'[k], u)
    OBVIOUS
  <2> HIDE DEF k
  <2> QED
    BY <1>1, <1>3, <1>4, <2>1, BlockedByMore
<1>6. BlockersNow(u)' = Blocking(queue'[k], m)
  BY DEF BlockersNow
<1>7. BlockersNow(u) = Blocking(queue[k], i)
  BY DEF BlockersNow
<1> QED
  BY <1>5, <1>6, <1>7 DEF BlockedAsRecorded

LEMMA SameQueueAhead ==
    ASSUME NEW q, NEW u
    PROVE  StillAhead(q, q, u)
BY DEF StillAhead

\* A request that t has added or been granted.
LEMMA EnqueuedAhead ==
    ASSUME IInv, NEW t \in Xid, NEW k \in Key, NEW q, NEW i, Enqueued(t, k, q, i),
           NEW r, DOMAIN r = DOMAIN q, \A j \in DOMAIN q : j # i => r[j] = q[j],
           NEW u \in Xid \ {t}
    PROVE  StillAhead(queue[k], r, u)
<1> SUFFICES ASSUME NEW n \in DOMAIN queue[k], NEW j \in DOMAIN queue[k],
                    queue[k][n].xid = u, ~queue[k][n].granted,
                    j < n, queue[k][j].granted, queue[k][j].xid # u
             PROVE  \E a, b \in DOMAIN r : r[a] = queue[k][n] /\ r[b] = queue[k][j] /\ b < a
  BY DEF StillAhead
<1>1. n \in DOMAIN q /\ q[n] = queue[k][n] /\ j \in DOMAIN q /\ q[j] = queue[k][j]
  BY DEF Enqueued
<1>2. n # i /\ j # i
  BY <1>1 DEF Enqueued
<1> QED
  BY <1>1, <1>2

\* remove_if leaves the others' requests and every granted one of others.
LEMMA KeptAhead ==
    ASSUME NEW q \in Seq(LockRequest), NEW keep, NEW r, r = Kept(q, keep), NEW u,
           \A j \in DOMAIN q : q[j].xid = u \/ q[j].granted => j \in keep
    PROVE  StillAhead(q, r, u)
<1> SUFFICES ASSUME NEW n \in DOMAIN q, NEW j \in DOMAIN q,
                    q[n].xid = u, ~q[n].granted,
                    j < n, q[j].granted, q[j].xid # u
             PROVE  \E a, b \in DOMAIN r : r[a] = q[n] /\ r[b] = q[j] /\ b < a
  BY DEF StillAhead
<1>1. r \in Seq(LockRequest) /\ Picked(q, keep, Len(q), r)
  BY KeptPicks
<1>2. DOMAIN r = 1 .. Len(r) /\ DOMAIN q = 1 .. Len(q) /\ Len(r) \in Nat /\ Len(q) \in Nat
  BY <1>1
<1>3. PICK pos \in [1 .. Len(r) -> 1 .. Len(q)] :
          /\ \A x \in 1 .. Len(r) : pos[x] \in keep /\ r[x] = q[pos[x]]
          /\ \A x, y \in 1 .. Len(r) : x < y => pos[x] < pos[y]
          /\ \A y \in 1 .. Len(q) : y \in keep => \E x \in 1 .. Len(r) : pos[x] = y
  BY <1>1 DEF Picked
<1>4. PICK a \in 1 .. Len(r) : pos[a] = n
  BY <1>2, <1>3
<1>5. PICK b \in 1 .. Len(r) : pos[b] = j
  BY <1>2, <1>3
<1>6. b < a
  <2>1. a \in Nat /\ b \in Nat /\ n \in Nat /\ j \in Nat
    BY <1>2
  <2>2. ~(a < b) /\ a # b
    BY <1>3, <1>4, <1>5, <2>1
  <2> QED
    BY <2>1, <2>2
<1> QED
  BY <1>2, <1>3, <1>4, <1>5, <1>6

LEMMA LoopKeepsAhead ==
    ASSUME IInv, NEW t \in Xid, NEW k \in Key, NEW q, NEW i, Loop(t, k, q, i),
           NEW u \in Xid \ {t}, NEW j \in Key
    PROVE  StillAhead(queue[j], queue'[j], u)
<1>1. Enqueued(t, k, q, i) /\ q \in Seq(LockRequest) /\ i \in DOMAIN q
  BY DEF Loop, Enqueued
<1>2. queue \in [Key -> Seq(LockRequest)]
  BY DEF IInv, TypeOK, Types
<1>3. Granted(t, k, q, i) \/ Victim(t, k, q, i) \/ Sleeps(t, k, q, i)
  BY Outcomes DEF Loop
<1>4. CASE j # k
  <2>1. queue'[j] = queue[j]
    BY <1>2, <1>3, <1>4 DEF Granted, Victim, Sleeps
  <2> QED
    BY <2>1, SameQueueAhead
<1>5. CASE j = k /\ Granted(t, k, q, i)
  <2>1. /\ DOMAIN queue'[k] = DOMAIN q
        /\ \A n \in DOMAIN q : n # i => queue'[k][n] = q[n]
    BY <1>1, <1>2, <1>5 DEF Granted
  <2> QED
    BY <1>1, <1>5, <2>1, EnqueuedAhead
<1>6. CASE j = k /\ Sleeps(t, k, q, i)
  <2>1. queue'[k] = q
    BY <1>2, <1>6 DEF Sleeps
  <2> QED
    BY <1>1, <1>6, <2>1, EnqueuedAhead
<1>7. CASE j = k /\ Victim(t, k, q, i)
  <2> DEFINE keep == {n \in DOMAIN q : q[n].xid # t \/ q[n].granted}
  <2>1. queue'[k] = Kept(q, keep)
    BY <1>2, <1>7 DEF Victim, Withdrawn
  <2>2. \A n \in DOMAIN q : q[n].xid = u \/ q[n].granted => n \in keep
    OBVIOUS
  <2> HIDE DEF keep
  <2>3. StillAhead(q, queue'[k], u)
    BY <1>1, <2>1, <2>2, KeptAhead
  <2>4. StillAhead(queue[k], q, u)
    BY <1>1, EnqueuedAhead
  <2>5. ASSUME NEW a \in DOMAIN queue[k], NEW b \in DOMAIN queue[k],
               queue[k][a].xid = u, ~queue[k][a].granted,
               b < a, queue[k][b].granted, queue[k][b].xid # u
        PROVE  \E c, d \in DOMAIN queue'[k] :
                   queue'[k][c] = queue[k][a] /\ queue'[k][d] = queue[k][b] /\ d < c
    <3>1. PICK c, d \in DOMAIN q : q[c] = queue[k][a] /\ q[d] = queue[k][b] /\ d < c
      BY <2>4, <2>5 DEF StillAhead
    <3> QED
      BY <2>3, <2>5, <3>1 DEF StillAhead
  <2> QED
    BY <1>7, <2>5 DEF StillAhead
<1> QED
  BY <1>3, <1>4, <1>5, <1>6, <1>7

\* Who sleeps after a step has slept before, or has just recorded its blockers.
LEMMA LoopSleepers ==
    ASSUME IInv, NoLostWakeup, NEW t \in Xid, NEW k \in Key, NEW q, NEW i, Loop(t, k, q, i),
           NEW u \in Xid, pc'[u] = "asleep"
    PROVE  BlockedAsRecorded(u)'
<1>1. IInv' /\ pc \in [Xid -> Places] /\ waits_for \in [Xid -> SUBSET Xid]
      /\ queue \in [Key -> Seq(LockRequest)]
  BY LoopKeeps DEF IInv, TypeOK, Types, Places
<1>2. Granted(t, k, q, i) \/ Victim(t, k, q, i) \/ Sleeps(t, k, q, i)
  BY Outcomes DEF Loop
<1>3. CASE u = t
  <2>1. Sleeps(t, k, q, i)
    BY <1>1, <1>2, <1>3 DEF Granted, Victim
  <2>2. /\ queue'[k] = q /\ waits_for'[t] = Blocking(q, i) /\ Blocking(q, i) # {}
        /\ call'[t].key = k
    BY <1>1, <2>1 DEF Sleeps, Loop
  <2>3. /\ i \in DOMAIN q /\ q[i].xid = t /\ ~q[i].granted
        /\ \A n \in DOMAIN q : q[n].xid = t /\ ~q[n].granted => n = i
    BY DEF Loop, Enqueued
  <2>4. Pending(t, k)' = i
    BY <2>2, <2>3 DEF Pending
  <2>5. BlockersNow(t)' = Blocking(q, i)
    BY <2>2, <2>4 DEF BlockersNow
  <2> QED
    BY <1>3, <2>2, <2>5 DEF BlockedAsRecorded
<1>4. CASE u # t
  <2>1. pc[u] = "asleep" /\ waits_for'[u] = waits_for[u] /\ call'[u] = call[u]
    BY <1>1, <1>2, <1>4 DEF Granted, Victim, Sleeps, Loop
  <2>2. call[u].key \in Key
    BY <2>1, PendingInQueue DEF Waiting
  <2>3. StillAhead(queue[call[u].key], queue'[call[u].key], u)
    BY <1>4, <2>2, LoopKeepsAhead
  <2>4. BlockedAsRecorded(u)
    BY <2>1 DEF NoLostWakeup, Asleep, BlockedAsRecorded
  <2> QED
    BY <1>1, <2>1, <2>3, <2>4, SleepsOn
<1> QED
  BY <1>3, <1>4

LEMMA ReleaseSleepers ==
    ASSUME IInv, NoLostWakeup, NEW t \in Xid, NEW k \in Key, Release(t, k),
           NEW u \in Xid, pc'[u] = "asleep"
    PROVE  BlockedAsRecorded(u)'
<1>1. IInv' /\ waits_for \in [Xid -> SUBSET Xid] /\ queue \in [Key -> Seq(LockRequest)]
  BY ReleaseKeeps DEF IInv, TypeOK, Types
<1>2. u # t /\ pc[u] = "asleep" /\ call[u].key # k
  BY ReleaseNotifies
<1>3. call[u].key \in Key
  BY <1>2, PendingInQueue DEF Waiting
<1>4. /\ queue'[call[u].key] = queue[call[u].key]
      /\ waits_for'[u] = waits_for[u] /\ call'[u] = call[u]
  BY <1>1, <1>2, <1>3 DEF Release
<1>5. StillAhead(queue[call[u].key], queue'[call[u].key], u)
  BY <1>4, SameQueueAhead
<1>6. BlockedAsRecorded(u)
  BY <1>2 DEF NoLostWakeup, Asleep, BlockedAsRecorded
<1> QED
  BY <1>1, <1>2, <1>4, <1>5, <1>6, SleepsOn

\* Steps that leave the queues and the graph alone put nobody to sleep.
LEMMA OtherSleepers ==
    ASSUME IInv, IInv', NoLostWakeup, UNCHANGED <<queue, waits_for>>,
           NEW u \in Xid, pc'[u] = "asleep", pc[u] = "asleep", call'[u] = call[u]
    PROVE  BlockedAsRecorded(u)'
<1>1. StillAhead(queue[call[u].key], queue'[call[u].key], u)
  BY SameQueueAhead
<1>2. BlockedAsRecorded(u)
  BY DEF NoLostWakeup, Asleep, BlockedAsRecorded
<1> QED
  BY <1>1, <1>2, SleepsOn

LEMMA WakeupStep == IInv /\ NoLostWakeup /\ [Next]_vars => NoLostWakeup'
<1> SUFFICES ASSUME IInv, NoLostWakeup, [Next]_vars, NEW u \in Xid, pc'[u] = "asleep"
             PROVE  BlockedAsRecorded(u)'
  BY DEF NoLostWakeup, Asleep, BlockedAsRecorded
<1>1. IInv'
  BY StepInv
<1>2. pc \in [Xid -> Places] /\ call \in [Xid -> Call \cup {NoCall}]
  BY DEF IInv, TypeOK, Types, Places
<1>3. CASE UNCHANGED vars
  BY <1>1, <1>3, OtherSleepers DEF vars
<1>4. CASE begin_transaction
  <2>1. pc[u] = "asleep" /\ UNCHANGED <<queue, waits_for, call>>
    BY <1>2, <1>4 DEF begin_transaction, locks
  <2> QED
    BY <1>1, <2>1, OtherSleepers
<1>5. ASSUME NEW t \in Xid,
             \/ \E k \in Key : \E q, i : Loop(t, k, q, i)
             \/ \E k \in Key : Release(t, k)
      PROVE  BlockedAsRecorded(u)'
  BY <1>5, LoopSleepers, ReleaseSleepers
<1>6. ASSUME NEW t \in Xid,
             \/ \E op \in Op, k \in Key : Holding(t, op, k)
             \/ mvcc_insert(t) \/ Found(t) \/ Passed(t) \/ NotFound(t)
             \/ SpuriousWake(t) \/ Commit(t) \/ Abort(t)
      PROVE  BlockedAsRecorded(u)'
  <2>1. UNCHANGED <<queue, waits_for>>
    BY <1>6 DEF Holding, mvcc_insert, Found, Passed, NotFound, ScanEnds, SpuriousWake,
                Commit, Abort, EndAs, locks
  <2>2. \E p \in Places \ {"asleep"} : pc' = [pc EXCEPT ![t] = p]
    BY <1>6 DEF Holding, mvcc_insert, Found, Passed, NotFound, ScanEnds, SpuriousWake,
                Commit, Abort, EndAs, Places
  <2>3. u # t /\ pc[u] = "asleep"
    BY <1>2, <2>2
  <2>4. \/ UNCHANGED call
        \/ \E c : call' = [call EXCEPT ![t] = c]
    BY <1>6 DEF Holding, mvcc_insert, Found, Passed, NotFound, ScanEnds, SpuriousWake,
                Commit, Abort, EndAs
  <2>5. call'[u] = call[u]
    BY <1>2, <2>3, <2>4
  <2> QED
    BY <1>1, <2>1, <2>3, <2>5, OtherSleepers
<1> QED
  BY <1>3, <1>4, <1>5, <1>6, StepCases

\* No wake-up is missed: whatever is granted, withdrawn and released around it, a
\* sleeper's recorded blockers hold their locks ahead of it until it is notified.
THEOREM NoWakeupIsLost == Spec => []NoLostWakeup
<1>1. Init => NoLostWakeup
  BY DEF Init, NoLostWakeup, Asleep
<1> QED
  BY <1>1, WakeupStep, InvariantHolds, PTL DEF Spec

\* A set of sleepers that blocks itself would be a cycle of recorded edges.
THEOREM NoSetStalls == Spec => []NoStalledSet
<1>1. IInv /\ NoLostWakeup /\ WaitsForAcyclic => NoStalledSet
  <2> SUFFICES ASSUME IInv, NoLostWakeup, WaitsForAcyclic,
                      NEW S \in SUBSET Asleep, S # {},
                      \A t \in S : BlockersNow(t) \subseteq S
               PROVE  FALSE
    BY DEF NoStalledSet
  <2>1. S \in SUBSET DOMAIN waits_for
    BY DEF Asleep, IInv, TypeOK, Types
  <2>2. \A t \in S : waits_for[t] # {} /\ waits_for[t] \subseteq S
    BY DEF NoLostWakeup
  <2>3. CyclicCore(waits_for, S)
    BY <2>2 DEF CyclicCore
  <2> QED
    BY <2>1, <2>3 DEF WaitsForAcyclic, Acyclic
<1> QED
  BY <1>1, InvariantHolds, NoWakeupIsLost, WaitsForStaysAcyclic, PTL
-------------------------------------------------------------------------------
(* Visibility.  A version is marked by a transaction no older than its      *)
(* creator, and none ever leaves the heap.                                  *)

InOrder(versions) ==
    /\ \A i \in DOMAIN versions :
           versions[i].xmax # None => versions[i].xmin <= versions[i].xmax
    /\ \E i \in DOMAIN versions : versions[i].xmin = Loader

VersionsInOrder == Loader \in Committed /\ \A k \in Key : InOrder(heap[k])

LEMMA NewInOrder ==
    ASSUME NEW versions \in Seq(Version), InOrder(versions), NEW t \in Xid
    PROVE  InOrder(WithNew(versions, t))
<1> DEFINE all == WithNew(versions, t)
           n == Len(versions)
<1>1. /\ all \in Seq(Version) /\ Len(all) = n + 1 /\ n \in Nat
      /\ all[1] = [xmin |-> t, xmax |-> None]
      /\ \A i \in 1 .. n : all[i + 1] = versions[i]
  BY WithNewType
<1>2. DOMAIN all = 1 .. n + 1 /\ DOMAIN versions = 1 .. n
  BY <1>1
<1> HIDE DEF all, n
<1>3. ASSUME NEW i \in DOMAIN all, all[i].xmax # None
      PROVE  all[i].xmin <= all[i].xmax
  <2>1. i # 1
    BY <1>1, <1>3
  <2>2. i - 1 \in 1 .. n /\ i = (i - 1) + 1
    BY <1>1, <1>2, <2>1
  <2>3. all[i] = versions[i - 1]
    BY <1>1, <2>2
  <2> QED
    BY <1>2, <1>3, <2>2, <2>3 DEF InOrder
<1>4. PICK i \in 1 .. n : versions[i].xmin = Loader
  BY <1>2 DEF InOrder
<1>5. i + 1 \in DOMAIN all /\ all[i + 1].xmin = Loader
  BY <1>1, <1>2, <1>4
<1> QED
  BY <1>3, <1>5 DEF InOrder, all

LEMMA MarkedInOrder ==
    ASSUME NEW versions \in Seq(Version), InOrder(versions), NEW t \in Xid,
           NEW i \in DOMAIN versions, versions[i].xmin <= t
    PROVE  InOrder([versions EXCEPT ![i].xmax = t])
<1> DEFINE marked == [versions EXCEPT ![i].xmax = t]
<1>1. versions[i] \in Version
  OBVIOUS
<1>2. /\ DOMAIN marked = DOMAIN versions
      /\ marked[i].xmin = versions[i].xmin /\ marked[i].xmax = t
      /\ \A j \in DOMAIN versions \ {i} : marked[j] = versions[j]
  BY <1>1 DEF Version
<1> HIDE DEF marked
<1>3. InOrder(marked)
  BY <1>2 DEF InOrder
<1> QED
  BY <1>3 DEF marked

LEMMA UndoneInOrder ==
    ASSUME NEW versions \in Seq(Version), InOrder(versions), NEW t \in Xid
    PROVE  InOrder([i \in DOMAIN versions |-> Undone(versions[i], t)])
<1> DEFINE undone == [i \in DOMAIN versions |-> Undone(versions[i], t)]
<1>1. ASSUME NEW i \in DOMAIN versions
      PROVE  /\ undone[i].xmin = versions[i].xmin
             /\ undone[i].xmax \in {versions[i].xmax, None}
  <2>1. versions[i] \in Version
    OBVIOUS
  <2> QED
    BY <2>1 DEF Undone, Version
<1>2. DOMAIN undone = DOMAIN versions
  OBVIOUS
<1> HIDE DEF undone
<1>3. InOrder(undone)
  BY <1>1, <1>2 DEF InOrder
<1> QED
  BY <1>3 DEF undone

\* What one call writes on the versions of its key.
LEMMA FoundInOrder ==
    ASSUME IInv, VersionsInOrder, NEW t \in Xid, Found(t) \/ NotFound(t) \/ mvcc_insert(t),
           NEW k \in Key
    PROVE  InOrder(heap'[k])
<1> DEFINE own == call[t].key
           old == heap[own]
           marked == [old EXCEPT ![Position(t)].xmax = t]
<1>1. heap \in [Key -> Seq(Version)] /\ InOrder(heap[k])
  BY DEF IInv, TypeOK, Types, VersionsInOrder
<1>2. own \in Key
  <2>1. CASE Found(t) \/ NotFound(t)
    BY <2>1, ScanningAt DEF Found, NotFound
  <2>2. CASE mvcc_insert(t)
    BY <2>2 DEF mvcc_insert, IInv, OneScanner, Call
  <2> QED
    BY <2>1, <2>2
<1>3. old \in Seq(Version) /\ InOrder(old)
  BY <1>1, <1>2 DEF VersionsInOrder
<1>4. \/ UNCHANGED heap
      \/ heap' = [heap EXCEPT ![own] = WithNew(old, t)]
      \/ Found(t) /\ heap' = [heap EXCEPT ![own] = WithNew(marked, t)]
      \/ Found(t) /\ heap' = [heap EXCEPT ![own] = marked]
  BY DEF Found, NotFound, mvcc_insert, data
<1>5. Found(t) => marked \in Seq(Version) /\ InOrder(marked)
  <2> SUFFICES ASSUME Found(t) PROVE marked \in Seq(Version) /\ InOrder(marked)
    OBVIOUS
  <2>1. /\ Position(t) \in 1 .. Len(old) /\ Here(t) \in Version
        /\ Here(t) = old[Position(t)] /\ is_visible(Here(t), t)
    BY ScanningAt DEF Found, Wanted, Here
  <2>2. Position(t) \in DOMAIN old
    BY <1>3, <2>1
  <2>3. old[Position(t)].xmin <= t
    BY <2>1 DEF is_visible, InSnapshot, Version, Xid
  <2> HIDE DEF old
  <2> QED
    BY <1>3, <2>1, <2>2, <2>3, MarkedType, MarkedInOrder
<1>6. InOrder(WithNew(old, t)) /\ (Found(t) => InOrder(WithNew(marked, t)))
  <2> HIDE DEF old, marked
  <2> QED
    BY <1>3, <1>5, NewInOrder
<1>7. \/ heap'[k] = heap[k]
      \/ heap'[k] = WithNew(old, t)
      \/ Found(t) /\ heap'[k] \in {marked, WithNew(marked, t)}
  <2> HIDE DEF old, marked
  <2> QED
    BY <1>1, <1>2, <1>4
<1> HIDE DEF old, marked
<1> QED
  BY <1>1, <1>5, <1>6, <1>7

LEMMA InOrderStep == IInv /\ VersionsInOrder /\ [Next]_vars => VersionsInOrder'
<1> SUFFICES ASSUME IInv, VersionsInOrder, [Next]_vars
             PROVE  VersionsInOrder'
  OBVIOUS
<1>1. Loader \in Committed'
  BY CommittedGrows DEF VersionsInOrder, Committed
<1> SUFFICES ASSUME NEW k \in Key PROVE InOrder(heap'[k])
  BY <1>1 DEF VersionsInOrder
<1>2. heap[k] \in Seq(Version) /\ InOrder(heap[k])
  BY DEF IInv, TypeOK, Types, VersionsInOrder
<1>3. CASE UNCHANGED heap
  BY <1>2, <1>3
<1>4. ASSUME NEW t \in Xid, Found(t) \/ NotFound(t) \/ mvcc_insert(t)
      PROVE  InOrder(heap'[k])
  BY <1>4, FoundInOrder
<1>5. ASSUME NEW t \in Xid, Abort(t)
      PROVE  InOrder(heap'[k])
  <2>1. heap'[k] = [i \in DOMAIN heap[k] |-> Undone(heap[k][i], t)]
    BY <1>5 DEF Abort
  <2> QED
    BY <1>2, <2>1, UndoneInOrder
<1>6. ASSUME NEW t \in Xid,
             \/ \E op \in Op, j \in Key : Holding(t, op, j)
             \/ \E j \in Key : \E q, i : Loop(t, j, q, i)
             \/ Passed(t) \/ SpuriousWake(t) \/ Commit(t)
             \/ \E j \in Key : Release(t, j)
      PROVE  UNCHANGED heap
  BY <1>6 DEF Holding, Loop, Passed, SpuriousWake, Commit, Release, data
<1>7. begin_transaction \/ UNCHANGED vars => UNCHANGED heap
  BY DEF begin_transaction, data, vars
<1> QED
  BY <1>3, <1>4, <1>5, <1>6, <1>7, StepCases

\* The last transaction in t's view that marked a version of k.
LEMMA LastMarker ==
    ASSUME IInv, NEW M \in SUBSET Xid, M # {}
    PROVE  \E u \in M : \A w \in M : w <= u
<1> DEFINE back == {n \in Nat : \E u \in M : n = MaxXid - u}
<1>1. PICK x \in M : TRUE
  OBVIOUS
<1>2. x \in Nat /\ MaxXid - x \in Nat /\ MaxXid - x \in back
  BY <1>1 DEF Xid
<1>3. PICK n \in back : \A m \in back : n <= m
  <2>1. back \in SUBSET Nat /\ back # {}
    BY <1>2
  <2> HIDE DEF back
  <2> QED
    BY <2>1, LeastElement
<1>4. PICK u \in M : n = MaxXid - u
  OBVIOUS
<1>5. ASSUME NEW w \in M
      PROVE  w <= u
  <2>1. u \in 1 .. MaxXid /\ w \in 1 .. MaxXid
    BY DEF Xid
  <2>2. MaxXid - w \in back
    BY <2>1
  <2>3. MaxXid - u <= MaxXid - w
    BY <1>3, <1>4, <2>2
  <2> QED
    BY <2>1, <2>3
<1> QED
  BY <1>5

\* If t saw no version, the last marker in its view would have left a version
\* of its own, marked in turn by a later one.
LEMMA InOrderShows == IInv /\ VersionsInOrder => RowStaysVisible
<1> SUFFICES ASSUME IInv, VersionsInOrder,
                    NEW k \in Key, \A u \in Xid : ~Removed(k, u),
                    NEW t \in Xid, tx_status[t] = "ACTIVE",
                    \A i \in DOMAIN heap[k] : ~is_visible(heap[k][i], t)
             PROVE  FALSE
  BY DEF RowStaysVisible, VisibleTo
<1> DEFINE view == {u \in Xid : u = t \/ InSnapshot(u, t)}
           markers == {u \in view : \E i \in DOMAIN heap[k] : heap[k][i].xmax = u}
<1>1. /\ heap[k] \in Seq(Version) /\ InOrder(heap[k]) /\ Loader \in Committed
      /\ \A i \in DOMAIN heap[k] : heap[k][i] \in Version
  BY DEF IInv, TypeOK, Types, VersionsInOrder
<1>2. Loader \in view
  <2>1. t # Loader /\ Loader \in Xid
    BY <1>1 DEF Committed
  <2> QED
    BY <1>1, <2>1 DEF InSnapshot, Xid, Loader
<1>3. ASSUME NEW i \in DOMAIN heap[k], heap[k][i].xmin \in view
      PROVE  heap[k][i].xmax \in markers
  <2>1. heap[k][i].xmax # None /\ (heap[k][i].xmax = t \/ InSnapshot(heap[k][i].xmax, t))
    BY <1>3 DEF is_visible
  <2> QED
    BY <1>1, <2>1 DEF Version
<1>4. markers # {} /\ markers \in SUBSET Xid
  BY <1>1, <1>2, <1>3 DEF InOrder
<1>5. PICK u \in markers : \A w \in markers : w <= u
  <2> HIDE DEF markers
  <2> QED
    BY <1>4, LastMarker
<1>6. u \in view /\ u \in Xid /\ \E i \in DOMAIN heap[k] : heap[k][i].xmax = u
  OBVIOUS
<1>7. PICK i \in DOMAIN heap[k] : heap[k][i].xmin = u /\ heap[k][i].xmax # u
  BY <1>6 DEF Removed
<1> HIDE DEF markers, view
<1>8. heap[k][i].xmax \in markers
  BY <1>3, <1>6, <1>7
<1>9. heap[k][i].xmax \in Xid /\ heap[k][i].xmax <= u
  BY <1>4, <1>5, <1>8
<1>10. u <= heap[k][i].xmax
  BY <1>1, <1>7, <1>9 DEF InOrder, Xid, None
<1> QED
  BY <1>6, <1>7, <1>9, <1>10 DEF Xid

\* At every moment a row that nobody has removed has a version that a running
\* transaction may see, although updates replace its versions, abort takes marks
\* back, and two transactions may hold the lock of its key at once.
THEOREM RowsStayVisible == Spec => []RowStaysVisible
<1>1. Init => VersionsInOrder
  BY DEF Init, VersionsInOrder, InOrder, Committed, Loader, Xid
<1> QED
  BY <1>1, InOrderStep, InOrderShows, InvariantHolds, PTL DEF Spec

-------------------------------------------------------------------------------
(* Reads that find nothing.                                                 *)

\* Of the versions a read has passed, it could see by now only those of transactions
\* that have committed since it began.
PassedUnseen ==
    /\ HeapFree => overtaken = {}
    /\ \A t \in Xid : pc[t] = "scanning" /\ call[t].op = "read" =>
           \A i \in 1 .. at - 1 :
               is_visible(heap[call[t].key][i], t) => heap[call[t].key][i].xmin \in overtaken

\* Steps that leave a scan where it is, and the statuses it goes by.
LEMMA ScanUndisturbed ==
    ASSUME PassedUnseen, UNCHANGED <<at, overtaken>>,
           HeapFree \/ (heap' = heap /\ Committed' = Committed),
           \A u \in Xid : pc'[u] = "scanning" <=> pc[u] = "scanning",
           \A u \in Xid : pc[u] = "scanning" => call'[u] = call[u]
    PROVE  PassedUnseen'
<1>1. HeapFree' <=> HeapFree
  BY DEF HeapFree
<1>2. CASE HeapFree
  BY <1>1, <1>2 DEF PassedUnseen, HeapFree
<1>3. CASE ~HeapFree
  <2>1. heap' = heap /\ Committed' = Committed
    BY <1>3
  <2> QED
    BY <1>1, <1>3, <2>1 DEF PassedUnseen, is_visible, InSnapshot
<1> QED
  BY <1>2, <1>3

LEMMA PassesUnwanted ==
    ASSUME IInv, PassedUnseen, NEW t \in Xid, Passed(t)
    PROVE  PassedUnseen'
<1>1. /\ Scanning(t) /\ ~Wanted(call[t].op, Here(t), t)
      /\ at' = Position(t) + 1 /\ pc' = [pc EXCEPT ![t] = "scanning"]
      /\ UNCHANGED <<tx_status, heap, call, overtaken>>
  BY DEF Passed, data
<1>2. /\ \A u \in Xid : pc[u] = "scanning" => u = t
      /\ pc[t] \in {"locked", "scanning"} /\ Position(t) \in Nat
  BY <1>1, ScanningAt
<1>3. pc'[t] = "scanning" /\ \A u \in Xid : pc'[u] = "scanning" => u = t
  BY <1>1, <1>2 DEF IInv, TypeOK, Types
<1>4. ~HeapFree' /\ Committed' = Committed
  BY <1>1, <1>3 DEF HeapFree, Committed
<1> SUFFICES ASSUME call[t].op = "read", NEW i \in 1 .. Position(t),
                    is_visible(heap[call[t].key][i], t)
             PROVE  heap[call[t].key][i].xmin \in overtaken
  BY <1>1, <1>2, <1>3, <1>4 DEF PassedUnseen, is_visible, InSnapshot
<1>5. i # Position(t)
  BY <1>1 DEF Wanted, Here
<1>6. pc[t] = "scanning" /\ Position(t) = at
  BY <1>2, <1>5 DEF Position
<1> QED
  BY <1>2, <1>5, <1>6 DEF PassedUnseen

LEMMA CommitOvertakes ==
    ASSUME IInv, PassedUnseen, NEW t \in Xid, Commit(t)
    PROVE  PassedUnseen'
<1>1. /\ pc[t] = "idle" /\ pc' = [pc EXCEPT ![t] = "releasing"]
      /\ tx_status' = [tx_status EXCEPT ![t] = "COMMITTED"]
      /\ call' = [call EXCEPT ![t] = NoCall] /\ UNCHANGED <<heap, at>>
      /\ overtaken' = IF HeapFree THEN {} ELSE overtaken \cup {t}
  BY DEF Commit, EndAs
<1>2. Types
  BY DEF IInv, TypeOK
<1>3. \A u \in Xid : /\ pc'[u] = "scanning" <=> pc[u] = "scanning"
                     /\ pc[u] = "scanning" => u # t /\ call'[u] = call[u]
  BY <1>1, <1>2 DEF Types
<1>4. HeapFree' <=> HeapFree
  BY <1>3 DEF HeapFree
<1>5. \A u \in Xid : u \in Committed' <=> u \in Committed \/ u = t
  BY <1>1, <1>2 DEF Types, Committed
<1> SUFFICES ASSUME NEW u \in Xid, pc[u] = "scanning", call[u].op = "read",
                    NEW i \in 1 .. at - 1, is_visible(heap[call[u].key][i], u)'
             PROVE  heap[call[u].key][i].xmin \in overtaken'
  BY <1>1, <1>3, <1>4 DEF PassedUnseen
<1> DEFINE v == heap[call[u].key][i]
<1>6. v \in Version
  <2>1. call[u] \in Call /\ at \in 1 .. Len(heap[call[u].key])
    BY DEF IInv, OneScanner
  <2>2. heap[call[u].key] \in Seq(Version)
    BY <1>2, <2>1 DEF Types, Call
  <2>3. Len(heap[call[u].key]) \in Nat
    BY <2>2
  <2>4. i \in 1 .. Len(heap[call[u].key])
    BY <2>1, <2>3
  <2> QED
    BY <2>2, <2>4
<1>7. ~HeapFree /\ overtaken' = overtaken \cup {t}
  BY <1>1 DEF HeapFree
<1>8. heap'[call'[u].key][i] = v /\ is_visible(v, u)'
  BY <1>1, <1>3
<1>9. CASE v.xmin = t
  BY <1>7, <1>9
<1>10. CASE v.xmin # t
  <2>1. is_visible(v, u)
    BY <1>5, <1>6, <1>8, <1>10 DEF is_visible, InSnapshot, Version
  <2> QED
    BY <1>7, <2>1 DEF PassedUnseen
<1> QED
  BY <1>9, <1>10

LEMMA PassedUnseenStep == IInv /\ PassedUnseen /\ [Next]_vars => PassedUnseen'
<1> SUFFICES ASSUME IInv, PassedUnseen, [Next]_vars PROVE PassedUnseen'
  OBVIOUS
<1>1. Types
  BY DEF IInv, TypeOK
<1>2. CASE begin_transaction
  <2>1. tx_status[next_xid] = "unborn" /\ pc[next_xid] \notin Running /\ next_xid \in Xid
    BY <1>2 DEF begin_transaction, IInv, StatusTold, Xid
  <2>2. Committed' = Committed /\ UNCHANGED <<heap, at, overtaken, call>>
    BY <1>1, <1>2, <2>1 DEF begin_transaction, Committed, Types, data
  <2>3. \A u \in Xid : pc'[u] = "scanning" <=> pc[u] = "scanning"
    BY <1>1, <1>2, <2>1 DEF begin_transaction, Running, Types
  <2> QED
    BY <2>2, <2>3, ScanUndisturbed
<1>3. ASSUME NEW t \in Xid,
             \/ \E op \in Op, k \in Key : Holding(t, op, k)
             \/ \E k \in Key : \E q, i : Loop(t, k, q, i)
             \/ SpuriousWake(t)
             \/ \E k \in Key : Release(t, k)
      PROVE  PassedUnseen'
  <2>1. UNCHANGED <<heap, tx_status, at, overtaken>>
    BY <1>3 DEF Holding, Loop, SpuriousWake, Release, data
  <2>2. \A u \in Xid : /\ pc'[u] = "scanning" <=> pc[u] = "scanning"
                       /\ pc[u] = "scanning" => call'[u] = call[u]
    <3>1. ASSUME NEW op \in Op, NEW k \in Key, Holding(t, op, k)
          PROVE  \A u \in Xid : /\ pc'[u] = "scanning" <=> pc[u] = "scanning"
                                /\ pc[u] = "scanning" => call'[u] = call[u]
      BY <1>1, <3>1 DEF Holding, Types
    <3>2. ASSUME NEW k \in Key, NEW q, NEW i, Loop(t, k, q, i)
          PROVE  \A u \in Xid : /\ pc'[u] = "scanning" <=> pc[u] = "scanning"
                                /\ pc[u] = "scanning" => call'[u] = call[u]
      BY <1>1, <3>2 DEF Loop, Attempt, Types
    <3>3. CASE SpuriousWake(t)
      BY <1>1, <3>3 DEF SpuriousWake, Types
    <3>4. ASSUME NEW k \in Key, Release(t, k)
          PROVE  \A u \in Xid : /\ pc'[u] = "scanning" <=> pc[u] = "scanning"
                                /\ pc[u] = "scanning" => call'[u] = call[u]
      BY <1>1, <3>4 DEF Release, Notified, Types
    <3> QED
      BY <1>3, <3>1, <3>2, <3>3, <3>4
  <2>3. Committed' = Committed
    BY <2>1 DEF Committed
  <2> QED
    BY <2>1, <2>2, <2>3, ScanUndisturbed
<1>4. ASSUME NEW t \in Xid, mvcc_insert(t) \/ Abort(t)
      PROVE  PassedUnseen'
  <2>1. HeapFree /\ UNCHANGED <<at, overtaken>>
    BY <1>4 DEF mvcc_insert, Abort, EndAs
  <2>2. \A u \in Xid : pc'[u] # "scanning"
    BY <1>1, <1>4, <2>1 DEF mvcc_insert, Abort, EndAs, HeapFree, Types
  <2> QED
    BY <2>1, <2>2, ScanUndisturbed DEF HeapFree
<1>5. ASSUME NEW t \in Xid, Found(t) \/ NotFound(t)
      PROVE  PassedUnseen'
  <2>1. /\ ScanEnds(t) /\ \A u \in Xid : pc[u] = "scanning" => u = t
    BY <1>5, FoundCases, NotFoundCases, ScanningAt
  <2>2. overtaken' = {} /\ \A u \in Xid : pc'[u] # "scanning"
    BY <1>1, <2>1 DEF ScanEnds, Types
  <2> QED
    BY <2>2 DEF PassedUnseen
<1>6. CASE UNCHANGED vars
  BY <1>6, ScanUndisturbed DEF vars, Committed
<1> QED
  BY <1>2, <1>3, <1>4, <1>5, <1>6, PassesUnwanted, CommitOvertakes, StepCases

\* A read that comes back with nothing, of a row nobody has removed, was overtaken by
\* a commit: some version was there to be seen all along, the read has passed it, and
\* what it has passed it can see only if its creator has committed since.
THEOREM OvertakenReadsMiss == Spec => OnlyOvertakenReadsMiss
<1> DEFINE Misses(t) == /\ NotFound(t)
                        /\ call[t].op = "read"
                        /\ \A u \in Xid : ~Removed(call[t].key, u)
           Overtaken(t) == \E i \in VisibleTo(call[t].key, t) :
                               heap[call[t].key][i].xmin \in overtaken
<1>1. Init => PassedUnseen
  BY DEF Init, PassedUnseen
<1>2. ASSUME IInv, PassedUnseen, RowStaysVisible, NEW t \in Xid, Misses(t)
      PROVE  Overtaken(t)
  <2>1. /\ Scanning(t) /\ ~is_visible(Here(t), t)
        /\ Position(t) = Len(heap[call[t].key])
    BY <1>2 DEF NotFound, Wanted
  <2>2. /\ call[t].key \in Key /\ pc[t] \in {"locked", "scanning"}
        /\ heap[call[t].key] \in Seq(Version)
    BY <1>2, <2>1, ScanningAt DEF IInv, TypeOK, Types
  <2>3. tx_status[t] = "ACTIVE"
    BY <1>2, <2>2 DEF IInv, StatusTold, Running
  <2>4. PICK i \in DOMAIN heap[call[t].key] : is_visible(heap[call[t].key][i], t)
    BY <1>2, <2>2, <2>3 DEF RowStaysVisible, VisibleTo
  <2>5. i \in 1 .. Position(t) /\ i # Position(t) /\ Position(t) \in Nat
    BY <2>1, <2>2, <2>4 DEF Here
  <2>6. pc[t] = "scanning" /\ Position(t) = at
    BY <2>2, <2>5 DEF Position
  <2>7. i \in 1 .. at - 1
    BY <2>5, <2>6
  <2>8. heap[call[t].key][i].xmin \in overtaken
    BY <1>2, <2>4, <2>6, <2>7 DEF PassedUnseen
  <2> QED
    BY <2>4, <2>8 DEF VisibleTo
<1>3. IInv /\ PassedUnseen /\ RowStaysVisible =>
          \A t \in Xid : Misses(t) => Overtaken(t)
  BY <1>2
<1>4. IInv /\ PassedUnseen /\ RowStaysVisible =>
          [\A t \in Xid :
              LET k == call[t].key
              IN  /\ NotFound(t)
                  /\ call[t].op = "read"
                  /\ \A u \in Xid : ~Removed(k, u)
                  => \E i \in VisibleTo(k, t) : heap[k][i].xmin \in overtaken]_vars
  BY <1>3
<1> QED
  BY <1>1, <1>4, PassedUnseenStep, RowsStayVisible, InvariantHolds, PTL
     DEF Spec, OnlyOvertakenReadsMiss
===============================================================================
