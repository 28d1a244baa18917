--------------------------- MODULE BufferPool_proofs ---------------------------
(***************************************************************************)
(* Proofs about the buffer pool, for every number of frames and pages.     *)
(***************************************************************************)
EXTENDS BufferPoolProps, SequenceTheorems, TLAPS

-------------------------------------------------------------------------------
(* The inductive invariant.                                                 *)

\* A page has a frame only if it is in the file.
OnlyPagesOfFile == \A p \in PageId : table[p] # NoFrame => p \in DOMAIN file

\* The pins of a page's frame are its users, who have that frame's address.
PinsAreUsers ==
    \A p \in PageId :
        /\ users[p] = IF table[p] = NoFrame THEN 0 ELSE frames[table[p]].pin
        /\ users[p] > 0 => pointer[p] = table[p]

\* How many frames ago the sweep passed frame f, or would have.
Age(f) == IF f < hand THEN hand - f ELSE hand - f + NFrames

\* A frame passed once is pinned or has no reference left, and one passed
\* twice is pinned.
PassedFrames ==
    pc = "sweeping" => \A f \in Frame :
        /\ Age(f) <= scanned => frames[f].pin > 0 \/ frames[f].ref = 0
        /\ Age(f) + NFrames <= scanned => frames[f].pin > 0

\* A frame neither dirty nor being written shows what is in the file, and a
\* page just allocated is zeros there.
CleanFramesAgree ==
    /\ \A p \in DOMAIN file :
        table[p] # NoFrame /\ ~frames[table[p]].dirty /\ p \notin touched
            => frames[table[p]].data = file[p]
    /\ \A p \in touched : users[p] > 0
    /\ pc = "sweeping" /\ is_new => file[want] = Zero

FrameInv == Types /\ OneFramePerPage /\ OnlyPagesOfFile /\ PinsAreUsers

IInv == FrameInv /\ PassedFrames /\ CleanFramesAgree

USE BoundsAssumption, ContentAssumption

\* Frames and pages are positive numbers, and the hand goes round.
LEMMA Numbers ==
    /\ NoFrame \notin Frame /\ NoPage \notin PageId /\ 1 \in Frame
    /\ 0 \in 0 .. Limit + 1 /\ Limit \in Nat /\ 0 \in 0 .. MaxPins
    /\ \A f \in Frame : Next1(f) \in Frame
BY DEF Frame, PageId, NoFrame, NoPage, Limit, Next1

\* What the types say of one frame and one page.
LEMMA Fields ==
    ASSUME Types
    PROVE  /\ DOMAIN file \subseteq PageId
           /\ \A f \in Frame : frames[f] \in FrameState
           /\ \A p \in PageId : table[p] # NoFrame => table[p] \in Frame
           /\ \A p \in PageId : users[p] \in 0 .. MaxPins
BY DEF Types, PageId

LEMMA States ==
    ASSUME NEW fr \in FrameState
    PROVE  fr.pin \in Nat /\ fr.ref \in 0 .. 1 /\ fr.data \in Content
<1>1. fr.pin \in Nat
  BY DEF FrameState
<1>2. fr.ref \in 0 .. 1
  BY DEF FrameState
<1>3. fr.data \in Content
  BY DEF FrameState
<1> QED
  BY <1>1, <1>2, <1>3

\* What the changes of a frame do to its fields.
LEMMA PinnedFrame ==
    ASSUME NEW fr \in FrameState
    PROVE  /\ Pinned(fr) \in FrameState
           /\ Pinned(fr).pin = fr.pin + 1
           /\ Pinned(fr).page = fr.page /\ Pinned(fr).valid = fr.valid
           /\ Pinned(fr).data = fr.data /\ Pinned(fr).dirty = fr.dirty
<1>1. fr.pin + 1 \in Nat
  BY DEF FrameState
<1>2. Pinned(fr) \in FrameState
  <2>1. [fr EXCEPT !.pin = @ + 1] \in FrameState
    BY <1>1 DEF FrameState
  <2>2. \A g \in FrameState : [g EXCEPT !.ref = 1] \in FrameState
    BY DEF FrameState
  <2> QED
    BY <2>1, <2>2 DEF Pinned
<1>3. Pinned(fr).pin = fr.pin + 1 /\ Pinned(fr).page = fr.page /\ Pinned(fr).data = fr.data
  BY DEF FrameState, Pinned
<1>4. Pinned(fr).valid = fr.valid
  BY DEF FrameState, Pinned
<1>5. Pinned(fr).dirty = fr.dirty
  BY DEF FrameState, Pinned
<1> QED
  BY <1>2, <1>3, <1>4, <1>5

LEMMA PassedFrame ==
    ASSUME NEW fr \in FrameState
    PROVE  /\ Passed(fr).pin = fr.pin
           /\ Passed(fr).page = fr.page /\ Passed(fr).valid = fr.valid
           /\ Passed(fr).data = fr.data /\ Passed(fr).dirty = fr.dirty
           /\ fr.pin = 0 /\ fr.ref > 0 => Passed(fr).ref = 0
           /\ fr.pin > 0 \/ fr.ref > 0 => Passed(fr) \in FrameState
BY DEF FrameState, Passed

LEMMA UnpinnedFrame ==
    ASSUME NEW fr \in FrameState, NEW dirty \in BOOLEAN
    PROVE  /\ Unpinned(fr, dirty) \in FrameState
           /\ Unpinned(fr, dirty).pin = IF fr.pin > 0 THEN fr.pin - 1 ELSE fr.pin
           /\ Unpinned(fr, dirty).page = fr.page
           /\ Unpinned(fr, dirty).valid = fr.valid
           /\ Unpinned(fr, dirty).data = fr.data
           /\ ~Unpinned(fr, dirty).dirty => ~fr.dirty /\ ~dirty
<1>1. /\ (fr.dirty \/ dirty) \in BOOLEAN
      /\ (IF fr.pin > 0 THEN fr.pin - 1 ELSE fr.pin) \in Nat
  BY DEF FrameState
<1>2. Unpinned(fr, dirty) \in FrameState
  BY <1>1 DEF FrameState, Unpinned
<1>3. ~Unpinned(fr, dirty).dirty => ~fr.dirty /\ ~dirty
  BY DEF FrameState, Unpinned
<1>4. /\ Unpinned(fr, dirty).pin = IF fr.pin > 0 THEN fr.pin - 1 ELSE fr.pin
      /\ Unpinned(fr, dirty).page = fr.page
      /\ Unpinned(fr, dirty).valid = fr.valid
      /\ Unpinned(fr, dirty).data = fr.data
  BY DEF FrameState, Unpinned
<1> QED
  BY <1>2, <1>3, <1>4

LEMMA ChangedFrame ==
    ASSUME NEW fr \in FrameState, NEW content \in Content
    PROVE  /\ [fr EXCEPT !.data = content] \in FrameState
           /\ [fr EXCEPT !.dirty = FALSE] \in FrameState
BY DEF FrameState

\* The initial state: no page, no frame in use.
LEMMA InitIInv == Init => IInv
<1> SUFFICES ASSUME Init PROVE IInv
  OBVIOUS
<1>1. EmptyFrame \in FrameState
  BY DEF FrameState, EmptyFrame
<1>2. file \in Seq(Content) /\ Len(file) = 0 /\ DOMAIN file = {}
  BY DEF Init
<1>3. Types
  <2>1. frames \in [Frame -> FrameState] /\ users \in [PageId -> 0 .. MaxPins]
    BY <1>1, Numbers DEF Init
  <2>2. Len(file) <= MaxPages
    BY <1>2
  <2> QED
    BY <1>2, <2>1, <2>2, Numbers DEF Types, Init
<1>4. OneFramePerPage /\ OnlyPagesOfFile /\ PinsAreUsers
  BY Numbers DEF Init, EmptyFrame, OneFramePerPage, OnlyPagesOfFile, PinsAreUsers
<1>5. PassedFrames /\ CleanFramesAgree
  BY <1>2 DEF Init, PassedFrames, CleanFramesAgree
<1> QED
  BY <1>3, <1>4, <1>5 DEF IInv, FrameInv

-------------------------------------------------------------------------------
(* Types, frames and pins.                                                  *)

\* A page found in the table: its frame gets a pin.
Hit(p) ==
    /\ pc = "idle" /\ users[p] < MaxPins /\ table[p] # NoFrame
    /\ frames' = [frames EXCEPT ![table[p]] = Pinned(@)]
    /\ Return(p, table[p])
    /\ UNCHANGED <<file, table, pc, sweep>>

\* A page not found.
Miss(p) ==
    /\ pc = "idle" /\ users[p] < MaxPins /\ table[p] = NoFrame
    /\ Seek(p, FALSE)
    /\ UNCHANGED file

LEMMA FetchCases == \A p : fetchPage(p) => Hit(p) \/ Miss(p)
BY DEF fetchPage, Hit, Miss

LEMMA HitKeepsFrames ==
    ASSUME FrameInv, NEW p \in DOMAIN file, Hit(p)
    PROVE  FrameInv'
<1> USE DEF FrameInv
<1>1. p \in PageId /\ table[p] \in Frame
  BY Fields DEF Hit
<1>2. frames[table[p]] \in FrameState /\ users[p] \in 0 .. MaxPins
  BY <1>1, Fields
<1>3. users[p] + 1 \in 0 .. MaxPins
  BY <1>2 DEF Hit
<1>4. Types'
  <2>1. frames' \in [Frame -> FrameState]
    BY <1>1, <1>2, PinnedFrame DEF Hit, Types
  <2>2. users' \in [PageId -> 0 .. MaxPins] /\ pointer' \in [PageId -> Frame \cup {NoFrame}]
    BY <1>1, <1>3 DEF Hit, Return, Types
  <2> QED
    BY <2>1, <2>2 DEF Hit, Return, Types, sweep
<1>5. OneFramePerPage'
  BY <1>1, <1>2, PinnedFrame DEF Hit, OneFramePerPage, Types
<1>6. OnlyPagesOfFile'
  BY DEF Hit, OnlyPagesOfFile
<1>7. PinsAreUsers'
  <2> SUFFICES ASSUME NEW q \in PageId
               PROVE  /\ users'[q] = IF table'[q] = NoFrame THEN 0 ELSE frames'[table'[q]].pin
                      /\ users'[q] > 0 => pointer'[q] = table'[q]
    BY DEF PinsAreUsers
  <2>1. CASE q = p
    BY <1>1, <1>2, <2>1, PinnedFrame, Numbers DEF Hit, Return, PinsAreUsers, Types
  <2>2. CASE q # p
    <3>1. table[q] # NoFrame => table[q] # table[p]
      BY <1>1, <2>2, Fields DEF OneFramePerPage
    <3> QED
      BY <1>1, <2>2, <3>1, Fields DEF Hit, Return, PinsAreUsers, Types
  <2> QED
    BY <2>1, <2>2
<1> QED
  BY <1>4, <1>5, <1>6, <1>7

LEMMA MissKeepsFrames ==
    ASSUME FrameInv, NEW p \in DOMAIN file, Miss(p)
    PROVE  FrameInv'
<1> USE DEF FrameInv
<1>1. p \in PageId
  BY Fields
<1>2. Types'
  <2>1. /\ pc' = "sweeping" /\ want' = p /\ is_new' = FALSE /\ scanned' = 0
        /\ UNCHANGED <<file, frames, table, hand, pointer, users, touched>>
    BY DEF Miss, Seek, callers
  <2>2. want' \in PageId /\ want' \in DOMAIN file' /\ table'[want'] = NoFrame
    BY <1>1, <2>1 DEF Miss
  <2>3. is_new' \in BOOLEAN
    BY <2>1
  <2>4. scanned' \in 0 .. Limit + 1 /\ scanned' <= Limit
    BY <2>1, Numbers
  <2> QED
    BY <2>1, <2>2, <2>3, <2>4 DEF Types
<1>3. OneFramePerPage' /\ OnlyPagesOfFile' /\ PinsAreUsers'
  BY DEF Miss, Seek, callers, OneFramePerPage, OnlyPagesOfFile, PinsAreUsers
<1> QED
  BY <1>2, <1>3

\* The new page is the next one.
LEMMA Allocation ==
    ASSUME Types, newPage
    PROVE  /\ file' \in Seq(Content) /\ Len(file') = Len(file) + 1 /\ Len(file') <= MaxPages
           /\ want' \in PageId /\ want' \in DOMAIN file' /\ want' \notin DOMAIN file
           /\ DOMAIN file' = DOMAIN file \cup {want'}
           /\ file'[want'] = Zero
           /\ \A p \in DOMAIN file : file'[p] = file[p]
<1>1. file \in Seq(Content) /\ Len(file) < MaxPages /\ file' = Append(file, Zero)
      /\ want' = Len(file) + 1
  BY DEF Types, newPage, allocatePage, Seek
<1> QED
  BY <1>1 DEF PageId

LEMMA NewPageKeepsFrames ==
    ASSUME FrameInv, newPage
    PROVE  FrameInv'
<1> USE DEF FrameInv
<1>1. Types'
  <2>1. table'[want'] = NoFrame
    BY Allocation DEF newPage, Seek, OnlyPagesOfFile
  <2> QED
    BY <2>1, Allocation, Numbers DEF newPage, Seek, callers, Types
<1>2. OnlyPagesOfFile'
  BY Allocation DEF newPage, Seek, OnlyPagesOfFile
<1>3. OneFramePerPage' /\ PinsAreUsers'
  BY DEF newPage, Seek, callers, OneFramePerPage, PinsAreUsers
<1> QED
  BY <1>1, <1>2, <1>3

\* A victim's page is in the file.
LEMMA VictimInFile ==
    ASSUME FrameInv, NEW f \in Frame, frames[f].valid, frames[f].page \in PageId
    PROVE  frames[f].page \in DOMAIN file /\ table[frames[f].page] = f
BY Numbers DEF FrameInv, OneFramePerPage, OnlyPagesOfFile

\* A sequence overwritten at one place.
LEMMA Overwritten ==
    ASSUME NEW S, NEW s \in Seq(S), NEW e \in S, NEW i
    PROVE  /\ [s EXCEPT ![i] = e] \in Seq(S)
           /\ Len([s EXCEPT ![i] = e]) = Len(s)
           /\ DOMAIN [s EXCEPT ![i] = e] = DOMAIN s
           /\ \A j \in DOMAIN s : [s EXCEPT ![i] = e][j] = IF j = i THEN e ELSE s[j]
<1>1. CASE i \in DOMAIN s
  BY <1>1
<1>2. CASE i \notin DOMAIN s
  <2>1. [s EXCEPT ![i] = e] = s
    BY <1>2
  <2> QED
    BY <1>2, <2>1
<1> QED
  BY <1>1, <1>2

\* What a write-back does to the file.
LEMMA SavedFile ==
    ASSUME FrameInv, NEW f \in Frame
    PROVE  /\ Saved(f) \in Seq(Content)
           /\ Len(Saved(f)) = Len(file) /\ DOMAIN Saved(f) = DOMAIN file
           /\ \A p \in DOMAIN file :
                Saved(f)[p] = IF table[p] = f /\ frames[f].dirty THEN frames[f].data ELSE file[p]
<1> USE DEF FrameInv
<1>1. file \in Seq(Content) /\ frames[f] \in FrameState /\ frames[f].data \in Content
  BY Fields, States DEF Types
<1>2. \A p \in DOMAIN file : table[p] = f <=> frames[f].valid /\ frames[f].page = p
  BY Fields DEF OneFramePerPage
<1>3. CASE frames[f].valid /\ frames[f].dirty
  <2> DEFINE q == frames[f].page
  <2>1. Saved(f) = [file EXCEPT ![q] = frames[f].data]
    BY <1>3 DEF Saved
  <2> HIDE DEF q
  <2>2. /\ Saved(f) \in Seq(Content)
        /\ Len(Saved(f)) = Len(file) /\ DOMAIN Saved(f) = DOMAIN file
        /\ \A p \in DOMAIN file : Saved(f)[p] = IF p = q THEN frames[f].data ELSE file[p]
    BY <1>1, <2>1, Overwritten
  <2>3. \A p \in DOMAIN file : table[p] = f <=> p = q
    BY <1>2, <1>3 DEF q
  <2> QED
    BY <1>2, <1>3, <2>2, <2>3
<1>4. CASE ~(frames[f].valid /\ frames[f].dirty)
  <2>1. Saved(f) = file
    BY <1>4 DEF Saved
  <2> QED
    BY <1>1, <1>2, <1>4, <2>1
<1> QED
  BY <1>3, <1>4

\* The table after a frame has changed its page.
LEMMA ClaimedTable ==
    ASSUME FrameInv, Claim
    PROVE  /\ hand \in Frame /\ want \in PageId /\ want \in DOMAIN file
           /\ table[want] = NoFrame /\ users[want] = 0
           /\ table' \in [PageId -> Frame \cup {NoFrame}]
           /\ \A p \in PageId : table'[p] = IF p = want THEN hand
                                        ELSE IF table[p] = hand THEN NoFrame ELSE table[p]
           /\ \A p \in PageId : table[p] = hand => users[p] = 0
<1> USE DEF FrameInv
<1>1. /\ hand \in Frame /\ want \in PageId /\ want \in DOMAIN file
      /\ table[want] = NoFrame
  BY Fields DEF Claim, Types
<1>2. users[want] = 0
  BY <1>1 DEF PinsAreUsers
<1>3. /\ Unmapped(hand) \in [PageId -> Frame \cup {NoFrame}]
      /\ \A p \in PageId : Unmapped(hand)[p] = IF table[p] = hand THEN NoFrame ELSE table[p]
  <2>1. CASE frames[hand].valid
    <3>1. Unmapped(hand) = [table EXCEPT ![frames[hand].page] = NoFrame]
      BY <2>1 DEF Unmapped
    <3>2. \A p \in PageId : table[p] = hand <=> frames[hand].page = p
      BY <1>1, <2>1 DEF OneFramePerPage
    <3> QED
      BY <3>1, <3>2 DEF Types
  <2>2. CASE ~frames[hand].valid
    <3>1. Unmapped(hand) = table
      BY <2>2 DEF Unmapped
    <3>2. \A p \in PageId : table[p] # hand
      BY <1>1, <2>2 DEF OneFramePerPage
    <3> QED
      BY <3>1, <3>2 DEF Types
  <2> QED
    BY <2>1, <2>2
<1>4. table' = [Unmapped(hand) EXCEPT ![want] = hand]
  BY DEF Claim
<1>5. \A p \in PageId : table[p] = hand => users[p] = 0
  <2>1. frames[hand] \in FrameState /\ frames[hand].pin \in Nat
    BY <1>1, Fields, States
  <2> QED
    BY <1>1, <2>1, Numbers DEF PinsAreUsers, OneFramePerPage, Claim, InUse
<1> QED
  BY <1>1, <1>2, <1>3, <1>4, <1>5

\* The frame claimed.
NewFrame == [page |-> want, data |-> IF is_new THEN Zero ELSE readPage(file', want),
             pin |-> 1, dirty |-> FALSE, ref |-> 1, valid |-> TRUE]

LEMMA ClaimedFrames ==
    ASSUME FrameInv, Claim
    PROVE  /\ frames' = [frames EXCEPT ![hand] = NewFrame]
           /\ frames' \in [Frame -> FrameState]
           /\ NewFrame \in FrameState /\ NewFrame.page = want /\ NewFrame.pin = 1 /\ NewFrame.valid
<1>1. frames' = [frames EXCEPT ![hand] = NewFrame]
  BY DEF Claim, NewFrame
<1>2. (IF is_new THEN Zero ELSE readPage(file', want)) \in Content
  BY ClaimedTable, SavedFile DEF Claim, readPage
<1>3. NewFrame \in FrameState
  BY <1>2, ClaimedTable DEF NewFrame, FrameState
<1>4. frames' \in [Frame -> FrameState]
  BY <1>1, <1>3 DEF FrameInv, Types
<1>5. NewFrame.page = want /\ NewFrame.pin = 1 /\ NewFrame.valid
  BY DEF NewFrame
<1> QED
  BY <1>1, <1>3, <1>4, <1>5

LEMMA ClaimKeepsFrames ==
    ASSUME FrameInv, Claim
    PROVE  FrameInv'
<1>1. Types'
  <2>1. file' \in Seq(Content) /\ Len(file') <= MaxPages /\ hand' \in Frame
    BY ClaimedTable, SavedFile, Numbers DEF Claim, FrameInv, Types
  <2>2. users' \in [PageId -> 0 .. MaxPins] /\ pointer' \in [PageId -> Frame \cup {NoFrame}]
    BY ClaimedTable DEF Claim, Return, FrameInv, Types
  <2> QED
    BY <2>1, <2>2, ClaimedTable, ClaimedFrames DEF Claim, Return, FrameInv, Types
<1>2. OneFramePerPage'
  <2> SUFFICES ASSUME NEW p \in PageId, NEW f \in Frame
               PROVE  table'[p] = f <=> frames'[f].valid /\ frames'[f].page = p
    BY DEF OneFramePerPage
  <2>1. CASE f = hand
    BY <2>1, ClaimedTable, ClaimedFrames, Numbers DEF FrameInv, Types
  <2>2. CASE f # hand
    <3>1. frames'[f] = frames[f]
      BY <2>2, ClaimedFrames, ClaimedTable DEF FrameInv, Types
    <3> QED
      BY <2>2, <3>1, ClaimedTable, Numbers DEF FrameInv, OneFramePerPage
  <2> QED
    BY <2>1, <2>2
<1>3. OnlyPagesOfFile'
  BY ClaimedTable, SavedFile DEF Claim, FrameInv, OnlyPagesOfFile
<1>4. PinsAreUsers'
  <2> SUFFICES ASSUME NEW p \in PageId
               PROVE  /\ users'[p] = IF table'[p] = NoFrame THEN 0 ELSE frames'[table'[p]].pin
                      /\ users'[p] > 0 => pointer'[p] = table'[p]
    BY DEF PinsAreUsers
  <2>1. CASE p = want
    BY <2>1, ClaimedTable, ClaimedFrames, Numbers DEF Claim, Return, FrameInv, Types
  <2>2. CASE p # want /\ table[p] = hand
    BY <2>2, ClaimedTable DEF Claim, Return, FrameInv, Types
  <2>3. CASE p # want /\ table[p] # hand
    <3>1. table'[p] = table[p] /\ users'[p] = users[p] /\ pointer'[p] = pointer[p]
      BY <2>3, ClaimedTable DEF Claim, Return, FrameInv, Types
    <3>2. table[p] # NoFrame => frames'[table[p]] = frames[table[p]]
      BY <2>3, ClaimedFrames, ClaimedTable, Fields DEF FrameInv, Types
    <3> QED
      BY <3>1, <3>2 DEF FrameInv, PinsAreUsers
  <2> QED
    BY <2>1, <2>2, <2>3
<1> QED
  BY <1>1, <1>2, <1>3, <1>4 DEF FrameInv

\* Frames change, one at a time, but neither their pages nor their pins.
LEMMA SamePages ==
    ASSUME FrameInv, NEW f \in Frame, NEW fr \in FrameState,
           frames' = [frames EXCEPT ![f] = fr],
           fr.page = frames[f].page, fr.valid = frames[f].valid,
           UNCHANGED table
    PROVE  frames' \in [Frame -> FrameState] /\ OneFramePerPage'
<1>1. frames' \in [Frame -> FrameState]
  BY DEF FrameInv, Types
<1>2. OneFramePerPage'
  BY DEF FrameInv, Types, OneFramePerPage
<1> QED
  BY <1>1, <1>2

LEMMA PassKeepsFrames ==
    ASSUME FrameInv, Pass
    PROVE  FrameInv'
<1>1. /\ hand \in Frame /\ frames[hand] \in FrameState /\ frames[hand].pin \in Nat
      /\ frames[hand].ref \in 0 .. 1
  BY Fields, States DEF FrameInv, Types
<1>2. Passed(frames[hand]) \in FrameState
  BY <1>1, PassedFrame DEF Pass, InUse
<1>3. frames' \in [Frame -> FrameState] /\ OneFramePerPage'
  BY <1>1, <1>2, PassedFrame, SamePages DEF Pass
<1>4. Types'
  <2>1. hand' \in Frame
    BY <1>1, Numbers DEF Pass
  <2>2. scanned \in 0 .. Limit + 1 /\ scanned <= Limit /\ scanned' = scanned + 1
    BY DEF Pass, FrameInv, Types
  <2>3. scanned' \in 0 .. Limit + 1
    BY <2>2, Numbers
  <2>4. pc' \in {"idle", "sweeping"} /\ (pc' = "sweeping" => scanned' <= Limit)
    BY <2>3, Numbers DEF Pass
  <2> QED
    BY <1>3, <2>1, <2>3, <2>4 DEF Pass, callers, FrameInv, Types
<1>5. OnlyPagesOfFile' /\ PinsAreUsers'
  <2>1. \A f \in Frame : frames'[f].pin = frames[f].pin
    BY <1>1, PassedFrame DEF Pass, FrameInv, Types
  <2> QED
    BY <2>1, Fields DEF Pass, callers, FrameInv, OnlyPagesOfFile, PinsAreUsers
<1> QED
  BY <1>3, <1>4, <1>5 DEF FrameInv

LEMMA WriteKeepsFrames ==
    ASSUME FrameInv, NEW p \in DOMAIN file, NEW content \in Content, Write(p, content)
    PROVE  FrameInv'
<1>1. /\ p \in PageId /\ pointer[p] = table[p] /\ table[p] \in Frame
      /\ frames[pointer[p]] \in FrameState
  BY Fields, Numbers DEF Write, FrameInv, PinsAreUsers
<1> DEFINE fr == [frames[pointer[p]] EXCEPT !.data = content]
<1>2. fr \in FrameState
  BY <1>1, ChangedFrame
<1>3. fr.page = frames[pointer[p]].page /\ fr.pin = frames[pointer[p]].pin
  BY <1>1 DEF FrameState
<1>4. fr.valid = frames[pointer[p]].valid
  BY <1>1 DEF FrameState
<1>5. frames' = [frames EXCEPT ![pointer[p]] = fr]
  BY DEF Write
<1> HIDE DEF fr
<1>6. frames' \in [Frame -> FrameState] /\ OneFramePerPage'
  BY <1>1, <1>2, <1>3, <1>4, <1>5, SamePages DEF Write
<1>7. Types'
  BY <1>1, <1>6 DEF Write, sweep, FrameInv, Types
<1>8. OnlyPagesOfFile' /\ PinsAreUsers'
  <2>1. \A f \in Frame : frames'[f].pin = frames[f].pin
    BY <1>1, <1>3, <1>5 DEF FrameInv, Types
  <2> QED
    BY <2>1, Fields DEF Write, FrameInv, OnlyPagesOfFile, PinsAreUsers
<1> QED
  BY <1>6, <1>7, <1>8 DEF FrameInv

LEMMA UnpinKeepsFrames ==
    ASSUME FrameInv, NEW p \in DOMAIN file, unpinPage(p)
    PROVE  FrameInv'
<1> DEFINE fr == Unpinned(frames[table[p]], p \in touched)
<1>1. /\ p \in PageId /\ table[p] \in Frame /\ frames[table[p]] \in FrameState
      /\ users[p] \in 0 .. MaxPins /\ users[p] > 0 /\ frames[table[p]].pin = users[p]
  BY Fields, Numbers DEF unpinPage, FrameInv, PinsAreUsers
<1>2. /\ fr \in FrameState /\ fr.pin = users[p] - 1
      /\ fr.page = frames[table[p]].page /\ fr.valid = frames[table[p]].valid
  <2>1. PICK d \in BOOLEAN : fr = Unpinned(frames[table[p]], d)
    <3>1. CASE p \in touched
      BY <3>1 DEF Unpinned
    <3>2. CASE p \notin touched
      BY <3>2 DEF Unpinned
    <3> QED
      BY <3>1, <3>2
  <2>2. fr.pin = IF frames[table[p]].pin > 0 THEN frames[table[p]].pin - 1
                 ELSE frames[table[p]].pin
    BY <1>1, <2>1, UnpinnedFrame
  <2>3. fr.pin = users[p] - 1
    BY <1>1, <2>2
  <2>4. fr \in FrameState /\ fr.page = frames[table[p]].page
    BY <1>1, <2>1, UnpinnedFrame
  <2>5. fr.valid = frames[table[p]].valid
    BY <1>1, <2>1, UnpinnedFrame
  <2> QED
    BY <2>3, <2>4, <2>5
<1>3. frames' = [frames EXCEPT ![table[p]] = fr]
  BY <1>1, Numbers DEF unpinPage
<1> HIDE DEF fr
<1>4. frames' \in [Frame -> FrameState] /\ OneFramePerPage'
  BY <1>1, <1>2, <1>3, SamePages DEF unpinPage
<1>5. Types'
  <2>1. users' \in [PageId -> 0 .. MaxPins]
    BY <1>1 DEF unpinPage, FrameInv, Types
  <2> QED
    BY <1>4, <2>1 DEF unpinPage, sweep, FrameInv, Types
<1>6. OnlyPagesOfFile'
  BY DEF unpinPage, FrameInv, OnlyPagesOfFile
<1>7. PinsAreUsers'
  <2> SUFFICES ASSUME NEW q \in PageId
               PROVE  /\ users'[q] = IF table[q] = NoFrame THEN 0 ELSE frames'[table[q]].pin
                      /\ users'[q] > 0 => pointer[q] = table[q]
    BY DEF PinsAreUsers, unpinPage
  <2>1. CASE q = p
    BY <1>1, <1>2, <1>3, <2>1, Numbers DEF unpinPage, FrameInv, Types, PinsAreUsers
  <2>2. CASE q # p
    <3>1. table[q] # NoFrame => table[q] \in Frame /\ table[q] # table[p]
      BY <1>1, <2>2, Fields DEF FrameInv, OneFramePerPage
    <3> QED
      BY <1>1, <1>3, <2>2, <3>1 DEF unpinPage, FrameInv, Types, PinsAreUsers
  <2> QED
    BY <2>1, <2>2
<1> QED
  BY <1>4, <1>5, <1>6, <1>7 DEF FrameInv

\* flushAll writes the pages and changes nothing else.
LEMMA Flushed ==
    ASSUME FrameInv, flushAll
    PROVE  /\ file' \in Seq(Content) /\ Len(file') = Len(file) /\ DOMAIN file' = DOMAIN file
           /\ \A p \in DOMAIN file :
                file'[p] = IF table[p] # NoFrame /\ frames[table[p]].dirty
                           THEN frames[table[p]].data ELSE file[p]
           /\ frames' \in [Frame -> FrameState]
           /\ \A f \in Frame : /\ frames'[f].page = frames[f].page
                               /\ frames'[f].pin = frames[f].pin
                               /\ frames'[f].data = frames[f].data
                               /\ frames'[f].valid = frames[f].valid
<1>1. \A p \in DOMAIN file :
        (IF table[p] # NoFrame /\ frames[table[p]].dirty THEN frames[table[p]].data
         ELSE file[p]) \in Content
  BY Fields, States DEF FrameInv, Types
<1>2. file \in Seq(Content) /\ DOMAIN file = 1 .. Len(file) /\ Len(file) \in Nat
  BY DEF FrameInv, Types
<1>3. file' = [p \in DOMAIN file |->
                 IF table[p] # NoFrame /\ frames[table[p]].dirty
                 THEN frames[table[p]].data ELSE file[p]]
  BY DEF flushAll
<1>4. file' \in Seq(Content) /\ Len(file') = Len(file) /\ DOMAIN file' = DOMAIN file
  BY <1>1, <1>2, <1>3
<1>5. \A f \in Frame : frames'[f] = [frames[f] EXCEPT !.dirty = FALSE]
  BY DEF flushAll
<1>6. \A f \in Frame : [frames[f] EXCEPT !.dirty = FALSE] \in FrameState
  BY Fields, ChangedFrame DEF FrameInv
<1>7. frames' \in [Frame -> FrameState]
  BY <1>6 DEF flushAll
<1>8. \A f \in Frame : /\ frames'[f].page = frames[f].page
                       /\ frames'[f].pin = frames[f].pin
                       /\ frames'[f].data = frames[f].data
  BY <1>5, Fields DEF FrameInv, FrameState
<1>9. \A f \in Frame : frames'[f].valid = frames[f].valid
  BY <1>5, Fields DEF FrameInv, FrameState
<1> QED
  BY <1>3, <1>4, <1>7, <1>8, <1>9

LEMMA FlushKeepsFrames ==
    ASSUME FrameInv, flushAll
    PROVE  FrameInv'
<1>1. Types'
  BY Flushed DEF flushAll, sweep, callers, FrameInv, Types
<1>2. OneFramePerPage'
  BY Flushed DEF flushAll, FrameInv, OneFramePerPage
<1>3. OnlyPagesOfFile' /\ PinsAreUsers'
  BY Flushed, Fields DEF flushAll, callers, FrameInv, OnlyPagesOfFile, PinsAreUsers
<1> QED
  BY <1>1, <1>2, <1>3 DEF FrameInv

LEMMA IdleKeepsAll ==
    ASSUME IInv, UNCHANGED vars
    PROVE  IInv'
<1> USE DEF IInv, FrameInv, vars, sweep, callers
<1>1. Types'
  BY DEF Types
<1>2. OneFramePerPage' /\ OnlyPagesOfFile' /\ PinsAreUsers'
  BY DEF OneFramePerPage, OnlyPagesOfFile, PinsAreUsers
<1>3. PassedFrames' /\ CleanFramesAgree'
  BY DEF PassedFrames, Age, CleanFramesAgree
<1> QED
  BY <1>1, <1>2, <1>3

\* The steps of the pool, one disjunct for each.
LEMMA StepCases ==
    ASSUME Next
    PROVE  \/ newPage \/ Claim \/ Pass \/ flushAll
           \/ \E p \in DOMAIN file : Hit(p) \/ Miss(p) \/ unpinPage(p)
           \/ \E p \in DOMAIN file, content \in Content : Write(p, content)
BY FetchCases DEF Next

LEMMA FramesKept ==
    ASSUME FrameInv, Next
    PROVE  FrameInv'
BY StepCases, NewPageKeepsFrames, ClaimKeepsFrames, PassKeepsFrames, FlushKeepsFrames,
   HitKeepsFrames, MissKeepsFrames, UnpinKeepsFrames, WriteKeepsFrames

-------------------------------------------------------------------------------
(* The sweep.                                                               *)

\* Every frame ages by one as the hand moves on, but for the one just passed.
LEMMA Ages ==
    ASSUME hand \in Frame, hand' = Next1(hand), NEW f \in Frame
    PROVE  /\ Age(f) \in 1 .. NFrames
           /\ f # hand => Age(f)' = Age(f) + 1
           /\ f = hand => Age(f)' = 1 /\ Age(f) = NFrames
BY DEF Frame, Age, Next1

LEMMA SweepKept ==
    ASSUME FrameInv, PassedFrames, Next
    PROVE  PassedFrames'
<1> SUFFICES ASSUME pc' = "sweeping", NEW f \in Frame
             PROVE  /\ Age(f)' <= scanned' => frames'[f].pin > 0 \/ frames'[f].ref = 0
                    /\ Age(f)' + NFrames <= scanned' => frames'[f].pin > 0
  BY DEF PassedFrames
<1>1. CASE scanned' = 0 /\ UNCHANGED hand
  <2>1. Age(f)' \in 1 .. NFrames
    BY <1>1 DEF FrameInv, Types, Age, Frame
  <2> QED
    BY <1>1, <2>1
<1>2. CASE Pass
  <2>1. /\ pc = "sweeping" /\ hand \in Frame /\ scanned \in Nat /\ scanned' = scanned + 1
        /\ hand' = Next1(hand) /\ frames[f] \in FrameState
        /\ frames[f].pin \in Nat /\ frames[f].ref \in 0 .. 1
    BY <1>2, Fields, States DEF Pass, FrameInv, Types
  <2>2. /\ Age(f) <= scanned => frames[f].pin > 0 \/ frames[f].ref = 0
        /\ Age(f) + NFrames <= scanned => frames[f].pin > 0
    BY <2>1 DEF PassedFrames
  <2>3. CASE f # hand
    <3>1. frames'[f] = frames[f]
      BY <1>2, <2>3 DEF Pass, FrameInv, Types
    <3>2. Age(f)' = Age(f) + 1 /\ Age(f) \in 1 .. NFrames
      BY <2>1, <2>3, Ages
    <3> QED
      BY <2>1, <2>2, <3>1, <3>2
  <2>4. CASE f = hand
    <3>1. frames'[f] = Passed(frames[f]) /\ (frames[f].pin > 0 \/ frames[f].ref > 0)
      BY <1>2, <2>4 DEF Pass, InUse, FrameInv, Types
    <3>2. /\ frames'[f].pin = frames[f].pin
          /\ frames[f].pin = 0 => frames'[f].ref = 0
      BY <2>1, <3>1, PassedFrame
    <3>3. Age(f)' = 1 /\ Age(f) = NFrames
      BY <2>1, <2>4, Ages
    <3> QED
      BY <2>1, <2>2, <3>1, <3>2, <3>3
  <2> QED
    BY <2>3, <2>4
<1>3. Pass \/ (scanned' = 0 /\ UNCHANGED hand)
  <2>1. CASE newPage
    BY <2>1 DEF newPage, Seek
  <2>2. ASSUME NEW p \in DOMAIN file, Miss(p) PROVE scanned' = 0 /\ UNCHANGED hand
    BY <2>2 DEF Miss, Seek
  <2>3. ~Claim /\ ~flushAll
    BY DEF Claim, flushAll
  <2>4. \A p \in DOMAIN file : ~Hit(p) /\ ~unpinPage(p) /\ \A c \in Content : ~Write(p, c)
    BY DEF Hit, unpinPage, Write
  <2> QED
    BY <2>1, <2>2, <2>3, <2>4, StepCases
<1> QED
  BY <1>1, <1>2, <1>3

-------------------------------------------------------------------------------
(* The contents of pages.                                                   *)

\* Each step's effect on the contents, and clean frames still agree.
LEMMA HitKeepsContent ==
    ASSUME FrameInv, CleanFramesAgree, NEW p \in DOMAIN file, Hit(p)
    PROVE  CleanFramesAgree' /\ \A q \in DOMAIN file : Shown(q)' = Shown(q)
<1>1. /\ p \in PageId /\ table[p] \in Frame /\ frames[table[p]] \in FrameState
      /\ users[p] \in 0 .. MaxPins
  BY Fields DEF Hit, FrameInv
<1>2. \A f \in Frame : frames'[f].data = frames[f].data
  BY <1>1, PinnedFrame DEF Hit, FrameInv, Types
<1>3. \A f \in Frame : frames'[f].dirty = frames[f].dirty
  BY <1>1, PinnedFrame DEF Hit, FrameInv, Types
<1>4. \A q \in DOMAIN file : Shown(q)' = Shown(q)
  BY <1>2, Fields DEF Hit, Shown, FrameInv
<1>5. \A q \in touched : users'[q] > 0
  BY <1>1 DEF Hit, Return, CleanFramesAgree, FrameInv, Types
<1>6. CleanFramesAgree'
  BY <1>2, <1>3, <1>5, Fields DEF Hit, Return, sweep, CleanFramesAgree, FrameInv
<1> QED
  BY <1>4, <1>6

LEMMA MissKeepsContent ==
    ASSUME FrameInv, CleanFramesAgree, NEW p \in DOMAIN file, Miss(p)
    PROVE  CleanFramesAgree' /\ \A q \in DOMAIN file : Shown(q)' = Shown(q)
BY DEF Miss, Seek, callers, CleanFramesAgree, Shown

LEMMA NewPageKeepsContent ==
    ASSUME FrameInv, CleanFramesAgree, newPage
    PROVE  /\ CleanFramesAgree'
           /\ \A q \in DOMAIN file : Shown(q)' = Shown(q)
           /\ Shown(want)' = Zero
<1>1. UNCHANGED <<frames, table, touched, users>>
  BY DEF newPage, Seek, callers
<1>2. want' \in PageId /\ want' \notin DOMAIN file
  BY Allocation DEF FrameInv
<1>3. table[want'] = NoFrame
  BY <1>2 DEF FrameInv, OnlyPagesOfFile
<1>4. \A q \in DOMAIN file : Shown(q)' = Shown(q)
  BY <1>1, Allocation DEF FrameInv, Shown
<1>5. Shown(want)' = Zero
  <2>1. table'[want'] = NoFrame /\ file'[want'] = Zero
    BY <1>1, <1>3, Allocation DEF FrameInv
  <2> QED
    BY <2>1 DEF Shown
<1>6. /\ DOMAIN file' = DOMAIN file \cup {want'} /\ file'[want'] = Zero
      /\ \A q \in DOMAIN file : file'[q] = file[q]
  BY Allocation DEF FrameInv
<1>7. ASSUME NEW q \in DOMAIN file', table[q] # NoFrame, ~frames[table[q]].dirty, q \notin touched
      PROVE  frames[table[q]].data = file'[q]
  BY <1>3, <1>6, <1>7 DEF CleanFramesAgree
<1>8. CleanFramesAgree'
  BY <1>1, <1>6, <1>7 DEF CleanFramesAgree
<1> QED
  BY <1>4, <1>5, <1>8

LEMMA ClaimKeepsContent ==
    ASSUME FrameInv, CleanFramesAgree, Claim
    PROVE  CleanFramesAgree' /\ \A q \in DOMAIN file : Shown(q)' = Shown(q)
<1>1. hand \in Frame /\ file' = Saved(hand) /\ DOMAIN file' = DOMAIN file /\ DOMAIN file \subseteq PageId
  BY ClaimedTable, SavedFile, Fields DEF Claim, FrameInv
<1>2. \A p \in DOMAIN file :
        file'[p] = IF table[p] = hand /\ frames[hand].dirty THEN frames[hand].data ELSE file[p]
  BY <1>1, SavedFile
<1>3. want \in DOMAIN file /\ file'[want] = file[want] /\ table[want] = NoFrame
  BY <1>1, <1>2, ClaimedTable, Numbers
<1>4. NewFrame.data = file'[want] /\ ~NewFrame.dirty
  BY <1>3 DEF NewFrame, readPage, CleanFramesAgree, Claim
<1>5. frames'[hand] = NewFrame /\ \A f \in Frame \ {hand} : frames'[f] = frames[f]
  BY <1>1, ClaimedFrames DEF FrameInv, Types
<1>6. \A q \in DOMAIN file : table[q] = hand => file'[q] = frames[hand].data /\ q \notin touched
  BY <1>1, <1>2, ClaimedTable, Numbers DEF CleanFramesAgree
<1>7. \A q \in DOMAIN file : Shown(q)' = Shown(q)
  <2> SUFFICES ASSUME NEW q \in DOMAIN file PROVE Shown(q)' = Shown(q)
    OBVIOUS
  <2>1. CASE q = want
    BY <1>1, <1>3, <1>4, <1>5, <2>1, ClaimedTable, Numbers DEF Shown
  <2>2. CASE q # want /\ table[q] = hand
    BY <1>1, <1>6, <2>2, ClaimedTable, Numbers DEF Shown
  <2>3. CASE q # want /\ table[q] # hand
    BY <1>1, <1>2, <1>5, <2>3, ClaimedTable, Fields DEF Shown, FrameInv
  <2> QED
    BY <2>1, <2>2, <2>3
<1>8. ASSUME NEW q \in DOMAIN file,
             table'[q] # NoFrame, ~frames'[table'[q]].dirty, q \notin touched
      PROVE  frames'[table'[q]].data = file'[q]
  <2>1. CASE q = want
    BY <1>1, <1>3, <1>4, <1>5, <2>1, ClaimedTable
  <2>2. CASE q # want
    <3>1. table'[q] = table[q] /\ table[q] # hand /\ table[q] \in Frame
      BY <1>1, <1>8, <2>2, ClaimedTable, Fields DEF FrameInv
    <3> QED
      BY <1>1, <1>2, <1>5, <1>8, <3>1 DEF CleanFramesAgree
  <2> QED
    BY <2>1, <2>2
<1>9. touched' = touched /\ \A q \in touched : users'[q] > 0
  BY ClaimedTable DEF Claim, Return, CleanFramesAgree, FrameInv, Types
<1>10. CleanFramesAgree'
  BY <1>1, <1>8, <1>9 DEF CleanFramesAgree, Claim
<1> QED
  BY <1>7, <1>10

LEMMA PassKeepsContent ==
    ASSUME FrameInv, CleanFramesAgree, Pass
    PROVE  CleanFramesAgree' /\ \A q \in DOMAIN file : Shown(q)' = Shown(q)
<1>1. hand \in Frame /\ frames[hand] \in FrameState
  BY Fields DEF FrameInv, Types
<1>2. \A f \in Frame : frames'[f].data = frames[f].data
  BY <1>1, PassedFrame DEF Pass, FrameInv, Types
<1>3. \A f \in Frame : frames'[f].dirty = frames[f].dirty
  BY <1>1, PassedFrame DEF Pass, FrameInv, Types
<1>4. \A q \in DOMAIN file : Shown(q)' = Shown(q)
  BY <1>2, Fields DEF Pass, Shown, FrameInv
<1>5. CleanFramesAgree'
  BY <1>2, <1>3, Fields DEF Pass, callers, CleanFramesAgree, FrameInv
<1> QED
  BY <1>4, <1>5

LEMMA FlushKeepsContent ==
    ASSUME FrameInv, CleanFramesAgree, flushAll
    PROVE  CleanFramesAgree' /\ \A q \in DOMAIN file : Shown(q)' = Shown(q)
<1>1. \A q \in DOMAIN file : Shown(q)' = Shown(q)
  BY Flushed, Fields DEF flushAll, Shown, FrameInv
<1>2. CleanFramesAgree'
  BY Flushed, Fields DEF flushAll, sweep, callers, CleanFramesAgree, FrameInv
<1> QED
  BY <1>1, <1>2

LEMMA UnpinKeepsContent ==
    ASSUME FrameInv, CleanFramesAgree, NEW p \in DOMAIN file, unpinPage(p)
    PROVE  CleanFramesAgree' /\ \A q \in DOMAIN file : Shown(q)' = Shown(q)
<1>1. /\ p \in PageId /\ table[p] \in Frame /\ frames[table[p]] \in FrameState
      /\ users[p] \in 0 .. MaxPins /\ users[p] > 0
  BY Fields, Numbers DEF unpinPage, FrameInv, PinsAreUsers
<1>2. PICK d \in BOOLEAN : /\ d <=> p \in touched
                          /\ frames' = [frames EXCEPT ![table[p]] = Unpinned(@, d)]
  <2>1. CASE p \in touched
    BY <1>1, <2>1, Numbers DEF unpinPage, Unpinned
  <2>2. CASE p \notin touched
    BY <1>1, <2>2, Numbers DEF unpinPage, Unpinned
  <2> QED
    BY <2>1, <2>2
<1>3. \A f \in Frame : frames'[f].data = frames[f].data
  BY <1>1, <1>2, UnpinnedFrame DEF FrameInv, Types
<1>4. \A f \in Frame : ~frames'[f].dirty => ~frames[f].dirty /\ (f = table[p] => p \notin touched)
  BY <1>1, <1>2, UnpinnedFrame DEF FrameInv, Types
<1>5. \A q \in DOMAIN file : Shown(q)' = Shown(q)
  BY <1>3, Fields DEF unpinPage, Shown, FrameInv
<1>6. ASSUME NEW q \in DOMAIN file,
             table[q] # NoFrame, ~frames'[table[q]].dirty, q \notin touched \ {p}
      PROVE  frames'[table[q]].data = file[q]
  <2>1. table[q] \in Frame /\ q \in PageId
    BY <1>6, Fields DEF FrameInv
  <2>2. q \notin touched
    BY <1>4, <1>6, <2>1
  <2> QED
    BY <1>3, <1>4, <1>6, <2>1, <2>2 DEF CleanFramesAgree
<1>7. \A q \in touched \ {p} : users'[q] > 0
  BY <1>1 DEF unpinPage, CleanFramesAgree, FrameInv, Types
<1>8. CleanFramesAgree'
  BY <1>6, <1>7 DEF unpinPage, sweep, CleanFramesAgree
<1> QED
  BY <1>5, <1>8

LEMMA WriteChangesContent ==
    ASSUME FrameInv, CleanFramesAgree,
           NEW p \in DOMAIN file, NEW content \in Content, Write(p, content)
    PROVE  /\ CleanFramesAgree'
           /\ \A q \in DOMAIN file : Shown(q)' = IF q = p THEN content ELSE Shown(q)
<1>1. /\ p \in PageId /\ pointer[p] = table[p] /\ table[p] \in Frame
      /\ frames[table[p]] \in FrameState
  BY Fields, Numbers DEF Write, FrameInv, PinsAreUsers
<1>2. frames'[table[p]].data = content
  BY <1>1 DEF Write, FrameInv, Types, FrameState
<1>3. \A f \in Frame : f # table[p] => frames'[f] = frames[f]
  BY <1>1 DEF Write, FrameInv, Types
<1>4. \A q \in DOMAIN file : q # p /\ table[q] # NoFrame =>
          table[q] \in Frame /\ table[q] # table[p]
  BY <1>1, Fields DEF FrameInv, OneFramePerPage
<1>5. \A q \in DOMAIN file : Shown(q)' = IF q = p THEN content ELSE Shown(q)
  BY <1>1, <1>2, <1>3, <1>4, Numbers DEF Write, Shown
<1>6. CleanFramesAgree'
  BY <1>1, <1>3, <1>4 DEF Write, sweep, CleanFramesAgree
<1> QED
  BY <1>5, <1>6

LEMMA ContentKept ==
    ASSUME FrameInv, CleanFramesAgree, Next
    PROVE  CleanFramesAgree'
BY StepCases, HitKeepsContent, MissKeepsContent, NewPageKeepsContent, ClaimKeepsContent,
   PassKeepsContent, FlushKeepsContent, UnpinKeepsContent, WriteChangesContent

-------------------------------------------------------------------------------
(* The theorems.                                                            *)

THEOREM Invariance == Spec => []IInv
<1>1. IInv /\ [Next]_vars => IInv'
  BY FramesKept, SweepKept, ContentKept, IdleKeepsAll DEF IInv
<1> QED
  BY <1>1, InitIInv, PTL DEF Spec

FramesHavePages == \A f \in Frame : frames[f].valid => frames[f].page \in DOMAIN file

LEMMA FramesHavePagesKept ==
    ASSUME FrameInv, FramesHavePages, [Next]_vars
    PROVE  FramesHavePages'
<1>1. \A f \in Frame : frames[f] \in FrameState
  BY Fields DEF FrameInv
<1>2. CASE newPage
  <2>1. frames' = frames /\ DOMAIN file \subseteq DOMAIN file'
    BY <1>2, Allocation DEF newPage, Seek, FrameInv
  <2> QED
    BY <2>1 DEF FramesHavePages
<1>3. CASE Claim
  <2>1. DOMAIN file' = DOMAIN file /\ want \in DOMAIN file
    BY <1>3, ClaimedTable, SavedFile DEF Claim, FrameInv, Types
  <2>2. \A f \in Frame : frames'[f] = IF f = hand THEN NewFrame ELSE frames[f]
    BY <1>3, ClaimedFrames DEF FrameInv, Types
  <2>3. NewFrame.page = want
    BY <1>3, ClaimedFrames
  <2> QED
    BY <2>1, <2>2, <2>3 DEF FramesHavePages
\* The others change no frame's page.
<1>4. ASSUME DOMAIN file' = DOMAIN file,
             \A f \in Frame : /\ frames'[f].page = frames[f].page
                              /\ frames'[f].valid = frames[f].valid
      PROVE  FramesHavePages'
  BY <1>4 DEF FramesHavePages
<1>5. ASSUME UNCHANGED file, NEW g, NEW fr \in FrameState, frames' = [frames EXCEPT ![g] = fr],
             g \in Frame => fr.page = frames[g].page /\ fr.valid = frames[g].valid
      PROVE  FramesHavePages'
  <2>1. \A f \in Frame : frames'[f] = IF f = g THEN fr ELSE frames[f]
    BY <1>5 DEF FrameInv, Types
  <2> QED
    BY <1>4, <1>5, <2>1
<1>6. CASE Pass
  <2>1. frames[hand] \in FrameState /\ (frames[hand].pin > 0 \/ frames[hand].ref > 0)
    BY <1>1, <1>6 DEF Pass, InUse, FrameInv, Types
  <2>2. /\ Passed(frames[hand]) \in FrameState
        /\ Passed(frames[hand]).page = frames[hand].page
        /\ Passed(frames[hand]).valid = frames[hand].valid
    BY <2>1, PassedFrame
  <2> QED
    BY <1>5, <1>6, <2>2 DEF Pass
<1>7. ASSUME NEW p \in DOMAIN file, Hit(p)
      PROVE  FramesHavePages'
  <2>1. frames[table[p]] \in FrameState
    BY <1>1, <1>7, Fields DEF Hit, FrameInv
  <2>2. /\ Pinned(frames[table[p]]) \in FrameState
        /\ Pinned(frames[table[p]]).page = frames[table[p]].page
        /\ Pinned(frames[table[p]]).valid = frames[table[p]].valid
    BY <2>1, PinnedFrame
  <2> QED
    BY <1>5, <1>7, <2>2 DEF Hit
<1>8. ASSUME NEW p \in DOMAIN file, unpinPage(p)
      PROVE  FramesHavePages'
  <2>1. CASE table[p] = NoFrame
    BY <1>4, <1>8, <2>1 DEF unpinPage
  <2>2. CASE table[p] # NoFrame
    <3>1. frames[table[p]] \in FrameState
      BY <1>1, <2>2, Fields DEF FrameInv
    <3> DEFINE fr == Unpinned(frames[table[p]], p \in touched)
    <3>2. /\ fr \in FrameState
          /\ fr.page = frames[table[p]].page /\ fr.valid = frames[table[p]].valid
      <4>1. PICK d \in BOOLEAN : fr = Unpinned(frames[table[p]], d)
        <5>1. CASE p \in touched
          BY <5>1 DEF Unpinned
        <5>2. CASE p \notin touched
          BY <5>2 DEF Unpinned
        <5> QED
          BY <5>1, <5>2
      <4>2. fr \in FrameState /\ fr.page = frames[table[p]].page
        BY <3>1, <4>1, UnpinnedFrame
      <4>3. fr.valid = frames[table[p]].valid
        BY <3>1, <4>1, UnpinnedFrame
      <4> QED
        BY <4>2, <4>3
    <3>3. frames' = [frames EXCEPT ![table[p]] = fr] /\ UNCHANGED file
      BY <1>8, <2>2 DEF unpinPage
    <3> HIDE DEF fr
    <3> QED
      BY <1>5, <3>2, <3>3
  <2> QED
    BY <2>1, <2>2
<1>9. ASSUME NEW p \in DOMAIN file, NEW content \in Content, Write(p, content)
      PROVE  FramesHavePages'
  <2>1. UNCHANGED file /\ frames' = [frames EXCEPT ![pointer[p]].data = content]
    BY <1>9 DEF Write
  <2>2. \A f \in Frame : /\ frames'[f].page = frames[f].page
                         /\ frames'[f].valid = frames[f].valid
    BY <1>1, <2>1 DEF FrameInv, Types, FrameState
  <2> QED
    BY <1>4, <2>1, <2>2
<1>10. CASE flushAll
  <2>1. DOMAIN file' = DOMAIN file
        /\ frames' = [f \in Frame |-> [frames[f] EXCEPT !.dirty = FALSE]]
    BY <1>10 DEF flushAll
  <2>2. \A f \in Frame : /\ frames'[f].page = frames[f].page
                         /\ frames'[f].valid = frames[f].valid
    BY <1>1, <2>1 DEF FrameState
  <2> QED
    BY <1>4, <2>1, <2>2
<1>11. ASSUME NEW p \in DOMAIN file, Miss(p)
       PROVE  FramesHavePages'
  BY <1>4, <1>11 DEF Miss, Seek
<1>12. CASE UNCHANGED vars
  BY <1>4, <1>12 DEF vars
<1> QED
  BY <1>2, <1>3, <1>6, <1>7, <1>8, <1>9, <1>10, <1>11, <1>12, StepCases

\* Every reachable state of the pool is well typed, and a frame has no page but those
\* of the file: what evictVictim writes back has its place there (buffer_pool.hpp,
\* Frame; disk_manager.cpp).
THEOREM TypeCorrect == Spec => []TypeOK
<1>1. Init => FramesHavePages
  BY DEF Init, EmptyFrame, FramesHavePages
<1>2. IInv /\ FramesHavePages /\ [Next]_vars => FramesHavePages'
  BY FramesHavePagesKept DEF IInv
<1>3. IInv /\ FramesHavePages => TypeOK
  BY DEF IInv, FrameInv, FramesHavePages, TypeOK
<1> QED
  BY <1>1, <1>2, <1>3, Invariance, PTL DEF Spec

\* No page has two frames: whatever was evicted and claimed, the table and the
\* frames agree (evictVictim, installPage).
THEOREM FramesAgree == Spec => []OneFramePerPage
<1>1. IInv => OneFramePerPage
  BY Numbers DEF IInv, FrameInv
<1> QED
  BY <1>1, Invariance, PTL

\* A page in use stays where its users were told it is (evictVictim passes pinned
\* frames).
THEOREM FramesCorrect == Spec => []PointersAreGood
<1>1. IInv => PointersAreGood
  <2> SUFFICES ASSUME IInv, NEW p \in PageId, users[p] > 0
               PROVE  table[p] = pointer[p] /\ frames[pointer[p]].pin = users[p]
    BY DEF PointersAreGood, IInv, FrameInv
  <2> QED
    BY Numbers DEF IInv, FrameInv, PinsAreUsers
<1> QED
  BY <1>1, Invariance, PTL

\* The sweep throws only if every frame is pinned: its limit is large enough
\* for every size of the pool.
THEOREM GivesUpRightly == Spec => GivesUpOnlyIfAllPinned
<1>1. ASSUME IInv, Next, pc = "sweeping", pc' = "idle", users' = users, NEW f \in Frame
      PROVE  frames[f].pin > 0
  <2>1. ~Claim
    <3> SUFFICES ASSUME Claim PROVE FALSE
      OBVIOUS
    <3>1. want \in PageId /\ users[want] = 0
      BY <1>1, ClaimedTable DEF IInv
    <3>2. users'[want] = users[want] + 1
      BY <1>1, <3>1 DEF Claim, Return, IInv, FrameInv, Types
    <3> QED
      BY <1>1, <3>1, <3>2
  <2>2. Pass
    BY <1>1, <2>1 DEF Next, newPage, flushAll, fetchPage, unpinPage, Write
  <2>3. scanned \in Nat /\ scanned + 1 > 4 * NFrames + 1 /\ hand \in Frame
    BY <1>1, <2>2 DEF Pass, Limit, IInv, FrameInv, Types
  <2>4. Age(f) \in 1 .. NFrames
    BY <2>3 DEF Age, Frame
  <2>5. Age(f) + NFrames <= scanned
    BY <2>3, <2>4
  <2> QED
    BY <1>1, <2>5 DEF IInv, PassedFrames
<1>2. IInv /\ [Next]_vars =>
        [pc = "sweeping" /\ pc' = "idle" /\ users' = users =>
            \A f \in Frame : frames[f].pin > 0]_vars
  BY <1>1
<1> QED
  BY <1>2, Invariance, PTL DEF Spec, GivesUpOnlyIfAllPinned

-------------------------------------------------------------------------------
(* The pool implements the page store.                                      *)

\* The contents are a sequence of as many pages as the file has.
ShowsContents ==
    /\ Contents \in Seq(Content) /\ Len(Contents) = Len(file)
    /\ DOMAIN Contents = DOMAIN file
    /\ \A p \in DOMAIN file : Contents[p] = Shown(p)

LEMMA ContentsAreShown == ASSUME FrameInv PROVE ShowsContents
<1>1. file \in Seq(Content) /\ DOMAIN file = 1 .. Len(file) /\ Len(file) \in Nat
  BY DEF FrameInv, Types
<1>2. \A p \in DOMAIN file : Shown(p) \in Content
  BY <1>1, Fields, States DEF FrameInv, Shown
<1> QED
  BY <1>1, <1>2 DEF Contents, ShowsContents

LEMMA ContentsStayShown == FrameInv' => ShowsContents'
<1>1. FrameInv => ShowsContents
  BY ContentsAreShown
<1> QED
  BY <1>1, PTL

\* Contents that show the same on the same pages are the same.
LEMMA SameContents ==
    ASSUME FrameInv, FrameInv', DOMAIN file' = DOMAIN file,
           \A q \in DOMAIN file : Shown(q)' = Shown(q)
    PROVE  Contents' = Contents
BY DEF Contents

\* A file after the pages of P, and no others, have been saved.
LEMMA SavesAre ==
    ASSUME FrameInv, FrameInv', DOMAIN file' = DOMAIN file, NEW P,
           \A q \in DOMAIN file : file'[q] = IF q \in P THEN Shown(q) ELSE file[q]
    PROVE  Store!Saves(P)
<1>1. file' \in Seq(Content)
  BY DEF FrameInv, Types
<1>2. file' = [q \in DOMAIN file |-> file'[q]]
  BY <1>1
<1>3. \A q \in DOMAIN file : file'[q] = IF q \in P THEN Contents[q] ELSE file[q]
  BY ContentsAreShown DEF ShowsContents
<1> QED
  BY <1>2, <1>3 DEF Store!Saves

LEMMA NothingSaved ==
    ASSUME FrameInv, FrameInv', UNCHANGED file
    PROVE  Store!Saves({})
BY SavesAre

-------------------------------------------------------------------------------
(* Each step of the pool is a step of the store, or none.                   *)

LEMMA HitIsPin ==
    ASSUME IInv, IInv', NEW p \in DOMAIN file, Hit(p)
    PROVE  Store!Pin(p)
<1>1. UNCHANGED file /\ users' = [users EXCEPT ![p] = @ + 1]
  BY DEF Hit, Return
<1>2. Contents' = Contents
  BY <1>1, HitKeepsContent, SameContents DEF IInv
<1>3. Store!Saves({})
  BY <1>1, NothingSaved DEF IInv
<1> QED
  BY <1>1, <1>2, <1>3 DEF Store!Pin

LEMMA ClaimIsPin ==
    ASSUME IInv, IInv', Claim
    PROVE  want \in DOMAIN file /\ Store!Pin(want)
<1>1. /\ hand \in Frame /\ want \in DOMAIN file /\ file' = Saved(hand)
      /\ users' = [users EXCEPT ![want] = @ + 1]
  BY ClaimedTable DEF Claim, Return, IInv
<1>2. DOMAIN file' = DOMAIN file
  BY <1>1, SavedFile DEF IInv
<1>3. Contents' = Contents
  BY <1>2, ClaimKeepsContent, SameContents DEF IInv
<1>4. \A q \in DOMAIN file :
        file'[q] = IF table[q] = hand /\ frames[hand].dirty THEN Shown(q) ELSE file[q]
  BY <1>1, SavedFile, Numbers DEF IInv, Shown
<1>5. CASE \E q \in DOMAIN file : table[q] = hand /\ frames[hand].dirty
  <2>1. PICK q \in DOMAIN file : table[q] = hand /\ frames[hand].dirty
    BY <1>5
  <2>2. q \in PageId /\ users[q] = 0
    BY <2>1, ClaimedTable, Fields DEF IInv, FrameInv
  <2>3. \A r \in DOMAIN file : table[r] = hand => r = q
    BY <1>1, <2>1, Fields DEF IInv, FrameInv, OneFramePerPage
  <2>4. Store!Saves({q})
    <3>1. \A r \in DOMAIN file : file'[r] = IF r \in {q} THEN Shown(r) ELSE file[r]
      BY <1>4, <2>1, <2>3
    <3> QED
      BY <1>2, <3>1, SavesAre DEF IInv
  <2> QED
    BY <1>1, <1>3, <2>2, <2>4 DEF Store!Pin
<1>6. CASE ~\E q \in DOMAIN file : table[q] = hand /\ frames[hand].dirty
  <2>1. Store!Saves({})
    <3>1. \A r \in DOMAIN file : file'[r] = IF r \in {} THEN Shown(r) ELSE file[r]
      BY <1>4, <1>6
    <3> QED
      BY <1>2, <3>1, SavesAre DEF IInv
  <2> QED
    BY <1>1, <1>3, <2>1 DEF Store!Pin
<1> QED
  BY <1>1, <1>5, <1>6

\* A new page is zeros at once, though it has no frame yet.
LEMMA NewPageIsAllocate ==
    ASSUME IInv, IInv', newPage
    PROVE  Store!Allocate
<1>1. file' = Append(file, Zero) /\ UNCHANGED users
  BY DEF newPage, allocatePage, Seek, callers
<1>2. file \in Seq(Content) /\ want' = Len(file) + 1 /\ DOMAIN file = 1 .. Len(file)
  BY DEF newPage, Seek, IInv, FrameInv, Types
<1>3. /\ Contents \in Seq(Content) /\ Len(Contents) = Len(file)
      /\ \A q \in DOMAIN file : Contents[q] = Shown(q)
  BY ContentsAreShown DEF IInv, ShowsContents
<1>4. /\ Len(file') = Len(file) + 1 /\ DOMAIN file' = DOMAIN file \cup {want'}
      /\ \A q \in DOMAIN file : Shown(q)' = Shown(q)
      /\ Shown(want)' = Zero
  BY Allocation, NewPageKeepsContent DEF IInv, FrameInv
<1>5. /\ Contents' \in Seq(Content) /\ Len(Contents') = Len(file')
      /\ \A q \in DOMAIN file' : Contents'[q] = Shown(q)'
  BY ContentsStayShown DEF IInv, ShowsContents
<1> DEFINE c == Append(Contents, Zero)
<1>6. /\ c \in Seq(Content) /\ Len(c) = Len(file) + 1
      /\ \A q \in 1 .. Len(file) : c[q] = Contents[q]
      /\ c[Len(file) + 1] = Zero
  BY <1>3, AppendProperties, ContentAssumption
<1>7. Contents' = c
  <2> HIDE DEF c
  <2>1. \A q \in 1 .. Len(Contents') : Contents'[q] = c[q]
    <3> SUFFICES ASSUME NEW q \in 1 .. Len(Contents') PROVE Contents'[q] = c[q]
      OBVIOUS
    <3>1. Len(file) \in Nat /\ q \in DOMAIN file'
      BY <1>2, <1>4, <1>5
    <3>2. CASE q \in DOMAIN file
      BY <1>2, <1>3, <1>4, <1>5, <1>6, <3>1, <3>2
    <3>3. CASE q = want'
      BY <1>2, <1>3, <1>4, <1>5, <1>6, <3>1, <3>3
    <3> QED
      BY <1>4, <3>1, <3>2, <3>3
  <2> QED
    BY <1>4, <1>5, <1>6, <2>1, SeqEqual
<1> QED
  BY <1>1, <1>7 DEF Store!Allocate

\* A dirty page is saved, and a page in use only if it is dirty.
LEMMA FlushIsSaveAll ==
    ASSUME IInv, IInv', flushAll
    PROVE  Store!SaveAll
<1> DEFINE P == {p \in DOMAIN file : users[p] = 0 \/ (table[p] # NoFrame /\ frames[table[p]].dirty)}
<1>1. UNCHANGED users /\ DOMAIN file' = DOMAIN file
  BY Flushed DEF flushAll, callers, IInv
<1>2. Contents' = Contents
  BY <1>1, FlushKeepsContent, SameContents DEF IInv
<1>3. \A p \in DOMAIN file : file'[p] = IF p \in P THEN Shown(p) ELSE file[p]
  <2> SUFFICES ASSUME NEW p \in DOMAIN file
               PROVE  file'[p] = IF p \in P THEN Shown(p) ELSE file[p]
    OBVIOUS
  <2>1. CASE table[p] # NoFrame /\ frames[table[p]].dirty
    BY <2>1, Flushed DEF IInv, Shown
  <2>2. CASE ~(table[p] # NoFrame /\ frames[table[p]].dirty)
    <3>1. file'[p] = file[p]
      BY <2>2, Flushed DEF IInv
    <3>2. users[p] = 0 => Shown(p) = file[p]
      <4> SUFFICES ASSUME users[p] = 0 PROVE Shown(p) = file[p]
        OBVIOUS
      <4>1. p \notin touched
        BY DEF IInv, CleanFramesAgree
      <4> QED
        BY <2>2, <4>1 DEF IInv, CleanFramesAgree, Shown
    <3> QED
      BY <2>2, <3>1, <3>2
  <2> QED
    BY <2>1, <2>2
<1>4. Store!Saves(P)
  <2> HIDE DEF P
  <2> QED
    BY <1>1, <1>3, SavesAre DEF IInv
<1>5. P \in SUBSET DOMAIN file /\ \A p \in DOMAIN file : users[p] = 0 => p \in P
  OBVIOUS
<1> QED
  <2> HIDE DEF P
  <2> QED
    BY <1>1, <1>2, <1>4, <1>5 DEF Store!SaveAll

LEMMA UnpinIsUnpin ==
    ASSUME IInv, IInv', NEW p \in DOMAIN file, unpinPage(p)
    PROVE  Store!Unpin(p)
<1>1. UNCHANGED file
  BY DEF unpinPage
<1>2. Contents' = Contents
  BY <1>1, UnpinKeepsContent, SameContents DEF IInv
<1> QED
  BY <1>1, <1>2 DEF Store!Unpin, unpinPage

LEMMA WriteIsWrite ==
    ASSUME IInv, IInv', NEW p \in DOMAIN file, NEW c \in Content, Write(p, c)
    PROVE  Store!Write(p, c)
<1>1. UNCHANGED <<file, users>> /\ users[p] > 0
  BY DEF Write, sweep
<1>2. \A q \in DOMAIN file : Shown(q)' = IF q = p THEN c ELSE Shown(q)
  BY WriteChangesContent DEF IInv
<1>3. Contents' = [Contents EXCEPT ![p] = c]
  BY <1>1, <1>2 DEF Contents
<1> QED
  BY <1>1, <1>3 DEF Store!Write

\* A page not found, and a frame passed, change nothing that users see.
LEMMA SearchIsHidden ==
    ASSUME IInv, IInv', Pass \/ \E p \in DOMAIN file : Miss(p)
    PROVE  UNCHANGED Store!vars
<1>1. UNCHANGED <<file, users>>
  BY DEF Pass, Miss, Seek, callers
<1>2. Contents' = Contents
  BY <1>1, PassKeepsContent, MissKeepsContent, SameContents DEF IInv
<1> QED
  BY <1>1, <1>2 DEF Store!vars

LEMMA StoreStep ==
    ASSUME IInv, IInv', [Next]_vars
    PROVE  [Store!Next]_(Store!vars)
<1>1. CASE Next
  <2>1. DOMAIN Contents = DOMAIN file
    BY ContentsAreShown DEF IInv, ShowsContents
  <2>2. CASE newPage
    BY <2>2, NewPageIsAllocate DEF Store!Next
  <2>3. CASE Claim
    BY <2>1, <2>3, ClaimIsPin DEF Store!Next
  <2>4. CASE flushAll
    BY <2>4, FlushIsSaveAll DEF Store!Next
  <2>5. CASE Pass \/ \E p \in DOMAIN file : Miss(p)
    BY <2>5, SearchIsHidden
  <2>6. ASSUME NEW p \in DOMAIN file, Hit(p) PROVE Store!Next
    BY <2>1, <2>6, HitIsPin DEF Store!Next
  <2>7. ASSUME NEW p \in DOMAIN file, unpinPage(p) PROVE Store!Next
    BY <2>1, <2>7, UnpinIsUnpin DEF Store!Next
  <2>8. ASSUME NEW p \in DOMAIN file, NEW c \in Content, Write(p, c) PROVE Store!Next
    BY <2>1, <2>8, WriteIsWrite DEF Store!Next
  <2> QED
    BY <1>1, <2>2, <2>3, <2>4, <2>5, <2>6, <2>7, <2>8, StepCases
<1>2. CASE UNCHANGED vars
  BY <1>2 DEF vars, sweep, callers, Store!vars, Contents, Shown
<1> QED
  BY <1>1, <1>2

\* Whatever the sweep evicts and fetches again, users see their pages as they
\* left them, and only what a page holds is written to the file.
THEOREM PoolStoresPages == Spec => StoresPages
<1>1. Init => Store!Init
  <2> SUFFICES ASSUME Init PROVE Store!Init
    OBVIOUS
  <2>1. FrameInv
    BY InitIInv DEF IInv
  <2>2. Contents \in Seq(Content) /\ Len(Contents) = 0
    BY <2>1, ContentsAreShown DEF Init, ShowsContents
  <2>3. Contents = <<>>
    BY <2>2, EmptySeq
  <2> QED
    BY <2>3 DEF Init, Store!Init
<1>2. IInv /\ IInv' /\ [Next]_vars => [Store!Next]_(Store!vars)
  BY StoreStep
<1> QED
  BY <1>1, <1>2, Invariance, PTL DEF Spec, Store!Spec, StoresPages
===============================================================================
