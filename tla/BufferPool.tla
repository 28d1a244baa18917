------------------------------- MODULE BufferPool -------------------------------
(***************************************************************************)
(* The buffer pool of MiniDB (src/storage/buffer_pool.cpp) over its data   *)
(* file (src/storage/disk_manager.cpp): frames, pins, and the clock sweep. *)
(*                                                                         *)
(* The pool runs in one thread.  A sweep is one action per frame it looks  *)
(* at; every other call is one action.  Callers keep the pointer they got, *)
(* write through it, and unpin in the end or, if they throw, never.        *)
(* Pages are numbered from 1, and 0 stands for INVALID_PAGE.               *)
(***************************************************************************)
EXTENDS Integers, Sequences

CONSTANTS
    NFrames,   \* frames of the pool
    MaxPages,  \* bound: pages of the data file
    MaxPins,   \* bound: pins that callers have on one page
    Content,   \* what a page can hold
    Zero       \* a page of zeros

ASSUME BoundsAssumption == NFrames \in Nat \ {0} /\ MaxPages \in Nat
                            /\ MaxPins \in Nat \ {0}
ASSUME ContentAssumption == Zero \in Content

Frame   == 1 .. NFrames
PageId  == 1 .. MaxPages
NoPage  == 0
NoFrame == 0

VARIABLES
    file,     \* the pages of the data file
    frames,   \* frame -> its fields
    table,    \* page -> its frame
    hand,     \* the frame the sweep looks at next
    pc,       \* "idle", or "sweeping" inside evictVictim
    want,     \* the page a frame is sought for
    is_new,   \* ... which has just been allocated
    scanned,  \* frames passed by this sweep
    pointer,  \* page -> the frame its users were given
    users,    \* page -> pins its users still hold
    touched   \* pages changed by users who have yet to unpin them as dirty

sweep   == <<hand, want, is_new, scanned>>
callers == <<pointer, users, touched>>
vars    == <<file, frames, table, pc, sweep, callers>>

EmptyFrame == [page |-> NoPage, data |-> Zero, pin |-> 0, dirty |-> FALSE,
               ref |-> 0, valid |-> FALSE]

Init ==
    /\ file = <<>>
    /\ frames = [f \in Frame |-> EmptyFrame]
    /\ table = [p \in PageId |-> NoFrame]
    /\ hand = 1
    /\ pc = "idle"
    /\ want = NoPage
    /\ is_new = FALSE
    /\ scanned = 0
    /\ pointer = [p \in PageId |-> NoFrame]
    /\ users = [p \in PageId |-> 0]
    /\ touched = {}

\* The caller gets the bytes of frame f.
Return(p, f) ==
    /\ pointer' = [pointer EXCEPT ![p] = f]
    /\ users' = [users EXCEPT ![p] = @ + 1]
    /\ UNCHANGED touched

Seek(p, new) ==
    /\ pc' = "sweeping"
    /\ want' = p
    /\ is_new' = new
    /\ scanned' = 0
    /\ UNCHANGED <<frames, table, hand, callers>>

Pinned(fr) == [fr EXCEPT !.pin = @ + 1, !.ref = 1]

fetchPage(p) ==
    /\ pc = "idle"
    /\ users[p] < MaxPins
    /\ \/ /\ table[p] # NoFrame
          /\ frames' = [frames EXCEPT ![table[p]] = Pinned(@)]
          /\ Return(p, table[p])
          /\ UNCHANGED <<table, pc, sweep>>
       \/ table[p] = NoFrame /\ Seek(p, FALSE)
    /\ UNCHANGED file

\* DiskManager: a new page is zeros, at once in the file.
allocatePage == file' = Append(file, Zero)

\* What a page of these pages reads as (there are no short reads).
readPage(pages, p) == pages[p]

\* Wrong on purpose, for the mutation runs (as is every definition named
\* Bug...): the page's number is that of the last page, not of the new one.
BugNewPage ==
    /\ pc = "idle"
    /\ Len(file) < MaxPages
    /\ allocatePage
    /\ Seek(Len(file), TRUE)

\* The file grows before a frame is sought.
newPage ==
    /\ pc = "idle"
    /\ Len(file) < MaxPages
    /\ allocatePage
    /\ Seek(Len(file) + 1, TRUE)

Next1(f) == IF f = NFrames THEN 1 ELSE f + 1

InUse(f) == frames[f].valid /\ (frames[f].pin > 0 \/ frames[f].ref > 0)

\* A dirty page is dropped.
BugSaved(f) == file

\* flushFrame.
Saved(f) == IF frames[f].valid /\ frames[f].dirty
            THEN [file EXCEPT ![frames[f].page] = frames[f].data]
            ELSE file

\* The evicted page keeps its entry.
BugUnmapped(f) == table

Unmapped(f) == IF frames[f].valid THEN [table EXCEPT ![frames[f].page] = NoFrame]
               ELSE table

\* The hand has come to a frame that can be had.
Claim ==
    /\ pc = "sweeping"
    /\ ~InUse(hand)
    /\ file' = Saved(hand)
    /\ frames' = [frames EXCEPT ![hand] =
                    [page |-> want, data |-> IF is_new THEN Zero ELSE readPage(file', want),
                     pin |-> 1, dirty |-> FALSE, ref |-> 1, valid |-> TRUE]]
    /\ table' = [Unmapped(hand) EXCEPT ![want] = hand]
    /\ hand' = Next1(hand)
    /\ pc' = "idle"
    /\ Return(want, hand)
    /\ UNCHANGED <<want, is_new, scanned>>

\* One round only: reference counters are cleared and no frame is found.
BugLimit == NFrames - 1

Limit == 4 * NFrames + 1

\* A reference is taken off only if there is no pin.
Passed(fr) == IF fr.pin = 0 THEN [fr EXCEPT !.ref = @ - 1] ELSE fr

\* The hand stays where it is.
BugPass ==
    /\ pc = "sweeping"
    /\ InUse(hand)
    /\ frames' = [frames EXCEPT ![hand] = Passed(@)]
    /\ UNCHANGED <<file, table, pc, sweep, callers>>

\* It passes a frame in use, and after too many of them throws.
Pass ==
    /\ pc = "sweeping"
    /\ InUse(hand)
    /\ frames' = [frames EXCEPT ![hand] = Passed(@)]
    /\ hand' = Next1(hand)
    /\ scanned' = scanned + 1
    /\ pc' = IF scanned' > Limit THEN "idle" ELSE "sweeping"
    /\ UNCHANGED <<file, table, want, is_new, callers>>

\* A caller writes through its pointer.
Write(p, content) ==
    /\ pc = "idle"
    /\ users[p] > 0
    /\ frames' = [frames EXCEPT ![pointer[p]].data = content]
    /\ touched' = touched \cup {p}
    /\ UNCHANGED <<file, table, pc, sweep, pointer, users>>

\* The first user to leave takes off the pins of all.
BugUnpinned(fr, dirty) == [fr EXCEPT !.dirty = @ \/ dirty, !.pin = 0]

Unpinned(fr, dirty) ==
    [fr EXCEPT !.dirty = @ \/ dirty, !.pin = IF @ > 0 THEN @ - 1 ELSE @]

\* Who changed the page says so.
unpinPage(p) ==
    /\ pc = "idle"
    /\ users[p] > 0
    /\ users' = [users EXCEPT ![p] = @ - 1]
    /\ frames' = IF table[p] = NoFrame THEN frames
                 ELSE [frames EXCEPT ![table[p]] = Unpinned(@, p \in touched)]
    /\ touched' = touched \ {p}
    /\ UNCHANGED <<file, table, pc, sweep, pointer>>

flushAll ==
    /\ pc = "idle"
    /\ file' = [p \in DOMAIN file |->
                  IF table[p] # NoFrame /\ frames[table[p]].dirty
                  THEN frames[table[p]].data ELSE file[p]]
    /\ frames' = [f \in Frame |-> [frames[f] EXCEPT !.dirty = FALSE]]
    /\ UNCHANGED <<table, pc, sweep, callers>>

Next ==
    \/ newPage \/ Claim \/ Pass \/ flushAll
    \/ \E p \in DOMAIN file :
          \/ fetchPage(p) \/ unpinPage(p)
          \/ \E content \in Content : Write(p, content)

Spec == Init /\ [][Next]_vars

\* The loop of evictVictim goes on by itself.
FairSpec == Spec /\ WF_vars(Claim \/ Pass)
===============================================================================
