---------------------------- MODULE BufferPoolProps ----------------------------
(***************************************************************************)
(* What the buffer pool is checked for.                                    *)
(***************************************************************************)
EXTENDS BufferPool

FrameState == [page : PageId \cup {NoPage}, data : Content, pin : Nat,
               dirty : BOOLEAN, ref : 0 .. 1, valid : BOOLEAN]

Types ==
    /\ file \in Seq(Content) /\ Len(file) <= MaxPages
    /\ frames \in [Frame -> FrameState]
    /\ table \in [PageId -> Frame \cup {NoFrame}]
    /\ hand \in Frame
    /\ pc \in {"idle", "sweeping"}
    /\ want \in PageId \cup {NoPage}
    /\ pc = "sweeping" => want \in DOMAIN file /\ table[want] = NoFrame
    /\ is_new \in BOOLEAN
    /\ scanned \in 0 .. Limit + 1 /\ (pc = "sweeping" => scanned <= Limit)
    /\ pointer \in [PageId -> Frame \cup {NoFrame}]
    /\ users \in [PageId -> 0 .. MaxPins]
    /\ touched \subseteq PageId

\* Types, and every frame that has a page has one of the file: a victim is written
\* back to a place that is there.
TypeOK == Types /\ \A f \in Frame : frames[f].valid => frames[f].page \in DOMAIN file

\* A page has at most one frame, and the table names it: two copies of a page
\* would drift apart.
OneFramePerPage ==
    \A p \in PageId, f \in Frame :
        table[p] = f <=> frames[f].valid /\ frames[f].page = p

\* A page that somebody uses stays in the frame that was handed out, pinned as
\* often as it is used (README.md of MiniDB, "a page in use can't be evicted").
PointersAreGood ==
    \A p \in PageId : users[p] > 0 =>
        /\ table[p] = pointer[p]
        /\ frames[pointer[p]].pin = users[p]

\* A sweep gives up only if every frame is pinned: two rounds clear every
\* counter, so the limit of four suffices.
GivesUpOnlyIfAllPinned ==
    [][pc = "sweeping" /\ pc' = "idle" /\ users' = users =>
        \A f \in Frame : frames[f].pin > 0]_vars

\* What users see of page p.
Shown(p) == IF table[p] = NoFrame THEN file[p] ELSE frames[table[p]].data
Contents == [p \in DOMAIN file |-> Shown(p)]

\* The pool implements the page store: what fetchPage shows of a page is its
\* frame if it has one, else the file.
Store == INSTANCE PageStore WITH content <- Contents
StoresPages == Store!Spec

\* Every call comes back, with a frame or an exception.
CallsReturn == (pc = "sweeping") ~> (pc = "idle")
===============================================================================
