-------------------------------- MODULE HeapFile --------------------------------
(***************************************************************************)
(* A table's heap (src/storage/heap_file.cpp) over slotted pages           *)
(* (src/storage/page.hpp), as operators on a value: a heap is the sequence *)
(* of the table's pages, in the order of its page list.                    *)
(*                                                                         *)
(* A page is the room left between its slot directory and its tuples, and  *)
(* its slots.  Tuples are never moved and the room of an erased tuple is   *)
(* never given back, so byte offsets are abstracted away.  A page of zeros *)
(* (allocated on disk, never written) is initialised before its first use, *)
(* which makes it an empty page.                                           *)
(***************************************************************************)
EXTENDS Integers, Sequences, FiniteSets

CONSTANTS
    Key,        \* primary keys
    Image,      \* serialized rows, apart from their primary keys
    Size,       \* image -> the bytes it takes on a page, its slot included
    PageBytes,  \* the room on an empty page
    NoRow,      \* the default RowId: no such row
    Absent,     \* the content of a key without rows
    Duplicated  \* the content of a key with several rows

ASSUME SizeAssumption == Size \in [Image -> Nat \ {0}] /\ PageBytes \in Nat
ASSUME NoRowAssumption == NoRow \notin Nat \X Nat
ASSUME ContentAssumption ==
    {Absent, Duplicated} \cap Image = {} /\ Absent # Duplicated

Slot == [pk : Key, image : Image, live : BOOLEAN]
Page == [free : 0 .. PageBytes, slots : Seq(Slot)]

EmptyPage == [free |-> PageBytes, slots |-> <<>>]

TooLarge(image) == Size[image] > PageBytes

InsertTuple(page, pk, image) ==
    [free  |-> page.free - Size[image],
     slots |-> Append(page.slots, [pk |-> pk, image |-> image, live |-> TRUE])]

Fitting(heap, image) == {p \in DOMAIN heap : Size[image] <= heap[p].free}

\* First fit, else the page by which the heap is about to grow.
FirstFit(heap, image) ==
    IF Fitting(heap, image) = {} THEN Len(heap) + 1
    ELSE CHOOSE p \in Fitting(heap, image) :
             \A q \in Fitting(heap, image) : p <= q

Grows(heap, image) == Fitting(heap, image) = {}

\* The heap after an insert, and the RowId the insert returned.
Inserted(heap, pk, image) ==
    IF Grows(heap, image)
    THEN Append(heap, InsertTuple(EmptyPage, pk, image))
    ELSE [heap EXCEPT ![FirstFit(heap, image)] = InsertTuple(@, pk, image)]

InsertedAt(heap, image) ==
    LET p == FirstFit(heap, image)
    IN  <<p, IF Grows(heap, image) THEN 1 ELSE Len(heap[p].slots) + 1>>

\* An erased slot stays, with length 0.
Erased(heap, rid) == [heap EXCEPT ![rid[1]].slots[rid[2]].live = FALSE]

At(heap, rid) == heap[rid[1]].slots[rid[2]]

LiveRows(heap) ==
    UNION {{<<p, s>> : s \in {i \in DOMAIN heap[p].slots :
                                heap[p].slots[i].live}} : p \in DOMAIN heap}

\* The rows with a primary key.
Copies(heap, pk) == {rid \in LiveRows(heap) : At(heap, rid).pk = pk}

\* The order of a scan.
ScannedBefore(r, q) == r[1] < q[1] \/ (r[1] = q[1] /\ r[2] < q[2])

\* What a scan of the table shows for each primary key.
Contents(heap) ==
    [pk \in Key |->
        LET rids == Copies(heap, pk)
        IN  IF rids = {} THEN Absent
            ELSE IF Cardinality(rids) = 1 THEN At(heap, CHOOSE rid \in rids : TRUE).image
            ELSE Duplicated]

\* The index a scan builds; the tree keeps the last row of a key.
IndexOf(heap) ==
    [pk \in Key |->
        IF Copies(heap, pk) = {} THEN NoRow
        ELSE CHOOSE rid \in Copies(heap, pk) :
                 \A q \in Copies(heap, pk) \ {rid} : ScannedBefore(q, rid)]
===============================================================================
