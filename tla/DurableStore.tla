------------------------------ MODULE DurableStore ------------------------------
(***************************************************************************)
(* What a database session promises about a table.  Its visible content is *)
(* the committed content, except while a transaction is open: the          *)
(* transaction changes it one row at a time, and either makes the result   *)
(* the committed content (commit) or falls back (rollback, crash, exit).   *)
(* Falling back takes a while, in which nothing is visible; what is        *)
(* visible at its end is the committed content, to the row.                *)
(***************************************************************************)
CONSTANTS Key, Image, Absent

VARIABLES
    committed,
    visible,
    phase     \* "idle", "open" (in a transaction) or "settling" (falling back)

vars == <<committed, visible, phase>>

Init ==
    /\ committed \in [Key -> Image \cup {Absent}]
    /\ visible = committed
    /\ phase = "idle"

Begin ==
    /\ phase = "idle"
    /\ phase' = "open"
    /\ UNCHANGED <<committed, visible>>

Insert(k, image) ==
    /\ phase = "open"
    /\ visible[k] = Absent
    /\ visible' = [visible EXCEPT ![k] = image]
    /\ UNCHANGED <<committed, phase>>

Delete(k) ==
    /\ phase = "open"
    /\ visible[k] # Absent
    /\ visible' = [visible EXCEPT ![k] = Absent]
    /\ UNCHANGED <<committed, phase>>

Commit ==
    /\ phase = "open"
    /\ phase' = "idle"
    /\ committed' = visible
    /\ UNCHANGED visible

FallBack ==
    /\ phase # "settling"
    /\ phase' = "settling"
    /\ visible' = committed
    /\ UNCHANGED committed

\* The table is shown again, and shows what is committed.
Settle ==
    /\ phase = "settling"
    /\ phase' = "idle"
    /\ UNCHANGED <<committed, visible>>

Next == \/ Begin
        \/ \E k \in Key : (\E image \in Image : Insert(k, image)) \/ Delete(k)
        \/ Commit
        \/ FallBack
        \/ Settle

Spec == Init /\ [][Next]_vars
===============================================================================
