------------------------------- MODULE PageStore -------------------------------
(***************************************************************************)
(* What a buffer pool promises: pages whose content changes only when a    *)
(* user writes it, whatever is evicted and fetched in between, and a file  *)
(* that receives the content of pages, never anything else.                *)
(***************************************************************************)
EXTENDS Integers, Sequences

CONSTANTS Content, Zero, PageId

VARIABLES content, file, users

vars == <<content, file, users>>

Init == content = <<>> /\ file = <<>> /\ users = [p \in PageId |-> 0]

Allocate ==
    /\ content' = Append(content, Zero)
    /\ file' = Append(file, Zero)
    /\ UNCHANGED users

Saves(P) == file' = [p \in DOMAIN file |-> IF p \in P THEN content[p] ELSE file[p]]

\* A page that nobody uses is saved to make room.
Pin(p) ==
    /\ users' = [users EXCEPT ![p] = @ + 1]
    /\ Saves({}) \/ \E q \in DOMAIN file : users[q] = 0 /\ Saves({q})
    /\ UNCHANGED content

Unpin(p) ==
    /\ users[p] > 0
    /\ users' = [users EXCEPT ![p] = @ - 1]
    /\ UNCHANGED <<content, file>>

Write(p, c) ==
    /\ users[p] > 0
    /\ content' = [content EXCEPT ![p] = c]
    /\ UNCHANGED <<file, users>>

\* A page in use may be left out: its user has yet to say that it is dirty.
SaveAll ==
    /\ \E P \in SUBSET DOMAIN file :
          /\ \A p \in DOMAIN file : users[p] = 0 => p \in P
          /\ Saves(P)
    /\ UNCHANGED <<content, users>>

Next == \/ Allocate \/ SaveAll
        \/ \E p \in DOMAIN content :
              Pin(p) \/ Unpin(p) \/ \E c \in Content : Write(p, c)

Spec == Init /\ [][Next]_vars
===============================================================================
