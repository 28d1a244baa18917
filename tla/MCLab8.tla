-------------------------------- MODULE MCLab8 --------------------------------
(***************************************************************************)
(* Lab8 for TLC.  Transactions are ordered by their numbers, keys are      *)
(* interchangeable.                                                        *)
(***************************************************************************)
EXTENDS Lab8Props, TLC

Symmetry == Permutations(Key)

Over(t) == pc[t] \in {"releasing", "ended"}

\* What the rest of a behaviour, and the properties, can depend on: nothing reads
\* what was seen, but for NoDirtyRead, nor the snapshots, nor the calls counted for
\* a transaction that is over.
View == <<next_xid, tx_status, heap, queue, waits_for, pc, call, to_release, at,
          overtaken, [t \in Xid |-> IF Over(t) THEN 0 ELSE calls[t]], NoDirtyRead>>
===============================================================================
