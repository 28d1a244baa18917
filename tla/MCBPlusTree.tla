------------------------------- MODULE MCBPlusTree -------------------------------
(***************************************************************************)
(* The B+ tree for TLC.  Some keys may be inserted with either of two      *)
(* rows, which shows whether the row found is the last one inserted.       *)
(***************************************************************************)
EXTENDS BPlusTreeProps

CONSTANTS r1, r2, TwoRows

MCRows == [k \in Key |-> IF k \in TwoRows THEN {r1, r2} ELSE {r1}]
===============================================================================
