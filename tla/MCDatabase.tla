------------------------------ MODULE MCDatabase ------------------------------
(***************************************************************************)
(* Instances for TLC: small or large rows, and one row on disk at first.   *)
(***************************************************************************)
EXTENDS DatabaseProps

CONSTANTS k1, k2, v1, v2, big

Empty     == <<>>
OneLoaded == Inserted(<<>>, k1, v1)
TwoLoaded == Inserted(OneLoaded, k2, v1)

\* A row v1 takes one unit, a row v2 a whole page, and "big" never fits.
MCSize == [image \in Image |-> IF image = v1 THEN 1
                               ELSE IF image = big THEN PageBytes + 1 ELSE PageBytes]
===============================================================================
