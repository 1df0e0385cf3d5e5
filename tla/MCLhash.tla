------------------------------- MODULE MCLhash -------------------------------
(***************************************************************************)
(* A table that starts with one bucket and grows to six, so that the array *)
(* is reallocated to four and to eight entries and back.  Three keys never *)
(* part; with six buckets they are all in the top one.                     *)
(***************************************************************************)
EXTENDS Lhash

CONSTANTS k1, k2, k3, k4, k5

MCKey == {k1, k2, k3, k4, k5}

MCHash ==
  [k \in MCKey |-> CASE k = k1 -> 5 [] k = k2 -> 13 [] k = k3 -> 21
                     [] k = k4 -> 3 [] OTHER -> 6]
=============================================================================
