----------------------------- MODULE Dictionary -----------------------------
(***************************************************************************)
(* What a hash table of crypto/lhash promises its users                    *)
(* (doc/crypto/lhash.pod, "RETURN VALUES"): a partial map from keys to     *)
(* data.  Inserting returns the value that is replaced, deleting the entry *)
(* that is deleted, retrieving the entry that is found, and NULL when      *)
(* there is none.  An insertion of a new key may fail for lack of memory;  *)
(* it then changes nothing.                                                *)
(***************************************************************************)
CONSTANTS Key, Val, NULL

VARIABLES
  map,
  last   \* the last call that came back: what it was, and what it returned

Call(op, k, v, ret) == [op |-> op, key |-> k, val |-> v, ret |-> ret]

Init ==
  /\ map = [k \in Key |-> NULL]
  /\ last = Call("new", NULL, NULL, NULL)

Insert(k, v) ==
  /\ last' = Call("insert", k, v, map[k])
  /\ map' = [map EXCEPT ![k] = v]

InsertFails(k, v) ==
  /\ map[k] = NULL
  /\ last' = Call("insert", k, v, NULL)
  /\ UNCHANGED map

Delete(k) ==
  /\ last' = Call("delete", k, NULL, map[k])
  /\ map' = [map EXCEPT ![k] = NULL]

Retrieve(k) ==
  /\ last' = Call("retrieve", k, NULL, map[k])
  /\ UNCHANGED map

\* The walk itself changes nothing; what its callbacks delete, Delete does.
DoAll ==
  /\ last' = Call("doall", NULL, NULL, NULL)
  /\ UNCHANGED map

Next ==
  \/ \E k \in Key :
       \/ \E v \in Val : Insert(k, v) \/ InsertFails(k, v)
       \/ Delete(k)
       \/ Retrieve(k)
  \/ DoAll

Spec == Init /\ [][Next]_<<map, last>>
=============================================================================
