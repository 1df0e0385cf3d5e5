---- MODULE MCSessionCache ----
(* Model checking of SessionCache; connections are told apart by their role. *)
EXTENDS SessionCache, TLC

Symmetry == Permutations(Sessions) \cup Permutations(Ids)
====
