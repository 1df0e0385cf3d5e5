----------------------------- MODULE MCBioPair -----------------------------
(* BioPair with writes of one byte, and of two that differ: a chunk that   *)
(* is lost, repeated or out of order shows.                                *)
EXTENDS BioPair

MCData == {<<1>>, <<0, 1>>}
====
