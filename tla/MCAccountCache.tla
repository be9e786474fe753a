---------------------------- MODULE MCAccountCache ----------------------------
(* Instance of AccountCache for TLC. *)
EXTENDS AccountCache, TLC

CONSTANTS w1, w2, a1, a2, m1, m2

Interchangeable == Permutations({w1, w2}) \cup Permutations({a1, a2})
=============================================================================
