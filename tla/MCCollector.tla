----------------------------- MODULE MCCollector -----------------------------
(* Instances of Collector for TLC. *)
EXTENDS Collector, TLC

CONSTANTS w1, w2, o1, o2, a1, a2, s1, s2

\* a1 affects both organisations, a2 only the second.
MCAffects  == a1 :> {o1, o2} @@ a2 :> {o2}
OneAffects == a1 :> {o1, o2}
JustOne    == a1 :> {o1}
=============================================================================
