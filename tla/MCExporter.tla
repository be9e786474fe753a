------------------------------ MODULE MCExporter ------------------------------
(* Instances of Exporter for TLC. *)
EXTENDS Exporter, TLC

CONSTANTS w1, w2, r1, r2, r3, a1, a2, o1, o2

\* a1 affects both organisations, a2 only the first; one row each.
MCArnOf == r1 :> a1 @@ r2 :> a1 @@ r3 :> a2
MCOrgOf == r1 :> o1 @@ r2 :> o2 @@ r3 :> o1
MCOrder == <<r1, r2, r3>>
=============================================================================
