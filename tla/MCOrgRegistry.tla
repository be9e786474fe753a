---------------------------- MODULE MCOrgRegistry ----------------------------
(* Instance of OrgRegistry for TLC. *)
EXTENDS OrgRegistry

CONSTANTS o1, o2, p1, p2, c1, c2
=============================================================================
