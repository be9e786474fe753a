----------------------------- MODULE MCEventFeed -----------------------------
(* Instance of EventFeed for TLC. *)
EXTENDS EventFeed, TLC

MCAttributes ==
    1 :> [service |-> "EKS", code |-> {"OUTAGE"}, status |-> "open"] @@
    2 :> [service |-> "MemoryDB", code |-> {"CONNECTIVITY", "other"}, status |-> "open"] @@
    3 :> [service |-> "Lambda", code |-> {"CONNECTIVITY"}, status |-> "open"]
=============================================================================
