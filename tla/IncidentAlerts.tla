---------------------------- MODULE IncidentAlerts ----------------------------
(***************************************************************************)
(* What the alerting promises its subscribers, without tables, scans or    *)
(* invocations: about each incident, evidence only accumulates, and what   *)
(* is announced is evidence; the first announcement is free and every      *)
(* later one needs the account count to have doubled or a new region since *)
(* the previous one (README, "Re-alert").                                  *)
(***************************************************************************)
EXTENDS Naturals

CONSTANTS Incidents, Region, Count

Evidence == [count : Count \cup {0}, regions : SUBSET Region]
None     == [count |-> 0, regions |-> {}]

VARIABLES
    evidence,   \* what the collector knows of each incident
    announced   \* what the last message about it said, None before the first

vars == <<evidence, announced>>

\* e says at least as much as f.
Covers(e, f) == e.count >= f.count /\ f.regions \subseteq e.regions

Significant(e, last) ==
    \/ last = None
    \/ e.count >= 2 * last.count
    \/ e.regions \ last.regions # {}

Init ==
    /\ evidence  = [i \in Incidents |-> None]
    /\ announced = [i \in Incidents |-> None]

Learn(i) ==
    /\ \E e \in Evidence : /\ Covers(e, evidence[i])
                           /\ evidence' = [evidence EXCEPT ![i] = e]
    /\ UNCHANGED announced

\* What is announced may be an earlier state of the evidence.
Announce(i) ==
    /\ \E e \in Evidence :
          /\ e # None
          /\ Covers(evidence[i], e)
          /\ Significant(e, announced[i])
          /\ announced' = [announced EXCEPT ![i] = e]
    /\ UNCHANGED evidence

Next == \E i \in Incidents : Learn(i) \/ Announce(i)

Spec == Init /\ [][Next]_vars

\* Whatever keeps deserving an announcement gets one.
FairSpec == Spec /\ \A i \in Incidents : WF_vars(Announce(i))

=============================================================================
