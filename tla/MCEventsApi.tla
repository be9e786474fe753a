----------------------------- MODULE MCEventsApi -----------------------------
(* Instance of EventsApi for TLC. *)
EXTENDS EventsApi, TLC

CONSTANTS a1, a2, o1, o2, x, y

\* The rows of a1 may straddle two pages; two of them are of one organisation, which
\* saw its start time revised.
MCArnOf      == [r \in Row |-> IF r = 3 THEN a2 ELSE a1]
MCOrgOf      == [r \in Row |-> IF r = 2 THEN o2 ELSE o1]
MCCategoryOf == [r \in Row |-> IF r = 3 THEN "investigation" ELSE "issue"]

MCItem == {[status |-> "open", updated |-> 1, accounts |-> {x}],
           [status |-> "closed", updated |-> 2, accounts |-> {x, y}]}

MCQueries == {[category |-> "issue", org |-> All, status |-> All],
              [category |-> "issue", org |-> o1, status |-> "open"],
              [category |-> All, org |-> o1, status |-> All]}
=============================================================================
