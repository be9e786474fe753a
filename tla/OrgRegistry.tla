------------------------------ MODULE OrgRegistry ------------------------------
(***************************************************************************)
(* The organisation registry, one SSM parameter: operators change it with  *)
(* scripts/register_org.sh, which reads the whole list and writes it back, *)
(* or by hand; a collector container reads it when it is cold and keeps it *)
(* (collector/org_registry.py); GET /v1/orgs reads it every time.          *)
(***************************************************************************)
EXTENDS Naturals

CONSTANTS
    Org,
    Operator,       \* runs of register_org.sh that may overlap
    Container,      \* Lambda execution environments of the collector
    Faults,         \* kinds of failures the environment may inject
    MaxFaults,      \* bound on injected failures
    MaxEdits        \* bound on changes of the registry

ASSUME RegistryAssumption ==
    /\ {MaxFaults, MaxEdits} \subseteq Nat
    /\ Faults \subseteq {"get", "put", "overlap", "load"}

\* What the list says of an organisation; the script's entries have no "enabled".
Entry == {"absent", "bare", "enabled", "disabled"}

NotRead == [o \in Org |-> "unread"]

VARIABLES
    param,      \* the parameter
    faults, edits,
    editing,    \* what a run of the script is about to do, and to which organisation
    current,    \* CURRENT_JSON of a run
    warm,       \* containers whose _cache is set
    orgs,       \* what load_orgs last returned in a container
    shown       \* organisations GET /v1/orgs last showed as enabled

vars == <<param, faults, edits, editing, current, warm, orgs, shown>>

Idle == <<"none", "none">>

Init ==
    /\ param \in [Org -> Entry]
    /\ faults = 0 /\ edits = 0
    /\ editing = [p \in Operator |-> Idle] /\ current = [p \in Operator |-> NotRead]
    /\ warm = {} /\ orgs = [c \in Container |-> {}] /\ shown = {}

Fails(kind) == kind \in Faults /\ faults < MaxFaults /\ faults' = faults + 1

\* Changing the registry while a run has read it and not yet written it is a mistake of
\* the operators that the script cannot notice.
Alone == IF \E p \in Operator : editing[p] # Idle THEN Fails("overlap") ELSE UNCHANGED faults

-----------------------------------------------------------------------------
(* register_org.sh *)

Start(p) ==
    /\ editing[p] = Idle /\ edits < MaxEdits /\ edits' = edits + 1
    /\ \E o \in Org, command \in {"add", "delete"} : editing' = [editing EXCEPT ![p] = <<command, o>>]
    /\ Alone
    /\ UNCHANGED <<param, current, warm, orgs, shown>>

GetParameter(p) ==
    /\ editing[p] # Idle /\ current[p] = NotRead
    /\ current' = [current EXCEPT ![p] = param]
    /\ UNCHANGED <<param, faults, edits, editing, warm, orgs, shown>>

\* get-parameter fails, for whatever reason: "|| echo '[]'".
GetFails(p) ==
    /\ editing[p] # Idle /\ current[p] = NotRead
    /\ Fails("get")
    /\ current' = [current EXCEPT ![p] = [o \in Org |-> "absent"]]
    /\ UNCHANGED <<param, edits, editing, warm, orgs, shown>>

Done(p) ==
    /\ editing' = [editing EXCEPT ![p] = Idle]
    /\ current' = [current EXCEPT ![p] = NotRead]
    /\ UNCHANGED <<edits, warm, orgs, shown>>

\* Mutant: the list that was read is not written back.
MutantUpdated(p) ==
    [o \in Org |-> IF editing[p] = <<"add", o>> THEN "bare" ELSE "absent"]

\* An added entry replaces the organisation's present one.
Updated(p) ==
    [current[p] EXCEPT ![editing[p][2]] = IF editing[p][1] = "add" THEN "bare" ELSE "absent"]

\* Mutant: written before it was read.
MutantPutParameter(p) ==
    /\ editing[p] # Idle
    /\ param' = Updated(p)
    /\ Done(p) /\ UNCHANGED faults

PutParameter(p) ==
    /\ editing[p] # Idle /\ current[p] # NotRead
    /\ param' = Updated(p)
    /\ Done(p) /\ UNCHANGED faults

\* The operator does not confirm an addition, or put-parameter fails.
Abort(p) ==
    /\ editing[p] # Idle /\ current[p] # NotRead
    /\ IF editing[p][1] = "add" THEN UNCHANGED faults ELSE Fails("put")
    /\ Done(p) /\ UNCHANGED param

\* An entry with "enabled" (docs/reference.md:487) is written by hand; the script and
\* the format of SPEC.md section 4 have no such field.
EditByHand(o) ==
    /\ edits < MaxEdits /\ edits' = edits + 1
    /\ \E e \in {"enabled", "disabled"} : param' = [param EXCEPT ![o] = e]
    /\ Alone
    /\ UNCHANGED <<editing, current, warm, orgs, shown>>

-----------------------------------------------------------------------------
(* load_orgs and list_orgs *)

\* Mutant: an entry without "enabled" is disabled.
MutantEnabledOrgs == {o \in Org : param[o] = "enabled"}

\* o.get("enabled", True), of which SPEC.md:165 says that there is no such filtering.
EnabledOrgs == {o \in Org : param[o] \in {"bare", "enabled"}}

LoadOrgs(c) ==
    /\ orgs' = IF c \in warm THEN orgs ELSE [orgs EXCEPT ![c] = EnabledOrgs]
    /\ warm' = warm \cup {c}
    /\ UNCHANGED <<param, faults, edits, editing, current, shown>>

\* get_parameter raises: the invocation fails and nothing is kept.
LoadFails(c) ==
    /\ c \notin warm /\ Fails("load")
    /\ orgs' = [orgs EXCEPT ![c] = {}]
    /\ UNCHANGED <<param, edits, editing, current, warm, shown>>

\* Lambda retires a container, and with it the module-level cache.
Retire(c) ==
    /\ c \in warm /\ warm' = warm \ {c}
    /\ UNCHANGED <<param, faults, edits, editing, current, orgs, shown>>

ListOrgs ==
    /\ shown' = {o \in Org : param[o] \notin {"absent", "disabled"}}
    /\ UNCHANGED <<param, faults, edits, editing, current, warm, orgs>>

Next ==
    \/ \E p \in Operator :
          Start(p) \/ GetParameter(p) \/ GetFails(p) \/ PutParameter(p) \/ Abort(p)
    \/ \E o \in Org : EditByHand(o)
    \/ \E c \in Container : LoadOrgs(c) \/ LoadFails(c) \/ Retire(c)
    \/ ListOrgs

Spec == Init /\ [][Next]_vars

\* The schedule invokes every container Lambda keeps, Lambda keeps none for ever, and
\* the dashboard is looked at.
FairSpec ==
    /\ Spec /\ WF_vars(ListOrgs)
    /\ \A c \in Container : WF_vars(LoadOrgs(c)) /\ WF_vars(Retire(c))

-----------------------------------------------------------------------------
(* Properties *)

TypeOK ==
    /\ param \in [Org -> Entry]
    /\ {faults, edits} \subseteq Nat
    /\ editing \in [Operator -> {Idle} \cup {"add", "delete"} \X Org]
    /\ current \in [Operator -> [Org -> Entry] \cup {NotRead}]
    /\ warm \subseteq Container /\ orgs \in [Container -> SUBSET Org] /\ shown \subseteq Org

\* Once operators leave the registry alone, every container settles on collecting the
\* organisations that the API shows as enabled, those of the script included: what a
\* warm container kept is outlived.  That those marked as disabled are left out is the
\* code's rule (org_registry.py:18, docs/reference.md:487), not that of SPEC.md:165.
RegistryTakesEffect ==
    \A c \in Container : <>[](orgs[c] = shown /\ shown = EnabledOrgs)

\* Without overlapping edits and failed reads, an organisation changes only when it is
\* the one edited: a run of the script neither drops nor disables another.
EditsKeepOthers ==
    [][\A o \in Org : param'[o] # param[o] =>
          \/ faults > 0
          \/ edits' # edits /\ param' = [param EXCEPT ![o] = param'[o]]
          \/ \E p \in Operator : /\ editing[p] # Idle /\ editing'[p] = Idle
                                 /\ editing[p][2] = o]_vars
=============================================================================
