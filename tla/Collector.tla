------------------------------ MODULE Collector ------------------------------
(***************************************************************************)
(* collector/handler.py: one invocation collects every organisation on a   *)
(* thread pool, writes the events table and the per-organisation state     *)
(* rows, and hands what it wrote to the alert dispatcher.                  *)
(*                                                                         *)
(* A worker is an invocation; workers overlap when the schedule, a retry   *)
(* and a manual start coincide.  Every call to a service is one step of an *)
(* organisation's thread or of the main thread.  AWS Health (`upstream')   *)
(* changes at any time.  HealthProxyClient and AccountCache are modules of *)
(* their own: here describe_events returns the complete window or raises.  *)
(***************************************************************************)
EXTENDS Naturals, FiniteSets

CONSTANTS
    Worker,         \* invocations that may overlap
    Org,            \* organisations in the registry
    Named,          \* those whose entry has "org_name"
    WithRole,       \* those whose entry has "assume_role_arn"
    Arn,            \* health events
    Start,          \* start times an event may be reported with
    Affects,        \* [Arn -> SUBSET Org]: organisations with affected accounts
    MaxConcurrentOrgs,
    WindowDays,     \* COLLECTION_WINDOW_DAYS
    Never,          \* "attribute not set"
    Faults,         \* kinds of failures the environment may inject
    MaxFaults,      \* bound on injected failures
    MaxVersion,     \* bound on the updates of one event
    MaxDay          \* bound on the clock

Day       == 0..MaxDay
Version   == 0..MaxVersion
FaultKind == {"assume", "accounts", "events", "affected", "put", "state", "dispatch", "crash"}
Status    == {"open", "closed"}

ASSUME RegistryAssumption == Named \subseteq Org /\ WithRole \subseteq Org
ASSUME EventAssumption    == Affects \in [Arn -> SUBSET Org] /\ Start # {}
ASSUME NeverAssumption    == Never \notin Nat
ASSUME BoundAssumption    == /\ {MaxConcurrentOrgs, WindowDays, MaxFaults, MaxVersion, MaxDay}
                                    \subseteq Nat
                             /\ MaxConcurrentOrgs > 0
                             /\ Faults \subseteq FaultKind

\* An event as AWS Health reports it; version 0 is an event that does not exist yet.
Health == [version : Version, status : Status, start : Start, updated : Day]
Event  == [arn : Arn, version : Version, status : Status, start : Start]

\* A row of the events table, pk = arn#org, sk = category#start_time.
RowKey == Arn \X Org \X Start
Row    == [version : Version, status : Status, ttl : Nat]
NoRow  == [version |-> 0, status |-> "closed", ttl |-> 0]

\* An item as _collect_org returns it.
Item == [arn : Arn, org : Org, version : Version, status : Status]

\* A collection-state row.
OrgState == [success : Day \cup {Never}, attempted : Day \cup {Never}, error : BOOLEAN]

VARIABLES
    day,        \* the clock, in days
    faults,     \* failures injected so far
    upstream,   \* what AWS Health knows
    table,      \* the events table
    state,      \* the collection-state rows
    main,       \* where the handler is
    since,      \* the day the handler began, which fixes its window
    step,       \* where an organisation's pipeline is
    todo,       \* events a pipeline fetched and has not processed
    items,      \* items a pipeline has written
    written,    \* all_written_items
    errors,     \* organisations the handler recorded as failed
    handed      \* items handed to the alert dispatcher, ever

vars == <<day, faults, upstream, table, state, main, since, step, todo, items, written, errors, handed>>

Thread == Worker \X Org
Main   == {"idle", "collecting", "aborting"}
Step   == {"none", "queued", "assume", "accounts", "events", "process", "ok", "failed", "handled"}
Active == {"assume", "accounts", "events", "process"}

-----------------------------------------------------------------------------
Fails(kind) ==
    /\ kind \in Faults /\ faults < MaxFaults
    /\ faults' = faults + 1

Goto(w, o, label) == step' = [step EXCEPT ![<<w, o>>] = label]

UpdatedSince(a, d) ==
    /\ upstream[a].version > 0
    /\ upstream[a].updated + WindowDays >= d

InWindow(a) == UpdatedSince(a, day)

\* describe_events_for_organization(last_updated_from = window_start)
EventsInWindow(w) ==
    {[arn |-> a, version |-> upstream[a].version, status |-> upstream[a].status,
      start |-> upstream[a].start] : a \in {b \in Arn : UpdatedSince(b, since[w])}}

\* put_item of a collection-state row replaces the whole row.
\* Mutant: the time of the attempt is left out of a successful row.
MutantSucceededState == [success |-> day, error |-> FALSE]
SucceededState == [success |-> day, attempted |-> day, error |-> FALSE]
FailedState    == [success |-> Never, attempted |-> day, error |-> TRUE]

Init ==
    /\ day = 0 /\ faults = 0
    /\ upstream \in [Arn -> {h \in Health : h.version = 0 /\ h.status = "open" /\ h.updated = 0}]
    /\ table = [k \in RowKey |-> NoRow]
    /\ state = [o \in Org |-> [success |-> Never, attempted |-> Never, error |-> FALSE]]
    /\ main = [w \in Worker |-> "idle"]
    /\ since = [w \in Worker |-> 0]
    /\ step = [t \in Thread |-> "none"]
    /\ todo = [t \in Thread |-> {}]
    /\ items = [t \in Thread |-> {}]
    /\ written = [w \in Worker |-> {}]
    /\ errors = [w \in Worker |-> {}]
    /\ handed = {}

-----------------------------------------------------------------------------
(* The environment *)

invocations == <<main, since, step, todo, items, written, errors, handed>>

\* AWS Health opens, updates or closes an event.
Revise(a) ==
    /\ upstream[a].version < MaxVersion /\ upstream[a].status = "open"
    /\ \E s \in Status, t \in Start :
          upstream' = [upstream EXCEPT ![a] =
              [version |-> upstream[a].version + 1, status |-> s, start |-> t, updated |-> day]]
    /\ UNCHANGED <<day, faults, table, state, invocations>>

NextDay ==
    /\ day < MaxDay
    /\ day' = day + 1
    /\ UNCHANGED <<faults, upstream, table, state, invocations>>

\* DynamoDB deletes an expired row, some time after its ttl has passed.
Expire(k) ==
    /\ table[k].version > 0 /\ table[k].ttl < day
    /\ table' = [table EXCEPT ![k] = NoRow]
    /\ UNCHANGED <<day, faults, upstream, state, invocations>>

-----------------------------------------------------------------------------
(* One organisation: _collect_org *)

\* The pool starts a queued pipeline; a missing org_name is a KeyError.
Begin(w, o) ==
    /\ step[<<w, o>>] = "queued"
    /\ Cardinality({p \in Org : step[<<w, p>>] \in Active}) < MaxConcurrentOrgs
    /\ Goto(w, o, IF o \in Named THEN "assume" ELSE "failed")
    /\ UNCHANGED <<day, faults, upstream, table, state, main, since, todo, items, written, errors, handed>>

AssumeOrgRole(w, o) ==
    /\ step[<<w, o>>] = "assume"
    /\ Goto(w, o, IF o \in WithRole THEN "accounts" ELSE "failed")
    /\ UNCHANGED <<day, faults, upstream, table, state, main, since, todo, items, written, errors, handed>>

LoadAccountMap(w, o) ==
    /\ step[<<w, o>>] = "accounts"
    /\ Goto(w, o, "events")
    /\ UNCHANGED <<day, faults, upstream, table, state, main, since, todo, items, written, errors, handed>>

DescribeEvents(w, o) ==
    /\ step[<<w, o>>] = "events"
    /\ todo' = [todo EXCEPT ![<<w, o>>] = EventsInWindow(w)]
    /\ Goto(w, o, "process")
    /\ UNCHANGED <<day, faults, upstream, table, state, main, since, items, written, errors, handed>>

\* assume_role, load_account_map or describe_events raises: the future fails.
CallFails(w, o) ==
    /\ step[<<w, o>>] \in {"assume", "accounts", "events"}
    /\ Fails(step[<<w, o>>])
    /\ Goto(w, o, "failed")
    /\ UNCHANGED <<day, upstream, table, state, main, since, todo, items, written, errors, handed>>

\* Mutant: the row is only created, never replaced.
MutantPutEvent(o, e) ==
    table' = IF table[<<e.arn, o, e.start>>].version > 0 THEN table
             ELSE [table EXCEPT ![<<e.arn, o, e.start>>] =
                    [version |-> e.version, status |-> e.status, ttl |-> day + WindowDays]]

PutEvent(o, e) ==
    table' = [table EXCEPT ![<<e.arn, o, e.start>>] =
                [version |-> e.version, status |-> e.status, ttl |-> day + WindowDays]]

\* Mutant: the filter on the organisation's accounts is dropped.
MutantNoFilter(w, o) ==
    /\ step[<<w, o>>] = "process"
    /\ \E e \in todo[<<w, o>>] :
          /\ todo' = [todo EXCEPT ![<<w, o>>] = @ \ {e}]
          /\ PutEvent(o, e)
          /\ items' = [items EXCEPT ![<<w, o>>] = @ \cup
                {[arn |-> e.arn, org |-> o, version |-> e.version, status |-> e.status]}]
    /\ UNCHANGED <<day, faults, upstream, state, main, since, step, written, errors, handed>>

\* Mutant: an event already stored in this version is not returned again.
MutantOnlyChanges(w, o) ==
    /\ step[<<w, o>>] = "process"
    /\ \E e \in todo[<<w, o>>] :
          /\ todo' = [todo EXCEPT ![<<w, o>>] = @ \ {e}]
          /\ \/ /\ o \notin Affects[e.arn] \/ table[<<e.arn, o, e.start>>].version = e.version
                /\ UNCHANGED <<table, items>>
             \/ /\ o \in Affects[e.arn] /\ table[<<e.arn, o, e.start>>].version # e.version
                /\ PutEvent(o, e)
                /\ items' = [items EXCEPT ![<<w, o>>] = @ \cup
                      {[arn |-> e.arn, org |-> o, version |-> e.version, status |-> e.status]}]
    /\ UNCHANGED <<day, faults, upstream, state, main, since, step, written, errors, handed>>

\* _process_event: affected accounts, filter, classify, put_item.
ProcessEvent(w, o) ==
    /\ step[<<w, o>>] = "process"
    /\ \E e \in todo[<<w, o>>] :
          /\ todo' = [todo EXCEPT ![<<w, o>>] = @ \ {e}]
          /\ \/ o \notin Affects[e.arn] /\ UNCHANGED <<table, items>>
             \/ /\ o \in Affects[e.arn]
                /\ PutEvent(o, e)
                /\ items' = [items EXCEPT ![<<w, o>>] = @ \cup
                      {[arn |-> e.arn, org |-> o, version |-> e.version, status |-> e.status]}]
    /\ UNCHANGED <<day, faults, upstream, state, main, since, step, written, errors, handed>>

\* An event whose affected accounts or put_item fail is skipped; a put_item whose
\* answer is lost has written the row all the same.
SkipEvent(w, o) ==
    /\ step[<<w, o>>] = "process"
    /\ \E e \in todo[<<w, o>>] :
          /\ todo' = [todo EXCEPT ![<<w, o>>] = @ \ {e}]
          /\ \/ Fails("affected") /\ UNCHANGED table
             \/ /\ o \in Affects[e.arn] /\ Fails("put")
                /\ PutEvent(o, e) \/ UNCHANGED table
    /\ UNCHANGED <<day, upstream, state, main, since, step, items, written, errors, handed>>

RecordSuccess(w, o) ==
    /\ step[<<w, o>>] = "process" /\ todo[<<w, o>>] = {}
    /\ state' = [state EXCEPT ![o] = SucceededState]
    /\ Goto(w, o, "ok")
    /\ UNCHANGED <<day, faults, upstream, table, main, since, todo, items, written, errors, handed>>

\* The items written are lost with the exception.
RecordSuccessFails(w, o) ==
    /\ step[<<w, o>>] = "process" /\ todo[<<w, o>>] = {}
    /\ Fails("state")
    /\ Goto(w, o, "failed")
    /\ UNCHANGED <<day, upstream, table, state, main, since, todo, items, written, errors, handed>>

-----------------------------------------------------------------------------
(* The handler *)

\* The handler begins: it fixes its window and submits every organisation to the pool.
Submit(w) ==
    /\ main[w] = "idle"
    /\ main' = [main EXCEPT ![w] = "collecting"]
    /\ since' = [since EXCEPT ![w] = day]
    /\ step' = [t \in Thread |-> IF t[1] = w THEN "queued" ELSE step[t]]
    /\ UNCHANGED <<day, faults, upstream, table, state, todo, items, written, errors, handed>>

\* Mutant: the items of one organisation replace those of the others.
MutantTakeResult(w, o) ==
    /\ main[w] = "collecting" /\ step[<<w, o>>] = "ok"
    /\ written' = [written EXCEPT ![w] = items[<<w, o>>]]
    /\ Goto(w, o, "handled")
    /\ UNCHANGED <<day, faults, upstream, table, state, main, since, todo, items, errors, handed>>

TakeResult(w, o) ==
    /\ main[w] = "collecting" /\ step[<<w, o>>] = "ok"
    /\ written' = [written EXCEPT ![w] = @ \cup items[<<w, o>>]]
    /\ Goto(w, o, "handled")
    /\ UNCHANGED <<day, faults, upstream, table, state, main, since, todo, items, errors, handed>>

\* Mutant: the failure is not recorded in the state row.
MutantTakeError(w, o) ==
    /\ main[w] = "collecting" /\ step[<<w, o>>] = "failed"
    /\ o \in Named
    /\ errors' = [errors EXCEPT ![w] = @ \cup {o}]
    /\ Goto(w, o, "handled")
    /\ UNCHANGED <<day, faults, upstream, table, state, main, since, todo, items, written, handed>>

TakeError(w, o) ==
    /\ main[w] = "collecting" /\ step[<<w, o>>] = "failed"
    /\ o \in Named
    /\ errors' = [errors EXCEPT ![w] = @ \cup {o}]
    /\ state' = [state EXCEPT ![o] = FailedState]
    /\ Goto(w, o, "handled")
    /\ UNCHANGED <<day, faults, upstream, table, main, since, todo, items, written, handed>>

\* _put_collection_state inside the except block raises: a KeyError for a missing
\* org_name, or DynamoDB fails.  The pool is shut down, which waits for every
\* pipeline, and then the exception leaves the handler.
TakeErrorRaises(w, o) ==
    /\ main[w] = "collecting" /\ step[<<w, o>>] = "failed"
    /\ IF o \in Named THEN Fails("state") ELSE UNCHANGED faults
    /\ errors' = [errors EXCEPT ![w] = @ \cup {o}]
    /\ main' = [main EXCEPT ![w] = "aborting"]
    /\ Goto(w, o, "handled")
    /\ UNCHANGED <<day, upstream, table, state, since, todo, items, written, handed>>

\* The invocation is over and its memory is gone.
Gone(w) ==
    /\ main' = [main EXCEPT ![w] = "idle"]
    /\ since' = [since EXCEPT ![w] = 0]
    /\ step' = [t \in Thread |-> IF t[1] = w THEN "none" ELSE step[t]]
    /\ todo' = [t \in Thread |-> IF t[1] = w THEN {} ELSE todo[t]]
    /\ items' = [t \in Thread |-> IF t[1] = w THEN {} ELSE items[t]]
    /\ written' = [written EXCEPT ![w] = {}]
    /\ errors' = [errors EXCEPT ![w] = {}]
    /\ UNCHANGED <<day, upstream, table, state>>

Collected(w) == main[w] = "collecting" /\ \A o \in Org : step[<<w, o>>] = "handled"

Dispatch(w) ==
    /\ Collected(w)
    /\ handed' = handed \cup written[w]
    /\ Gone(w)
    /\ UNCHANGED faults

DispatchRaises(w) ==
    /\ Collected(w)
    /\ Fails("dispatch")
    /\ Gone(w)
    /\ UNCHANGED handed

Abort(w) ==
    /\ main[w] = "aborting"
    /\ \A o \in Org : step[<<w, o>>] \in {"ok", "failed", "handled"}
    /\ Gone(w)
    /\ UNCHANGED <<faults, handed>>

\* The 300 s timeout, or the sandbox is lost.
Crash(w) ==
    /\ main[w] # "idle"
    /\ Fails("crash")
    /\ Gone(w)
    /\ UNCHANGED handed

-----------------------------------------------------------------------------
CollectOrg(w, o) ==
    \/ Begin(w, o)
    \/ AssumeOrgRole(w, o)
    \/ LoadAccountMap(w, o)
    \/ DescribeEvents(w, o)
    \/ CallFails(w, o)
    \/ ProcessEvent(w, o)
    \/ SkipEvent(w, o)
    \/ RecordSuccess(w, o)
    \/ RecordSuccessFails(w, o)

TakeFuture(w, o) == TakeResult(w, o) \/ TakeError(w, o) \/ TakeErrorRaises(w, o)
Return(w) == Dispatch(w) \/ DispatchRaises(w) \/ Abort(w)

Next ==
    \/ NextDay
    \/ \E a \in Arn : Revise(a)
    \/ \E k \in RowKey : Expire(k)
    \/ \E w \in Worker :
          \/ Submit(w)
          \/ \E o \in Org : CollectOrg(w, o) \/ TakeFuture(w, o)
          \/ Return(w)
          \/ Crash(w)

Spec == Init /\ [][Next]_vars

\* EventBridge keeps invoking the collector, and threads that can run do run.
Fairness ==
    \A w \in Worker :
       /\ WF_vars(Submit(w))
       /\ WF_vars(Return(w))
       /\ \A o \in Org : WF_vars(CollectOrg(w, o)) /\ WF_vars(TakeFuture(w, o))

FairSpec == Spec /\ Fairness

-----------------------------------------------------------------------------
(* Properties *)

TypeOK ==
    /\ day \in Day
    /\ faults \in Nat
    /\ upstream \in [Arn -> Health]
    /\ table \in [RowKey -> Row]
    /\ state \in [Org -> OrgState]
    /\ main \in [Worker -> Main]
    /\ since \in [Worker -> Day]
    /\ step \in [Thread -> Step]
    /\ todo \in [Thread -> SUBSET Event]
    /\ items \in [Thread -> SUBSET Item]
    /\ written \in [Worker -> SUBSET Item]
    /\ errors \in [Worker -> SUBSET Org]
    /\ handed \in SUBSET Item

\* What reaches the alert dispatcher is about an organisation whose accounts the
\* event affects, whose entry is complete, and no newer than what AWS Health said.
HandedIsReal ==
    \A i \in handed : /\ i.org \in Affects[i.arn] \cap Named \cap WithRole
                      /\ 1 <= i.version /\ i.version <= upstream[i.arn].version

\* When every future has been taken, the organisations recorded as failed are
\* exactly those whose items are missing from what is handed over: a failed
\* organisation contributes nothing, a successful one everything it wrote.
CollectedIsSplit ==
    \A w \in Worker : Collected(w) =>
        /\ \A o \in errors[w] : ~\E i \in written[w] : i.org = o
        /\ \A o \in Org \ errors[w] : items[<<w, o>>] \subseteq written[w]

\* When an invocation returns, the state row of every organisation tells how this
\* invocation's collection of it ended (for invocations that do not overlap).
StateRowsTellTheRun ==
    \A w \in Worker : Collected(w) =>
        \A o \in Org : /\ state[o].error <=> o \in errors[w]
                       /\ state[o].attempted # Never

\* Once AWS Health stops changing, the row of an event's last start time settles on what
\* AWS Health last said, although an overlapping invocation may first put back an older
\* version.  The row of an earlier start time stays behind until it expires.
TableConverges ==
    \A a \in Arn, o \in Org :
        o \in Affects[a] =>
            <>[](InWindow(a) =>
                    LET row == table[<<a, o, upstream[a].start>>]
                    IN  row.version = upstream[a].version /\ row.status = upstream[a].status)

\* An open event that AWS Health keeps reporting reaches the alert dispatcher, for
\* every organisation it affects, or is superseded.
OpenEventsAreHanded ==
    \A a \in Arn, o \in Org, v \in Version \ {0} :
        o \in Affects[a] =>
            ((upstream[a].version = v /\ upstream[a].status = "open" /\ InWindow(a))
                ~> \/ [arn |-> a, org |-> o, version |-> v, status |-> "open"] \in handed
                   \/ upstream[a].version # v
                   \/ ~InWindow(a))
=============================================================================
