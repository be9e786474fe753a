------------------------------- MODULE Exporter -------------------------------
(***************************************************************************)
(* exporter/handler.py and the delta of excel_writer.py: an export scans   *)
(* the events table, compares the open events with those the previous      *)
(* export remembered in S3, uploads a workbook that lists the difference,  *)
(* and saves the open events and the delta log for the next one.           *)
(*                                                                         *)
(* A worker is an invocation: the daily schedule, its asynchronous retries *)
(* and POST /v1/export start them, and nothing keeps two from overlapping. *)
(* Every page of the scan and every S3 call is one step.                   *)
(***************************************************************************)
EXTENDS Naturals, FiniteSets, Sequences

CONSTANTS
    Worker,     \* invocations that may overlap
    Row,        \* keys of the events table, one per event, organisation and start time
    Arn, Org,
    ArnOf,      \* [Row -> Arn]
    OrgOf,      \* [Row -> Org]
    ScanOrder,  \* the rows in the order a scan meets them
    MaxLog,     \* rows kept in the delta log (2000)
    Faults,     \* what may go wrong in a run
    MaxFaults,  \* bound on how often
    MaxChanges  \* bound on the changes of the events table

FaultKind == {"overlap", "vanish", "scan", "load", "upload", "save", "crash"}

ASSUME RowAssumption   == ArnOf \in [Row -> Arn] /\ OrgOf \in [Row -> Org]
ASSUME ScanAssumption  == /\ ScanOrder \in Seq(Row)
                          /\ {ScanOrder[i] : i \in DOMAIN ScanOrder} = Row
                          /\ \A i, j \in DOMAIN ScanOrder :
                                ScanOrder[i] = ScanOrder[j] => i = j
ASSUME BoundAssumption == /\ {MaxLog, MaxFaults, MaxChanges} \subseteq Nat
                          /\ Faults \subseteq FaultKind

\* "absent": no item, or one whose last_updated_time is before the window.
Status == {"absent", "open", "closed"}

\* A row of the delta log.
Delta == [row : Row, type : {"new_open", "resolved"}]

VARIABLES
    table,      \* the events table, as far as the scan's filter lets it through
    changes,    \* how often it changed
    faults,     \* what has gone wrong so far
    openArns,   \* exports/state/open_arns.json; missing is the same as empty
    deltaLog,   \* exports/delta-log/delta_log.json
    reported,   \* the ARNs that some uploaded workbook listed as new and as resolved
    pc,         \* where each invocation is
    next,       \* position of its scan
    items,      \* what it has scanned
    prev,       \* prev_open_arns
    prevLog     \* delta_log_rows

vars == <<table, changes, faults, openArns, deltaLog, reported, pc, next, items, prev, prevLog>>

PC == {"idle", "scan", "loadState", "loadLog", "upload", "saveState", "saveLog"}

-----------------------------------------------------------------------------
(* excel_writer.py; s is the scan's result, [Row -> Status] *)

Nothing == [r \in Row |-> "absent"]

Earlier(q, r) ==
    \E i, j \in DOMAIN ScanOrder : i < j /\ ScanOrder[i] = q /\ ScanOrder[j] = r

\* The rows of the data frame: drop_duplicates keeps the first per event and organisation.
EventRows(s) ==
    {r \in Row : /\ s[r] # "absent"
                 /\ ~\E q \in Row : /\ s[q] # "absent" /\ Earlier(q, r)
                                    /\ ArnOf[q] = ArnOf[r] /\ OrgOf[q] = OrgOf[r]}

\* Mutants: the rows instead of their ARNs; every ARN of the scan.
MutantRowsForArns(s) == {r \in Row : s[r] = "open"}
MutantEveryArn(s)    == {ArnOf[r] : r \in {q \in Row : s[q] # "absent"}}

\* current_open_arns looks at every item, duplicates included.
CurrentOpenArns(s) == {ArnOf[r] : r \in {q \in Row : s[q] = "open"}}

OpenInFrame(s) == {ArnOf[r] : r \in {q \in EventRows(s) : s[q] = "open"}}

\* The rows of the two delta tables: rows of the frame, so an event without any
\* row in it is in neither.
NewRows(s, p)      == {r \in EventRows(s) : ArnOf[r] \in OpenInFrame(s) \ p}
ResolvedRows(s, p) == {r \in EventRows(s) : ArnOf[r] \in p \ OpenInFrame(s)}

\* A data frame's rows are in the order of the scan.
InOrder(rows) ==
    CHOOSE listed \in [1..Cardinality(rows) -> rows] :
        \A i, j \in DOMAIN listed : i < j => Earlier(listed[i], listed[j])

Tagged(rows, type) ==
    LET listed == InOrder(rows)
    IN  [i \in DOMAIN listed |-> [row |-> listed[i], type |-> type]]

Capped(log) == IF Len(log) > MaxLog THEN SubSeq(log, Len(log) - MaxLog + 1, Len(log)) ELSE log

\* Mutant: the log starts afresh with every export.
MutantDeltaLog(s, p, log) ==
    Capped(Tagged(NewRows(s, p), "new_open") \o Tagged(ResolvedRows(s, p), "resolved"))

BuildDeltaLog(s, p, log) ==
    Capped(log \o Tagged(NewRows(s, p), "new_open") \o Tagged(ResolvedRows(s, p), "resolved"))

-----------------------------------------------------------------------------
(* The environment *)

Fails(kind) ==
    /\ kind \in Faults /\ faults < MaxFaults
    /\ faults' = faults + 1

Goto(w, label) == pc' = [pc EXCEPT ![w] = label]

Init ==
    /\ table = Nothing
    /\ changes = 0 /\ faults = 0
    /\ openArns = {} /\ deltaLog = <<>>
    /\ reported = [new_open |-> {}, resolved |-> {}]
    /\ pc = [w \in Worker |-> "idle"]
    /\ next = [w \in Worker |-> 1]
    /\ items = [w \in Worker |-> Nothing]
    /\ prev = [w \in Worker |-> {}]
    /\ prevLog = [w \in Worker |-> <<>>]

\* The collector writes a row.
Collect(r) ==
    /\ changes < MaxChanges
    /\ changes' = changes + 1
    /\ \E status \in {"open", "closed"} \ {table[r]} : table' = [table EXCEPT ![r] = status]
    /\ UNCHANGED <<faults, openArns, deltaLog, reported, pc, next, items, prev, prevLog>>

\* A row leaves the window or is deleted by its ttl.
Vanish(r) ==
    /\ table[r] # "absent"
    /\ Fails("vanish")
    /\ table' = [table EXCEPT ![r] = "absent"]
    /\ UNCHANGED <<changes, openArns, deltaLog, reported, pc, next, items, prev, prevLog>>

-----------------------------------------------------------------------------
(* handler() *)

Start(w) ==
    /\ pc[w] = "idle"
    /\ IF \A v \in Worker : pc[v] = "idle" THEN UNCHANGED faults ELSE Fails("overlap")
    /\ Goto(w, "scan")
    /\ UNCHANGED <<table, changes, openArns, deltaLog, reported, next, items, prev, prevLog>>

\* A page of the scan holds one row; a larger page is several of these steps.
ScanPage(w) ==
    /\ pc[w] = "scan"
    /\ IF next[w] \in DOMAIN ScanOrder
       THEN /\ items' = [items EXCEPT ![w][ScanOrder[next[w]]] = table[ScanOrder[next[w]]]]
            /\ next' = [next EXCEPT ![w] = @ + 1]
            /\ UNCHANGED pc
       ELSE /\ Goto(w, "loadState")
            /\ UNCHANGED <<items, next>>
    /\ UNCHANGED <<table, changes, faults, openArns, deltaLog, reported, prev, prevLog>>

LoadState(w) ==
    /\ pc[w] = "loadState"
    /\ prev' = [prev EXCEPT ![w] = openArns]
    /\ Goto(w, "loadLog")
    /\ UNCHANGED <<table, changes, faults, openArns, deltaLog, reported, next, items, prevLog>>

\* Any error is taken for a missing object.
LoadStateFails(w) ==
    /\ pc[w] = "loadState"
    /\ Fails("load")
    /\ Goto(w, "loadLog")
    /\ UNCHANGED <<table, changes, openArns, deltaLog, reported, next, items, prev, prevLog>>

LoadLog(w) ==
    /\ pc[w] = "loadLog"
    /\ prevLog' = [prevLog EXCEPT ![w] = deltaLog]
    /\ Goto(w, "upload")
    /\ UNCHANGED <<table, changes, faults, openArns, deltaLog, reported, next, items, prev>>

LoadLogFails(w) ==
    /\ pc[w] = "loadLog"
    /\ Fails("load")
    /\ Goto(w, "upload")
    /\ UNCHANGED <<table, changes, openArns, deltaLog, reported, next, items, prev, prevLog>>

Report(w) ==
    reported' = [new_open |-> reported.new_open
                        \cup {ArnOf[r] : r \in NewRows(items[w], prev[w])},
                 resolved |-> reported.resolved
                        \cup {ArnOf[r] : r \in ResolvedRows(items[w], prev[w])}]

\* The key of the workbook is that of the day, so a second export of a day replaces the
\* first workbook; the bucket is versioned (SPEC.md:730), and `reported' counts what any
\* version lists, the replaced ones included.
Upload(w) ==
    /\ pc[w] = "upload"
    /\ Report(w)
    /\ Goto(w, "saveState")
    /\ UNCHANGED <<table, changes, faults, openArns, deltaLog, next, items, prev, prevLog>>

SaveState(w) ==
    /\ pc[w] = "saveState"
    /\ openArns' = CurrentOpenArns(items[w])
    /\ Goto(w, "saveLog")
    /\ UNCHANGED <<table, changes, faults, deltaLog, reported, next, items, prev, prevLog>>

\* Errors of the two saves are logged and otherwise ignored.
SaveStateFails(w) ==
    /\ pc[w] = "saveState"
    /\ Fails("save")
    /\ Goto(w, "saveLog")
    /\ UNCHANGED <<table, changes, openArns, deltaLog, reported, next, items, prev, prevLog>>

\* The invocation is over and its memory is gone.
Stop(w) ==
    /\ Goto(w, "idle")
    /\ next' = [next EXCEPT ![w] = 1]
    /\ items' = [items EXCEPT ![w] = Nothing]
    /\ prev' = [prev EXCEPT ![w] = {}]
    /\ prevLog' = [prevLog EXCEPT ![w] = <<>>]
    /\ UNCHANGED <<table, changes>>

SaveLog(w) ==
    /\ pc[w] = "saveLog"
    /\ deltaLog' = BuildDeltaLog(items[w], prev[w], prevLog[w])
    /\ Stop(w)
    /\ UNCHANGED <<faults, openArns, reported>>

SaveLogFails(w) ==
    /\ pc[w] = "saveLog"
    /\ Fails("save")
    /\ Stop(w)
    /\ UNCHANGED <<openArns, deltaLog, reported>>

ScanFails(w) ==
    /\ pc[w] = "scan"
    /\ Fails("scan")
    /\ Stop(w)
    /\ UNCHANGED <<openArns, deltaLog, reported>>

\* Mutant: a failed upload is logged and ignored like a failed save.
MutantUploadFails(w) ==
    /\ pc[w] = "upload"
    /\ Fails("upload")
    /\ Goto(w, "saveState")
    /\ UNCHANGED <<table, changes, openArns, deltaLog, reported, next, items, prev, prevLog>>

\* put_object of the workbook raises out of the handler; S3 may have stored it.
UploadFails(w) ==
    /\ pc[w] = "upload"
    /\ Fails("upload")
    /\ Report(w) \/ UNCHANGED reported
    /\ Stop(w)
    /\ UNCHANGED <<openArns, deltaLog>>

\* The timeout, the memory limit, or the sandbox is lost.
Crash(w) ==
    /\ pc[w] # "idle"
    /\ Fails("crash")
    /\ Stop(w)
    /\ UNCHANGED <<openArns, deltaLog, reported>>

Export(w) ==
    \/ ScanPage(w)
    \/ ScanFails(w)
    \/ LoadState(w)
    \/ LoadStateFails(w)
    \/ LoadLog(w)
    \/ LoadLogFails(w)
    \/ Upload(w)
    \/ UploadFails(w)
    \/ SaveState(w)
    \/ SaveStateFails(w)
    \/ SaveLog(w)
    \/ SaveLogFails(w)

Next ==
    \/ \E r \in Row : Collect(r) \/ Vanish(r)
    \/ \E w \in Worker : Start(w) \/ Export(w) \/ Crash(w)

Spec == Init /\ [][Next]_vars

\* The schedule starts an export every day, and an export that runs goes on.
Fairness == \A w \in Worker : WF_vars(Start(w)) /\ WF_vars(Export(w))

FairSpec == Spec /\ Fairness

-----------------------------------------------------------------------------
(* Properties *)

TypeOK ==
    /\ table \in [Row -> Status]
    /\ {changes, faults} \subseteq Nat
    /\ openArns \subseteq Arn
    /\ deltaLog \in Seq(Delta) /\ Len(deltaLog) <= MaxLog
    /\ reported \in [new_open : SUBSET Arn, resolved : SUBSET Arn]
    /\ pc \in [Worker -> PC]
    /\ next \in [Worker -> Nat \ {0}]
    /\ items \in [Worker -> [Row -> Status]]
    /\ prev \in [Worker -> SUBSET Arn]
    /\ prevLog \in [Worker -> Seq(Delta)]

\* The table holds one row per event and organisation (the comment in
\* _process_event); rows of one event differ in their organisation.
OneRowEach == \A q, r \in Row : ArnOf[q] = ArnOf[r] /\ OrgOf[q] = OrgOf[r] => q = r

\* An export takes an event off the agenda of the next one, by remembering it as
\* open, only if a workbook has listed it as new: exports may overlap, fail
\* anywhere, and be retried, and no open event is passed over in silence.
OpenIsReported == openArns \subseteq reported.new_open

\* What the log said last about an event, "" if nothing.
Said(a) == {i \in DOMAIN deltaLog : ArnOf[deltaLog[i].row] = a}
LastSaid(a) ==
    IF Said(a) = {} THEN ""
    ELSE LET i == CHOOSE i \in Said(a) : \A j \in Said(a) : j <= i
         IN  deltaLog[i].type

\* Between undisturbed exports, and until the log reaches its cap, the delta log,
\* replayed, gives exactly the open events the last export remembered: the two S3
\* objects agree.
LogTellsOpen ==
    (faults = 0 /\ Len(deltaLog) < MaxLog /\ \A w \in Worker : pc[w] = "idle") =>
        \A a \in Arn : a \in openArns <=> LastSaid(a) = "new_open"

\* An event that stays open is listed as new by some workbook, however the exports
\* before it failed.
OpenGetsReported ==
    \A a \in Arn :
        (\E r \in Row : ArnOf[r] = a /\ table[r] = "open")
            ~> \/ a \in reported.new_open
               \/ ~\E r \in Row : ArnOf[r] = a /\ table[r] = "open"

\* resolved = set(prev_open_arns) - current_open (SPEC.md:639): an event that is no
\* longer remembered as open has been listed as resolved.
ResolvedIsReported ==
    [][openArns \ openArns' \subseteq reported.resolved]_vars

=============================================================================
