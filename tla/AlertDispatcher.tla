--------------------------- MODULE AlertDispatcher ---------------------------
(***************************************************************************)
(* alert_dispatcher.py: correlation of operational events into incidents   *)
(* and the digest messages sent about them.                                *)
(*                                                                         *)
(* Every Lambda invocation that runs dispatch() is a worker.  EventBridge  *)
(* starts one per period, Lambda retries failed ones, and an operator can  *)
(* start one by hand; nothing serialises them, so |Worker| > 1 models the  *)
(* overlap.  Each DynamoDB or SNS call is one step; the code between two   *)
(* calls touches only the invocation's own memory and belongs to the step  *)
(* of the call before or after it.                                         *)
(*                                                                         *)
(* The incident table is read with eventually consistent reads (get_item   *)
(* and scan without ConsistentRead), so a read may return the version of a *)
(* row before its last write as long as an invocation that could have      *)
(* written it still runs.                                                  *)
(***************************************************************************)
EXTENDS Naturals, Sequences, FiniteSets

CONSTANTS
    Worker,             \* invocations of the collector that may overlap
    Arn,                \* event ARNs of alertable (open, operational) events
    Service, Region,
    ServiceOf,          \* [Arn -> Service]
    RegionOf,           \* [Arn -> Region]
    StartsOf,           \* [Arn -> set of the start times that AWS Health may report of it, as
                        \* it revises them; NoTime is one that does not parse]
    HasCode,            \* the ARNs whose event_type_code is not empty
    Count,              \* values of an item's affected_account_count
    NoTime,             \* "attribute not set"
    DigestWindow,       \* DIGEST_WINDOW_MINUTES, in ticks
    CorrelationWindow,  \* CORRELATION_WINDOW_MINUTES, in ticks
    ScanRank,           \* [Key -> Nat]: the order in which a scan meets the rows
    ScanPage,           \* rows in one scan response (1 MB of items)
    Faults,             \* kinds of failures the environment may inject
    MaxFaults,          \* bound on injected failures
    MaxTime,            \* bound on the clock
    MaxBatch,           \* bound on items handed to one dispatch
    MaxMessages         \* no invocation starts once this many messages are out

Time   == 0..MaxTime
Bucket == 0..MaxTime
Key    == Service \X Bucket

FaultKind == {"load", "save", "scan", "publish", "publish_raises", "mark", "crash"}

ASSUME WindowAssumption == /\ DigestWindow \in Nat
                           /\ CorrelationWindow \in Nat \ {0}
ASSUME EventAssumption  == /\ Service # {}
                           /\ ServiceOf \in [Arn -> Service]
                           /\ RegionOf \in [Arn -> Region]
                           /\ StartsOf \in [Arn -> SUBSET (Time \cup {NoTime})]
                           /\ HasCode \subseteq Arn
                           /\ Count \subseteq Nat \ {0}
ASSUME NoTimeAssumption == NoTime \notin Nat
ASSUME BoundAssumption  == /\ {MaxTime, MaxFaults, MaxBatch, MaxMessages, ScanPage} \subseteq Nat
                           /\ Faults \subseteq FaultKind
                           /\ ScanRank \in [Key -> Nat]

\* One item written by the collector: the event, how many accounts it affects, and the
\* start_time that AWS Health gave in this collection.
Observation == {o \in [arn : Arn, count : Count, start : Time \cup {NoTime}] :
                   o.start \in StartsOf[o.arn]}

\* A row of collection_state with pk "incident#...".  `codes' tells whether the
\* event_type_codes attribute is missing, an empty list or a non-empty list;
\* org_ids and severities are never empty and no decision reads them.
Incident == [arns : SUBSET Arn, regions : SUBSET Region, count : Nat,
             codes : {"absent", "empty", "some"},
             firstSeen : Nat \cup {NoTime},
             alert : {"unsent", "sent"},
             lastCount : Nat, lastRegions : SUBSET Region]

Message == [key : Key, type : {"NEW INCIDENT", "UPDATE"},
            count : Nat, regions : SUBSET Region, at : Nat]

VARIABLES
    now,        \* the wall clock
    table,      \* collection_state, latest version of every incident row
    lagging,    \* the version an eventually consistent read may still return
    topic,      \* messages accepted by SNS
    faults,     \* failures injected so far
    pc,         \* where each invocation is
    batch,      \* items not yet correlated
    stamp,      \* now_iso of _correlate_events
    flushAt,    \* now of _flush_digests
    mem,        \* the incident being saved or marked, with its key
    snapshot,   \* scanned incidents not yet examined
    starts      \* history: when each event started, as told by the items handed over

vars == <<now, table, lagging, topic, faults, pc, batch, stamp, flushAt, mem, snapshot,
          starts>>

PC == {"idle", "correlate", "save", "flush", "mark"}

-----------------------------------------------------------------------------
(* Operators of the code *)

NewIncident(t) ==
    [arns |-> {}, regions |-> {}, count |-> 0, codes |-> "empty", firstSeen |-> t,
     alert |-> "unsent", lastCount |-> 0, lastRegions |-> {}]

\* The row of a key that was never written has no first_seen.
NoRow == NewIncident(NoTime)
Exists(row) == row.firstSeen # NoTime

\* A start_time that does not parse is replaced by the present moment.
Moment(start, t) == IF start = NoTime THEN t ELSE start

\* Mutant: the bucket is that of the moment the event is seen.
MutantStartBucket(start, t) == (t \div CorrelationWindow) * CorrelationWindow

StartBucket(start, t) == (Moment(start, t) \div CorrelationWindow) * CorrelationWindow

KeyOf(o, t) == <<ServiceOf[o.arn], StartBucket(o.start, t)>>

Group(w, k) == {o \in batch[w] : KeyOf(o, stamp[w]) = k}

\* c is the largest of the stored count and the group's counts.
IsLargestCount(c, row, group) ==
    LET counts == {row.count} \cup {o.count : o \in group}
    IN  c \in counts /\ \A d \in counts : d <= c

\* Mutant: the newest event's regions replace the ones known.
MutantMerge(row, group, c) ==
    LET arns == {o.arn : o \in group}
    IN  [row EXCEPT !.arns = @ \cup arns, !.regions = {RegionOf[a] : a \in arns},
                    !.count = c, !.codes = "some"]

Merge(row, group, c) ==
    LET arns == {o.arn : o \in group}
    IN  [row EXCEPT !.arns = @ \cup arns,
                    !.regions = @ \cup {RegionOf[a] : a \in arns},
                    !.count = c,
                    !.codes = IF arns \cap HasCode # {} THEN "some" ELSE @]

\* Mutant: the empty list is written as it is.
MutantToDynamo(row) == [row EXCEPT !.codes = IF @ = "empty" THEN "" ELSE @]

\* Empty lists are stripped from the item, so they are missing when it is read back.
ToDynamo(row) == [row EXCEPT !.codes = IF @ = "empty" THEN "absent" ELSE @]

\* Mutant: any count that has not shrunk is an update.
MutantNoDoubling(row) ==
    \/ row.lastCount > 0 /\ row.count >= row.lastCount
    \/ row.regions \ row.lastRegions # {}

HasSignificantUpdate(row) ==
    \/ row.lastCount > 0 /\ row.count >= row.lastCount * 2
    \/ row.regions \ row.lastRegions # {}

\* Mutant: the digest window is not added.
MutantIsMature(row, t) == row.firstSeen <= t

IsMature(row, t) == row.firstSeen + DigestWindow <= t

\* Mutant: an incident exactly one window old waits for another cycle.
MutantIsDue(row, t) ==
    /\ row.firstSeen + DigestWindow < t
    /\ row.alert = "unsent" \/ HasSignificantUpdate(row)

IsDue(row, t) ==
    /\ IsMature(row, t)
    /\ row.alert = "unsent" \/ HasSignificantUpdate(row)

Digest(i, t) ==
    [key |-> i.key, type |-> IF i.row.alert = "unsent" THEN "NEW INCIDENT" ELSE "UPDATE",
     count |-> i.row.count, regions |-> i.row.regions, at |-> t]

-----------------------------------------------------------------------------
(* The environment *)

\* A call fails in one of the ways the run admits.
Fails(kind) ==
    /\ kind \in Faults /\ faults < MaxFaults
    /\ faults' = faults + 1

\* What a read of row k may return.
Readable(k) == {table[k], lagging[k]}

Write(k, row) ==
    /\ table' = [table EXCEPT ![k] = row]
    /\ lagging' = [lagging EXCEPT ![k] = table[k]]

Goto(w, label) == pc' = [pc EXCEPT ![w] = label]

\* The first response of a scan: it holds the first ScanPage rows of the table.
FirstPage ==
    LET stored == {k \in Key : Exists(table[k])}
    IN  {k \in stored :
            Cardinality({j \in stored : ScanRank[j] < ScanRank[k]}) < ScanPage}

\* An alertable event has started.
Started(o) == o.start = NoTime \/ o.start <= now

Init ==
    /\ now = 0
    /\ table = [k \in Key |-> NoRow]
    /\ lagging = [k \in Key |-> NoRow]
    /\ topic = <<>>
    /\ faults = 0
    /\ pc = [w \in Worker |-> "idle"]
    /\ batch = [w \in Worker |-> {}]
    /\ stamp = [w \in Worker |-> 0]
    /\ flushAt = [w \in Worker |-> 0]
    /\ mem = [w \in Worker |-> [key |-> CHOOSE k \in Key : TRUE, row |-> NoRow]]
    /\ snapshot = [w \in Worker |-> {}]
    /\ starts = [a \in Arn |-> {}]

Tick ==
    /\ now < MaxTime
    /\ now' = now + 1
    /\ UNCHANGED <<table, lagging, topic, faults, pc, batch, stamp, flushAt, mem, snapshot,
                   starts>>

-----------------------------------------------------------------------------
(* dispatch() *)

\* The collector hands over the alertable items it wrote.  Items arrive only
\* while there is time left for their digest window to pass before MaxTime.
\* Replicas have converged when no other invocation runs.
Dispatch(w) ==
    /\ pc[w] = "idle"
    /\ Len(topic) < MaxMessages
    /\ \E b \in SUBSET {o \in Observation : Started(o)} :
          /\ Cardinality(b) <= MaxBatch
          /\ b # {} => now + DigestWindow <= MaxTime
          /\ batch' = [batch EXCEPT ![w] = b]
          /\ starts' = [a \in Arn |-> starts[a] \cup
                           {Moment(o.start, now) : o \in {p \in b : p.arn = a}}]
    /\ stamp' = [stamp EXCEPT ![w] = now]
    /\ lagging' = IF \A v \in Worker : pc[v] = "idle" THEN table ELSE lagging
    /\ Goto(w, "correlate")
    /\ UNCHANGED <<now, table, topic, faults, flushAt, mem, snapshot>>

\* The group's events are merged into `row', which is the one to be saved.
MergeInto(w, k, row) ==
    \E c \in {row.count} \cup Count :
       /\ IsLargestCount(c, row, Group(w, k))
       /\ mem' = [mem EXCEPT ![w] = [key |-> k, row |-> Merge(row, Group(w, k), c)]]
       /\ batch' = [batch EXCEPT ![w] = @ \ Group(w, k)]
       /\ Goto(w, "save")

LoadIncident(w, k) ==
    /\ pc[w] = "correlate" /\ Group(w, k) # {}
    /\ \E row \in Readable(k) :
          /\ row.codes # "absent"
          /\ MergeInto(w, k, IF Exists(row) THEN row ELSE NewIncident(stamp[w]))
    /\ UNCHANGED <<now, table, lagging, topic, faults, stamp, flushAt, snapshot, starts>>

\* A get_item that raises is treated as "no such incident".
LoadIncidentFails(w, k) ==
    /\ pc[w] = "correlate" /\ Group(w, k) # {}
    /\ Fails("load")
    /\ MergeInto(w, k, NewIncident(stamp[w]))
    /\ UNCHANGED <<now, table, lagging, topic, stamp, flushAt, snapshot, starts>>

\* The invocation is over: normally, or because something raised out of it.
Stop(w) ==
    /\ Goto(w, "idle")
    /\ batch' = [batch EXCEPT ![w] = {}]
    /\ snapshot' = [snapshot EXCEPT ![w] = {}]
    /\ UNCHANGED <<now, table, lagging, stamp, flushAt, mem, starts>>

\* incident["event_type_codes"] of a row saved without that attribute: KeyError,
\* outside the try blocks, so dispatch() and the handler end.
MergeRaises(w, k) ==
    /\ pc[w] = "correlate" /\ Group(w, k) # {}
    /\ \E row \in Readable(k) : row.codes = "absent"
    /\ Stop(w)
    /\ UNCHANGED <<topic, faults>>

SaveIncident(w) ==
    /\ pc[w] = "save"
    /\ Write(mem[w].key, ToDynamo(mem[w].row))
    /\ Goto(w, "correlate")
    /\ UNCHANGED <<now, topic, faults, batch, stamp, flushAt, mem, snapshot, starts>>

SaveIncidentFails(w) ==
    /\ pc[w] = "save"
    /\ Fails("save")
    /\ Goto(w, "correlate")
    /\ UNCHANGED <<now, table, lagging, topic, batch, stamp, flushAt, mem, snapshot, starts>>

-----------------------------------------------------------------------------
(* _flush_digests *)

\* One scan, whose response is the first page only; each row in it is current
\* or lags behind.
ScanIncidents(w) ==
    /\ pc[w] = "correlate" /\ batch[w] = {}
    /\ flushAt' = [flushAt EXCEPT ![w] = now]
    /\ \E stale \in SUBSET {k \in FirstPage : lagging[k] # table[k]} :
          LET Seen(k) == IF k \in stale THEN lagging[k] ELSE table[k]
          IN  snapshot' = [snapshot EXCEPT ![w] =
                  {[key |-> k, row |-> Seen(k)] : k \in {j \in FirstPage : Exists(Seen(j))}}]
    /\ Goto(w, "flush")
    /\ UNCHANGED <<now, table, lagging, topic, faults, batch, stamp, mem, starts>>

ScanFails(w) ==
    /\ pc[w] = "correlate" /\ batch[w] = {}
    /\ Fails("scan")
    /\ Stop(w)
    /\ UNCHANGED topic

Suppress(w) ==
    /\ pc[w] = "flush"
    /\ \E i \in snapshot[w] :
          /\ ~IsDue(i.row, flushAt[w])
          /\ snapshot' = [snapshot EXCEPT ![w] = @ \ {i}]
    /\ UNCHANGED <<now, table, lagging, topic, faults, pc, batch, stamp, flushAt, mem, starts>>

Publish(w) ==
    /\ pc[w] = "flush"
    /\ \E i \in snapshot[w] :
          /\ IsDue(i.row, flushAt[w])
          /\ topic' = Append(topic, Digest(i, flushAt[w]))
          /\ mem' = [mem EXCEPT ![w] = i]
          /\ snapshot' = [snapshot EXCEPT ![w] = @ \ {i}]
    /\ Goto(w, "mark")
    /\ UNCHANGED <<now, table, lagging, faults, batch, stamp, flushAt, starts>>

\* A ClientError: logged, the next incident is examined.
PublishRejected(w) ==
    /\ pc[w] = "flush"
    /\ Fails("publish")
    /\ \E i \in snapshot[w] :
          /\ IsDue(i.row, flushAt[w])
          /\ snapshot' = [snapshot EXCEPT ![w] = @ \ {i}]
    /\ UNCHANGED <<now, table, lagging, topic, pc, batch, stamp, flushAt, mem, starts>>

\* Any other exception (connection or read timeout) ends the invocation; SNS
\* may have accepted the message all the same.
PublishRaises(w) ==
    /\ pc[w] = "flush"
    /\ Fails("publish_raises")
    /\ \E i \in snapshot[w] :
          /\ IsDue(i.row, flushAt[w])
          /\ topic' \in {topic, Append(topic, Digest(i, flushAt[w]))}
    /\ Stop(w)

\* Mutant: the mark stores the row's present values instead of those sent.
MutantMarkAlerted(w) ==
    /\ pc[w] = "mark"
    /\ LET k == mem[w].key
       IN  Write(k, [table[k] EXCEPT !.alert = "sent",
                                     !.lastCount = table[k].count,
                                     !.lastRegions = table[k].regions])
    /\ Goto(w, "flush")
    /\ UNCHANGED <<now, topic, faults, batch, stamp, flushAt, mem, snapshot, starts>>

\* update_item on the current row, with the values of the scanned one.
MarkAlerted(w) ==
    /\ pc[w] = "mark"
    /\ LET k == mem[w].key
       IN  Write(k, [table[k] EXCEPT !.alert = "sent",
                                     !.lastCount = mem[w].row.count,
                                     !.lastRegions = mem[w].row.regions])
    /\ Goto(w, "flush")
    /\ UNCHANGED <<now, topic, faults, batch, stamp, flushAt, mem, snapshot, starts>>

MarkFails(w) ==
    /\ pc[w] = "mark"
    /\ Fails("mark")
    /\ Goto(w, "flush")
    /\ UNCHANGED <<now, table, lagging, topic, batch, stamp, flushAt, mem, snapshot, starts>>

Finish(w) ==
    /\ pc[w] = "flush" /\ snapshot[w] = {}
    /\ Stop(w)
    /\ UNCHANGED <<topic, faults>>

\* The 300 s timeout, or the sandbox is lost.
Crash(w) ==
    /\ pc[w] # "idle"
    /\ Fails("crash")
    /\ Stop(w)
    /\ UNCHANGED topic

-----------------------------------------------------------------------------
Correlate(w) ==
    \/ \E k \in Key : LoadIncident(w, k) \/ LoadIncidentFails(w, k) \/ MergeRaises(w, k)
    \/ SaveIncident(w)
    \/ SaveIncidentFails(w)

Flush(w) ==
    \/ ScanIncidents(w)
    \/ ScanFails(w)
    \/ Suppress(w)
    \/ Publish(w)
    \/ PublishRejected(w)
    \/ PublishRaises(w)
    \/ MarkAlerted(w)
    \/ MarkFails(w)
    \/ Finish(w)

\* The bound on messages is reached and every invocation is over.
Exhausted ==
    /\ Len(topic) >= MaxMessages
    /\ \A w \in Worker : pc[w] = "idle"
    /\ UNCHANGED vars

Next ==
    \/ Tick
    \/ Exhausted
    \/ \E w \in Worker : Dispatch(w) \/ Correlate(w) \/ Flush(w) \/ Crash(w)

Spec == Init /\ [][Next]_vars

\* EventBridge keeps invoking the collector, a running invocation takes its next
\* step, and the clock advances.  Nothing is assumed of the failures.
Fairness ==
    /\ WF_vars(Tick)
    /\ \A w \in Worker : /\ WF_vars(Dispatch(w))
                         /\ WF_vars(Correlate(w) \/ Flush(w))

FairSpec == Spec /\ Fairness

-----------------------------------------------------------------------------
(* Properties *)

TypeOK ==
    /\ now \in Time
    /\ table \in [Key -> Incident]
    /\ lagging \in [Key -> Incident]
    /\ topic \in Seq(Message)
    /\ faults \in Nat
    /\ pc \in [Worker -> PC]
    /\ batch \in [Worker -> SUBSET Observation]
    /\ stamp \in [Worker -> Time]
    /\ flushAt \in [Worker -> Time]
    /\ mem \in [Worker -> [key : Key, row : Incident]]
    /\ snapshot \in [Worker -> SUBSET [key : Key, row : Incident]]
    /\ starts \in [Arn -> SUBSET Time]

\* A message about k with this count and these regions reached SNS.
Announced(k, count, regions) ==
    \E n \in 1..Len(topic) :
       topic[n].key = k /\ topic[n].count = count /\ topic[n].regions = regions

\* An incident is recorded as alerted, with a count and regions, only if a
\* message with that count and those regions reached SNS: whatever fails,
\* crashes or overlaps, an alert can be repeated but is never silently skipped
\* (_mark_alerted stores the values of the incident _send_digest was given).
NoSilentAlert ==
    \A k \in Key : table[k].alert = "sent" =>
        Announced(k, table[k].lastCount, table[k].lastRegions)

\* No message about an incident goes out sooner than the digest window after
\* the correlation bucket of its events began, although first_seen is rewritten
\* by failed loads and overlapping invocations.
NoAlertBeforeWindow ==
    \A n \in 1..Len(topic) : topic[n].at >= topic[n].key[2] + DigestWindow

\* k is the incident of the correlation window in which s lies.
IsIncidentOf(k, a, s) ==
    /\ k[1] = ServiceOf[a]
    /\ k[2] % CorrelationWindow = 0 /\ k[2] <= s /\ s < k[2] + CorrelationWindow

\* An event is part of the incidents of the windows in which it started, as AWS Health
\* told when it was collected, and of no other: one incident as long as its start is not
\* revised into another window and parses, however the invocations overlap and fail; and
\* with one invocation at a time and no failed call it is lost from none of them, though
\* the reads lag and a revised start has moved it on (_start_bucket, _merge_event).
IncidentsHoldTheirEvents ==
    /\ \A k \in Key : \A a \in table[k].arns : \E s \in starts[a] : IsIncidentOf(k, a, s)
    /\ (/\ \E w \in Worker : Worker = {w} /\ pc[w] = "idle"
        /\ HasCode = Arn /\ faults = 0) =>
           \A a \in Arn : \A s \in starts[a] :
              \A k \in Key : IsIncidentOf(k, a, s) => a \in table[k].arns

\* The last message about k before the n-th of the topic.
Previous(n) ==
    LET earlier == {m \in 1..(n - 1) : topic[m].key = topic[n].key}
    IN  {m \in earlier : \A l \in earlier : l <= m}

\* After the first message about an incident, others are suppressed unless the
\* account count doubled or a region is new since the message before, and only
\* the first is labelled NEW INCIDENT (README.md:303, SPEC.md:391-394).
RepeatsAreSignificant ==
    \A n \in 1..Len(topic) :
        IF Previous(n) = {}
        THEN topic[n].type = "NEW INCIDENT"
        ELSE /\ topic[n].type = "UPDATE"
             /\ \A m \in Previous(n) :
                   \/ topic[n].count >= 2 * topic[m].count
                   \/ topic[n].regions \ topic[m].regions # {}

\* When an invocation is over, every incident that was mature when it began has
\* been alerted, as long as no call has failed (_flush_digests examines every
\* incident after every correlation).
CycleLeavesNothingOverdue ==
    [][\A w \in Worker : (pc[w] # "idle" /\ pc'[w] = "idle" /\ faults' = 0) =>
          \A k \in Key : (Exists(table[k]) /\ IsMature(table[k], stamp[w])) =>
              table[k].alert = "sent"]_vars

\* What subscribers are promised: the evidence is the stored row, and what is
\* announced is what the last message said.
Said(k) == {n \in 1..Len(topic) : topic[n].key = k}
LastSaid(k) ==
    IF Said(k) = {} THEN [count |-> 0, regions |-> {}]
    ELSE LET n == CHOOSE n \in Said(k) : \A m \in Said(k) : m <= n
         IN  [count |-> topic[n].count, regions |-> topic[n].regions]

Promise == INSTANCE IncidentAlerts
    WITH Incidents <- Key,
         evidence  <- [k \in Key |-> [count |-> table[k].count, regions |-> table[k].regions]],
         announced <- [k \in Key |-> LastSaid(k)]

\* One invocation at a time implements the promise when no call fails in a way that
\* loses the record of what was sent or known: evidence only accumulates and every
\* message after the first is significant; and under the fairness of the schedule
\* every incident, region and doubling that stays significant is announced.
KeepsPromise == Promise!FairSpec

=============================================================================
