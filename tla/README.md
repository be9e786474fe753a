# TLA+ models of the AWS Health multi-org aggregator

Modules, model-checking configurations and machine-checked proofs about the Lambdas of this
repository. Paths are relative to the repository; `PROJECT.json` maps every definition to the lines
it models.

## 1. The system

A *collector* Lambda runs every five minutes. For each AWS organisation of a registry it fetches the
AWS Health events of the last week through a proxy API, keeps the affected accounts it knows, and
writes one row per event and organisation to the DynamoDB *events* table. What it wrote goes to the
*alert dispatcher*, in the same process, which groups open operational events into incidents (rows of
the *collection-state* table) and publishes digests to SNS. An *exporter* Lambda compares the open
events with those of the previous export and uploads a workbook to S3. An *API* Lambda serves the
events table to a dashboard.

| Component | State it keeps | Operations | What makes it hard | What makes it correct |
|---|---|---|---|---|
| alert dispatcher (`collector/alert_dispatcher.py`) | incident rows: events, regions, largest account count, first_seen, what the last alert said | correlate, save, scan, publish, mark | overlapping invocations read-modify-write whole rows; every call can fail and most failures are swallowed; stale reads | no incident is recorded as alerted without a message; none is alerted early; repeats are significant; significant news is announced |
| collector (`collector/handler.py`) | events rows with a ttl, one state row per organisation | collect an organisation (five calls), take its result, dispatch | a thread per organisation, failures at three levels (event, organisation, invocation), TTL | what is dispatched is real and complete; a failed organisation hurts no other; the table converges |
| exporter (`exporter/handler.py`, `excel_writer.py`) | `open_arns.json`, `delta_log.json` | scan, load, compare, upload, save, save | three S3 objects written one after the other, swallowed failures, overlap of scheduled and on-demand exports, paged scan | no open event is passed over; log and state agree |
| account cache (`collector/account_cache.py`) | account rows with a ttl | load the map, refresh what is missing | staleness, failed tag lookups, overlapping refreshes | every active account is in the map, with its tags |
| organisation registry (`collector/org_registry.py`, `scripts/register_org.sh`, `ssm/`) | an SSM parameter, a cache per container | load, register | warm caches never refreshed, unlocked read-modify-write | a registration is neither lost nor ignored |
| health proxy client (`shared/health_proxy_client.py`) | none | paged calls with retries | throttling, page tokens | complete result or exception |
| event classifier (`collector/event_classifier.py`) | none | classify | rules that overlap | the documented table of rules |
| events and summary API (`api/routes/events.py`, `summary.py`) | none; the client keeps `next_token` | list, details, summary | paging over a table that changes, merging by ARN per page, filters after `Limit`, a scan of one response | a client that follows the pages sees every row once; counts add up |
| export route (`api/routes/export.py`) | none | start the exporter | exports overlap | see exporter |
| dashboard, Terraform, workbook layout | none that the others depend on | | | |

Interaction: the collector calls the dispatcher with a list of items; everything else goes through
DynamoDB, S3 and SSM. Nothing serialises invocations: there is no reserved concurrency, the schedule
and the timeout of the collector are both five minutes, Lambda retries failed asynchronous
invocations, and both `POST /v1/export` and an operator can start an export at any time.

## 2. Modules

| Module | What it is |
|---|---|
| `IncidentAlerts` | abstract: what subscribers are promised about incidents |
| `AlertDispatcher` | `dispatch()`, implements `IncidentAlerts` |
| `Collector` | the collector's `handler()` and its organisation threads |
| `Paging` | what one response of a paged read may hold, for AWS Health and DynamoDB |
| `PagedRead` | abstract: what a call of the proxy client promises |
| `HealthProxyClient` | one paged call with its retries, implements `PagedRead` |
| `EventClassifier` | the rules of severity and the lists of operational services and keywords |
| `EventFeed` | steps 3 and 4 of `_collect_org`: composes `HealthProxyClient` and `EventClassifier` |
| `AccountCache` | `load_account_map` |
| `OrgRegistry` | `register_org.sh`, `load_orgs`, and the registry in `GET /v1/orgs` |
| `EventsApi` | a client of `GET /v1/events`, `/v1/events/{arn}/details` and `/v1/summary` |
| `Exporter` | the exporter's `handler()` and the delta of `excel_writer.py` |
| `...Proofs` | the theorems about the module of that name (section 4) |
| `MC...` | constants of the runs |

How they compose. `EventFeed` extends the client and the classifier: its steps call, wait for and take
the client's paged calls, and what it writes carries the classifier's answer. It is the detail behind
three single steps of `Collector` (`DescribeEvents`, `ProcessEvent`, `SkipEvent`), which take from it
that an organisation gets a complete window or fails and that only an exception leaves an event out.
`AccountCache` is the detail behind `LoadAccountMap` and gives `Collector` its `Affects`, `OrgRegistry`
the one behind `load_orgs`. They are checked apart, as their product has too many states for TLC.

Conventions. A *worker* is a Lambda invocation; it is idle between two of them and its memory is
empty then. A call to a service is one action, and the code between two calls, which only touches the
invocation's memory, belongs to the action of a call next to it. A call that fails is an action of its
own, guarded by `Fails(kind)`: a run names in `Faults` the kinds it admits and in `MaxFaults` how
often. The models abstract names, wording and timestamps; what they keep is every branch, every early
return, every swallowed exception and the order of the writes.

### AlertDispatcher

`table` holds the incident rows by `<<service, bucket>>` (`_incident_pk`), `topic` the messages SNS
accepted. `Dispatch` starts an invocation with the alertable items, at most `MaxBatch`. `LoadIncident`
is `get_item`, `_merge_event` and everything up to the `put_item`, which is `SaveIncident`;
`LoadIncidentFails` continues with a fresh incident as the code does, and `MergeRaises` is the
`KeyError` of a row whose empty `event_type_codes` was stripped by `_to_dynamo`. `ScanIncidents` is the
scan of `_flush_digests` (one response: `FirstPage`), then incidents are examined in any order:
`Suppress`, `Publish` with `MarkAlerted` or `MarkFails` after it, `PublishRejected` (a `ClientError`)
and `PublishRaises` (anything else, which ends the invocation, with or without the message sent).
`lagging` is what an eventually consistent read may still return: the row before its last write, as
long as invocations overlap. Time is counted in ticks; `DigestWindow` and `CorrelationWindow` are the
two environment variables. An item carries the start time that AWS Health gave in that collection, one
of `StartsOf`, which it may revise from one collection to the next, or one that does not parse
(`NoTime`), for which `_start_bucket` takes the present moment. `starts` is history: when each event
was said to start by the items handed over.

Not in the model: messages' text, `HIGH`/`STANDARD` priority, `org_ids` and `severities` (nothing
decides on them), and the switch that turns alerting off. As `terraform/lambda.tf` stands, the
collector is deployed without `HEALTH_ALERT_SNS_TOPIC_ARN`, so `dispatch` returns at once; the model
describes the enabled dispatcher.

`IncidentAlerts` has two variables per incident: the evidence and what the last message said. Evidence
grows; the first announcement is free and a later one needs a doubled count or a new region. The
refinement (`Promise`) reads the evidence from the stored row and the announcement from the topic.

### Collector

`upstream` is AWS Health, `table` the events rows by `<<arn, org, start>>`, `state` the
collection-state rows. Each organisation's thread goes through `Begin`, `AssumeOrgRole`,
`LoadAccountMap`, `DescribeEvents`, then `ProcessEvent` or `SkipEvent` per event and `RecordSuccess`;
at most `MaxConcurrentOrgs` are active. `since` is the day on which the handler began, which fixes the
window of all its calls. The main thread takes finished futures in any order:
`TakeResult`, `TakeError`, or `TakeErrorRaises` when the `except` block itself fails. `Dispatch` hands
over the items. `Expire` is DynamoDB's TTL, `NextDay` the clock. A registry entry without `org_name`
or `assume_role_arn` (which is what `register_org.sh` writes) is an organisation outside `Named` or
`WithRole`. The proxy client and the account cache are single steps that return or raise; the modules
below open them up.

### HealthProxyClient, EventFeed and EventClassifier

An entry (an event or an account) is a number, its place in AWS Health's order; a page ends wherever
AWS Health pleases, may be short or empty, and `token` is where the last one ended. `ReceivePage` and
`ReceiveLastPage` are the two ways round the loop of `describe_*`, `Throttled` the `continue` of
`_call` after its sleep, `GiveUp` and `Refused` its exceptions. `Change` lets AWS Health change its
list under the call. `steady` and `ever` record what was listed throughout and at some time: they are
what `PagedRead` promises about, and the code does not read them. `describe_event_details` and
`describe_affected_entities` add no state and have no caller in the collector.

`EventFeed` keeps where `_collect_org` is (`stage`), what it has yet to process and what it wrote. An
event whose accounts call or `put_item` raises is skipped, an event without accounts of the
organisation has no item. `Classified` calls the classifier with an empty description, as
`_process_event` does.

In `EventClassifier` the regular expressions are sets of the service names and code words they match.
`SpecTable`, on which `CriticalBySpec` rests, is the table of SPEC.md section 7, written out on its own:
it shares no set with the rules.

### AccountCache

One organisation: rows of two organisations have different keys. An account's name, tags, business
unit and environment are one value, `Unknown` the defaults after a failed tag lookup, which are cached
like an answer. A load goes through `ScanOrgCache` (with the check of the ttl in the code, as DynamoDB
deletes late: `Expire`), `ListAccounts`, `Enrich` (which fixes the ttl before the lookups), one
`FetchAccountTags` or `FetchFails` per miss, and between the lookups, whenever `BatchSize` rows are in
the buffer of `batch_writer` (25 in boto3), and at the end, `Flush` or `WriteFails`; a batch may be
written in part, and what DynamoDB leaves stays in the buffer.
The organisation opens, closes and retags accounts at any time. `closedAt`, `replacedAt`, `failedAt`
and `lookedUpAt` are history for the properties. Time passes only while no invocation is at its
timeout.

### OrgRegistry

An entry of the list is absent, `bare` (what the script writes, without `enabled`), enabled or
disabled. A run of the script reads the whole list and writes it back; a read that fails gives the
empty list, as in `register_org.sh:119`. An edit that starts while another run has read and not
written is counted as a fault (`overlap`), as the script cannot notice it. The Systems Manager document
in `ssm/` raises when its read fails, so only the shell script has `GetFails`. Containers read the
parameter when cold; `Retire` is Lambda ending one. That an entry with `"enabled": false` is left out
is the code's rule (`org_registry.py:34`), its tests' and reference.md:487's; SPEC.md:165 says the
opposite (section 5).

### EventsApi

A row is a number, its place in `category-starttime-index`, which is the order of start times. One
client asks one request after another and follows `next_token`; `ListEvents` and `ListLastEvents` are
one request with and without a token in its answer, `ListFails` a 500 after which it asks again, any
number of times, and `Leave` gives a walk up. `edge` is the last row that started before the time
window; `WindowMoves` makes one more row leave it, at any time. Every request of a walk takes the
window of its own moment, as `list_events` calls `_window_bounds` each time, while `get_summary`
computes it once for all its queries; `since` is the one of the last request. A token whose row has
left the window is refused by DynamoDB (`TokenInWindow`), as the starting key must satisfy the key
condition. Of the filters, `org_id` and `status`
stand for `service`, `region` and `environment`, which are applied the same way. `Merged` is
`_merge_by_arn` on one page. `GetEventDetails` reads one scan response. `SummaryPage`,
`SummaryNextCategory` and `GetSummary` are the loops of `get_summary`.

### Exporter

`table` is the events table as the scan's filter sees it; the collector changes it between any two
pages (`ScanPage`, one row per page, which covers larger pages). `openArns` and `deltaLog` are the two
S3 objects, `reported` what uploaded workbooks listed. The workbook's key is that of the day
(`exporter/handler.py:69`), so a later export of the day replaces the workbook; the bucket keeps
versions (SPEC.md:730), and `reported` stands for all of them. `NewRows` and `ResolvedRows` are
`_compute_delta` on the data frame `EventRows` (first row per event and organisation);
`CurrentOpenArns` is `current_open_arns`, which looks at all rows. A second export that starts while
one runs, and a row that leaves the scan, are counted with the faults, so that `faults = 0` means an
undisturbed history.

## 3. Runs

All checked with TLC. "pass" runs finish with no error; the others show a disagreement between the
code and its documentation, with the shortest trace TLC finds.

| Run | Bounds | Shows |
|---|---|---|
| `AlertsSequential` | 1 invocation at a time, 2 events of one service in 2 regions, one of them with its start revised into the next correlation window, counts 1-2, digest window 1, correlation window 2, 3 ticks, batches of 2, one failed save, scan or publish | `IncidentsHoldTheirEvents`, `RepeatsAreSignificant`, `CycleLeavesNothingOverdue`, `KeepsPromise` (refinement of `IncidentAlerts` with its liveness) |
| `AlertsOverlap` | 2 overlapping invocations, 1 event, every kind of failure, one of them | `TypeOK`, `NoSilentAlert`, `NoAlertBeforeWindow` |
| `CollectorCycle` | 1 invocation, 2 organisations on a pool of 1, 2 events with 2 updates, one failure | `HandedIsReal`, `CollectedIsSplit`, `StateRowsTellTheRun`, `OpenEventsAreHanded` |
| `CollectorOverlap` | 2 overlapping invocations, 1 organisation, 1 event with 2 updates and 2 start times, 2 ticks of the length of a window, two failed puts, failed state rows or crashes | `TypeOK`, `TableConverges` |
| `ExporterRuns` | 2 exports, 2 events, 3 rows, 3 changes of the table, a log of 4 rows, one overlap, failure, crash or expiry | `TypeOK`, `OpenIsReported`, `LogTellsOpen`, `OpenGetsReported` |
| `EventFeed` | 3 entries, pages of 2, 3 attempts, 3 faults, 1 change, 2 of the 3 known as accounts | `TypeOK`, `SleepIsBounded`, `CriticalIsAlertable`, `CompleteOrRaises` (refinement of `PagedRead`), `CallsEnd`, `ItemsTellTheAnswer`, `PipelineEnds` |
| `AccountCache` | 2 loaders, 2 accounts, 2 values, rows of 2 ticks, a timeout of 1, batches of 1, 6 ticks, one change, one failure, crash or overlap | `TypeOK`, `MapIsRecent`, `MapIsComplete`, `LookupsAreSpaced` |
| `OrgRegistry` | 2 organisations, 2 operators, 2 containers, 2 edits, one failure or overlap | `TypeOK`, `RegistryTakesEffect`, `EditsKeepOthers` |
| `EventsApi` | 4 rows of 2 ARNs and 2 organisations, pages of 2, scan responses of 3, 3 requests, one change, a window that moves past 2 rows, any number of failures | `TypeOK`, `WalkShowsEachRowOnce`, `EntriesAddUp`, `SummaryCountsEachRowOnce`, `ListedEventsAreFound`, `RequestsEnd` |
| `AlertsLoadFailure` (violation) | 1 invocation, one failed `get_item` | the incident is forgotten and announced again |
| `CollectorBadEntry` (violation) | one organisation without `org_name`, no failure | no organisation's events ever reach the dispatcher (SPEC.md:315) |
| `ExporterVanished` (violation) | one row leaves the scan | an event is dropped without being listed as resolved (SPEC.md:639) |

Why the bounds are enough. The hazards need two invocations, two versions of a row, and one failure
between two writes; each is present in the run that is about it. Two correlation windows and two
regions tell incidents and region news apart, counts 1 and 2 tell doubling from growth, and three ticks
let an incident mature and grow afterwards and an event move on to the next window. The clock of `CollectorOverlap` ticks once a window (`WindowDays` 0), so
that on the second tick the rows of the first expire and its events are no longer asked for, except by
an invocation that began before; the one-thread pool of `CollectorCycle` makes an organisation wait. In `ExporterRuns` the log
reaches its cap. `MaxMessages` stops new invocations, never running ones. In `EventFeed` three faults
exhaust the attempts of one request or hit two, and three entries need two pages at least. The clock of
`AccountCache` outlives two generations of rows, and batches of one row put a write between any two
lookups, which is where larger batches write too. In `EventsApi` the rows of one ARN straddle two pages
and two of them are of one organisation, the window reaches the rows of the first page and the token
after it, and the scan of the details may or may not fit in its response.

Conditions in the properties. `RepeatsAreSignificant`, `CycleLeavesNothingOverdue` and `KeepsPromise`
are checked for invocations that do not overlap and failures that do not lose the record of what was
sent: with overlap (section 5) or a failed load (`AlertsLoadFailure`), mark or publish whose answer is
lost they are false. `CycleLeavesNothingOverdue` and `LogTellsOpen` speak of histories without
failures. `IncidentsHoldTheirEvents` does not say that an event has one incident, as it need not: a
revised start moves it to a second one, and a start that does not parse opens one in every window
(section 5). It says that it is in no incident but those of its starts, under any overlap and failure,
and in all of those when invocations do not overlap, no call failed and events have type codes.
`LookupsAreSpaced` and `EditsKeepOthers`
are for histories without the failures that break them: overlapping loads look accounts up twice, and
an overlapping edit or a failed read of the registry loses entries. `EntriesAddUp` is for a walk under
which no row changes, joins or leaves the window, `ListedEventsAreFound` for a table that does not
change and fits in a scan response. `RequestsEnd` excepts the walk whose token the window has overtaken,
which the code refuses for ever.

Fairness. EventBridge keeps starting invocations (`WF` of `Dispatch`, `Submit`, `Start`), Lambda runs
what it started (`WF` of an invocation's next step; a crash is a separate, bounded action), and in
`AlertDispatcher` the clock advances. Nothing is assumed of failures, of AWS Health, or of DynamoDB's
TTL, beyond the bound on how often the former happen. AWS Health answers every request (`WF` of
`Answer`): `http.send` has no timeout (`health_proxy_client.py:94`), so without an answer a call, and
with it the invocation, hangs until Lambda ends it. The thread of `EventFeed` runs (`WF` of
`Pipeline`), Lambda keeps no container of the collector for ever and invokes those it keeps, and the
dashboard is looked at (`OrgRegistry`), and the client of `EventsApi` follows its tokens and asks again
after errors, which may be any number but not for ever, unless the token is refused (`WF` of `Read`,
which is disabled then).

## 4. Proofs

Checked by TLAPS for all values of the constants: any number of invocations, events, services,
organisations and failures of every kind.

* `AlertDispatcherProofs!TypeCorrect`: `TypeOK` is inductive.
* `AlertDispatcherProofs!NeverSilent` (`NoSilentAlert`). Not inductive by itself: a row is also held in
  the memory of invocations, in their snapshots and in the lagging replica, and any of these can be
  written back. `HonestInv` says of every such copy that if it is marked as alerted, the message it
  records was sent; between publish and mark, that the message about to be recorded was sent.
* `AlertDispatcherProofs!NeverEarly` (`NoAlertBeforeWindow`). `WindowInv` says of every copy of a row
  that its first_seen is not before the bucket of its key, which rests on events having started when
  they are collected and on the rounding of `StartBucket`.
* `AlertDispatcherProofs!EventsInTheirIncidents` (`IncidentsHoldTheirEvents`), for any start times,
  revised and unparsable ones included. `OwnInv` says of every copy of a row, the ones in memory and in
  the replica included, that it holds only events that were once said to start in its window. `HeldInv`
  is about one invocation at a time without failures: a start that was told is in the row of its window,
  or in the incident about to be saved there, or still in the batch, and the replica differs from the
  row only where no read will come before the next write.
* `AlertDispatcherProofs!RepeatsSignificant` (`RepeatsAreSignificant`), for one invocation at a time and
  any number of failed saves, scans and publishes (`Sole`). `SoleInv` relates the copies of a row: the
  table's, the replica's, the one to be saved, the one of the snapshot and the one to be marked. It says
  of each what its alert attributes tell of the last message about its key (`SaysLast`), and that it
  knows no more than a later copy (`Known`), so that a message sent from an old copy is significant too.
* `AlertDispatcherProofs!OneAtATimeKeepsPromise`, under the same hypothesis: `Spec => Promise!Spec`, the
  step simulation of `IncidentAlerts`. Initial states correspond; a save gathers evidence or changes
  nothing the promise speaks of, a publish is `Promise!Announce`, for which `SoleInv` supplies that the
  message differs significantly from the last; every other step stutters.
* `AlertDispatcherProofs!CyclesLeaveNothingOverdue` (`CycleLeavesNothingOverdue`), for one invocation at
  a time, a type code in every event, finitely many services and a scan response that holds the table
  (`Roomy`). `CycleInv` says, while nothing failed, that an incident that was mature when the invocation
  began is sent, about to be marked, or still in the snapshot. The hypotheses about data are needed:
  section 5 has what happens without a type code and beyond one response.
* `CollectorProofs!TypeCorrect`, and `OnlyRealItems` (`HandedIsReal`) from `RealInv`, which follows an
  item from `todo` through `items` and `written` to `handed`, with the organisation's entry complete
  since its thread passed `Begin` and `AssumeOrgRole`.
* `CollectorProofs!CollectedSplit` (`CollectedIsSplit`) from `SplitInv`: an organisation contributes to
  `written` only when its future has been taken as a success, which excludes that it is recorded as
  failed, and from then on its items do not change.
* `CollectorProofs!RowsTellTheRun` (`StateRowsTellTheRun`), for an invocation that no other overlaps:
  `RowTellsStep` says, while futures are collected, that a finished organisation has the row its thread
  wrote, and a taken one the row of the outcome that was taken; `SplitInv` adds that a success is not
  also recorded as failed. With a second invocation it does not hold: that one may write the row again.
* `ExporterProofs!OpenReported` (`OpenIsReported`), assuming one row per event and organisation.
  `ReportInv` adds that what an invocation loaded had been reported, and that between upload and save
  the open events of its scan have. The assumption is needed: `drop_duplicates` keeps one row of an
  event while `current_open_arns` looks at all (lemma `FrameIsScan`).
* `ExporterProofs!ExportTypeCorrect` (`TypeOK`, the cap of the log included) and `LogMatchesState`
  (`LogTellsOpen`), again with one row per event and organisation. `LogInv` is about histories in which
  nothing went wrong: an event remembered as open has a row in the table that every export has seen or
  will see (`Shown`), an export holds the state and the log as they are stored, and between the two
  saves the log agrees with the state from before (`Agrees`). Lemma `DeltaLeads` is the step: the known
  events and the new ones, without those listed as resolved, are the open ones. `NewOpens` and
  `ResolvedCloses` say what appending rows does to a replay, and `InOrderLists` that the rows of the
  data frame, in the order of the scan, are listed once each.
* `HealthProxyClientProofs!ClientIsComplete` (`CompleteOrRaises`): the client implements the safety part
  of `PagedRead`, for every list and paging. `CallInv` says of a call under way that up to its token
  every steady entry is in the result once, and nothing from behind it (`ReadUpTo`); `StepRefines` maps
  each step to a step of `PagedRead` or a stutter.
* `HealthProxyClientProofs!ClientTypeCorrect` (`ClientTypeOK`) and `ClientSleepsBounded`
  (`SleepIsBounded`) from `SleepInv`: in attempt n of a request the call has slept at most a full round
  for every page before and `2^n - 1` delays for this one. The provers know powers only as the sizes of
  power sets, on which lemma `PowerDoubles` rests.
* `EventFeedProofs!SeverityIsBySpec` and `CriticalIsOperational`: for every service, code and
  status the first matching rule is the one of the documented table, and critical events are
  operational by their service alone.
* `EventFeedProofs!FeedIsComplete`, `FeedItemsTellTheAnswer` and `FeedCriticalIsAlertable`: the pipeline's
  steps are steps of the client (`FeedIsClient`), so the client's theorem carries over; `FeedInv` adds
  that an event still to be processed has no item and was not skipped, and that an item carries the
  classifier's answer, to which the classifier's theorems apply. That the loop has a current event
  rests on the well-foundedness of the natural numbers (lemma `CurrentInTodo`). `FeedTypeCorrect`
  (`TypeOK`) and `FeedSleepsBounded` (`SleepIsBounded`) carry over in the same way.
* `AccountCacheProofs!CacheTypeCorrect` (`TypeOK`), `CacheMapIsComplete` (`MapIsComplete`) from
  `CompleteInv`: from the listing on, a steady account is in the map or still to be looked up; and
  `CacheMapIsRecent` (`MapIsRecent`) from `RowsRecent` and `LoadRecent`: a row was true a life (ttl and
  timeout) before its ttl, what a load looked up was true since the load began, what it found cached a
  life earlier. `FactsKeep` is the reason: a change ends a fact now, never in the past.
* `AccountCacheProofs!CacheLookupsAreSpaced` (`LookupsAreSpaced`) from `SpaceInv`: while nothing failed,
  every lookup is a row's life (less an invocation) ago, or has left a row that lives that long, or the
  one load that runs will write that row; and what a load takes for a miss was looked up long ago,
  since the time a load compares with is at most an invocation old.
* `OrgRegistryProofs!RegistryTypeCorrect` (`TypeOK`) and `EditsKeepAllOthers` (`EditsKeepOthers`) from
  `EditInv`: before the first failure one operator at most is at work, and what its script has read is
  the parameter it will replace.
* `EventsApiProofs!WalkIsExact` (`WalkShowsEachRowOnce`) from `WalkInv`: up to the token every steady row
  has been shown, nothing from behind it has, and the entries shown are disjoint. A row that has left
  the window is no longer steady, and the window only shrinks (`WindowShrinks`), so a page shows nothing
  that the walk's first window had not.
* `EventsApiProofs!ApiTypeCorrect` (`TypeOK`); `SummariesCountOnce` (`SummaryCountsEachRowOnce`) from
  `SummaryInv`: every steady row behind the query's position is gathered, and what is gathered once
  matched; `EntriesOfAnArnAddUp` (`EntriesAddUp`) from `QuietInv`: the counts of the entries of an ARN
  add up to the accounts of its rows shown so far, as a new entry has only new rows; and
  `ListedAreFound` (`ListedEventsAreFound`). Sums are counts of pairs of a row and one of its accounts
  (`AccountsOf`, `Total`), which the theorems about finite sets can add up.

The assumptions on constants are the named `ASSUME`s of the modules: the configuration maps are
functions on their sets, `CorrelationWindow` is positive, the entries and rows are positive numbers,
a row lives or an invocation lasts for some time, the filter value `All` is no category, and bounds are
natural numbers.

Hypotheses of single theorems (`Sole`, `Roomy`, `OneRowEach`) restrict the constants to
the cases in which the property holds at all (section 3, "Conditions", and section 5), and leave the
numbers of events, services, rows and failures open. The constants of the run that checks the property
satisfy them.

Model-checked only: liveness, which is beyond the proof system (`OpenEventsAreHanded`, `TableConverges`,
`OpenGetsReported`, `CallsEnd`, `PipelineEnds`, `RegistryTakesEffect`, `RequestsEnd`, and the fairness
part of `KeepsPromise`; its safety part is `OneAtATimeKeepsPromise`). Every safety invariant and every
action property that a passing run checks is a theorem.

## 5. Known disagreements that no run shows

* One failed collection removes `last_successful_at` from the state row (`handler.py:274`).
* A revised start time leaves a second row for the same event (`handler.py:196`); the comment at
  `handler.py:155` promises one item per event and organisation. When the start moves to another
  correlation window, the event also joins a second incident (`alert_dispatcher.py:94`), which is
  announced as new; a start that does not parse does so in every window (`alert_dispatcher.py:79`).
* SPEC.md:165 says "No `enabled` flag filtering — remove disabled orgs from SSM instead" and its format
  (SPEC.md:148-158) has no such field; `org_registry.py:34` leaves out entries with `"enabled": false`,
  as `tests/unit/collector/test_org_registry.py:22` and reference.md:487 expect. SPEC.md:557 shows the
  field in an answer of the API. `EditByHand` and `RegistryTakesEffect` follow the code.
* `list_events` applies the time window of the moment to a `next_token` of an earlier one
  (`events.py:51`, `63`): when the token's row has left the window, DynamoDB refuses the key and the
  route answers 500 on every retry, so the client must begin again.
* The workbook of a day is replaced by the next export of that day (`exporter/handler.py:69`), whose
  deltas are against the export before: the current version of a workbook need not list what was new on
  its day.
* An incident saved without `event_type_codes` cannot be merged into again (`alert_dispatcher.py:161`,
  `150`). The model has it (`MergeRaises`); it takes an event without an `eventTypeCode`.
* `DIGEST_WINDOW_MINUTES` defaults to 30 in the code and to 15 in the documentation.
* Deltas are lost when the export fails between its two saves; the second is swallowed.
* Two overlapping invocations that scan the same mature incident both announce it as new
  (`alert_dispatcher.py:186`), although README.md:300 has one digest per incident.
* `_flush_digests` reads one response of its scan (`alert_dispatcher.py:172`; SPEC.md:390 says all
  incidents), and the details route too (`events.py:120`): what lies behind it is not alerted, or is
  answered 404.
* The row of an open event that AWS Health stops updating expires although collections succeed: the
  collector asks for events by last update (`handler.py:124`), while reference.md:400 says that an open
  event's ttl is refreshed. For the same reason `start_time` filters of the API hide open events that
  began before the window.
* A run of `register_org.sh` whose `get-parameter` fails for any reason writes a list of one entry
  (`register_org.sh:77`, `119`); two overlapping runs lose one edit. Its closing message says that the
  collector reads the parameter at invocation time (`register_org.sh:158`); a warm container does not.
* SPEC.md:432 and reference.md:406 have the cache save `list_accounts` calls; it is called on every
  load (`account_cache.py:74`), and what the cache saves is tag lookups.
* The rows of one ARN that straddle two pages are two entries with their own counts (`events.py:98`;
  reference.md:93 has one entry per ARN): a client must add them up, as `EntriesAddUp` does. The
  dashboard reads the first page only (`frontend/index.html:426`).
* Two rows of one organisation for one ARN are appended and counted twice; the docstring at
  `events.py:154` says they are collapsed.
* A `page_size` of zero or less is answered 500; the description keywords of the classifier have no
  effect in the collector, which passes no description.

## 6. Not modelled

* `describe_event_details` and `describe_affected_entities` of the proxy client: the collector calls
  neither, and they keep no state.
* The live description that the details route adds when it can: a call whose failure is swallowed.
* `POST /v1/export` only starts the exporter, which is in `Exporter` as an overlapping invocation.
* The workbook's sheets, pivots and formats, the dashboard and the infrastructure code are presentation
  or configuration; what the models need of the latter is in their environment actions. CloudWatch
  metrics swallow their own failures and change nothing.

## 7. Plan

Done, in this order: `AlertDispatcher` with `IncidentAlerts`, `Collector`, `Exporter` and their proofs;
then `PagedRead` and `HealthProxyClient`, `EventClassifier`, `EventFeed`, `AccountCache`, `OrgRegistry`,
`EventsApi` and theirs.

Open:

1. `describe_event_details` and `describe_affected_entities`, once the collector calls them.
2. What is left of the promise of `IncidentAlerts` when invocations overlap, as an abstract
   specification of its own; section 5 says where the present one fails.
