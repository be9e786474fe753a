----------------------------- MODULE AccountCache -----------------------------
(***************************************************************************)
(* collector/account_cache.py: load_account_map returns the accounts of an *)
(* organisation with their tags, from rows cached in DynamoDB and from the *)
(* Organizations API for what is not cached.  Loaders are threads of       *)
(* invocations that may overlap; organisations share no row (_pk), so one  *)
(* organisation is modelled.  An account's metadata stands for its tags.   *)
(***************************************************************************)
EXTENDS Naturals, FiniteSets

CONSTANTS
    Loader,
    Account,
    Meta,           \* metadata an account may have
    Unknown,        \* "Unknown"/"non-production", what a failed lookup gives
    None,           \* no entry
    CacheTTL,       \* ACCOUNT_CACHE_TTL_HOURS
    Timeout,        \* the Lambda timeout, which ends a load
    BatchSize,      \* puts that batch_writer gathers before it sends them (25)
    Faults,         \* kinds of failures the environment may inject
    MaxFaults,      \* bound on injected failures
    MaxEdits,       \* bound on changes of the organisation
    MaxTime         \* bound on the clock

ASSUME ValueAssumption == Unknown \notin Meta /\ None \notin Meta \cup {Unknown}
ASSUME TimeAssumption  == /\ {CacheTTL, Timeout, BatchSize, MaxFaults, MaxEdits, MaxTime} \subseteq Nat
                          /\ CacheTTL + Timeout > 0
ASSUME FaultAssumption == Faults \subseteq {"overlap", "list", "lookup", "write", "crash"}

Value == Meta \cup {Unknown}
Row   == [meta : Value, ttl : Nat]
NoRow == [meta |-> None, ttl |-> 0]

VARIABLES
    now, faults, edits,
    active,     \* accounts list_accounts reports as ACTIVE
    meta,       \* their tags
    rows,       \* the cache table
    pc,
    started,    \* now_epoch
    map,        \* hit_map, then with fresh_entries
    misses,     \* accounts to look up
    buffer,     \* accounts looked up whose row batch_writer has not sent yet
    ttl,        \* of the rows to write
    closedAt, replacedAt, failedAt, lookedUpAt, \* last time that this happened
    steady      \* accounts active ever since the load began

directory == <<active, meta, closedAt, replacedAt>>
loads == <<pc, started, map, misses, buffer, ttl>>
vars == <<now, faults, edits, directory, rows, loads, failedAt, lookedUpAt, steady>>

Empty == [a \in Account |-> None]
Busy(w) == pc[w] # "idle"

Init ==
    /\ now = 0 /\ faults = 0 /\ edits = 0
    /\ active \in SUBSET Account /\ meta \in [Account -> Meta]
    /\ rows = [a \in Account |-> NoRow]
    /\ pc = [w \in Loader |-> "idle"]
    /\ started = [w \in Loader |-> 0]
    /\ map = [w \in Loader |-> Empty]
    /\ misses = [w \in Loader |-> {}] /\ buffer = [w \in Loader |-> {}]
    /\ ttl = [w \in Loader |-> 0]
    /\ closedAt = [a \in Account |-> 0]
    /\ replacedAt = [a \in Account |-> [m \in Meta |-> 0]]
    /\ failedAt = [a \in Account |-> 0]
    /\ lookedUpAt = [a \in Account |-> None]
    /\ steady = [w \in Loader |-> {}]

Fails(kind) == kind \in Faults /\ faults < MaxFaults /\ faults' = faults + 1
Goto(w, label) == pc' = [pc EXCEPT ![w] = label]

-----------------------------------------------------------------------------
(* The environment *)

\* Lambda ends an invocation after its timeout.
Tick ==
    /\ now < MaxTime
    /\ \A w \in Loader : Busy(w) => now < started[w] + Timeout
    /\ now' = now + 1
    /\ UNCHANGED <<faults, edits, directory, rows, loads, failedAt, lookedUpAt, steady>>

\* The organisation opens, closes or retags an account.
Edit(a) ==
    /\ edits < MaxEdits /\ edits' = edits + 1
    /\ \/ /\ a \notin active /\ active' = active \cup {a}
          /\ UNCHANGED <<meta, closedAt, replacedAt, steady>>
       \/ /\ a \in active /\ active' = active \ {a}
          /\ closedAt' = [closedAt EXCEPT ![a] = now]
          /\ steady' = [w \in Loader |-> steady[w] \ {a}]
          /\ UNCHANGED <<meta, replacedAt>>
       \/ \E m \in Meta \ {meta[a]} :
             /\ meta' = [meta EXCEPT ![a] = m]
             /\ replacedAt' = [replacedAt EXCEPT ![a][meta[a]] = now]
             /\ UNCHANGED <<active, closedAt, steady>>
    /\ UNCHANGED <<now, faults, rows, loads, failedAt, lookedUpAt>>

\* DynamoDB deletes an expired row, some time after its ttl.
Expire(a) ==
    /\ rows[a] # NoRow /\ rows[a].ttl < now
    /\ rows' = [rows EXCEPT ![a] = NoRow]
    /\ UNCHANGED <<now, faults, edits, directory, loads, failedAt, lookedUpAt, steady>>

-----------------------------------------------------------------------------
(* load_account_map *)

Begin(w) ==
    /\ pc[w] = "idle"
    /\ IF \E v \in Loader : Busy(v) THEN Fails("overlap") ELSE UNCHANGED faults
    /\ Goto(w, "scan")
    /\ started' = [started EXCEPT ![w] = now]
    /\ steady' = [steady EXCEPT ![w] = active]
    /\ UNCHANGED <<now, edits, directory, rows, map, misses, buffer, ttl, failedAt, lookedUpAt>>

\* Mutant: the ttl is left to DynamoDB.
MutantScanOrgCache(w) ==
    /\ pc[w] = "scan" /\ Goto(w, "list")
    /\ map' = [map EXCEPT ![w] = [a \in Account |-> rows[a].meta]]
    /\ UNCHANGED <<now, faults, edits, directory, rows, started, misses, buffer, ttl,
                   failedAt, lookedUpAt, steady>>

\* _scan_org_cache, and the rows whose ttl has not passed.
ScanOrgCache(w) ==
    /\ pc[w] = "scan" /\ Goto(w, "list")
    /\ map' = [map EXCEPT ![w] =
            [a \in Account |-> IF rows[a].ttl > started[w] THEN rows[a].meta ELSE None]]
    /\ UNCHANGED <<now, faults, edits, directory, rows, started, misses, buffer, ttl,
                   failedAt, lookedUpAt, steady>>

\* Mutant: nothing is looked up once something is cached.
MutantOnlyCold(w) ==
    /\ pc[w] = "list" /\ Goto(w, "enrich")
    /\ misses' = [misses EXCEPT ![w] = IF map[w] = Empty THEN active ELSE {}]
    /\ UNCHANGED <<now, faults, edits, directory, rows, started, map, buffer, ttl,
                   failedAt, lookedUpAt, steady>>

\* Mutant: every listed account is looked up.
MutantAllMiss(w) ==
    /\ pc[w] = "list" /\ Goto(w, "enrich")
    /\ misses' = [misses EXCEPT ![w] = active]
    /\ UNCHANGED <<now, faults, edits, directory, rows, started, map, buffer, ttl,
                   failedAt, lookedUpAt, steady>>

\* _list_accounts; the active accounts without a valid row are misses.
ListAccounts(w) ==
    /\ pc[w] = "list" /\ Goto(w, "enrich")
    /\ misses' = [misses EXCEPT ![w] = {a \in active : map[w][a] = None}]
    /\ UNCHANGED <<now, faults, edits, directory, rows, started, map, buffer, ttl,
                   failedAt, lookedUpAt, steady>>

\* _enrich_and_cache fixes the ttl of the rows before its lookups.
Enrich(w) ==
    /\ pc[w] = "enrich" /\ Goto(w, "lookup")
    /\ ttl' = [ttl EXCEPT ![w] = now + CacheTTL]
    /\ UNCHANGED <<now, faults, edits, directory, rows, started, map, misses, buffer,
                   failedAt, lookedUpAt, steady>>

LookUp(w, a, value) ==
    /\ pc[w] = "lookup" /\ a \in misses[w]
    /\ map' = [map EXCEPT ![w][a] = value]
    /\ misses' = [misses EXCEPT ![w] = @ \ {a}]
    /\ buffer' = [buffer EXCEPT ![w] = @ \cup {a}]
    /\ lookedUpAt' = [lookedUpAt EXCEPT ![a] = now]
    /\ UNCHANGED <<now, edits, directory, rows, pc, started, ttl, steady>>

FetchAccountTags(w, a) == LookUp(w, a, meta[a]) /\ UNCHANGED <<faults, failedAt>>

\* Mutant: no defaults.
MutantFetchFails(w, a) ==
    /\ Fails("lookup") /\ LookUp(w, a, None)
    /\ failedAt' = [failedAt EXCEPT ![a] = now]

\* A failed lookup gives the defaults, and they are cached like an answer.
FetchFails(w, a) ==
    /\ Fails("lookup") /\ LookUp(w, a, Unknown)
    /\ failedAt' = [failedAt EXCEPT ![a] = now]

\* A batch_write_item with the rows of the accounts in sent.
Write(w, sent) ==
    rows' = [a \in Account |-> IF a \in sent THEN [meta |-> map[w][a], ttl |-> ttl[w]]
                               ELSE rows[a]]

\* batch_writer sends its buffer between two lookups when it is full, and at the end.
Sends(w) ==
    /\ pc[w] = "lookup" /\ buffer[w] # {}
    /\ Cardinality(buffer[w]) >= BatchSize \/ misses[w] = {}

\* What DynamoDB leaves unprocessed stays in the buffer.
Flush(w) ==
    /\ Sends(w)
    /\ \E sent \in SUBSET buffer[w] \ {{}} :
          Write(w, sent) /\ buffer' = [buffer EXCEPT ![w] = @ \ sent]
    /\ UNCHANGED <<now, faults, edits, directory, pc, started, map, misses, ttl,
                   failedAt, lookedUpAt, steady>>

Enriched(w) ==
    /\ pc[w] = "lookup" /\ misses[w] = {} /\ buffer[w] = {}
    /\ Goto(w, "done")
    /\ UNCHANGED <<now, faults, edits, directory, rows, started, map, misses, buffer, ttl,
                   failedAt, lookedUpAt, steady>>

\* The map reaches its caller or is lost, and the load's memory is gone.
Gone(w) ==
    /\ Goto(w, "idle")
    /\ started' = [started EXCEPT ![w] = 0] /\ map' = [map EXCEPT ![w] = Empty]
    /\ misses' = [misses EXCEPT ![w] = {}] /\ buffer' = [buffer EXCEPT ![w] = {}]
    /\ ttl' = [ttl EXCEPT ![w] = 0]
    /\ steady' = [steady EXCEPT ![w] = {}]
    /\ UNCHANGED <<now, edits, directory, failedAt, lookedUpAt>>

Return(w) == pc[w] = "done" /\ Gone(w) /\ UNCHANGED <<faults, rows>>

\* list_accounts or the scan raises, or the sandbox is lost.
LoadFails(w) ==
    /\ Busy(w) /\ Gone(w) /\ UNCHANGED rows
    /\ Fails("crash") \/ (pc[w] \in {"scan", "list"} /\ Fails("list"))

\* A batch_write_item raises, which may have written rows all the same; batch_writer
\* sends the rest as it is left, and the exception ends the load.
WriteFails(w) ==
    /\ Sends(w) /\ Fails("write")
    /\ \E sent \in SUBSET buffer[w] : Write(w, sent)
    /\ Gone(w)

Load(w) ==
    \/ Begin(w) \/ ScanOrgCache(w) \/ ListAccounts(w) \/ Enrich(w)
    \/ \E a \in Account : FetchAccountTags(w, a) \/ FetchFails(w, a)
    \/ Flush(w) \/ Enriched(w) \/ WriteFails(w) \/ LoadFails(w) \/ Return(w)

Next ==
    \/ Tick
    \/ \E a \in Account : Edit(a) \/ Expire(a)
    \/ \E w \in Loader : Load(w)

Spec == Init /\ [][Next]_vars

-----------------------------------------------------------------------------
(* Properties *)

TypeOK ==
    /\ {now, faults, edits} \subseteq Nat
    /\ active \subseteq Account /\ meta \in [Account -> Meta]
    /\ rows \in [Account -> Row \cup {NoRow}]
    /\ pc \in [Loader -> {"idle", "scan", "list", "enrich", "lookup", "done"}]
    /\ map \in [Loader -> [Account -> Value \cup {None}]]
    /\ misses \in [Loader -> SUBSET Account] /\ buffer \in [Loader -> SUBSET Account]
    /\ started \in [Loader -> Nat] /\ ttl \in [Loader -> Nat]
    /\ closedAt \in [Account -> Nat] /\ replacedAt \in [Account -> [Meta -> Nat]]
    /\ failedAt \in [Account -> Nat] /\ lookedUpAt \in [Account -> Nat \cup {None}]
    /\ steady \in [Loader -> SUBSET Account]

\* Whether time is less than the life of a row and two invocations ago.
Recent(time) == now < time + CacheTTL + 2 * Timeout

\* What a map says of an account was so not long ago: the account was active, and it
\* had these tags, or its lookup failed; a row outlives a change, or a failure, by its
\* ttl, however loads overlap, fail or are late to write.
MapIsRecent ==
    \A w \in Loader, a \in Account : pc[w] = "done" /\ map[w][a] # None =>
        /\ a \in active \/ Recent(closedAt[a])
        /\ \/ map[w][a] = meta[a]
           \/ map[w][a] \in Meta /\ Recent(replacedAt[a][map[w][a]])
           \/ map[w][a] = Unknown /\ Recent(failedAt[a])

\* An account that was active throughout the load is in the map, whatever was cached:
\* _process_event drops no account of the organisation for want of a row.
MapIsComplete ==
    \A w \in Loader : pc[w] = "done" => \A a \in steady[w] : map[w][a] # None

\* Without failures and overlapping loads, an account's tags are looked up once in the
\* life of a row ("from O(accounts x runs) to O(accounts/24h)").
LookupsAreSpaced ==
    [][\A a \in Account :
          ((\E w \in Loader : a \in buffer'[w] \ buffer[w]) /\ lookedUpAt[a] # None /\ faults = 0)
              => now + Timeout >= lookedUpAt[a] + CacheTTL]_vars
=============================================================================
