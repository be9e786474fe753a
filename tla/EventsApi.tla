------------------------------- MODULE EventsApi -------------------------------
(***************************************************************************)
(* lambda/api: GET /v1/events page by page, GET /v1/events/{arn}/details   *)
(* and GET /v1/summary, each reading the events table that the collector   *)
(* and the ttl change meanwhile.  A row is a number, its place in          *)
(* category-starttime-index, so rows are numbered by their start_time and  *)
(* leave the time window in that order.  One client asks one request after *)
(* another; it follows next_token, and asks again after an error or leaves *)
(* the walk.                                                               *)
(***************************************************************************)
EXTENDS Paging, FiniteSets, FiniteSetsExt

CONSTANTS
    Row,
    ArnOf, OrgOf, CategoryOf,   \* of the rows
    Account,
    All,            \* no org_id or status filter, or category "all"
    Item,           \* what rows may say: [status, updated, accounts]
    Queries,        \* requests the client may make: [category, org, status]
    PageSize,       \* page_size, at most 200
    ScanPage,       \* items that one response of scan may hold
    MaxChanges,     \* bound on changes of the table
    MaxEdge         \* bound on the movement of the time window

Category == {"issue", "investigation"}
Status   == {"open", "closed", "upcoming"}

ASSUME RowAssumption ==
    /\ Row \subseteq Nat \ {0} /\ IsFiniteSet(Row)
    /\ CategoryOf \in [Row -> Category] /\ All \notin Category
    /\ {PageSize, ScanPage, MaxChanges, MaxEdge} \subseteq Nat /\ PageSize > 0
ASSUME ItemAssumption ==
    /\ Item \subseteq [status : Status, updated : Nat \ {0}, accounts : SUBSET Account]
    /\ IsFiniteSet(Account)

NoItem == [status |-> "none", updated |-> 0, accounts |-> {}]

VARIABLES
    table, changes,
    edge,       \* now - window_days: the last row that started before it, 0 if none did
    since,      \* window_start of the last request, in the same terms
    pc,         \* what the client is at
    query,      \* the request
    category,   \* the category get_summary queries
    token,      \* next_token, or the ExclusiveStartKey of get_summary
    entries,    \* what the pages of list_events held so far
    gathered,   \* all_items of get_summary
    summary,    \* its answer
    answer,     \* statusCode of the last response
    quiet,      \* the table is as it was when the request began
    steady,     \* rows that match the request ever since
    ever        \* rows that matched it at some time since

store == <<table, changes, edge>>
vars == <<store, since, pc, query, category, token, entries, gathered, summary, answer,
          quiet, steady, ever>>

Present == {r \in Row : table[r] # NoItem}
NoRequest == [category |-> All, org |-> All, status |-> All]
NoCount   == [total |-> 0, by |-> [k \in {} |-> 0]]
NoSummary == [issues |-> NoCount, investigations |-> NoCount, accounts |-> 0]

Init ==
    /\ table \in [Row -> Item \cup {NoItem}]
    /\ changes = 0 /\ edge = 0 /\ since = 0
    /\ pc = "idle" /\ query = NoRequest /\ category = "issue" /\ token = 0
    /\ entries = {} /\ gathered = [r \in Row |-> NoItem] /\ summary = NoSummary
    /\ answer = 200 /\ quiet = TRUE /\ steady = {} /\ ever = {}

-----------------------------------------------------------------------------
(* Rows a request is about *)

\* The in-memory filters of list_events.
Filtered(q, rows, items) ==
    {r \in rows : /\ q.org \in {All, OrgOf[r]}
                  /\ q.status \in {All, items[r].status}}

Windowed(from) == Beyond(Row, from)

\* The rows of the index that a query for the category goes through.
Indexed(cat, items, from) == {r \in Windowed(from) : items[r] # NoItem /\ CategoryOf[r] = cat}

Matching(q, items, from) ==
    Filtered(q, {r \in Windowed(from) : /\ items[r] # NoItem
                                       /\ q.category \in {All, CategoryOf[r]}}, items)

\* The collector puts a row, or its ttl removes it.
ChangeTable ==
    /\ changes < MaxChanges /\ changes' = changes + 1
    /\ \E r \in Row :
          \/ \E i \in Item : table[r].updated < i.updated /\ table' = [table EXCEPT ![r] = i]
          \/ table[r] # NoItem /\ table' = [table EXCEPT ![r] = NoItem]
    /\ quiet' = FALSE
    /\ steady' = steady \cap Matching(query, table', since)
    /\ ever' = ever \cup Matching(query, table', since)
    /\ UNCHANGED <<edge, since, pc, query, category, token, entries, gathered, summary, answer>>

\* Time passes: the next row in the order of start times leaves the window.
WindowMoves ==
    /\ edge < MaxEdge /\ edge' = edge + 1
    /\ UNCHANGED <<table, changes, since, pc, query, category, token, entries, gathered,
                   summary, answer, quiet, steady, ever>>

Begin(q) ==
    /\ query' = q /\ token' = 0 /\ entries' = {} /\ since' = edge
    /\ gathered' = [r \in Row |-> NoItem] /\ summary' = NoSummary
    /\ quiet' = TRUE
    /\ steady' = Matching(q, table, edge) /\ ever' = Matching(q, table, edge)

-----------------------------------------------------------------------------
(* GET /v1/events *)

\* Mutant: the category is not validated.
MutantAsk(q) ==
    /\ pc \in {"idle", "listed", "summarised"}
    /\ Begin(q)
    /\ pc' = "listing" /\ category' = q.category
    /\ UNCHANGED <<store, answer>>

Ask(q) ==
    /\ pc \in {"idle", "listed", "summarised"}
    /\ Begin(q)
    /\ IF q.category \in Category
       THEN pc' = "listing" /\ category' = q.category /\ UNCHANGED answer
       ELSE pc' = "idle" /\ answer' = 400 /\ UNCHANGED category
    /\ UNCHANGED store

\* _merge_by_arn: the entry of an arn has a record of every row in affected_orgs, the
\* accounts of all of them, and the status of the row that was updated last, the first
\* of them if several were.
Latest(rows) ==
    CHOOSE r \in rows : \A s \in rows : \/ table[s].updated < table[r].updated
                                        \/ table[s].updated = table[r].updated /\ r <= s

\* Accounts are counted once for every row that names them.
AccountsOf(rows) == Cardinality(UNION {{r} \X table[r].accounts : r \in rows})

\* Mutant: the entry keeps what its first row said.
MutantMerged(rows) ==
    {LET own   == {r \in rows : ArnOf[r] = a}
         first == CHOOSE r \in own : \A s \in own : r <= s
     IN  [page     |-> token,
          arn      |-> a,
          rows     |-> own,
          status   |-> table[first].status,
          updated  |-> table[first].updated,
          accounts |-> AccountsOf(own)] :
          a \in {ArnOf[r] : r \in rows}}

Merged(rows) ==
    {LET own == {r \in rows : ArnOf[r] = a}
     IN  [page     |-> token,
          arn      |-> a,
          rows     |-> own,
          status   |-> table[Latest(own)].status,
          updated  |-> table[Latest(own)].updated,
          accounts |-> AccountsOf(own)] :
          a \in {ArnOf[r] : r \in rows}}

Respond(page) ==
    /\ entries' = entries \cup Merged(Filtered(query, page, table))
    /\ answer' = 200
    /\ since' = edge /\ steady' = steady \cap Windowed(edge)
    /\ UNCHANGED <<store, query, category, gathered, summary, quiet, ever>>

\* DynamoDB refuses an ExclusiveStartKey that the key condition excludes, which happens
\* when its start_time has left the window since it was handed out.
TokenInWindow == token = 0 \/ token > edge

\* Mutant: next_token names the last row shown, not the last row read.
MutantListEvents ==
    /\ pc = "listing" /\ TokenInWindow
    /\ \E next \in Beyond(Windowed(edge), token) :
          LET page  == Between(Indexed(category, table, edge), token, next)
              shown == Filtered(query, page, table)
          IN  /\ Cardinality(page) <= PageSize
              /\ Respond(page)
              /\ token' = IF shown = {} THEN token ELSE Max(shown)
    /\ UNCHANGED pc

\* One request, with a next_token in its answer; Limit is applied before the filters.
ListEvents ==
    /\ pc = "listing" /\ TokenInWindow
    /\ \E next \in Beyond(Windowed(edge), token) :
          LET page == Between(Indexed(category, table, edge), token, next)
          IN  /\ Cardinality(page) <= PageSize
              /\ Respond(page)
              /\ token' = next
    /\ UNCHANGED pc

\* Mutant: the limit is applied to what the filters leave, and the walk ends there.
MutantListLastEvents ==
    /\ pc = "listing" /\ pc' = "listed" /\ TokenInWindow
    /\ \E page \in SUBSET Beyond(Indexed(category, table, edge), token) :
          Cardinality(page) <= PageSize /\ Respond(page)
    /\ UNCHANGED token

ListLastEvents ==
    /\ pc = "listing" /\ pc' = "listed" /\ TokenInWindow
    /\ LET page == Beyond(Indexed(category, table, edge), token)
       IN  Cardinality(page) <= PageSize /\ Respond(page)
    /\ UNCHANGED token

\* query raises, of itself or because it is refused: the handler answers 500, and the
\* client asks again with its token.
ListFails ==
    /\ pc = "listing" /\ answer' = 500
    /\ UNCHANGED <<store, since, pc, query, category, token, entries, gathered, summary, quiet,
                   steady, ever>>

\* The client leaves the walk.
Leave ==
    /\ pc = "listing" /\ pc' = "idle" /\ token' = 0 /\ entries' = {}
    /\ UNCHANGED <<store, since, query, category, gathered, summary, answer, quiet, steady,
                   ever>>

-----------------------------------------------------------------------------
(* GET /v1/events/{arn}/details *)

\* Mutant: the details are read from the index like the list.
MutantFound(arn, org, scanned) ==
    {r \in scanned \cap Windowed(edge) : ArnOf[r] = arn /\ org \in {All, OrgOf[r]}}

Found(arn, org, scanned) == {r \in scanned : ArnOf[r] = arn /\ org \in {All, OrgOf[r]}}

\* One response of the scan, in an order of its own; what it leaves is not asked for.
GetEventDetails(arn, org) ==
    /\ pc = "listed"
    /\ \E scanned \in SUBSET Present :
          /\ scanned = Present \/ Cardinality(scanned) = ScanPage
          /\ answer' = IF Found(arn, org, scanned) = {} THEN 404 ELSE 200
    /\ UNCHANGED <<store, since, pc, query, category, token, entries, gathered, summary,
                   quiet, steady, ever>>

-----------------------------------------------------------------------------
(* GET /v1/summary *)

AskSummary(q) ==
    /\ pc \in {"idle", "listed", "summarised"} /\ pc' = "summing"
    /\ q.status = All
    /\ Begin(q)
    /\ category' = IF q.category = All THEN "issue" ELSE q.category
    /\ UNCHANGED <<store, answer>>

Gather(page) == gathered' = [r \in Row |-> IF r \in page THEN table[r] ELSE gathered[r]]

SummaryPage ==
    /\ pc = "summing"
    /\ \E next \in Beyond(Windowed(since), token) :
          /\ Gather(Between(Indexed(category, table, since), token, next))
          /\ token' = next
    /\ UNCHANGED <<store, since, pc, query, category, entries, summary, answer, quiet,
                   steady, ever>>

\* Mutant: the ExclusiveStartKey of the first category is kept for the second.
MutantSummaryNextCategory ==
    /\ pc = "summing" /\ query.category = All /\ category = "issue"
    /\ Gather(Beyond(Indexed(category, table, since), token))
    /\ category' = "investigation"
    /\ UNCHANGED <<store, since, pc, query, token, entries, summary, answer, quiet,
                   steady, ever>>

SummaryNextCategory ==
    /\ pc = "summing" /\ query.category = All /\ category = "issue"
    /\ Gather(Beyond(Indexed(category, table, since), token))
    /\ category' = "investigation" /\ token' = 0
    /\ UNCHANGED <<store, since, pc, query, entries, summary, answer, quiet, steady, ever>>

\* The counters of one category: for every organisation and status, and the total.
Count(items, rows) ==
    [total |-> Cardinality(rows),
     by    |-> [o \in {OrgOf[r] : r \in rows}, s \in Status |->
                  Cardinality({r \in rows : OrgOf[r] = o /\ items[r].status = s})]]

Summed(items) ==
    LET rows  == Filtered(query, {r \in Row : items[r] # NoItem}, items)
        issue == {r \in rows : CategoryOf[r] = "issue"}
    IN  [issues         |-> Count(items, issue),
         investigations |-> Count(items, rows \ issue),
         accounts       |-> Cardinality(UNION {items[r].accounts : r \in rows})]

GetSummary ==
    /\ pc = "summing" /\ ~(query.category = All /\ category = "issue")
    /\ Gather(Beyond(Indexed(category, table, since), token))
    /\ summary' = Summed(gathered')
    /\ pc' = "summarised" /\ answer' = 200
    /\ UNCHANGED <<store, since, query, category, token, entries, quiet, steady, ever>>

\* query raises: what was gathered is lost.
SummaryFails ==
    /\ pc = "summing" /\ pc' = "idle" /\ answer' = 500
    /\ gathered' = [r \in Row |-> NoItem]
    /\ UNCHANGED <<store, since, query, category, token, entries, summary, quiet, steady, ever>>

-----------------------------------------------------------------------------
Read == ListEvents \/ ListLastEvents \/ SummaryPage \/ SummaryNextCategory \/ GetSummary

Next ==
    \/ ChangeTable \/ WindowMoves
    \/ \E q \in Queries : Ask(q) \/ AskSummary(q)
    \/ Read \/ ListFails \/ Leave \/ SummaryFails
    \/ \E a \in {ArnOf[r] : r \in Row} : GetEventDetails(a, query.org)

\* A client that stays follows every next_token, asks again after an error, and DynamoDB
\* answers a query that it does not refuse sooner or later: failures may repeat, but not
\* for ever.
Spec == Init /\ [][Next]_vars /\ WF_vars(Read)

-----------------------------------------------------------------------------
(* Properties *)

TypeOK ==
    /\ table \in [Row -> Item \cup {NoItem}] /\ gathered \in [Row -> Item \cup {NoItem}]
    /\ {changes, edge, since, token} \subseteq Nat
    /\ pc \in {"idle", "listing", "listed", "summing", "summarised"}
    /\ pc = "listing" => category \in Category
    /\ query \in Queries \cup {NoRequest}
    /\ entries \subseteq [page : Nat, arn : {ArnOf[r] : r \in Row}, rows : SUBSET Row,
                         status : Status, updated : Nat, accounts : Nat]
    /\ {summary.issues.total, summary.investigations.total, summary.accounts} \subseteq Nat
    /\ answer \in {200, 400, 404, 500} /\ quiet \in BOOLEAN
    /\ {steady, ever} \subseteq SUBSET Row

\* Over the pages of a walk, whatever changes and fails in between and although every
\* page has a window of its own, every row that matched the request throughout is in
\* exactly one entry, no row is in two, and none is shown that never matched.
WalkShowsEachRowOnce ==
    pc = "listed" =>
        /\ steady \subseteq UNION {e.rows : e \in entries}
        /\ UNION {e.rows : e \in entries} \subseteq ever
        /\ \A e, f \in entries : e # f => e.rows \cap f.rows = {}

\* The sum of the accounts counted in a set of entries.
Total(parts) == Cardinality(UNION {{e} \X (1..e.accounts) : e \in parts})

\* When no row changed, joined or left meanwhile, a client that puts the entries of an
\* arn together, as it must because its rows may straddle pages, has its accounts and its
\* status: the counts add up, and the entry updated last has the status of the row that was.
EntriesAddUp ==
    pc = "listed" /\ quiet /\ steady = ever =>
        \A a \in {ArnOf[r] : r \in steady} :
            LET own   == {r \in steady : ArnOf[r] = a}
                parts == {e \in entries : e.arn = a}
            IN  /\ Total(parts) = AccountsOf(own)
                /\ \E e \in parts : /\ e.status = table[Latest(own)].status
                                    /\ \A f \in parts : f.updated <= e.updated

\* The summary, read in many queries and two categories, counts every row once.
Within(cat, count) ==
    /\ Cardinality({r \in steady : CategoryOf[r] = cat}) <= count.total
    /\ count.total <= Cardinality({r \in ever : CategoryOf[r] = cat})

SummaryCountsEachRowOnce ==
    pc = "summarised" =>
        /\ Within("issue", summary.issues)
        /\ Within("investigation", summary.investigations)

\* An event that the list shows can be opened, also when it has left the window since,
\* as long as the table fits in one response of the scan and does not change.
ListedEventsAreFound ==
    [][\A a \in {e.arn : e \in entries} :
          (GetEventDetails(a, query.org) /\ quiet /\ Cardinality(Present) <= ScanPage)
              => answer' = 200]_vars

\* A summary ends, and so does a walk unless the window overtakes it: then its token is
\* refused for ever, and the client has to begin again (list_events takes window_start
\* afresh on every request and applies it to a token of an earlier one).
Overtaken == pc = "listing" /\ ~TokenInWindow

RequestsEnd ==
    pc \in {"listing", "summing"} ~> pc \in {"idle", "listed", "summarised"} \/ Overtaken
=============================================================================
