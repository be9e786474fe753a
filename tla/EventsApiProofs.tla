--------------------------- MODULE EventsApiProofs ---------------------------
(***************************************************************************)
(* Theorems about EventsApi: for every table, request and page size, and   *)
(* every way the table changes, a walk over the pages of list_events shows *)
(* each row that matched throughout once, although the window moves        *)
(* between the pages, and a summary counts it once; if no row changes, the *)
(* counts add up and the details are found.                                *)
(***************************************************************************)
EXTENDS EventsApi, FiniteSetTheorems, WellFoundedInduction, TLAPS

Shown == UNION {e.rows : e \in entries}

Disjoint == \A e, f \in entries : e # f => e.rows \cap f.rows = {}

\* What matches the request in the window of its last response.
Matched == Matching(query, table, since)

\* Up to token, every steady row has been shown.
WalkInv ==
    /\ {token, since, edge} \subseteq Nat /\ since <= edge /\ ever \subseteq Row
    /\ steady \subseteq Matched
    /\ pc = "listing" => /\ query.category = category /\ category \in Category
                         /\ Matched \subseteq ever
                         /\ \A r \in Shown : r <= token
                         /\ \A r \in steady : r <= token => r \in Shown
    /\ pc = "listed" => steady \subseteq Shown
    /\ pc \in {"listing", "listed"} => Shown \subseteq ever /\ Disjoint

LEMMA MatchingRows == \A q, items, from : Matching(q, items, from) \subseteq Row
  BY DEF Matching, Filtered, Windowed, Beyond

\* A later window is a smaller one.
LEMMA WindowShrinks ==
    ASSUME NEW from \in Nat, NEW to \in Nat, from <= to
    PROVE  /\ Windowed(to) \subseteq Windowed(from)
           /\ \A q, items : Matching(q, items, to) \subseteq Matching(q, items, from)
<1>1. Windowed(to) \subseteq Windowed(from)
  <2> SUFFICES ASSUME NEW r \in Row, to < r PROVE from < r
    BY DEF Windowed, Beyond
  <2> QED BY RowAssumption
<1> QED BY <1>1 DEF Matching, Filtered

\* The entries of a page hold its rows, each in one entry.
LEMMA MergedRows ==
    ASSUME NEW page \in SUBSET Row
    PROVE  /\ UNION {e.rows : e \in Merged(page)} = page
           /\ \A e, f \in Merged(page) : e # f => e.rows \cap f.rows = {}
<1> DEFINE Own(a)   == {r \in page : ArnOf[r] = a}
           EntryOf(a) == [page     |-> token,
                          arn      |-> a,
                          rows     |-> Own(a),
                          status   |-> table[Latest(Own(a))].status,
                          updated  |-> table[Latest(Own(a))].updated,
                          accounts |-> AccountsOf(Own(a))]
<1>1. Merged(page) = {EntryOf(a) : a \in {ArnOf[r] : r \in page}}
  BY DEF Merged
<1>2. \A a : EntryOf(a).rows = Own(a)
  OBVIOUS
<1> HIDE DEF EntryOf
<1>3. \A e \in Merged(page) : \E a : e = EntryOf(a) /\ e.rows = Own(a)
  BY <1>1, <1>2
<1>4. \A r \in page : r \in EntryOf(ArnOf[r]).rows /\ EntryOf(ArnOf[r]) \in Merged(page)
  BY <1>1, <1>2
<1>5. UNION {e.rows : e \in Merged(page)} = page
  BY <1>3, <1>4
<1>6. ASSUME NEW e \in Merged(page), NEW f \in Merged(page), e # f
      PROVE  e.rows \cap f.rows = {}
  <2>1. PICK a : e = EntryOf(a) /\ e.rows = Own(a)
    BY <1>3
  <2>2. PICK b : f = EntryOf(b) /\ f.rows = Own(b)
    BY <1>3
  <2>3. a # b
    BY <1>6, <2>1, <2>2
  <2> QED BY <2>1, <2>2, <2>3
<1> QED BY <1>5, <1>6

LEMMA WalkInvInit == Init => WalkInv
  BY DEF Init, WalkInv

\* One response: rows of the index between two tokens, filtered and merged, in the window
\* of the moment.
LEMMA PageShown ==
    ASSUME WalkInv, pc = "listing", NEW page \in SUBSET Indexed(category, table, edge),
           \A r \in page : token < r, Respond(page)
    PROVE  /\ Shown' = Shown \cup Filtered(query, page, table)
           /\ Filtered(query, page, table) \subseteq page
           /\ \A r \in steady' : r \in steady /\ r \in Row /\ r \in Indexed(category, table, edge)
                                 /\ (r \in page => r \in Shown')
           /\ Shown' \subseteq ever /\ Disjoint'
           /\ steady' \subseteq Matched' /\ Matched' \subseteq ever
<1> DEFINE shown == Filtered(query, page, table)
<1>1. shown \subseteq page /\ shown \in SUBSET Row /\ shown \in SUBSET Nat
  BY RowAssumption DEF Filtered, Indexed, Windowed, Beyond
<1>2. /\ steady' = steady \cap Windowed(edge) /\ ever' = ever /\ since' = edge
      /\ UNCHANGED <<table, query>>
  BY DEF Respond, store
<1>3. /\ Matched' = Matching(query, table, edge)
      /\ Matching(query, table, edge) \subseteq ever
      /\ steady \cap Windowed(edge) \subseteq Matching(query, table, edge)
  <2>1. Matching(query, table, edge) \subseteq Matching(query, table, since)
    BY WindowShrinks DEF WalkInv
  <2>2. steady \cap Windowed(edge) \subseteq Matching(query, table, edge)
    BY DEF WalkInv, Matched, Matching, Filtered
  <2>3. Matched' = Matching(query, table, edge)
    BY <1>2 DEF Matched, Matching, Filtered
  <2> QED BY <2>1, <2>2, <2>3 DEF WalkInv, Matched
<1>4. \A r \in Matching(query, table, edge) :
          /\ r \in Row /\ r \in Indexed(category, table, edge)
          /\ r \in page => r \in shown
  BY RowAssumption DEF WalkInv, Matching, Indexed, Filtered, Windowed, Beyond
<1>5. shown \subseteq Matching(query, table, edge)
  BY DEF WalkInv, Matching, Indexed, Filtered
<1>6. entries' = entries \cup Merged(shown)
  BY DEF Respond
<1> HIDE DEF shown
<1>7. /\ UNION {e.rows : e \in Merged(shown)} = shown
      /\ \A e, f \in Merged(shown) : e # f => e.rows \cap f.rows = {}
  BY <1>1, MergedRows
<1>8. Shown' = Shown \cup shown
  BY <1>6, <1>7 DEF Shown
<1>9. \A e \in entries : e.rows \cap shown = {}
  <2>1. \A e \in entries : e.rows \subseteq Shown
    BY DEF Shown
  <2>2. \A r \in Shown : r \in shown => FALSE
    BY <1>1 DEF WalkInv
  <2> QED BY <2>1, <2>2
<1>10. Disjoint'
  <2>1. \A e \in Merged(shown) : e.rows \subseteq shown
    BY <1>7
  <2> QED BY <1>6, <1>7, <1>9, <2>1 DEF Disjoint, WalkInv
<1>11. Shown' \subseteq ever
  BY <1>3, <1>5, <1>8 DEF WalkInv
<1>12. \A r \in steady' : /\ r \in steady /\ r \in Row /\ r \in Indexed(category, table, edge)
                          /\ r \in page => r \in Shown'
  BY <1>2, <1>3, <1>4, <1>8
<1>13. steady' \subseteq Matched'
  BY <1>2, <1>3
<1> QED BY <1>1, <1>3, <1>8, <1>10, <1>11, <1>12, <1>13 DEF shown

LEMMA ListingStep ==
    ASSUME WalkInv, ListEvents \/ ListLastEvents
    PROVE  WalkInv'
<1>1. CASE ListEvents
  <2>1. PICK next \in Beyond(Windowed(edge), token) :
            Respond(Between(Indexed(category, table, edge), token, next)) /\ token' = next
    BY <1>1 DEF ListEvents
  <2> DEFINE page == Between(Indexed(category, table, edge), token, next)
  <2>2. page \subseteq Indexed(category, table, edge)
        /\ (\A r \in page : token < r /\ r <= next)
        /\ (\A r \in Indexed(category, table, edge) : token < r /\ r <= next => r \in page)
    BY DEF Between
  <2>3. pc = "listing" /\ pc' = "listing" /\ next \in Nat /\ token < next /\ token \in Nat
    BY <1>1, RowAssumption DEF ListEvents, Windowed, Beyond, WalkInv
  <2>4. UNCHANGED <<edge, query, category, ever>> /\ since' = edge
    BY <2>1 DEF Respond, store
  <2>5. Respond(page)
    BY <2>1
  <2> HIDE DEF page
  <2> DEFINE shown == Filtered(query, page, table)
  <2>6. /\ Shown' = Shown \cup shown /\ shown \subseteq page
        /\ \A r \in steady' : r \in steady /\ r \in Row /\ r \in Indexed(category, table, edge)
                              /\ (r \in page => r \in Shown')
        /\ Shown' \subseteq ever /\ Disjoint'
        /\ steady' \subseteq Matched' /\ Matched' \subseteq ever
    BY <2>2, <2>3, <2>5, PageShown
  <2> HIDE DEF shown
  <2>7. \A r \in Shown' : r <= next
    <3>1. \A r \in Shown : r \in Nat /\ r <= token
      BY <2>3, <2>6, RowAssumption DEF WalkInv
    <3> QED BY <2>2, <2>3, <2>6, <3>1
  <2>8. \A r \in steady' : r <= next => r \in Shown'
    <3> SUFFICES ASSUME NEW r \in steady', r <= next PROVE r \in Shown'
      OBVIOUS
    <3>1. r \in Nat
      BY <2>6, RowAssumption
    <3>2. CASE r <= token
      BY <2>3, <2>6, <3>2 DEF WalkInv
    <3>3. CASE token < r
      BY <2>2, <2>6, <3>3
    <3> QED BY <2>3, <3>1, <3>2, <3>3
  <2>9. {token, since, edge}' \subseteq Nat /\ since' <= edge'
    BY <2>1, <2>3, <2>4 DEF WalkInv
  <2> QED BY <2>1, <2>3, <2>4, <2>6, <2>7, <2>8, <2>9 DEF WalkInv
<1>2. CASE ListLastEvents
  <2> DEFINE page == Beyond(Indexed(category, table, edge), token)
  <2>1. page \subseteq Indexed(category, table, edge)
        /\ (\A r \in page : token < r)
        /\ (\A r \in Indexed(category, table, edge) : token < r => r \in page)
    BY DEF Beyond
  <2>2. Respond(page) /\ pc = "listing" /\ pc' = "listed" /\ token' = token
    BY <1>2 DEF ListLastEvents
  <2>3. UNCHANGED <<edge, query, category, ever>> /\ since' = edge
    BY <2>2 DEF Respond, store
  <2> HIDE DEF page
  <2>4. /\ \A r \in steady' : r \in steady /\ r \in Row /\ r \in Indexed(category, table, edge)
                              /\ (r \in page => r \in Shown')
        /\ Shown \subseteq Shown' /\ Shown' \subseteq ever /\ Disjoint'
        /\ steady' \subseteq Matched'
    BY <2>1, <2>2, PageShown
  <2>5. \A r \in steady' : r \in Shown'
    <3> SUFFICES ASSUME NEW r \in steady' PROVE r \in Shown'
      OBVIOUS
    <3>1. r \in Nat /\ token \in Nat
      BY <2>4, RowAssumption DEF WalkInv
    <3>2. CASE r <= token
      BY <2>2, <2>4, <3>2 DEF WalkInv
    <3>3. CASE token < r
      BY <2>1, <2>4, <3>3
    <3> QED BY <3>1, <3>2, <3>3
  <2>6. {token, since, edge}' \subseteq Nat /\ since' <= edge'
    BY <2>2, <2>3 DEF WalkInv
  <2> QED BY <2>2, <2>3, <2>4, <2>5, <2>6 DEF WalkInv
<1> QED BY <1>1, <1>2

\* A request begins without entries, and all that matches is steady.
LEMMA BeginStep ==
    ASSUME WalkInv, NEW q, Begin(q), UNCHANGED <<table, edge>>,
           \/ pc' \notin {"listing", "listed"}
           \/ pc' = "listing" /\ category' = q.category /\ q.category \in Category
    PROVE  WalkInv'
<1>1. /\ query' = q /\ token' = 0 /\ entries' = {} /\ since' = edge
      /\ steady' = Matching(q, table, edge) /\ ever' = Matching(q, table, edge)
  BY DEF Begin
<1>2. Matched' = Matching(q, table, edge)
  BY <1>1 DEF Matched, Matching, Filtered
<1>3. Shown' = {} /\ Disjoint'
  BY <1>1 DEF Shown, Disjoint
<1>4. \A r \in steady' : ~(r <= token')
  <2>1. Matching(q, table, edge) \subseteq Row
    BY MatchingRows
  <2>2. \A r \in Row : r \in Nat /\ r # 0
    BY RowAssumption
  <2>3. \A r \in Row : ~(r <= 0)
    BY <2>2
  <2> QED BY <1>1, <2>1, <2>3
<1>5. ever' \subseteq Row /\ {token, since, edge}' \subseteq Nat /\ since' <= edge'
  BY <1>1, MatchingRows DEF WalkInv
<1> QED BY <1>1, <1>2, <1>3, <1>4, <1>5 DEF WalkInv

LEMMA ChangeStep ==
    ASSUME WalkInv, ChangeTable
    PROVE  WalkInv'
<1>1. /\ steady' = steady \cap Matching(query, table', since)
      /\ ever' = ever \cup Matching(query, table', since)
      /\ UNCHANGED <<edge, since, pc, query, category, token, entries>>
  BY DEF ChangeTable
<1>2. Matched' = Matching(query, table', since)
  BY <1>1 DEF Matched, Matching, Filtered
<1>3. Shown' = Shown /\ Disjoint' = Disjoint
  BY <1>1 DEF Shown, Disjoint
<1>4. Matching(query, table', since) \subseteq Row
  BY MatchingRows
<1> QED BY <1>1, <1>2, <1>3, <1>4 DEF WalkInv

\* A step that leaves the walk alone, be it that the window moves.
LEMMA OtherStep ==
    ASSUME WalkInv, UNCHANGED <<table, since, query, steady, ever, entries, token>>,
           edge' \in {edge, edge + 1}, UNCHANGED <<pc, category>>
    PROVE  WalkInv'
<1>1. Matched' = Matched
  BY DEF Matched, Matching, Filtered
<1>2. Shown' = Shown /\ Disjoint' = Disjoint
  BY DEF Shown, Disjoint
<1>3. {token, since, edge}' \subseteq Nat /\ since' <= edge'
  BY DEF WalkInv
<1> QED BY <1>1, <1>2, <1>3 DEF WalkInv

\* Summaries move the token too, but no walk is under way, and none is when it was left.
LEMMA NoWalkStep ==
    ASSUME WalkInv, UNCHANGED <<table, edge, since, query, steady, ever>>, token' \in Nat,
           pc' \notin {"listing", "listed"}
    PROVE  WalkInv'
<1>1. Matched' = Matched
  BY DEF Matched, Matching, Filtered
<1>2. {token, since, edge}' \subseteq Nat /\ since' <= edge'
  BY DEF WalkInv
<1> QED BY <1>1, <1>2 DEF WalkInv

LEMMA WalkInvNext == WalkInv /\ [Next]_vars => WalkInv'
<1> SUFFICES ASSUME WalkInv, [Next]_vars PROVE WalkInv'
  OBVIOUS
<1>1. CASE ChangeTable
  BY <1>1, ChangeStep
<1>2. ASSUME NEW q \in Queries, Ask(q) \/ AskSummary(q)
      PROVE  WalkInv'
  BY <1>2, BeginStep DEF Ask, AskSummary, store
<1>3. CASE ListEvents \/ ListLastEvents
  BY <1>3, ListingStep
<1>4. CASE WindowMoves \/ ListFails \/ UNCHANGED vars
  BY <1>4, OtherStep DEF WindowMoves, ListFails, vars, store
<1>5. CASE Leave \/ SummaryFails
  BY <1>5, NoWalkStep DEF Leave, SummaryFails, store, WalkInv
<1>6. CASE SummaryPage \/ SummaryNextCategory \/ GetSummary
  BY <1>6, NoWalkStep, RowAssumption
     DEF SummaryPage, SummaryNextCategory, GetSummary, Windowed, Beyond, store, WalkInv
<1>7. ASSUME NEW a, GetEventDetails(a, query.org)
      PROVE  WalkInv'
  BY <1>7, OtherStep DEF GetEventDetails, store
<1> QED BY <1>1, <1>2, <1>3, <1>4, <1>5, <1>6, <1>7 DEF Next, Read

\* A client that follows next_token to the end has seen every row that matched its
\* request throughout, none in two entries, and none that never matched, although the
\* limit is applied before the filters and the table and the window change between the
\* pages.
THEOREM WalkIsExact == Spec => []WalkShowsEachRowOnce
<1>1. Init => WalkInv
  BY WalkInvInit
<1>2. WalkInv /\ [Next]_vars => WalkInv'
  BY WalkInvNext
<1>3. WalkInv => WalkShowsEachRowOnce
  BY DEF WalkInv, WalkShowsEachRowOnce, Shown, Disjoint
<1> QED BY <1>1, <1>2, <1>3, PTL DEF Spec

-----------------------------------------------------------------------------
(* Type correctness *)

\* The collector's rows have a well-formed item; the place of NoItem tells the others.
Stored(rows) == rows \subseteq Row /\ \A r \in rows : table[r] \in Item

Later(r, s) == \/ table[s].updated < table[r].updated
               \/ table[s].updated = table[r].updated /\ r <= s

\* Of finitely many rows there is a latest: the row with the fewest rows not after it.
LEMMA LatestExists ==
    ASSUME NEW rows, Stored(rows), rows # {}
    PROVE  Latest(rows) \in rows /\ \A s \in rows : Later(Latest(rows), s)
<1>1. rows \subseteq Nat /\ \A r \in rows : table[r].updated \in Nat
  BY RowAssumption, ItemAssumption DEF Stored
<1> DEFINE Above(r) == {s \in rows : Later(s, r)}
           cones    == {Above(r) : r \in rows}
<1>2. \A q, r, s \in rows : /\ Later(r, s) \/ Later(s, r)
                            /\ Later(r, s) /\ Later(s, r) => r = s
                            /\ Later(q, r) /\ Later(r, s) => Later(q, s)
  <2>1. \A s \in rows : s \in Nat /\ table[s].updated \in Nat
    BY <1>1
  <2>2. ASSUME NEW r \in rows, NEW s \in rows
        PROVE  /\ Later(r, s) \/ Later(s, r)
               /\ Later(r, s) /\ Later(s, r) => r = s
    BY <2>1 DEF Later
  <2>3. ASSUME NEW q \in rows, NEW r \in rows, NEW s \in rows, Later(q, r), Later(r, s)
        PROVE  Later(q, s)
    BY <2>1, <2>3 DEF Later
  <2> QED BY <2>2, <2>3
<1>3. PICK c \in cones : \A d \in cones : <<d, c>> \notin StrictSubsetOrdering(rows)
  <2>1. IsFiniteSet(rows)
    BY FS_Subset, RowAssumption DEF Stored
  <2>2. IsWellFoundedOn(StrictSubsetOrdering(rows), SUBSET rows)
    BY <2>1, FS_StrictSubsetOrderingWellFounded, FS_FiniteSubsetsOfFinite
  <2>3. cones \subseteq SUBSET rows /\ cones # {}
    OBVIOUS
  <2> HIDE DEF cones
  <2> QED BY <2>2, <2>3, WFMin
<1>4. PICK r \in rows : c = Above(r)
  OBVIOUS
<1>5. \A s \in rows : Later(r, s)
  <2> SUFFICES ASSUME NEW s \in rows, Later(s, r), s # r PROVE FALSE
    BY <1>2
  <2>1. Above(s) \subseteq Above(r) /\ r \notin Above(s) /\ r \in Above(r)
    BY <1>2
  <2>2. <<Above(s), Above(r)>> \in StrictSubsetOrdering(rows)
    <3>1. Above(s) \in SUBSET rows /\ Above(r) \in SUBSET rows /\ Above(s) # Above(r)
      BY <2>1
    <3> HIDE DEF Above
    <3> QED BY <2>1, <3>1 DEF StrictSubsetOrdering
  <2> QED BY <1>3, <1>4, <2>2
<1>6. Latest(rows) = CHOOSE t \in rows : \A s \in rows : Later(t, s)
  BY DEF Latest, Later
<1> QED BY <1>5, <1>6

\* Counts of rows, accounts and pairs of them are numbers.
LEMMA CountsAreNumbers ==
    /\ \A rows \in SUBSET Row : Cardinality(rows) \in Nat
    /\ \A accounts \in SUBSET Account : Cardinality(accounts) \in Nat
    /\ \A rows : Stored(rows) =>
          /\ IsFiniteSet(UNION {{r} \X table[r].accounts : r \in rows})
          /\ AccountsOf(rows) \in Nat
<1>1. IsFiniteSet(Row) /\ IsFiniteSet(Account)
  BY RowAssumption, ItemAssumption
<1>2. ASSUME NEW rows, Stored(rows)
      PROVE  /\ IsFiniteSet(UNION {{r} \X table[r].accounts : r \in rows})
             /\ AccountsOf(rows) \in Nat
  <2> DEFINE pairs == UNION {{r} \X table[r].accounts : r \in rows}
  <2>1. \A r \in rows : r \in Row /\ table[r].accounts \subseteq Account
    BY <1>2, ItemAssumption DEF Stored
  <2>2. pairs \subseteq Row \X Account
    BY <2>1
  <2>3. AccountsOf(rows) = Cardinality(pairs)
    BY DEF AccountsOf
  <2>4. IsFiniteSet(Row \X Account)
    BY <1>1, FS_Product
  <2> HIDE DEF pairs
  <2>5. IsFiniteSet(pairs) /\ Cardinality(pairs) \in Nat
    BY <2>2, <2>4, FS_Subset, FS_CardinalityType
  <2> QED BY <2>3, <2>5 DEF pairs
<1> QED BY <1>1, <1>2, FS_Subset, FS_CardinalityType

\* The rows that a category's query or a request goes through are stored.
LEMMA IndexedStored ==
    ASSUME TypeOK
    PROVE  /\ \A cat, from : Stored(Indexed(cat, table, from))
           /\ \A q, rows : Stored(rows) => Stored(Filtered(q, rows, table))
<1>1. ASSUME NEW cat, NEW from PROVE Stored(Indexed(cat, table, from))
  <2>1. table \in [Row -> Item \cup {NoItem}] /\ Windowed(from) \subseteq Row
    BY DEF TypeOK, Windowed, Beyond
  <2> QED BY <2>1 DEF Indexed, Stored
<1>2. ASSUME NEW q, NEW rows, Stored(rows) PROVE Stored(Filtered(q, rows, table))
  BY <1>2 DEF Filtered, Stored
<1> QED BY <1>1, <1>2

LEMMA MatchingStored ==
    ASSUME TypeOK
    PROVE  \A q, from : Stored(Matching(q, table, from))
<1>1. table \in [Row -> Item \cup {NoItem}] /\ \A from : Windowed(from) \subseteq Row
  BY DEF TypeOK, Windowed, Beyond
<1> QED BY <1>1 DEF Matching, Filtered, Stored

LEMMA MergedType ==
    ASSUME TypeOK, NEW rows, Stored(rows), NEW e \in Merged(rows)
    PROVE  e \in [page : Nat, arn : {ArnOf[r] : r \in Row}, rows : SUBSET Row,
                  status : Status, updated : Nat, accounts : Nat]
<1>1. PICK r \in rows : e = LET own == {s \in rows : ArnOf[s] = ArnOf[r]}
                           IN  [page     |-> token,
                                arn      |-> ArnOf[r],
                                rows     |-> own,
                                status   |-> table[Latest(own)].status,
                                updated  |-> table[Latest(own)].updated,
                                accounts |-> AccountsOf(own)]
  BY DEF Merged
<1> DEFINE own == {s \in rows : ArnOf[s] = ArnOf[r]}
<1>2. own # {} /\ Stored(own) /\ own \in SUBSET Row /\ r \in Row
  BY DEF Stored
<1> HIDE DEF own
<1>3. Latest(own) \in own /\ AccountsOf(own) \in Nat
  BY <1>2, LatestExists, CountsAreNumbers
<1>4. table[Latest(own)].status \in Status /\ table[Latest(own)].updated \in Nat
  BY <1>2, <1>3, ItemAssumption DEF Stored
<1>5. token \in Nat
  BY DEF TypeOK
<1> QED BY <1>1, <1>2, <1>3, <1>4, <1>5 DEF own

LEMMA RespondType ==
    ASSUME TypeOK, NEW rows, Stored(rows), Respond(rows)
    PROVE  entries' \subseteq [page : Nat, arn : {ArnOf[r] : r \in Row}, rows : SUBSET Row,
                               status : Status, updated : Nat, accounts : Nat]
<1>1. entries' = entries \cup Merged(Filtered(query, rows, table))
  BY DEF Respond
<1> QED BY <1>1, IndexedStored, MergedType DEF TypeOK

LEMMA SummedType ==
    ASSUME NEW items \in [Row -> Item \cup {NoItem}]
    PROVE  {Summed(items).issues.total, Summed(items).investigations.total,
            Summed(items).accounts} \subseteq Nat
<1> DEFINE rows  == Filtered(query, {r \in Row : items[r] # NoItem}, items)
           issue == {r \in rows : CategoryOf[r] = "issue"}
<1>1. rows \in SUBSET Row /\ issue \in SUBSET Row /\ rows \ issue \in SUBSET Row
      /\ \A r \in rows : items[r].accounts \subseteq Account
  BY ItemAssumption DEF Filtered
<1>2. /\ Summed(items).issues.total = Cardinality(issue)
      /\ Summed(items).investigations.total = Cardinality(rows \ issue)
      /\ Summed(items).accounts = Cardinality(UNION {items[r].accounts : r \in rows})
  BY DEF Summed, Count
<1> HIDE DEF rows
<1> QED BY <1>1, <1>2, CountsAreNumbers

LEMMA TypeInit == Init => TypeOK
<1> SUFFICES ASSUME Init PROVE TypeOK
  OBVIOUS
<1>1. /\ table \in [Row -> Item \cup {NoItem}] /\ gathered \in [Row -> Item \cup {NoItem}]
      /\ changes = 0 /\ edge = 0 /\ since = 0 /\ token = 0 /\ pc = "idle"
      /\ query = NoRequest
      /\ entries = {} /\ answer = 200 /\ quiet = TRUE /\ steady = {} /\ ever = {}
  BY DEF Init
<1>2. {summary.issues.total, summary.investigations.total, summary.accounts} \subseteq Nat
  BY DEF Init, NoSummary, NoCount
<1> QED BY <1>1, <1>2 DEF TypeOK

LEMMA BeginType ==
    ASSUME TypeOK, NEW q \in Queries, Begin(q), UNCHANGED <<table, changes, edge>>,
           pc' = "listing" => category' \in Category,
           pc' \in {"idle", "listing", "summing"}, answer' \in {200, 400, 404, 500}
    PROVE  TypeOK'
<1>1. /\ query' = q /\ token' = 0 /\ entries' = {} /\ quiet' = TRUE /\ since' = edge
      /\ gathered' \in [Row -> Item \cup {NoItem}] /\ summary' = NoSummary
      /\ steady' \subseteq Row /\ ever' \subseteq Row
  BY MatchingRows DEF Begin
<1>2. {summary.issues.total, summary.investigations.total, summary.accounts}' \subseteq Nat
  BY <1>1 DEF NoSummary, NoCount
<1> QED BY <1>1, <1>2 DEF TypeOK

LEMMA NextType == TypeOK /\ [Next]_vars => TypeOK'
<1> SUFFICES ASSUME TypeOK, [Next]_vars PROVE TypeOK'
  OBVIOUS
<1>1. CASE ChangeTable
  <2>1. /\ table' \in [Row -> Item \cup {NoItem}] /\ changes' \in Nat
        /\ steady' \subseteq Row /\ ever' \subseteq Row
    BY <1>1, MatchingRows DEF ChangeTable, TypeOK
  <2>2. UNCHANGED <<edge, since, pc, query, category, token, entries, gathered, summary,
                    answer>>
    BY <1>1 DEF ChangeTable
  <2>3. quiet' \in BOOLEAN
    BY <1>1, Zenon DEF ChangeTable
  <2> QED BY <2>1, <2>2, <2>3 DEF TypeOK
<1>2. ASSUME NEW q \in Queries, Ask(q) \/ AskSummary(q)
      PROVE  TypeOK'
  <2>1. /\ Begin(q) /\ UNCHANGED <<table, changes, edge>>
        /\ pc' \in {"idle", "listing", "summing"} /\ answer' \in {answer, 400}
    BY <1>2 DEF Ask, AskSummary, store
  <2>2. pc' = "listing" => category' \in Category
    BY <1>2 DEF Ask, AskSummary
  <2> QED BY <2>1, <2>2, BeginType DEF TypeOK
<1>3. CASE ListEvents \/ ListLastEvents
  <2>1. PICK rows : /\ Stored(rows) /\ Respond(rows)
                    /\ token' \in Row \cup {token}
                    /\ pc = "listing" /\ pc' \in {"listing", "listed"}
    <3>1. CASE ListEvents
      <4>1. PICK next \in Beyond(Windowed(edge), token) :
                Respond(Between(Indexed(category, table, edge), token, next)) /\ token' = next
        BY <3>1 DEF ListEvents
      <4>2. Stored(Between(Indexed(category, table, edge), token, next))
        BY IndexedStored DEF Between, Stored
      <4> QED BY <3>1, <4>1, <4>2 DEF Windowed, Beyond, ListEvents
    <3>2. CASE ListLastEvents
      <4>1. Stored(Beyond(Indexed(category, table, edge), token))
        BY IndexedStored DEF Beyond, Stored
      <4> QED BY <3>2, <4>1 DEF ListLastEvents
    <3> QED BY <1>3, <3>1, <3>2
  <2>2. token' \in Nat
    <3>1. token \in Nat
      BY DEF TypeOK
    <3> QED BY <2>1, <3>1, RowAssumption
  <2>3. entries' \subseteq [page : Nat, arn : {ArnOf[r] : r \in Row}, rows : SUBSET Row,
                            status : Status, updated : Nat, accounts : Nat]
    BY <2>1, RespondType
  <2>4. answer' = 200 /\ since' = edge /\ steady' \subseteq steady
        /\ UNCHANGED <<table, changes, edge, query, category, gathered, summary, quiet, ever>>
    BY <2>1 DEF Respond, store
  <2> QED BY <2>1, <2>2, <2>3, <2>4 DEF TypeOK
<1>4. CASE ListFails \/ WindowMoves \/ Leave
  <2>1. /\ edge' \in Nat /\ answer' \in {answer, 500} /\ token' \in {token, 0}
        /\ entries' \in {entries, {}} /\ pc' \in {pc, "idle"}
        /\ UNCHANGED <<table, changes, since, query, category, gathered, summary, quiet,
                       steady, ever>>
    BY <1>4 DEF ListFails, WindowMoves, Leave, store, TypeOK
  <2> QED BY <2>1 DEF TypeOK
<1>5. CASE SummaryPage \/ SummaryNextCategory \/ GetSummary
  <2>1. gathered' \in [Row -> Item \cup {NoItem}]
    BY <1>5 DEF SummaryPage, SummaryNextCategory, GetSummary, Gather, TypeOK
  <2>2. token' \in Nat
    BY <1>5, RowAssumption
       DEF SummaryPage, SummaryNextCategory, GetSummary, Windowed, Beyond, TypeOK
  <2>3. {summary.issues.total, summary.investigations.total, summary.accounts}' \subseteq Nat
    <3>1. summary' = summary \/ summary' = Summed(gathered')
      BY <1>5 DEF SummaryPage, SummaryNextCategory, GetSummary
    <3> QED BY <2>1, <3>1, SummedType DEF TypeOK
  <2>4. /\ pc' \in {"summing", "summarised"} /\ answer' \in {answer, 200}
        /\ UNCHANGED <<table, changes, edge, since, query, entries, quiet, steady, ever>>
    BY <1>5 DEF SummaryPage, SummaryNextCategory, GetSummary, store
  <2> QED BY <2>1, <2>2, <2>3, <2>4 DEF TypeOK
<1>6. CASE SummaryFails
  <2>1. /\ pc' = "idle" /\ answer' = 500
        /\ gathered' \in [Row -> Item \cup {NoItem}]
        /\ UNCHANGED <<table, changes, edge, since, query, category, token, entries, summary,
                       quiet, steady, ever>>
    BY <1>6 DEF SummaryFails, store
  <2> QED BY <2>1 DEF TypeOK
<1>7. ASSUME NEW a, GetEventDetails(a, query.org)
      PROVE  TypeOK'
  <2>1. /\ answer' \in {404, 200}
        /\ UNCHANGED <<table, changes, edge, since, pc, query, category, token, entries,
                       gathered, summary, quiet, steady, ever>>
    BY <1>7 DEF GetEventDetails, store
  <2> QED BY <2>1 DEF TypeOK
<1>8. CASE UNCHANGED vars
  BY <1>8 DEF vars, store, TypeOK
<1> QED BY <1>1, <1>2, <1>3, <1>4, <1>5, <1>6, <1>7, <1>8 DEF Next, Read

\* Every reachable state of the API is well-formed, above all what its answers hold:
\* the entry of an arn has the status of one of its rows, and every counter is a number.
THEOREM ApiTypeCorrect == Spec => []TypeOK
  BY TypeInit, NextType, PTL DEF Spec

-----------------------------------------------------------------------------
(* A summary counts each row once *)

\* The rows of the request's organisation, and those the queries so far went past.
Ours(r) == query.org \in {All, OrgOf[r]}
Passed(r) ==
    \/ CategoryOf[r] = category /\ r <= token
    \/ query.category = All /\ category = "investigation" /\ CategoryOf[r] = "issue"

\* The answer counts some set of rows between the steady ones and those that ever matched.
Counted ==
    \E rows \in SUBSET Row :
       /\ steady \subseteq rows /\ rows \subseteq ever
       /\ summary.issues.total = Cardinality({r \in rows : CategoryOf[r] = "issue"})
       /\ summary.investigations.total =
              Cardinality({r \in rows : CategoryOf[r] = "investigation"})

\* Every steady row that was passed is gathered, and what is gathered once matched.
SummaryInv ==
    /\ pc = "summing" =>
          /\ steady \subseteq Matched /\ Matched \subseteq ever
          /\ query.status = All
          /\ IF query.category = All THEN category \in Category
                                     ELSE category = query.category
          /\ \A r \in Row : gathered[r] # NoItem /\ Ours(r) => r \in ever
          /\ \A r \in steady : Passed(r) => gathered[r] # NoItem
    /\ pc = "summarised" => Counted

\* What one response adds.
LEMMA GatherStep ==
    ASSUME TypeOK, SummaryInv, pc = "summing",
           NEW page \in SUBSET Indexed(category, table, since), Gather(page)
    PROVE  /\ \A r \in Row : gathered'[r] # NoItem /\ Ours(r) => r \in ever
           /\ \A r \in steady : r \in page \/ Passed(r) => gathered'[r] # NoItem
           /\ \A r \in steady : r \in Row /\ Ours(r) /\ r \in Nat
                                /\ query.category \in {All, CategoryOf[r]}
                                /\ r \in Indexed(CategoryOf[r], table, since)
<1>1. /\ \A r \in Row : gathered'[r] = IF r \in page THEN table[r] ELSE gathered[r]
      /\ \A r \in page : r \in Row /\ r \in Windowed(since) /\ table[r] # NoItem
                         /\ CategoryOf[r] = category
  BY DEF Gather, Indexed, Windowed, Beyond
<1>2. \A r \in steady : r \in Row /\ Ours(r) /\ r \in Nat
                        /\ query.category \in {All, CategoryOf[r]}
                        /\ r \in Indexed(CategoryOf[r], table, since)
  BY RowAssumption DEF SummaryInv, Matched, Matching, Filtered, Indexed, Ours, Windowed, Beyond
<1>3. \A r \in page : Ours(r) => r \in Matched
  BY <1>1 DEF SummaryInv, Matched, Matching, Filtered, Ours
<1> QED BY <1>1, <1>2, <1>3 DEF SummaryInv

\* A step that leaves the table and the request alone.
LEMMA SameRequest ==
    ASSUME UNCHANGED <<table, query, since>>
    PROVE  Matched' = Matched /\ \A r : Ours(r)' = Ours(r)
  BY DEF Matched, Matching, Filtered, Ours

LEMMA SummaryPages ==
    ASSUME TypeOK, SummaryInv, SummaryPage \/ SummaryNextCategory
    PROVE  SummaryInv'
<1>1. /\ pc = "summing" /\ pc' = "summing"
      /\ UNCHANGED <<table, since, query, steady, ever>>
  BY DEF SummaryPage, SummaryNextCategory, store
<1>2. token \in Nat /\ \A r \in Row : r \in Nat /\ CategoryOf[r] \in Category
  BY RowAssumption DEF TypeOK
<1>3. CASE SummaryPage
  <2>1. PICK next \in Beyond(Windowed(since), token) :
            Gather(Between(Indexed(category, table, since), token, next)) /\ token' = next
    BY <1>3 DEF SummaryPage
  <2> DEFINE page == Between(Indexed(category, table, since), token, next)
  <2>2. /\ page \subseteq Indexed(category, table, since)
        /\ \A r \in Indexed(category, table, since) : token < r /\ r <= next => r \in page
    BY DEF Between
  <2>3. next \in Nat /\ category' = category
    BY <1>2, <1>3, RowAssumption DEF Windowed, Beyond, SummaryPage
  <2> HIDE DEF page
  <2>4. /\ \A r \in Row : gathered'[r] # NoItem /\ Ours(r) => r \in ever
        /\ \A r \in steady : r \in page \/ Passed(r) => gathered'[r] # NoItem
        /\ \A r \in steady : r \in Row /\ r \in Nat /\ r \in Indexed(CategoryOf[r], table, since)
    BY <1>1, <2>1, <2>2, GatherStep DEF page
  <2>5. \A r \in steady : Passed(r)' => gathered'[r] # NoItem
    BY <1>1, <1>2, <2>1, <2>2, <2>3, <2>4 DEF Passed
  <2> QED BY <1>1, <2>3, <2>4, <2>5, SameRequest DEF SummaryInv
<1>4. CASE SummaryNextCategory
  <2> DEFINE page == Beyond(Indexed(category, table, since), token)
  <2>1. /\ page \subseteq Indexed(category, table, since) /\ Gather(page)
        /\ \A r \in Indexed(category, table, since) : token < r => r \in page
    BY <1>4 DEF Beyond, SummaryNextCategory
  <2>2. /\ query.category = All /\ category = "issue" /\ category' = "investigation"
        /\ token' = 0
    BY <1>4 DEF SummaryNextCategory
  <2> HIDE DEF page
  <2>3. /\ \A r \in Row : gathered'[r] # NoItem /\ Ours(r) => r \in ever
        /\ \A r \in steady : r \in page \/ Passed(r) => gathered'[r] # NoItem
        /\ \A r \in steady : r \in Row /\ r \in Nat /\ r \in Indexed(CategoryOf[r], table, since)
    BY <1>1, <2>1, GatherStep
  <2>4. ASSUME NEW r \in steady, Passed(r)' PROVE gathered'[r] # NoItem
    <3>1. ~(r <= 0)
      BY <2>3, RowAssumption
    <3>2. CategoryOf[r] = "issue"
      BY <2>2, <2>4, <3>1 DEF Passed
    <3> QED BY <1>2, <2>1, <2>2, <2>3, <3>2 DEF Passed
  <2> QED BY <1>1, <2>2, <2>3, <2>4, SameRequest DEF SummaryInv, Category
<1> QED BY <1>3, <1>4

LEMMA SummaryAnswer ==
    ASSUME TypeOK, SummaryInv, GetSummary
    PROVE  SummaryInv'
<1> DEFINE page == Beyond(Indexed(category, table, since), token)
           rows == Filtered(query, {r \in Row : gathered'[r] # NoItem}, gathered')
<1>1. /\ pc = "summing" /\ pc' = "summarised" /\ ~(query.category = All /\ category = "issue")
      /\ Gather(page) /\ summary' = Summed(gathered')
      /\ UNCHANGED <<table, since, query, steady, ever>>
  BY DEF GetSummary, store
<1>2. /\ page \subseteq Indexed(category, table, since)
      /\ \A r \in Indexed(category, table, since) : token < r => r \in page
  BY DEF Beyond
<1> HIDE DEF page
<1>3. /\ \A r \in Row : gathered'[r] # NoItem /\ Ours(r) => r \in ever
      /\ \A r \in steady : r \in page \/ Passed(r) => gathered'[r] # NoItem
      /\ \A r \in steady : r \in Row /\ Ours(r) /\ r \in Nat
                           /\ query.category \in {All, CategoryOf[r]}
                           /\ r \in Indexed(CategoryOf[r], table, since)
  BY <1>1, <1>2, GatherStep
<1>4. ASSUME NEW r \in steady PROVE r \in page \/ Passed(r)
  <2>1. CategoryOf[r] \in Category /\ token \in Nat /\ r \in Nat
    BY <1>3, RowAssumption DEF TypeOK
  <2>2. CASE CategoryOf[r] = category
    BY <1>2, <1>3, <2>1, <2>2 DEF Passed
  <2>3. CASE CategoryOf[r] # category
    BY <1>1, <1>3, <2>1, <2>3 DEF Passed, SummaryInv, Category
  <2> QED BY <2>2, <2>3
<1>5. rows = {r \in Row : gathered'[r] # NoItem /\ Ours(r)}
  BY <1>1 DEF Filtered, Ours, SummaryInv
<1>6. rows \subseteq ever /\ steady \subseteq rows /\ rows \in SUBSET Row
  <2> HIDE DEF rows
  <2> QED BY <1>3, <1>4, <1>5
<1>7. /\ summary'.issues.total = Cardinality({r \in rows : CategoryOf[r] = "issue"})
      /\ summary'.investigations.total =
             Cardinality(rows \ {r \in rows : CategoryOf[r] = "issue"})
  BY <1>1 DEF Summed, Count
<1> HIDE DEF rows
<1>8. rows \ {r \in rows : CategoryOf[r] = "issue"}
          = {r \in rows : CategoryOf[r] = "investigation"}
  <2>1. \A r \in rows : CategoryOf[r] \in {"issue", "investigation"}
    BY <1>6, RowAssumption DEF Category
  <2> QED BY <2>1
<1>9. Counted'
  BY <1>1, <1>6, <1>7, <1>8 DEF Counted
<1> QED BY <1>1, <1>9, SameRequest DEF SummaryInv

LEMMA SummaryInvNext == TypeOK /\ SummaryInv /\ [Next]_vars => SummaryInv'
<1> SUFFICES ASSUME TypeOK, SummaryInv, [Next]_vars PROVE SummaryInv'
  OBVIOUS
<1>1. CASE ChangeTable
  <2>1. /\ steady' = steady \cap Matching(query, table', since)
        /\ ever' = ever \cup Matching(query, table', since)
        /\ UNCHANGED <<since, pc, query, category, token, gathered, summary>>
    BY <1>1 DEF ChangeTable
  <2>2. Matched' = Matching(query, table', since) /\ \A r : Ours(r)' = Ours(r)
    BY <2>1 DEF Matched, Matching, Filtered, Ours
  <2>3. \A r : Passed(r)' = Passed(r)
    BY <2>1 DEF Passed
  <2>4. Counted => Counted'
    BY <2>1, MatchingRows DEF Counted
  <2> QED BY <2>1, <2>2, <2>3, <2>4 DEF SummaryInv
<1>2. ASSUME NEW q \in Queries, Ask(q) \/ AskSummary(q)
      PROVE  SummaryInv'
  <2>1. /\ Begin(q) /\ UNCHANGED table
        /\ \/ pc' \in {"idle", "listing"}
           \/ /\ pc' = "summing" /\ q.status = All
              /\ category' = IF q.category = All THEN "issue" ELSE q.category
    BY <1>2 DEF Ask, AskSummary, store
  <2>2. /\ query' = q /\ token' = 0 /\ gathered' = [r \in Row |-> NoItem]
        /\ steady' = Matching(q, table, edge) /\ ever' = Matching(q, table, edge)
        /\ Matched' = Matching(q, table, edge)
    BY <2>1 DEF Begin, Matched, Matching, Filtered
  <2>3. ASSUME NEW r \in steady', pc' = "summing" PROVE ~Passed(r)'
    <3>1. r \in Row
      BY <2>2, <2>3, MatchingRows
    <3>2. ~(r <= 0)
      BY <3>1, RowAssumption
    <3> QED BY <2>1, <2>2, <2>3, <3>2 DEF Passed
  <2> QED BY <2>1, <2>2, <2>3 DEF SummaryInv, Category
<1>3. CASE SummaryPage \/ SummaryNextCategory
  BY <1>3, SummaryPages
<1>4. CASE GetSummary
  BY <1>4, SummaryAnswer
<1>5. ASSUME \/ pc' \notin {"summing", "summarised"}
             \/ UNCHANGED <<table, query, since, steady, ever, pc, category, token, gathered,
                            summary>>
      PROVE  SummaryInv'
  BY <1>5, SameRequest DEF SummaryInv, Passed, Counted
<1>6. CASE ListEvents \/ ListLastEvents
  BY <1>5, <1>6 DEF ListEvents, ListLastEvents, Respond, store
<1>7. CASE ListFails \/ SummaryFails \/ WindowMoves \/ Leave
  BY <1>5, <1>7 DEF ListFails, SummaryFails, WindowMoves, Leave, store
<1>8. ASSUME NEW a, GetEventDetails(a, query.org)
      PROVE  SummaryInv'
  BY <1>5, <1>8 DEF GetEventDetails, store
<1>9. CASE UNCHANGED vars
  BY <1>5, <1>9 DEF vars, store
<1> QED BY <1>1, <1>2, <1>3, <1>4, <1>6, <1>7, <1>8, <1>9 DEF Next, Read

\* Whatever pages DynamoDB cuts the two categories into and however the table changes
\* between the queries, a summary counts every row that matched throughout once, in the
\* total of its category, and none that never matched.
THEOREM SummariesCountOnce == Spec => []SummaryCountsEachRowOnce
<1>1. Init => SummaryInv
  BY DEF Init, SummaryInv
<1>2. TypeOK /\ SummaryInv => SummaryCountsEachRowOnce
  <2> SUFFICES ASSUME TypeOK, SummaryInv, pc = "summarised"
               PROVE  Within("issue", summary.issues)
                      /\ Within("investigation", summary.investigations)
    BY DEF SummaryCountsEachRowOnce
  <2>1. PICK rows \in SUBSET Row :
            /\ steady \subseteq rows /\ rows \subseteq ever
            /\ summary.issues.total = Cardinality({r \in rows : CategoryOf[r] = "issue"})
            /\ summary.investigations.total =
                   Cardinality({r \in rows : CategoryOf[r] = "investigation"})
    BY DEF SummaryInv, Counted
  <2>2. ASSUME NEW cat
        PROVE  /\ Cardinality({r \in steady : CategoryOf[r] = cat})
                      <= Cardinality({r \in rows : CategoryOf[r] = cat})
               /\ Cardinality({r \in rows : CategoryOf[r] = cat})
                      <= Cardinality({r \in ever : CategoryOf[r] = cat})
    <3>1. IsFiniteSet({r \in ever : CategoryOf[r] = cat})
      BY FS_Subset, RowAssumption DEF TypeOK
    <3>2. IsFiniteSet({r \in rows : CategoryOf[r] = cat})
      BY FS_Subset, RowAssumption
    <3>3. /\ {r \in rows : CategoryOf[r] = cat} \subseteq {r \in ever : CategoryOf[r] = cat}
          /\ {r \in steady : CategoryOf[r] = cat} \subseteq {r \in rows : CategoryOf[r] = cat}
      BY <2>1
    <3> QED BY <3>1, <3>2, <3>3, FS_Subset
  <2> QED BY <2>1, <2>2 DEF Within
<1> QED BY <1>1, <1>2, ApiTypeCorrect, SummaryInvNext, PTL DEF Spec

-----------------------------------------------------------------------------
(* The entries of a quiet walk add up *)

Pairs(parts) == UNION {{e} \X (1..e.accounts) : e \in parts}
PartsOf(a)   == {e \in entries : e.arn = a}
ShownOf(a)   == {r \in Shown : ArnOf[r] = a}

\* An entry tells of its rows what the table says of them.
Fits(e) ==
    /\ e.rows # {} /\ \A r \in e.rows : ArnOf[r] = e.arn
    /\ e.status = table[Latest(e.rows)].status
    /\ e.updated = table[Latest(e.rows)].updated

\* While the table does not change, what matched once only left the window, the entries
\* fit, and their counts add up to the accounts of the rows shown so far.
QuietInv ==
    quiet => /\ ever \subseteq Matching(query, table, 0)
             /\ pc \in {"listing", "listed"} =>
                   /\ \A e \in entries : Fits(e)
                   /\ \A a : /\ IsFiniteSet(Pairs(PartsOf(a)))
                             /\ Total(PartsOf(a)) = AccountsOf(ShownOf(a))

LEMMA TotalOfMore ==
    ASSUME NEW parts, IsFiniteSet(Pairs(parts)), NEW e, e \notin parts, e.accounts \in Nat
    PROVE  /\ IsFiniteSet(Pairs(parts \cup {e}))
           /\ Total(parts \cup {e}) = Total(parts) + e.accounts
<1> DEFINE own == {e} \X (1..e.accounts)
<1>1. Pairs(parts \cup {e}) = Pairs(parts) \cup own /\ Pairs(parts) \cap own = {}
  BY DEF Pairs
<1>2. IsFiniteSet(own) /\ Cardinality(own) = e.accounts
  <2>1. IsFiniteSet({e}) /\ Cardinality({e}) = 1
    BY FS_Singleton
  <2>2. IsFiniteSet(1..e.accounts) /\ Cardinality(1..e.accounts) = e.accounts
    BY FS_Interval
  <2>3. IsFiniteSet(own) /\ Cardinality(own) = Cardinality({e}) * Cardinality(1..e.accounts)
    BY <2>1, <2>2, FS_Product, Zenon
  <2> HIDE DEF own
  <2> QED BY <2>1, <2>2, <2>3
<1> HIDE DEF own
<1>3. /\ IsFiniteSet(Pairs(parts) \cup own)
      /\ Cardinality(Pairs(parts) \cup own) = Cardinality(Pairs(parts)) + e.accounts
  <2>1. Cardinality(Pairs(parts)) \in Nat
    BY FS_CardinalityType
  <2> QED BY <1>1, <1>2, <2>1, FS_Union, FS_EmptySet
<1>4. \A some : Total(some) = Cardinality(Pairs(some))
  BY DEF Total, Pairs
<1> QED BY <1>1, <1>3, <1>4

LEMMA AccountsOfMore ==
    ASSUME NEW rows, Stored(rows), NEW more, Stored(more), rows \cap more = {}
    PROVE  AccountsOf(rows \cup more) = AccountsOf(rows) + AccountsOf(more)
<1> DEFINE Named(some) == UNION {{r} \X table[r].accounts : r \in some}
<1>1. Named(rows \cup more) = Named(rows) \cup Named(more) /\ Named(rows) \cap Named(more) = {}
  OBVIOUS
<1>2. IsFiniteSet(Named(rows)) /\ IsFiniteSet(Named(more))
  BY CountsAreNumbers
<1>3. \A some : AccountsOf(some) = Cardinality(Named(some))
  BY DEF AccountsOf
<1> HIDE DEF Named
<1>4. Cardinality(Named(rows) \cup Named(more)) = Cardinality(Named(rows)) + Cardinality(Named(more))
  <2>1. Cardinality(Named(rows)) \in Nat /\ Cardinality(Named(more)) \in Nat
    BY <1>2, FS_CardinalityType
  <2>2. Cardinality(Named(rows) \cap Named(more)) = 0
    BY <1>1, FS_EmptySet
  <2>3. Cardinality(Named(rows) \cup Named(more))
            = Cardinality(Named(rows)) + Cardinality(Named(more))
              - Cardinality(Named(rows) \cap Named(more))
    BY <1>2, FS_Union, Zenon
  <2> QED BY <2>1, <2>2, <2>3
<1> QED BY <1>1, <1>3, <1>4

\* What _merge_by_arn makes of the rows of a page: one entry for every arn.
LEMMA MergedEntries ==
    ASSUME NEW rows
    PROVE  /\ \A e \in Merged(rows) :
                 /\ Fits(e) /\ e.rows = {r \in rows : ArnOf[r] = e.arn}
                 /\ e.accounts = AccountsOf(e.rows)
           /\ \A r \in rows : \E e \in Merged(rows) : e.arn = ArnOf[r]
           /\ \A e, f \in Merged(rows) : e.arn = f.arn => e = f
<1> DEFINE Own(a)   == {r \in rows : ArnOf[r] = a}
           EntryOf(a) == [page     |-> token,
                          arn      |-> a,
                          rows     |-> Own(a),
                          status   |-> table[Latest(Own(a))].status,
                          updated  |-> table[Latest(Own(a))].updated,
                          accounts |-> AccountsOf(Own(a))]
<1>1. Merged(rows) = {EntryOf(a) : a \in {ArnOf[r] : r \in rows}}
  BY DEF Merged
<1>2. \A a : /\ EntryOf(a).arn = a /\ EntryOf(a).rows = Own(a)
             /\ EntryOf(a).status = table[Latest(Own(a))].status
             /\ EntryOf(a).updated = table[Latest(Own(a))].updated
             /\ EntryOf(a).accounts = AccountsOf(Own(a))
  OBVIOUS
<1> HIDE DEF EntryOf
<1>3. ASSUME NEW e \in Merged(rows)
      PROVE  /\ e = EntryOf(e.arn)
             /\ Fits(e) /\ e.rows = Own(e.arn) /\ e.accounts = AccountsOf(e.rows)
  <2>1. PICK r \in rows : e = EntryOf(ArnOf[r])
    BY <1>1
  <2>2. e.arn = ArnOf[r] /\ e.rows = Own(ArnOf[r]) /\ r \in Own(ArnOf[r])
    BY <1>2, <2>1
  <2> QED BY <1>2, <2>1, <2>2 DEF Fits
<1>4. \A r \in rows : \E e \in Merged(rows) : e.arn = ArnOf[r]
  BY <1>1, <1>2
<1> QED BY <1>3, <1>4

\* A page of a quiet walk.
LEMMA PageAddsUp ==
    ASSUME TypeOK, WalkInv, QuietInv, quiet, pc = "listing",
           NEW page \in SUBSET Indexed(category, table, edge),
           \A r \in page : token < r, Respond(page)
    PROVE  /\ \A e \in entries' : Fits(e)'
           /\ \A a : /\ IsFiniteSet(Pairs(PartsOf(a)))'
                     /\ (Total(PartsOf(a)) = AccountsOf(ShownOf(a)))'
<1> DEFINE shown == Filtered(query, page, table)
<1>1. Stored(shown) /\ Stored(Shown) /\ Shown \cap shown = {} /\ Shown' = Shown \cup shown
  <2>1. Stored(Indexed(category, table, edge))
    BY IndexedStored
  <2>2. Stored(page)
    BY <2>1 DEF Stored
  <2>3. shown \subseteq page /\ Stored(shown)
    BY <2>2, IndexedStored DEF Filtered
  <2>4. Shown \subseteq Matching(query, table, 0)
    BY DEF WalkInv, QuietInv
  <2>5. Stored(Matching(query, table, 0))
    BY MatchingStored
  <2>6. \A r \in Shown : r \in Nat /\ r <= token
    BY <2>4, <2>5, RowAssumption DEF WalkInv, Stored
  <2>7. Shown' = Shown \cup shown
    BY PageShown
  <2>8. \A r \in Shown : r \notin page
    BY <2>6 DEF WalkInv
  <2> HIDE DEF shown
  <2> QED BY <2>3, <2>4, <2>5, <2>7, <2>8 DEF Stored
<1>2. entries' = entries \cup Merged(shown) /\ UNCHANGED table
  BY DEF Respond, store
<1> HIDE DEF shown
<1>3. /\ \A e \in Merged(shown) :
            /\ Fits(e) /\ e.rows = {r \in shown : ArnOf[r] = e.arn}
            /\ e.accounts = AccountsOf(e.rows)
      /\ \A r \in shown : \E e \in Merged(shown) : e.arn = ArnOf[r]
      /\ \A e, f \in Merged(shown) : e.arn = f.arn => e = f
  BY MergedEntries
<1>4. \A e : Fits(e)' = Fits(e)
  BY <1>2 DEF Fits, Latest
<1>5. \A rows : AccountsOf(rows)' = AccountsOf(rows)
  BY <1>2 DEF AccountsOf
<1>6. ASSUME NEW a
      PROVE  /\ IsFiniteSet(Pairs(PartsOf(a)'))
             /\ Total(PartsOf(a)') = AccountsOf(ShownOf(a)')
  <2>1. IsFiniteSet(Pairs(PartsOf(a))) /\ Total(PartsOf(a)) = AccountsOf(ShownOf(a))
    BY DEF QuietInv
  <2> DEFINE own == {r \in shown : ArnOf[r] = a}
  <2>2. ShownOf(a)' = ShownOf(a) \cup own /\ ShownOf(a) \cap own = {}
        /\ Stored(ShownOf(a)) /\ Stored(own)
    BY <1>1 DEF ShownOf, Stored
  <2>3. CASE own = {}
    <3>1. PartsOf(a)' = PartsOf(a)
      BY <1>2, <1>3, <2>3 DEF PartsOf, Fits
    <3> QED BY <2>1, <2>2, <2>3, <3>1
  <2>4. CASE own # {}
    <3>1. PICK e \in Merged(shown) : e.arn = a
      BY <1>3, <2>4
    <3>2. e.rows = own /\ e.accounts = AccountsOf(own)
      BY <1>3, <3>1
    <3>3. PartsOf(a)' = PartsOf(a) \cup {e}
      BY <1>2, <1>3, <3>1 DEF PartsOf
    <3>4. e \notin PartsOf(a)
      <4>1. PICK r \in own : r \in shown
        BY <2>4
      <4> HIDE DEF own
      <4> QED BY <1>1, <3>2, <4>1 DEF PartsOf, Shown
    <3> HIDE DEF own
    <3>5. e.accounts \in Nat
      BY <2>2, <3>2, CountsAreNumbers
    <3>6. AccountsOf(ShownOf(a) \cup own) = AccountsOf(ShownOf(a)) + AccountsOf(own)
      BY <2>2, AccountsOfMore
    <3>7. /\ IsFiniteSet(Pairs(PartsOf(a) \cup {e}))
          /\ Total(PartsOf(a) \cup {e}) = Total(PartsOf(a)) + e.accounts
      BY <2>1, <3>4, <3>5, TotalOfMore
    <3> QED BY <2>1, <2>2, <3>2, <3>3, <3>6, <3>7
  <2> QED BY <2>3, <2>4
<1>7. \A e \in entries' : Fits(e)
  BY <1>2, <1>3 DEF QuietInv
<1>8. \A a : /\ IsFiniteSet(Pairs(PartsOf(a)))'
             /\ Total(PartsOf(a))' = AccountsOf(ShownOf(a))'
  <2>1. \A a : /\ Pairs(PartsOf(a))' = Pairs(PartsOf(a)')
               /\ Total(PartsOf(a))' = Total(PartsOf(a)')
               /\ AccountsOf(ShownOf(a))' = AccountsOf(ShownOf(a)')
    BY <1>2 DEF Pairs, Total, AccountsOf
  <2> QED BY <1>6, <2>1
<1> QED BY <1>4, <1>7, <1>8

LEMMA QuietInvNext == TypeOK /\ WalkInv /\ QuietInv /\ [Next]_vars => QuietInv'
<1> SUFFICES ASSUME TypeOK, WalkInv, QuietInv, [Next]_vars PROVE QuietInv'
  OBVIOUS
<1>1. CASE ChangeTable
  BY <1>1 DEF ChangeTable, QuietInv
<1>2. ASSUME NEW q \in Queries, Ask(q) \/ AskSummary(q)
      PROVE  QuietInv'
  <2>1. Begin(q) /\ UNCHANGED table
    BY <1>2 DEF Ask, AskSummary, store
  <2>2. entries' = {} /\ ever' \subseteq Matching(query, table, 0)'
    <3>1. edge \in Nat /\ 0 <= edge
      BY DEF TypeOK
    <3>2. Matching(q, table, edge) \subseteq Matching(q, table, 0)
      BY <3>1, WindowShrinks
    <3>3. Matching(query, table, 0)' = Matching(q, table, 0)
      BY <2>1 DEF Begin, Matching, Filtered
    <3> QED BY <2>1, <3>2, <3>3 DEF Begin
  <2>3. \A a : PartsOf(a)' = {} /\ ShownOf(a)' = {}
    BY <2>2 DEF PartsOf, ShownOf, Shown
  <2>4. \A a : Pairs(PartsOf(a))' = {} /\ Total(PartsOf(a))' = Cardinality({})
               /\ AccountsOf(ShownOf(a))' = Cardinality({})
    BY <2>3 DEF Pairs, Total, AccountsOf
  <2> QED BY <2>2, <2>4, FS_EmptySet DEF QuietInv
<1>3. CASE ListEvents \/ ListLastEvents
  <2>1. PICK page \in SUBSET Indexed(category, table, edge) :
            /\ pc = "listing" /\ Respond(page) /\ \A r \in page : token < r
    <3>1. CASE ListEvents
      <4>1. PICK next \in Beyond(Windowed(edge), token) :
                Respond(Between(Indexed(category, table, edge), token, next))
        BY <3>1 DEF ListEvents
      <4> QED BY <3>1, <4>1 DEF ListEvents, Between
    <3>2. CASE ListLastEvents
      BY <3>2 DEF ListLastEvents, Beyond
    <3> QED BY <1>3, <3>1, <3>2
  <2>2. UNCHANGED <<quiet, ever>> /\ Matching(query, table, 0)' = Matching(query, table, 0)
    BY <2>1 DEF Respond, store, Matching, Filtered
  <2>3. CASE quiet
    BY <2>1, <2>2, <2>3, PageAddsUp DEF QuietInv
  <2>4. CASE ~quiet
    BY <2>2, <2>4 DEF QuietInv
  <2> QED BY <2>3, <2>4
<1>4. ASSUME UNCHANGED <<table, query, quiet, ever>>,
             \/ UNCHANGED <<pc, entries>>
             \/ pc' \notin {"listing", "listed"}
      PROVE  QuietInv'
  <2>1. Matching(query, table, 0)' = Matching(query, table, 0)
    BY <1>4 DEF Matching, Filtered
  <2>2. CASE pc' \notin {"listing", "listed"}
    BY <1>4, <2>1, <2>2 DEF QuietInv
  <2>3. CASE UNCHANGED <<pc, entries>>
    <3>1. \A e : Fits(e)' = Fits(e)
      BY <1>4 DEF Fits, Latest
    <3>2. \A a : /\ Pairs(PartsOf(a))' = Pairs(PartsOf(a))
                 /\ Total(PartsOf(a))' = Total(PartsOf(a))
                 /\ AccountsOf(ShownOf(a))' = AccountsOf(ShownOf(a))
      BY <1>4, <2>3 DEF Pairs, PartsOf, Total, AccountsOf, ShownOf, Shown
    <3> QED BY <1>4, <2>1, <2>3, <3>1, <3>2 DEF QuietInv
  <2> QED BY <1>4, <2>2, <2>3
<1>5. CASE ListFails \/ SummaryFails \/ WindowMoves \/ Leave
  BY <1>4, <1>5 DEF ListFails, SummaryFails, WindowMoves, Leave, store
<1>6. CASE SummaryPage \/ SummaryNextCategory \/ GetSummary
  BY <1>4, <1>6 DEF SummaryPage, SummaryNextCategory, GetSummary, store
<1>7. ASSUME NEW a, GetEventDetails(a, query.org)
      PROVE  QuietInv'
  BY <1>4, <1>7 DEF GetEventDetails, store
<1>8. CASE UNCHANGED vars
  BY <1>4, <1>8 DEF vars, store
<1> QED BY <1>1, <1>2, <1>3, <1>5, <1>6, <1>7, <1>8 DEF Next, Read

LEMMA QuietInvariant == Spec => [](TypeOK /\ WalkInv /\ QuietInv)
<1>1. Init => WalkInv /\ QuietInv
  BY WalkInvInit DEF Init, QuietInv
<1> QED BY <1>1, ApiTypeCorrect, WalkInvNext, QuietInvNext, PTL DEF Spec

\* When no row changed or left the window during a walk, the entries of an arn, put
\* together, count the accounts of its matching rows, and the one updated last has the
\* status of the row updated last, wherever the pages cut the rows of the arn apart.
THEOREM EntriesOfAnArnAddUp == Spec => []EntriesAddUp
<1>1. TypeOK /\ WalkInv /\ QuietInv => EntriesAddUp
  <2> SUFFICES ASSUME TypeOK, WalkInv, QuietInv, pc = "listed", quiet,
                      steady = ever, NEW a \in {ArnOf[r] : r \in steady}
               PROVE  LET own   == {r \in steady : ArnOf[r] = a}
                          parts == {e \in entries : e.arn = a}
                      IN  /\ Total(parts) = AccountsOf(own)
                          /\ \E e \in parts : /\ e.status = table[Latest(own)].status
                                              /\ \A f \in parts : f.updated <= e.updated
    BY DEF EntriesAddUp
  <2> DEFINE own == {r \in steady : ArnOf[r] = a}
  <2>1. Shown = steady /\ own = ShownOf(a) /\ own # {}
    BY DEF WalkInv, QuietInv, ShownOf
  <2>2. Total(PartsOf(a)) = AccountsOf(own)
    BY <2>1 DEF QuietInv
  <2>3. Stored(own)
    <3>1. own \subseteq Matching(query, table, 0)
      BY DEF QuietInv
    <3> QED BY <3>1, MatchingStored DEF Stored
  <2> HIDE DEF own
  <2>4. Latest(own) \in own /\ \A s \in own : Later(Latest(own), s)
    BY <2>1, <2>3, LatestExists
  <2>5. ASSUME NEW e \in PartsOf(a)
        PROVE  /\ e.rows \subseteq own /\ Latest(e.rows) \in e.rows
               /\ \A s \in e.rows : Later(Latest(e.rows), s)
               /\ Fits(e)
    <3>1. Fits(e) /\ e.arn = a /\ e.rows \subseteq Shown
      BY DEF PartsOf, QuietInv, Shown
    <3>2. e.rows \subseteq own /\ e.rows # {}
      BY <2>1, <3>1 DEF Fits, ShownOf
    <3>3. Stored(e.rows)
      BY <2>3, <3>2 DEF Stored
    <3> QED BY <3>1, <3>2, <3>3, LatestExists
  <2>6. PICK e \in PartsOf(a) : Latest(own) \in e.rows
    <3>1. PICK e \in entries : Latest(own) \in e.rows
      BY <2>1, <2>4 DEF ShownOf, Shown
    <3>2. e.arn = a
      BY <2>1, <2>4, <3>1 DEF QuietInv, Fits, ShownOf
    <3> QED BY <3>1, <3>2 DEF PartsOf
  <2>7. \A r \in own : r \in Nat /\ table[r].updated \in Nat
    BY <2>3, RowAssumption, ItemAssumption DEF Stored
  <2>8. Latest(e.rows) = Latest(own)
    <3>1. Latest(e.rows) \in own /\ Later(Latest(own), Latest(e.rows))
          /\ Later(Latest(e.rows), Latest(own))
      BY <2>4, <2>5, <2>6
    <3> QED BY <2>4, <2>7, <3>1 DEF Later
  <2>9. ASSUME NEW f \in PartsOf(a) PROVE f.updated <= e.updated
    <3>1. Latest(f.rows) \in own /\ Later(Latest(own), Latest(f.rows))
      BY <2>4, <2>5
    <3>2. /\ f.updated = table[Latest(f.rows)].updated
          /\ e.updated = table[Latest(own)].updated
      BY <2>5, <2>8 DEF Fits
    <3> QED BY <2>4, <2>7, <3>1, <3>2 DEF Later
  <2>10. e.status = table[Latest(own)].status
    BY <2>5, <2>8 DEF Fits
  <2> QED BY <2>2, <2>9, <2>10 DEF PartsOf, own
<1> QED BY <1>1, QuietInvariant, PTL

\* Whatever arn the list shows, its details are found, also when it left the window since,
\* as long as the table did not change and fits in one response of the scan.
THEOREM ListedAreFound == Spec => ListedEventsAreFound
<1> DEFINE Step ==
      \A a \in {e.arn : e \in entries} :
          (GetEventDetails(a, query.org) /\ quiet /\ Cardinality(Present) <= ScanPage)
              => answer' = 200
<1>1. TypeOK /\ WalkInv /\ QuietInv /\ [Next]_vars => [Step]_vars
  <2> SUFFICES ASSUME TypeOK, WalkInv, QuietInv, NEW e \in entries,
                      GetEventDetails(e.arn, query.org), quiet,
                      Cardinality(Present) <= ScanPage
               PROVE  answer' = 200
    OBVIOUS
  <2>1. PICK scanned \in SUBSET Present :
            /\ scanned = Present \/ Cardinality(scanned) = ScanPage
            /\ answer' = IF Found(e.arn, query.org, scanned) = {} THEN 404 ELSE 200
    BY DEF GetEventDetails
  <2>2. scanned = Present
    <3>1. IsFiniteSet(Present)
      BY FS_Subset, RowAssumption DEF Present
    <3>2. /\ Cardinality(scanned) <= Cardinality(Present)
          /\ Cardinality(scanned) = Cardinality(Present) => scanned = Present
          /\ Cardinality(scanned) \in Nat /\ Cardinality(Present) \in Nat
      BY <3>1, FS_Subset, FS_CardinalityType
    <3> QED BY <2>1, <3>2, RowAssumption
  <2>3. PICK r \in e.rows : ArnOf[r] = e.arn
    BY DEF GetEventDetails, QuietInv, Fits
  <2>4. r \in Matching(query, table, 0)
    BY <2>3 DEF GetEventDetails, QuietInv, WalkInv, Shown
  <2>5. r \in Present /\ query.org \in {All, OrgOf[r]}
    BY <2>4 DEF Matching, Filtered, Present, Windowed, Beyond
  <2> QED BY <2>1, <2>2, <2>3, <2>5 DEF Found
<1> HIDE DEF Step
<1>2. ListedEventsAreFound <=> [][Step]_vars
  BY DEF ListedEventsAreFound, Step
<1> QED BY <1>1, <1>2, QuietInvariant, PTL DEF Spec
=============================================================================
