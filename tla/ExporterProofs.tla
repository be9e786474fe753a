---------------------------- MODULE ExporterProofs ----------------------------
(***************************************************************************)
(* Theorems about Exporter, for any rows, invocations and failures.        *)
(***************************************************************************)
EXTENDS Exporter, FiniteSetTheorems, FunctionTheorems, SequenceTheorems, TLAPS

-----------------------------------------------------------------------------
(* The data frame *)

\* With one row per event and organisation drop_duplicates drops nothing, so the
\* frame and the scan agree on the open events.
LEMMA FrameIsScan ==
    ASSUME OneRowEach, NEW s
    PROVE  CurrentOpenArns(s) = OpenInFrame(s)
<1>1. ASSUME NEW q \in Row, NEW r \in Row, Earlier(q, r)
      PROVE  q # r
  BY <1>1, ScanAssumption DEF Earlier
<1>2. {q \in EventRows(s) : s[q] = "open"} = {q \in Row : s[q] = "open"}
  BY <1>1 DEF EventRows, OneRowEach
<1> QED
  BY <1>2 DEF CurrentOpenArns, OpenInFrame

\* What the frame holds open is either in the new rows or was known before.
LEMMA NewOrKnown ==
    ASSUME NEW s, NEW p
    PROVE  OpenInFrame(s) \subseteq p \cup {ArnOf[r] : r \in NewRows(s, p)}
<1> SUFFICES ASSUME NEW a \in OpenInFrame(s), a \notin p
             PROVE  \E r \in NewRows(s, p) : a = ArnOf[r]
  OBVIOUS
<1>1. PICK r \in EventRows(s) : a = ArnOf[r] /\ s[r] = "open"
  BY DEF OpenInFrame
<1> QED
  BY <1>1 DEF NewRows

-----------------------------------------------------------------------------
(* Every event remembered as open has been reported *)

\* An invocation between its upload and its save of the state has reported the
\* open events of its scan, and what it loaded had been reported before.
Reported(w) ==
    /\ prev[w] \subseteq reported.new_open
    /\ pc[w] = "saveState" => CurrentOpenArns(items[w]) \subseteq reported.new_open

Shape ==
    /\ table \in [Row -> Status]
    /\ pc \in [Worker -> PC]
    /\ items \in [Worker -> [Row -> Status]]
    /\ prev \in [Worker -> SUBSET Arn]
    /\ openArns \subseteq Arn

ReportInv ==
    /\ Shape
    /\ OpenIsReported
    /\ \A w \in Worker : Reported(w)

LEMMA ReportInit == Init => ReportInv
BY DEF Init, ReportInv, Shape, OpenIsReported, Reported, CurrentOpenArns, Nothing, PC, Status

\* The end of an invocation leaves nothing of it to account for.
LEMMA StopKeeps ==
    ASSUME ReportInv, NEW w \in Worker, Stop(w), openArns' = openArns, Shape',
           reported.new_open \subseteq reported'.new_open
    PROVE  ReportInv'
<1>1. OpenIsReported'
  BY DEF ReportInv, OpenIsReported
<1>2. ASSUME NEW v \in Worker PROVE Reported(v)'
  <2>1. CASE v = w
    BY <2>1 DEF Stop, Goto, ReportInv, Shape, Reported
  <2>2. CASE v # w
    <3>1. prev'[v] = prev[v] /\ pc'[v] = pc[v] /\ items'[v] = items[v]
      BY <2>2 DEF Stop, Goto, ReportInv, Shape
    <3> QED
      BY <3>1 DEF ReportInv, Reported, CurrentOpenArns
  <2> QED
    BY <2>1, <2>2
<1> QED
  BY <1>1, <1>2 DEF ReportInv

\* A step to a point other than saveState, within the invocation.
LEMMA MoveKeeps ==
    ASSUME ReportInv, NEW w \in Worker, Shape',
           openArns' = openArns, reported' = reported,
           \A v \in Worker \ {w} :
              prev'[v] = prev[v] /\ pc'[v] = pc[v] /\ items'[v] = items[v],
           prev'[w] \in {prev[w], openArns},
           pc'[w] # "saveState"
    PROVE  ReportInv'
<1>1. OpenIsReported'
  BY DEF ReportInv, OpenIsReported
<1>2. ASSUME NEW v \in Worker PROVE Reported(v)'
  <2>1. CASE v = w
    BY <2>1 DEF ReportInv, Reported, OpenIsReported
  <2>2. CASE v # w
    BY <2>2 DEF ReportInv, Reported, CurrentOpenArns
  <2> QED
    BY <2>1, <2>2
<1> QED
  BY <1>1, <1>2 DEF ReportInv

LEMMA ShapeStep == ASSUME Shape, Next PROVE Shape'
<1>1. CASE \E r \in Row : Collect(r) \/ Vanish(r)
  BY <1>1 DEF Collect, Vanish, Shape, Status
<1>2. ASSUME NEW w \in Worker, Stop(w), openArns' \subseteq Arn PROVE Shape'
  BY <1>2 DEF Stop, Goto, Shape, Nothing, Status, PC
<1>3. ASSUME NEW w \in Worker, Start(w) \/ Export(w) \/ Crash(w) PROVE Shape'
  <2>1. CASE Start(w)
    BY <2>1 DEF Start, Goto, Shape, PC
  <2>2. CASE ScanPage(w)
    <3>1. CASE next[w] \in DOMAIN ScanOrder
      <4>1. PICK r \in Row : r = ScanOrder[next[w]]
        BY <3>1, ScanAssumption
      <4>2. [items[w] EXCEPT ![r] = table[r]] \in [Row -> Status]
        BY <4>1 DEF Shape
      <4>3. items' = [items EXCEPT ![w] = [items[w] EXCEPT ![r] = table[r]]]
        BY <2>2, <3>1, <4>1 DEF ScanPage, Shape
      <4>4. UNCHANGED <<table, pc, prev, openArns>>
        BY <2>2, <3>1 DEF ScanPage
      <4> QED
        BY <4>2, <4>3, <4>4 DEF Shape
    <3>2. CASE next[w] \notin DOMAIN ScanOrder
      BY <2>2, <3>2 DEF ScanPage, Goto, Shape, PC
    <3> QED
      BY <3>1, <3>2
  <2>3. CASE LoadState(w) \/ LoadStateFails(w) \/ LoadLog(w) \/ LoadLogFails(w) \/ Upload(w)
    BY <2>3 DEF LoadState, LoadStateFails, LoadLog, LoadLogFails, Upload, Goto, Shape, PC
  <2>4. CASE SaveState(w)
    BY <2>4, RowAssumption DEF SaveState, Goto, Shape, PC, CurrentOpenArns
  <2>5. CASE SaveStateFails(w)
    BY <2>5 DEF SaveStateFails, Goto, Shape, PC
  <2>6. CASE ScanFails(w) \/ UploadFails(w) \/ SaveLog(w) \/ SaveLogFails(w) \/ Crash(w)
    <3>1. Stop(w) /\ openArns' = openArns
      BY <2>6 DEF ScanFails, UploadFails, SaveLog, SaveLogFails, Crash
    <3> QED
      BY <1>2, <3>1 DEF Shape
  <2> QED
    BY <1>3, <2>1, <2>2, <2>3, <2>4, <2>5, <2>6 DEF Export
<1> QED
  BY <1>1, <1>3 DEF Next

LEMMA ReportStep == ASSUME OneRowEach, ReportInv, Next PROVE ReportInv'
<1>1. Shape'
  BY ShapeStep DEF ReportInv
<1>2. CASE \E r \in Row : Collect(r) \/ Vanish(r)
  BY <1>1, <1>2 DEF Collect, Vanish, ReportInv, OpenIsReported, Reported, CurrentOpenArns
<1>3. ASSUME NEW w \in Worker, Start(w) \/ Export(w) \/ Crash(w) PROVE ReportInv'
  <2>1. CASE Start(w) \/ ScanPage(w)
    <3>1. /\ openArns' = openArns /\ reported' = reported /\ prev' = prev
          /\ \A v \in Worker \ {w} : pc'[v] = pc[v] /\ items'[v] = items[v]
          /\ pc'[w] # "saveState"
      BY <2>1 DEF Start, ScanPage, Goto, ReportInv, Shape
    <3> QED
      BY <1>1, <3>1, MoveKeeps
  <2>2. CASE LoadState(w) \/ LoadStateFails(w) \/ LoadLog(w) \/ LoadLogFails(w) \/ SaveStateFails(w)
    <3>1. /\ openArns' = openArns /\ reported' = reported /\ items' = items
          /\ \A v \in Worker \ {w} : pc'[v] = pc[v] /\ prev'[v] = prev[v]
          /\ prev'[w] \in {prev[w], openArns}
          /\ pc'[w] # "saveState"
      BY <2>2 DEF LoadState, LoadStateFails, LoadLog, LoadLogFails, SaveStateFails, Goto,
                  ReportInv, Shape
    <3> QED
      BY <1>1, <3>1, MoveKeeps
  \* What the scan found open was known or is new, and the new is now reported.
  <2>3. CASE Upload(w)
    <3>1. /\ reported'.new_open = reported.new_open
                 \cup {ArnOf[r] : r \in NewRows(items[w], prev[w])}
          /\ UNCHANGED <<openArns, items, prev>>
          /\ \A v \in Worker \ {w} : pc'[v] = pc[v]
      BY <2>3 DEF Upload, Report, Goto, ReportInv, Shape
    <3>2. CurrentOpenArns(items[w]) \subseteq reported'.new_open
      BY <3>1, FrameIsScan, NewOrKnown DEF ReportInv, Reported
    <3>3. ASSUME NEW v \in Worker PROVE Reported(v)'
      <4>1. CASE v = w
        BY <3>1, <3>2, <4>1 DEF ReportInv, Reported, CurrentOpenArns
      <4>2. CASE v # w
        BY <3>1, <4>2 DEF ReportInv, Reported, CurrentOpenArns
      <4> QED
        BY <4>1, <4>2
    <3> QED
      BY <1>1, <3>1, <3>3 DEF ReportInv, OpenIsReported
  \* Only what was reported is remembered.
  <2>4. CASE SaveState(w)
    <3>1. /\ UNCHANGED <<reported, items, prev>>
          /\ \A v \in Worker : pc'[v] = "saveState" => pc[v] = "saveState"
      BY <2>4 DEF SaveState, Goto, ReportInv, Shape
    <3>2. OpenIsReported'
      BY <2>4 DEF SaveState, ReportInv, Reported, OpenIsReported
    <3> QED
      BY <1>1, <3>1, <3>2 DEF ReportInv, Reported, CurrentOpenArns
  <2>5. CASE ScanFails(w) \/ UploadFails(w) \/ SaveLog(w) \/ SaveLogFails(w) \/ Crash(w)
    <3>1. /\ Stop(w) /\ openArns' = openArns
          /\ reported.new_open \subseteq reported'.new_open
      BY <2>5 DEF ScanFails, UploadFails, SaveLog, SaveLogFails, Crash, Report
    <3> QED
      BY <1>1, <3>1, StopKeeps
  <2> QED
    BY <1>3, <2>1, <2>2, <2>3, <2>4, <2>5 DEF Export
<1> QED
  BY <1>2, <1>3 DEF Next

\* As long as the events table holds one row per event and organisation, an export
\* never makes the next one pass over an open event that no workbook listed.
THEOREM OpenReported == ASSUME OneRowEach PROVE Spec => []OpenIsReported
<1>1. Init => ReportInv
  BY ReportInit
<1>2. ReportInv /\ [Next]_vars => ReportInv'
  <2>1. ASSUME ReportInv, Next PROVE ReportInv'
    BY <2>1, ReportStep
  <2>2. ASSUME ReportInv, UNCHANGED vars PROVE ReportInv'
    BY <2>2 DEF vars, ReportInv, Shape, OpenIsReported, Reported, CurrentOpenArns
  <2> QED
    BY <2>1, <2>2
<1>3. ReportInv => OpenIsReported
  BY DEF ReportInv
<1> QED
  BY <1>1, <1>2, <1>3, PTL DEF Spec

-----------------------------------------------------------------------------
(* The order of the scan *)

LEMMA ScanOrderFacts ==
    /\ Len(ScanOrder) \in Nat /\ DOMAIN ScanOrder = 1..Len(ScanOrder)
    /\ \A i \in 1..Len(ScanOrder) : ScanOrder[i] \in Row
    /\ \A r \in Row : \E i \in 1..Len(ScanOrder) : ScanOrder[i] = r
  BY ScanAssumption

LEMMA LeastExists ==
    ASSUME NEW T \in SUBSET Nat, T # {}
    PROVE  \E m \in T : \A k \in T : m <= k
<1> DEFINE less == {p \in Nat \X Nat : p[1] < p[2]}
<1>1. IsWellFoundedOn(less, Nat)
  <2>1. less = OpToRel(<, Nat)
    BY DEF OpToRel
  <2> QED BY <2>1, NatLessThanWellFounded
<1>2. \E m \in T : \A k \in T : <<k, m>> \notin less
  <2> HIDE DEF less
  <2> QED BY <1>1, WFMin
<1>3. PICK m \in T : \A k \in T : <<k, m>> \notin less
  BY <1>2
<1>4. ASSUME NEW k \in T PROVE m <= k
  <2>1. m \in Nat /\ k \in Nat /\ <<k, m>> \notin less
    BY <1>3
  <2> QED BY <2>1
<1> QED BY <1>4

\* The rows among the first m of the scan.
Among(rows, m) == {r \in rows : \E i \in 1..m : ScanOrder[i] = r}

Lists(listed, n, rows) ==
    /\ listed \in [1..n -> rows]
    /\ \A r \in rows : \E i \in 1..n : listed[i] = r
    /\ \A i, j \in 1..n : i < j => Earlier(listed[i], listed[j])

CanList(rows) == \E n \in Nat : \E listed : Lists(listed, n, rows)

LEMMA EmptyIsListed == CanList({})
<1> DEFINE listed == [i \in 1..0 |-> i]
<1>1. Lists(listed, 0, {})
  BY DEF Lists
<1> QED BY <1>1 DEF CanList

\* The next row of the scan goes to the end of the list.
LEMMA OneMoreIsListed ==
    ASSUME NEW rows \in SUBSET Row, NEW m \in Nat, m + 1 \in 1..Len(ScanOrder),
           CanList(Among(rows, m))
    PROVE  CanList(Among(rows, m + 1))
<1> DEFINE r == ScanOrder[m + 1]
<1>1. Among(rows, m + 1) = Among(rows, m) \cup (IF r \in rows THEN {r} ELSE {})
  BY DEF Among
<1>2. CASE r \notin rows
  BY <1>1, <1>2
<1>3. CASE r \in rows
  <2>1. PICK n \in Nat : \E listed : Lists(listed, n, Among(rows, m))
    BY DEF CanList
  <2>2. PICK listed : Lists(listed, n, Among(rows, m))
    BY <2>1
  <2> DEFINE more == [i \in 1..(n + 1) |-> IF i = n + 1 THEN r ELSE listed[i]]
  <2>3. more \in [1..(n + 1) -> Among(rows, m + 1)]
    BY <1>1, <1>3, <2>2 DEF Lists
  <2>4. ASSUME NEW q \in Among(rows, m + 1)
        PROVE  \E i \in 1..(n + 1) : more[i] = q
    <3>1. CASE q = r
      <4>1. n + 1 \in 1..(n + 1) /\ more[n + 1] = r
        OBVIOUS
      <4> QED BY <3>1, <4>1
    <3>2. CASE q \in Among(rows, m)
      <4>1. PICK i \in 1..n : listed[i] = q
        BY <2>2, <3>2 DEF Lists
      <4>2. i \in 1..(n + 1) /\ more[i] = q
        BY <4>1
      <4> QED BY <4>2
    <3> QED BY <1>1, <1>3, <2>4, <3>1, <3>2
  <2>5. ASSUME NEW q \in Among(rows, m)
        PROVE  Earlier(q, r)
    <3>1. PICK i \in 1..m : ScanOrder[i] = q
      BY <2>5 DEF Among
    <3>2. i \in DOMAIN ScanOrder /\ m + 1 \in DOMAIN ScanOrder /\ i < m + 1
      BY ScanOrderFacts
    <3> QED BY <3>1, <3>2 DEF Earlier
  <2>6. ASSUME NEW i \in 1..(n + 1), NEW j \in 1..(n + 1), i < j
        PROVE  Earlier(more[i], more[j])
    <3>1. i \in 1..n /\ more[i] = listed[i] /\ listed[i] \in Among(rows, m)
      BY <2>2, <2>6 DEF Lists
    <3>2. CASE j = n + 1
      BY <2>5, <3>1, <3>2
    <3>3. CASE j # n + 1
      <4>1. j \in 1..n /\ more[j] = listed[j]
        BY <3>3
      <4> QED BY <2>2, <2>6, <3>1, <4>1 DEF Lists
    <3> QED BY <3>2, <3>3
  <2> HIDE DEF more, r
  <2>7. Lists(more, n + 1, Among(rows, m + 1))
    BY <2>3, <2>4, <2>6 DEF Lists
  <2> QED BY <2>7 DEF CanList
<1> QED BY <1>2, <1>3

LEMMA AllIsListed ==
    ASSUME NEW rows \in SUBSET Row
    PROVE  CanList(rows)
<1> DEFINE bad == {m \in 0..Len(ScanOrder) : ~CanList(Among(rows, m))}
<1>1. bad = {}
  <2> SUFFICES ASSUME bad # {} PROVE FALSE
    OBVIOUS
  <2>1. bad \subseteq Nat
    BY ScanOrderFacts
  <2>2. PICK m \in bad : \A k \in bad : m <= k
    BY <2>1, LeastExists
  <2>3. m \in Nat /\ m <= Len(ScanOrder) /\ ~CanList(Among(rows, m))
    BY ScanOrderFacts
  <2>4. CASE m = 0
    <3>1. Among(rows, 0) = {}
      BY DEF Among
    <3> QED BY <2>3, <2>4, <3>1, EmptyIsListed
  <2>5. CASE m # 0
    <3>1. m - 1 \in Nat /\ m - 1 \in 0..Len(ScanOrder) /\ ~(m <= m - 1)
          /\ (m - 1) + 1 = m /\ m \in 1..Len(ScanOrder)
      BY <2>3, <2>5, ScanOrderFacts
    <3>2. CanList(Among(rows, m - 1))
      BY <2>2, <3>1
    <3>3. CanList(Among(rows, (m - 1) + 1))
      BY <3>1, <3>2, OneMoreIsListed
    <3> QED BY <2>3, <3>1, <3>3
  <2> QED BY <2>4, <2>5
<1>2. Among(rows, Len(ScanOrder)) = rows
  BY ScanOrderFacts DEF Among
<1>3. Len(ScanOrder) \in 0..Len(ScanOrder)
  BY ScanOrderFacts
<1> QED BY <1>1, <1>2, <1>3

LEMMA EarlierIsOther == ASSUME NEW q, NEW r, Earlier(q, r) PROVE q # r
  BY ScanAssumption DEF Earlier

LEMMA ListedOnce ==
    ASSUME NEW rows, NEW n \in Nat, NEW listed \in [1..n -> rows],
           \A i, j \in 1..n : i < j => Earlier(listed[i], listed[j])
    PROVE  listed \in Injection(1..n, rows)
<1>1. ASSUME NEW i \in 1..n, NEW j \in 1..n, listed[i] = listed[j] PROVE i = j
  <2>1. ~(i < j) /\ ~(j < i)
    BY <1>1, EarlierIsOther
  <2> QED BY <2>1
<1> QED BY <1>1, Fun_IsInj

\* InOrder(rows) lists the rows, each once.
LEMMA InOrderLists ==
    ASSUME NEW rows \in SUBSET Row
    PROVE  /\ Cardinality(rows) \in Nat
           /\ InOrder(rows) \in [1..Cardinality(rows) -> rows]
           /\ \A r \in rows : \E i \in 1..Cardinality(rows) : InOrder(rows)[i] = r
<1>1. PICK n \in Nat : \E listed : Lists(listed, n, rows)
  BY AllIsListed DEF CanList
<1>2. PICK listed : Lists(listed, n, rows)
  BY <1>1
<1>3. listed \in Injection(1..n, rows) /\ listed \in Surjection(1..n, rows)
  BY <1>2, ListedOnce, Fun_IsSurj DEF Lists
<1>4. IsFiniteSet(1..n) /\ Cardinality(1..n) = n
  BY FS_Interval
<1>5. IsFiniteSet(rows) /\ Cardinality(rows) = n
  BY <1>3, <1>4, FS_Surjection
<1> DEFINE it == InOrder(rows)
<1>6. it \in [1..n -> rows] /\ \A i, j \in 1..n : i < j => Earlier(it[i], it[j])
  <2>1. \E l \in [1..n -> rows] : \A i, j \in DOMAIN l : i < j => Earlier(l[i], l[j])
    BY <1>2 DEF Lists
  <2>2. it = CHOOSE l \in [1..n -> rows] : \A i, j \in DOMAIN l : i < j => Earlier(l[i], l[j])
    BY <1>5 DEF InOrder
  <2> HIDE DEF it
  <2>3. it \in [1..n -> rows] /\ \A i, j \in DOMAIN it : i < j => Earlier(it[i], it[j])
    BY <2>1, <2>2
  <2> QED BY <2>3
<1> HIDE DEF it
<1>7. it \in Injection(1..n, rows)
  BY <1>6, ListedOnce
<1>8. it \in Surjection(1..n, rows)
  BY <1>4, <1>5, <1>7, FS_Injection
<1>9. \A r \in rows : \E i \in 1..n : it[i] = r
  BY <1>8 DEF Surjection
<1> QED BY <1>5, <1>6, <1>9 DEF it

-----------------------------------------------------------------------------
(* The delta log *)

Arns(rows) == {ArnOf[r] : r \in rows}

LEMMA TaggedIs ==
    ASSUME NEW rows \in SUBSET Row, NEW type \in {"new_open", "resolved"}
    PROVE  /\ Tagged(rows, type) \in Seq(Delta)
           /\ \A i \in 1..Len(Tagged(rows, type)) :
                 /\ Tagged(rows, type)[i].row \in rows
                 /\ Tagged(rows, type)[i].type = type
           /\ \A r \in rows : \E i \in 1..Len(Tagged(rows, type)) :
                 Tagged(rows, type)[i].row = r
<1> DEFINE n == Cardinality(rows)
           listed == InOrder(rows)
           log == [i \in 1..n |-> [row |-> listed[i], type |-> type]]
<1>1. n \in Nat /\ listed \in [1..n -> rows] /\ \A r \in rows : \E i \in 1..n : listed[i] = r
  BY InOrderLists
<1>2. Tagged(rows, type) = log
  BY <1>1 DEF Tagged
<1> HIDE DEF n, listed
<1>3. log \in [1..n -> Delta]
  BY <1>1 DEF Delta
<1>4. log \in Seq(Delta) /\ Len(log) = n
  BY <1>1, <1>3
<1>5. \A i \in 1..n : log[i].row = listed[i] /\ log[i].type = type
  OBVIOUS
<1> HIDE DEF log
<1> QED BY <1>1, <1>2, <1>4, <1>5

LEMMA CappedIs ==
    ASSUME NEW log \in Seq(Delta)
    PROVE  /\ Capped(log) \in Seq(Delta) /\ Len(Capped(log)) <= MaxLog
           /\ Len(Capped(log)) < MaxLog => Capped(log) = log /\ Len(log) < MaxLog
<1>1. MaxLog \in Nat /\ Len(log) \in Nat
  BY BoundAssumption
<1>2. CASE Len(log) <= MaxLog
  BY <1>1, <1>2 DEF Capped
<1>3. CASE ~(Len(log) <= MaxLog)
  <2> DEFINE m == Len(log) - MaxLog + 1
  <2>1. m \in Int /\ Len(log) \in Int /\ \A i \in m..Len(log) : log[i] \in Delta
    BY <1>1, <1>3
  <2>2. SubSeq(log, m, Len(log)) \in Seq(Delta)
        /\ Len(SubSeq(log, m, Len(log))) = IF m <= Len(log) THEN Len(log) - m + 1 ELSE 0
    <3> HIDE DEF m
    <3> QED BY <2>1, SubSeqProperties
  <2>3. Len(SubSeq(log, m, Len(log))) = MaxLog
    BY <1>1, <1>3, <2>2
  <2>4. Capped(log) = SubSeq(log, m, Len(log))
    BY <1>1, <1>3 DEF Capped
  <2> QED BY <1>1, <2>2, <2>3, <2>4
<1> QED BY <1>2, <1>3

LEMMA FrameTypes ==
    ASSUME NEW s, NEW p
    PROVE  NewRows(s, p) \in SUBSET Row /\ ResolvedRows(s, p) \in SUBSET Row
  BY DEF NewRows, ResolvedRows, EventRows

LEMMA BuiltLogTypes ==
    ASSUME NEW s, NEW p, NEW log \in Seq(Delta)
    PROVE  /\ BuildDeltaLog(s, p, log) \in Seq(Delta)
           /\ Len(BuildDeltaLog(s, p, log)) <= MaxLog
<1> DEFINE new == Tagged(NewRows(s, p), "new_open")
           resolved == Tagged(ResolvedRows(s, p), "resolved")
<1>1. new \in Seq(Delta) /\ resolved \in Seq(Delta)
  BY FrameTypes, TaggedIs
<1> HIDE DEF new, resolved
<1>2. log \o new \o resolved \in Seq(Delta)
  BY <1>1
<1>3. BuildDeltaLog(s, p, log) = Capped(log \o new \o resolved)
  BY DEF BuildDeltaLog, new, resolved
<1> QED BY <1>2, <1>3, CappedIs

\* Some row tells that the event is open, and no later one tells otherwise.
Tells(log, i, a) == ArnOf[log[i].row] = a

OpenIn(log, a) ==
    \E i \in 1..Len(log) :
        /\ Tells(log, i, a)
        /\ \A j \in i..Len(log) : Tells(log, j, a) => log[j].type = "new_open"

LEMMA NewOpens ==
    ASSUME NEW log \in Seq(Delta), NEW rows \in SUBSET Row, NEW a
    PROVE  OpenIn(log \o Tagged(rows, "new_open"), a) <=> OpenIn(log, a) \/ a \in Arns(rows)
<1> DEFINE more == Tagged(rows, "new_open")
           all == log \o more
<1>1. /\ more \in Seq(Delta)
      /\ \A i \in 1..Len(more) : more[i].row \in rows /\ more[i].type = "new_open"
      /\ \A r \in rows : \E i \in 1..Len(more) : more[i].row = r
  BY TaggedIs
<1> HIDE DEF more
<1>2. /\ Len(log) \in Nat /\ Len(more) \in Nat /\ Len(all) = Len(log) + Len(more)
      /\ \A i \in 1..Len(log) : all[i] = log[i]
      /\ \A i \in 1..Len(more) : all[Len(log) + i] = more[i]
      /\ \A i \in (Len(log) + 1)..Len(all) : i - Len(log) \in 1..Len(more)
                                             /\ all[i] = more[i - Len(log)]
  BY <1>1
<1> HIDE DEF all
<1>3. ASSUME OpenIn(log, a) PROVE OpenIn(all, a)
  <2>1. PICK i \in 1..Len(log) :
           Tells(log, i, a) /\ \A j \in i..Len(log) : Tells(log, j, a) => log[j].type = "new_open"
    BY <1>3 DEF OpenIn
  <2>2. i \in 1..Len(all) /\ Tells(all, i, a)
    BY <1>2, <2>1 DEF Tells
  <2>3. ASSUME NEW j \in i..Len(all), Tells(all, j, a) PROVE all[j].type = "new_open"
    <3>1. CASE j <= Len(log)
      <4>1. j \in i..Len(log) /\ j \in 1..Len(log)
        BY <3>1
      <4> QED BY <1>2, <2>1, <2>3, <4>1 DEF Tells
    <3>2. CASE j > Len(log)
      <4>1. j \in (Len(log) + 1)..Len(all)
        BY <1>2, <3>2
      <4> QED BY <1>1, <1>2, <4>1
    <3> QED BY <1>2, <3>1, <3>2
  <2> QED BY <2>2, <2>3 DEF OpenIn
<1>4. ASSUME a \in Arns(rows) PROVE OpenIn(all, a)
  <2>1. PICK r \in rows : ArnOf[r] = a
    BY <1>4 DEF Arns
  <2>2. PICK i \in 1..Len(more) : more[i].row = r
    BY <1>1
  <2>3. Len(log) + i \in 1..Len(all) /\ Tells(all, Len(log) + i, a)
    BY <1>2, <2>1, <2>2 DEF Tells
  <2>4. ASSUME NEW j \in (Len(log) + i)..Len(all) PROVE all[j].type = "new_open"
    <3>1. j \in (Len(log) + 1)..Len(all)
      BY <1>2
    <3>2. j - Len(log) \in 1..Len(more) /\ all[j] = more[j - Len(log)]
      BY <1>2, <3>1
    <3> QED BY <1>1, <3>2
  <2> QED BY <2>3, <2>4 DEF OpenIn
<1>5. ASSUME OpenIn(all, a) PROVE OpenIn(log, a) \/ a \in Arns(rows)
  <2>1. PICK i \in 1..Len(all) :
           Tells(all, i, a) /\ \A j \in i..Len(all) : Tells(all, j, a) => all[j].type = "new_open"
    BY <1>5 DEF OpenIn
  <2>2. CASE i <= Len(log)
    <3>1. i \in 1..Len(log) /\ Tells(log, i, a)
      BY <1>2, <2>1, <2>2 DEF Tells
    <3>2. ASSUME NEW j \in i..Len(log), Tells(log, j, a) PROVE log[j].type = "new_open"
      <4>1. j \in i..Len(all) /\ j \in 1..Len(log)
        BY <1>2
      <4> QED BY <1>2, <2>1, <3>2, <4>1 DEF Tells
    <3> QED BY <3>1, <3>2 DEF OpenIn
  <2>3. CASE i > Len(log)
    <3>1. i \in (Len(log) + 1)..Len(all)
      BY <1>2, <2>3
    <3> QED BY <1>1, <1>2, <2>1, <3>1 DEF Tells, Arns
  <2> QED BY <1>2, <2>2, <2>3
<1> QED BY <1>3, <1>4, <1>5 DEF all, more

LEMMA ResolvedCloses ==
    ASSUME NEW log \in Seq(Delta), NEW rows \in SUBSET Row, NEW a
    PROVE  OpenIn(log \o Tagged(rows, "resolved"), a) <=> OpenIn(log, a) /\ a \notin Arns(rows)
<1> DEFINE more == Tagged(rows, "resolved")
           all == log \o more
<1>1. /\ more \in Seq(Delta)
      /\ \A i \in 1..Len(more) : more[i].row \in rows /\ more[i].type = "resolved"
      /\ \A r \in rows : \E i \in 1..Len(more) : more[i].row = r
  BY TaggedIs
<1> HIDE DEF more
<1>2. /\ Len(log) \in Nat /\ Len(more) \in Nat /\ Len(all) = Len(log) + Len(more)
      /\ \A i \in 1..Len(log) : all[i] = log[i]
      /\ \A i \in 1..Len(more) : all[Len(log) + i] = more[i]
      /\ \A i \in (Len(log) + 1)..Len(all) : i - Len(log) \in 1..Len(more)
                                             /\ all[i] = more[i - Len(log)]
  BY <1>1
<1> HIDE DEF all
<1>3. ASSUME OpenIn(log, a), a \notin Arns(rows) PROVE OpenIn(all, a)
  <2>1. PICK i \in 1..Len(log) :
           Tells(log, i, a) /\ \A j \in i..Len(log) : Tells(log, j, a) => log[j].type = "new_open"
    BY <1>3 DEF OpenIn
  <2>2. i \in 1..Len(all) /\ Tells(all, i, a)
    BY <1>2, <2>1 DEF Tells
  <2>3. ASSUME NEW j \in i..Len(all), Tells(all, j, a) PROVE all[j].type = "new_open"
    <3>1. CASE j <= Len(log)
      <4>1. j \in i..Len(log) /\ j \in 1..Len(log)
        BY <3>1
      <4> QED BY <1>2, <2>1, <2>3, <4>1 DEF Tells
    <3>2. CASE j > Len(log)
      <4>1. j \in (Len(log) + 1)..Len(all)
        BY <1>2, <3>2
      <4> QED BY <1>1, <1>2, <1>3, <2>3, <4>1 DEF Tells, Arns
    <3> QED BY <1>2, <3>1, <3>2
  <2> QED BY <2>2, <2>3 DEF OpenIn
<1>4. ASSUME OpenIn(all, a) PROVE OpenIn(log, a) /\ a \notin Arns(rows)
  <2>1. PICK i \in 1..Len(all) :
           Tells(all, i, a) /\ \A j \in i..Len(all) : Tells(all, j, a) => all[j].type = "new_open"
    BY <1>4 DEF OpenIn
  <2>2. \A j \in 1..Len(more) : ~(Len(log) + j \in i..Len(all) /\ Tells(all, Len(log) + j, a))
    BY <1>1, <1>2, <2>1
  <2>3. i \in 1..Len(log)
    <3>1. CASE i > Len(log)
      <4>1. i - Len(log) \in 1..Len(more) /\ Len(log) + (i - Len(log)) = i /\ i \in i..Len(all)
        BY <1>2, <2>1, <3>1
      <4> QED BY <2>1, <2>2, <4>1
    <3> QED BY <1>2, <3>1
  <2>4. a \notin Arns(rows)
    <3> SUFFICES ASSUME NEW r \in rows, ArnOf[r] = a PROVE FALSE
      BY DEF Arns
    <3>1. PICK j \in 1..Len(more) : more[j].row = r
      BY <1>1
    <3>2. Len(log) + j \in i..Len(all) /\ Tells(all, Len(log) + j, a)
      BY <1>2, <2>3, <3>1 DEF Tells
    <3> QED BY <2>2, <3>2
  <2>5. Tells(log, i, a)
    BY <1>2, <2>1, <2>3 DEF Tells
  <2>6. ASSUME NEW j \in i..Len(log), Tells(log, j, a) PROVE log[j].type = "new_open"
    <3>1. j \in i..Len(all) /\ j \in 1..Len(log)
      BY <1>2, <2>3
    <3> QED BY <1>2, <2>1, <2>6, <3>1 DEF Tells
  <2> QED BY <2>3, <2>4, <2>5, <2>6 DEF OpenIn
<1> QED BY <1>3, <1>4 DEF all, more

\* What an export that stays below the cap adds to the log.
LEMMA BuiltLogTells ==
    ASSUME NEW s, NEW p, NEW log \in Seq(Delta), NEW a,
           Len(BuildDeltaLog(s, p, log)) < MaxLog
    PROVE  /\ OpenIn(BuildDeltaLog(s, p, log), a)
                <=> /\ OpenIn(log, a) \/ a \in Arns(NewRows(s, p))
                    /\ a \notin Arns(ResolvedRows(s, p))
           /\ Len(log) < MaxLog
<1> DEFINE new == NewRows(s, p)
           resolved == ResolvedRows(s, p)
           first == log \o Tagged(new, "new_open")
<1>1. new \in SUBSET Row /\ resolved \in SUBSET Row
  BY FrameTypes
<1> HIDE DEF new, resolved
<1>2. Tagged(new, "new_open") \in Seq(Delta) /\ Tagged(resolved, "resolved") \in Seq(Delta)
  BY <1>1, TaggedIs
<1>3. first \in Seq(Delta) /\ Len(first) >= Len(log)
  BY <1>2
<1>4. OpenIn(first, a) <=> OpenIn(log, a) \/ a \in Arns(new)
  BY <1>1, NewOpens
<1> HIDE DEF first
<1>5. BuildDeltaLog(s, p, log) = Capped(first \o Tagged(resolved, "resolved"))
  BY DEF BuildDeltaLog, first, new, resolved
<1>6. first \o Tagged(resolved, "resolved") \in Seq(Delta)
      /\ Len(first \o Tagged(resolved, "resolved")) >= Len(first)
  BY <1>2, <1>3
<1>7. BuildDeltaLog(s, p, log) = first \o Tagged(resolved, "resolved")
      /\ Len(first \o Tagged(resolved, "resolved")) < MaxLog
  BY <1>5, <1>6, CappedIs
<1>8. OpenIn(first \o Tagged(resolved, "resolved"), a)
         <=> OpenIn(first, a) /\ a \notin Arns(resolved)
  BY <1>1, <1>3, ResolvedCloses
<1>9. Len(log) < MaxLog
  BY <1>3, <1>6, <1>7, BoundAssumption
<1> QED BY <1>4, <1>7, <1>8, <1>9 DEF new, resolved

\* The row the log tells last is the one that counts.
LEMMA LastSaidTells ==
    ASSUME deltaLog \in Seq(Delta), NEW a
    PROVE  LastSaid(a) = "new_open" <=> OpenIn(deltaLog, a)
<1>1. Said(a) = {i \in 1..Len(deltaLog) : Tells(deltaLog, i, a)} /\ Len(deltaLog) \in Nat
  BY DEF Said, Tells
<1>2. CASE Said(a) = {}
  BY <1>1, <1>2 DEF LastSaid, OpenIn
<1>3. CASE Said(a) # {}
  <2> DEFINE back == {Len(deltaLog) - i : i \in Said(a)}
             last == CHOOSE i \in Said(a) : \A j \in Said(a) : j <= i
  <2>1. back \in SUBSET Nat /\ back # {}
    BY <1>1, <1>3
  <2>2. PICK m \in back : \A k \in back : m <= k
    BY <2>1, LeastExists
  <2>3. PICK i \in Said(a) : m = Len(deltaLog) - i
    OBVIOUS
  <2>4. \A j \in Said(a) : j <= i
    <3>1. ASSUME NEW j \in Said(a) PROVE j <= i
      <4>1. Len(deltaLog) - j \in back
        OBVIOUS
      <4>2. m <= Len(deltaLog) - j
        BY <2>2, <4>1
      <4>3. i \in Nat /\ j \in Nat
        BY <1>1
      <4> QED BY <1>1, <2>3, <4>2, <4>3
    <3> QED BY <3>1
  <2>5. last \in Said(a) /\ \A j \in Said(a) : j <= last
    BY <2>4
  <2>6. LastSaid(a) = deltaLog[last].type
    BY <1>3 DEF LastSaid
  <2> HIDE DEF last, back
  <2>7. ASSUME deltaLog[last].type = "new_open" PROVE OpenIn(deltaLog, a)
    <3>1. last \in 1..Len(deltaLog) /\ Tells(deltaLog, last, a)
      BY <1>1, <2>5
    <3>2. ASSUME NEW j \in last..Len(deltaLog), Tells(deltaLog, j, a)
          PROVE  deltaLog[j].type = "new_open"
      <4>1. j \in Said(a)
        BY <1>1, <3>1, <3>2
      <4>2. j = last
        BY <2>5, <3>1, <4>1
      <4> QED BY <2>7, <4>2
    <3> QED BY <3>1, <3>2 DEF OpenIn
  <2>8. ASSUME OpenIn(deltaLog, a) PROVE deltaLog[last].type = "new_open"
    <3>1. PICK k \in 1..Len(deltaLog) : Tells(deltaLog, k, a)
             /\ \A j \in k..Len(deltaLog) : Tells(deltaLog, j, a) => deltaLog[j].type = "new_open"
      BY <2>8 DEF OpenIn
    <3>2. k <= last /\ last \in 1..Len(deltaLog) /\ Tells(deltaLog, last, a)
      BY <1>1, <2>5, <3>1
    <3> QED BY <1>1, <3>1, <3>2
  <2> QED BY <2>6, <2>7, <2>8
<1> QED BY <1>2, <1>3

-----------------------------------------------------------------------------
(* Types *)

LEMMA TypeInit == Init => TypeOK
<1> SUFFICES ASSUME Init PROVE TypeOK
  OBVIOUS
<1>1. deltaLog \in Seq(Delta) /\ Len(deltaLog) <= MaxLog
  BY BoundAssumption DEF Init
<1>2. prevLog \in [Worker -> Seq(Delta)]
  BY DEF Init
<1> QED BY <1>1, <1>2 DEF Init, TypeOK, Nothing, Status, PC

LEMMA FaultsCount == ASSUME TypeOK, NEW kind, Fails(kind) PROVE faults' \in Nat /\ faults' # 0
  BY DEF TypeOK, Fails

LEMMA ReportTypes ==
    ASSUME TypeOK, NEW w, Report(w)
    PROVE  reported' \in [new_open : SUBSET Arn, resolved : SUBSET Arn]
<1>1. NewRows(items[w], prev[w]) \subseteq Row /\ ResolvedRows(items[w], prev[w]) \subseteq Row
  BY FrameTypes
<1> QED BY <1>1, RowAssumption DEF TypeOK, Report

LEMMA StopTypes ==
    ASSUME TypeOK, NEW w \in Worker, Stop(w), Shape', faults' \in Nat,
           deltaLog' \in Seq(Delta) /\ Len(deltaLog') <= MaxLog,
           reported' \in [new_open : SUBSET Arn, resolved : SUBSET Arn]
    PROVE  TypeOK'
<1>1. next' \in [Worker -> Nat \ {0}]
  BY DEF Stop, TypeOK
<1>2. prevLog' \in [Worker -> Seq(Delta)]
  BY DEF Stop, TypeOK
<1>3. changes' \in Nat
  BY DEF Stop, TypeOK
<1> QED BY <1>1, <1>2, <1>3 DEF TypeOK, Shape

LEMMA TypeStep == ASSUME TypeOK, Next PROVE TypeOK'
<1>1. Shape'
  BY ShapeStep DEF TypeOK, Shape
<1>2. ASSUME NEW r \in Row, Collect(r) \/ Vanish(r) PROVE TypeOK'
  <2>1. changes' \in Nat /\ faults' \in Nat
    BY <1>2, FaultsCount DEF Collect, Vanish, TypeOK
  <2> QED BY <1>1, <1>2, <2>1 DEF Collect, Vanish, TypeOK, Shape
<1>3. ASSUME NEW w \in Worker, Start(w) \/ Export(w) \/ Crash(w) PROVE TypeOK'
  <2>1. CASE Start(w)
    <3>1. faults' \in Nat
      BY <2>1, FaultsCount DEF Start, TypeOK
    <3> QED BY <1>1, <2>1, <3>1 DEF Start, TypeOK, Shape
  <2>2. CASE ScanPage(w)
    <3>1. next' \in [Worker -> Nat \ {0}]
      <4>1. next \in [Worker -> Nat \ {0}]
        BY DEF TypeOK
      <4>2. next' = next \/ next' = [next EXCEPT ![w] = next[w] + 1]
        BY <2>2 DEF ScanPage
      <4>3. next[w] + 1 \in Nat \ {0}
        BY <4>1
      <4> QED BY <4>1, <4>2, <4>3
    <3> QED BY <1>1, <2>2, <3>1 DEF ScanPage, TypeOK, Shape
  <2>3. CASE \/ LoadState(w) \/ LoadStateFails(w) \/ SaveState(w)
             \/ SaveStateFails(w) \/ LoadLogFails(w)
    <3>1. faults' \in Nat
      BY <2>3, FaultsCount DEF LoadState, LoadStateFails, SaveState, SaveStateFails,
                               LoadLogFails, TypeOK
    <3> QED BY <1>1, <2>3, <3>1 DEF LoadState, LoadStateFails, SaveState, SaveStateFails,
                                     LoadLogFails, TypeOK, Shape
  <2>4. CASE LoadLog(w)
    <3>1. prevLog' \in [Worker -> Seq(Delta)]
      BY <2>4 DEF LoadLog, TypeOK
    <3> QED BY <1>1, <2>4, <3>1 DEF LoadLog, TypeOK, Shape
  <2>5. CASE Upload(w)
    BY <1>1, <2>5, ReportTypes DEF Upload, TypeOK, Shape
  <2>6. CASE SaveLog(w)
    <3>1. prevLog[w] \in Seq(Delta)
      BY DEF TypeOK
    <3>2. deltaLog' \in Seq(Delta) /\ Len(deltaLog') <= MaxLog
      BY <2>6, <3>1, BuiltLogTypes DEF SaveLog
    <3>3. Stop(w) /\ faults' \in Nat
          /\ reported' \in [new_open : SUBSET Arn, resolved : SUBSET Arn]
      BY <2>6 DEF SaveLog, TypeOK
    <3> QED BY <1>1, <3>2, <3>3, StopTypes
  <2>7. CASE SaveLogFails(w) \/ ScanFails(w) \/ Crash(w)
    <3>1. Stop(w) /\ faults' \in Nat /\ deltaLog' = deltaLog /\ reported' = reported
      BY <2>7, FaultsCount DEF SaveLogFails, ScanFails, Crash
    <3> QED BY <1>1, <3>1, StopTypes DEF TypeOK
  <2>8. CASE UploadFails(w)
    <3>1. Stop(w) /\ faults' \in Nat /\ deltaLog' = deltaLog
      BY <2>8, FaultsCount DEF UploadFails
    <3>2. reported' \in [new_open : SUBSET Arn, resolved : SUBSET Arn]
      BY <2>8, ReportTypes DEF UploadFails, TypeOK
    <3> QED BY <1>1, <3>1, <3>2, StopTypes DEF TypeOK
  <2> QED BY <1>3, <2>1, <2>2, <2>3, <2>4, <2>5, <2>6, <2>7, <2>8 DEF Export
<1> QED BY <1>2, <1>3 DEF Next

LEMMA TypeNext == TypeOK /\ [Next]_vars => TypeOK'
<1>1. ASSUME TypeOK, UNCHANGED vars PROVE TypeOK'
  BY <1>1 DEF vars, TypeOK
<1> QED BY <1>1, TypeStep

\* Every variable keeps its type; the delta log never exceeds its cap.
THEOREM ExportTypeCorrect == Spec => []TypeOK
  BY TypeInit, TypeNext, PTL DEF Spec

-----------------------------------------------------------------------------
(* The delta log and the state agree *)

\* An export has been at row r.
Read(w, r) ==
    \/ pc[w] \notin {"idle", "scan"}
    \/ \E i \in 1..Len(ScanOrder) : i < next[w] /\ ScanOrder[i] = r

\* A row of event a is there for every export to see.
Shown(a) ==
    \E r \in Row : /\ ArnOf[r] = a /\ table[r] # "absent"
                   /\ \A w \in Worker : Read(w, r) => items[w][r] # "absent"

Agrees(known) ==
    Len(deltaLog) < MaxLog => \A a \in Arn : a \in known <=> OpenIn(deltaLog, a)

RunAgrees(w) ==
    /\ \A r \in Row : items[w][r] # "absent" => table[r] # "absent"
    /\ pc[w] = "idle" => next[w] = 1
    /\ pc[w] \in {"loadLog", "upload", "saveState"} => prev[w] = openArns
    /\ pc[w] \in {"upload", "saveState", "saveLog"} => prevLog[w] = deltaLog
    /\ pc[w] = "saveLog" =>
          /\ openArns = CurrentOpenArns(items[w])
          /\ \A a \in prev[w] : \E r \in Row : ArnOf[r] = a /\ items[w][r] # "absent"
          /\ Agrees(prev[w])

LogInv ==
    faults = 0 =>
        /\ \A v, w \in Worker : pc[v] # "idle" /\ pc[w] # "idle" => v = w
        /\ \A w \in Worker : RunAgrees(w)
        /\ \A a \in openArns : Shown(a)
        /\ (\A w \in Worker : pc[w] # "saveLog") => Agrees(openArns)

LEMMA LogInit == Init => LogInv
<1> SUFFICES ASSUME Init PROVE LogInv
  OBVIOUS
<1>1. \A a : ~OpenIn(deltaLog, a)
  BY DEF Init, OpenIn
<1>2. \A w \in Worker : RunAgrees(w)
  BY DEF Init, RunAgrees, Nothing
<1> QED BY <1>1, <1>2 DEF Init, LogInv, Agrees

LEMMA FrameKeepsAll ==
    ASSUME OneRowEach, NEW s
    PROVE  EventRows(s) = {r \in Row : s[r] # "absent"}
  BY EarlierIsOther DEF EventRows, OneRowEach

\* With one row per event and organisation, and every known event in the scan, what the
\* two tables list leads from the known events to the open ones.
LEMMA DeltaLeads ==
    ASSUME OneRowEach, NEW s, NEW p,
           \A a \in p : \E r \in Row : ArnOf[r] = a /\ s[r] # "absent", NEW a
    PROVE  a \in CurrentOpenArns(s)
              <=> (a \in p \/ a \in Arns(NewRows(s, p))) /\ a \notin Arns(ResolvedRows(s, p))
<1>1. CurrentOpenArns(s) = OpenInFrame(s)
  BY FrameIsScan
<1>2. a \in Arns(NewRows(s, p)) <=> a \in OpenInFrame(s) \ p
  <2>1. a \in OpenInFrame(s) => \E r \in EventRows(s) : ArnOf[r] = a
    BY DEF OpenInFrame
  <2> QED BY <2>1 DEF Arns, NewRows
<1>3. a \in Arns(ResolvedRows(s, p)) <=> a \in p \ OpenInFrame(s)
  BY FrameKeepsAll DEF Arns, ResolvedRows
<1> QED BY <1>1, <1>2, <1>3

\* While nothing went wrong, an export that runs is the only one.
LEMMA OnlyExport ==
    ASSUME LogInv, faults = 0, NEW w \in Worker, pc[w] # "idle"
    PROVE  \A v \in Worker : v # w => pc[v] = "idle" /\ next[v] = 1
  BY DEF LogInv, RunAgrees

LEMMA IdleHasNotRead ==
    ASSUME NEW w, pc[w] = "idle", next[w] = 1, NEW r
    PROVE  ~Read(w, r)
  BY DEF Read

LEMMA LogCollects ==
    ASSUME TypeOK, LogInv, NEW r \in Row, Collect(r)
    PROVE  LogInv'
<1> SUFFICES ASSUME faults = 0 PROVE LogInv'
  BY DEF LogInv, Collect
<1>1. /\ UNCHANGED <<faults, openArns, deltaLog, pc, next, items, prev, prevLog>>
      /\ \A q \in Row : table[q] # "absent" => table'[q] # "absent"
  BY DEF Collect, TypeOK
<1>3. \A w \in Worker : RunAgrees(w)'
  <2>1. ASSUME NEW w \in Worker PROVE RunAgrees(w)'
    <3>1. RunAgrees(w)
      BY DEF LogInv
    <3>2. Agrees(prev[w]) => Agrees(prev[w])'
      BY <1>1 DEF Agrees, OpenIn, Tells
    <3> QED BY <1>1, <3>1, <3>2 DEF RunAgrees, CurrentOpenArns
  <2> QED BY <2>1
<1>4. \A a \in openArns' : Shown(a)'
  BY <1>1 DEF LogInv, Shown, Read
<1>2. Agrees(openArns) => Agrees(openArns)'
  BY <1>1 DEF Agrees, OpenIn, Tells
<1> QED BY <1>1, <1>2, <1>3, <1>4 DEF LogInv

\* Steps of a run before it saves.
LEMMA LogAdvances ==
    ASSUME OneRowEach, TypeOK, LogInv, NEW w \in Worker,
           Start(w) \/ ScanPage(w) \/ LoadState(w) \/ LoadLog(w) \/ Upload(w)
    PROVE  LogInv'
<1> SUFFICES ASSUME faults' = 0 PROVE LogInv'
  BY DEF LogInv
<1>1. faults = 0
  BY FaultsCount DEF Start, ScanPage, LoadState, LoadLog, Upload
<1>2. /\ pc'[w] # "idle" /\ pc[w] \notin {"saveState", "saveLog"} /\ pc'[w] # "saveLog"
      /\ \A v \in Worker : v # w => /\ pc'[v] = pc[v] /\ next'[v] = next[v] /\ items'[v] = items[v]
                                    /\ prev'[v] = prev[v] /\ prevLog'[v] = prevLog[v]
      /\ UNCHANGED <<table, openArns, deltaLog>>
  BY DEF Start, ScanPage, LoadState, LoadLog, Upload, Goto, TypeOK
<1>3. \A v \in Worker : v # w => pc[v] = "idle" /\ next[v] = 1
  <2>1. CASE Start(w)
    BY <1>1, <2>1, FaultsCount DEF Start, LogInv, RunAgrees
  <2>2. CASE pc[w] # "idle"
    BY <1>1, <2>2, OnlyExport
  <2> QED BY <2>1, <2>2 DEF ScanPage, LoadState, LoadLog, Upload
<1>4. Agrees(openArns)'
  <2>1. Agrees(openArns)
    BY <1>1, <1>2, <1>3 DEF LogInv
  <2> QED BY <1>2, <2>1 DEF Agrees, OpenIn, Tells
<1>5. RunAgrees(w) /\ \A a \in openArns : Shown(a)
  BY <1>1 DEF LogInv
<1>6. \A r \in Row : items'[w][r] # "absent" => table[r] # "absent"
  <2>1. CASE ScanPage(w) /\ next[w] \in DOMAIN ScanOrder
    <3> DEFINE r == ScanOrder[next[w]]
    <3>1. r \in Row /\ items'[w] = [items[w] EXCEPT ![r] = table[r]]
      BY <2>1, ScanOrderFacts DEF ScanPage, TypeOK
    <3>2. items[w] \in [Row -> Status]
      BY DEF TypeOK
    <3> HIDE DEF r
    <3> QED BY <1>5, <3>1, <3>2 DEF RunAgrees
  <2>2. CASE ~(ScanPage(w) /\ next[w] \in DOMAIN ScanOrder)
    <3>1. items' = items
      BY <2>2 DEF Start, ScanPage, LoadState, LoadLog, Upload
    <3> QED BY <1>5, <3>1 DEF RunAgrees
  <2> QED BY <2>1, <2>2
<1>7. RunAgrees(w)'
  <2>1. pc'[w] \in {"loadLog", "upload", "saveState"} => prev'[w] = openArns
    BY <1>5 DEF Start, ScanPage, LoadState, LoadLog, Upload, Goto, TypeOK, RunAgrees
  <2>2. pc'[w] \in {"upload", "saveState"} => prevLog'[w] = deltaLog
    BY <1>5 DEF Start, ScanPage, LoadState, LoadLog, Upload, Goto, TypeOK, RunAgrees
  <2> QED BY <1>2, <1>6, <2>1, <2>2 DEF RunAgrees
<1>8. ASSUME NEW v \in Worker, v # w PROVE RunAgrees(v)'
  <2>1. RunAgrees(v) /\ pc[v] = "idle"
    BY <1>1, <1>3, <1>8 DEF LogInv
  <2> QED BY <1>2, <1>8, <2>1 DEF RunAgrees
\* What the run has read since, it has seen.
<1>9. ASSUME NEW r \in Row, table[r] # "absent", Read(w, r) => items[w][r] # "absent", Read(w, r)'
      PROVE  items'[w][r] # "absent"
  <2>1. CASE Start(w)
    <3>1. pc'[w] = "scan" /\ next'[w] = 1
      BY <1>5, <2>1 DEF Start, Goto, TypeOK, RunAgrees
    <3> QED BY <1>9, <3>1 DEF Read
  <2>2. CASE ScanPage(w)
    <3>1. CASE next[w] \in DOMAIN ScanOrder
      <4> DEFINE q == ScanOrder[next[w]]
      <4>1. next[w] \in Nat /\ next'[w] = next[w] + 1 /\ pc'[w] = "scan" /\ pc[w] = "scan"
        BY <2>2, <3>1 DEF ScanPage, TypeOK
      <4>2. q \in Row /\ items'[w] = [items[w] EXCEPT ![q] = table[q]]
            /\ items[w] \in [Row -> Status]
        BY <2>2, <3>1, ScanOrderFacts DEF ScanPage, TypeOK
      <4>3. CASE r = q
        <5> HIDE DEF q
        <5> QED BY <1>9, <4>2, <4>3
      <4>4. CASE r # q
        <5>1. PICK i \in 1..Len(ScanOrder) : i < next[w] + 1 /\ ScanOrder[i] = r
          BY <1>9, <4>1 DEF Read
        <5>2. i # next[w]
          BY <4>4, <5>1
        <5>3. i < next[w]
          BY <4>1, <5>1, <5>2
        <5>4. items[w][r] # "absent"
          BY <1>9, <5>1, <5>3 DEF Read
        <5> HIDE DEF q
        <5> QED BY <4>2, <4>4, <5>4
      <4> QED BY <4>3, <4>4
    <3>2. CASE next[w] \notin DOMAIN ScanOrder
      <4>1. next[w] \in Nat \ {0} /\ items' = items
        BY <2>2, <3>2 DEF ScanPage, TypeOK
      <4>2. next[w] > Len(ScanOrder)
        BY <3>2, <4>1, ScanOrderFacts
      <4>3. PICK i \in 1..Len(ScanOrder) : ScanOrder[i] = r
        BY ScanOrderFacts
      <4>4. i < next[w]
        BY <4>1, <4>2, <4>3, ScanOrderFacts
      <4> QED BY <1>9, <4>1, <4>3, <4>4 DEF Read
    <3> QED BY <3>1, <3>2
  <2>3. CASE LoadState(w) \/ LoadLog(w) \/ Upload(w)
    <3>1. items' = items /\ Read(w, r)
      BY <2>3 DEF LoadState, LoadLog, Upload, Read
    <3> QED BY <1>9, <3>1
  <2> QED BY <2>1, <2>2, <2>3
<1>10. ASSUME NEW a \in openArns' PROVE Shown(a)'
  <2>1. PICK r \in Row : /\ ArnOf[r] = a /\ table[r] # "absent"
                         /\ \A v \in Worker : Read(v, r) => items[v][r] # "absent"
    BY <1>2, <1>5, <1>10 DEF Shown
  <2>2. ASSUME NEW v \in Worker, v # w PROVE ~Read(v, r)'
    BY <1>2, <1>3, <2>2 DEF Read
  <2>3. Read(w, r)' => items'[w][r] # "absent"
    BY <1>9, <2>1
  <2> QED BY <1>2, <2>1, <2>2, <2>3 DEF Shown
<1>11. \A v, u \in Worker : pc'[v] # "idle" /\ pc'[u] # "idle" => v = u
  BY <1>2, <1>3
<1> QED BY <1>4, <1>7, <1>8, <1>10, <1>11 DEF LogInv

LEMMA LogSavesState ==
    ASSUME OneRowEach, TypeOK, LogInv, NEW w \in Worker, SaveState(w)
    PROVE  LogInv'
<1> SUFFICES ASSUME faults = 0 PROVE LogInv'
  BY DEF LogInv, SaveState
<1>1. /\ pc[w] = "saveState" /\ pc'[w] = "saveLog" /\ openArns' = CurrentOpenArns(items[w])
      /\ \A v \in Worker : v # w => pc'[v] = pc[v]
      /\ UNCHANGED <<table, deltaLog, next, items, prev, prevLog>>
  BY DEF SaveState, Goto, TypeOK
<1>2. \A v \in Worker : v # w => pc[v] = "idle" /\ next[v] = 1
  BY <1>1, OnlyExport
<1>3. RunAgrees(w) /\ Agrees(openArns) /\ \A a \in openArns : Shown(a)
  BY <1>1, <1>2 DEF LogInv
<1>4. \A a \in prev[w] : \E r \in Row : ArnOf[r] = a /\ items[w][r] # "absent"
  BY <1>1, <1>3 DEF RunAgrees, Shown, Read
<1>5. Agrees(prev[w])'
  BY <1>1, <1>3 DEF RunAgrees, Agrees, OpenIn, Tells
<1>6. RunAgrees(w)'
  BY <1>1, <1>3, <1>4, <1>5 DEF RunAgrees, CurrentOpenArns
<1>7. ASSUME NEW v \in Worker, v # w PROVE RunAgrees(v)'
  <2>1. RunAgrees(v) /\ pc[v] = "idle"
    BY <1>2, <1>7 DEF LogInv
  <2> QED BY <1>1, <1>7, <2>1 DEF RunAgrees
<1>8. ASSUME NEW a \in openArns' PROVE Shown(a)'
  <2>1. PICK r \in Row : ArnOf[r] = a /\ items[w][r] = "open"
    BY <1>1, <1>8 DEF CurrentOpenArns
  <2>2. table[r] # "absent"
    BY <1>3, <2>1 DEF RunAgrees
  <2>3. ASSUME NEW v \in Worker, v # w PROVE ~Read(v, r)'
    BY <1>1, <1>2, <2>3 DEF Read
  <2> QED BY <1>1, <2>1, <2>2, <2>3 DEF Shown
<1> QED BY <1>1, <1>2, <1>6, <1>7, <1>8 DEF LogInv

LEMMA LogSavesLog ==
    ASSUME OneRowEach, TypeOK, LogInv, NEW w \in Worker, SaveLog(w)
    PROVE  LogInv'
<1> SUFFICES ASSUME faults = 0 PROVE LogInv'
  BY DEF LogInv, SaveLog
<1>1. /\ pc[w] = "saveLog" /\ pc'[w] = "idle" /\ next'[w] = 1 /\ items'[w] = Nothing
      /\ \A v \in Worker : v # w => pc'[v] = pc[v] /\ next'[v] = next[v] /\ items'[v] = items[v]
      /\ deltaLog' = BuildDeltaLog(items[w], prev[w], prevLog[w])
      /\ UNCHANGED <<table, openArns>>
  BY DEF SaveLog, Stop, Goto, TypeOK
<1>2. \A v \in Worker : pc'[v] = "idle" /\ next'[v] = 1
  BY <1>1, OnlyExport
<1>3. RunAgrees(w)
  BY DEF LogInv
<1>4. ASSUME NEW v \in Worker PROVE RunAgrees(v)'
  <2>1. \A r \in Row : items'[v][r] # "absent" => table'[r] # "absent"
    BY <1>1 DEF LogInv, RunAgrees, Nothing
  <2> QED BY <1>2, <2>1 DEF RunAgrees
<1>5. ASSUME NEW a \in openArns' PROVE Shown(a)'
  <2>1. PICK r \in Row : ArnOf[r] = a /\ table[r] # "absent"
    BY <1>1, <1>5 DEF LogInv, Shown
  <2>2. \A v \in Worker : ~Read(v, r)'
    BY <1>2 DEF Read
  <2> QED BY <1>1, <2>1, <2>2 DEF Shown
<1>6. Agrees(openArns)'
  <2> SUFFICES ASSUME Len(deltaLog') < MaxLog, NEW a \in Arn
               PROVE  a \in openArns' <=> OpenIn(deltaLog, a)'
    BY DEF Agrees
  <2>1. deltaLog \in Seq(Delta) /\ prevLog[w] = deltaLog
    BY <1>1, <1>3 DEF TypeOK, RunAgrees
  <2>2. /\ OpenIn(deltaLog', a) <=> (OpenIn(deltaLog, a) \/ a \in Arns(NewRows(items[w], prev[w])))
                                    /\ a \notin Arns(ResolvedRows(items[w], prev[w]))
        /\ Len(deltaLog) < MaxLog
    BY <1>1, <2>1, BuiltLogTells
  <2>3. a \in prev[w] <=> OpenIn(deltaLog, a)
    BY <1>1, <1>3, <2>2 DEF RunAgrees, Agrees
  <2>4. \A b \in prev[w] : \E r \in Row : ArnOf[r] = b /\ items[w][r] # "absent"
    BY <1>1, <1>3 DEF RunAgrees
  <2>5. a \in CurrentOpenArns(items[w])
          <=> (a \in prev[w] \/ a \in Arns(NewRows(items[w], prev[w])))
              /\ a \notin Arns(ResolvedRows(items[w], prev[w]))
    BY <2>4, DeltaLeads
  <2>6. openArns' = CurrentOpenArns(items[w])
    BY <1>1, <1>3 DEF RunAgrees
  <2>7. OpenIn(deltaLog, a)' <=> OpenIn(deltaLog', a)
    BY DEF OpenIn, Tells
  <2> QED BY <2>2, <2>3, <2>5, <2>6, <2>7
<1> QED BY <1>2, <1>4, <1>5, <1>6 DEF LogInv

LEMMA LogFails == ASSUME TypeOK, NEW kind, Fails(kind) PROVE LogInv'
  BY FaultsCount DEF LogInv

LEMMA LogStutters ==
    ASSUME LogInv, UNCHANGED vars
    PROVE  LogInv'
  BY DEF vars, LogInv, RunAgrees, Shown, Read, Agrees, OpenIn, Tells, CurrentOpenArns

LEMMA LogNext == ASSUME OneRowEach, TypeOK, LogInv, [Next]_vars PROVE LogInv'
<1>1. ASSUME NEW r \in Row, Collect(r) \/ Vanish(r) PROVE LogInv'
  BY <1>1, LogCollects, LogFails DEF Vanish
<1>2. ASSUME NEW w \in Worker, Start(w) \/ Export(w) \/ Crash(w) PROVE LogInv'
  <2>1. CASE Start(w) \/ ScanPage(w) \/ LoadState(w) \/ LoadLog(w) \/ Upload(w)
    BY <2>1, LogAdvances
  <2>2. CASE SaveState(w)
    BY <2>2, LogSavesState
  <2>3. CASE SaveLog(w)
    BY <2>3, LogSavesLog
  <2>4. CASE \/ ScanFails(w) \/ LoadStateFails(w) \/ LoadLogFails(w) \/ UploadFails(w)
             \/ SaveStateFails(w) \/ SaveLogFails(w) \/ Crash(w)
    BY <2>4, LogFails DEF ScanFails, LoadStateFails, LoadLogFails, UploadFails, SaveStateFails,
                          SaveLogFails, Crash
  <2> QED BY <1>2, <2>1, <2>2, <2>3, <2>4 DEF Export
<1> QED BY <1>1, <1>2, LogStutters DEF Next

\* As long as the events table holds one row per event and organisation and nothing goes
\* wrong, the delta log, replayed, gives the open events the last export remembered.
THEOREM LogMatchesState == ASSUME OneRowEach PROVE Spec => []LogTellsOpen
<1>1. TypeOK /\ LogInv /\ [Next]_vars => LogInv'
  BY LogNext
<1>2. TypeOK /\ LogInv => LogTellsOpen
  <2> SUFFICES ASSUME TypeOK, LogInv, faults = 0, Len(deltaLog) < MaxLog,
                      \A w \in Worker : pc[w] = "idle", NEW a \in Arn
               PROVE  a \in openArns <=> LastSaid(a) = "new_open"
    BY DEF LogTellsOpen
  <2>1. a \in openArns <=> OpenIn(deltaLog, a)
    BY DEF LogInv, Agrees
  <2> QED BY <2>1, LastSaidTells DEF TypeOK
<1> QED BY <1>1, <1>2, TypeInit, TypeNext, LogInit, PTL DEF Spec

=============================================================================
