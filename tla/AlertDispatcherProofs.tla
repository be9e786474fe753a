------------------------ MODULE AlertDispatcherProofs ------------------------
(***************************************************************************)
(* Theorems about AlertDispatcher, for any number of overlapping           *)
(* invocations, any events, any failures and any windows; and, for one     *)
(* invocation at a time, about what its messages say, that it implements   *)
(* IncidentAlerts, and that it leaves nothing overdue.                     *)
(***************************************************************************)
EXTENDS AlertDispatcher, FiniteSetTheorems, TLAPS

-----------------------------------------------------------------------------
(* What the helpers return *)

\* Flooring to a window gives a bucket no later than the time floored.
LEMMA FloorBound ==
    ASSUME NEW t \in Nat, NEW c \in Nat \ {0}
    PROVE  (t \div c) * c \in Nat /\ (t \div c) * c <= t
  OBVIOUS

\* Every item belongs to an incident key, whose bucket does not lie after the
\* time its start was floored from.
LEMMA KeyOfType ==
    ASSUME NEW o \in Observation, NEW t \in Time
    PROVE  /\ KeyOf(o, t) \in Key
           /\ Moment(o.start, t) \in Time
           /\ (o.start = NoTime \/ o.start <= t) => KeyOf(o, t)[2] <= t
<1> DEFINE secs == Moment(o.start, t)
<1>1. /\ o.arn \in Arn /\ o.start \in Time \cup {NoTime}
      /\ MaxTime \in Nat /\ secs \in Nat /\ secs <= MaxTime
  BY EventAssumption, BoundAssumption, NoTimeAssumption DEF Observation, Time, Moment
<1>2. /\ (secs \div CorrelationWindow) * CorrelationWindow \in Nat
      /\ (secs \div CorrelationWindow) * CorrelationWindow <= secs
  <2> HIDE DEF secs
  <2> QED BY <1>1, FloorBound, WindowAssumption
<1>3. KeyOf(o, t) = <<ServiceOf[o.arn], (secs \div CorrelationWindow) * CorrelationWindow>>
  BY DEF KeyOf, StartBucket
<1> DEFINE b == (secs \div CorrelationWindow) * CorrelationWindow
<1>4. b \in Bucket
  <2> HIDE DEF secs
  <2> QED BY <1>1, <1>2 DEF Bucket
<1>5. KeyOf(o, t) \in Key /\ KeyOf(o, t)[2] = b
  <2> HIDE DEF b
  <2> QED BY <1>1, <1>3, <1>4, EventAssumption DEF Key, b
<1>6. (o.start = NoTime \/ o.start <= t) => b <= t
  <2>1. (o.start = NoTime \/ o.start <= t) => secs <= t
    BY DEF Time, Moment
  <2> HIDE DEF secs
  <2> QED BY <1>1, <1>2, <2>1 DEF Time
<1> QED BY <1>1, <1>5, <1>6 DEF Time

\* A new incident and a merged or converted one are well-formed.
LEMMA NewIncidentType ==
    ASSUME NEW t \in Nat \cup {NoTime}
    PROVE  NewIncident(t) \in Incident
  BY DEF NewIncident, Incident

LEMMA MergeType ==
    ASSUME NEW row \in Incident, NEW group \in SUBSET Observation,
           NEW c \in {row.count} \cup Count
    PROVE  Merge(row, group, c) \in Incident
<1>1. c \in Nat
  BY EventAssumption DEF Incident
<1>2. {o.arn : o \in group} \subseteq Arn
  BY DEF Observation
<1>3. {RegionOf[a] : a \in {o.arn : o \in group}} \subseteq Region
  BY <1>2, EventAssumption
<1> QED BY <1>1, <1>2, <1>3 DEF Merge, Incident

LEMMA ToDynamoType ==
    ASSUME NEW row \in Incident
    PROVE  ToDynamo(row) \in Incident
  BY DEF ToDynamo, Incident

LEMMA DigestType ==
    ASSUME NEW k \in Key, NEW row \in Incident, NEW t \in Nat
    PROVE  Digest([key |-> k, row |-> row], t) \in Message
  BY DEF Digest, Incident, Message

-----------------------------------------------------------------------------
(* Type correctness *)

LEMMA InitType == Init => TypeOK
<1> SUFFICES ASSUME Init PROVE TypeOK
  OBVIOUS
<1>1. 0 \in Time /\ 0 \in Bucket
  BY BoundAssumption DEF Time, Bucket
<1>2. (CHOOSE k \in Key : TRUE) \in Key
  <2>1. PICK s \in Service : TRUE
    BY EventAssumption
  <2>2. <<s, 0>> \in Key
    BY <1>1 DEF Key
  <2>3. \E k : k \in Key
    BY <2>2
  <2> HIDE DEF Key
  <2> QED BY <2>3
<1>3. NoRow \in Incident
  BY NewIncidentType DEF NoRow
<1> QED BY <1>1, <1>2, <1>3 DEF Init, TypeOK, PC

LEMMA DispatchType ==
    ASSUME TypeOK, NEW w \in Worker, Dispatch(w)
    PROVE  TypeOK'
<1>1. PICK b \in SUBSET {o \in Observation : Started(o)} :
          /\ batch' = [batch EXCEPT ![w] = b]
          /\ starts' = [a \in Arn |-> starts[a] \cup
                           {Moment(o.start, now) : o \in {p \in b : p.arn = a}}]
  BY DEF Dispatch
<1>2. batch' \in [Worker -> SUBSET Observation]
  BY <1>1 DEF TypeOK
<1>3. lagging' \in [Key -> Incident]
  BY DEF Dispatch, TypeOK
<1>4. starts' \in [Arn -> SUBSET Time]
  <2>1. \A o \in b : Moment(o.start, now) \in Time
    BY KeyOfType DEF TypeOK
  <2> QED BY <1>1, <2>1 DEF TypeOK
<1> QED BY <1>2, <1>3, <1>4 DEF Dispatch, TypeOK, Goto, PC

\* Merging a group keeps the invocation's memory well-formed.
LEMMA MergeIntoType ==
    ASSUME TypeOK, NEW w \in Worker, NEW k \in Key, NEW row \in Incident,
           MergeInto(w, k, row)
    PROVE  /\ mem' \in [Worker -> [key : Key, row : Incident]]
           /\ batch' \in [Worker -> SUBSET Observation]
           /\ pc' \in [Worker -> PC]
<1>1. PICK c \in {row.count} \cup Count :
          /\ mem' = [mem EXCEPT ![w] = [key |-> k, row |-> Merge(row, Group(w, k), c)]]
          /\ batch' = [batch EXCEPT ![w] = @ \ Group(w, k)]
          /\ Goto(w, "save")
  BY DEF MergeInto
<1>2. Group(w, k) \in SUBSET Observation
  BY DEF Group, TypeOK
<1>3. Merge(row, Group(w, k), c) \in Incident
  BY <1>2, MergeType
<1> QED BY <1>1, <1>3 DEF TypeOK, Goto, PC

LEMMA StopType ==
    ASSUME TypeOK, NEW w \in Worker, Stop(w), topic' \in Seq(Message), faults' \in Nat
    PROVE  TypeOK'
  BY DEF Stop, Goto, TypeOK, PC

LEMMA CorrelateType ==
    ASSUME TypeOK, NEW w \in Worker, Correlate(w)
    PROVE  TypeOK'
<1>1. ASSUME NEW k \in Key, LoadIncident(w, k) PROVE TypeOK'
  <2>1. PICK row \in Readable(k) :
            MergeInto(w, k, IF Exists(row) THEN row ELSE NewIncident(stamp[w]))
    BY <1>1 DEF LoadIncident
  <2>2. row \in Incident /\ NewIncident(stamp[w]) \in Incident
    BY NewIncidentType DEF Readable, TypeOK, Time
  <2> DEFINE kept == IF Exists(row) THEN row ELSE NewIncident(stamp[w])
  <2>3. kept \in Incident
    BY <2>2
  <2>4. /\ mem' \in [Worker -> [key : Key, row : Incident]]
        /\ batch' \in [Worker -> SUBSET Observation]
        /\ pc' \in [Worker -> PC]
    BY <2>1, <2>3, MergeIntoType
  <2> QED BY <1>1, <2>4 DEF LoadIncident, TypeOK
<1>2. ASSUME NEW k \in Key, LoadIncidentFails(w, k) PROVE TypeOK'
  <2>1. NewIncident(stamp[w]) \in Incident
    BY NewIncidentType DEF TypeOK, Time
  <2>2. /\ mem' \in [Worker -> [key : Key, row : Incident]]
        /\ batch' \in [Worker -> SUBSET Observation]
        /\ pc' \in [Worker -> PC]
    BY <1>2, <2>1, MergeIntoType DEF LoadIncidentFails
  <2> QED BY <1>2, <2>2 DEF LoadIncidentFails, Fails, TypeOK
<1>3. ASSUME NEW k \in Key, MergeRaises(w, k) PROVE TypeOK'
  BY <1>3, StopType DEF MergeRaises, TypeOK
<1>4. CASE SaveIncident(w)
  <2>1. mem[w].key \in Key /\ ToDynamo(mem[w].row) \in Incident
    BY ToDynamoType DEF TypeOK
  <2> QED BY <1>4, <2>1 DEF SaveIncident, Write, Goto, TypeOK, PC
<1>5. CASE SaveIncidentFails(w)
  BY <1>5 DEF SaveIncidentFails, Fails, Goto, TypeOK, PC
<1> QED BY <1>1, <1>2, <1>3, <1>4, <1>5 DEF Correlate

\* What a publication appends is a message.
LEMMA SentType ==
    ASSUME TypeOK, NEW w \in Worker, NEW i \in snapshot[w]
    PROVE  /\ i \in [key : Key, row : Incident]
           /\ Append(topic, Digest(i, flushAt[w])) \in Seq(Message)
<1>1. i \in [key : Key, row : Incident]
  BY DEF TypeOK
<1>2. i.key \in Key /\ i.row \in Incident /\ i = [key |-> i.key, row |-> i.row]
  BY <1>1
<1>3. flushAt[w] \in Nat
  BY DEF TypeOK, Time
<1>4. Digest(i, flushAt[w]) \in Message
  BY <1>2, <1>3, DigestType
<1> QED BY <1>1, <1>4 DEF TypeOK

LEMMA FlushType ==
    ASSUME TypeOK, NEW w \in Worker, Flush(w)
    PROVE  TypeOK'
<1>1. CASE ScanIncidents(w)
  <2>1. PICK stale \in SUBSET {k \in FirstPage : lagging[k] # table[k]} :
          LET Seen(k) == IF k \in stale THEN lagging[k] ELSE table[k]
          IN  snapshot' = [snapshot EXCEPT ![w] =
                  {[key |-> k, row |-> Seen(k)] : k \in {j \in FirstPage : Exists(Seen(j))}}]
    BY <1>1 DEF ScanIncidents
  <2> DEFINE Seen(k) == IF k \in stale THEN lagging[k] ELSE table[k]
             read == {[key |-> k, row |-> Seen(k)] : k \in {j \in FirstPage : Exists(Seen(j))}}
  <2>2. FirstPage \subseteq Key
    BY DEF FirstPage
  <2>3. \A k \in Key : Seen(k) \in Incident
    BY DEF TypeOK
  <2>4. read \subseteq [key : Key, row : Incident]
    <3> HIDE DEF Seen
    <3> QED BY <2>2, <2>3
  <2>5. snapshot' \in [Worker -> SUBSET [key : Key, row : Incident]]
    <3>1. snapshot' = [snapshot EXCEPT ![w] = read]
      BY <2>1
    <3> HIDE DEF read
    <3> QED BY <2>4, <3>1 DEF TypeOK
  <2> QED BY <1>1, <2>5 DEF ScanIncidents, Goto, TypeOK, PC
<1>2. CASE ScanFails(w)
  BY <1>2, StopType DEF ScanFails, Fails, TypeOK
<1>3. CASE Suppress(w)
  BY <1>3 DEF Suppress, TypeOK
<1>4. CASE Publish(w)
  <2>1. PICK i \in snapshot[w] :
          /\ topic' = Append(topic, Digest(i, flushAt[w]))
          /\ mem' = [mem EXCEPT ![w] = i]
          /\ snapshot' = [snapshot EXCEPT ![w] = @ \ {i}]
    BY <1>4 DEF Publish
  <2>2. /\ i \in [key : Key, row : Incident]
        /\ Append(topic, Digest(i, flushAt[w])) \in Seq(Message)
    BY SentType
  <2>3. mem' \in [Worker -> [key : Key, row : Incident]]
    BY <2>1, <2>2 DEF TypeOK
  <2>4. snapshot' \in [Worker -> SUBSET [key : Key, row : Incident]]
    BY <2>1 DEF TypeOK
  <2> QED BY <1>4, <2>1, <2>2, <2>3, <2>4 DEF Publish, Goto, TypeOK, PC
<1>5. CASE PublishRejected(w)
  BY <1>5 DEF PublishRejected, Fails, TypeOK
<1>6. CASE PublishRaises(w)
  <2>1. topic' \in Seq(Message)
    <3>1. PICK i \in snapshot[w] : topic' \in {topic, Append(topic, Digest(i, flushAt[w]))}
      BY <1>6 DEF PublishRaises
    <3>2. Append(topic, Digest(i, flushAt[w])) \in Seq(Message)
      BY SentType
    <3> QED BY <3>1, <3>2 DEF TypeOK
  <2> QED BY <1>6, <2>1, StopType DEF PublishRaises, Fails, TypeOK
<1>7. CASE MarkAlerted(w)
  <2>1. /\ mem[w].key \in Key /\ mem[w].row \in Incident
        /\ table[mem[w].key] \in Incident
    BY DEF TypeOK
  <2> DEFINE marked == [table[mem[w].key] EXCEPT !.alert = "sent",
                                                 !.lastCount = mem[w].row.count,
                                                 !.lastRegions = mem[w].row.regions]
  <2>2. marked \in Incident
    BY <2>1 DEF Incident
  <2>3. Write(mem[w].key, marked)
    BY <1>7 DEF MarkAlerted
  <2> HIDE DEF marked
  <2>4. table' \in [Key -> Incident] /\ lagging' \in [Key -> Incident]
    BY <2>1, <2>2, <2>3 DEF Write, TypeOK
  <2> QED BY <1>7, <2>4 DEF MarkAlerted, Goto, TypeOK, PC
<1>8. CASE MarkFails(w)
  BY <1>8 DEF MarkFails, Fails, Goto, TypeOK, PC
<1>9. CASE Finish(w)
  BY <1>9, StopType DEF Finish, TypeOK
<1> QED BY <1>1, <1>2, <1>3, <1>4, <1>5, <1>6, <1>7, <1>8, <1>9 DEF Flush

LEMMA NextType == TypeOK /\ [Next]_vars => TypeOK'
<1> SUFFICES ASSUME TypeOK, [Next]_vars PROVE TypeOK'
  OBVIOUS
<1>1. CASE Tick
  <2>1. now' \in Time
    BY <1>1, BoundAssumption DEF Tick, TypeOK, Time
  <2> QED BY <1>1, <2>1 DEF Tick, TypeOK
<1>2. CASE Exhausted
  BY <1>2 DEF Exhausted, vars, TypeOK
<1>3. ASSUME NEW w \in Worker, Dispatch(w) PROVE TypeOK'
  BY <1>3, DispatchType
<1>4. ASSUME NEW w \in Worker, Correlate(w) PROVE TypeOK'
  BY <1>4, CorrelateType
<1>5. ASSUME NEW w \in Worker, Flush(w) PROVE TypeOK'
  BY <1>5, FlushType
<1>6. ASSUME NEW w \in Worker, Crash(w) PROVE TypeOK'
  BY <1>6, StopType DEF Crash, Fails, TypeOK
<1>7. CASE UNCHANGED vars
  BY <1>7 DEF vars, TypeOK
<1> QED BY <1>1, <1>2, <1>3, <1>4, <1>5, <1>6, <1>7 DEF Next

\* Every variable keeps its type, whatever overlaps or fails.
THEOREM TypeCorrect == Spec => []TypeOK
  BY InitType, NextType, PTL DEF Spec

-----------------------------------------------------------------------------
(* No silent alert *)

\* The alert attributes of a version of row k speak of a message that was sent.
HonestRow(k, row) == row.alert = "sent" => Announced(k, row.lastCount, row.lastRegions)

\* The strengthening: the honest versions include the one a lagging read may
\* return and the one an invocation is about to put back whole; and an invocation
\* about to mark an incident has sent the message its mark will speak of.
HonestInv ==
    /\ \A k \in Key : HonestRow(k, table[k]) /\ HonestRow(k, lagging[k])
    /\ \A w \in Worker :
          /\ pc[w] = "save" => HonestRow(mem[w].key, mem[w].row)
          /\ pc[w] = "mark" => Announced(mem[w].key, mem[w].row.count, mem[w].row.regions)

\* A message that was sent stays sent.
LEMMA AnnouncedStays ==
    ASSUME TypeOK, TypeOK',
           \/ topic' = topic
           \/ \E m \in Message : topic' = Append(topic, m)
    PROVE  \A k, c, r : Announced(k, c, r) => Announced(k, c, r)'
<1> SUFFICES ASSUME NEW k, NEW c, NEW r, Announced(k, c, r)
             PROVE  Announced(k, c, r)'
  OBVIOUS
<1>1. CASE topic' = topic
  BY <1>1 DEF Announced
<1>2. ASSUME NEW m \in Message, topic' = Append(topic, m) PROVE Announced(k, c, r)'
  <2>1. PICK n \in 1..Len(topic) :
            topic[n].key = k /\ topic[n].count = c /\ topic[n].regions = r
    BY DEF Announced
  <2>2. n \in 1..Len(topic') /\ topic'[n] = topic[n]
    BY <1>2 DEF TypeOK
  <2> QED BY <2>1, <2>2 DEF Announced
<1> QED BY <1>1, <1>2

\* A message just sent is announced.
LEMMA SentIsAnnounced ==
    ASSUME TypeOK, NEW m \in Message, topic' = Append(topic, m)
    PROVE  Announced(m.key, m.count, m.regions)'
<1>1. Len(topic') \in 1..Len(topic') /\ topic'[Len(topic')] = m
  BY DEF TypeOK
<1> QED BY <1>1 DEF Announced

\* An honest version, or a new incident, stays honest when events are merged
\* into it and when it is converted for the table.
LEMMA MergeHonest ==
    ASSUME NEW k, NEW row \in Incident, NEW group \in SUBSET Observation, NEW c,
           HonestRow(k, row)
    PROVE  HonestRow(k, Merge(row, group, c))
  BY DEF Merge, HonestRow, Incident

LEMMA NewIncidentHonest ==
    ASSUME NEW k, NEW t
    PROVE  HonestRow(k, NewIncident(t))
  BY DEF NewIncident, HonestRow

LEMMA ToDynamoHonest ==
    ASSUME NEW k, NEW row \in Incident, HonestRow(k, row)
    PROVE  HonestRow(k, ToDynamo(row))
  BY DEF ToDynamo, HonestRow, Incident

\* Steps that write no row and load none keep honesty, whatever they send.
LEMMA HonestUnchanged ==
    ASSUME TypeOK, TypeOK', HonestInv,
           table' = table,
           lagging' \in {lagging, table},
           \/ topic' = topic
           \/ \E m \in Message : topic' = Append(topic, m),
           \A w \in Worker : (pc'[w] \in {"save", "mark"}) =>
                pc'[w] = pc[w] /\ mem'[w] = mem[w]
    PROVE  HonestInv'
<1>1. \A k, c, r : Announced(k, c, r) => Announced(k, c, r)'
  BY AnnouncedStays
<1> QED BY <1>1 DEF HonestInv, HonestRow

\* The invocation that merges a group holds an honest incident.
LEMMA MergeIntoHonest ==
    ASSUME TypeOK, TypeOK', HonestInv, NEW w \in Worker, NEW k \in Key,
           NEW row \in Incident, HonestRow(k, row), MergeInto(w, k, row),
           UNCHANGED <<table, lagging, topic>>
    PROVE  HonestInv'
<1>1. PICK c \in {row.count} \cup Count :
          /\ mem' = [mem EXCEPT ![w] = [key |-> k, row |-> Merge(row, Group(w, k), c)]]
          /\ pc' = [pc EXCEPT ![w] = "save"]
  BY DEF MergeInto, Goto
<1>2. Group(w, k) \in SUBSET Observation
  BY DEF Group, TypeOK
<1>3. HonestRow(k, Merge(row, Group(w, k), c))
  BY <1>2, MergeHonest
<1>4. mem'[w].key = k /\ mem'[w].row = Merge(row, Group(w, k), c) /\ pc'[w] = "save"
  BY <1>1 DEF TypeOK
<1>5. \A v \in Worker : v # w => mem'[v] = mem[v] /\ pc'[v] = pc[v]
  BY <1>1 DEF TypeOK
<1>6. \A j, c1, r : Announced(j, c1, r)' <=> Announced(j, c1, r)
  BY DEF Announced
<1>7. \A j \in Key : HonestRow(j, table[j])' /\ HonestRow(j, lagging[j])'
  BY <1>6 DEF HonestInv, HonestRow
<1>8. HonestRow(mem[w].key, mem[w].row)'
  BY <1>3, <1>4, <1>6 DEF HonestRow
<1> QED BY <1>4, <1>5, <1>6, <1>7, <1>8 DEF HonestInv, HonestRow

\* A write of an honest row keeps every version honest.
LEMMA WriteHonest ==
    ASSUME TypeOK, TypeOK', HonestInv, NEW w \in Worker, NEW k \in Key, NEW row \in Incident,
           HonestRow(k, row), Write(k, row), UNCHANGED <<topic, mem>>,
           \A v \in Worker : pc'[v] \in {"save", "mark"} => pc'[v] = pc[v]
    PROVE  HonestInv'
<1>1. \A j, c, r : Announced(j, c, r)' <=> Announced(j, c, r)
  BY DEF Announced
<1>2. \A j \in Key : /\ table'[j] = IF j = k THEN row ELSE table[j]
                     /\ lagging'[j] = IF j = k THEN table[k] ELSE lagging[j]
  BY DEF Write, TypeOK
<1> QED BY <1>1, <1>2 DEF HonestInv, HonestRow

LEMMA CorrelateHonest ==
    ASSUME TypeOK, TypeOK', HonestInv, NEW w \in Worker, Correlate(w)
    PROVE  HonestInv'
<1>1. ASSUME NEW k \in Key, LoadIncident(w, k) PROVE HonestInv'
  <2>1. PICK row \in Readable(k) :
            MergeInto(w, k, IF Exists(row) THEN row ELSE NewIncident(stamp[w]))
    BY <1>1 DEF LoadIncident
  <2>2. row \in Incident /\ NewIncident(stamp[w]) \in Incident
    BY NewIncidentType DEF Readable, TypeOK, Time
  <2>3. HonestRow(k, row) /\ HonestRow(k, NewIncident(stamp[w]))
    BY NewIncidentHonest DEF Readable, HonestInv
  <2> DEFINE kept == IF Exists(row) THEN row ELSE NewIncident(stamp[w])
  <2>4. kept \in Incident /\ HonestRow(k, kept) /\ MergeInto(w, k, kept)
    BY <2>1, <2>2, <2>3
  <2>5. UNCHANGED <<table, lagging, topic>>
    BY <1>1 DEF LoadIncident
  <2> HIDE DEF kept
  <2> QED BY <2>4, <2>5, MergeIntoHonest
<1>2. ASSUME NEW k \in Key, LoadIncidentFails(w, k) PROVE HonestInv'
  <2>1. NewIncident(stamp[w]) \in Incident /\ HonestRow(k, NewIncident(stamp[w]))
    BY NewIncidentType, NewIncidentHonest DEF TypeOK, Time
  <2>2. MergeInto(w, k, NewIncident(stamp[w])) /\ UNCHANGED <<table, lagging, topic>>
    BY <1>2 DEF LoadIncidentFails
  <2> QED BY <2>1, <2>2, MergeIntoHonest
<1>3. ASSUME NEW k \in Key, MergeRaises(w, k) PROVE HonestInv'
  BY <1>3, HonestUnchanged DEF MergeRaises, Stop, Goto, TypeOK
<1>4. CASE SaveIncident(w)
  <2>1. /\ mem[w].key \in Key /\ mem[w].row \in Incident
        /\ HonestRow(mem[w].key, mem[w].row)
    BY <1>4 DEF SaveIncident, HonestInv, TypeOK
  <2>2. /\ ToDynamo(mem[w].row) \in Incident
        /\ HonestRow(mem[w].key, ToDynamo(mem[w].row))
    BY <2>1, ToDynamoType, ToDynamoHonest
  <2>3. /\ Write(mem[w].key, ToDynamo(mem[w].row)) /\ UNCHANGED <<topic, mem>>
        /\ \A v \in Worker : pc'[v] \in {"save", "mark"} => pc'[v] = pc[v]
    BY <1>4 DEF SaveIncident, Goto, TypeOK
  <2> QED BY <2>1, <2>2, <2>3, WriteHonest
<1>5. CASE SaveIncidentFails(w)
  BY <1>5, HonestUnchanged DEF SaveIncidentFails, Goto, TypeOK
<1> QED BY <1>1, <1>2, <1>3, <1>4, <1>5 DEF Correlate

LEMMA FlushHonest ==
    ASSUME TypeOK, TypeOK', HonestInv, NEW w \in Worker, Flush(w)
    PROVE  HonestInv'
<1>1. CASE ScanIncidents(w)
  BY <1>1, HonestUnchanged DEF ScanIncidents, Goto, TypeOK
<1>2. CASE ScanFails(w)
  BY <1>2, HonestUnchanged DEF ScanFails, Stop, Goto, TypeOK
<1>3. CASE Suppress(w)
  BY <1>3, HonestUnchanged DEF Suppress
<1>4. CASE Publish(w)
  <2>1. PICK i \in snapshot[w] :
          /\ topic' = Append(topic, Digest(i, flushAt[w]))
          /\ mem' = [mem EXCEPT ![w] = i]
    BY <1>4 DEF Publish
  <2>2. i.key \in Key /\ i.row \in Incident /\ i = [key |-> i.key, row |-> i.row]
    BY DEF TypeOK
  <2>3. Digest(i, flushAt[w]) \in Message
    BY <2>2, DigestType DEF TypeOK, Time
  <2>4. Announced(i.key, i.row.count, i.row.regions)'
    BY <2>1, <2>3, SentIsAnnounced DEF Digest
  <2>5. \A k, c, r : Announced(k, c, r) => Announced(k, c, r)'
    BY <2>1, <2>3, AnnouncedStays
  <2>6. table' = table /\ lagging' = lagging
    BY <1>4 DEF Publish
  <2>7. mem'[w] = i /\ pc'[w] = "mark"
    BY <1>4, <2>1 DEF Publish, Goto, TypeOK
  <2>8. \A v \in Worker : v # w => mem'[v] = mem[v] /\ pc'[v] = pc[v]
    BY <1>4, <2>1 DEF Publish, Goto, TypeOK
  <2> QED BY <2>4, <2>5, <2>6, <2>7, <2>8 DEF HonestInv, HonestRow
<1>5. CASE PublishRejected(w)
  BY <1>5, HonestUnchanged DEF PublishRejected
<1>6. CASE PublishRaises(w)
  <2>1. PICK i \in snapshot[w] : topic' \in {topic, Append(topic, Digest(i, flushAt[w]))}
    BY <1>6 DEF PublishRaises
  <2>2. i.key \in Key /\ i.row \in Incident /\ i = [key |-> i.key, row |-> i.row]
    BY DEF TypeOK
  <2>3. Digest(i, flushAt[w]) \in Message
    BY <2>2, DigestType DEF TypeOK, Time
  <2> QED BY <1>6, <2>1, <2>3, HonestUnchanged DEF PublishRaises, Stop, Goto, TypeOK
<1>7. CASE MarkAlerted(w)
  <2>1. /\ mem[w].key \in Key /\ mem[w].row \in Incident
        /\ table[mem[w].key] \in Incident
        /\ Announced(mem[w].key, mem[w].row.count, mem[w].row.regions)
    BY <1>7 DEF MarkAlerted, HonestInv, TypeOK
  <2> DEFINE marked == [table[mem[w].key] EXCEPT !.alert = "sent",
                                                 !.lastCount = mem[w].row.count,
                                                 !.lastRegions = mem[w].row.regions]
  <2>2. marked \in Incident /\ HonestRow(mem[w].key, marked)
    BY <2>1 DEF Incident, HonestRow
  <2>3. /\ Write(mem[w].key, marked) /\ UNCHANGED <<topic, mem>>
        /\ \A v \in Worker : pc'[v] \in {"save", "mark"} => pc'[v] = pc[v]
    BY <1>7 DEF MarkAlerted, Goto, TypeOK
  <2> HIDE DEF marked
  <2> QED BY <2>1, <2>2, <2>3, WriteHonest
<1>8. CASE MarkFails(w)
  BY <1>8, HonestUnchanged DEF MarkFails, Goto, TypeOK
<1>9. CASE Finish(w)
  BY <1>9, HonestUnchanged DEF Finish, Stop, Goto, TypeOK
<1> QED BY <1>1, <1>2, <1>3, <1>4, <1>5, <1>6, <1>7, <1>8, <1>9 DEF Flush

LEMMA NextHonest == TypeOK /\ TypeOK' /\ HonestInv /\ [Next]_vars => HonestInv'
<1> SUFFICES ASSUME TypeOK, TypeOK', HonestInv, [Next]_vars PROVE HonestInv'
  OBVIOUS
<1>1. CASE Tick
  BY <1>1, HonestUnchanged DEF Tick
<1>2. CASE Exhausted
  BY <1>2, HonestUnchanged DEF Exhausted, vars
<1>3. ASSUME NEW w \in Worker, Dispatch(w) PROVE HonestInv'
  BY <1>3, HonestUnchanged DEF Dispatch, Goto, TypeOK
<1>4. ASSUME NEW w \in Worker, Correlate(w) PROVE HonestInv'
  BY <1>4, CorrelateHonest
<1>5. ASSUME NEW w \in Worker, Flush(w) PROVE HonestInv'
  BY <1>5, FlushHonest
<1>6. ASSUME NEW w \in Worker, Crash(w) PROVE HonestInv'
  BY <1>6, HonestUnchanged DEF Crash, Stop, Goto, TypeOK
<1>7. CASE UNCHANGED vars
  BY <1>7, HonestUnchanged DEF vars
<1> QED BY <1>1, <1>2, <1>3, <1>4, <1>5, <1>6, <1>7 DEF Next

\* An incident recorded as alerted really was announced, with that count and
\* those regions, however invocations overlap, fail or crash.
THEOREM NeverSilent == Spec => []NoSilentAlert
<1>1. Init => HonestInv
  BY DEF Init, HonestInv, HonestRow, NoRow, NewIncident
<1>2. HonestInv => NoSilentAlert
  BY DEF HonestInv, HonestRow, NoSilentAlert
<1> QED BY <1>1, <1>2, TypeCorrect, NextHonest, PTL DEF Spec

-----------------------------------------------------------------------------
(* No alert before the digest window *)

\* A row that exists was first seen at or after the start of its bucket.
SeenAfterStart(k, row) == Exists(row) => row.firstSeen >= k[2]

\* The strengthening: the items an invocation holds started before its stamp, and
\* the incidents it is about to save or send from were first seen in time.
WindowInv ==
    /\ NoAlertBeforeWindow
    /\ \A k \in Key : SeenAfterStart(k, table[k]) /\ SeenAfterStart(k, lagging[k])
    /\ \A w \in Worker :
          /\ \A o \in batch[w] : o.start = NoTime \/ o.start <= stamp[w]
          /\ pc[w] = "save" => SeenAfterStart(mem[w].key, mem[w].row)
          /\ \A i \in snapshot[w] : Exists(i.row) /\ SeenAfterStart(i.key, i.row)

\* A due incident was first seen a digest window ago, so its message is in time.
LEMMA DueInTime ==
    ASSUME TypeOK, NEW w \in Worker, NEW i \in snapshot[w], NoAlertBeforeWindow,
           Exists(i.row), SeenAfterStart(i.key, i.row), IsDue(i.row, flushAt[w]),
           topic' = Append(topic, Digest(i, flushAt[w]))
    PROVE  NoAlertBeforeWindow'
<1>1. i.key \in Key /\ i.row \in Incident /\ i = [key |-> i.key, row |-> i.row]
  BY DEF TypeOK
<1>2. Digest(i, flushAt[w]) \in Message
  BY <1>1, DigestType DEF TypeOK, Time
<1>3. /\ Digest(i, flushAt[w]).key = i.key
      /\ Digest(i, flushAt[w]).at = flushAt[w]
  BY DEF Digest
<1>4. i.key[2] \in Nat /\ i.row.firstSeen \in Nat /\ flushAt[w] \in Nat
  BY <1>1 DEF Key, Bucket, Incident, Exists, TypeOK, Time
<1>5. flushAt[w] >= i.key[2] + DigestWindow
  BY <1>4, WindowAssumption DEF IsDue, IsMature, SeenAfterStart
<1>6. /\ Len(topic') = Len(topic) + 1
      /\ \A n \in 1..Len(topic) : topic'[n] = topic[n]
      /\ topic'[Len(topic) + 1] = Digest(i, flushAt[w])
      /\ Len(topic) \in Nat
  BY <1>2 DEF TypeOK
<1> SUFFICES ASSUME NEW n \in 1..Len(topic')
             PROVE  topic'[n].at >= topic'[n].key[2] + DigestWindow
  BY DEF NoAlertBeforeWindow
<1>7. CASE n \in 1..Len(topic)
  BY <1>6, <1>7 DEF NoAlertBeforeWindow
<1>8. CASE n = Len(topic) + 1
  BY <1>3, <1>5, <1>6, <1>8
<1> QED BY <1>6, <1>7, <1>8

\* Steps that merge nothing, write no row and read none keep the invariant.
LEMMA WindowUnchanged ==
    ASSUME TypeOK, WindowInv, NoAlertBeforeWindow',
           table' = table,
           lagging' \in {lagging, table},
           \A w \in Worker :
              /\ batch'[w] \subseteq batch[w] /\ stamp'[w] = stamp[w]
              /\ snapshot'[w] \subseteq snapshot[w]
              /\ pc'[w] = "save" => pc[w] = "save" /\ mem'[w] = mem[w]
    PROVE  WindowInv'
  BY DEF WindowInv, SeenAfterStart

LEMMA MergeIntoInTime ==
    ASSUME TypeOK, WindowInv, NEW w \in Worker, NEW k \in Key,
           NEW row \in Incident, SeenAfterStart(k, row), MergeInto(w, k, row),
           UNCHANGED <<table, lagging, topic, stamp, snapshot>>
    PROVE  WindowInv'
<1>1. PICK c \in {row.count} \cup Count :
          /\ mem' = [mem EXCEPT ![w] = [key |-> k, row |-> Merge(row, Group(w, k), c)]]
          /\ batch' = [batch EXCEPT ![w] = @ \ Group(w, k)]
          /\ pc' = [pc EXCEPT ![w] = "save"]
  BY DEF MergeInto, Goto
<1>2. SeenAfterStart(k, Merge(row, Group(w, k), c))
  BY DEF SeenAfterStart, Exists, Merge, Incident
<1>3. mem'[w].key = k /\ mem'[w].row = Merge(row, Group(w, k), c)
  BY <1>1 DEF TypeOK
<1>4. \A v \in Worker : /\ batch'[v] \subseteq batch[v]
                        /\ v # w => mem'[v] = mem[v] /\ pc'[v] = pc[v]
  BY <1>1 DEF TypeOK
<1>5. NoAlertBeforeWindow'
  BY DEF WindowInv, NoAlertBeforeWindow
<1>6. SeenAfterStart(mem[w].key, mem[w].row)'
  BY <1>2, <1>3 DEF SeenAfterStart, Exists
<1> QED BY <1>4, <1>5, <1>6 DEF WindowInv, SeenAfterStart, Exists

LEMMA WriteInTime ==
    ASSUME TypeOK, WindowInv, NEW k \in Key, NEW row \in Incident,
           SeenAfterStart(k, row), Write(k, row),
           UNCHANGED <<topic, mem, batch, stamp, snapshot>>,
           \A v \in Worker : pc'[v] = "save" => pc[v] = "save"
    PROVE  WindowInv'
<1>1. \A j \in Key : /\ table'[j] = IF j = k THEN row ELSE table[j]
                     /\ lagging'[j] = IF j = k THEN table[k] ELSE lagging[j]
  BY DEF Write, TypeOK
<1>2. NoAlertBeforeWindow'
  BY DEF WindowInv, NoAlertBeforeWindow
<1>3. \A j \in Key : SeenAfterStart(j, table[j])' /\ SeenAfterStart(j, lagging[j])'
  BY <1>1 DEF WindowInv, SeenAfterStart, Exists
<1> QED BY <1>2, <1>3 DEF WindowInv, SeenAfterStart, Exists

\* A new incident of a group is first seen after the group's bucket began.
LEMMA NewInTime ==
    ASSUME TypeOK, WindowInv, NEW w \in Worker, NEW k \in Key, Group(w, k) # {}
    PROVE  SeenAfterStart(k, NewIncident(stamp[w]))
<1>1. PICK o \in batch[w] : KeyOf(o, stamp[w]) = k
  BY DEF Group
<1>2. /\ o \in Observation /\ stamp[w] \in Time
      /\ o.start = NoTime \/ o.start <= stamp[w]
  BY <1>1 DEF TypeOK, WindowInv
<1>3. k[2] <= stamp[w]
  BY <1>1, <1>2, KeyOfType
<1>4. k[2] \in Nat /\ stamp[w] \in Nat
  BY <1>2 DEF Key, Bucket, Time
<1> QED BY <1>3, <1>4 DEF SeenAfterStart, NewIncident

LEMMA CorrelateInTime ==
    ASSUME TypeOK, WindowInv, NEW w \in Worker, Correlate(w)
    PROVE  WindowInv'
<1>1. ASSUME NEW k \in Key, LoadIncident(w, k) PROVE WindowInv'
  <2>1. PICK row \in Readable(k) :
            MergeInto(w, k, IF Exists(row) THEN row ELSE NewIncident(stamp[w]))
    BY <1>1 DEF LoadIncident
  <2>2. row \in Incident /\ NewIncident(stamp[w]) \in Incident
    BY NewIncidentType DEF Readable, TypeOK, Time
  <2>3. SeenAfterStart(k, row) /\ SeenAfterStart(k, NewIncident(stamp[w]))
    BY <1>1, NewInTime DEF LoadIncident, Readable, WindowInv
  <2> DEFINE kept == IF Exists(row) THEN row ELSE NewIncident(stamp[w])
  <2>4. kept \in Incident /\ SeenAfterStart(k, kept) /\ MergeInto(w, k, kept)
    BY <2>1, <2>2, <2>3
  <2>5. UNCHANGED <<table, lagging, topic, stamp, snapshot>>
    BY <1>1 DEF LoadIncident
  <2> HIDE DEF kept
  <2> QED BY <2>4, <2>5, MergeIntoInTime
<1>2. ASSUME NEW k \in Key, LoadIncidentFails(w, k) PROVE WindowInv'
  <2>1. /\ NewIncident(stamp[w]) \in Incident
        /\ SeenAfterStart(k, NewIncident(stamp[w]))
    BY <1>2, NewIncidentType, NewInTime DEF LoadIncidentFails, TypeOK, Time
  <2>2. /\ MergeInto(w, k, NewIncident(stamp[w]))
        /\ UNCHANGED <<table, lagging, topic, stamp, snapshot>>
    BY <1>2 DEF LoadIncidentFails
  <2> QED BY <2>1, <2>2, MergeIntoInTime
<1>3. ASSUME NEW k \in Key, MergeRaises(w, k) PROVE WindowInv'
  <2>1. NoAlertBeforeWindow'
    BY <1>3 DEF MergeRaises, WindowInv, NoAlertBeforeWindow
  <2> QED BY <1>3, <2>1, WindowUnchanged DEF MergeRaises, Stop, Goto, TypeOK
<1>4. CASE SaveIncident(w)
  <2>1. /\ mem[w].key \in Key /\ mem[w].row \in Incident
        /\ SeenAfterStart(mem[w].key, mem[w].row)
    BY <1>4 DEF SaveIncident, WindowInv, TypeOK
  <2>2. /\ ToDynamo(mem[w].row) \in Incident
        /\ SeenAfterStart(mem[w].key, ToDynamo(mem[w].row))
    BY <2>1, ToDynamoType DEF ToDynamo, SeenAfterStart, Exists, Incident
  <2>3. /\ Write(mem[w].key, ToDynamo(mem[w].row))
        /\ UNCHANGED <<topic, mem, batch, stamp, snapshot>>
        /\ \A v \in Worker : pc'[v] = "save" => pc[v] = "save"
    BY <1>4 DEF SaveIncident, Goto, TypeOK
  <2> QED BY <2>1, <2>2, <2>3, WriteInTime
<1>5. CASE SaveIncidentFails(w)
  <2>1. NoAlertBeforeWindow'
    BY <1>5 DEF SaveIncidentFails, WindowInv, NoAlertBeforeWindow
  <2> QED BY <1>5, <2>1, WindowUnchanged DEF SaveIncidentFails, Goto, TypeOK
<1> QED BY <1>1, <1>2, <1>3, <1>4, <1>5 DEF Correlate

LEMMA FlushInTime ==
    ASSUME TypeOK, WindowInv, NEW w \in Worker, Flush(w)
    PROVE  WindowInv'
<1>1. CASE ScanIncidents(w)
  <2>1. PICK stale \in SUBSET {k \in FirstPage : lagging[k] # table[k]} :
          LET Seen(k) == IF k \in stale THEN lagging[k] ELSE table[k]
          IN  snapshot' = [snapshot EXCEPT ![w] =
                  {[key |-> k, row |-> Seen(k)] : k \in {j \in FirstPage : Exists(Seen(j))}}]
    BY <1>1 DEF ScanIncidents
  <2> DEFINE Seen(k) == IF k \in stale THEN lagging[k] ELSE table[k]
             read == {[key |-> k, row |-> Seen(k)] : k \in {j \in FirstPage : Exists(Seen(j))}}
  <2>2. \A k \in FirstPage : SeenAfterStart(k, Seen(k))
    BY DEF FirstPage, WindowInv
  <2>3. \A i \in read : Exists(i.row) /\ SeenAfterStart(i.key, i.row)
    <3> HIDE DEF Seen
    <3> QED BY <2>2
  <2>4. snapshot' = [snapshot EXCEPT ![w] = read]
    BY <2>1
  <2> HIDE DEF read
  <2>5. \A v \in Worker : \A i \in snapshot'[v] : Exists(i.row) /\ SeenAfterStart(i.key, i.row)
    BY <2>3, <2>4 DEF WindowInv, TypeOK
  <2>6. UNCHANGED <<table, lagging, topic, batch, stamp, mem>>
    BY <1>1 DEF ScanIncidents
  <2>7. \A v \in Worker : pc'[v] = "save" => pc[v] = "save"
    BY <1>1 DEF ScanIncidents, Goto, TypeOK
  <2>8. NoAlertBeforeWindow'
    BY <2>6 DEF WindowInv, NoAlertBeforeWindow
  <2> QED BY <2>5, <2>6, <2>7, <2>8 DEF WindowInv, SeenAfterStart, Exists
<1>2. CASE ScanFails(w)
  <2>1. NoAlertBeforeWindow'
    BY <1>2 DEF ScanFails, WindowInv, NoAlertBeforeWindow
  <2> QED BY <1>2, <2>1, WindowUnchanged DEF ScanFails, Stop, Goto, TypeOK
<1>3. CASE Suppress(w)
  <2>1. NoAlertBeforeWindow'
    BY <1>3 DEF Suppress, WindowInv, NoAlertBeforeWindow
  <2> QED BY <1>3, <2>1, WindowUnchanged DEF Suppress, TypeOK
<1>4. CASE Publish(w)
  <2>1. PICK i \in snapshot[w] :
          /\ IsDue(i.row, flushAt[w])
          /\ topic' = Append(topic, Digest(i, flushAt[w]))
    BY <1>4 DEF Publish
  <2>2. NoAlertBeforeWindow'
    BY <2>1, DueInTime DEF WindowInv
  <2>3. \A v \in Worker : /\ snapshot'[v] \subseteq snapshot[v]
                          /\ pc'[v] = "save" => pc[v] = "save" /\ mem'[v] = mem[v]
    BY <1>4 DEF Publish, Goto, TypeOK
  <2> QED BY <1>4, <2>2, <2>3, WindowUnchanged DEF Publish
<1>5. CASE PublishRejected(w)
  <2>1. NoAlertBeforeWindow'
    BY <1>5 DEF PublishRejected, WindowInv, NoAlertBeforeWindow
  <2> QED BY <1>5, <2>1, WindowUnchanged DEF PublishRejected, TypeOK
<1>6. CASE PublishRaises(w)
  <2>1. PICK i \in snapshot[w] :
          /\ IsDue(i.row, flushAt[w])
          /\ topic' \in {topic, Append(topic, Digest(i, flushAt[w]))}
    BY <1>6 DEF PublishRaises
  <2>2. NoAlertBeforeWindow'
    <3>1. CASE topic' = topic
      BY <3>1 DEF WindowInv, NoAlertBeforeWindow
    <3>2. CASE topic' = Append(topic, Digest(i, flushAt[w]))
      BY <2>1, <3>2, DueInTime DEF WindowInv
    <3> QED BY <2>1, <3>1, <3>2
  <2> QED BY <1>6, <2>2, WindowUnchanged DEF PublishRaises, Stop, Goto, TypeOK
<1>7. CASE MarkAlerted(w)
  <2>1. /\ mem[w].key \in Key /\ mem[w].row \in Incident
        /\ table[mem[w].key] \in Incident
        /\ SeenAfterStart(mem[w].key, table[mem[w].key])
    BY DEF WindowInv, TypeOK
  <2> DEFINE marked == [table[mem[w].key] EXCEPT !.alert = "sent",
                                                 !.lastCount = mem[w].row.count,
                                                 !.lastRegions = mem[w].row.regions]
  <2>2. marked \in Incident /\ SeenAfterStart(mem[w].key, marked)
    BY <2>1 DEF Incident, SeenAfterStart, Exists
  <2>3. /\ Write(mem[w].key, marked) /\ UNCHANGED <<topic, mem, batch, stamp, snapshot>>
        /\ \A v \in Worker : pc'[v] = "save" => pc[v] = "save"
    BY <1>7 DEF MarkAlerted, Goto, TypeOK
  <2> HIDE DEF marked
  <2> QED BY <2>1, <2>2, <2>3, WriteInTime
<1>8. CASE MarkFails(w)
  <2>1. NoAlertBeforeWindow'
    BY <1>8 DEF MarkFails, WindowInv, NoAlertBeforeWindow
  <2> QED BY <1>8, <2>1, WindowUnchanged DEF MarkFails, Goto, TypeOK
<1>9. CASE Finish(w)
  <2>1. NoAlertBeforeWindow'
    BY <1>9 DEF Finish, WindowInv, NoAlertBeforeWindow
  <2> QED BY <1>9, <2>1, WindowUnchanged DEF Finish, Stop, Goto, TypeOK
<1> QED BY <1>1, <1>2, <1>3, <1>4, <1>5, <1>6, <1>7, <1>8, <1>9 DEF Flush

LEMMA DispatchInTime ==
    ASSUME TypeOK, WindowInv, NEW w \in Worker, Dispatch(w)
    PROVE  WindowInv'
<1>1. PICK b \in SUBSET {o \in Observation : Started(o)} :
          batch' = [batch EXCEPT ![w] = b]
  BY DEF Dispatch
<1>2. stamp' = [stamp EXCEPT ![w] = now]
  BY DEF Dispatch
<1>3. \A v \in Worker : \A o \in batch'[v] :
          o.start = NoTime \/ o.start <= stamp'[v]
  BY <1>1, <1>2 DEF Started, WindowInv, TypeOK
<1>4. /\ UNCHANGED <<table, topic, mem, snapshot>>
      /\ lagging' \in {lagging, table}
      /\ \A v \in Worker : pc'[v] = "save" => pc[v] = "save"
  BY DEF Dispatch, Goto, TypeOK
<1>5. NoAlertBeforeWindow'
  BY <1>4 DEF WindowInv, NoAlertBeforeWindow
<1> QED BY <1>3, <1>4, <1>5 DEF WindowInv, SeenAfterStart, Exists

LEMMA NextInTime == TypeOK /\ WindowInv /\ [Next]_vars => WindowInv'
<1> SUFFICES ASSUME TypeOK, WindowInv, [Next]_vars PROVE WindowInv'
  OBVIOUS
<1>1. ASSUME UNCHANGED <<table, lagging, topic, pc, batch, stamp, mem, snapshot>>
      PROVE  WindowInv'
  BY <1>1 DEF WindowInv, NoAlertBeforeWindow, SeenAfterStart, Exists
<1>2. ASSUME NEW w \in Worker, Dispatch(w) PROVE WindowInv'
  BY <1>2, DispatchInTime
<1>3. ASSUME NEW w \in Worker, Correlate(w) PROVE WindowInv'
  BY <1>3, CorrelateInTime
<1>4. ASSUME NEW w \in Worker, Flush(w) PROVE WindowInv'
  BY <1>4, FlushInTime
<1>5. ASSUME NEW w \in Worker, Crash(w) PROVE WindowInv'
  <2>1. NoAlertBeforeWindow'
    BY <1>5 DEF Crash, WindowInv, NoAlertBeforeWindow
  <2> QED BY <1>5, <2>1, WindowUnchanged DEF Crash, Stop, Goto, TypeOK
<1> QED BY <1>1, <1>2, <1>3, <1>4, <1>5 DEF Next, Tick, Exhausted, vars

\* No message about an incident is sent before a digest window has passed since
\* its bucket began, although rows are rewritten by overlapping invocations.
THEOREM NeverEarly == Spec => []NoAlertBeforeWindow
<1>1. Init => WindowInv
  BY DEF Init, WindowInv, NoAlertBeforeWindow, SeenAfterStart, Exists, NoRow, NewIncident
<1>2. WindowInv => NoAlertBeforeWindow
  BY DEF WindowInv
<1> QED BY <1>1, <1>2, TypeCorrect, NextInTime, PTL DEF Spec

-----------------------------------------------------------------------------
(* The incidents of an event *)

\* Floors, in whole windows.
LEMMA WindowsOfFloor ==
    ASSUME NEW n \in Nat, NEW c \in Nat \ {0}
    PROVE  /\ ((n \div c) * c) % c = 0
           /\ (n \div c) * c <= n /\ n < (n \div c) * c + c
  OBVIOUS

LEMMA FloorIsUnique ==
    ASSUME NEW n \in Nat, NEW c \in Nat \ {0}, NEW b \in Nat,
           b % c = 0, b <= n, n < b + c
    PROVE  b = (n \div c) * c
<1> DEFINE p == b \div c
           q == n \div c
<1>1. p \in Nat /\ q \in Nat /\ b = p * c /\ q * c <= n /\ n < q * c + c
  BY WindowsOfFloor
<1> HIDE DEF p, q
<1>2. ~(p < q)
  <2> SUFFICES ASSUME p < q PROVE FALSE
    OBVIOUS
  <2>1. PICK d \in Nat : q = p + 1 + d
    BY <1>1
  <2>2. q * c = p * c + c + d * c /\ d * c \in Nat
    BY <1>1, <2>1
  <2> QED BY <1>1, <2>2
<1>3. ~(q < p)
  <2> SUFFICES ASSUME q < p PROVE FALSE
    OBVIOUS
  <2>1. PICK d \in Nat : p = q + 1 + d
    BY <1>1
  <2>2. p * c = q * c + c + d * c /\ d * c \in Nat
    BY <1>1, <2>1
  <2> QED BY <1>1, <2>2
<1> QED BY <1>1, <1>2, <1>3 DEF q

\* The key of an item is the incident of the window in which it started.
LEMMA KeyOfIsIncident ==
    ASSUME NEW o \in Observation, NEW t \in Time, NEW k \in Key
    PROVE  IsIncidentOf(k, o.arn, Moment(o.start, t)) <=> KeyOf(o, t) = k
<1> DEFINE s == Moment(o.start, t)
           b == (s \div CorrelationWindow) * CorrelationWindow
<1>1. s \in Nat /\ KeyOf(o, t) \in Key
  BY KeyOfType DEF Time
<1>2. KeyOf(o, t) = <<ServiceOf[o.arn], b>>
  BY DEF KeyOf, StartBucket
<1> HIDE DEF s
<1>3. b % CorrelationWindow = 0 /\ b <= s /\ s < b + CorrelationWindow
  BY <1>1, WindowsOfFloor, WindowAssumption
<1>4. k = <<k[1], k[2]>> /\ k[2] \in Nat
  BY DEF Key, Bucket
<1>5. (k[2] % CorrelationWindow = 0 /\ k[2] <= s /\ s < k[2] + CorrelationWindow) => k[2] = b
  BY <1>1, <1>4, FloorIsUnique, WindowAssumption
<1> HIDE DEF b
<1> QED BY <1>2, <1>3, <1>4, <1>5 DEF IsIncidentOf, s

\* Every event of row k started in its window at some collection.
OwnEvents(k, row) == \A a \in row.arns : \E s \in starts[a] : IsIncidentOf(k, a, s)

OwnInv ==
    /\ \A k \in Key : OwnEvents(k, table[k]) /\ OwnEvents(k, lagging[k])
    /\ \A w \in Worker :
          /\ \A o \in batch[w] : Moment(o.start, stamp[w]) \in starts[o.arn]
          /\ pc[w] = "save" => OwnEvents(mem[w].key, mem[w].row)

LEMMA GroupIsOwn ==
    ASSUME TypeOK, OwnInv, NEW w \in Worker, NEW k \in Key, NEW row \in Incident, NEW c,
           OwnEvents(k, row)
    PROVE  OwnEvents(k, Merge(row, Group(w, k), c))
<1>1. \A o \in Group(w, k) : \E s \in starts[o.arn] : IsIncidentOf(k, o.arn, s)
  <2> SUFFICES ASSUME NEW o \in Group(w, k)
               PROVE  \E s \in starts[o.arn] : IsIncidentOf(k, o.arn, s)
    OBVIOUS
  <2>1. o \in batch[w] /\ o \in Observation /\ stamp[w] \in Time /\ KeyOf(o, stamp[w]) = k
    BY DEF Group, TypeOK
  <2> QED BY <2>1, KeyOfIsIncident DEF OwnInv
<1>2. Merge(row, Group(w, k), c).arns = row.arns \cup {o.arn : o \in Group(w, k)}
  BY DEF Merge, Incident
<1> QED BY <1>1, <1>2 DEF OwnEvents

LEMMA MergeIntoOwn ==
    ASSUME TypeOK, OwnInv, NEW w \in Worker, NEW k \in Key,
           NEW row \in Incident, OwnEvents(k, row), MergeInto(w, k, row),
           UNCHANGED <<table, lagging, stamp, starts>>
    PROVE  OwnInv'
<1>1. PICK c \in {row.count} \cup Count :
          /\ mem' = [mem EXCEPT ![w] = [key |-> k, row |-> Merge(row, Group(w, k), c)]]
          /\ batch' = [batch EXCEPT ![w] = @ \ Group(w, k)]
          /\ pc' = [pc EXCEPT ![w] = "save"]
  BY DEF MergeInto, Goto
<1>2. OwnEvents(k, Merge(row, Group(w, k), c))
  BY GroupIsOwn
<1>3. mem'[w].key = k /\ mem'[w].row = Merge(row, Group(w, k), c)
  BY <1>1 DEF TypeOK
<1>4. \A v \in Worker : /\ batch'[v] \subseteq batch[v]
                        /\ v # w => mem'[v] = mem[v] /\ pc'[v] = pc[v]
  BY <1>1 DEF TypeOK
<1> QED BY <1>2, <1>3, <1>4 DEF OwnInv, OwnEvents

LEMMA WriteOwn ==
    ASSUME TypeOK, OwnInv, NEW k \in Key, NEW row, OwnEvents(k, row), Write(k, row),
           UNCHANGED <<mem, batch, stamp, starts>>,
           \A v \in Worker : pc'[v] = "save" => pc[v] = "save"
    PROVE  OwnInv'
<1>1. \A j \in Key : /\ table'[j] = IF j = k THEN row ELSE table[j]
                     /\ lagging'[j] = IF j = k THEN table[k] ELSE lagging[j]
  BY DEF Write, TypeOK
<1> QED BY <1>1 DEF OwnInv, OwnEvents

\* Steps that load and write no row, and take no new item.
LEMMA OwnUnchanged ==
    ASSUME OwnInv, UNCHANGED <<table, lagging, stamp, starts>>,
           \A v \in Worker : /\ batch'[v] \subseteq batch[v]
                             /\ pc'[v] = "save" => pc[v] = "save" /\ mem'[v] = mem[v]
    PROVE  OwnInv'
  BY DEF OwnInv, OwnEvents

LEMMA DispatchOwn ==
    ASSUME TypeOK, OwnInv, NEW w \in Worker, Dispatch(w)
    PROVE  OwnInv'
<1>1. PICK b \in SUBSET {o \in Observation : Started(o)} :
          /\ batch' = [batch EXCEPT ![w] = b]
          /\ starts' = [a \in Arn |-> starts[a] \cup
                           {Moment(o.start, now) : o \in {p \in b : p.arn = a}}]
  BY DEF Dispatch
<1>2. /\ UNCHANGED <<table, mem>> /\ lagging' \in {lagging, table}
      /\ stamp' = [stamp EXCEPT ![w] = now]
      /\ \A v \in Worker : pc'[v] = "save" => pc[v] = "save"
  BY DEF Dispatch, Goto, TypeOK
<1>3. \A a \in Arn : starts[a] \subseteq starts'[a]
  BY <1>1
<1>4. \A o \in b : o.arn \in Arn /\ Moment(o.start, now) \in starts'[o.arn]
  BY <1>1 DEF Observation
<1>5. \A k : \A row \in Incident : OwnEvents(k, row) => OwnEvents(k, row)'
  BY <1>3 DEF OwnEvents, Incident
<1>6. \A v \in Worker : \A o \in batch'[v] : Moment(o.start, stamp'[v]) \in starts'[o.arn]
  <2> SUFFICES ASSUME NEW v \in Worker, NEW o \in batch'[v]
               PROVE  Moment(o.start, stamp'[v]) \in starts'[o.arn]
    OBVIOUS
  <2>1. CASE v = w
    BY <1>1, <1>2, <1>4, <2>1 DEF TypeOK
  <2>2. CASE v # w
    <3>1. batch'[v] = batch[v] /\ stamp'[v] = stamp[v]
      BY <1>1, <1>2, <2>2 DEF TypeOK
    <3>2. o \in batch[v] /\ o.arn \in Arn
      BY <3>1 DEF TypeOK, Observation
    <3> QED BY <1>3, <3>1, <3>2 DEF OwnInv
  <2> QED BY <2>1, <2>2
<1>7. \A k \in Key : OwnEvents(k, table[k])' /\ OwnEvents(k, lagging[k])'
  <2> SUFFICES ASSUME NEW k \in Key PROVE OwnEvents(k, table[k])' /\ OwnEvents(k, lagging[k])'
    OBVIOUS
  <2>1. /\ table[k] \in Incident /\ OwnEvents(k, table[k])
        /\ lagging[k] \in Incident /\ OwnEvents(k, lagging[k])
    BY DEF TypeOK, OwnInv
  <2> QED BY <1>2, <1>3, <2>1 DEF OwnEvents, Incident
<1>8. \A v \in Worker : pc'[v] = "save" => OwnEvents(mem[v].key, mem[v].row)'
  <2> SUFFICES ASSUME NEW v \in Worker, pc'[v] = "save"
               PROVE  OwnEvents(mem[v].key, mem[v].row)'
    OBVIOUS
  <2>1. mem[v].row \in Incident /\ OwnEvents(mem[v].key, mem[v].row)
    BY <1>2 DEF TypeOK, OwnInv
  <2> QED BY <1>2, <1>3, <2>1 DEF OwnEvents, Incident
<1> QED BY <1>6, <1>7, <1>8 DEF OwnInv

LEMMA NextOwn == TypeOK /\ OwnInv /\ [Next]_vars => OwnInv'
<1> SUFFICES ASSUME TypeOK, OwnInv, [Next]_vars PROVE OwnInv'
  OBVIOUS
<1>1. ASSUME UNCHANGED <<table, lagging, pc, batch, stamp, mem, starts>> PROVE OwnInv'
  BY <1>1, OwnUnchanged
<1>2. ASSUME NEW w \in Worker, NEW k \in Key, LoadIncident(w, k) PROVE OwnInv'
  <2>1. PICK row \in Readable(k) :
            MergeInto(w, k, IF Exists(row) THEN row ELSE NewIncident(stamp[w]))
    BY <1>2 DEF LoadIncident
  <2> DEFINE kept == IF Exists(row) THEN row ELSE NewIncident(stamp[w])
  <2>2. kept \in Incident
    BY NewIncidentType DEF Readable, TypeOK, Time
  <2>3. OwnEvents(k, kept)
    BY DEF Readable, OwnInv, OwnEvents, NewIncident
  <2>4. MergeInto(w, k, kept) /\ UNCHANGED <<table, lagging, stamp, starts>>
    BY <1>2, <2>1 DEF LoadIncident
  <2> HIDE DEF kept
  <2> QED BY <2>2, <2>3, <2>4, MergeIntoOwn
<1>3. ASSUME NEW w \in Worker, NEW k \in Key, LoadIncidentFails(w, k) PROVE OwnInv'
  <2>1. NewIncident(stamp[w]) \in Incident
    BY NewIncidentType DEF TypeOK, Time
  <2>2. OwnEvents(k, NewIncident(stamp[w]))
    BY DEF OwnEvents, NewIncident
  <2> QED BY <1>3, <2>1, <2>2, MergeIntoOwn DEF LoadIncidentFails
<1>4. ASSUME NEW w \in Worker, SaveIncident(w) PROVE OwnInv'
  <2>1. /\ mem[w].key \in Key /\ mem[w].row \in Incident
        /\ OwnEvents(mem[w].key, mem[w].row)
    BY <1>4 DEF SaveIncident, OwnInv, TypeOK
  <2>2. OwnEvents(mem[w].key, ToDynamo(mem[w].row))
    BY <2>1 DEF ToDynamo, OwnEvents, Incident
  <2> QED BY <1>4, <2>1, <2>2, WriteOwn DEF SaveIncident, Goto, TypeOK
<1>5. ASSUME NEW w \in Worker, MarkAlerted(w) PROVE OwnInv'
  <2>1. /\ mem[w].key \in Key /\ table[mem[w].key] \in Incident
        /\ OwnEvents(mem[w].key, table[mem[w].key])
    BY DEF OwnInv, TypeOK
  <2> DEFINE marked == [table[mem[w].key] EXCEPT !.alert = "sent",
                                                 !.lastCount = mem[w].row.count,
                                                 !.lastRegions = mem[w].row.regions]
  <2>2. OwnEvents(mem[w].key, marked)
    BY <2>1 DEF OwnEvents, Incident
  <2>3. /\ Write(mem[w].key, marked) /\ UNCHANGED <<mem, batch, stamp, starts>>
        /\ \A v \in Worker : pc'[v] = "save" => pc[v] = "save"
    BY <1>5 DEF MarkAlerted, Goto, TypeOK
  <2> HIDE DEF marked
  <2> QED BY <2>1, <2>2, <2>3, WriteOwn
<1>6. ASSUME NEW w \in Worker, Dispatch(w) PROVE OwnInv'
  BY <1>6, DispatchOwn
<1>7. ASSUME NEW w \in Worker, SaveIncidentFails(w) \/ MarkFails(w) PROVE OwnInv'
  BY <1>7, OwnUnchanged DEF SaveIncidentFails, MarkFails, Goto, TypeOK
<1>8. ASSUME NEW w \in Worker,
             ScanIncidents(w) \/ Suppress(w) \/ Publish(w) \/ PublishRejected(w)
      PROVE  OwnInv'
  <2>1. /\ UNCHANGED <<table, lagging, batch, stamp, starts>>
        /\ \A v \in Worker : pc'[v] = "save" => pc[v] = "save" /\ mem'[v] = mem[v]
    BY <1>8 DEF ScanIncidents, Suppress, Publish, PublishRejected, Goto, TypeOK
  <2> QED BY <2>1, OwnUnchanged
<1>9. ASSUME NEW w \in Worker, Stop(w) PROVE OwnInv'
  BY <1>9, OwnUnchanged DEF Stop, Goto, TypeOK
<1> QED BY <1>1, <1>2, <1>3, <1>4, <1>5, <1>6, <1>7, <1>8, <1>9
        DEF Next, Tick, Exhausted, vars, Correlate, Flush, Crash, MergeRaises, ScanFails,
            PublishRaises, Finish

\* One invocation at a time, and a type code in every event.
Lone(w) == Worker = {w} /\ HasCode = Arn

\* Where an event that belongs to incident k is: in the row, or on its way to it.
Held(w, k, a) ==
    \/ a \in table[k].arns
    \/ a \in {o.arn : o \in Group(w, k)}
    \/ pc[w] = "save" /\ mem[w].key = k /\ a \in mem[w].row.arns

\* As long as no call failed, nothing is on its way when the invocation is over, a row
\* is saved from its present version, and no row lacks what a merge reads.
HeldInv(w) ==
    faults = 0 =>
        /\ pc[w] \notin {"correlate", "save"} => batch[w] = {}
        /\ \A k \in Key : /\ table[k].codes # "absent" /\ lagging[k].codes # "absent"
                          /\ ~Exists(table[k]) => table[k].arns = {}
        /\ pc[w] \in {"correlate", "save"} =>
              \A k \in Key : Group(w, k) # {} => lagging[k] = table[k]
        /\ pc[w] = "save" => /\ mem[w].row.codes = "some" /\ Group(w, mem[w].key) = {}
                             /\ Exists(mem[w].row)
                             /\ table[mem[w].key].arns \subseteq mem[w].row.arns
        /\ \A a \in Arn : \A s \in starts[a] : \A k \in Key :
              IsIncidentOf(k, a, s) => Held(w, k, a)

LEMMA HeldDispatch ==
    ASSUME NEW w, Lone(w), TypeOK, HeldInv(w), faults = 0, Dispatch(w)
    PROVE  HeldInv(w)'
<1>1. PICK b \in SUBSET {o \in Observation : Started(o)} :
          /\ batch' = [batch EXCEPT ![w] = b]
          /\ starts' = [a \in Arn |-> starts[a] \cup
                           {Moment(o.start, now) : o \in {p \in b : p.arn = a}}]
  BY DEF Dispatch
<1>2. /\ w \in Worker /\ pc[w] = "idle" /\ pc'[w] = "correlate" /\ batch[w] = {}
      /\ batch'[w] = b /\ stamp'[w] = now /\ table' = table /\ lagging' = table
  BY <1>1 DEF Dispatch, Goto, Lone, TypeOK, HeldInv
<1>3. ASSUME NEW a \in Arn, NEW s \in starts'[a], NEW k \in Key, IsIncidentOf(k, a, s)
      PROVE  Held(w, k, a)'
  <2>1. CASE s \in starts[a]
    BY <1>2, <1>3, <2>1 DEF HeldInv, Held, Group
  <2>2. CASE s \notin starts[a]
    <3>1. PICK o \in b : o.arn = a /\ s = Moment(o.start, now)
      BY <1>1, <2>2
    <3>2. o \in Observation /\ now \in Time
      BY <3>1 DEF TypeOK
    <3>3. KeyOf(o, now) = k
      BY <1>3, <3>1, <3>2, KeyOfIsIncident
    <3>4. o \in Group(w, k)'
      BY <1>2, <3>3 DEF Group
    <3> QED BY <3>1, <3>4 DEF Held
  <2> QED BY <2>1, <2>2
<1> QED BY <1>2, <1>3 DEF HeldInv, IsIncidentOf, Exists

LEMMA HeldLoad ==
    ASSUME NEW w, Lone(w), TypeOK, HeldInv(w), faults = 0,
           NEW k \in Key, LoadIncident(w, k)
    PROVE  HeldInv(w)'
<1>1. /\ w \in Worker /\ pc[w] = "correlate" /\ Group(w, k) # {}
      /\ UNCHANGED <<table, lagging, stamp, starts>>
  BY DEF LoadIncident, Lone
<1> DEFINE kept == IF Exists(table[k]) THEN table[k] ELSE NewIncident(stamp[w])
<1>2. MergeInto(w, k, kept)
  BY <1>1 DEF LoadIncident, Readable, HeldInv
<1>3. kept \in Incident /\ Exists(kept) /\ table[k].arns \subseteq kept.arns
  <2>1. /\ table[k] \in Incident /\ NewIncident(stamp[w]) \in Incident
        /\ stamp[w] # NoTime
    BY <1>1, NewIncidentType, NoTimeAssumption DEF TypeOK, Time
  <2> QED BY <2>1 DEF HeldInv, Exists, NewIncident
<1> HIDE DEF kept
<1>4. PICK c \in {kept.count} \cup Count :
          /\ mem' = [mem EXCEPT ![w] = [key |-> k, row |-> Merge(kept, Group(w, k), c)]]
          /\ batch' = [batch EXCEPT ![w] = @ \ Group(w, k)]
          /\ pc' = [pc EXCEPT ![w] = "save"]
  BY <1>2 DEF MergeInto, Goto
<1> DEFINE merged == Merge(kept, Group(w, k), c)
<1>5. /\ merged.codes = "some" /\ Exists(merged)
      /\ merged.arns = kept.arns \cup {o.arn : o \in Group(w, k)}
  <2>1. PICK o \in Group(w, k) : TRUE
    BY <1>1
  <2>2. o.arn \in HasCode
    BY <1>1, <2>1 DEF Group, Lone, TypeOK, Observation
  <2>3. {p.arn : p \in Group(w, k)} \cap HasCode # {}
    BY <2>1, <2>2
  <2> QED BY <1>3, <2>3 DEF Merge, Incident, Exists
<1>6. mem'[w].key = k /\ mem'[w].row = merged /\ pc'[w] = "save"
  BY <1>1, <1>4 DEF TypeOK
<1>7. Group(w, k)' = {} /\ \A j \in Key : /\ Group(w, j)' \subseteq Group(w, j)
                                          /\ j # k => Group(w, j)' = Group(w, j)
  BY <1>1, <1>4 DEF Group, TypeOK
<1> HIDE DEF merged
<1>8. \A a \in Arn : \A s \in starts[a] : \A j \in Key :
         IsIncidentOf(j, a, s) => Held(w, j, a)'
  BY <1>1, <1>3, <1>5, <1>6, <1>7 DEF HeldInv, Held
<1> QED BY <1>1, <1>3, <1>5, <1>6, <1>7, <1>8 DEF HeldInv, IsIncidentOf, Exists

LEMMA HeldSave ==
    ASSUME NEW w, Lone(w), TypeOK, HeldInv(w), faults = 0, SaveIncident(w)
    PROVE  HeldInv(w)'
<1> DEFINE put == ToDynamo(mem[w].row)
<1>1. /\ w \in Worker /\ pc[w] = "save" /\ pc'[w] = "correlate"
      /\ UNCHANGED <<batch, stamp, mem, starts>>
  BY DEF SaveIncident, Goto, Lone, TypeOK
<1>2. PICK k \in Key : k = mem[w].key /\ mem[w].row \in Incident
  BY <1>1 DEF TypeOK
<1>3. /\ mem[w].row.codes = "some" /\ Group(w, k) = {}
      /\ table[k].arns \subseteq mem[w].row.arns /\ Exists(mem[w].row)
  BY <1>1, <1>2 DEF HeldInv
<1>4. put.codes = "some" /\ put.arns = mem[w].row.arns /\ Exists(put)
  BY <1>2, <1>3 DEF ToDynamo, Incident, Exists
<1>5. \A j \in Key : /\ table'[j] = IF j = k THEN put ELSE table[j]
                     /\ lagging'[j] = IF j = k THEN table[k] ELSE lagging[j]
                     /\ Group(w, j)' = Group(w, j)
  BY <1>1, <1>2 DEF SaveIncident, Write, TypeOK, Group
<1> HIDE DEF put
<1>6. \A a \in Arn : \A s \in starts[a] : \A j \in Key :
         IsIncidentOf(j, a, s) => Held(w, j, a)'
  BY <1>1, <1>2, <1>3, <1>4, <1>5 DEF HeldInv, Held
<1> QED BY <1>1, <1>2, <1>3, <1>4, <1>5, <1>6 DEF HeldInv, IsIncidentOf, Exists

\* The flush holds no items and leaves the events of every row alone.
LEMMA HeldFlush ==
    ASSUME NEW w, Lone(w), TypeOK, HeldInv(w), faults = 0, Flush(w)
    PROVE  HeldInv(w)'
<1>1. /\ w \in Worker /\ pc[w] # "save" /\ batch[w] = {} /\ batch'[w] = {}
      /\ pc'[w] \notin {"correlate", "save"} /\ starts' = starts
  BY DEF Flush, ScanIncidents, ScanFails, Suppress, Publish, PublishRejected, PublishRaises,
         MarkAlerted, MarkFails, Finish, Stop, Goto, Lone, TypeOK, HeldInv
<1>2. \A k \in Key : /\ table'[k].arns = table[k].arns
                     /\ table'[k].codes # "absent" /\ lagging'[k].codes # "absent"
                     /\ Exists(table[k])' = Exists(table[k])
  <2>1. CASE MarkAlerted(w)
    <3> DEFINE marked == [table[mem[w].key] EXCEPT !.alert = "sent",
                                                   !.lastCount = mem[w].row.count,
                                                   !.lastRegions = mem[w].row.regions]
    <3>1. PICK j \in Key : j = mem[w].key /\ table[j] \in Incident
      BY <1>1 DEF TypeOK
    <3>2. \A k \in Key : /\ table'[k] = IF k = j THEN marked ELSE table[k]
                         /\ lagging'[k] = IF k = j THEN table[j] ELSE lagging[k]
      BY <2>1, <3>1 DEF MarkAlerted, Write, TypeOK
    <3>3. /\ marked.arns = table[j].arns /\ marked.codes = table[j].codes
          /\ marked.firstSeen = table[j].firstSeen
      BY <3>1 DEF Incident
    <3> HIDE DEF marked
    <3> QED BY <3>2, <3>3 DEF HeldInv, Exists
  <2>2. CASE ~MarkAlerted(w)
    <3>1. UNCHANGED <<table, lagging>>
      BY <2>2 DEF Flush, ScanIncidents, ScanFails, Suppress, Publish, PublishRejected,
                  PublishRaises, MarkFails, Finish, Stop
    <3> QED BY <3>1 DEF HeldInv, Exists
  <2> QED BY <2>1, <2>2
<1>3. \A k \in Key : Group(w, k) = {}
  BY <1>1 DEF Group
<1>4. \A a \in Arn : \A s \in starts[a] : \A k \in Key :
         IsIncidentOf(k, a, s) => a \in table'[k].arns
  BY <1>1, <1>2, <1>3 DEF HeldInv, Held
<1> QED BY <1>1, <1>2, <1>4 DEF HeldInv, Held, IsIncidentOf

LEMMA NextHeld ==
    ASSUME NEW w, Lone(w), TypeOK, HeldInv(w), [Next]_vars
    PROVE  HeldInv(w)'
<1> SUFFICES ASSUME faults' = 0 PROVE HeldInv(w)'
  BY DEF HeldInv
<1> w \in Worker
  BY DEF Lone
<1>1. \A kind : ~Fails(kind)
  BY DEF Fails, TypeOK
<1>2. CASE UNCHANGED vars \/ Tick
  BY <1>2 DEF HeldInv, Held, Group, IsIncidentOf, Exists, vars, Tick
<1>3. CASE Dispatch(w)
  BY <1>3, HeldDispatch DEF Dispatch
<1>4. CASE Correlate(w)
  <2>1. faults = 0
    BY <1>1, <1>4 DEF Correlate, LoadIncident, LoadIncidentFails, MergeRaises, SaveIncident,
                      SaveIncidentFails
  <2>2. ASSUME NEW k \in Key PROVE ~MergeRaises(w, k) /\ ~LoadIncidentFails(w, k)
    BY <1>1, <2>1 DEF MergeRaises, LoadIncidentFails, Readable, HeldInv
  <2> QED BY <1>1, <1>4, <2>1, <2>2, HeldLoad, HeldSave DEF Correlate, SaveIncidentFails
<1>5. CASE Flush(w)
  <2>1. faults = 0
    BY <1>1, <1>5 DEF Flush, ScanIncidents, ScanFails, Suppress, Publish, PublishRejected,
                      PublishRaises, MarkAlerted, MarkFails, Finish
  <2> QED BY <1>5, <2>1, HeldFlush
<1>6. ~Crash(w)
  BY <1>1 DEF Crash
<1> QED BY <1>2, <1>3, <1>4, <1>5, <1>6 DEF Next, Exhausted, Lone

\* Whatever overlaps and fails, an event is part of the incidents of the windows in
\* which its collections said it started, and of no other; and one invocation at a time
\* loses it from none of them, however far its start is revised and its reads lag.
THEOREM EventsInTheirIncidents == Spec => []IncidentsHoldTheirEvents
<1> DEFINE Alone == HasCode = Arn /\ \E w \in Worker : Worker = {w}
<1>1. Init => OwnInv
  BY DEF Init, OwnInv, OwnEvents, NoRow, NewIncident
<1>2. TypeOK /\ OwnInv /\ [Next]_vars => OwnInv'
  BY NextOwn
<1>3. Spec => []OwnInv
  BY <1>1, <1>2, TypeCorrect, PTL DEF Spec
<1>4. CASE Alone
  <2>1. PICK w \in Worker : Lone(w)
    BY <1>4 DEF Lone
  <2>2. Init => HeldInv(w)
    BY DEF Init, HeldInv, NoRow, NewIncident, Exists
  <2>3. TypeOK /\ HeldInv(w) /\ [Next]_vars => HeldInv(w)'
    BY <2>1, NextHeld
  <2>4. OwnInv /\ HeldInv(w) => IncidentsHoldTheirEvents
    <3> SUFFICES ASSUME OwnInv, HeldInv(w), pc[w] = "idle", faults = 0, NEW a \in Arn,
                        NEW s \in starts[a], NEW k \in Key, IsIncidentOf(k, a, s)
                 PROVE  a \in table[k].arns
      BY DEF IncidentsHoldTheirEvents, OwnInv, OwnEvents
    <3> QED BY DEF HeldInv, Held, Group
  <2> QED BY <1>3, <2>2, <2>3, <2>4, TypeCorrect, PTL DEF Spec
<1>5. CASE ~Alone
  <2>1. OwnInv => IncidentsHoldTheirEvents
    BY <1>5 DEF OwnInv, OwnEvents, IncidentsHoldTheirEvents
  <2> QED BY <1>3, <2>1, PTL
<1> QED BY <1>4, <1>5

-----------------------------------------------------------------------------
(* One invocation at a time, without failures that lose the record *)

\* One invocation runs at a time, and no failure loses what was sent or known: no load
\* is taken for a missing row, and nothing ends or fails between a message and its mark.
Sole(w) == Worker = {w} /\ Faults \subseteq {"save", "scan", "publish"}

LastExists == \A k \in Key : Said(k) # {} => \E n \in Said(k) : \A m \in Said(k) : m <= n

\* The alert attributes of a version of row k are those of the last message about it.
SaysLast(k, row) ==
    /\ row.alert = "sent" <=> Said(k) # {}
    /\ [count |-> row.lastCount, regions |-> row.lastRegions] = LastSaid(k)

\* Two versions of a row agree on what was announced.
SameAlert(row, other) ==
    /\ row.alert = other.alert
    /\ row.lastCount = other.lastCount /\ row.lastRegions = other.lastRegions

\* A version knows no more than a later one.
Known(row, later) == row.count <= later.count /\ row.regions \subseteq later.regions

\* A row that exists counts an account; one that does not has never been written.
Filled(row) == IF Exists(row) THEN row.count \in Count ELSE row = NoRow

\* Every row tells what was last said, but the one about to be marked.
StoredInv(w) ==
    \A k \in Key :
        /\ Filled(table[k])
        /\ ~(pc[w] = "mark" /\ mem[w].key = k) => SaysLast(k, table[k])

\* While it correlates, a lagging read differs from the row only if this invocation
\* has saved it, which it does once.
LaggingInv(w) ==
    pc[w] \in {"correlate", "save"} =>
        \A k \in Key :
            /\ Filled(lagging[k])
            /\ SameAlert(lagging[k], table[k]) /\ Known(lagging[k], table[k])
            /\ Group(w, k) # {} => lagging[k] = table[k]

SavingInv(w) ==
    pc[w] = "save" =>
        LET k == mem[w].key
        IN  /\ Exists(mem[w].row) /\ mem[w].row.count \in Count
            /\ SameAlert(mem[w].row, table[k]) /\ Known(table[k], mem[w].row)
            /\ Group(w, k) = {}

\* What the scan read of an incident, and has not examined, is what was last said of it
\* and no more than what is known.
SnapshotInv(w) ==
    /\ pc[w] \notin {"flush", "mark"} => snapshot[w] = {}
    /\ \A i \in snapshot[w] :
          /\ Exists(i.row) /\ i.row.count \in Count /\ Exists(table[i.key])
          /\ SaysLast(i.key, i.row) /\ Known(i.row, table[i.key])
          /\ \A j \in snapshot[w] : i.key = j.key => i = j

MarkingInv(w) ==
    pc[w] = "mark" =>
        LET k == mem[w].key
        IN  /\ Exists(table[k]) /\ Said(k) # {}
            /\ LastSaid(k) = [count |-> mem[w].row.count, regions |-> mem[w].row.regions]
            /\ \A i \in snapshot[w] : i.key # k

SoleInv(w) ==
    /\ LastExists /\ RepeatsAreSignificant
    /\ StoredInv(w) /\ LaggingInv(w) /\ SavingInv(w) /\ SnapshotInv(w) /\ MarkingInv(w)

\* The largest of some numbers is the one that CHOOSE takes.
LEMMA LargestIsChosen ==
    ASSUME NEW S \in SUBSET Nat, NEW x \in S, \A n \in S : n <= x
    PROVE  (CHOOSE n \in S : \A l \in S : l <= n) = x
<1>1. \A n \in S : (\A l \in S : l <= n) => n = x
  OBVIOUS
<1>2. \E n \in S : \A l \in S : l <= n
  OBVIOUS
<1> QED BY <1>1, <1>2

\* Messages are about incident keys.
LEMMA TopicKeys ==
    ASSUME TypeOK, NEW n \in 1..Len(topic)
    PROVE  topic[n].key \in Key
<1>1. topic[n] \in Message
  BY DEF TypeOK
<1> QED BY <1>1 DEF Message

\* After a message, it is the last one about its incident; nothing changes for others.
LEMMA SaidAppend ==
    ASSUME TypeOK, LastExists, NEW m \in Message, topic' = Append(topic, m)
    PROVE  /\ LastExists'
           /\ Said(m.key)' # {} /\ LastSaid(m.key)' = [count |-> m.count, regions |-> m.regions]
           /\ \A k : k # m.key => Said(k)' = Said(k) /\ LastSaid(k)' = LastSaid(k)
<1> DEFINE len == Len(topic)
<1>1. /\ len \in Nat /\ Len(topic') = len + 1
      /\ topic'[len + 1] = m /\ \A n \in 1..len : topic'[n] = topic[n]
  BY DEF TypeOK
<1>2. Said(m.key)' = Said(m.key) \cup {len + 1}
  BY <1>1 DEF Said
<1>3. \A k : k # m.key => Said(k)' = Said(k)
  BY <1>1 DEF Said
<1>4. \A n \in Said(m.key)' : n <= len + 1 /\ n \in Nat
  BY <1>1 DEF Said
<1>5. (CHOOSE n \in Said(m.key)' : \A l \in Said(m.key)' : l <= n) = len + 1
  <2>1. len + 1 \in Said(m.key)' /\ Said(m.key)' \in SUBSET Nat
    BY <1>2, <1>4
  <2> QED BY <1>4, <2>1, LargestIsChosen
<1>6. LastSaid(m.key)' = [count |-> m.count, regions |-> m.regions]
  BY <1>1, <1>2, <1>5 DEF LastSaid
<1>7. ASSUME NEW k, k # m.key PROVE LastSaid(k)' = LastSaid(k)
  <2>1. Said(k)' = Said(k)
    BY <1>3, <1>7
  <2>2. CASE Said(k) = {}
    BY <2>1, <2>2 DEF LastSaid
  <2>3. CASE Said(k) # {}
    <3>1. k \in Key
      BY <2>3, TopicKeys DEF Said
    <3> DEFINE n == CHOOSE n \in Said(k) : \A l \in Said(k) : l <= n
    <3>2. n \in Said(k)
      BY <2>3, <3>1 DEF LastExists
    <3>3. topic'[n] = topic[n]
      BY <1>1, <3>2 DEF Said
    <3> QED BY <2>1, <2>3, <3>3 DEF LastSaid
  <2> QED BY <2>2, <2>3
<1>8. LastExists'
  <2> SUFFICES ASSUME NEW k \in Key, Said(k)' # {}
               PROVE  \E n \in Said(k)' : \A l \in Said(k)' : l <= n
    BY DEF LastExists
  <2>1. CASE k = m.key
    BY <1>2, <1>4, <2>1
  <2>2. CASE k # m.key
    BY <1>3, <2>2 DEF LastExists
  <2> QED BY <2>1, <2>2
<1> QED BY <1>2, <1>3, <1>6, <1>7, <1>8

\* The message before the new one is the last so far.
LEMMA PreviousIsLast ==
    ASSUME TypeOK, LastExists, NEW m \in Message, topic' = Append(topic, m),
           NEW new \in Nat, new = Len(topic) + 1
    PROVE  /\ \A n \in 1..Len(topic) : Previous(n)' = Previous(n)
           /\ Said(m.key) = {} => Previous(new)' = {}
           /\ Said(m.key) # {} =>
                 /\ Previous(new)' # {}
                 /\ \A l \in Previous(new)' :
                       /\ l \in 1..Len(topic)
                       /\ LastSaid(m.key) = [count |-> topic[l].count, regions |-> topic[l].regions]
<1>1. /\ Len(topic) \in Nat /\ Len(topic') = new
      /\ topic'[new] = m /\ \A n \in 1..Len(topic) : topic'[n] = topic[n]
  BY DEF TypeOK
<1>2. ASSUME NEW n \in 1..Len(topic) PROVE Previous(n)' = Previous(n)
  <2>1. {l \in 1..(n - 1) : topic'[l].key = topic'[n].key}
            = {l \in 1..(n - 1) : topic[l].key = topic[n].key}
    BY <1>1
  <2> QED BY <2>1 DEF Previous
<1>3. {l \in 1..(new - 1) : topic'[l].key = topic'[new].key} = Said(m.key)
  BY <1>1 DEF Said
<1>4. Previous(new)' = {l \in Said(m.key) : \A j \in Said(m.key) : j <= l}
  BY <1>3 DEF Previous
<1>5. ASSUME Said(m.key) # {}
      PROVE  /\ Previous(new)' # {}
             /\ \A l \in Previous(new)' :
                   /\ l \in 1..Len(topic)
                   /\ LastSaid(m.key) = [count |-> topic[l].count, regions |-> topic[l].regions]
  <2>1. m.key \in Key /\ Said(m.key) \subseteq 1..Len(topic)
    BY DEF Said, Message
  <2>2. PICK last \in Said(m.key) : \A l \in Said(m.key) : l <= last
    BY <1>5, <2>1 DEF LastExists
  <2>3. (CHOOSE n \in Said(m.key) : \A l \in Said(m.key) : l <= n) = last
    <3>1. Said(m.key) \in SUBSET Nat
      BY <1>1, <2>1
    <3> QED BY <2>2, <3>1, LargestIsChosen
  <2>4. LastSaid(m.key) = [count |-> topic[last].count, regions |-> topic[last].regions]
    BY <1>5, <2>3 DEF LastSaid
  <2>5. \A n \in Said(m.key) : (\A l \in Said(m.key) : l <= n) => n = last
    BY <1>1, <2>1, <2>2
  <2>6. last \in Previous(new)' /\ \A l \in Previous(new)' : l = last
    BY <1>4, <2>2, <2>5
  <2> QED BY <2>1, <2>2, <2>4, <2>6
<1> QED BY <1>2, <1>4, <1>5

\* A due incident whose row tells what was last said makes a significant message.
LEMMA RepeatsAppend ==
    ASSUME TypeOK, LastExists, RepeatsAreSignificant, NEW k \in Key, NEW row \in Incident,
           NEW t \in Nat, IsDue(row, t), SaysLast(k, row),
           topic' = Append(topic, Digest([key |-> k, row |-> row], t))
    PROVE  RepeatsAreSignificant'
<1> DEFINE m == Digest([key |-> k, row |-> row], t)
<1>0. PICK new \in Nat : new = Len(topic) + 1
  BY DEF TypeOK
<1>1. m \in Message /\ m.key = k /\ m.count = row.count /\ m.regions = row.regions
  BY DigestType DEF Digest
<1>2. m.type = IF row.alert = "unsent" THEN "NEW INCIDENT" ELSE "UPDATE"
  BY DEF Digest
<1>3. /\ Len(topic) \in Nat /\ Len(topic') = new
      /\ topic'[new] = m /\ \A n \in 1..Len(topic) : topic'[n] = topic[n]
  <2> HIDE DEF m
  <2> QED BY <1>0, <1>1 DEF TypeOK, m
<1>4. /\ \A n \in 1..Len(topic) : Previous(n)' = Previous(n)
      /\ Said(k) = {} => Previous(new)' = {}
      /\ Said(k) # {} =>
            /\ Previous(new)' # {}
            /\ \A l \in Previous(new)' :
                  /\ l \in 1..Len(topic)
                  /\ LastSaid(k) = [count |-> topic[l].count, regions |-> topic[l].regions]
  <2> HIDE DEF m
  <2>1. m \in Message /\ topic' = Append(topic, m) /\ m.key = k
    BY <1>1 DEF m
  <2> QED BY <1>0, <2>1, PreviousIsLast
<1> HIDE DEF m
<1> SUFFICES ASSUME NEW n \in 1..Len(topic')
             PROVE  IF Previous(n)' = {}
                    THEN topic'[n].type = "NEW INCIDENT"
                    ELSE /\ topic'[n].type = "UPDATE"
                         /\ \A l \in Previous(n)' :
                               \/ topic'[n].count >= 2 * topic'[l].count
                               \/ topic'[n].regions \ topic'[l].regions # {}
  BY DEF RepeatsAreSignificant
<1>5. CASE n \in 1..Len(topic)
  <2>1. Previous(n)' = Previous(n) /\ topic'[n] = topic[n]
    BY <1>3, <1>4, <1>5
  <2>2. \A l \in Previous(n) : l \in 1..Len(topic)
    BY <1>3, <1>5 DEF Previous
  <2>3. \A l \in Previous(n) : topic'[l] = topic[l]
    BY <1>3, <2>2
  <2> QED BY <1>5, <2>1, <2>3 DEF RepeatsAreSignificant
<1>6. CASE n = new
  <2>1. CASE Said(k) = {}
    <3>1. row.alert = "unsent"
      BY <2>1 DEF SaysLast, Incident
    <3> QED BY <1>2, <1>3, <1>4, <1>6, <2>1, <3>1
  <2>2. CASE Said(k) # {}
    <3>1. row.alert = "sent" /\ HasSignificantUpdate(row)
      BY <2>2 DEF SaysLast, IsDue
    <3>2. [count |-> row.lastCount, regions |-> row.lastRegions] = LastSaid(k)
      BY DEF SaysLast
    <3>3. \A l \in Previous(n)' : /\ l \in 1..Len(topic) /\ topic[l].count = row.lastCount
                                  /\ topic[l].regions = row.lastRegions
      BY <1>4, <1>6, <2>2, <3>2
    <3>4. row.count \in Nat /\ row.lastCount \in Nat
      BY DEF Incident
    <3>5. row.count >= 2 * row.lastCount \/ row.regions \ row.lastRegions # {}
      BY <3>1, <3>4 DEF HasSignificantUpdate
    <3> QED BY <1>1, <1>2, <1>3, <1>4, <1>6, <2>2, <3>1, <3>3, <3>5
  <2> QED BY <2>1, <2>2
<1>7. n \in 1..Len(topic) \/ n = new
  BY <1>0, <1>3
<1> QED BY <1>5, <1>6, <1>7

\* Without a message, what was said stays the same.
LEMMA TopicSame ==
    ASSUME topic' = topic
    PROVE  /\ \A k : Said(k)' = Said(k) /\ LastSaid(k)' = LastSaid(k)
           /\ LastExists => LastExists'
           /\ RepeatsAreSignificant => RepeatsAreSignificant'
  BY DEF Said, LastSaid, LastExists, RepeatsAreSignificant, Previous

LEMMA SoleDispatch ==
    ASSUME NEW w, Sole(w), TypeOK, SoleInv(w), Dispatch(w)
    PROVE  SoleInv(w)'
<1>1. /\ pc[w] = "idle" /\ pc'[w] = "correlate"
      /\ UNCHANGED <<table, topic, mem, snapshot>> /\ lagging' = table
  BY DEF Dispatch, Goto, Sole, TypeOK
<1>2. LastExists' /\ RepeatsAreSignificant'
      /\ \A k : Said(k)' = Said(k) /\ LastSaid(k)' = LastSaid(k)
  BY <1>1, TopicSame DEF SoleInv
<1>3. StoredInv(w)'
  BY <1>1, <1>2 DEF SoleInv, StoredInv, SaysLast, Filled, Exists
<1>4. LaggingInv(w)'
  <2>1. \A k \in Key : table[k].count \in Nat
    BY DEF TypeOK, Incident
  <2> QED BY <1>1, <2>1 DEF SoleInv, StoredInv, LaggingInv, Filled, Exists, SameAlert, Known
<1>5. SavingInv(w)' /\ SnapshotInv(w)' /\ MarkingInv(w)'
  BY <1>1 DEF SoleInv, SnapshotInv, SavingInv, MarkingInv
<1> QED BY <1>2, <1>3, <1>4, <1>5 DEF SoleInv

\* A merged incident exists, counts an account of its group, and has been announced as
\* the row it was loaded from.
LEMMA MergedIsKnown ==
    ASSUME TypeOK, NEW w \in Worker, NEW k \in Key, Group(w, k) # {},
           NEW row \in Incident, Exists(row), row.count \in Count \cup {0},
           NEW c \in {row.count} \cup Count, IsLargestCount(c, row, Group(w, k))
    PROVE  LET merged == Merge(row, Group(w, k), c)
           IN  /\ Exists(merged) /\ merged.count \in Count
               /\ SameAlert(merged, row) /\ Known(row, merged)
<1>1. PICK o \in Group(w, k) : TRUE
  OBVIOUS
<1>2. o.count \in Count
  BY <1>1 DEF Group, TypeOK, Observation
<1>3. c \in Nat /\ o.count \in Nat \ {0} /\ row.count \in Nat
  BY <1>2, EventAssumption DEF Incident
<1>4. o.count <= c /\ row.count <= c
  BY <1>1 DEF IsLargestCount
<1>5. c \in Count
  BY <1>2, <1>3, <1>4
<1> QED BY <1>4, <1>5 DEF Merge, Exists, SameAlert, Known, Incident

LEMMA SoleLoad ==
    ASSUME NEW w, Sole(w), TypeOK, SoleInv(w), NEW k \in Key, LoadIncident(w, k)
    PROVE  SoleInv(w)'
<1>1. /\ w \in Worker /\ pc[w] = "correlate" /\ Group(w, k) # {}
      /\ UNCHANGED <<table, lagging, topic, stamp, snapshot>>
  BY DEF LoadIncident, Sole
<1> DEFINE row  == table[k]
           kept == IF Exists(row) THEN row ELSE NewIncident(stamp[w])
<1>2. MergeInto(w, k, kept)
  BY <1>1 DEF LoadIncident, Readable, SoleInv, LaggingInv
<1>3. /\ kept \in Incident /\ Exists(kept) /\ kept.count \in Count \cup {0}
      /\ SameAlert(kept, row) /\ Known(row, kept)
  <2>1. row \in Incident /\ stamp[w] \in Nat /\ Filled(row)
    BY <1>1 DEF TypeOK, Time, SoleInv, StoredInv
  <2>2. CASE Exists(row)
    BY <2>1, <2>2 DEF Filled, SameAlert, Known, Incident
  <2>3. CASE ~Exists(row)
    <3>1. row = NewIncident(NoTime) /\ kept = NewIncident(stamp[w])
      BY <2>1, <2>3 DEF Filled, NoRow
    <3>2. kept \in Incident
      BY <2>1, <3>1, NewIncidentType
    <3> QED BY <2>1, <3>1, <3>2, NoTimeAssumption DEF NewIncident, Exists, SameAlert, Known
  <2> QED BY <2>2, <2>3
<1> HIDE DEF kept
<1>4. PICK c \in {kept.count} \cup Count :
          /\ IsLargestCount(c, kept, Group(w, k))
          /\ mem' = [mem EXCEPT ![w] = [key |-> k, row |-> Merge(kept, Group(w, k), c)]]
          /\ batch' = [batch EXCEPT ![w] = @ \ Group(w, k)]
          /\ pc' = [pc EXCEPT ![w] = "save"]
  BY <1>2 DEF MergeInto, Goto
<1> DEFINE merged == Merge(kept, Group(w, k), c)
<1>5. /\ Exists(merged) /\ merged.count \in Count
      /\ SameAlert(merged, kept) /\ Known(kept, merged)
  BY <1>1, <1>3, <1>4, MergedIsKnown
<1>6. mem'[w].key = k /\ mem'[w].row = merged /\ pc'[w] = "save"
  BY <1>1, <1>4 DEF TypeOK
<1>7. Group(w, k)' = {} /\ \A j \in Key : Group(w, j)' \subseteq Group(w, j)
  BY <1>1, <1>4 DEF Group, TypeOK
<1>8. SameAlert(merged, table[k]) /\ Known(table[k], merged)
  <2>1. table[k].count \in Nat /\ kept.count \in Nat /\ merged.count \in Nat
    BY <1>3, <1>5, EventAssumption DEF TypeOK, Incident
  <2> HIDE DEF merged
  <2> QED BY <1>3, <1>5, <2>1 DEF SameAlert, Known
<1> HIDE DEF merged
<1>9. LastExists' /\ RepeatsAreSignificant'
      /\ \A j : Said(j)' = Said(j) /\ LastSaid(j)' = LastSaid(j)
  BY <1>1, TopicSame DEF SoleInv
<1>10. StoredInv(w)'
  BY <1>1, <1>6, <1>9 DEF SoleInv, StoredInv, SaysLast, Filled, Exists
<1>11. LaggingInv(w)'
  BY <1>1, <1>7 DEF SoleInv, LaggingInv, Filled, Exists, SameAlert, Known
<1>12. SavingInv(w)'
  <2>1. table' = table
    BY <1>1
  <2> QED BY <1>5, <1>6, <1>7, <1>8, <2>1 DEF SavingInv, Exists, SameAlert, Known
<1>13. SnapshotInv(w)' /\ MarkingInv(w)'
  BY <1>1, <1>6 DEF SoleInv, SnapshotInv, MarkingInv
<1> QED BY <1>9, <1>10, <1>11, <1>12, <1>13 DEF SoleInv

LEMMA SoleSave ==
    ASSUME NEW w, Sole(w), TypeOK, SoleInv(w), SaveIncident(w)
    PROVE  SoleInv(w)'
<1> DEFINE k   == mem[w].key
           row == mem[w].row
           put == ToDynamo(row)
<1>1. /\ w \in Worker /\ pc[w] = "save" /\ pc'[w] = "correlate"
      /\ UNCHANGED <<topic, batch, stamp, mem, snapshot>>
  BY DEF SaveIncident, Goto, Sole, TypeOK
<1>2. k \in Key /\ row \in Incident
  BY <1>1 DEF TypeOK
<1>3. /\ Exists(row) /\ row.count \in Count /\ SameAlert(row, table[k])
      /\ Known(table[k], row) /\ Group(w, k) = {}
  BY <1>1 DEF SoleInv, SavingInv
<1>4. /\ Exists(put) /\ put.count \in Count /\ SameAlert(put, table[k]) /\ Known(table[k], put)
  BY <1>2, <1>3 DEF ToDynamo, Exists, SameAlert, Known, Incident
<1>5. \A j \in Key : /\ table'[j] = IF j = k THEN put ELSE table[j]
                     /\ lagging'[j] = IF j = k THEN table[k] ELSE lagging[j]
  BY <1>2 DEF SaveIncident, Write, TypeOK
<1> HIDE DEF k, row, put
<1>6. LastExists' /\ RepeatsAreSignificant'
      /\ \A j : Said(j)' = Said(j) /\ LastSaid(j)' = LastSaid(j)
  BY <1>1, TopicSame DEF SoleInv
<1>7. StoredInv(w)'
  BY <1>1, <1>2, <1>4, <1>5, <1>6 DEF SoleInv, StoredInv, SaysLast, Filled, Exists, SameAlert
<1>8. LaggingInv(w)'
  <2>1. \A j \in Key : Group(w, j)' = Group(w, j)
    BY <1>1 DEF Group
  <2>2. SameAlert(table[k], put)
    BY <1>4 DEF SameAlert
  <2> QED BY <1>1, <1>2, <1>3, <1>4, <1>5, <2>1, <2>2
          DEF SoleInv, StoredInv, LaggingInv, Filled, Exists, SameAlert, Known
<1>9. SavingInv(w)' /\ SnapshotInv(w)' /\ MarkingInv(w)'
  BY <1>1 DEF SoleInv, SavingInv, SnapshotInv, MarkingInv
<1> QED BY <1>6, <1>7, <1>8, <1>9 DEF SoleInv

LEMMA SoleSaveFails ==
    ASSUME NEW w, Sole(w), TypeOK, SoleInv(w), SaveIncidentFails(w)
    PROVE  SoleInv(w)'
<1>1. /\ w \in Worker /\ pc[w] = "save" /\ pc'[w] = "correlate"
      /\ UNCHANGED <<table, lagging, topic, batch, stamp, mem, snapshot>>
  BY DEF SaveIncidentFails, Goto, Sole, TypeOK
<1>2. LastExists' /\ RepeatsAreSignificant'
      /\ \A j : Said(j)' = Said(j) /\ LastSaid(j)' = LastSaid(j)
  BY <1>1, TopicSame DEF SoleInv
<1>3. StoredInv(w)'
  BY <1>1, <1>2 DEF SoleInv, StoredInv, SaysLast, Filled, Exists
<1>4. LaggingInv(w)'
  BY <1>1 DEF SoleInv, LaggingInv, Filled, Exists, SameAlert, Known, Group
<1>5. SavingInv(w)' /\ SnapshotInv(w)' /\ MarkingInv(w)'
  BY <1>1 DEF SoleInv, SavingInv, SnapshotInv, MarkingInv
<1> QED BY <1>2, <1>3, <1>4, <1>5 DEF SoleInv

\* An invocation ends before it has sent anything, or after its last mark.
LEMMA SoleStop ==
    ASSUME NEW w, Sole(w), TypeOK, SoleInv(w), Stop(w), topic' = topic, pc[w] # "mark"
    PROVE  SoleInv(w)'
<1>1. /\ w \in Worker /\ pc'[w] = "idle" /\ snapshot'[w] = {}
      /\ UNCHANGED <<table, lagging, stamp, mem>>
  BY DEF Stop, Goto, Sole, TypeOK
<1>2. LastExists' /\ RepeatsAreSignificant'
      /\ \A j : Said(j)' = Said(j) /\ LastSaid(j)' = LastSaid(j)
  BY TopicSame DEF SoleInv
<1>3. StoredInv(w)'
  BY <1>1, <1>2 DEF SoleInv, StoredInv, SaysLast, Filled, Exists
<1>4. LaggingInv(w)' /\ SavingInv(w)' /\ SnapshotInv(w)' /\ MarkingInv(w)'
  BY <1>1 DEF LaggingInv, SavingInv, SnapshotInv, MarkingInv
<1> QED BY <1>2, <1>3, <1>4 DEF SoleInv

LEMMA SoleScan ==
    ASSUME NEW w, Sole(w), TypeOK, SoleInv(w), ScanIncidents(w)
    PROVE  SoleInv(w)'
<1>1. /\ w \in Worker /\ pc[w] = "correlate" /\ pc'[w] = "flush"
      /\ UNCHANGED <<table, lagging, topic, batch, stamp, mem>>
  BY DEF ScanIncidents, Goto, Sole, TypeOK
<1>2. PICK stale \in SUBSET {k \in FirstPage : lagging[k] # table[k]} :
        LET Seen(k) == IF k \in stale THEN lagging[k] ELSE table[k]
        IN  snapshot' = [snapshot EXCEPT ![w] =
                {[key |-> k, row |-> Seen(k)] : k \in {j \in FirstPage : Exists(Seen(j))}}]
  BY DEF ScanIncidents
<1> DEFINE Seen(k) == IF k \in stale THEN lagging[k] ELSE table[k]
           read == {[key |-> k, row |-> Seen(k)] : k \in {j \in FirstPage : Exists(Seen(j))}}
<1>3. snapshot'[w] = read
  <2>1. snapshot' = [snapshot EXCEPT ![w] = read]
    BY <1>2
  <2> HIDE DEF read
  <2> QED BY <1>1, <2>1 DEF TypeOK
<1>4. LastExists' /\ RepeatsAreSignificant'
      /\ \A j : Said(j)' = Said(j) /\ LastSaid(j)' = LastSaid(j)
  BY <1>1, TopicSame DEF SoleInv
<1>5. StoredInv(w)'
  BY <1>1, <1>4 DEF SoleInv, StoredInv, SaysLast, Filled, Exists
<1>6. LaggingInv(w)' /\ SavingInv(w)' /\ MarkingInv(w)'
  BY <1>1 DEF LaggingInv, SavingInv, MarkingInv
<1>7. ASSUME NEW k \in FirstPage, Exists(Seen(k))
      PROVE  /\ Seen(k).count \in Count /\ Exists(table[k])
             /\ SaysLast(k, Seen(k)) /\ Known(Seen(k), table[k])
  <2>1. k \in Key /\ Exists(table[k])
    BY DEF FirstPage
  <2>2. Filled(table[k]) /\ SaysLast(k, table[k])
    BY <1>1, <2>1 DEF SoleInv, StoredInv
  <2>3. /\ Filled(lagging[k]) /\ SameAlert(lagging[k], table[k])
        /\ Known(lagging[k], table[k])
    BY <1>1, <2>1 DEF SoleInv, LaggingInv
  <2>4. table[k].count \in Nat
    BY <2>1 DEF TypeOK, Incident
  <2>5. Seen(k) \in {table[k], lagging[k]}
    OBVIOUS
  <2> HIDE DEF Seen
  <2>6. CASE Seen(k) = table[k]
    BY <2>1, <2>2, <2>4, <2>6 DEF Filled, Known
  <2>7. CASE Seen(k) = lagging[k]
    BY <1>7, <2>1, <2>2, <2>3, <2>7 DEF Filled, SaysLast, SameAlert
  <2> QED BY <2>5, <2>6, <2>7
<1>8. SnapshotInv(w)'
  <2> HIDE DEF Seen
  <2>1. \A i \in read :
          /\ Exists(i.row) /\ i.row.count \in Count /\ Exists(table[i.key])
          /\ SaysLast(i.key, i.row) /\ Known(i.row, table[i.key])
    BY <1>7
  <2>2. \A i, j \in read : i.key = j.key => i = j
    OBVIOUS
  <2> HIDE DEF read
  <2> QED BY <1>1, <1>3, <1>4, <2>1, <2>2 DEF SnapshotInv, SaysLast, Exists, Known
<1> QED BY <1>4, <1>5, <1>6, <1>8 DEF SoleInv

\* An incident is left for the next invocation.
LEMMA SoleDrop ==
    ASSUME NEW w, Sole(w), TypeOK, SoleInv(w), Suppress(w) \/ PublishRejected(w)
    PROVE  SoleInv(w)'
<1>1. /\ w \in Worker /\ pc[w] = "flush" /\ snapshot'[w] \subseteq snapshot[w]
      /\ UNCHANGED <<table, lagging, topic, pc, mem>>
  BY DEF Suppress, PublishRejected, Sole, TypeOK
<1>2. LastExists' /\ RepeatsAreSignificant'
      /\ \A j : Said(j)' = Said(j) /\ LastSaid(j)' = LastSaid(j)
  BY <1>1, TopicSame DEF SoleInv
<1>3. StoredInv(w)'
  BY <1>1, <1>2 DEF SoleInv, StoredInv, SaysLast, Filled, Exists
<1>4. LaggingInv(w)' /\ SavingInv(w)' /\ MarkingInv(w)'
  BY <1>1 DEF LaggingInv, SavingInv, MarkingInv
<1>5. SnapshotInv(w)'
  BY <1>1, <1>2 DEF SoleInv, SnapshotInv, SaysLast, Exists, Known
<1> QED BY <1>2, <1>3, <1>4, <1>5 DEF SoleInv

\* What a publication does to the topic.
LEMMA SolePublished ==
    ASSUME NEW w, Sole(w), TypeOK, SoleInv(w), NEW i \in snapshot[w],
           IsDue(i.row, flushAt[w]), topic' = Append(topic, Digest(i, flushAt[w]))
    PROVE  /\ i.key \in Key /\ i.row \in Incident
           /\ LastExists' /\ RepeatsAreSignificant'
           /\ Said(i.key)' # {}
           /\ LastSaid(i.key)' = [count |-> i.row.count, regions |-> i.row.regions]
           /\ \A k : k # i.key => Said(k)' = Said(k) /\ LastSaid(k)' = LastSaid(k)
<1>1. /\ i.key \in Key /\ i.row \in Incident /\ i = [key |-> i.key, row |-> i.row]
      /\ flushAt[w] \in Nat
  BY DEF Sole, TypeOK, Time
<1>2. /\ Digest(i, flushAt[w]) \in Message /\ Digest(i, flushAt[w]).key = i.key
      /\ Digest(i, flushAt[w]).count = i.row.count
      /\ Digest(i, flushAt[w]).regions = i.row.regions
  <2>1. Digest(i, flushAt[w]) \in Message
    BY <1>1, DigestType
  <2> QED BY <2>1 DEF Digest
<1>3. RepeatsAreSignificant'
  <2>1. SaysLast(i.key, i.row) /\ LastExists /\ RepeatsAreSignificant
    BY DEF SoleInv, SnapshotInv
  <2>2. topic' = Append(topic, Digest([key |-> i.key, row |-> i.row], flushAt[w]))
    BY <1>1
  <2> QED BY <1>1, <2>1, <2>2, RepeatsAppend
<1>4. /\ LastExists'
      /\ Said(i.key)' # {}
      /\ LastSaid(i.key)' = [count |-> i.row.count, regions |-> i.row.regions]
      /\ \A k : k # i.key => Said(k)' = Said(k) /\ LastSaid(k)' = LastSaid(k)
  <2>1. LastExists
    BY DEF SoleInv
  <2>2. PICK m \in Message : /\ m = Digest(i, flushAt[w]) /\ m.key = i.key
                             /\ m.count = i.row.count /\ m.regions = i.row.regions
    BY <1>2
  <2>3. /\ LastExists'
        /\ Said(m.key)' # {} /\ LastSaid(m.key)' = [count |-> m.count, regions |-> m.regions]
        /\ \A k : k # m.key => Said(k)' = Said(k) /\ LastSaid(k)' = LastSaid(k)
    BY <2>1, <2>2, SaidAppend
  <2> QED BY <2>2, <2>3
<1> QED BY <1>1, <1>3, <1>4

LEMMA SolePublish ==
    ASSUME NEW w, Sole(w), TypeOK, SoleInv(w), Publish(w)
    PROVE  SoleInv(w)'
<1>1. PICK i \in snapshot[w] :
          /\ IsDue(i.row, flushAt[w])
          /\ topic' = Append(topic, Digest(i, flushAt[w]))
          /\ mem' = [mem EXCEPT ![w] = i]
          /\ snapshot' = [snapshot EXCEPT ![w] = @ \ {i}]
  BY DEF Publish
<1>2. /\ w \in Worker /\ pc[w] = "flush" /\ pc'[w] = "mark" /\ mem'[w] = i
      /\ snapshot'[w] = snapshot[w] \ {i}
      /\ UNCHANGED <<table, lagging>>
  BY <1>1 DEF Publish, Goto, Sole, TypeOK
<1>3. /\ i.key \in Key /\ i.row \in Incident
      /\ LastExists' /\ RepeatsAreSignificant'
      /\ Said(i.key)' # {}
      /\ LastSaid(i.key)' = [count |-> i.row.count, regions |-> i.row.regions]
      /\ \A k : k # i.key => Said(k)' = Said(k) /\ LastSaid(k)' = LastSaid(k)
  BY <1>1, SolePublished
<1>4. StoredInv(w)'
  BY <1>2, <1>3 DEF SoleInv, StoredInv, SaysLast, Filled, Exists
<1>5. LaggingInv(w)' /\ SavingInv(w)'
  BY <1>2 DEF LaggingInv, SavingInv
<1>6. \A j \in snapshot'[w] : j \in snapshot[w] /\ j.key # i.key
  BY <1>2 DEF SoleInv, SnapshotInv
<1>7. SnapshotInv(w)'
  BY <1>2, <1>3, <1>6 DEF SoleInv, SnapshotInv, SaysLast, Exists, Known
<1>8. MarkingInv(w)'
  BY <1>2, <1>3, <1>6 DEF SoleInv, SnapshotInv, MarkingInv, Exists
<1> QED BY <1>3, <1>4, <1>5, <1>7, <1>8 DEF SoleInv

LEMMA SoleMark ==
    ASSUME NEW w, Sole(w), TypeOK, SoleInv(w), MarkAlerted(w)
    PROVE  SoleInv(w)'
<1> DEFINE k == mem[w].key
           marked == [table[k] EXCEPT !.alert = "sent",
                                      !.lastCount = mem[w].row.count,
                                      !.lastRegions = mem[w].row.regions]
<1>1. /\ w \in Worker /\ pc[w] = "mark" /\ pc'[w] = "flush"
      /\ UNCHANGED <<topic, mem, snapshot>>
  BY DEF MarkAlerted, Goto, Sole, TypeOK
<1>2. k \in Key /\ table[k] \in Incident /\ mem[w].row \in Incident
  BY <1>1 DEF TypeOK
<1>3. /\ Exists(table[k]) /\ Said(k) # {}
      /\ LastSaid(k) = [count |-> mem[w].row.count, regions |-> mem[w].row.regions]
      /\ \A i \in snapshot[w] : i.key # k
  BY <1>1 DEF SoleInv, MarkingInv
<1>4. /\ marked.alert = "sent" /\ marked.firstSeen = table[k].firstSeen
      /\ marked.count = table[k].count
      /\ marked.lastCount = mem[w].row.count /\ marked.lastRegions = mem[w].row.regions
  BY <1>2 DEF Incident
<1>5. \A j \in Key : table'[j] = IF j = k THEN marked ELSE table[j]
  BY <1>2 DEF MarkAlerted, Write, TypeOK
<1> HIDE DEF marked, k
<1>6. LastExists' /\ RepeatsAreSignificant'
      /\ \A j : Said(j)' = Said(j) /\ LastSaid(j)' = LastSaid(j)
  BY <1>1, TopicSame DEF SoleInv
<1>7. Filled(marked)
  BY <1>2, <1>3, <1>4 DEF SoleInv, StoredInv, Filled, Exists
<1>9. StoredInv(w)'
  <2> SUFFICES ASSUME NEW j \in Key
               PROVE  Filled(table'[j]) /\ SaysLast(j, table[j])'
    BY DEF StoredInv, Filled, Exists
  <2>1. CASE j = k
    BY <1>3, <1>4, <1>5, <1>6, <1>7, <2>1 DEF SaysLast
  <2>2. CASE j # k
    BY <1>1, <1>5, <1>6, <2>2 DEF SoleInv, StoredInv, SaysLast, k
  <2> QED BY <2>1, <2>2
<1>10. LaggingInv(w)' /\ SavingInv(w)' /\ MarkingInv(w)'
  BY <1>1 DEF LaggingInv, SavingInv, MarkingInv
<1>11. SnapshotInv(w)'
  <2>1. \A i \in snapshot[w] : i.key \in Key /\ table'[i.key] = table[i.key]
    BY <1>1, <1>3, <1>5 DEF TypeOK
  <2> QED BY <1>1, <1>6, <2>1 DEF SoleInv, SnapshotInv, SaysLast, Exists, Known
<1> QED BY <1>6, <1>9, <1>10, <1>11 DEF SoleInv

LEMMA NextSole ==
    ASSUME NEW w, Sole(w), TypeOK, SoleInv(w), [Next]_vars
    PROVE  SoleInv(w)'
<1>1. ASSUME UNCHANGED <<table, lagging, topic, pc, batch, stamp, mem, snapshot>>
      PROVE  SoleInv(w)'
  <2>1. LastExists' /\ RepeatsAreSignificant'
        /\ \A j : Said(j)' = Said(j) /\ LastSaid(j)' = LastSaid(j)
    BY <1>1, TopicSame DEF SoleInv
  <2> QED BY <1>1, <2>1
          DEF SoleInv, StoredInv, LaggingInv, SavingInv, SnapshotInv, MarkingInv, SaysLast,
              Filled, Exists, SameAlert, Known, Group
<1>2. CASE Dispatch(w)
  BY <1>2, SoleDispatch
<1>3. CASE Correlate(w)
  <2>1. \A k \in Key : ~LoadIncidentFails(w, k)
    BY DEF LoadIncidentFails, Fails, Sole
  <2>2. ASSUME NEW k \in Key, MergeRaises(w, k) PROVE SoleInv(w)'
    BY <2>2, SoleStop DEF MergeRaises
  <2> QED BY <1>3, <2>1, <2>2, SoleLoad, SoleSave, SoleSaveFails DEF Correlate
<1>4. CASE Flush(w)
  <2>1. ~PublishRaises(w) /\ ~MarkFails(w)
    BY DEF PublishRaises, MarkFails, Fails, Sole
  <2>2. CASE ScanFails(w) \/ Finish(w)
    BY <2>2, SoleStop DEF ScanFails, Finish
  <2> QED BY <1>4, <2>1, <2>2, SoleScan, SoleDrop, SolePublish, SoleMark DEF Flush
<1>5. ~Crash(w)
  BY DEF Crash, Fails, Sole
<1> QED BY <1>1, <1>2, <1>3, <1>4, <1>5 DEF Next, Tick, Exhausted, vars, Sole

LEMMA SoleInvariant == ASSUME NEW w, Sole(w) PROVE Spec => []SoleInv(w)
<1>1. Init => SoleInv(w)
  <2> SUFFICES ASSUME Init PROVE SoleInv(w)
    OBVIOUS
  <2>1. w \in Worker /\ topic = <<>> /\ pc[w] = "idle" /\ snapshot[w] = {}
        /\ \A k \in Key : table[k] = NoRow
    BY DEF Init, Sole
  <2>2. /\ \A k : Said(k) = {} /\ LastSaid(k) = [count |-> 0, regions |-> {}]
        /\ RepeatsAreSignificant
    BY <2>1 DEF Said, LastSaid, RepeatsAreSignificant
  <2>3. LastExists
    BY <2>2 DEF LastExists
  <2>4. StoredInv(w)
    <3>1. NoRow.alert = "unsent" /\ NoRow.lastCount = 0 /\ NoRow.lastRegions = {} /\ ~Exists(NoRow)
      BY DEF NoRow, NewIncident, Exists
    <3> QED BY <2>1, <2>2, <3>1 DEF StoredInv, Filled, SaysLast
  <2>5. LaggingInv(w) /\ SavingInv(w) /\ SnapshotInv(w) /\ MarkingInv(w)
    BY <2>1 DEF LaggingInv, SavingInv, SnapshotInv, MarkingInv
  <2> QED BY <2>2, <2>3, <2>4, <2>5 DEF SoleInv
<1>2. TypeOK /\ SoleInv(w) /\ [Next]_vars => SoleInv(w)'
  BY NextSole
<1> QED BY <1>1, <1>2, TypeCorrect, PTL DEF Spec

\* With one invocation at a time, every message after the first about an incident has
\* twice the accounts of the one before or a new region, and only the first is labelled
\* as new, although scans lag behind saves and saves, scans and messages may fail.
THEOREM RepeatsSignificant ==
    ASSUME NEW w, Sole(w) PROVE Spec => []RepeatsAreSignificant
<1>1. SoleInv(w) => RepeatsAreSignificant
  BY DEF SoleInv
<1> QED BY <1>1, SoleInvariant, PTL

-----------------------------------------------------------------------------
(* One invocation at a time implements IncidentAlerts *)

\* A step that changes no count or region and sends nothing is a stutter.
LEMMA PromiseStutters ==
    ASSUME topic' = topic,
           \A k \in Key : /\ table'[k].count = table[k].count
                          /\ table'[k].regions = table[k].regions
    PROVE  UNCHANGED Promise!vars
<1>1. \A k \in Key : LastSaid(k)' = LastSaid(k)
  BY TopicSame
<1> QED BY <1>1 DEF Promise!vars

LEMMA SaveLearns ==
    ASSUME NEW w, Sole(w), TypeOK, SoleInv(w), SaveIncident(w)
    PROVE  Promise!Next
<1> DEFINE e == [count |-> mem[w].row.count, regions |-> mem[w].row.regions]
<1>1. w \in Worker /\ pc[w] = "save" /\ topic' = topic
  BY DEF SaveIncident, Sole
<1>2. PICK k \in Key : k = mem[w].key /\ mem[w].row \in Incident
  BY <1>1 DEF TypeOK
<1>3. mem[w].row.count \in Count /\ Known(table[k], mem[w].row)
  BY <1>1, <1>2 DEF SoleInv, SavingInv
<1>4. e \in Promise!Evidence
  BY <1>2, <1>3 DEF Promise!Evidence, Incident
<1>5. \A j \in Key : [count |-> table'[j].count, regions |-> table'[j].regions]
                        = IF j = k THEN e ELSE [count |-> table[j].count, regions |-> table[j].regions]
  BY <1>2 DEF SaveIncident, Write, ToDynamo, TypeOK, Incident
<1>6. Promise!Covers(e, [count |-> table[k].count, regions |-> table[k].regions])
  BY <1>2, <1>3 DEF Promise!Covers, Known, TypeOK, Incident
<1>7. \A j \in Key : LastSaid(j)' = LastSaid(j)
  BY <1>1, TopicSame
<1> HIDE DEF e
<1>8. Promise!Learn(k)
  BY <1>2, <1>4, <1>5, <1>6, <1>7 DEF Promise!Learn
<1> QED BY <1>2, <1>8 DEF Promise!Next

LEMMA PublishAnnounces ==
    ASSUME NEW w, Sole(w), TypeOK, SoleInv(w), Publish(w)
    PROVE  Promise!Next
<1>1. PICK i \in snapshot[w] :
          IsDue(i.row, flushAt[w]) /\ topic' = Append(topic, Digest(i, flushAt[w]))
  BY DEF Publish
<1>2. /\ i.key \in Key /\ i.row \in Incident
      /\ LastSaid(i.key)' = [count |-> i.row.count, regions |-> i.row.regions]
      /\ \A k : k # i.key => LastSaid(k)' = LastSaid(k)
  BY <1>1, SolePublished
<1>3. /\ i.row.count \in Count /\ SaysLast(i.key, i.row) /\ Known(i.row, table[i.key])
  BY <1>1 DEF SoleInv, SnapshotInv
<1> DEFINE e == [count |-> i.row.count, regions |-> i.row.regions]
<1>4. e \in Promise!Evidence /\ e # Promise!None
  BY <1>2, <1>3, EventAssumption DEF Promise!Evidence, Promise!None, Incident
<1>5. Promise!Covers([count |-> table[i.key].count, regions |-> table[i.key].regions], e)
  BY <1>2, <1>3 DEF Promise!Covers, Known, TypeOK, Incident
<1>6. Promise!Significant(e, LastSaid(i.key))
  <2>1. CASE i.row.alert = "unsent"
    <3>1. Said(i.key) = {}
      BY <1>2, <1>3, <2>1 DEF SaysLast
    <3> QED BY <3>1 DEF LastSaid, Promise!Significant, Promise!None
  <2>2. CASE i.row.alert # "unsent"
    <3>1. HasSignificantUpdate(i.row)
      BY <1>1, <2>2 DEF IsDue
    <3>2. LastSaid(i.key) = [count |-> i.row.lastCount, regions |-> i.row.lastRegions]
      BY <1>3 DEF SaysLast
    <3>3. i.row.count \in Nat /\ i.row.lastCount \in Nat
      BY <1>2 DEF Incident
    <3> QED BY <3>1, <3>2, <3>3 DEF HasSignificantUpdate, Promise!Significant
  <2> QED BY <2>1, <2>2
<1>7. table' = table
  BY DEF Publish
<1> HIDE DEF e
<1>8. Promise!Announce(i.key)
  BY <1>2, <1>4, <1>5, <1>6, <1>7 DEF Promise!Announce, e
<1> QED BY <1>2, <1>8 DEF Promise!Next

\* With one invocation at a time and no failure that loses the record, every step of the
\* dispatcher is a step of the promise or a stutter: evidence only accumulates, what is
\* announced is evidence, and every message after the first is significant.
THEOREM OneAtATimeKeepsPromise ==
    ASSUME NEW w, Sole(w) PROVE Spec => Promise!Spec
<1>1. Init => Promise!Init
  BY DEF Init, Promise!Init, Promise!None, NoRow, NewIncident, LastSaid, Said
<1>2. TypeOK /\ SoleInv(w) /\ [Next]_vars => [Promise!Next]_(Promise!vars)
  <2> SUFFICES ASSUME TypeOK, SoleInv(w), [Next]_vars
               PROVE  Promise!Next \/ UNCHANGED Promise!vars
    OBVIOUS
  <2>1. ASSUME UNCHANGED <<table, topic>> PROVE UNCHANGED Promise!vars
    BY <2>1, PromiseStutters
  <2>2. CASE SaveIncident(w)
    BY <2>2, SaveLearns
  <2>3. CASE Publish(w)
    BY <2>3, PublishAnnounces
  <2>4. CASE MarkAlerted(w)
    <3>1. topic' = topic /\ w \in Worker
      BY <2>4 DEF MarkAlerted, Sole
    <3>2. \A k \in Key : /\ table'[k].count = table[k].count
                         /\ table'[k].regions = table[k].regions
      BY <2>4, <3>1 DEF MarkAlerted, Write, TypeOK, Incident
    <3> QED BY <3>1, <3>2, PromiseStutters
  <2>5. ~PublishRaises(w)
    BY DEF PublishRaises, Fails, Sole
  <2>6. CASE \E v \in Worker : Dispatch(v) \/ Correlate(v) \/ Flush(v) \/ Crash(v)
    <3>1. Dispatch(w) \/ Correlate(w) \/ Flush(w) \/ Crash(w)
      BY <2>6 DEF Sole
    <3> QED BY <2>1, <2>2, <2>3, <2>4, <2>5, <3>1
            DEF Dispatch, Correlate, Flush, Crash, LoadIncident, LoadIncidentFails, MergeRaises,
                SaveIncidentFails, ScanIncidents, ScanFails, Suppress, PublishRejected,
                MarkFails, Finish, Stop
  <2> QED BY <2>1, <2>6 DEF Next, Tick, Exhausted, vars
<1> QED BY <1>1, <1>2, TypeCorrect, SoleInvariant, PTL DEF Spec, Promise!Spec

-----------------------------------------------------------------------------
(* Cycles without failures *)

\* One invocation at a time, every event has a type code, and one response of a scan
\* holds the whole table.
Roomy(w) ==
    /\ Worker = {w}
    /\ HasCode = Arn /\ DigestWindow > 0
    /\ IsFiniteSet(Service) /\ ScanPage > Cardinality(Key)

\* What this invocation made of a version of a row: it left when it was first seen and
\* whether it was announced as they were, or it is the first version.
MadeFrom(w, old, row) ==
    IF Exists(old) THEN row.firstSeen = old.firstSeen /\ row.alert = old.alert
                   ELSE row.firstSeen = stamp[w]

ReadInv(w) ==
    pc[w] \in {"correlate", "save"} =>
        \A k \in Key : \/ lagging[k] = table[k]
                       \/ Group(w, k) = {} /\ MadeFrom(w, lagging[k], table[k])

SaveInv(w) ==
    pc[w] = "save" =>
        /\ mem[w].row.codes = "some" /\ Group(w, mem[w].key) = {}
        /\ MadeFrom(w, table[mem[w].key], mem[w].row)

\* An overdue incident is one that the invocation still has to examine or to mark.
OverdueInv(w) ==
    pc[w] \in {"flush", "mark"} =>
        /\ stamp[w] <= flushAt[w]
        /\ \A k \in Key : (Exists(table[k]) /\ IsMature(table[k], stamp[w])) =>
              \/ table[k].alert = "sent"
              \/ pc[w] = "mark" /\ mem[w].key = k
              \/ \E i \in snapshot[w] : /\ i.key = k /\ i.row.alert = "unsent"
                                        /\ i.row.firstSeen = table[k].firstSeen

CycleInv(w) ==
    faults = 0 =>
        /\ stamp[w] <= now
        /\ \A k \in Key : table[k].codes # "absent" /\ lagging[k].codes # "absent"
        /\ ReadInv(w) /\ SaveInv(w) /\ OverdueInv(w)

\* One response holds every row.
LEMMA ScanIsComplete ==
    ASSUME NEW w, Roomy(w), NEW k \in Key, Exists(table[k])
    PROVE  k \in FirstPage
<1>1. IsFiniteSet(Key)
  <2>1. IsFiniteSet(Bucket)
    BY FS_Interval, BoundAssumption DEF Bucket
  <2> QED BY <2>1, FS_Product DEF Roomy, Key
<1> DEFINE stored  == {j \in Key : Exists(table[j])}
           earlier == {j \in stored : ScanRank[j] < ScanRank[k]}
<1>2. /\ IsFiniteSet(earlier) /\ Cardinality(earlier) <= Cardinality(Key)
      /\ Cardinality(earlier) \in Nat /\ Cardinality(Key) \in Nat
  <2>1. earlier \subseteq Key
    OBVIOUS
  <2> HIDE DEF earlier
  <2> QED BY <1>1, <2>1, FS_Subset, FS_CardinalityType
<1>3. Cardinality(earlier) < ScanPage
  <2> HIDE DEF earlier
  <2> QED BY <1>2, BoundAssumption DEF Roomy
<1> HIDE DEF earlier
<1>4. FirstPage = {j \in stored : Cardinality({l \in stored : ScanRank[l] < ScanRank[j]}) < ScanPage}
  BY DEF FirstPage
<1> QED BY <1>3, <1>4 DEF earlier

LEMMA CycleDispatch ==
    ASSUME NEW w, Roomy(w), TypeOK, CycleInv(w), Dispatch(w)
    PROVE  CycleInv(w)'
<1>1. /\ w \in Worker /\ pc'[w] = "correlate" /\ stamp'[w] = now /\ now' = now
      /\ faults' = faults /\ table' = table /\ lagging' = table
  BY DEF Dispatch, Goto, Roomy, TypeOK
<1>2. now <= now
  BY DEF TypeOK, Time
<1> QED BY <1>1, <1>2 DEF CycleInv, ReadInv, SaveInv, OverdueInv

LEMMA CycleLoad ==
    ASSUME NEW w, Roomy(w), TypeOK, CycleInv(w), faults = 0,
           NEW k \in Key, LoadIncident(w, k)
    PROVE  CycleInv(w)'
<1>1. /\ w \in Worker /\ pc[w] = "correlate" /\ Group(w, k) # {}
      /\ UNCHANGED <<now, table, lagging, stamp>>
  BY DEF LoadIncident, Roomy
<1> DEFINE kept == IF Exists(table[k]) THEN table[k] ELSE NewIncident(stamp[w])
<1>2. MergeInto(w, k, kept)
  BY <1>1 DEF LoadIncident, Readable, CycleInv, ReadInv
<1>3. kept \in Incident /\ MadeFrom(w, table[k], kept)
  <2>1. table[k] \in Incident /\ NewIncident(stamp[w]) \in Incident
    BY <1>1, NewIncidentType DEF TypeOK, Time
  <2> QED BY <2>1 DEF MadeFrom, NewIncident
<1> HIDE DEF kept
<1>4. PICK c \in {kept.count} \cup Count :
          /\ mem' = [mem EXCEPT ![w] = [key |-> k, row |-> Merge(kept, Group(w, k), c)]]
          /\ batch' = [batch EXCEPT ![w] = @ \ Group(w, k)]
          /\ pc' = [pc EXCEPT ![w] = "save"]
  BY <1>2 DEF MergeInto, Goto
<1> DEFINE merged == Merge(kept, Group(w, k), c)
<1>5. merged.codes = "some" /\ MadeFrom(w, table[k], merged)
  <2>1. PICK o \in Group(w, k) : TRUE
    BY <1>1
  <2>2. o.arn \in HasCode
    BY <1>1, <2>1 DEF Group, Roomy, TypeOK, Observation
  <2>3. {p.arn : p \in Group(w, k)} \cap HasCode # {}
    BY <2>1, <2>2
  <2> QED BY <1>3, <2>3 DEF Merge, MadeFrom, Incident
<1>6. mem'[w].key = k /\ mem'[w].row = merged /\ pc'[w] = "save"
  BY <1>1, <1>4 DEF TypeOK
<1>7. Group(w, k)' = {} /\ \A j \in Key : Group(w, j)' \subseteq Group(w, j)
  BY <1>1, <1>4 DEF Group, TypeOK
<1> HIDE DEF merged
<1>8. ReadInv(w)'
  BY <1>1, <1>7 DEF CycleInv, ReadInv, MadeFrom, Exists
<1>9. SaveInv(w)'
  BY <1>1, <1>5, <1>6, <1>7 DEF SaveInv, MadeFrom, Exists
<1>10. OverdueInv(w)'
  BY <1>6 DEF OverdueInv
<1> QED BY <1>1, <1>8, <1>9, <1>10 DEF CycleInv

LEMMA CycleSave ==
    ASSUME NEW w, Roomy(w), TypeOK, CycleInv(w), faults = 0, SaveIncident(w)
    PROVE  CycleInv(w)'
<1> DEFINE put == ToDynamo(mem[w].row)
<1>1. /\ w \in Worker /\ pc[w] = "save" /\ pc'[w] = "correlate"
      /\ UNCHANGED <<now, batch, stamp, mem>>
  BY DEF SaveIncident, Goto, Roomy, TypeOK
<1>2. PICK k \in Key : k = mem[w].key /\ mem[w].row \in Incident
  BY <1>1 DEF TypeOK
<1>3. /\ mem[w].row.codes = "some" /\ Group(w, k) = {} /\ MadeFrom(w, table[k], mem[w].row)
  BY <1>1, <1>2 DEF CycleInv, SaveInv
<1>4. put.codes = "some" /\ MadeFrom(w, table[k], put)
  BY <1>2, <1>3 DEF ToDynamo, MadeFrom, Incident
<1>5. \A j \in Key : /\ table'[j] = IF j = k THEN put ELSE table[j]
                     /\ lagging'[j] = IF j = k THEN table[k] ELSE lagging[j]
                     /\ Group(w, j)' = Group(w, j)
  BY <1>1, <1>2 DEF SaveIncident, Write, TypeOK, Group
<1> HIDE DEF put
<1>6. ReadInv(w)'
  BY <1>1, <1>3, <1>4, <1>5 DEF CycleInv, ReadInv, MadeFrom, Exists
<1>7. \A j \in Key : table'[j].codes # "absent" /\ lagging'[j].codes # "absent"
  BY <1>4, <1>5 DEF CycleInv
<1>8. SaveInv(w)' /\ OverdueInv(w)'
  BY <1>1 DEF SaveInv, OverdueInv
<1> QED BY <1>1, <1>6, <1>7, <1>8 DEF CycleInv

LEMMA CycleScan ==
    ASSUME NEW w, Roomy(w), TypeOK, CycleInv(w), faults = 0, ScanIncidents(w)
    PROVE  CycleInv(w)'
<1>1. /\ w \in Worker /\ pc[w] = "correlate" /\ pc'[w] = "flush" /\ flushAt'[w] = now
      /\ UNCHANGED <<now, table, lagging, stamp, mem>>
  BY DEF ScanIncidents, Goto, Roomy, TypeOK
<1>2. PICK stale \in SUBSET {k \in FirstPage : lagging[k] # table[k]} :
        LET Seen(k) == IF k \in stale THEN lagging[k] ELSE table[k]
        IN  snapshot' = [snapshot EXCEPT ![w] =
                {[key |-> k, row |-> Seen(k)] : k \in {j \in FirstPage : Exists(Seen(j))}}]
  BY DEF ScanIncidents
<1> DEFINE Seen(k) == IF k \in stale THEN lagging[k] ELSE table[k]
           read == {[key |-> k, row |-> Seen(k)] : k \in {j \in FirstPage : Exists(Seen(j))}}
<1>3. snapshot'[w] = read
  <2>1. snapshot' = [snapshot EXCEPT ![w] = read]
    BY <1>2
  <2> HIDE DEF read
  <2> QED BY <1>1, <2>1 DEF TypeOK
<1>4. ASSUME NEW k \in Key, Exists(table[k]), IsMature(table[k], stamp[w]),
             table[k].alert # "sent"
      PROVE  \E i \in read : /\ i.key = k /\ i.row.alert = "unsent"
                             /\ i.row.firstSeen = table[k].firstSeen
  <2>1. k \in FirstPage
    BY <1>4, ScanIsComplete
  <2>2. lagging[k] = table[k] \/ MadeFrom(w, lagging[k], table[k])
    BY <1>1, <1>4 DEF CycleInv, ReadInv
  <2>3. table[k].firstSeen # stamp[w]
    BY <1>1, <1>4, WindowAssumption DEF IsMature, Roomy, TypeOK, Time
  <2>4. /\ Exists(Seen(k)) /\ Seen(k).alert = table[k].alert
        /\ Seen(k).firstSeen = table[k].firstSeen
    BY <1>4, <2>2, <2>3 DEF MadeFrom
  <2>5. table[k].alert = "unsent"
    BY <1>4 DEF TypeOK, Incident
  <2> HIDE DEF Seen
  <2>6. [key |-> k, row |-> Seen(k)] \in read
    BY <2>1, <2>4
  <2> HIDE DEF read
  <2> QED BY <2>4, <2>5, <2>6
<1> HIDE DEF read
<1>5. OverdueInv(w)'
  BY <1>1, <1>3, <1>4 DEF CycleInv, OverdueInv, Exists, IsMature
<1>6. ReadInv(w)' /\ SaveInv(w)'
  BY <1>1 DEF ReadInv, SaveInv
<1> QED BY <1>1, <1>5, <1>6 DEF CycleInv

\* An incident leaves the snapshot: it is not due, or about to be marked.
LEMMA CycleExamine ==
    ASSUME NEW w, Roomy(w), TypeOK, CycleInv(w), faults = 0, Suppress(w) \/ Publish(w)
    PROVE  CycleInv(w)'
<1>1. /\ w \in Worker /\ pc[w] = "flush" /\ UNCHANGED <<now, table, lagging, stamp, flushAt>>
  BY DEF Suppress, Publish, Roomy
<1>2. PICK i \in snapshot[w] :
          /\ snapshot'[w] = snapshot[w] \ {i}
          /\ \/ ~IsDue(i.row, flushAt[w]) /\ pc'[w] = "flush"
             \/ pc'[w] = "mark" /\ mem'[w] = i
  BY <1>1 DEF Suppress, Publish, Goto, TypeOK
<1>3. i.key \in Key /\ i.row \in Incident
  BY <1>1 DEF TypeOK
<1>4. OverdueInv(w)'
  <2> SUFFICES ASSUME NEW k \in Key, Exists(table[k]), IsMature(table[k], stamp[w]),
                      table[k].alert # "sent"
               PROVE  \/ pc'[w] = "mark" /\ mem'[w].key = k
                      \/ \E j \in snapshot'[w] : /\ j.key = k /\ j.row.alert = "unsent"
                                                 /\ j.row.firstSeen = table[k].firstSeen
    BY <1>1 DEF CycleInv, OverdueInv, Exists, IsMature
  <2>1. PICK j \in snapshot[w] : /\ j.key = k /\ j.row.alert = "unsent"
                                 /\ j.row.firstSeen = table[k].firstSeen
    BY <1>1 DEF CycleInv, OverdueInv
  <2>2. CASE j # i
    BY <1>2, <2>1, <2>2
  <2>3. CASE j = i
    <3>1. stamp[w] \in Nat /\ flushAt[w] \in Nat /\ stamp[w] <= flushAt[w]
      BY <1>1 DEF CycleInv, OverdueInv, TypeOK, Time
    <3>2. table[k].firstSeen \in Nat
      BY DEF TypeOK, Incident, Exists
    <3>3. IsDue(i.row, flushAt[w])
      BY <2>1, <2>3, <3>1, <3>2, WindowAssumption DEF IsDue, IsMature
    <3> QED BY <1>2, <2>1, <2>3, <3>3
  <2> QED BY <2>2, <2>3
<1>5. ReadInv(w)' /\ SaveInv(w)'
  BY <1>2 DEF ReadInv, SaveInv
<1> QED BY <1>1, <1>4, <1>5 DEF CycleInv

LEMMA CycleMark ==
    ASSUME NEW w, Roomy(w), TypeOK, CycleInv(w), faults = 0, MarkAlerted(w)
    PROVE  CycleInv(w)'
<1> DEFINE marked == [table[mem[w].key] EXCEPT !.alert = "sent",
                                               !.lastCount = mem[w].row.count,
                                               !.lastRegions = mem[w].row.regions]
<1>1. /\ w \in Worker /\ pc[w] = "mark" /\ pc'[w] = "flush"
      /\ UNCHANGED <<now, stamp, flushAt, mem, snapshot>>
  BY DEF MarkAlerted, Goto, Roomy, TypeOK
<1>2. PICK k \in Key : k = mem[w].key /\ table[k] \in Incident
  BY <1>1 DEF TypeOK
<1>3. \A j \in Key : /\ table'[j] = IF j = k THEN marked ELSE table[j]
                     /\ lagging'[j] = IF j = k THEN table[k] ELSE lagging[j]
  BY <1>2 DEF MarkAlerted, Write, TypeOK
<1>4. marked.alert = "sent" /\ marked.codes = table[k].codes
  BY <1>2 DEF Incident
<1> HIDE DEF marked
<1>5. \A j \in Key : table'[j].codes # "absent" /\ lagging'[j].codes # "absent"
  BY <1>2, <1>3, <1>4 DEF CycleInv
<1>6. OverdueInv(w)'
  BY <1>1, <1>2, <1>3, <1>4 DEF CycleInv, OverdueInv, Exists, IsMature
<1>7. ReadInv(w)' /\ SaveInv(w)'
  BY <1>1 DEF ReadInv, SaveInv
<1> QED BY <1>1, <1>5, <1>6, <1>7 DEF CycleInv

\* Only an invocation without a failed call, and after its last incident, just ends.
LEMMA CycleEnds ==
    ASSUME NEW w, Roomy(w), TypeOK, CycleInv(w), Next, pc[w] # "idle", pc'[w] = "idle",
           faults' = 0
    PROVE  Finish(w) /\ faults = 0
<1>1. w \in Worker /\ faults \in Nat
  BY DEF Roomy, TypeOK
<1>2. \A kind : ~Fails(kind)
  BY <1>1 DEF Fails
<1>3. Correlate(w) \/ Flush(w)
  BY <1>2 DEF Next, Tick, Exhausted, vars, Dispatch, Crash, Roomy
<1>4. ~Correlate(w)
  <2>1. ASSUME NEW k \in Key PROVE ~MergeRaises(w, k)
    BY DEF MergeRaises, Readable, CycleInv
  <2> QED BY <1>1, <1>2, <2>1
          DEF Correlate, LoadIncident, LoadIncidentFails, MergeInto, SaveIncident,
              SaveIncidentFails, Goto, TypeOK
<1>5. Finish(w)
  BY <1>1, <1>2, <1>3, <1>4
     DEF Flush, ScanIncidents, ScanFails, Suppress, Publish, PublishRejected, PublishRaises,
         MarkAlerted, MarkFails, Goto, TypeOK
<1> QED BY <1>5 DEF Finish

LEMMA NextCycle ==
    ASSUME NEW w, Roomy(w), TypeOK, CycleInv(w), [Next]_vars
    PROVE  CycleInv(w)'
<1> SUFFICES ASSUME faults' = 0 PROVE CycleInv(w)'
  BY DEF CycleInv
<1> w \in Worker
  BY DEF Roomy
<1>1. \A kind : ~Fails(kind)
  BY DEF Fails, TypeOK
<1>2. CASE UNCHANGED vars
  BY <1>2 DEF CycleInv, ReadInv, SaveInv, OverdueInv, MadeFrom, Exists, IsMature, Group, vars
<1>3. CASE Tick
  <2>1. faults = 0 /\ stamp'[w] <= now'
    BY <1>3 DEF Tick, CycleInv, TypeOK, Time
  <2> QED BY <1>3, <2>1
          DEF Tick, CycleInv, ReadInv, SaveInv, OverdueInv, MadeFrom, Exists, IsMature, Group
<1>4. CASE Dispatch(w)
  BY <1>4, CycleDispatch
<1>5. CASE Correlate(w)
  <2>1. faults = 0
    BY <1>1, <1>5 DEF Correlate, LoadIncident, LoadIncidentFails, MergeRaises, SaveIncident,
                      SaveIncidentFails
  <2>2. ASSUME NEW k \in Key PROVE ~MergeRaises(w, k) /\ ~LoadIncidentFails(w, k)
    BY <1>1, <2>1 DEF MergeRaises, LoadIncidentFails, Readable, CycleInv
  <2> QED BY <1>1, <1>5, <2>1, <2>2, CycleLoad, CycleSave DEF Correlate, SaveIncidentFails
<1>6. CASE Flush(w)
  <2>1. ~ScanFails(w) /\ ~PublishRejected(w) /\ ~PublishRaises(w) /\ ~MarkFails(w)
    BY <1>1 DEF ScanFails, PublishRejected, PublishRaises, MarkFails
  <2>2. faults = 0
    BY <1>6, <2>1 DEF Flush, ScanIncidents, Suppress, Publish, MarkAlerted, Finish
  <2>3. CASE Finish(w)
    <3>1. pc'[w] = "idle" /\ UNCHANGED <<now, table, lagging, stamp>>
      BY <2>3 DEF Finish, Stop, Goto, TypeOK
    <3> QED BY <2>2, <3>1 DEF CycleInv, ReadInv, SaveInv, OverdueInv
  <2> QED BY <1>6, <2>1, <2>2, <2>3, CycleScan, CycleExamine, CycleMark DEF Flush
<1>7. ~Crash(w)
  BY <1>1 DEF Crash
<1> QED BY <1>2, <1>3, <1>4, <1>5, <1>6, <1>7 DEF Next, Exhausted, Roomy

\* With one invocation at a time, a type code in every event and a table that fits one
\* response of a scan, an invocation of which no call failed ends with every incident
\* alerted that was mature when it began, although reads and scans may lag.
THEOREM CyclesLeaveNothingOverdue ==
    ASSUME NEW u, Roomy(u) PROVE Spec => CycleLeavesNothingOverdue
<1> DEFINE Step ==
      \A w \in Worker : (pc[w] # "idle" /\ pc'[w] = "idle" /\ faults' = 0) =>
          \A k \in Key : (Exists(table[k]) /\ IsMature(table[k], stamp[w])) =>
              table[k].alert = "sent"
<1>1. Init => CycleInv(u)
  BY DEF Init, Roomy, CycleInv, ReadInv, SaveInv, OverdueInv, NoRow, NewIncident
<1>2. TypeOK /\ CycleInv(u) /\ [Next]_vars => CycleInv(u)'
  BY NextCycle
<1>3. TypeOK /\ CycleInv(u) /\ [Next]_vars => [Step]_vars
  <2> SUFFICES ASSUME TypeOK, CycleInv(u), Next, pc[u] # "idle", pc'[u] = "idle",
                      faults' = 0, NEW k \in Key, Exists(table[k]),
                      IsMature(table[k], stamp[u])
               PROVE  table[k].alert = "sent"
    BY DEF Roomy
  <2>1. faults = 0 /\ pc[u] = "flush" /\ snapshot[u] = {}
    BY CycleEnds DEF Finish
  <2> QED BY <2>1 DEF CycleInv, OverdueInv
<1> HIDE DEF Step
<1>4. CycleLeavesNothingOverdue <=> [][Step]_vars
  BY DEF CycleLeavesNothingOverdue, Step
<1> QED BY <1>1, <1>2, <1>3, <1>4, TypeCorrect, PTL DEF Spec
=============================================================================
