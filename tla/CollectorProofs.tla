--------------------------- MODULE CollectorProofs ---------------------------
(***************************************************************************)
(* Theorems about Collector, for any registry, any events and any number   *)
(* of overlapping invocations and failures.                                *)
(***************************************************************************)
EXTENDS Collector, TLAPS

-----------------------------------------------------------------------------
(* Type correctness *)

LEMMA BoundsAreNat ==
    /\ MaxDay \in Nat /\ WindowDays \in Nat /\ MaxFaults \in Nat /\ MaxVersion \in Nat
    /\ Day \subseteq Nat /\ 0 \in Day /\ Version \subseteq Nat /\ 0 \in Version
  BY BoundAssumption DEF Day, Version

LEMMA InitType == Init => TypeOK
<1> SUFFICES ASSUME Init PROVE TypeOK
  OBVIOUS
<1>1. upstream \in [Arn -> Health]
  BY DEF Init
<1>2. NoRow \in Row
  BY BoundsAreNat DEF NoRow, Row, Status
<1> QED BY <1>1, <1>2, BoundsAreNat DEF Init, TypeOK, OrgState, Main, Step

\* The environment changes only the clock, AWS Health and expired rows.
LEMMA EnvironmentType ==
    ASSUME TypeOK,
           NextDay \/ (\E a \in Arn : Revise(a)) \/ (\E k \in RowKey : Expire(k))
    PROVE  TypeOK'
<1>1. CASE NextDay
  BY <1>1, BoundsAreNat DEF NextDay, invocations, TypeOK, Day
<1>2. ASSUME NEW a \in Arn, Revise(a) PROVE TypeOK'
  <2>1. PICK s \in Status, t \in Start :
          upstream' = [upstream EXCEPT ![a] =
              [version |-> upstream[a].version + 1, status |-> s, start |-> t, updated |-> day]]
    BY <1>2 DEF Revise
  <2>2. upstream[a].version + 1 \in Version
    <3>1. upstream[a].version \in Version /\ upstream[a].version < MaxVersion
      BY <1>2 DEF Revise, TypeOK, Health
    <3> QED BY <3>1, BoundsAreNat DEF Version
  <2>3. upstream' \in [Arn -> Health]
    BY <2>1, <2>2 DEF TypeOK, Health
  <2> QED BY <1>2, <2>3 DEF Revise, invocations, TypeOK
<1>3. ASSUME NEW k \in RowKey, Expire(k) PROVE TypeOK'
  <2>1. NoRow \in Row
    BY BoundsAreNat DEF NoRow, Row, Status
  <2> QED BY <1>3, <2>1 DEF Expire, invocations, TypeOK
<1> QED BY <1>1, <1>2, <1>3

\* put_item of an event keeps the table well-formed.
LEMMA PutEventType ==
    ASSUME TypeOK, NEW o \in Org, NEW e \in Event, PutEvent(o, e)
    PROVE  table' \in [RowKey -> Row]
<1>1. <<e.arn, o, e.start>> \in RowKey
  BY DEF RowKey, Event
<1>2. [version |-> e.version, status |-> e.status, ttl |-> day + WindowDays] \in Row
  BY BoundsAreNat DEF Row, Event, TypeOK
<1> QED BY <1>1, <1>2 DEF PutEvent, TypeOK

LEMMA FailsType ==
    ASSUME TypeOK, NEW kind, Fails(kind)
    PROVE  faults' \in Nat
  BY DEF Fails, TypeOK

LEMMA GoneType ==
    ASSUME TypeOK, NEW w \in Worker, Gone(w), faults' \in Nat, handed' \in SUBSET Item
    PROVE  TypeOK'
<1>1. since' \in [Worker -> Day]
  BY BoundsAreNat DEF Gone, TypeOK
<1>2. main' \in [Worker -> Main] /\ step' \in [Thread -> Step]
  BY DEF Gone, TypeOK, Main, Step
<1>3. /\ todo' \in [Thread -> SUBSET Event]
      /\ items' \in [Thread -> SUBSET Item]
  BY DEF Gone, TypeOK
<1>4. /\ written' \in [Worker -> SUBSET Item]
      /\ errors' \in [Worker -> SUBSET Org]
  BY DEF Gone, TypeOK
<1> QED BY <1>1, <1>2, <1>3, <1>4 DEF Gone, TypeOK

LEMMA CollectOrgType ==
    ASSUME TypeOK, NEW w \in Worker, NEW o \in Org, CollectOrg(w, o)
    PROVE  TypeOK'
<1> USE DEF Goto, Step
<1>0. <<w, o>> \in Thread
  BY DEF Thread
<1>1. CASE Begin(w, o)
  BY <1>1 DEF Begin, TypeOK
<1>2. CASE AssumeOrgRole(w, o)
  BY <1>2 DEF AssumeOrgRole, TypeOK
<1>3. CASE LoadAccountMap(w, o)
  BY <1>3 DEF LoadAccountMap, TypeOK
<1>4. CASE DescribeEvents(w, o)
  <2>1. EventsInWindow(w) \in SUBSET Event
    BY DEF EventsInWindow, Event, TypeOK, Health
  <2> QED BY <1>4, <2>1 DEF DescribeEvents, TypeOK
<1>5. CASE CallFails(w, o)
  <2>1. faults' \in Nat
    BY <1>5, FailsType DEF CallFails
  <2>2. step' \in [Thread -> Step]
    BY <1>0, <1>5 DEF CallFails, TypeOK
  <2> QED BY <1>5, <2>1, <2>2 DEF CallFails, TypeOK
<1>6. CASE ProcessEvent(w, o)
  <2>1. PICK e \in todo[<<w, o>>] :
          /\ todo' = [todo EXCEPT ![<<w, o>>] = @ \ {e}]
          /\ \/ UNCHANGED <<table, items>>
             \/ /\ PutEvent(o, e)
                /\ items' = [items EXCEPT ![<<w, o>>] = @ \cup
                      {[arn |-> e.arn, org |-> o, version |-> e.version, status |-> e.status]}]
    BY <1>6 DEF ProcessEvent
  <2>2. e \in Event
    BY <1>0 DEF TypeOK
  <2>3. table' \in [RowKey -> Row]
    BY <2>1, <2>2, PutEventType DEF TypeOK
  <2> DEFINE item == [arn |-> e.arn, org |-> o, version |-> e.version, status |-> e.status]
  <2>6. item \in Item
    BY <2>2 DEF Item, Event
  <2>7. items' = items \/ items' = [items EXCEPT ![<<w, o>>] = @ \cup {item}]
    BY <2>1
  <2> HIDE DEF item
  <2>4. items' \in [Thread -> SUBSET Item]
    BY <1>0, <2>6, <2>7 DEF TypeOK
  <2>5. todo' \in [Thread -> SUBSET Event]
    BY <2>1 DEF TypeOK
  <2> QED BY <1>6, <2>3, <2>4, <2>5 DEF ProcessEvent, TypeOK
<1>7. CASE SkipEvent(w, o)
  <2>1. PICK e \in todo[<<w, o>>] :
          /\ todo' = [todo EXCEPT ![<<w, o>>] = @ \ {e}]
          /\ PutEvent(o, e) \/ UNCHANGED table
    BY <1>7 DEF SkipEvent
  <2>2. e \in Event
    BY <1>0 DEF TypeOK
  <2>3. table' \in [RowKey -> Row]
    BY <2>1, <2>2, PutEventType DEF TypeOK
  <2>4. faults' \in Nat
    BY <1>7 DEF SkipEvent, Fails, TypeOK
  <2> QED BY <1>7, <2>1, <2>3, <2>4 DEF SkipEvent, TypeOK
<1>8. CASE RecordSuccess(w, o)
  <2>1. SucceededState \in OrgState
    BY DEF SucceededState, OrgState, TypeOK
  <2> QED BY <1>8, <2>1 DEF RecordSuccess, TypeOK
<1>9. CASE RecordSuccessFails(w, o)
  <2>1. faults' \in Nat
    BY <1>9, FailsType DEF RecordSuccessFails
  <2> QED BY <1>9, <2>1 DEF RecordSuccessFails, TypeOK
<1> QED BY <1>1, <1>2, <1>3, <1>4, <1>5, <1>6, <1>7, <1>8, <1>9 DEF CollectOrg

LEMMA TakeFutureType ==
    ASSUME TypeOK, NEW w \in Worker, NEW o \in Org, TakeFuture(w, o)
    PROVE  TypeOK'
<1> USE DEF Goto, Step
<1>0. <<w, o>> \in Thread
  BY DEF Thread
<1>1. CASE TakeResult(w, o)
  BY <1>0, <1>1 DEF TakeResult, TypeOK
<1>2. CASE TakeError(w, o)
  <2>1. FailedState \in OrgState
    BY DEF FailedState, OrgState, TypeOK
  <2> QED BY <1>2, <2>1 DEF TakeError, TypeOK
<1>3. CASE TakeErrorRaises(w, o)
  <2>1. faults' \in Nat
    BY <1>3, FailsType DEF TakeErrorRaises, TypeOK
  <2> QED BY <1>3, <2>1 DEF TakeErrorRaises, TypeOK, Main
<1> QED BY <1>1, <1>2, <1>3 DEF TakeFuture

LEMMA ReturnType ==
    ASSUME TypeOK, NEW w \in Worker, Return(w) \/ Crash(w)
    PROVE  TypeOK'
<1>1. Gone(w)
  BY DEF Return, Dispatch, DispatchRaises, Abort, Crash
<1>2. faults' \in Nat /\ handed' \in SUBSET Item
  BY DEF Return, Dispatch, DispatchRaises, Abort, Crash, Fails, TypeOK
<1> QED BY <1>1, <1>2, GoneType

LEMMA NextType == TypeOK /\ [Next]_vars => TypeOK'
<1> SUFFICES ASSUME TypeOK, [Next]_vars PROVE TypeOK'
  OBVIOUS
<1>1. CASE NextDay \/ (\E a \in Arn : Revise(a)) \/ (\E k \in RowKey : Expire(k))
  BY <1>1, EnvironmentType
<1>2. ASSUME NEW w \in Worker, Submit(w) PROVE TypeOK'
  BY <1>2 DEF Submit, TypeOK, Main, Step
<1>3. ASSUME NEW w \in Worker, NEW o \in Org, CollectOrg(w, o) PROVE TypeOK'
  BY <1>3, CollectOrgType
<1>4. ASSUME NEW w \in Worker, NEW o \in Org, TakeFuture(w, o) PROVE TypeOK'
  BY <1>4, TakeFutureType
<1>5. ASSUME NEW w \in Worker, Return(w) \/ Crash(w) PROVE TypeOK'
  BY <1>5, ReturnType
<1>6. CASE UNCHANGED vars
  BY <1>6 DEF vars, TypeOK
<1> QED BY <1>1, <1>2, <1>3, <1>4, <1>5, <1>6 DEF Next

\* Every variable keeps its type.
THEOREM TypeCorrect == Spec => []TypeOK
  BY InitType, NextType, PTL DEF Spec

-----------------------------------------------------------------------------
(* What is handed over is real *)

Complete(o) == o \in Named \cap WithRole
Known(a, v) == 1 <= v /\ v <= upstream[a].version
RealItem(i) == i.org \in Affects[i.arn] /\ Complete(i.org) /\ Known(i.arn, i.version)

\* The strengthening: a pipeline past a KeyError belongs to a complete entry, and
\* what it fetched and wrote is something AWS Health reported.
RealInv ==
    /\ \A w \in Worker, o \in Org :
          /\ step[<<w, o>>] = "assume" => o \in Named
          /\ step[<<w, o>>] \in {"accounts", "events", "process", "ok"} => Complete(o)
          /\ \A e \in todo[<<w, o>>] : Known(e.arn, e.version)
          /\ \A i \in items[<<w, o>>] : RealItem(i)
    /\ \A w \in Worker : \A i \in written[w] : RealItem(i)
    /\ \A i \in handed : RealItem(i)

\* Steps that fetch nothing, put no event and advance no pipeline past its entry.
LEMMA RealUnchanged ==
    ASSUME TypeOK, RealInv, upstream' = upstream,
           \A w \in Worker, o \in Org :
              /\ step'[<<w, o>>] \in {step[<<w, o>>], "none", "queued", "failed", "handled"}
              /\ todo'[<<w, o>>] \subseteq todo[<<w, o>>]
              /\ items'[<<w, o>>] \subseteq items[<<w, o>>],
           \A w \in Worker : \A i \in written'[w] : RealItem(i),
           \A i \in handed' : RealItem(i)
    PROVE  RealInv'
  BY DEF RealInv, RealItem, Known, Complete

\* One pipeline moves on within what its entry allows.
LEMMA RealStep ==
    ASSUME TypeOK, RealInv, NEW w \in Worker, NEW o \in Org, NEW label \in Step,
           Goto(w, o, label), label = "assume" => o \in Named,
           label \in {"accounts", "events", "process", "ok"} => Complete(o),
           UNCHANGED <<upstream, items, written, handed>>,
           \A v \in Worker, p \in Org :
              \A e \in todo'[<<v, p>>] : Known(e.arn, e.version)
    PROVE  RealInv'
<1>1. \A v \in Worker, p \in Org :
          step'[<<v, p>>] = IF v = w /\ p = o THEN label ELSE step[<<v, p>>]
  BY DEF Goto, TypeOK, Thread
<1> QED BY <1>1 DEF RealInv, RealItem, Known, Complete

LEMMA CollectOrgReal ==
    ASSUME TypeOK, RealInv, NEW w \in Worker, NEW o \in Org, CollectOrg(w, o)
    PROVE  RealInv'
<1>0. <<w, o>> \in Thread /\ todo \in [Thread -> SUBSET Event] /\ items \in [Thread -> SUBSET Item]
  BY DEF Thread, TypeOK
<1>a. \A v \in Worker, p \in Org : \A e \in todo[<<v, p>>] : Known(e.arn, e.version)
  BY DEF RealInv
<1>1. CASE Begin(w, o)
  BY <1>1, <1>a, RealStep DEF Begin, Step
<1>2. CASE AssumeOrgRole(w, o)
  <2>1. o \in Named
    BY <1>2 DEF AssumeOrgRole, RealInv
  <2> QED BY <1>2, <1>a, <2>1, RealStep DEF AssumeOrgRole, Step, Complete
<1>3. CASE LoadAccountMap(w, o)
  <2>1. Complete(o)
    BY <1>3 DEF LoadAccountMap, RealInv
  <2> QED BY <1>3, <1>a, <2>1, RealStep DEF LoadAccountMap, Step
<1>4. CASE DescribeEvents(w, o)
  <2>1. Complete(o)
    BY <1>4 DEF DescribeEvents, RealInv
  <2>2. \A e \in EventsInWindow(w) : Known(e.arn, e.version)
    <3>1. \A a \in Arn : upstream[a].version \in Nat
      BY BoundsAreNat DEF TypeOK, Health
    <3>2. \A a \in Arn : UpdatedSince(a, since[w]) => Known(a, upstream[a].version)
      BY <3>1 DEF UpdatedSince, Known
    <3> QED BY <3>2 DEF EventsInWindow
  <2>3. \A v \in Worker, p \in Org : \A e \in todo'[<<v, p>>] : Known(e.arn, e.version)
    BY <1>0, <1>4, <1>a, <2>2 DEF DescribeEvents
  <2> QED BY <1>4, <2>1, <2>3, RealStep DEF DescribeEvents, Step
<1>5. CASE CallFails(w, o)
  <2>1. Goto(w, o, "failed") /\ UNCHANGED <<upstream, items, written, handed, todo>>
    BY <1>5 DEF CallFails
  <2> QED BY <1>a, <2>1, RealStep DEF Step
<1>6. CASE ProcessEvent(w, o)
  <2>1. PICK e \in todo[<<w, o>>] :
          /\ todo' = [todo EXCEPT ![<<w, o>>] = @ \ {e}]
          /\ \/ UNCHANGED <<table, items>>
             \/ /\ o \in Affects[e.arn]
                /\ items' = [items EXCEPT ![<<w, o>>] = @ \cup
                      {[arn |-> e.arn, org |-> o, version |-> e.version, status |-> e.status]}]
    BY <1>6 DEF ProcessEvent
  <2> DEFINE item == [arn |-> e.arn, org |-> o, version |-> e.version, status |-> e.status]
  <2>2. o \in Affects[e.arn] => RealItem(item)
    BY <1>6, <2>1 DEF ProcessEvent, RealInv, RealItem
  <2>3. \/ items' = items
        \/ o \in Affects[e.arn] /\ items' = [items EXCEPT ![<<w, o>>] = @ \cup {item}]
    BY <2>1
  <2> HIDE DEF item
  <2>4. \A v \in Worker, p \in Org : \A i \in items'[<<v, p>>] : RealItem(i)
    <3>1. \A v \in Worker, p \in Org : \A i \in items[<<v, p>>] : RealItem(i)
      BY DEF RealInv
    <3>2. \A v \in Worker, p \in Org :
            \/ items'[<<v, p>>] = items[<<v, p>>]
            \/ /\ o \in Affects[e.arn]
               /\ items'[<<v, p>>] = items[<<v, p>>] \cup {item}
      <4> SUFFICES ASSUME NEW v \in Worker, NEW p \in Org
                   PROVE  \/ items'[<<v, p>>] = items[<<v, p>>]
                          \/ /\ o \in Affects[e.arn]
                             /\ items'[<<v, p>>] = items[<<v, p>>] \cup {item}
        OBVIOUS
      <4>1. <<v, p>> \in Thread
        BY DEF Thread
      <4>2. CASE <<v, p>> = <<w, o>>
        BY <1>0, <2>3, <4>1, <4>2
      <4>3. CASE <<v, p>> # <<w, o>>
        BY <1>0, <2>3, <4>1, <4>3
      <4> QED BY <4>2, <4>3
    <3> QED BY <2>2, <3>1, <3>2
  <2>5. \A v \in Worker, p \in Org : todo'[<<v, p>>] \subseteq todo[<<v, p>>]
    BY <1>0, <2>1
  <2>6. UNCHANGED <<upstream, step, written, handed>>
    BY <1>6 DEF ProcessEvent
  <2> QED BY <2>4, <2>5, <2>6 DEF RealInv, RealItem, Known, Complete
<1>7. CASE SkipEvent(w, o)
  <2>1. \A v \in Worker, p \in Org : todo'[<<v, p>>] \subseteq todo[<<v, p>>]
    BY <1>0, <1>7 DEF SkipEvent
  <2> QED BY <1>7, <2>1, RealUnchanged DEF SkipEvent, RealInv
<1>8. CASE RecordSuccess(w, o)
  <2>1. Complete(o)
    BY <1>8 DEF RecordSuccess, RealInv
  <2> QED BY <1>8, <1>a, <2>1, RealStep DEF RecordSuccess, Step
<1>9. CASE RecordSuccessFails(w, o)
  BY <1>9, <1>a, RealStep DEF RecordSuccessFails, Step
<1> QED BY <1>1, <1>2, <1>3, <1>4, <1>5, <1>6, <1>7, <1>8, <1>9 DEF CollectOrg

LEMMA TakeFutureReal ==
    ASSUME TypeOK, RealInv, NEW w \in Worker, NEW o \in Org, TakeFuture(w, o)
    PROVE  RealInv'
<1>1. /\ UNCHANGED <<upstream, todo, items, handed>>
      /\ step' = [step EXCEPT ![<<w, o>>] = "handled"]
  BY DEF TakeFuture, TakeResult, TakeError, TakeErrorRaises, Goto
<1>2. \A v \in Worker : \A i \in written'[v] : RealItem(i)
  <2>1. CASE TakeResult(w, o)
    <3>1. written' = [written EXCEPT ![w] = @ \cup items[<<w, o>>]]
      BY <2>1 DEF TakeResult
    <3> QED BY <3>1 DEF RealInv, TypeOK
  <2>2. CASE written' = written
    BY <2>2 DEF RealInv
  <2> QED BY <2>1, <2>2 DEF TakeFuture, TakeError, TakeErrorRaises
<1>3. \A v \in Worker, p \in Org : step'[<<v, p>>] \in {step[<<v, p>>], "handled"}
  BY <1>1 DEF TypeOK, Thread
<1> QED BY <1>1, <1>2, <1>3, RealUnchanged DEF RealInv

LEMMA NextReal == TypeOK /\ RealInv /\ [Next]_vars => RealInv'
<1> SUFFICES ASSUME TypeOK, RealInv, [Next]_vars PROVE RealInv'
  OBVIOUS
<1>1. ASSUME NEW a \in Arn, Revise(a) PROVE RealInv'
  <2>0. \A b \in Arn : upstream[b].version \in Nat
    BY BoundsAreNat DEF TypeOK, Health
  <2>a. \A b \in Arn : upstream'[b] = upstream[b] \/ upstream'[b].version = upstream[b].version + 1
    BY <1>1 DEF Revise, TypeOK
  <2>1. \A b \in Arn : upstream'[b].version >= upstream[b].version
    BY <2>0, <2>a
  <2>2. \A b \in Arn : upstream[b].version \in Nat /\ upstream'[b].version \in Nat
    BY <2>0, <2>a
  <2>3. \A b \in Arn, v \in Nat : Known(b, v) => Known(b, v)'
    BY <2>1, <2>2 DEF Known
  <2>4. UNCHANGED <<step, todo, items, written, handed>>
    BY <1>1 DEF Revise, invocations
  <2>5. \A w \in Worker, o \in Org : \A e \in todo[<<w, o>>] : e.arn \in Arn /\ e.version \in Nat
    <3>1. \A w \in Worker, o \in Org : todo[<<w, o>>] \subseteq Event
      BY DEF TypeOK, Thread
    <3>2. \A e \in Event : e.arn \in Arn /\ e.version \in Nat
      BY BoundsAreNat DEF Event
    <3> QED BY <3>1, <3>2
  <2>6. \A i \in Item : RealItem(i) => RealItem(i)'
    BY <2>3, BoundsAreNat DEF RealItem, Item, Complete
  <2>7. /\ \A w \in Worker, o \in Org : items[<<w, o>>] \subseteq Item
        /\ \A w \in Worker : written[w] \subseteq Item
        /\ handed \subseteq Item
    BY DEF TypeOK, Thread
  <2>8. \A w \in Worker, o \in Org :
          /\ \A e \in todo'[<<w, o>>] : Known(e.arn, e.version)'
          /\ \A i \in items'[<<w, o>>] : RealItem(i)'
    BY <2>3, <2>4, <2>5, <2>6, <2>7 DEF RealInv
  <2>9. /\ \A w \in Worker : \A i \in written'[w] : RealItem(i)'
        /\ \A i \in handed' : RealItem(i)'
    BY <2>4, <2>6, <2>7 DEF RealInv
  <2> QED BY <2>4, <2>8, <2>9 DEF RealInv, Complete
<1>2. ASSUME UNCHANGED <<upstream, step, todo, items, written, handed>> PROVE RealInv'
  BY <1>2 DEF RealInv, RealItem, Known
<1>3. ASSUME NEW w \in Worker, Submit(w) PROVE RealInv'
  <2>1. \A v \in Worker, o \in Org : step'[<<v, o>>] \in {step[<<v, o>>], "queued"}
    BY <1>3 DEF Submit, TypeOK, Thread
  <2> QED BY <1>3, <2>1, RealUnchanged DEF Submit, RealInv
<1>4. ASSUME NEW w \in Worker, NEW o \in Org, CollectOrg(w, o) PROVE RealInv'
  BY <1>4, CollectOrgReal
<1>5. ASSUME NEW w \in Worker, NEW o \in Org, TakeFuture(w, o) PROVE RealInv'
  BY <1>5, TakeFutureReal
<1>6. ASSUME NEW w \in Worker, Return(w) \/ Crash(w) PROVE RealInv'
  <2>1. Gone(w)
    BY <1>6 DEF Return, Dispatch, DispatchRaises, Abort, Crash
  <2>2. handed' \in {handed, handed \cup written[w]}
    BY <1>6 DEF Return, Dispatch, DispatchRaises, Abort, Crash
  <2>3. \A v \in Worker, o \in Org :
          /\ step'[<<v, o>>] \in {step[<<v, o>>], "none"}
          /\ todo'[<<v, o>>] \subseteq todo[<<v, o>>]
          /\ items'[<<v, o>>] \subseteq items[<<v, o>>]
    BY <2>1 DEF Gone, TypeOK, Thread
  <2>4. \A v \in Worker : written'[v] \subseteq written[v]
    BY <2>1 DEF Gone, TypeOK
  <2>5. upstream' = upstream
    BY <2>1 DEF Gone
  <2> QED BY <2>2, <2>3, <2>4, <2>5, RealUnchanged DEF RealInv
<1> QED BY <1>1, <1>2, <1>3, <1>4, <1>5, <1>6
        DEF Next, NextDay, Expire, invocations, vars

\* The dispatcher is handed only items of complete entries that the event affects,
\* in a version AWS Health has reported.
THEOREM OnlyRealItems == Spec => []HandedIsReal
<1>1. Init => RealInv
  BY DEF Init, RealInv, Thread
<1>2. RealInv => HandedIsReal
  BY DEF RealInv, RealItem, Known, Complete, HandedIsReal
<1> QED BY <1>1, <1>2, TypeCorrect, NextReal, PTL DEF Spec

-----------------------------------------------------------------------------
(* What is handed over is everything the successful organisations wrote *)

\* The strengthening: between invocations nothing is held, a pipeline's items are
\* its own, and a future is accounted for in exactly one way when it is taken.
SplitInv ==
    \A w \in Worker :
       /\ main[w] = "idle" => /\ written[w] = {} /\ errors[w] = {}
                              /\ \A o \in Org : step[<<w, o>>] = "none" /\ items[<<w, o>>] = {}
       /\ \A i \in written[w] : step[<<w, i.org>>] = "handled" /\ i.org \notin errors[w]
       /\ \A o \in errors[w] : step[<<w, o>>] = "handled"
       /\ \A o \in Org :
             /\ \A i \in items[<<w, o>>] : i.org = o
             /\ (step[<<w, o>>] = "handled" /\ o \notin errors[w]) => items[<<w, o>>] \subseteq written[w]

\* A step of one pipeline, not yet taken, that may add an item of its own.
LEMMA SplitPipeline ==
    ASSUME TypeOK, SplitInv, NEW w \in Worker, NEW o \in Org, NEW label \in Step,
           step[<<w, o>>] \notin {"none", "handled"}, label # "handled",
           step' = [step EXCEPT ![<<w, o>>] = label],
           NEW new \in SUBSET {i \in Item : i.org = o},
           items' = [items EXCEPT ![<<w, o>>] = @ \cup new],
           UNCHANGED <<main, written, errors>>
    PROVE  SplitInv'
<1>1. \A v \in Worker, p \in Org : <<v, p>> \in Thread
  BY DEF Thread
<1>2. \A v \in Worker, p \in Org : <<v, p>> # <<w, o>> =>
          step'[<<v, p>>] = step[<<v, p>>] /\ items'[<<v, p>>] = items[<<v, p>>]
  BY <1>1 DEF TypeOK
<1>3. /\ step'[<<w, o>>] = label
      /\ items'[<<w, o>>] = items[<<w, o>>] \cup new
  BY <1>1 DEF TypeOK
<1>4. \A v \in Worker : \A i \in written[v] : i.org \in Org
  BY DEF TypeOK, Item
<1>5. \A v \in Worker : errors[v] \subseteq Org
  BY DEF TypeOK
<1>6. main[w] # "idle"
  BY DEF SplitInv
<1> SUFFICES ASSUME NEW v \in Worker
             PROVE
       /\ main'[v] = "idle" => /\ written'[v] = {} /\ errors'[v] = {}
                               /\ \A p \in Org : step'[<<v, p>>] = "none" /\ items'[<<v, p>>] = {}
       /\ \A i \in written'[v] : step'[<<v, i.org>>] = "handled" /\ i.org \notin errors'[v]
       /\ \A p \in errors'[v] : step'[<<v, p>>] = "handled"
       /\ \A p \in Org :
             /\ \A i \in items'[<<v, p>>] : i.org = p
             /\ (step'[<<v, p>>] = "handled" /\ p \notin errors'[v])
                    => items'[<<v, p>>] \subseteq written'[v]
  BY DEF SplitInv
<1>7. main'[v] = "idle" => /\ written'[v] = {} /\ errors'[v] = {}
                           /\ \A p \in Org : step'[<<v, p>>] = "none" /\ items'[<<v, p>>] = {}
  BY <1>2, <1>6 DEF SplitInv
<1>8. \A i \in written'[v] : step'[<<v, i.org>>] = "handled" /\ i.org \notin errors'[v]
  BY <1>2, <1>4 DEF SplitInv
<1>9. \A p \in errors'[v] : step'[<<v, p>>] = "handled"
  BY <1>2, <1>5 DEF SplitInv
<1>10. ASSUME NEW p \in Org
       PROVE  /\ \A i \in items'[<<v, p>>] : i.org = p
              /\ (step'[<<v, p>>] = "handled" /\ p \notin errors'[v])
                    => items'[<<v, p>>] \subseteq written'[v]
  <2>1. CASE <<v, p>> = <<w, o>>
    BY <1>3, <2>1 DEF SplitInv
  <2>2. CASE <<v, p>> # <<w, o>>
    BY <1>2, <2>2 DEF SplitInv
  <2> QED BY <2>1, <2>2
<1> QED BY <1>7, <1>8, <1>9, <1>10

LEMMA CollectOrgSplit ==
    ASSUME TypeOK, SplitInv, NEW w \in Worker, NEW o \in Org, CollectOrg(w, o)
    PROVE  SplitInv'
<1>0. <<w, o>> \in Thread /\ todo \in [Thread -> SUBSET Event]
      /\ items \in [Thread -> SUBSET Item] /\ step \in [Thread -> Step]
  BY DEF Thread, TypeOK
<1>1. UNCHANGED <<main, written, errors>>
  BY DEF CollectOrg, Begin, AssumeOrgRole, LoadAccountMap, DescribeEvents, CallFails,
         ProcessEvent, SkipEvent, RecordSuccess, RecordSuccessFails
<1>2. step[<<w, o>>] \notin {"none", "handled"}
  BY DEF CollectOrg, Begin, AssumeOrgRole, LoadAccountMap, DescribeEvents, CallFails,
         ProcessEvent, SkipEvent, RecordSuccess, RecordSuccessFails
<1>3. PICK label \in Step : /\ label # "handled"
                           /\ step' = [step EXCEPT ![<<w, o>>] = label]
  <2>1. CASE step' = step
    <3>1. step' = [step EXCEPT ![<<w, o>>] = step[<<w, o>>]] /\ step[<<w, o>>] \in Step
      BY <1>0, <2>1
    <3> QED BY <1>2, <3>1
  <2>2. CASE \E l \in {"assume", "accounts", "events", "process", "ok", "failed"} :
                step' = [step EXCEPT ![<<w, o>>] = l]
    BY <2>2 DEF Step
  <2> QED BY <2>1, <2>2
          DEF CollectOrg, Begin, AssumeOrgRole, LoadAccountMap, DescribeEvents, CallFails,
              ProcessEvent, SkipEvent, RecordSuccess, RecordSuccessFails, Goto
<1>4. PICK new \in SUBSET {i \in Item : i.org = o} :
          items' = [items EXCEPT ![<<w, o>>] = @ \cup new]
  <2>1. CASE items' = items
    <3>1. items' = [items EXCEPT ![<<w, o>>] = @ \cup {}]
      BY <1>0, <2>1
    <3> QED BY <3>1
  <2>2. CASE ProcessEvent(w, o) /\ items' # items
    <3>1. PICK e \in todo[<<w, o>>] :
            items' = [items EXCEPT ![<<w, o>>] = @ \cup
                {[arn |-> e.arn, org |-> o, version |-> e.version, status |-> e.status]}]
      BY <2>2 DEF ProcessEvent
    <3>2. e \in Event
      BY <1>0
    <3>3. [arn |-> e.arn, org |-> o, version |-> e.version, status |-> e.status]
             \in {i \in Item : i.org = o}
      BY <3>2 DEF Item, Event
    <3> QED BY <3>1, <3>3
  <2> QED BY <2>1, <2>2
          DEF CollectOrg, Begin, AssumeOrgRole, LoadAccountMap, DescribeEvents, CallFails,
              SkipEvent, RecordSuccess, RecordSuccessFails
<1> QED BY <1>1, <1>2, <1>3, <1>4, SplitPipeline

LEMMA TakeFutureSplit ==
    ASSUME TypeOK, SplitInv, NEW w \in Worker, NEW o \in Org, TakeFuture(w, o)
    PROVE  SplitInv'
<1>1. \A v \in Worker, p \in Org : <<v, p>> \in Thread
  BY DEF Thread
<1>2. step' = [step EXCEPT ![<<w, o>>] = "handled"] /\ items' = items
  BY DEF TakeFuture, TakeResult, TakeError, TakeErrorRaises, Goto
<1>3. /\ step'[<<w, o>>] = "handled"
      /\ \A v \in Worker, p \in Org : <<v, p>> # <<w, o>> => step'[<<v, p>>] = step[<<v, p>>]
  BY <1>1, <1>2 DEF TypeOK
<1>4. main[w] # "idle" /\ main'[w] # "idle" /\ step[<<w, o>>] # "handled"
  BY DEF TakeFuture, TakeResult, TakeError, TakeErrorRaises, TypeOK
<1>5. \A v \in Worker : v # w =>
          main'[v] = main[v] /\ written'[v] = written[v] /\ errors'[v] = errors[v]
  BY DEF TakeFuture, TakeResult, TakeError, TakeErrorRaises, TypeOK
<1>6. \/ written'[w] = written[w] \cup items[<<w, o>>] /\ errors'[w] = errors[w]
      \/ written'[w] = written[w] /\ errors'[w] = errors[w] \cup {o}
  BY DEF TakeFuture, TakeResult, TakeError, TakeErrorRaises, TypeOK
<1>7. \A v \in Worker : /\ \A i \in written[v] : i.org \in Org
                        /\ errors[v] \subseteq Org
  BY DEF TypeOK, Item
<1> SUFFICES ASSUME NEW v \in Worker
             PROVE
       /\ main'[v] = "idle" => /\ written'[v] = {} /\ errors'[v] = {}
                               /\ \A p \in Org : step'[<<v, p>>] = "none" /\ items'[<<v, p>>] = {}
       /\ \A i \in written'[v] : step'[<<v, i.org>>] = "handled" /\ i.org \notin errors'[v]
       /\ \A p \in errors'[v] : step'[<<v, p>>] = "handled"
       /\ \A p \in Org :
             /\ \A i \in items'[<<v, p>>] : i.org = p
             /\ (step'[<<v, p>>] = "handled" /\ p \notin errors'[v])
                    => items'[<<v, p>>] \subseteq written'[v]
  BY DEF SplitInv
<1>8. CASE v # w
  BY <1>2, <1>3, <1>5, <1>7, <1>8 DEF SplitInv
<1>9. CASE v = w
  <2>1. \A i \in written'[w] : step'[<<w, i.org>>] = "handled" /\ i.org \notin errors'[w]
    BY <1>3, <1>4, <1>6, <1>7 DEF SplitInv
  <2>2. \A p \in errors'[w] : step'[<<w, p>>] = "handled"
    BY <1>3, <1>6, <1>7 DEF SplitInv
  <2>3. ASSUME NEW p \in Org
        PROVE  /\ \A i \in items'[<<w, p>>] : i.org = p
               /\ (step'[<<w, p>>] = "handled" /\ p \notin errors'[w])
                      => items'[<<w, p>>] \subseteq written'[w]
    BY <1>2, <1>3, <1>6 DEF SplitInv
  <2> QED BY <1>4, <1>9, <2>1, <2>2, <2>3
<1> QED BY <1>8, <1>9

LEMMA NextSplit == TypeOK /\ SplitInv /\ [Next]_vars => SplitInv'
<1> SUFFICES ASSUME TypeOK, SplitInv, [Next]_vars PROVE SplitInv'
  OBVIOUS
<1>1. ASSUME UNCHANGED <<main, step, items, written, errors>> PROVE SplitInv'
  BY <1>1 DEF SplitInv
<1>2. ASSUME NEW w \in Worker, Submit(w) PROVE SplitInv'
  <2>1. \A v \in Worker : v # w => /\ main'[v] = main[v]
                                   /\ \A o \in Org : step'[<<v, o>>] = step[<<v, o>>]
    BY <1>2 DEF Submit, TypeOK, Thread
  <2>2. /\ main'[w] # "idle" /\ main[w] = "idle"
        /\ \A o \in Org : step'[<<w, o>>] = "queued"
    BY <1>2 DEF Submit, TypeOK, Thread
  <2>3. UNCHANGED <<items, written, errors>>
    BY <1>2 DEF Submit
  <2>4. \A v \in Worker : /\ \A i \in written[v] : i.org \in Org
                          /\ errors[v] \subseteq Org
    BY DEF TypeOK, Item
  <2> QED BY <2>1, <2>2, <2>3, <2>4 DEF SplitInv
<1>3. ASSUME NEW w \in Worker, NEW o \in Org, CollectOrg(w, o) PROVE SplitInv'
  BY <1>3, CollectOrgSplit
<1>4. ASSUME NEW w \in Worker, NEW o \in Org, TakeFuture(w, o) PROVE SplitInv'
  BY <1>4, TakeFutureSplit
<1>5. ASSUME NEW w \in Worker, Return(w) \/ Crash(w) PROVE SplitInv'
  <2>1. Gone(w)
    BY <1>5 DEF Return, Dispatch, DispatchRaises, Abort, Crash
  <2>2. /\ written'[w] = {} /\ errors'[w] = {}
        /\ \A o \in Org : step'[<<w, o>>] = "none" /\ items'[<<w, o>>] = {}
    BY <2>1 DEF Gone, TypeOK, Thread
  <2>3. \A v \in Worker : v # w =>
          /\ main'[v] = main[v] /\ written'[v] = written[v] /\ errors'[v] = errors[v]
          /\ \A o \in Org : /\ step'[<<v, o>>] = step[<<v, o>>]
                            /\ items'[<<v, o>>] = items[<<v, o>>]
    BY <2>1 DEF Gone, TypeOK, Thread
  <2>4. \A v \in Worker : /\ \A i \in written[v] : i.org \in Org
                          /\ errors[v] \subseteq Org
    BY DEF TypeOK, Item
  <2> QED BY <2>2, <2>3, <2>4 DEF SplitInv
<1> QED BY <1>1, <1>2, <1>3, <1>4, <1>5
        DEF Next, NextDay, Revise, Expire, invocations, vars

\* When every future is taken, failed organisations contribute nothing to what is
\* handed over, and successful ones everything they wrote.
THEOREM CollectedSplit == Spec => []CollectedIsSplit
<1>1. Init => SplitInv
  BY DEF Init, SplitInv, Thread
<1>2. SplitInv => CollectedIsSplit
  <2> SUFFICES ASSUME SplitInv, NEW w \in Worker, Collected(w)
               PROVE  /\ \A o \in errors[w] : ~\E i \in written[w] : i.org = o
                      /\ \A o \in Org \ errors[w] : items[<<w, o>>] \subseteq written[w]
    BY DEF CollectedIsSplit
  <2>a. \A i \in written[w] : i.org \notin errors[w]
    BY DEF SplitInv
  <2>1. \A o \in errors[w] : ~\E i \in written[w] : i.org = o
    BY <2>a, Zenon
  <2>2. \A o \in Org \ errors[w] : items[<<w, o>>] \subseteq written[w]
    BY DEF SplitInv, Collected
  <2> QED BY <2>1, <2>2
<1> QED BY <1>1, <1>2, TypeCorrect, NextSplit, PTL DEF Spec

-----------------------------------------------------------------------------
(* State rows, for invocations that do not overlap *)

\* The row is written by the organisation's thread when it succeeds and by the handler
\* when it takes a failure; while the handler collects, nothing else is taken.
RowTellsStep(w, o) ==
    main[w] = "collecting" =>
        /\ step[<<w, o>>] \in {"ok", "handled"} => state[o].attempted # Never
        /\ step[<<w, o>>] = "ok" => state[o].error = FALSE
        /\ step[<<w, o>>] = "handled" => (state[o].error <=> o \in errors[w])

LEMMA WrittenRows ==
    ASSUME TypeOK
    PROVE  /\ SucceededState.error = FALSE /\ SucceededState.attempted # Never
           /\ FailedState.error = TRUE /\ FailedState.attempted # Never
  BY NeverAssumption, BoundsAreNat DEF Day, TypeOK, SucceededState, FailedState

LEMMA CollectOrgRows ==
    ASSUME TypeOK, SplitInv, NEW w \in Worker, Worker = {w}, NEW o \in Org, CollectOrg(w, o),
           NEW p \in Org, RowTellsStep(w, p)
    PROVE  RowTellsStep(w, p)'
<1>1. <<w, o>> \in Thread /\ <<w, p>> \in Thread
  BY DEF Thread
<1>2. UNCHANGED <<main, errors>>
  BY DEF CollectOrg, Begin, AssumeOrgRole, LoadAccountMap, DescribeEvents, CallFails,
         ProcessEvent, SkipEvent, RecordSuccess, RecordSuccessFails
<1>3. CASE RecordSuccess(w, o)
  <2>1. state' = [state EXCEPT ![o] = SucceededState] /\ step' = [step EXCEPT ![<<w, o>>] = "ok"]
    BY <1>3 DEF RecordSuccess, Goto
  <2>2. CASE p = o
    <3>1. state'[o] = SucceededState /\ step'[<<w, o>>] = "ok"
      BY <1>1, <2>1 DEF TypeOK
    <3> QED BY <2>2, <3>1, WrittenRows DEF RowTellsStep
  <2>3. CASE p # o
    <3>1. state'[p] = state[p] /\ step'[<<w, p>>] = step[<<w, p>>]
      BY <1>1, <2>1, <2>3 DEF TypeOK
    <3> QED BY <1>2, <3>1 DEF RowTellsStep
  <2> QED BY <2>2, <2>3
<1>4. CASE ~RecordSuccess(w, o)
  <2>1. state' = state
    BY <1>4 DEF CollectOrg, Begin, AssumeOrgRole, LoadAccountMap, DescribeEvents, CallFails,
                ProcessEvent, SkipEvent, RecordSuccessFails
  <2>2. step'[<<w, p>>] = step[<<w, p>>] \/ step'[<<w, p>>] \notin {"ok", "handled"}
    BY <1>1, <1>4 DEF CollectOrg, Begin, AssumeOrgRole, LoadAccountMap, DescribeEvents, CallFails,
                ProcessEvent, SkipEvent, RecordSuccessFails, Goto, TypeOK
  <2> QED BY <1>2, <2>1, <2>2 DEF RowTellsStep
<1> QED BY <1>3, <1>4

LEMMA TakeFutureRows ==
    ASSUME TypeOK, SplitInv, NEW w \in Worker, NEW o \in Org, TakeFuture(w, o),
           NEW p \in Org, RowTellsStep(w, p)
    PROVE  RowTellsStep(w, p)'
<1>1. <<w, o>> \in Thread /\ <<w, p>> \in Thread
  BY DEF Thread
<1>2. /\ step'[<<w, o>>] = "handled" /\ main[w] = "collecting"
      /\ p # o => step'[<<w, p>>] = step[<<w, p>>]
  BY <1>1 DEF TakeFuture, TakeResult, TakeError, TakeErrorRaises, Goto, TypeOK
<1>3. CASE TakeErrorRaises(w, o)
  <2>1. main'[w] = "aborting"
    BY <1>3 DEF TakeErrorRaises, TypeOK
  <2> QED BY <2>1 DEF RowTellsStep
<1>4. CASE TakeResult(w, o)
  <2>1. UNCHANGED <<main, state, errors>> /\ step[<<w, o>>] = "ok"
    BY <1>4 DEF TakeResult
  <2>2. o \notin errors[w]
    BY <2>1 DEF SplitInv
  <2> QED BY <1>2, <2>1, <2>2 DEF RowTellsStep
<1>5. CASE TakeError(w, o)
  <2>1. /\ state' = [state EXCEPT ![o] = FailedState]
        /\ errors' = [errors EXCEPT ![w] = @ \cup {o}] /\ main' = main
    BY <1>5 DEF TakeError
  <2>2. state'[o] = FailedState /\ errors'[w] = errors[w] \cup {o}
        /\ (p # o => state'[p] = state[p])
    BY <2>1 DEF TypeOK
  <2>3. CASE p = o
    BY <1>2, <2>2, <2>3, WrittenRows DEF RowTellsStep
  <2>4. CASE p # o
    BY <1>2, <2>1, <2>2, <2>4 DEF RowTellsStep
  <2> QED BY <2>3, <2>4
<1> QED BY <1>3, <1>4, <1>5 DEF TakeFuture

LEMMA NextRows ==
    ASSUME TypeOK, SplitInv, [Next]_vars, NEW w, Worker = {w}, NEW p \in Org, RowTellsStep(w, p)
    PROVE  RowTellsStep(w, p)'
<1>1. ASSUME UNCHANGED <<main, step, state, errors>> PROVE RowTellsStep(w, p)'
  BY <1>1 DEF RowTellsStep
<1>2. w \in Worker /\ <<w, p>> \in Thread
  BY DEF Thread
<1>3. CASE Submit(w)
  <2>1. step'[<<w, p>>] = "queued"
    BY <1>2, <1>3 DEF Submit
  <2> QED BY <2>1 DEF RowTellsStep
<1>4. ASSUME NEW o \in Org, CollectOrg(w, o) PROVE RowTellsStep(w, p)'
  BY <1>2, <1>4, CollectOrgRows
<1>5. ASSUME NEW o \in Org, TakeFuture(w, o) PROVE RowTellsStep(w, p)'
  BY <1>2, <1>5, TakeFutureRows
<1>6. CASE Return(w) \/ Crash(w)
  <2>1. main'[w] = "idle"
    BY <1>2, <1>6 DEF Return, Dispatch, DispatchRaises, Abort, Crash, Gone, TypeOK
  <2> QED BY <2>1 DEF RowTellsStep
<1> QED BY <1>1, <1>3, <1>4, <1>5, <1>6
        DEF Next, NextDay, Revise, Expire, invocations, vars

\* When an invocation that no other overlaps has taken every future, the state row of each
\* organisation tells how this invocation's collection of it ended.
THEOREM RowsTellTheRun ==
    ASSUME NEW w, Worker = {w}
    PROVE  Spec => []StateRowsTellTheRun
<1> DEFINE Inv == \A o \in Org : RowTellsStep(w, o)
<1>1. Init => SplitInv /\ Inv
  BY DEF Init, SplitInv, Thread, RowTellsStep
<1>2. TypeOK /\ SplitInv /\ Inv /\ [Next]_vars => Inv'
  BY NextRows
<1>3. TypeOK /\ Inv => StateRowsTellTheRun
  BY DEF StateRowsTellTheRun, Collected, RowTellsStep
<1> QED BY <1>1, <1>2, <1>3, TypeCorrect, NextSplit, PTL DEF Spec
=============================================================================
