--------------------------- MODULE EventFeedProofs ---------------------------
(***************************************************************************)
(* Theorems about EventClassifier and EventFeed.  The pipeline uses the     *)
(* client as its module says, so its theorems carry over; what the         *)
(* pipeline adds is that an event still to be processed has no item and    *)
(* was not skipped.                                                        *)
(***************************************************************************)
EXTENDS EventFeed, HealthProxyClientProofs, WellFoundedInduction

-----------------------------------------------------------------------------
(* The classifier: for every service name, event type code and status, the severity is *)
(* the one of SPEC.md section 7.                                                       *)

LEMMA Rules ==
    /\ DOMAIN SeverityRules = 1..5
    /\ SeverityRules[1] = Rule(Impact, DataServices, {"open"}, "critical")
    /\ SeverityRules[2] =
         Rule(Impact \ {"CONNECTIVITY"}, ComputeServices, {"open"}, "critical")
    /\ SeverityRules[3] = Rule(Impact, NetworkServices, {"open"}, "critical")
    /\ SeverityRules[4] = Rule(CodeWord, {}, {"open"}, "standard")
    /\ SeverityRules[5] = Rule(CodeWord, {}, {"upcoming", "closed"}, "standard")
  BY DEF SeverityRules

\* No rule after the third is critical, and the first three all are.
LEMMA SeverityOfRules ==
    ASSUME NEW i \in 1..5
    PROVE  SeverityRules[i].severity = IF i <= 3 THEN "critical" ELSE "standard"
  BY Rules DEF Rule

\* The sets of the rules are those of the table.
LEMMA TableOfRules ==
    ASSUME NEW word, NEW service
    PROVE  <<word, service>> \in SpecTable <=>
             \/ word \in Impact /\ service \in DataServices
             \/ word \in Impact \ {"CONNECTIVITY"} /\ service \in ComputeServices
             \/ word \in Impact /\ service \in NetworkServices
  BY DEF SpecTable, Impact, CodeWord, DataServices, ComputeServices, NetworkServices

\* The first three rules are the rows of the table.
LEMMA CriticalRules ==
    ASSUME NEW service, NEW code, NEW status
    PROVE  CriticalBySpec(service, code, status) <=>
             \E i \in 1..3 : RuleMatches(SeverityRules[i], code, service, status)
<1>1. RuleMatches(SeverityRules[1], code, service, status) <=>
        service \in DataServices /\ code \cap Impact # {} /\ status = "open"
  <2>1. "" \notin DataServices /\ DataServices # {}
    BY DEF DataServices
  <2>2. SeverityRules[1] = Rule(Impact, DataServices, {"open"}, "critical")
    BY Rules
  <2>3. /\ SeverityRules[1].words = Impact
        /\ SeverityRules[1].services = DataServices
        /\ SeverityRules[1].statuses = {"open"}
    BY <2>2 DEF Rule
  <2> QED BY <2>1, <2>3 DEF RuleMatches
<1>2. RuleMatches(SeverityRules[2], code, service, status) <=>
        /\ service \in ComputeServices /\ code \cap (Impact \ {"CONNECTIVITY"}) # {}
        /\ status = "open"
  <2>1. "" \notin ComputeServices /\ ComputeServices # {}
    BY DEF ComputeServices
  <2>2. SeverityRules[2] =
          Rule(Impact \ {"CONNECTIVITY"}, ComputeServices, {"open"}, "critical")
    BY Rules
  <2>3. /\ SeverityRules[2].words = Impact \ {"CONNECTIVITY"}
        /\ SeverityRules[2].services = ComputeServices
        /\ SeverityRules[2].statuses = {"open"}
    BY <2>2 DEF Rule
  <2> QED BY <2>1, <2>3 DEF RuleMatches
<1>3. RuleMatches(SeverityRules[3], code, service, status) <=>
        service \in NetworkServices /\ code \cap Impact # {} /\ status = "open"
  <2>1. "" \notin NetworkServices /\ NetworkServices # {}
    BY DEF NetworkServices
  <2>2. SeverityRules[3] = Rule(Impact, NetworkServices, {"open"}, "critical")
    BY Rules
  <2>3. /\ SeverityRules[3].words = Impact
        /\ SeverityRules[3].services = NetworkServices
        /\ SeverityRules[3].statuses = {"open"}
    BY <2>2 DEF Rule
  <2> QED BY <2>1, <2>3 DEF RuleMatches
<1>4. CriticalBySpec(service, code, status) <=>
        /\ status = "open"
        /\ \/ service \in DataServices /\ code \cap Impact # {}
           \/ service \in ComputeServices /\ code \cap (Impact \ {"CONNECTIVITY"}) # {}
           \/ service \in NetworkServices /\ code \cap Impact # {}
  BY TableOfRules DEF CriticalBySpec
<1>5. (\E i \in 1..3 : RuleMatches(SeverityRules[i], code, service, status)) <=>
        \/ RuleMatches(SeverityRules[1], code, service, status)
        \/ RuleMatches(SeverityRules[2], code, service, status)
        \/ RuleMatches(SeverityRules[3], code, service, status)
  <2>1. 1..3 = {1, 2, 3}
    OBVIOUS
  <2> QED BY <2>1
<1> QED BY <1>1, <1>2, <1>3, <1>4, <1>5

\* A set of rule numbers that is not empty has a first one.
LEMMA FirstExists ==
    ASSUME NEW hits \in SUBSET (1..5), hits # {}
    PROVE  \E i \in hits : \A j \in hits : i <= j
<1>1. CASE 1 \in hits
  BY <1>1
<1>2. CASE 1 \notin hits /\ 2 \in hits
  BY <1>2
<1>3. CASE 1 \notin hits /\ 2 \notin hits /\ 3 \in hits
  BY <1>3
<1>4. CASE 1 \notin hits /\ 2 \notin hits /\ 3 \notin hits /\ 4 \in hits
  BY <1>4
<1>5. CASE hits = {5}
  BY <1>5
<1>6. 1..5 = {1, 2, 3, 4, 5}
  OBVIOUS
<1> QED BY <1>1, <1>2, <1>3, <1>4, <1>5, <1>6

\* An event is critical exactly when the table of SPEC.md section 7 says so: no earlier
\* or later rule of _SEVERITY_RULES gets in the way.
THEOREM SeverityIsBySpec ==
    ASSUME NEW service, NEW code, NEW status
    PROVE  DetermineSeverity(code, service, status) =
             IF CriticalBySpec(service, code, status) THEN "critical" ELSE "standard"
<1> DEFINE hits == {i \in DOMAIN SeverityRules :
                      RuleMatches(SeverityRules[i], code, service, status)}
           first == CHOOSE i \in hits : \A j \in hits : i <= j
<1>1. hits \subseteq 1..5
  BY Rules
<1>2. CriticalBySpec(service, code, status) <=> \E i \in 1..3 : i \in hits
  BY CriticalRules, Rules
<1>3. CASE hits = {}
  BY <1>2, <1>3 DEF DetermineSeverity
<1>4. CASE hits # {}
  <2>1. first \in hits /\ \A j \in hits : first <= j
    BY <1>1, <1>4, FirstExists
  <2>2. first \in 1..3 <=> \E i \in 1..3 : i \in hits
    BY <2>1, <1>1
  <2>3. SeverityRules[first].severity = IF first <= 3 THEN "critical" ELSE "standard"
    BY <2>1, <1>1, SeverityOfRules
  <2>4. DetermineSeverity(code, service, status) = SeverityRules[first].severity
    BY <1>4 DEF DetermineSeverity
  <2> QED BY <2>1, <2>2, <2>3, <2>4, <1>1, <1>2
<1> QED BY <1>3, <1>4

\* A critical event is operational even without its description, so the alert
\* dispatcher, which passes over events that are not operational, takes it.
THEOREM CriticalIsOperational ==
    ASSUME NEW service, NEW code, NEW status, CriticalBySpec(service, code, status)
    PROVE  IsOperational(service, {})
<1>1. service \in DataServices \cup ComputeServices \cup NetworkServices
  BY TableOfRules DEF CriticalBySpec
<1>2. DataServices \cup ComputeServices \cup NetworkServices \subseteq OperationalServices
  BY DEF DataServices, ComputeServices, NetworkServices, OperationalServices
<1> QED BY <1>1, <1>2 DEF IsOperational

-----------------------------------------------------------------------------
(* The pipeline *)

ItemOf(e) == items[e] = NoItem \/ /\ items[e].operational = Classified(e).operational
                                  /\ items[e].severity = Classified(e).severity

FeedInv ==
    /\ CallInv
    /\ todo \subseteq Entry
    /\ \E S : items \in [Entry -> S]
    /\ stage \in {"start", "events"} => todo = {} /\ skipped = {}
    /\ stage \in {"start", "events"} => \A e \in Entry : items[e] = NoItem
    /\ \A e \in todo : items[e] = NoItem /\ e \notin skipped
    /\ stage = "accounts" => todo # {}
    /\ \A e \in Entry : ItemOf(e)

LEMMA CurrentInTodo ==
    ASSUME todo \subseteq Entry, todo # {}
    PROVE  Current \in todo
<1>1. todo \subseteq Nat
  BY EntryAssumption
<1> DEFINE less == {p \in Nat \X Nat : p[1] < p[2]}
<1>2. IsWellFoundedOn(less, Nat)
  <2>1. less = OpToRel(<, Nat)
    BY DEF OpToRel
  <2> QED BY <2>1, NatLessThanWellFounded
<1>3. \E e \in todo : \A f \in todo : <<f, e>> \notin less
  <2> HIDE DEF less
  <2> QED BY <1>1, <1>2, WFMin
<1>4. \E e \in todo : \A f \in todo : e <= f
  <2>1. PICK e \in todo : \A f \in todo : <<f, e>> \notin less
    BY <1>3
  <2>2. ASSUME NEW f \in todo PROVE e <= f
    <3>1. e \in Nat /\ f \in Nat /\ <<f, e>> \notin less
      BY <1>1, <2>1
    <3>2. <<f, e>> \in Nat \X Nat /\ <<f, e>>[1] = f /\ <<f, e>>[2] = e
      BY <3>1
    <3>3. ~(f < e)
      BY <3>1, <3>2
    <3> QED BY <3>1, <3>3
  <2> QED BY <2>1, <2>2
<1> QED BY <1>4 DEF Current

\* The pipeline's steps are steps of the client, or leave it alone.
LEMMA FeedIsClient == [Next]_vars => [ClientNext]_clientVars
<1> SUFFICES ASSUME [Next]_vars PROVE [ClientNext]_clientVars
  OBVIOUS
<1>1. CASE CallGoesOn
  BY <1>1 DEF CallGoesOn, ClientNext
<1>2. CASE DescribeEvents
  BY <1>2 DEF DescribeEvents, ClientNext
<1>3. CASE TakeEvents
  BY <1>3 DEF TakeEvents, ClientNext
<1>4. CASE EventsFail
  BY <1>4 DEF EventsFail, ClientNext
<1>5. CASE DescribeAffectedAccounts
  BY <1>5 DEF DescribeAffectedAccounts, ClientNext
<1>6. CASE ProcessEvent
  BY <1>6 DEF ProcessEvent, ClientNext
<1>7. CASE SkipEvent
  BY <1>7 DEF SkipEvent, ClientNext
<1>8. CASE Finish
  BY <1>8 DEF Finish
<1>9. CASE UNCHANGED vars
  BY <1>9 DEF vars
<1> QED BY <1>1, <1>2, <1>3, <1>4, <1>5, <1>6, <1>7, <1>8, <1>9 DEF Next, Pipeline

LEMMA FeedInvInit == Init => FeedInv
<1> SUFFICES ASSUME Init PROVE FeedInv
  OBVIOUS
<1>1. CallInv
  BY CallInvInit DEF Init
<1>2. items \in [Entry -> {NoItem}]
  BY DEF Init
<1> QED BY <1>1, <1>2 DEF Init, FeedInv, ItemOf

\* What ProcessEvent does to the items.
LEMMA ItemsAfterProcess ==
    ASSUME FeedInv, ProcessEvent
    PROVE  /\ Current \in todo
           /\ \E S : items' \in [Entry -> S]
           /\ \A e \in Entry : e # Current => items'[e] = items[e]
           /\ items'[Current].accounts = OrgAccounts
           /\ \A e \in Entry : ItemOf(e)'
<1>1. Current \in todo /\ Current \in Entry
  BY CurrentInTodo DEF FeedInv, ProcessEvent
<1>2. PICK S : items \in [Entry -> S]
  BY DEF FeedInv
<1> DEFINE cur  == Current
           item == [accounts    |-> OrgAccounts,
                    operational |-> Classified(cur).operational,
                    severity    |-> Classified(cur).severity]
<1>3. items' = IF OrgAccounts = {} THEN items ELSE [items EXCEPT ![cur] = item]
  BY DEF ProcessEvent
<1>4. item.accounts = OrgAccounts /\ item.operational = Classified(cur).operational
      /\ item.severity = Classified(cur).severity
  OBVIOUS
<1>5. items[cur] = NoItem /\ NoItem.accounts = {}
  BY <1>1 DEF FeedInv, NoItem
<1> HIDE DEF item, cur
<1>6. CASE OrgAccounts = {}
  <2>1. items' = items
    BY <1>3, <1>6
  <2>2. \A e \in Entry : ItemOf(e)'
    BY <2>1 DEF FeedInv, ItemOf, Classified
  <2> QED BY <1>1, <1>2, <1>5, <1>6, <2>1, <2>2 DEF cur
<1>7. CASE OrgAccounts # {}
  <2>1. items' = [items EXCEPT ![cur] = item] /\ cur \in Entry
    BY <1>1, <1>3, <1>7 DEF cur
  <2>2. items' \in [Entry -> S \cup {item}]
    BY <1>2, <2>1
  <2>3. items'[cur] = item /\ \A e \in Entry : e # cur => items'[e] = items[e]
    BY <1>2, <2>1
  <2>4. \A e \in Entry : ItemOf(e)'
    BY <1>4, <2>3 DEF FeedInv, ItemOf, Classified
  <2> QED BY <1>1, <2>2, <2>3, <2>4, <1>4 DEF cur
<1> QED BY <1>6, <1>7

LEMMA FeedInvNext == FeedInv /\ [Next]_vars => FeedInv'
<1> SUFFICES ASSUME FeedInv, [Next]_vars PROVE FeedInv'
  OBVIOUS
<1>1. CallInv'
  BY FeedIsClient, CallInvNext DEF FeedInv
<1>2. CASE UNCHANGED feedVars
  BY <1>1, <1>2 DEF FeedInv, feedVars, ItemOf, Classified
<1>3. CASE DescribeEvents \/ EventsFail \/ Finish
  BY <1>1, <1>3 DEF DescribeEvents, EventsFail, Finish, FeedInv, ItemOf, Classified
<1>4. CASE TakeEvents
  BY <1>1, <1>4 DEF TakeEvents, FeedInv, ItemOf, Classified
<1>5. CASE DescribeAffectedAccounts
  BY <1>1, <1>5 DEF DescribeAffectedAccounts, FeedInv, ItemOf, Classified
<1>6. CASE ProcessEvent
  <2>1. /\ stage' = "process" /\ todo' = todo \ {Current} /\ UNCHANGED skipped
    BY <1>6 DEF ProcessEvent
  <2> DEFINE cur == Current
  <2>2. /\ cur \in todo /\ todo' = todo \ {cur}
        /\ \E S : items' \in [Entry -> S]
        /\ \A e \in Entry : e # cur => items'[e] = items[e]
        /\ \A e \in Entry : ItemOf(e)'
    BY <1>6, <2>1, ItemsAfterProcess
  <2> HIDE DEF cur
  <2> QED BY <1>1, <2>1, <2>2 DEF FeedInv
<1>7. CASE SkipEvent
  <2>1. /\ stage' = "process" /\ todo' = todo \ {Current} /\ UNCHANGED items
        /\ skipped' = skipped \cup {Current}
    BY <1>7 DEF SkipEvent
  <2> DEFINE cur == Current
  <2>2. todo' = todo \ {cur} /\ skipped' = skipped \cup {cur}
    BY <2>1
  <2> HIDE DEF cur
  <2> QED BY <1>1, <2>1, <2>2 DEF FeedInv, ItemOf, Classified
<1>8. CASE UNCHANGED vars
  BY <1>2, <1>8 DEF vars
<1> QED BY <1>2, <1>3, <1>4, <1>5, <1>6, <1>7, <1>8 DEF Next, Pipeline, CallGoesOn

LEMMA FeedInvariant == Init /\ [][Next]_vars => []FeedInv
<1>1. Init => FeedInv
  BY FeedInvInit
<1>2. FeedInv /\ [Next]_vars => FeedInv'
  BY FeedInvNext
<1> QED BY <1>1, <1>2, PTL

\* Every call the pipeline makes of describe_events_for_organization and
\* describe_affected_accounts_for_organization is complete or raises.
THEOREM FeedIsComplete == Spec => CompleteOrRaises
<1>1. Init => CallInv /\ Read!Init
  BY CallInvInit, InitRefines DEF Init
<1>2. [Next]_vars => [ClientNext]_clientVars
  BY FeedIsClient
<1>3. CallInv /\ [ClientNext]_clientVars => CallInv'
  BY CallInvNext
<1>4. CallInv /\ CallInv' /\ [ClientNext]_clientVars => [Read!Next]_(Read!vars)
  BY StepRefines
<1> QED BY <1>1, <1>2, <1>3, <1>4, PTL DEF Spec, CompleteOrRaises, Read!Safety

\* The item _process_event writes names the accounts of the organisation that AWS Health
\* listed throughout the call for them and none that it never listed; an event that
\* affects none has no item, and an exception leaves its event out.
THEOREM FeedItemsTellTheAnswer == Spec => ItemsTellTheAnswer
<1> DEFINE Step ==
      \A e \in Entry : (stage = "accounts" /\ stage' = "process") =>
          IF e = Current /\ e \notin skipped'
          THEN /\ steady \cap AccountMap \subseteq items'[e].accounts
               /\ items'[e].accounts \subseteq ever \cap AccountMap
          ELSE items'[e] = items[e]
<1>1. ASSUME FeedInv, [Next]_vars
      PROVE  [Step]_vars
  <2>1. CASE ProcessEvent
    <3>1. /\ Current \in todo /\ Current \notin skipped'
          /\ \A e \in Entry : e # Current => items'[e] = items[e]
          /\ items'[Current].accounts = OrgAccounts
      BY <1>1, <2>1, ItemsAfterProcess DEF ProcessEvent, FeedInv
    <3>2. pc = "returned" /\ Complete(result)
      BY <1>1, <2>1 DEF ProcessEvent, FeedInv, CallInv
    <3>3. steady \cap AccountMap \subseteq OrgAccounts /\ OrgAccounts \subseteq ever \cap AccountMap
      BY <3>2, FeedAssumption DEF OrgAccounts, Complete
    <3> QED BY <3>1, <3>3
  <2>2. CASE SkipEvent
    BY <2>2 DEF SkipEvent
  <2>3. CASE UNCHANGED stage
    BY <2>3
  <2>4. CASE stage' # "process" \/ stage # "accounts"
    BY <2>4
  <2> QED BY <1>1, <2>1, <2>2, <2>3, <2>4
          DEF Next, Pipeline, CallGoesOn, feedVars, vars, DescribeEvents, TakeEvents,
              EventsFail, DescribeAffectedAccounts, Finish
<1> HIDE DEF Step
<1>2. ItemsTellTheAnswer <=> [][Step]_vars
  BY DEF ItemsTellTheAnswer, Step
<1> QED BY <1>1, <1>2, FeedInvariant, PTL DEF Spec

\* An event that SPEC.md section 7 calls critical is never written otherwise, and is
\* written as operational, so the alert dispatcher takes it.
THEOREM FeedCriticalIsAlertable == Spec => []CriticalIsAlertable
<1>1. FeedInv => CriticalIsAlertable
  <2> SUFFICES ASSUME FeedInv, NEW e \in Entry, items[e] # NoItem,
                      CriticalBySpec(Attributes[e].service, Attributes[e].code,
                                     Attributes[e].status)
               PROVE  items[e].operational /\ items[e].severity = "critical"
    BY DEF CriticalIsAlertable
  <2> DEFINE a == Attributes[e]
  <2>1. DetermineSeverity(a.code, a.service, a.status) = "critical" /\ IsOperational(a.service, {})
    BY SeverityIsBySpec, CriticalIsOperational
  <2>2. /\ Classified(e).operational = IsOperational(a.service, {})
        /\ Classified(e).severity = DetermineSeverity(a.code, a.service, a.status)
    BY DEF Classified, ClassifyEvent
  <2>3. items[e].operational = Classified(e).operational /\ items[e].severity = Classified(e).severity
    BY DEF FeedInv, ItemOf
  <2> QED BY <2>1, <2>2, <2>3
<1> QED BY <1>1, FeedInvariant, PTL DEF Spec

-----------------------------------------------------------------------------
(* Type correctness and delays *)

LEMMA ClassifiedType ==
    ASSUME NEW e \in Entry
    PROVE  /\ Classified(e).operational \in BOOLEAN
           /\ Classified(e).severity \in {"standard", "critical"}
<1> DEFINE a == Attributes[e]
<1>1. DetermineSeverity(a.code, a.service, a.status) \in {"standard", "critical"}
  BY SeverityIsBySpec, Zenon
<1>2. IsOperational(a.service, {}) \in BOOLEAN
  BY Zenon DEF IsOperational
<1>3. /\ Classified(e).operational = IsOperational(a.service, {})
      /\ Classified(e).severity = DetermineSeverity(a.code, a.service, a.status)
  BY DEF Classified, ClassifyEvent
<1> QED BY <1>1, <1>2, <1>3

LEMMA FeedTypeInit == Init => TypeOK
<1> SUFFICES ASSUME Init PROVE TypeOK
  OBVIOUS
<1>1. ClientTypeOK
  BY SleepInit DEF Init, SleepInv
<1>2. NoItem \in [accounts : SUBSET AccountMap, operational : BOOLEAN,
                  severity : {"none", "standard", "critical"}]
  BY DEF NoItem
<1> QED BY <1>1, <1>2 DEF Init, TypeOK

LEMMA FeedTypeNext ==
    ASSUME TypeOK, ClientTypeOK', FeedInv, [Next]_vars
    PROVE  TypeOK'
<1> USE DEF TypeOK
<1>1. CASE UNCHANGED feedVars
  BY <1>1 DEF feedVars
<1>2. CASE DescribeEvents \/ EventsFail \/ DescribeAffectedAccounts \/ Finish
  BY <1>2 DEF DescribeEvents, EventsFail, DescribeAffectedAccounts, Finish
<1>3. CASE TakeEvents
  BY <1>3 DEF TakeEvents
<1>4. CASE ProcessEvent
  <2> DEFINE cur  == Current
             item == [accounts    |-> OrgAccounts,
                      operational |-> Classified(cur).operational,
                      severity    |-> Classified(cur).severity]
  <2>1. /\ stage' = "process" /\ todo' = todo \ {cur} /\ UNCHANGED skipped
        /\ items' = IF OrgAccounts = {} THEN items ELSE [items EXCEPT ![cur] = item]
    BY <1>4 DEF ProcessEvent
  <2>2. cur \in Entry
    BY <1>4, CurrentInTodo DEF ProcessEvent, FeedInv
  <2>3. item \in [accounts : SUBSET AccountMap, operational : BOOLEAN,
                  severity : {"none", "standard", "critical"}]
    <3>1. OrgAccounts \in SUBSET AccountMap
      BY DEF OrgAccounts
    <3>2. /\ Classified(cur).operational \in BOOLEAN
          /\ Classified(cur).severity \in {"none", "standard", "critical"}
      BY <2>2, ClassifiedType
    <3> HIDE DEF cur
    <3> QED BY <3>1, <3>2, Zenon
  <2> HIDE DEF cur, item
  <2> QED BY <2>1, <2>2, <2>3
<1>5. CASE SkipEvent
  <2> DEFINE cur == Current
  <2>1. /\ stage' = "process" /\ todo' = todo \ {cur} /\ skipped' = skipped \cup {cur}
        /\ UNCHANGED items
    BY <1>5 DEF SkipEvent
  <2>2. cur \in Entry
    BY <1>5, CurrentInTodo DEF SkipEvent, FeedInv
  <2> HIDE DEF cur
  <2> QED BY <2>1, <2>2
<1>6. CASE UNCHANGED vars
  BY <1>1, <1>6 DEF vars
<1> QED BY <1>1, <1>2, <1>3, <1>4, <1>5, <1>6 DEF Next, Pipeline, CallGoesOn

LEMMA FeedSleeps == Spec => []SleepInv
<1>1. Init => SleepInv
  BY SleepInit DEF Init
<1>2. SleepInv /\ [Next]_vars => SleepInv'
  BY SleepNext, FeedIsClient
<1> QED BY <1>1, <1>2, PTL DEF Spec

\* Every state of the pipeline is well-formed, above all the items it writes.
THEOREM FeedTypeCorrect == Spec => []TypeOK
<1>1. SleepInv => ClientTypeOK
  BY DEF SleepInv
<1>2. TypeOK /\ ClientTypeOK' /\ FeedInv /\ [Next]_vars => TypeOK'
  BY FeedTypeNext
<1> QED BY <1>1, <1>2, FeedTypeInit, FeedSleeps, FeedInvariant, PTL DEF Spec

\* No call of the pipeline sleeps longer than its pages and retries account for.
THEOREM FeedSleepsBounded == Spec => []SleepIsBounded
  BY FeedSleeps, SleepInvBounds, PTL
=============================================================================
