----------------------- MODULE HealthProxyClientProofs -----------------------
(***************************************************************************)
(* Theorems about HealthProxyClient: for every list of entries, every way  *)
(* of cutting it into pages and every number of faults and changes, a call *)
(* is complete or raises.                                                  *)
(***************************************************************************)
EXTENDS HealthProxyClient, FiniteSetTheorems, FunctionTheorems, TLAPS

\* What the pages received so far hold, when the last of them ended at token.
ReadUpTo(res, tok) ==
    \A e \in Entry : /\ res[e] \in {0, 1}
                     /\ e \in steady /\ e <= tok => res[e] = 1
                     /\ e \notin ever => res[e] = 0
                     /\ e > tok => res[e] = 0

Complete(res) ==
    \A e \in Entry : /\ res[e] \in {0, 1}
                     /\ e \in steady => res[e] = 1
                     /\ e \notin ever => res[e] = 0

\* What a call knows of its pages; its delays follow below.
CallInv ==
    /\ listed \subseteq Entry /\ steady \subseteq Entry /\ ever \subseteq Entry
    /\ pc \in {"idle", "send", "returned", "raised"}
    /\ token \in Nat /\ result \in [Entry -> Nat]
    /\ steady \subseteq listed /\ listed \subseteq ever
    /\ pc = "idle" => result = Nothing /\ token = 0
    /\ pc = "send" => ReadUpTo(result, token)
    /\ pc = "returned" => Complete(result)

\* A page extends what was read by the entries between its tokens.
LEMMA ExtendReads ==
    ASSUME CallInv, pc = "send",
           NEW page \in SUBSET Entry, Extend(page),
           \A e \in page : e \in listed /\ token < e
    PROVE  /\ result' \in [Entry -> Nat]
           /\ \A e \in Entry : /\ result'[e] = IF e \in page THEN 1 ELSE result[e]
                               /\ result'[e] \in {0, 1}
                               /\ e \notin ever => result'[e] = 0
                               /\ e \in steady /\ e <= token => result'[e] = 1
                               /\ e > token /\ e \notin page => result'[e] = 0
<1> USE EntryAssumption
<1>1. result \in [Entry -> Nat] /\ token \in Nat /\ ReadUpTo(result, token)
      /\ steady \subseteq listed /\ listed \subseteq ever
  BY DEF CallInv
<1>2. result' = [e \in Entry |-> IF e \in page THEN result[e] + 1 ELSE result[e]]
  BY DEF Extend
<1>3. ASSUME NEW e \in Entry
      PROVE  /\ result'[e] = IF e \in page THEN 1 ELSE result[e]
             /\ result'[e] \in {0, 1}
  <2>1. e \in page => result[e] = 0
    BY <1>1 DEF ReadUpTo
  <2> QED BY <1>1, <1>2, <2>1 DEF ReadUpTo
<1>4. result' \in [Entry -> Nat]
  BY <1>1, <1>2
<1> QED BY <1>1, <1>3, <1>4 DEF ReadUpTo

LEMMA CallInvInit == ClientInit => CallInv
  BY DEF ClientInit, CallInv, Nothing

LEMMA CallInvNext == CallInv /\ [ClientNext]_clientVars => CallInv'
<1> SUFFICES ASSUME CallInv, [ClientNext]_clientVars
             PROVE  CallInv'
  OBVIOUS
<1> USE EntryAssumption, ClientAssumption
<1>1. ASSUME NEW set \in SUBSET Entry, Call(set)
      PROVE  CallInv'
  BY <1>1 DEF CallInv, Call, ReadUpTo, Nothing
<1>2. CASE Change
  BY <1>2 DEF CallInv, Change, ReadUpTo, Nothing
<1>3. CASE Take
  BY <1>3 DEF CallInv, Take, Nothing
<1>4. CASE ReceivePage
  <2>1. PICK next \in Beyond(Entry, token) :
            Extend(Between(listed, token, next)) /\ token' = next
    BY <1>4 DEF ReceivePage
  <2> DEFINE page == Between(listed, token, next)
  <2>2. /\ next \in Nat /\ next \in Entry /\ token < next
        /\ page \in SUBSET Entry
        /\ \A e \in Entry : e \in page <=> e \in listed /\ token < e /\ e <= next
    BY DEF Beyond, Between, CallInv
  <2>3. pc = "send" /\ UNCHANGED <<listed, changes, faults, pc, slept, steady, ever>>
    BY <1>4 DEF ReceivePage
  <2> HIDE DEF page
  <2>4. /\ result' \in [Entry -> Nat]
        /\ \A e \in Entry : /\ result'[e] = IF e \in page THEN 1 ELSE result[e]
                            /\ result'[e] \in {0, 1}
                            /\ e \notin ever => result'[e] = 0
                            /\ e \in steady /\ e <= token => result'[e] = 1
                            /\ e > token /\ e \notin page => result'[e] = 0
    BY <2>1, <2>2, <2>3, ExtendReads DEF page
  <2>5. ReadUpTo(result, token)'
    BY <2>1, <2>2, <2>3, <2>4 DEF ReadUpTo, CallInv
  <2> QED BY <2>1, <2>2, <2>3, <2>4, <2>5 DEF CallInv
<1>5. CASE ReceiveLastPage
  <2> DEFINE page == Beyond(listed, token)
  <2>1. /\ page \in SUBSET Entry
        /\ \A e \in Entry : e \in page <=> e \in listed /\ token < e
    BY DEF Beyond, CallInv
  <2>2. /\ pc = "send" /\ pc' = "returned" /\ Extend(page)
        /\ UNCHANGED <<listed, changes, faults, token, slept, steady, ever>>
    BY <1>5 DEF ReceiveLastPage
  <2> HIDE DEF page
  <2>3. /\ result' \in [Entry -> Nat]
        /\ \A e \in Entry : /\ result'[e] = IF e \in page THEN 1 ELSE result[e]
                            /\ result'[e] \in {0, 1}
                            /\ e \notin ever => result'[e] = 0
                            /\ e \in steady /\ e <= token => result'[e] = 1
    BY <2>1, <2>2, ExtendReads
  <2>4. Complete(result)'
    BY <2>1, <2>2, <2>3 DEF Complete, CallInv
  <2> QED BY <2>2, <2>3, <2>4 DEF CallInv
<1>6. CASE Throttled
  BY <1>6 DEF CallInv, Throttled, ReadUpTo
<1>7. CASE GiveUp
  BY <1>7 DEF CallInv, GiveUp
<1>8. CASE Refused
  BY <1>8 DEF CallInv, Refused
<1>9. CASE UNCHANGED clientVars
  BY <1>9 DEF CallInv, clientVars, ReadUpTo, Complete
<1> QED BY <1>1, <1>2, <1>3, <1>4, <1>5, <1>6, <1>7, <1>8, <1>9 DEF ClientNext, Answer

\* A step of the client is a step of the promise, or leaves it alone.
LEMMA StepRefines == CallInv /\ CallInv' /\ [ClientNext]_clientVars => [Read!Next]_(Read!vars)
<1> SUFFICES ASSUME CallInv, CallInv', [ClientNext]_clientVars
             PROVE  [Read!Next]_(Read!vars)
  OBVIOUS
<1>1. Read!vars = << IF pc = "send" THEN "open" ELSE pc,
                     IF pc = "returned" THEN result ELSE Nothing, steady, ever >>
  BY DEF Read!vars
<1>2. ASSUME NEW set \in SUBSET Entry, Call(set)
      PROVE  Read!Begin
  BY <1>2 DEF Read!Begin, Call
<1>3. CASE Change
  BY <1>3 DEF Read!Next, Read!Change, Change
<1>4. CASE Take
  BY <1>4 DEF Read!Next, Read!Take, Take, Nothing, Read!Nothing
<1>5. CASE ReceivePage
  BY <1>5, <1>1 DEF ReceivePage, Read!vars
<1>6. CASE ReceiveLastPage
  BY <1>6 DEF Read!Next, ReceiveLastPage, Read!Return, CallInv, Complete
<1>7. CASE Throttled
  BY <1>7, <1>1 DEF Throttled, Read!vars
<1>8. CASE GiveUp
  BY <1>8 DEF Read!Next, GiveUp, Read!Raise
<1>9. CASE Refused
  BY <1>9 DEF Read!Next, Refused, Read!Raise
<1>10. CASE UNCHANGED clientVars
  BY <1>10, <1>1 DEF clientVars, Read!vars, Nothing
<1> QED BY <1>2, <1>3, <1>4, <1>5, <1>6, <1>7, <1>8, <1>9, <1>10
        DEF ClientNext, Answer, Read!Next

LEMMA InitRefines == ClientInit => Read!Init
  BY DEF ClientInit, Read!Init, Nothing, Read!Nothing

\* Every call of describe_events_for_organization or
\* describe_affected_accounts_for_organization holds each entry AWS Health listed from its
\* beginning to its end exactly once and nothing it never listed, or raises.
THEOREM ClientIsComplete == ClientSpec => CompleteOrRaises
<1>1. ClientInit => CallInv /\ Read!Init
  BY CallInvInit, InitRefines
<1>2. CallInv /\ [ClientNext]_clientVars => CallInv'
  BY CallInvNext
<1>3. CallInv /\ CallInv' /\ [ClientNext]_clientVars => [Read!Next]_(Read!vars)
  BY StepRefines
<1> QED BY <1>1, <1>2, <1>3, PTL DEF ClientSpec, CompleteOrRaises, Read!Safety

-----------------------------------------------------------------------------
(* The delays *)

\* The provers know no powers; that a set of n elements has 2^n subsets tells what the
\* delays need.
LEMMA PowerIsSubsets ==
    ASSUME NEW n \in Nat
    PROVE  IsFiniteSet(SUBSET (1..n)) /\ 2^n = Cardinality(SUBSET (1..n)) /\ 2^n \in Nat
<1>1. IsFiniteSet(1..n) /\ Cardinality(1..n) = n
  BY FS_Interval
<1>2. IsFiniteSet(SUBSET (1..n)) /\ Cardinality(SUBSET (1..n)) = 2^Cardinality(1..n)
  BY <1>1, FS_SUBSET
<1>3. Cardinality(SUBSET (1..n)) \in Nat
  BY <1>2, FS_CardinalityType
<1> QED BY <1>1, <1>2, <1>3

LEMMA PowerOfZero == 2^0 = 1
<1>1. SUBSET (1..0) = {{}}
  <2>1. 1..0 = {}
    OBVIOUS
  <2> QED BY <2>1
<1> QED BY <1>1, PowerIsSubsets, FS_Singleton

\* Delays grow with the attempts.
LEMMA PowerGrows ==
    ASSUME NEW m \in Nat, NEW n \in Nat, m <= n
    PROVE  2^m <= 2^n
<1>1. SUBSET (1..m) \in SUBSET (SUBSET (1..n))
  OBVIOUS
<1> QED BY <1>1, PowerIsSubsets, FS_Subset

\* And double from one to the next.
LEMMA PowerDoubles ==
    ASSUME NEW n \in Nat
    PROVE  2^(n + 1) = 2^n + 2^n
<1> DEFINE old == SUBSET (1..n)
           new == {s \cup {n + 1} : s \in old}
<1>1. SUBSET (1..(n + 1)) = old \cup new
  <2>1. 1..(n + 1) = (1..n) \cup {n + 1}
    OBVIOUS
  <2>2. ASSUME NEW s \in SUBSET (1..(n + 1)), n + 1 \in s PROVE s \in new
    <3>1. s \ {n + 1} \in old /\ s = (s \ {n + 1}) \cup {n + 1}
      BY <2>1, <2>2
    <3> HIDE DEF old
    <3> QED BY <3>1
  <2>3. \A s \in SUBSET (1..(n + 1)) : n + 1 \notin s => s \in old
    BY <2>1
  <2>4. \A s \in old : s \subseteq 1..(n + 1) /\ s \cup {n + 1} \subseteq 1..(n + 1)
    BY <2>1
  <2>5. SUBSET (1..(n + 1)) \subseteq old \cup new
    BY <2>2, <2>3
  <2>6. old \cup new \subseteq SUBSET (1..(n + 1))
    BY <2>4
  <2> QED BY <2>5, <2>6
<1>2. old \cap new = {}
  <2>1. n + 1 \notin 1..n
    OBVIOUS
  <2> QED BY <2>1
<1>3. IsFiniteSet(old) /\ IsFiniteSet(new) /\ Cardinality(new) = Cardinality(old)
  <2> DEFINE f == [s \in old |-> s \cup {n + 1}]
  <2>1. \A s, t \in old : f[s] = f[t] => s = t
    <3>1. n + 1 \notin 1..n
      OBVIOUS
    <3>2. \A s, t \in old : s \cup {n + 1} = t \cup {n + 1} => s = t
      BY <3>1
    <3> QED BY <3>2
  <2>2. f \in [old -> new] /\ \A t \in new : \E s \in old : f[s] = t
    OBVIOUS
  <2>3. IsFiniteSet(old)
    BY PowerIsSubsets
  <2> HIDE DEF f, old, new
  <2>4. f \in Injection(old, new) /\ f \in Surjection(old, new)
    BY <2>1, <2>2, Fun_IsInj, Fun_IsSurj
  <2> QED BY <2>3, <2>4, FS_Surjection
<1> HIDE DEF old, new
<1>4. /\ Cardinality(old \cap new) = 0 /\ Cardinality(old) \in Nat
      /\ Cardinality(old \cup new) = Cardinality(old) + Cardinality(new)
                                     - Cardinality(old \cap new)
  BY <1>2, <1>3, FS_EmptySet, FS_Union, FS_CardinalityType
<1>5. 2^(n + 1) = Cardinality(old \cup new)
  <2>1. n + 1 \in Nat
    OBVIOUS
  <2> QED BY <1>1, <2>1, PowerIsSubsets, Zenon
<1>6. 2^n = Cardinality(old)
  BY PowerIsSubsets DEF old
<1> QED BY <1>3, <1>4, <1>5, <1>6

\* What the call has slept: a full round of delays for every response received, and the
\* delays of the present request.
Round == BASE_RETRY_DELAY_S * (2^(MAX_RETRIES - 1) - 1)

SleepInv ==
    /\ ClientTypeOK
    /\ attempt < MAX_RETRIES
    /\ slept <= pages * Round + BASE_RETRY_DELAY_S * (2^attempt - 1)

\* One request's delays are within a round.
LEMMA RoundBound ==
    ASSUME NEW n \in Nat, n < MAX_RETRIES
    PROVE  /\ Round \in Nat /\ 2^n \in Nat /\ BASE_RETRY_DELAY_S * (2^n - 1) \in Nat
           /\ BASE_RETRY_DELAY_S * (2^n - 1) <= Round
           /\ BASE_RETRY_DELAY_S * 2^n \in Nat
           /\ BASE_RETRY_DELAY_S * (2^(n + 1) - 1)
                  = BASE_RETRY_DELAY_S * (2^n - 1) + BASE_RETRY_DELAY_S * 2^n
<1> DEFINE b == BASE_RETRY_DELAY_S
           last == MAX_RETRIES - 1
<1>1. b \in Nat /\ last \in Nat /\ n <= last
  BY ClientAssumption
<1> DEFINE p == 2^n
           q == 2^last
<1>2. p \in Nat /\ q \in Nat /\ 1 <= p /\ p <= q /\ 2^(n + 1) = p + p
  <2> HIDE DEF last
  <2>1. 2^n \in Nat /\ 2^last \in Nat
    BY <1>1, PowerIsSubsets
  <2>2. 2^n <= 2^last
    BY <1>1, PowerGrows
  <2>3. 2^0 <= 2^n
    <3>1. 0 \in Nat /\ 0 <= n
      OBVIOUS
    <3> QED BY <3>1, PowerGrows, Zenon
  <2> QED BY <2>1, <2>2, <2>3, PowerOfZero, PowerDoubles
<1>3. Round = b * (q - 1)
  BY DEF Round
<1> HIDE DEF b, last, p, q
<1>4. /\ p - 1 \in Nat /\ q - 1 \in Nat /\ p - 1 <= q - 1
      /\ (p + p) - 1 = (p - 1) + p
  BY <1>2
<1>5. \A x, y \in Nat : x <= y => b * x \in Nat /\ b * y \in Nat /\ b * x <= b * y
  BY <1>1
<1>6. \A x, y \in Nat : b * (x + y) = b * x + b * y
  BY <1>1
<1>7. b * (p - 1) \in Nat /\ b * p \in Nat /\ b * (q - 1) \in Nat /\ b * (p - 1) <= b * (q - 1)
  BY <1>2, <1>4, <1>5
<1>8. b * ((p + p) - 1) = b * (p - 1) + b * p
  BY <1>2, <1>4, <1>6
<1> QED BY <1>2, <1>3, <1>7, <1>8 DEF b, p

LEMMA SleepInit == ClientInit => SleepInv
<1> SUFFICES ASSUME ClientInit PROVE SleepInv
  OBVIOUS
<1>1. ClientTypeOK
  BY DEF ClientInit, ClientTypeOK, Nothing
<1>2. attempt = 0 /\ slept = 0 /\ pages = 0 /\ MAX_RETRIES > 0 /\ 0 \in Nat
  BY ClientAssumption DEF ClientInit
<1>3. Round \in Nat /\ BASE_RETRY_DELAY_S * (2^0 - 1) \in Nat
  BY <1>2, RoundBound
<1> QED BY <1>1, <1>2, <1>3 DEF SleepInv

\* A response ends the delays of its request.
LEMMA SleepAnswered ==
    ASSUME SleepInv, pages' = pages + 1, attempt' = 0, slept' = slept
    PROVE  attempt' < MAX_RETRIES
           /\ slept' <= pages' * Round + BASE_RETRY_DELAY_S * (2^attempt' - 1)
<1>1. /\ pages \in Nat /\ slept \in Nat /\ attempt \in Nat /\ attempt < MAX_RETRIES
      /\ 0 \in Nat /\ 0 < MAX_RETRIES
  BY ClientAssumption DEF SleepInv, ClientTypeOK
<1>2. /\ Round \in Nat /\ BASE_RETRY_DELAY_S * (2^attempt - 1) \in Nat
      /\ BASE_RETRY_DELAY_S * (2^attempt - 1) <= Round
      /\ BASE_RETRY_DELAY_S * (2^0 - 1) \in Nat
  BY <1>1, RoundBound
<1>3. pages * Round \in Nat /\ (pages + 1) * Round = pages * Round + Round
  BY <1>1, <1>2
<1> DEFINE a == BASE_RETRY_DELAY_S * (2^attempt - 1)
           z == BASE_RETRY_DELAY_S * (2^0 - 1)
           old == pages * Round
<1>4. slept <= old + a /\ (pages + 1) * Round = old + Round
  BY <1>3 DEF SleepInv
<1>5. a \in Nat /\ a <= Round /\ z \in Nat /\ old \in Nat
  BY <1>2, <1>3
<1>6. slept <= (pages + 1) * Round + z
  <2> HIDE DEF a, z, old
  <2> QED BY <1>1, <1>2, <1>4, <1>5
<1> QED BY <1>1, <1>6

\* A delay is a step within the round of the request.
LEMMA SleepThrottled ==
    ASSUME SleepInv, Throttled
    PROVE  /\ slept' \in Nat /\ attempt' \in Nat /\ attempt' < MAX_RETRIES
           /\ slept' <= pages' * Round + BASE_RETRY_DELAY_S * (2^attempt' - 1)
<1>1. /\ pages \in Nat /\ slept \in Nat /\ attempt \in Nat /\ attempt + 1 < MAX_RETRIES
      /\ attempt < MAX_RETRIES /\ attempt' = attempt + 1 /\ pages' = pages
      /\ slept' = slept + BASE_RETRY_DELAY_S * 2^attempt
  BY ClientAssumption DEF SleepInv, ClientTypeOK, Throttled
<1> DEFINE a == BASE_RETRY_DELAY_S * (2^attempt - 1)
           d == BASE_RETRY_DELAY_S * 2^attempt
           old == pages * Round
<1>2. /\ Round \in Nat /\ a \in Nat /\ d \in Nat
      /\ BASE_RETRY_DELAY_S * (2^(attempt + 1) - 1) = a + d
  BY <1>1, RoundBound
<1>3. slept <= old + a /\ old \in Nat
  BY <1>1, <1>2 DEF SleepInv
<1>4. slept + d <= old + (a + d) /\ slept + d \in Nat
  <2> HIDE DEF a, d, old
  <2> QED BY <1>1, <1>2, <1>3
<1> QED BY <1>1, <1>2, <1>4

LEMMA SleepNext == SleepInv /\ [ClientNext]_clientVars => SleepInv'
<1> SUFFICES ASSUME SleepInv, [ClientNext]_clientVars PROVE SleepInv'
  OBVIOUS
<1> USE DEF ClientTypeOK
<1>1. ASSUME NEW set \in SUBSET Entry, Call(set)
      PROVE  SleepInv'
  BY <1>1 DEF SleepInv, Call
<1>2. CASE Change
  BY <1>2 DEF SleepInv, Change
<1>3. CASE Take
  <2>1. /\ attempt' = 0 /\ slept' = 0 /\ pages' = 0 /\ token' = 0 /\ result' = Nothing
        /\ pc' = "idle" /\ listed' = {} /\ steady' = {} /\ ever' = {}
        /\ UNCHANGED <<changes, faults>>
    BY <1>3 DEF Take
  <2>2. ClientTypeOK'
    BY <2>1 DEF SleepInv, Nothing
  <2>3. 0 \in Nat /\ 0 < MAX_RETRIES
    BY ClientAssumption
  <2>4. Round \in Nat /\ BASE_RETRY_DELAY_S * (2^0 - 1) \in Nat
    BY <2>3, RoundBound
  <2> QED BY <2>1, <2>2, <2>3, <2>4 DEF SleepInv
<1>4. CASE ReceivePage \/ ReceiveLastPage
  <2>1. /\ pages' = pages + 1 /\ attempt' = 0 /\ token' \in Entry \cup {token}
        /\ result' = [e \in Entry |-> IF result'[e] = result[e] THEN result[e] ELSE result[e] + 1]
        /\ pc' \in {"send", "returned"}
        /\ UNCHANGED <<listed, changes, faults, slept, steady, ever>>
    BY <1>4 DEF ReceivePage, ReceiveLastPage, Extend, Beyond, SleepInv
  <2>2. ClientTypeOK'
    BY <2>1, EntryAssumption DEF SleepInv
  <2> QED BY <2>1, <2>2, SleepAnswered DEF SleepInv
<1>5. CASE Throttled
  <2>1. UNCHANGED <<listed, changes, pc, token, result, pages, steady, ever>> /\ faults' \in Nat
    BY <1>5 DEF Throttled, Fault, SleepInv
  <2> QED BY <1>5, <2>1, SleepThrottled DEF SleepInv
<1>6. CASE GiveUp \/ Refused
  <2>1. /\ UNCHANGED <<listed, changes, attempt, token, result, pages, slept, steady, ever>>
        /\ faults' \in Nat /\ pc' = "raised"
    BY <1>6 DEF GiveUp, Refused, Fault, SleepInv
  <2> QED BY <2>1 DEF SleepInv
<1>7. CASE UNCHANGED clientVars
  BY <1>7 DEF SleepInv, clientVars
<1> QED BY <1>1, <1>2, <1>3, <1>4, <1>5, <1>6, <1>7 DEF ClientNext, Answer

LEMMA SleepInvBounds == SleepInv => SleepIsBounded
<1> SUFFICES ASSUME SleepInv PROVE SleepIsBounded
  OBVIOUS
<1> DEFINE a == BASE_RETRY_DELAY_S * (2^attempt - 1)
           p == 2^(MAX_RETRIES - 1)
           b == BASE_RETRY_DELAY_S
           full == (pages + 1) * b * (p - 1)
<1>1. /\ pages \in Nat /\ slept \in Nat /\ attempt \in Nat /\ attempt < MAX_RETRIES
      /\ b \in Nat /\ MAX_RETRIES - 1 \in Nat /\ MAX_RETRIES - 1 < MAX_RETRIES
  BY ClientAssumption DEF SleepInv, ClientTypeOK
<1>2. Round \in Nat /\ a \in Nat /\ a <= Round /\ p \in Nat
  BY <1>1, RoundBound
<1>3. slept <= pages * Round + a /\ Round = b * (p - 1)
  BY DEF SleepInv, Round
<1>4. full = (pages + 1) * Round
  <2> HIDE DEF p, b
  <2>1. \A x, y \in Nat, z \in Int : (x * y) * z = x * (y * z)
    OBVIOUS
  <2>2. pages + 1 \in Nat /\ p - 1 \in Int
    BY <1>1, <1>2
  <2> QED BY <1>1, <1>3, <2>1, <2>2
<1>5. slept <= (pages + 1) * Round
  <2> HIDE DEF a
  <2>1. pages * Round \in Nat /\ (pages + 1) * Round = pages * Round + Round
    BY <1>1, <1>2
  <2> QED BY <1>1, <1>2, <1>3, <2>1
<1> QED BY <1>4, <1>5 DEF SleepIsBounded

\* A call sleeps no longer than a full round of growing delays for every response it got
\* and one for the request it is at, whatever page is throttled and how often.
THEOREM ClientSleepsBounded == ClientSpec => []SleepIsBounded
  BY SleepInit, SleepNext, SleepInvBounds, PTL DEF ClientSpec

\* Every state of a call is well-formed.
THEOREM ClientTypeCorrect == ClientSpec => []ClientTypeOK
<1>1. SleepInv => ClientTypeOK
  BY DEF SleepInv
<1> QED BY <1>1, SleepInit, SleepNext, PTL DEF ClientSpec
=============================================================================
