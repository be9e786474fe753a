-------------------------- MODULE HealthProxyClient --------------------------
(***************************************************************************)
(* shared/health_proxy_client.py: one paged call to AWS Health through the *)
(* proxy API, as describe_events_for_organization and                      *)
(* describe_affected_accounts_for_organization make it.  The call asks for *)
(* page after page; a throttled request is sent again after a growing      *)
(* delay, any other failure raises.  AWS Health may change what it lists   *)
(* while the call is under way.                                            *)
(***************************************************************************)
EXTENDS Paging, FiniteSets

CONSTANTS
    Entry,              \* events or accounts, by their place in AWS Health's order
    MAX_RESULTS,
    MAX_RETRIES,
    BASE_RETRY_DELAY_S,
    MaxFaults,          \* bound on injected failures
    MaxChanges          \* bound on changes during calls

ASSUME EntryAssumption == Entry \subseteq Nat \ {0}
ASSUME ClientAssumption ==
    /\ {MAX_RESULTS, MAX_RETRIES, BASE_RETRY_DELAY_S, MaxFaults, MaxChanges} \subseteq Nat
    /\ MAX_RESULTS > 0 /\ MAX_RETRIES > 0

VARIABLES
    listed,     \* what AWS Health lists for the request
    changes,
    faults,
    pc,         \* of the call
    attempt,    \* of the present request
    token,      \* next_token, 0 for None
    result,     \* the list so far: how often it holds each entry
    pages,      \* responses received
    slept,      \* seconds the call has slept
    steady,     \* entries listed ever since the call began
    ever        \* entries listed at some time since then

clientVars ==
    <<listed, changes, faults, pc, attempt, token, result, pages, slept, steady, ever>>

Nothing == [e \in Entry |-> 0]

ClientInit ==
    /\ changes = 0 /\ faults = 0
    /\ pc = "idle" /\ attempt = 0 /\ token = 0 /\ result = Nothing /\ pages = 0 /\ slept = 0
    /\ listed = {} /\ steady = {} /\ ever = {}

\* The caller's request matches the entries in set.
Call(set) ==
    /\ pc = "idle" /\ pc' = "send"
    /\ listed' = set /\ steady' = set /\ ever' = set
    /\ UNCHANGED <<changes, faults, attempt, token, result, pages, slept>>

\* The caller goes on with what the call returned or raised.
Take ==
    /\ pc \in {"returned", "raised"} /\ pc' = "idle"
    /\ attempt' = 0 /\ token' = 0 /\ result' = Nothing /\ pages' = 0 /\ slept' = 0
    /\ listed' = {} /\ steady' = {} /\ ever' = {}
    /\ UNCHANGED <<changes, faults>>

\* AWS Health starts or stops listing an entry.
Change ==
    /\ pc = "send" /\ changes < MaxChanges
    /\ \E e \in Entry :
          \/ e \in listed /\ listed' = listed \ {e}
          \/ e \notin listed /\ listed' = listed \cup {e}
    /\ changes' = changes + 1
    /\ steady' = steady \cap listed' /\ ever' = ever \cup listed'
    /\ UNCHANGED <<faults, pc, attempt, token, result, pages, slept>>

-----------------------------------------------------------------------------
Extend(page) ==
    /\ Cardinality(page) <= MAX_RESULTS
    /\ result' = [e \in Entry |-> IF e \in page THEN result[e] + 1 ELSE result[e]]
    /\ pages' = pages + 1
    /\ attempt' = 0

\* Mutant: a page that is not full is taken for the last.
MutantReceivePage ==
    /\ pc = "send"
    /\ \E next \in Beyond(Entry, token) :
          /\ Extend(Between(listed, token, next))
          /\ token' = next
          /\ pc' = IF Cardinality(Between(listed, token, next)) < MAX_RESULTS
                   THEN "returned" ELSE "send"
    /\ UNCHANGED <<listed, changes, faults, slept, steady, ever>>

\* Mutant: a page without entries is taken for an error, and the call starts again.
MutantRestart ==
    /\ pc = "send"
    /\ \E next \in Beyond(Entry, token) :
          IF Between(listed, token, next) = {}
          THEN token' = 0 /\ result' = Nothing /\ pages' = 0 /\ attempt' = 0
          ELSE Extend(Between(listed, token, next)) /\ token' = next
    /\ UNCHANGED <<listed, changes, faults, pc, slept, steady, ever>>

\* A response with a nextToken.
ReceivePage ==
    /\ pc = "send"
    /\ \E next \in Beyond(Entry, token) :
          /\ Extend(Between(listed, token, next))
          /\ token' = next
    /\ UNCHANGED <<listed, changes, faults, pc, slept, steady, ever>>

\* A response without one ends the loop.
ReceiveLastPage ==
    /\ pc = "send" /\ pc' = "returned"
    /\ Extend(Beyond(listed, token))
    /\ UNCHANGED <<listed, changes, faults, token, slept, steady, ever>>

Fault == faults < MaxFaults /\ faults' = faults + 1

\* HTTP 429, or 400 with ThrottlingException: _call sleeps and sends again.
Throttled ==
    /\ pc = "send" /\ Fault
    /\ attempt + 1 < MAX_RETRIES
    /\ slept' = slept + BASE_RETRY_DELAY_S * 2^attempt
    /\ attempt' = attempt + 1
    /\ UNCHANGED <<listed, changes, pc, token, result, pages, steady, ever>>

\* Mutant: sleeps once more before it raises.
MutantGiveUp ==
    /\ pc = "send" /\ Fault
    /\ attempt + 1 = MAX_RETRIES
    /\ slept' = slept + BASE_RETRY_DELAY_S * 2^attempt
    /\ pc' = "raised"
    /\ UNCHANGED <<listed, changes, attempt, token, result, pages, steady, ever>>

GiveUp ==
    /\ pc = "send" /\ Fault
    /\ attempt + 1 = MAX_RETRIES
    /\ pc' = "raised"
    /\ UNCHANGED <<listed, changes, attempt, token, result, pages, slept, steady, ever>>

\* Any other status, or the connection fails.
Refused ==
    /\ pc = "send" /\ Fault
    /\ pc' = "raised"
    /\ UNCHANGED <<listed, changes, attempt, token, result, pages, slept, steady, ever>>

Answer == ReceivePage \/ ReceiveLastPage \/ Throttled \/ GiveUp \/ Refused

ClientNext == (\E set \in SUBSET Entry : Call(set)) \/ Change \/ Answer \/ Take

\* AWS Health answers every request: requests.Session.send has no timeout, so a call
\* lasts as long as the proxy keeps the connection open.
ClientSpec == ClientInit /\ [][ClientNext]_clientVars /\ WF_clientVars(Answer)

-----------------------------------------------------------------------------
(* Properties *)

ClientTypeOK ==
    /\ {listed, steady, ever} \subseteq SUBSET Entry
    /\ pc \in {"idle", "send", "returned", "raised"}
    /\ {changes, faults, attempt, token, pages, slept} \subseteq Nat
    /\ result \in [Entry -> Nat]

Read == INSTANCE PagedRead WITH
            phase  <- IF pc = "send" THEN "open" ELSE pc,
            output <- IF pc = "returned" THEN result ELSE Nothing

\* Whatever pages AWS Health cuts its list into, however it throttles and changes the
\* list meanwhile, the call returns the complete list or raises.
CompleteOrRaises == Read!Safety

\* And it ends.
CallsEnd == Read!Ends

\* A call sleeps at most 1 + 2 + 4 seconds for every page it asks for.
SleepIsBounded ==
    slept <= (pages + 1) * BASE_RETRY_DELAY_S * (2^(MAX_RETRIES - 1) - 1)
=============================================================================
