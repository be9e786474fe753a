------------------------------ MODULE EventFeed ------------------------------
(***************************************************************************)
(* collector/handler.py, steps 3 and 4 of _collect_org: one call for the   *)
(* organisation's events, then for every event one call for the accounts   *)
(* it affects, the filter on the organisation's accounts, the              *)
(* classification and the put_item.  Composes HealthProxyClient and        *)
(* EventClassifier; module Collector takes from here that an organisation  *)
(* gets a complete window or fails.                                        *)
(***************************************************************************)
EXTENDS HealthProxyClient, EventClassifier

CONSTANTS
    AccountMap,     \* the accounts load_account_map returned
    Attributes      \* [Entry -> what the events call says of an event]

ASSUME FeedAssumption ==
    /\ AccountMap \subseteq Entry
    /\ \A e \in Entry : {"service", "code", "status"} \subseteq DOMAIN Attributes[e]

VARIABLES
    stage,      \* of the pipeline
    todo,       \* events it has not processed
    skipped,    \* events left out for an exception
    items       \* written_items: what it returns for each event

feedVars == <<stage, todo, skipped, items>>
vars == <<feedVars, clientVars>>

NoItem == [accounts |-> {}, operational |-> FALSE, severity |-> "none"]

Init ==
    /\ ClientInit
    /\ stage = "start" /\ todo = {} /\ skipped = {}
    /\ items = [e \in Entry |-> NoItem]

\* AWS Health and the client go on while the pipeline waits for a call.
CallGoesOn ==
    /\ Change \/ Answer
    /\ UNCHANGED feedVars

DescribeEvents ==
    /\ stage = "start" /\ stage' = "events"
    /\ \E set \in SUBSET Entry : Call(set)
    /\ UNCHANGED <<todo, skipped, items>>

TakeEvents ==
    /\ stage = "events" /\ pc = "returned" /\ Take
    /\ stage' = "process"
    /\ todo' = {e \in Entry : result[e] > 0}
    /\ UNCHANGED <<skipped, items>>

EventsFail ==
    /\ stage = "events" /\ pc = "raised" /\ Take
    /\ stage' = "failed"
    /\ UNCHANGED <<todo, skipped, items>>

\* The loop takes the events as they were listed.
Current == CHOOSE e \in todo : \A f \in todo : e <= f

DescribeAffectedAccounts ==
    /\ stage = "process" /\ todo # {} /\ stage' = "accounts"
    /\ \E set \in SUBSET Entry : Call(set)
    /\ UNCHANGED <<todo, skipped, items>>

\* account_map[acct_id] for the affected accounts the organisation has
OrgAccounts == {a \in AccountMap : result[a] > 0}

Classified(e) ==
    ClassifyEvent(Attributes[e].service, Attributes[e].code, Attributes[e].status, {})

\* Mutant: the accounts are not filtered by the account map.
MutantProcessEvent ==
    /\ stage = "accounts" /\ pc = "returned" /\ Take
    /\ stage' = "process" /\ todo' = todo \ {Current}
    /\ items' = [items EXCEPT ![Current] =
            [accounts    |-> {a \in Entry : result[a] > 0},
             operational |-> Classified(Current).operational,
             severity    |-> Classified(Current).severity]]
    /\ UNCHANGED skipped

ProcessEvent ==
    /\ stage = "accounts" /\ pc = "returned" /\ Take
    /\ stage' = "process" /\ todo' = todo \ {Current}
    /\ items' = IF OrgAccounts = {} THEN items
                ELSE [items EXCEPT ![Current] =
                        [accounts    |-> OrgAccounts,
                         operational |-> Classified(Current).operational,
                         severity    |-> Classified(Current).severity]]
    /\ UNCHANGED skipped

\* Mutant: an event with an exception is tried again.
MutantSkipEvent ==
    /\ stage = "accounts" /\ Take
    /\ \/ pc = "raised"
       \/ pc = "returned" /\ OrgAccounts # {}
    /\ stage' = "process"
    /\ skipped' = skipped \cup {Current}
    /\ UNCHANGED <<todo, items>>

\* The exception of one event's call or put_item is logged, and the loop goes on.
SkipEvent ==
    /\ stage = "accounts" /\ Take
    /\ \/ pc = "raised"
       \/ pc = "returned" /\ OrgAccounts # {}
    /\ stage' = "process" /\ todo' = todo \ {Current}
    /\ skipped' = skipped \cup {Current}
    /\ UNCHANGED items

Finish ==
    /\ stage = "process" /\ todo = {} /\ stage' = "done"
    /\ UNCHANGED <<todo, skipped, items, clientVars>>

Pipeline ==
    \/ DescribeEvents \/ TakeEvents \/ EventsFail
    \/ DescribeAffectedAccounts \/ ProcessEvent \/ SkipEvent
    \/ Finish

Next == CallGoesOn \/ Pipeline

\* AWS Health answers, and the thread runs.
Spec == Init /\ [][Next]_vars /\ WF_vars(Answer /\ UNCHANGED feedVars) /\ WF_vars(Pipeline)

-----------------------------------------------------------------------------
(* Properties *)

TypeOK ==
    /\ ClientTypeOK
    /\ stage \in {"start", "events", "process", "accounts", "done", "failed"}
    /\ {todo, skipped} \subseteq SUBSET Entry
    /\ items \in [Entry -> [accounts : SUBSET AccountMap, operational : BOOLEAN,
                            severity : {"none", "standard", "critical"}]]

\* An event's item names all its accounts of the organisation that AWS Health listed
\* throughout the call for them and none that it never listed; an event that affects
\* none has no item, and an event is left out only for an exception.
ItemsTellTheAnswer ==
    [][\A e \in Entry : (stage = "accounts" /\ stage' = "process") =>
          IF e = Current /\ e \notin skipped'
          THEN /\ steady \cap AccountMap \subseteq items'[e].accounts
               /\ items'[e].accounts \subseteq ever \cap AccountMap
          ELSE items'[e] = items[e]]_vars

\* Every event that SPEC.md section 7 calls critical is written as critical and
\* operational, although the collector classifies without the description: the
\* alert dispatcher, which takes operational items only, sees it.
CriticalIsAlertable ==
    \A e \in Entry :
        LET a == Attributes[e]
        IN  items[e] # NoItem /\ CriticalBySpec(a.service, a.code, a.status) =>
                items[e].operational /\ items[e].severity = "critical"

\* A pipeline comes to an end, whatever the proxy answers.
PipelineEnds == <>(stage \in {"done", "failed"})
=============================================================================
