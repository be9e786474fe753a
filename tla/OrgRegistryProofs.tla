--------------------------- MODULE OrgRegistryProofs ---------------------------
(***************************************************************************)
(* Theorems about OrgRegistry, for any organisations, any number of runs   *)
(* of register_org.sh and of containers, and any failures.                 *)
(***************************************************************************)
EXTENDS OrgRegistry, TLAPS

-----------------------------------------------------------------------------
(* Type correctness *)

LEMMA TypeInit == Init => TypeOK
  BY DEF Init, TypeOK, Idle, NotRead

\* What is written back is a registry again.
LEMMA UpdatedType ==
    ASSUME TypeOK, NEW p \in Operator, editing[p] # Idle, current[p] # NotRead
    PROVE  /\ editing[p][1] \in {"add", "delete"} /\ editing[p][2] \in Org
           /\ current[p] \in [Org -> Entry]
           /\ Updated(p) \in [Org -> Entry]
<1>1. editing[p] \in {"add", "delete"} \X Org /\ current[p] \in [Org -> Entry]
  BY DEF TypeOK
<1>2. editing[p][1] \in {"add", "delete"} /\ editing[p][2] \in Org
  BY <1>1
<1> QED BY <1>1, <1>2 DEF Updated, Entry

LEMMA FaultsType ==
    ASSUME TypeOK
    PROVE  /\ \A kind : Fails(kind) => faults' \in Nat /\ faults' # faults
           /\ Alone => faults' \in Nat
  BY DEF TypeOK, Fails, Alone

LEMMA NextType == TypeOK /\ [Next]_vars => TypeOK'
<1> SUFFICES ASSUME TypeOK, [Next]_vars PROVE TypeOK'
  OBVIOUS
<1> USE DEF TypeOK
<1>1. ASSUME NEW p \in Operator, Start(p) PROVE TypeOK'
  <2>1. PICK o \in Org, command \in {"add", "delete"} :
            editing' = [editing EXCEPT ![p] = <<command, o>>]
    BY <1>1 DEF Start
  <2>2. <<command, o>> \in {Idle} \cup {"add", "delete"} \X Org
    OBVIOUS
  <2>3. editing' \in [Operator -> {Idle} \cup {"add", "delete"} \X Org]
    BY <2>1, <2>2
  <2> QED BY <1>1, <2>3, FaultsType DEF Start
<1>2. ASSUME NEW p \in Operator, GetParameter(p) PROVE TypeOK'
  BY <1>2 DEF GetParameter
<1>3. ASSUME NEW p \in Operator, GetFails(p) PROVE TypeOK'
  <2>1. [o \in Org |-> "absent"] \in [Org -> Entry]
    BY DEF Entry
  <2> QED BY <1>3, <2>1, FaultsType DEF GetFails
<1>4. ASSUME NEW p \in Operator, PutParameter(p) PROVE TypeOK'
  BY <1>4, UpdatedType DEF PutParameter, Done
<1>5. ASSUME NEW p \in Operator, Abort(p) PROVE TypeOK'
  BY <1>5, FaultsType DEF Abort, Done
<1>6. ASSUME NEW o \in Org, EditByHand(o) PROVE TypeOK'
  <2>1. param' \in [Org -> Entry]
    BY <1>6 DEF EditByHand, Entry
  <2> QED BY <1>6, <2>1, FaultsType DEF EditByHand
<1>7. ASSUME NEW c \in Container, LoadOrgs(c) PROVE TypeOK'
  BY <1>7 DEF LoadOrgs, EnabledOrgs
<1>8. ASSUME NEW c \in Container, LoadFails(c) PROVE TypeOK'
  BY <1>8, FaultsType DEF LoadFails
<1>9. ASSUME NEW c \in Container, Retire(c) PROVE TypeOK'
  BY <1>9 DEF Retire
<1>10. CASE ListOrgs
  BY <1>10 DEF ListOrgs
<1>11. CASE UNCHANGED vars
  BY <1>11 DEF vars
<1> QED BY <1>1, <1>2, <1>3, <1>4, <1>5, <1>6, <1>7, <1>8, <1>9, <1>10, <1>11 DEF Next

\* Every state of the registry, of its edits and of its readers is well-formed.
THEOREM RegistryTypeCorrect == Spec => []TypeOK
  BY TypeInit, NextType, PTL DEF Spec

-----------------------------------------------------------------------------
(* Edits keep the other organisations *)

\* Before the first failure one operator at most is at work, and what a run has read is
\* what it will replace.
EditInv ==
    faults = 0 =>
        /\ \A p, q \in Operator : editing[p] # Idle /\ editing[q] # Idle => p = q
        /\ \A p \in Operator : /\ editing[p] = Idle => current[p] = NotRead
                               /\ current[p] \in {NotRead, param}

LEMMA EditInvNext == TypeOK /\ EditInv /\ [Next]_vars => EditInv'
<1> SUFFICES ASSUME TypeOK, EditInv, [Next]_vars, faults' = 0 PROVE EditInv'
  BY DEF EditInv
<1>1. /\ \A kind : ~Fails(kind)
      /\ Alone => faults = 0 /\ \A p \in Operator : editing[p] = Idle
  BY DEF Fails, Alone, TypeOK
<1>2. ASSUME NEW p \in Operator, Start(p) PROVE EditInv'
  <2>1. faults = 0 /\ (\A q \in Operator : editing[q] = Idle) /\ UNCHANGED <<param, current>>
    BY <1>1, <1>2 DEF Start
  <2>2. \A q \in Operator : q # p => editing'[q] = Idle
    BY <1>2, <2>1 DEF Start, TypeOK
  <2> QED BY <2>1, <2>2 DEF EditInv
<1>3. ASSUME NEW p \in Operator, GetParameter(p) PROVE EditInv'
  BY <1>3 DEF GetParameter, EditInv, TypeOK
<1>4. ASSUME NEW p \in Operator, PutParameter(p) \/ Abort(p) PROVE EditInv'
  <2>1. /\ faults = 0 /\ editing[p] # Idle
        /\ editing' = [editing EXCEPT ![p] = Idle]
        /\ current' = [current EXCEPT ![p] = NotRead]
    BY <1>1, <1>4 DEF PutParameter, Abort, Done
  <2>2. \A q \in Operator : editing'[q] = Idle /\ current'[q] = NotRead
    <3>1. \A q \in Operator : q # p => editing[q] = Idle /\ current[q] = NotRead
      BY <2>1 DEF EditInv
    <3> QED BY <2>1, <3>1 DEF TypeOK
  <2> QED BY <2>2 DEF EditInv
<1>5. ASSUME NEW o \in Org, EditByHand(o) PROVE EditInv'
  <2>1. /\ faults = 0 /\ \A q \in Operator : editing[q] = Idle
        /\ UNCHANGED <<editing, current>>
    BY <1>1, <1>5 DEF EditByHand
  <2>2. \A q \in Operator : current[q] = NotRead
    BY <2>1 DEF EditInv
  <2> QED BY <2>1, <2>2 DEF EditInv
<1>6. CASE UNCHANGED <<param, faults, editing, current>>
  BY <1>6 DEF EditInv
<1>7. \A p \in Operator : ~GetFails(p)
  BY <1>1 DEF GetFails
<1>8. \A c \in Container : ~LoadFails(c)
  BY <1>1 DEF LoadFails
<1> QED BY <1>2, <1>3, <1>4, <1>5, <1>6, <1>7, <1>8
        DEF Next, LoadOrgs, Retire, ListOrgs, vars

\* Before the first failed call or overlapping edit, a run of register_org.sh and an edit by
\* hand change the organisation they are about and no other, however many operators there
\* are.
THEOREM EditsKeepAllOthers == Spec => EditsKeepOthers
<1> DEFINE Step ==
      \A o \in Org : param'[o] # param[o] =>
          \/ faults > 0
          \/ edits' # edits /\ param' = [param EXCEPT ![o] = param'[o]]
          \/ \E p \in Operator : /\ editing[p] # Idle /\ editing'[p] = Idle
                                 /\ editing[p][2] = o
<1>1. Init => EditInv
  BY DEF Init, EditInv
<1>2. TypeOK /\ EditInv /\ [Next]_vars => [Step]_vars
  <2> SUFFICES ASSUME TypeOK, EditInv, Next, NEW o \in Org, param'[o] # param[o], ~(faults > 0)
               PROVE  \/ edits' # edits /\ param' = [param EXCEPT ![o] = param'[o]]
                      \/ \E p \in Operator : /\ editing[p] # Idle /\ editing'[p] = Idle
                                             /\ editing[p][2] = o
    OBVIOUS
  <2>1. faults = 0
    BY DEF TypeOK
  <2>2. ASSUME NEW p \in Operator, PutParameter(p)
        PROVE  editing[p] # Idle /\ editing'[p] = Idle /\ editing[p][2] = o
    <3>1. editing[p] # Idle /\ current[p] = param /\ param' = Updated(p) /\ editing'[p] = Idle
      BY <2>1, <2>2 DEF PutParameter, Done, EditInv, TypeOK
    <3>2. param \in [Org -> Entry] /\ editing[p][2] \in Org
      BY <2>2, UpdatedType DEF PutParameter, TypeOK
    <3> QED BY <3>1, <3>2 DEF Updated
  <2>3. ASSUME NEW h \in Org, EditByHand(h)
        PROVE  edits' # edits /\ param' = [param EXCEPT ![o] = param'[o]]
    <3>1. PICK e \in {"enabled", "disabled"} : param' = [param EXCEPT ![h] = e]
      BY <2>3 DEF EditByHand
    <3>2. h = o
      BY <3>1 DEF TypeOK
    <3> QED BY <2>3, <3>1, <3>2 DEF EditByHand, TypeOK
  <2> QED BY <2>2, <2>3
          DEF Next, Start, GetParameter, GetFails, Abort, Done, LoadOrgs, LoadFails, Retire, ListOrgs
<1> HIDE DEF Step
<1>3. EditsKeepOthers <=> [][Step]_vars
  BY DEF EditsKeepOthers, Step
<1> QED BY <1>1, <1>2, <1>3, RegistryTypeCorrect, EditInvNext, PTL DEF Spec
=============================================================================
