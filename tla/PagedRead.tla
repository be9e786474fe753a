------------------------------ MODULE PagedRead ------------------------------
(***************************************************************************)
(* What the callers of HealthProxyClient are promised: a call returns      *)
(* every entry that was listed from its beginning to its end, exactly      *)
(* once, and nothing that was never listed meanwhile; or it raises.        *)
(***************************************************************************)
EXTENDS Naturals

CONSTANT Entry

VARIABLES
    phase,      \* of the call
    output,     \* how often the call returned each entry
    steady,     \* entries listed ever since the call began
    ever        \* entries listed at some time since then

vars == <<phase, output, steady, ever>>

Nothing == [e \in Entry |-> 0]

Init == phase = "idle" /\ output = Nothing /\ steady = {} /\ ever = {}

Begin ==
    /\ phase = "idle" /\ phase' = "open"
    /\ steady' \in SUBSET Entry /\ ever' = steady'
    /\ UNCHANGED output

Change ==
    /\ phase = "open"
    /\ steady' \subseteq steady /\ ever \subseteq ever'
    /\ UNCHANGED <<phase, output>>

Return ==
    /\ phase = "open" /\ phase' = "returned"
    /\ \A e \in Entry : /\ output'[e] \in {0, 1}
                        /\ e \in steady => output'[e] = 1
                        /\ e \notin ever => output'[e] = 0
    /\ UNCHANGED <<steady, ever>>

Raise ==
    /\ phase = "open" /\ phase' = "raised"
    /\ UNCHANGED <<output, steady, ever>>

Take ==
    /\ phase \in {"returned", "raised"} /\ phase' = "idle"
    /\ output' = Nothing /\ steady' = {} /\ ever' = {}

Next == Begin \/ Change \/ Return \/ Raise \/ Take

Safety == Init /\ [][Next]_vars

\* A call ends.
Ends == phase = "open" ~> phase # "open"

Spec == Safety /\ Ends
=============================================================================
