--------------------------- MODULE StartContract ---------------------------
(***************************************************************************)
(* What a caller may rely on when it starts the containers of deployments  *)
(* (core/launcher.py calls runtime.run for each): success means that every *)
(* rank was started and that none is started any more; a failure promises  *)
(* nothing about what runs, and a start may still arrive after it.         *)
(***************************************************************************)
CONSTANTS Launch, Rank

VARIABLES
    outcome,   \* "pending", "ok" or "failed"
    live,      \* ranks whose container is up
    fallen     \* ranks whose container went down without the launch's doing

vars == <<outcome, live, fallen>>

Init ==
    /\ outcome = [l \in Launch |-> "pending"]
    /\ live = [l \in Launch |-> {}]
    /\ fallen = [l \in Launch |-> {}]

Begin(l, r) ==
    /\ outcome[l] # "ok"
    /\ live' = [live EXCEPT ![l] = @ \cup {r}]
    /\ fallen' = [fallen EXCEPT ![l] = @ \ {r}]
    /\ UNCHANGED outcome

Fall(l, r) ==
    /\ r \in live[l]
    /\ live' = [live EXCEPT ![l] = @ \ {r}]
    /\ fallen' = [fallen EXCEPT ![l] = @ \cup {r}]
    /\ UNCHANGED outcome

Clean(l) ==
    /\ outcome[l] = "pending"
    /\ \E rest \in SUBSET live[l] : live' = [live EXCEPT ![l] = rest]
    /\ outcome' \in {outcome, [outcome EXCEPT ![l] = "failed"]}
    /\ UNCHANGED fallen

Succeed(l) ==
    /\ outcome[l] = "pending"
    /\ Rank \subseteq live[l] \cup fallen[l]
    /\ outcome' = [outcome EXCEPT ![l] = "ok"]
    /\ UNCHANGED <<live, fallen>>

Next ==
    \E l \in Launch :
        \/ \E r \in Rank : Begin(l, r) \/ Fall(l, r)
        \/ Clean(l) \/ Succeed(l)

Spec == Init /\ [][Next]_vars
=============================================================================
