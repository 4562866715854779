----------------------------- MODULE Approvals -----------------------------
(* What the approval gate promises (agent/middleware/hitl_policy.py): an action   *)
(* the agent proposes waits for a human; the human decides on the whole request,   *)
(* once; an approved action may then run, a declined one never does. An action     *)
(* that is run again (a retry) does not change its fate.                           *)
EXTENDS Integers

CONSTANTS Request,
          Width    \* most actions in one request, at least one

VARIABLE fate

Position == 1..Width
Fate == {"unasked", "asked", "approved", "declined", "ran"}

Init == fate = [r \in Request |-> [i \in Position |-> "unasked"]]

\* The agent proposes the first n actions of request r.
Ask(r) ==
    /\ fate[r][1] = "unasked"
    /\ \E n \in Position :
         fate' = [fate EXCEPT ![r] =
                    [i \in Position |-> IF i <= n THEN "asked" ELSE "unasked"]]

\* The human approves the actions in S and declines the rest.
Decide(r) ==
    /\ fate[r][1] = "asked"
    /\ \E S \in SUBSET Position :
         fate' = [fate EXCEPT ![r] =
                    [i \in Position |-> IF fate[r][i] = "unasked" THEN "unasked"
                                        ELSE IF i \in S THEN "approved"
                                        ELSE "declined"]]

Run(r, i) ==
    /\ fate[r][i] = "approved"
    /\ fate' = [fate EXCEPT ![r][i] = "ran"]

Next == \E r \in Request : Ask(r) \/ Decide(r) \/ \E i \in Position : Run(r, i)

Spec == Init /\ [][Next]_fate
=============================================================================
