------------------------------ MODULE ReqBudget ------------------------------
(***************************************************************************)
(* What the request counter promises: a budget of requests that workers    *)
(* take one at a time.  A take succeeds only while the budget is not       *)
(* exhausted, so no more requests are sent than the budget held, and the   *)
(* budget left never grows.  The budget may also be closed: once the run's *)
(* duration is over, nothing is left to take.                              *)
(***************************************************************************)
EXTENDS Naturals

CONSTANT Budgets   \* the budgets a run may start with

VARIABLES left, sent

Init == left \in Budgets /\ sent = 0

\* One request is taken from the budget and sent.
Take == left > 0 /\ left' = left - 1 /\ sent' = sent + 1

\* The rest of the budget is discarded.
Close == left' = 0 /\ sent' = sent

Spec == Init /\ [][Take \/ Close]_<<left, sent>>

=============================================================================
