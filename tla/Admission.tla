------------------------------ MODULE Admission ------------------------------
(***************************************************************************)
(* The one gate every claim goes through: orchestrator/admission.py.       *)
(*                                                                         *)
(* The gate is a pure function of a request the orchestrator gathers at    *)
(* one instant.  A request here is a record:                               *)
(*   stopping  the worker is shutting down                                 *)
(*   hold      some worker-wide dispatch hold is in force                  *)
(*   slots     free orchestrator slots                                     *)
(*   busy      the issue is running or waiting to retry                    *)
(*   state     the issue's state label, "unread" when the caller has not   *)
(*             fetched the issue, "none" when it is not dispatchable       *)
(*   kind      "work" or "triage"                                          *)
(*   order     an earlier step of the parent's split is open or unreadable *)
(*   failures, cost   what the ledger holds for the issue                  *)
(* and a verdict is "admitted" or the kind of the refusal.                 *)
(***************************************************************************)
EXTENDS Integers

CONSTANTS
    MaxAttempts,  \* agent.max_attempts
    CostCap       \* agent.max_issue_cost_usd in abstract units; 0 is "no cap"

ASSUME BudgetAssumption == /\ MaxAttempts \in Nat \ {0}
                           /\ CostCap \in Nat

StateLabels  == {"todo", "in_progress", "review", "rework", "complete"}
ActiveStates == {"todo", "in_progress", "rework"}

Verdicts == {"admitted", "stopping", "hold", "slots", "busy",
             "inactive", "order", "attempts", "spend"}

\* What the request says about the issue's own budget.
OverCost(cost) == CostCap > 0 /\ cost >= CostCap

\* The order is the point: the worker's own reasons outrank the issue's, and
\* the budget, the only answer that ends the issue's turn, comes last.
Admit(req) ==
    LET work == req.kind = "work" IN
    IF req.stopping THEN "stopping"
    ELSE IF req.hold THEN "hold"
    ELSE IF req.slots <= 0 THEN "slots"
    ELSE IF req.busy THEN "busy"
    ELSE IF req.state = "unread" THEN "admitted"
    ELSE IF work /\ req.state \notin ActiveStates THEN "inactive"
    ELSE IF work /\ req.state = "todo" /\ req.order THEN "order"
    ELSE IF work /\ req.failures >= MaxAttempts THEN "attempts"
    ELSE IF OverCost(req.cost) THEN "spend"
    ELSE "admitted"

\* Refusals a caller that can wait waits out (Refused.wait is not None).
Waits == {"hold", "slots", "order"}

\* Refusals that hand the issue to a human.
BudgetRefusals == {"attempts", "spend"}

\* Mutant: a recalled chain is taken at its word.
UncappedChain(n) == n

\* What a chain read from before this process may contribute: one short of
\* the ceiling, so the issue still gets a run that can escalate it.
SeededChain(n) == IF n < MaxAttempts THEN n ELSE MaxAttempts - 1
=============================================================================
