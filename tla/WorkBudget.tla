----------------------------- MODULE WorkBudget -----------------------------
(***************************************************************************)
(* What the gate and the ledger promise of work runs, whatever the board   *)
(* does: at most MaxAgents issues are worked at once, a run begins only on *)
(* an issue whose chain of failures and whose spend are below the ceilings,*)
(* neither figure moves under a run, and only a run that ended, a hand-over*)
(* to a human, a close-out or a new process lowers the chain -- never a    *)
(* label move (#112).  Orchestrator implements it.                         *)
(***************************************************************************)
EXTENDS Integers, FiniteSets

CONSTANTS Issues, MaxAgents, MaxAttempts, CostCap

\* What an issue's runs ever cost, and what it is charged in this process.
VARIABLES working, chain, spent, billed
budget == <<working, chain, spent, billed>>

Working == {i \in Issues : working[i]}

Begin(i) ==
    /\ ~working[i] /\ Cardinality(Working) < MaxAgents
    /\ chain[i] < MaxAttempts
    /\ CostCap = 0 \/ spent[i] < CostCap
    /\ working' = [working EXCEPT ![i] = TRUE]
    /\ UNCHANGED <<chain, spent, billed>>

Capped(c) == IF c > CostCap THEN CostCap ELSE c

\* A run ends: it is charged, and it clears, lengthens or leaves the chain.
End(i) ==
    /\ working[i]
    /\ working' = [working EXCEPT ![i] = FALSE]
    /\ \E n \in {0, chain[i], chain[i] + 1} : chain' = [chain EXCEPT ![i] = n]
    /\ \/ UNCHANGED <<spent, billed>>
       \/ /\ spent' = [spent EXCEPT ![i] = Capped(@ + 1)]
          /\ billed' = [billed EXCEPT ![i] = Capped(@ + 1)]

\* A human has the issue now.
HandOver(i) ==
    /\ ~working[i]
    /\ chain' = [chain EXCEPT ![i] = 0]
    /\ UNCHANGED <<working, spent, billed>>

\* A record from before this process lengthens the chain, below the ceiling.
Recall(i) ==
    /\ ~working[i]
    /\ \E n \in chain[i]..MaxAttempts - 1 : chain' = [chain EXCEPT ![i] = n]
    /\ UNCHANGED <<working, spent, billed>>

\* The issue is closed out; a reopened one starts again from nothing.
CloseOut(i) ==
    /\ ~working[i]
    /\ chain' = [chain EXCEPT ![i] = 0]
    /\ spent' = [spent EXCEPT ![i] = 0]
    /\ UNCHANGED <<working, billed>>

\* A new process charges an issue what its runs ever cost, where it is known.
NewProcess ==
    /\ working' = [i \in Issues |-> FALSE]
    /\ chain' \in [Issues -> 0..MaxAttempts - 1]
    /\ \E lost \in SUBSET Issues :
         spent' = [i \in Issues |-> IF i \in lost THEN 0 ELSE billed[i]]
    /\ UNCHANGED billed

Init == /\ working = [i \in Issues |-> FALSE]
        /\ chain = [i \in Issues |-> 0]
        /\ spent = [i \in Issues |-> 0]
        /\ billed = [i \in Issues |-> 0]

Next == \/ \E i \in Issues : Begin(i) \/ End(i) \/ HandOver(i) \/ Recall(i) \/ CloseOut(i)
        \/ NewProcess

Spec == Init /\ [][Next]_budget
=============================================================================
