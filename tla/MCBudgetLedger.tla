--------------------------- MODULE MCBudgetLedger ---------------------------
(* Small instances of BudgetLedger: two concurrent calls, both layers        *)
(* metered, caps that admit some but not all of the reservations.            *)
EXTENDS BudgetLedger, TLC

MCBudget  == [l1 |-> 4, guardrail |-> 3]
MCCallEst == [l1 |-> 2, guardrail |-> 1]
MCCallCosts == [l1 |-> {1, 2}, guardrail |-> {1}]

(* An L1 prompt of up to 32 KB costs more than the 4000 tokens estimated.    *)
MCLargePrompt == [l1 |-> {1, 3}, guardrail |-> {1}]
MCCallExcess == [l1 |-> 1, guardrail |-> 0]

Symmetry == Permutations(Calls)
=============================================================================
