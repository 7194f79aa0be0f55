---------------------------- MODULE SpendingCap ----------------------------
(***************************************************************************)
(* What the budget gate of device-service promises (ADR-014, FR-329):      *)
(* a set of accounts, each with a cap.  An allowance of a fixed size is    *)
(* opened before money is spent and closed at the amount really spent,     *)
(* which may exceed the allowance, though by a bounded amount.             *)
(* An allowance may be opened only while everything already spent and      *)
(* everything still allowed, this allowance included, fits under the cap.  *)
(* Who opens and closes, in which order and through which ledger, is left  *)
(* to the implementation (BudgetLedger).                                   *)
(***************************************************************************)
EXTENDS Naturals

CONSTANTS
  Account,      \* the things that have a cap of their own
  Cap,          \* [Account -> Nat], 0 means "no cap"
  Allowance,    \* [Account -> Nat], the size of one allowance
  Overrun       \* [Account -> Nat], how far its cost may exceed it

VARIABLES
  spent,        \* [Account -> Nat], what closed allowances really cost
  open          \* [Account -> Nat], the number of open allowances

vars == <<spent, open>>

(* What the account is known or allowed to have cost.                      *)
Exposure(a) == spent[a] + Allowance[a] * open[a]

(* What it may still turn out to have cost.                                *)
Worst(a) == spent[a] + (Allowance[a] + Overrun[a]) * open[a]

(* Worst(a) / Cap[a] <= (Allowance[a] + Overrun[a]) / Allowance[a]: the     *)
(* spend is over the cap by no greater factor than a cost is over its      *)
(* allowance, however many allowances are open at once.                    *)
OverspendBounded ==
  \A a \in Account : Cap[a] > 0 =>
    Allowance[a] * Worst(a) <= Cap[a] * (Allowance[a] + Overrun[a])

Init ==
  /\ spent = [a \in Account |-> 0]
  /\ open  = [a \in Account |-> 0]

Open(a) ==
  /\ Cap[a] > 0 => Exposure(a) + Allowance[a] <= Cap[a]
  /\ open' = [open EXCEPT ![a] = @ + 1]
  /\ UNCHANGED spent

Close(a) ==
  \E actual \in 0..(Allowance[a] + Overrun[a]) :
    /\ open[a] > 0
    /\ open' = [open EXCEPT ![a] = @ - 1]
    /\ spent' = [spent EXCEPT ![a] = @ + actual]

Next == \E a \in Account : Open(a) \/ Close(a)

Spec == Init /\ [][Next]_vars
=============================================================================
