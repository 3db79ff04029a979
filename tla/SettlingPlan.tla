----------------------------- MODULE SettlingPlan -----------------------------
(***************************************************************************)
(* What a list of debts has to do: transfer by transfer, money goes from   *)
(* someone who still owes to someone who is still owed, never more than    *)
(* either has left, until nobody owes anything.  _simplify_debts           *)
(* (DebtSimplification) is one way to choose the transfers.                *)
(***************************************************************************)
EXTENDS Integers, Sequences

CONSTANTS Users, Nets   \* the balances to settle, positive: is owed money

VARIABLES open,   \* what is left of each user's balance
          plan    \* the transfers so far

PlanInit == open \in Nets /\ plan = <<>>

Transfer(from, to, amount) ==
  /\ amount <= open[to] /\ amount <= - open[from]
  /\ open' = [open EXCEPT ![from] = @ + amount, ![to] = @ - amount]
  /\ plan' = Append(plan, [from |-> from, to |-> to, amount |-> amount])

PlanNext == \E from, to \in Users :
              \E amount \in 1..open[to] : Transfer(from, to, amount)

\* As long as somebody owes, somebody pays.
PlanSpec == PlanInit /\ [][PlanNext]_<<open, plan>> /\ WF_<<open, plan>>(PlanNext)
===============================================================================
