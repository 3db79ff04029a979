--------------------------- MODULE SplitCalculation ---------------------------
(***************************************************************************)
(* Calls of _calculate_splits, one at a time, and what they guarantee.     *)
(***************************************************************************)
EXTENDS Splits

CONSTANTS Users, Forms   \* the expenses to divide

ASSUME FormsAssumption == /\ IsFiniteSet(Users)
                          /\ \A f \in Forms : ValidForm(f, Users)

VARIABLES form,    \* the call's arguments
          status,  \* "called", "returned" or "ValueError"
          owed     \* the amount owed by each user, once returned

vars == <<form, status, owed>>

Init == form \in Forms /\ status = "called" /\ owed = <<>>

Calculate ==
  /\ status = "called"
  /\ \/ /\ Accepts(form.total, form.kind, form.value)
        /\ status' = "returned"
        /\ owed' = Shares(form.total, form.kind, form.value, form.last)
     \/ /\ ~Accepts(form.total, form.kind, form.value)
        /\ status' = "ValueError"
        /\ UNCHANGED owed
  /\ UNCHANGED form

Spec == Init /\ [][Calculate]_vars

-------------------------------------------------------------------------------

\* The shares add up to the total to the cent, whatever the rounding, and nobody
\* owes less than nothing: the docstring's "to guarantee sum == total".
SharesAddUp == status = "returned" => /\ SumFunction(owed) = form.total
                                      /\ \A u \in DOMAIN owed : owed[u] >= 0

\* The reference: a user's exact share is total * Weight / Whole.
Weight(u) == IF form.kind = "equal" THEN 1 ELSE form.value[u]
Whole == IF form.kind = "equal" THEN Count(form.value) ELSE SumFunction(form.value)

\* Nobody but the last entry pays a cent more than their exact share or a whole
\* cent less, and the last pays less than one cent too much for each other user.
FairToTheCent ==
  status = "returned" =>
    \A u \in DOMAIN owed :
      LET over == Whole * owed[u] - form.total * Weight(u)
      IN IF u = form.last THEN over >= 0 /\ over <= (Whole - 1) * (Count(form.value) - 1)
                          ELSE over <= 0 /\ over > - Whole
===============================================================================
