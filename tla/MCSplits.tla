------------------------------- MODULE MCSplits -------------------------------
(***************************************************************************)
(* SplitCalculation on every small expense of three users.  The values     *)
(* include odd thousandths (rejected for "exact"), thirds of a hundred     *)
(* percent, and shares that do not divide the total.                       *)
(***************************************************************************)
EXTENDS SplitCalculation, FiniteSetsExt

CONSTANT MaxTotal   \* bound: cents in an expense

Values(kind) == CASE kind = "equal"      -> {1000}
                  [] kind = "exact"      -> {10, 15, 20, 30, 50}
                  [] kind = "percentage" -> {12500, 25000, 33333, 33334, 50000, 100000}
                  [] kind = "shares"     -> {500, 1000, 2000, 7000}

MCForms ==
  UNION {{[total |-> t, kind |-> k, last |-> CHOOSE u \in S : TRUE,
           paid |-> [u \in S |-> t], value |-> v] : t \in 1..MaxTotal, v \in [S -> Values(k)]}
         : k \in Kinds, S \in SUBSET Users \ {{}}}
===============================================================================
