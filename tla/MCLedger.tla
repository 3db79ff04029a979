------------------------------- MODULE MCLedger -------------------------------
(***************************************************************************)
(* Ledger on small sets.  Every expense is paid by one user and shared     *)
(* with another, for any two users, so users stay interchangeable: a good  *)
(* one (the other takes the odd cent), one whose payments fall short of    *)
(* its total, one with 200 percent to share, and one too large for its     *)
(* column.                                                                 *)
(***************************************************************************)
EXTENDS Ledger, TLC

Dinner(a, b, total, paid) ==
  [total |-> total, kind |-> "equal", last |-> b, paid |-> a :> paid,
   value |-> (a :> 1000) @@ (b :> 1000)]

TwoHundredPct(a, b) ==
  [total |-> 3, kind |-> "percentage", last |-> b, paid |-> a :> 3,
   value |-> (a :> 180000) @@ (b :> 20000)]

Pairs == {p \in Users \X Users : p[1] # p[2]}
MCForms == UNION {{Dinner(p[1], p[2], 3, 3), Dinner(p[1], p[2], 3, 2),
                   Dinner(p[1], p[2], 9, 9), TwoHundredPct(p[1], p[2])} : p \in Pairs}
GoodForms == {Dinner(p[1], p[2], 3, 3) : p \in Pairs}

Symmetry == Permutations(Users) \cup Permutations(Groups) \cup Permutations(Requests)
===============================================================================
