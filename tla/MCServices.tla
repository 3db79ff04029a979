------------------------------ MODULE MCServices ------------------------------
(***************************************************************************)
(* Services on small sets.  For the weekly summary every expense is paid   *)
(* by one user for another.                                                *)
(***************************************************************************)
EXTENDS Services, TLC

CONSTANTS Prices

MCNames == {"ann", "Ann", "bob"}
MCLower == [n \in MCNames |-> IF n = "Ann" THEN "ann" ELSE n]

Bought(payer, user, price) ==
  [u \in Users |-> CASE u = payer -> price [] u = user -> -price [] OTHER -> 0]
MCMoves == {Bought(p[1], p[2], price) : p \in {q \in Users \X Users : q[1] # q[2]},
                                        price \in Prices}

Symmetry == Permutations(Requests) \cup Permutations(Users)
===============================================================================
