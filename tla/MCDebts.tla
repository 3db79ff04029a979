-------------------------------- MODULE MCDebts --------------------------------
(***************************************************************************)
(* DebtSimplification on every way to spread small balances over the users *)
(* so that they add up to zero.                                            *)
(***************************************************************************)
EXTENDS DebtSimplification

CONSTANTS MaxCents   \* bound: the largest balance, in cents

MCNets == {net \in [Users -> {Cent * c : c \in -MaxCents..MaxCents}] : SumFunction(net) = 0}
===============================================================================
