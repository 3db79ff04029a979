----------------------------- MODULE MCMembership -----------------------------
(***************************************************************************)
(* Membership on small sets of users, groups and request slots.  Slots are *)
(* interchangeable, and so are users and groups: no action and no property *)
(* names one of them.                                                      *)
(***************************************************************************)
EXTENDS Membership, TLC

Symmetry == Permutations(Users) \cup Permutations(Groups) \cup Permutations(Requests)
===============================================================================
