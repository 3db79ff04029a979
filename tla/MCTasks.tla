------------------------------- MODULE MCTasks -------------------------------
(***************************************************************************)
(* The two tasks of the worker under fairness, on small sets: what         *)
(* Notifications promises, and that WeeklySummary comes to an end.  Neither *)
(* task reads what the other writes: every behaviour picks a part and takes *)
(* the steps of that part.  Notifications are two parts: one record, with  *)
(* every user and every retry, or two records at once, with fewer.  For    *)
(* the weekly summary every expense is paid by one user for another.       *)
(***************************************************************************)
EXTENDS Notifications, Integers, TLC

CONSTANTS Founder,                          \* users are interchangeable: let one found the groups
          Sole,                             \* bound: the one record of the part "alone"
          Couple, FewRetries,               \* bounds: users and retries of the part "together"
          People, Circles, Owner, Prices, Amounts, MaxBalance    \* WeeklySummary

VARIABLES part,
          creator, members, spent, paid, pc, loaded, todo, group, expenses,
          net_balances, balances, results, unmailed, outbox, killed

weeklyVars == <<creator, members, spent, paid, pc, loaded, todo, group, expenses,
                net_balances, balances, results, unmailed, outbox, killed>>

Bought(payer, user, price) ==
  [u \in People |-> CASE u = payer -> price [] u = user -> -price [] OTHER -> 0]
MCMoves == {Bought(p[1], p[2], price) : p \in {q \in People \X People : q[1] # q[2]},
                                        price \in Prices}

Weekly == INSTANCE WeeklySummary WITH Users <- People, Groups <- Circles, Moves <- MCMoves,
                                      founder <- creator, roster <- members

MCInit == part \in {"alone", "together", "weekly"} /\ Init /\ Weekly!Init

WithinParts ==
  /\ part = "alone" => \A r \in Records \ {Sole} : row'[r] = NoRow
  /\ part = "together" => /\ \A g \in Groups : roster'[g] \subseteq Couple
                          /\ \A r \in Records : row'[r].kind = "settlement"
                                                => row'[r].receiver \in Couple
                          /\ \A m \in queue' : m.retries <= FewRetries

MCNext == /\ UNCHANGED part
          /\ \/ part # "weekly" /\ Next        /\ UNCHANGED weeklyVars
             \/ part = "weekly" /\ Weekly!Next /\ UNCHANGED vars
          /\ WithinParts
          /\ \A g \in Groups  : founder'[g] \in {NoUser, Founder}
          /\ \A c \in Circles : creator'[c] \in {NoUser, Owner}

\* The fairness of both parts.
MCSpec == /\ MCInit /\ [][MCNext]_<<part, vars, weeklyVars>>
          /\ Fairness
          /\ WF_weeklyVars(Weekly!Work)

\* A run the beat has started comes to an end.
RunEnds == Weekly!RunEnds
===============================================================================
