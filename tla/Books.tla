--------------------------------- MODULE Books ---------------------------------
(***************************************************************************)
(* What the money endpoints promise whoever reads the tables: the books of *)
(* a group move by one record at a time, an expense moves what its         *)
(* participants spent for each other and a payment moves its amount from   *)
(* the receiver's balance to the payer's.  Ledger implements this          *)
(* specification and WeeklySummary reads it.                               *)
(***************************************************************************)
EXTENDS GroupRoster, Integers, FiniteSets, Functions

CONSTANTS Moves,     \* what one expense adds to the balances of a group
          Amounts    \* what one payment can come to

VARIABLES spent,  \* per group and user: paid minus owed, over the live expenses
          paid    \* per group and user: paid minus received, over the settlements

books == <<spent, paid>>

Square(users) == [u \in users |-> 0]

BooksInit == RosterInit /\ spent = [g \in Groups |-> Square(Users)] /\ paid = [g \in Groups |-> Square(Users)]

\* create_expense, at its commit.
Spend(g, move) == /\ spent' = [spent EXCEPT ![g] = [u \in Users |-> @[u] + move[u]]]
                  /\ UNCHANGED <<rosterVars, paid>>

\* delete_expense, at its commit.
Refund(g, move) == /\ spent' = [spent EXCEPT ![g] = [u \in Users |-> @[u] - move[u]]]
                   /\ UNCHANGED <<rosterVars, paid>>

\* create_settlement, at its commit.
Pay(g, payer, receiver, amount) ==
  /\ payer # receiver
  /\ paid' = [paid EXCEPT ![g][payer] = @ + amount, ![g][receiver] = @ - amount]
  /\ UNCHANGED <<rosterVars, spent>>

BooksNext ==
  \/ RosterNext /\ UNCHANGED books
  \/ \E g \in Groups :
       \/ \E move \in Moves : Spend(g, move) \/ Refund(g, move)
       \/ \E payer, receiver \in Users, amount \in Amounts : Pay(g, payer, receiver, amount)

BooksSpec == BooksInit /\ [][BooksNext]_<<rosterVars, books>>
===============================================================================
