----------------------------- MODULE WeeklySummary -----------------------------
(***************************************************************************)
(* send_weekly_summary (email_tasks.py): the task Celery Beat starts every *)
(* Monday.  It loads all groups with their members at once, then takes the *)
(* groups one by one: two SELECTs, the debts (the loop of                  *)
(* DebtSimplification), a mail for every member who is not settled.        *)
(* Meanwhile the books and rosters change as Books promises, which Ledger  *)
(* implements.  Money is in tenths of a cent.                              *)
(***************************************************************************)
EXTENDS Books, Sequences

CONSTANTS MaxBalance   \* bound: the largest balance on either side of the books

VARIABLES pc,            \* what the task does next
          loaded,        \* the members of every group, read when it started
          todo,          \* groups still to visit
          group,         \* the group in hand
          expenses,      \* what its live expenses come to
          net_balances,  \* its balances
          balances,      \* the working copy of _simplify_debts
          results,       \* its simplified debts
          unmailed,      \* members the task has not come to
          outbox,        \* mails handed to the mail server in this run
          killed         \* whether the worker died in this run

work == <<expenses, net_balances, balances, results, unmailed>>
task == <<pc, loaded, todo, group, work, outbox, killed>>
vars == <<rosterVars, books, task>>

\* _simplify_debts.
Simplify == INSTANCE DebtSimplification WITH Nets <- {}
Cent   == Simplify!Cent
Abs(x) == Simplify!Abs(x)

ASSUME UsersFinite == IsFiniteSet(Users)
ASSUME MaxBalanceAssumption == MaxBalance \in Nat

\* Columns hold whole cents, and what one user has paid for an expense others owe
\* (MovesBalance of LedgerProofs).
ASSUME MovesAssumption == \A move \in Moves :
                            /\ move \in [Users -> Int] /\ SumFunction(move) = 0
                            /\ \A u \in Users : move[u] % Cent = 0
ASSUME AmountsAssumption == \A a \in Amounts : a \in Nat /\ a % Cent = 0

Asleep == pc = "asleep"

PutAway == /\ expenses' = Square(Users) /\ net_balances' = Square(Users) /\ balances' = <<>>
           /\ results' = <<>> /\ unmailed' = {}

\* for member in group.members
Unsettled(g) == {u \in Users : expenses[u] + paid[g][u] # 0}        \* mutant
Members(g)   == loaded[g]

DebtorsDebts(u) == {d \in Range(results) : u = d.from}             \* mutant
DebtsOf(u)      == {d \in Range(results) : u \in {d.from, d.to}}

\* Skip fully-settled members - no noise
SkipsCents(u) == Abs(net_balances[u]) <= Cent \/ DebtsOf(u) = {}   \* mutant
Skipped(u)    == Abs(net_balances[u]) < Cent /\ DebtsOf(u) = {}

\* _build_weekly_summary_html looks both ends of every debt up in user_map.
AnyName(u) == TRUE                                              \* mutant
NameOfNow(u) == \A d \in DebtsOf(u) : {d.from, d.to} \subseteq roster[group]  \* mutant
Named(u)   == \A d \in DebtsOf(u) : {d.from, d.to} \subseteq loaded[group]

\* The balance a mail states: an amount with two decimals, which whole cents fit,
\* or that the member is fully settled, and then no amount.
BalanceLine(x) == IF x > Cent THEN [says |-> "owed", amount |-> x]
                  ELSE IF x < -Cent THEN [says |-> "owe", amount |-> -x]
                  ELSE [says |-> "settled"]

Mail(u) == [group |-> group, to |-> u, line |-> BalanceLine(net_balances[u]), debts |-> DebtsOf(u)]

-------------------------------------------------------------------------------
(* Steps of the task *)

Start == /\ Asleep
         /\ pc' = "groups"
         /\ loaded' = roster
         /\ todo' = {g \in Groups : roster[g] # {}}
         /\ outbox' = {} /\ killed' = FALSE
         /\ UNCHANGED <<rosterVars, books, group, work>>

ReadExpenses(g) == /\ pc = "groups" /\ g \in todo
                   /\ pc' = "settlements"
                   /\ group' = g
                   /\ todo' = todo \ {g}
                   /\ expenses' = spent[g]
                   /\ UNCHANGED <<rosterVars, books, loaded, net_balances, balances,
                                  results, unmailed, outbox, killed>>

ReadSettlements == /\ pc = "settlements"
                   /\ pc' = "loop"
                   /\ net_balances' = [u \in Users |-> expenses[u] + paid[group][u]]
                   /\ balances' = Simplify!Significant(net_balances')
                   /\ unmailed' = Members(group)
                   /\ UNCHANGED <<rosterVars, books, loaded, todo, group, expenses,
                                  results, outbox, killed>>

SimplifyStep == /\ \/ Simplify!Iterate
                   \/ /\ pc = "loop" /\ Simplify!Finished
                      /\ pc' = "mail"
                      /\ UNCHANGED <<net_balances, balances, results>>
                /\ UNCHANGED <<rosterVars, books, loaded, todo, group, expenses,
                               unmailed, outbox, killed>>

\* A mail server that refuses the mail is logged and otherwise no different.
MailMember(u) == /\ pc = "mail" /\ u \in unmailed
                 /\ \/ Skipped(u) /\ UNCHANGED outbox
                    \/ ~Skipped(u) /\ Named(u) /\ outbox' = outbox \cup {Mail(u)}
                 /\ unmailed' = unmailed \ {u}
                 /\ UNCHANGED <<rosterVars, books, pc, loaded, todo, group, expenses,
                                net_balances, balances, results, killed>>

\* KeyError, outside the try block: the task is over, and is not retried.
FailMember(u) == /\ pc = "mail" /\ u \in unmailed
                 /\ ~Skipped(u) /\ ~Named(u)
                 /\ pc' = "asleep"
                 /\ PutAway
                 /\ UNCHANGED <<rosterVars, books, loaded, todo, group, outbox, killed>>

GroupDone == /\ pc = "mail" /\ unmailed = {}
             /\ pc' = "groups"
             /\ PutAway
             /\ UNCHANGED <<rosterVars, books, loaded, todo, group, outbox, killed>>

Finish == /\ pc = "groups" /\ todo = {}
          /\ pc' = "asleep"
          /\ UNCHANGED <<rosterVars, books, loaded, todo, group, work, outbox, killed>>

\* The worker process dies, a SELECT fails for want of a connection, or the session
\* cannot be closed.  Celery has acknowledged the message and the task asks for no
\* retry: it is not run again before next Monday.
Kill == /\ ~Asleep
        /\ pc' = "asleep" /\ killed' = TRUE
        /\ PutAway
        /\ UNCHANGED <<rosterVars, books, loaded, todo, group, outbox>>

Work == \/ \E g \in Groups : ReadExpenses(g)
        \/ ReadSettlements \/ SimplifyStep \/ GroupDone \/ Finish
        \/ \E u \in Users : MailMember(u) \/ FailMember(u)

\* Meanwhile, requests change the books and the rosters.
WithinBounds == \A g \in Groups, u \in Users :
                  Abs(spent[g][u]) <= MaxBalance /\ Abs(paid[g][u]) <= MaxBalance
BooksChange == BooksNext /\ WithinBounds' /\ UNCHANGED task

Next == Start \/ Work \/ Kill \/ BooksChange

Init == /\ BooksInit
        /\ pc = "asleep" /\ expenses = Square(Users) /\ net_balances = Square(Users)
        /\ balances = <<>> /\ results = <<>> /\ unmailed = {}
        /\ loaded = [g \in Groups |-> {}] /\ todo = {} /\ group \in Groups
        /\ outbox = {} /\ killed = FALSE

\* A task the worker has begun is sequential code: it goes on until it ends.
Spec == Init /\ [][Next]_vars /\ WF_vars(Work)

-------------------------------------------------------------------------------
(* Properties *)

\* Every variable holds a value of its type, and no debt is of less than a cent.
WeeklyTypeOK ==
  /\ RosterTypeOK
  /\ \A b \in {spent, paid} : b \in [Groups -> [Users -> -MaxBalance..MaxBalance]]
  /\ pc \in {"asleep", "groups", "settlements", "loop", "mail"}
  /\ loaded \in [Groups -> SUBSET Users] /\ todo \subseteq Groups /\ group \in Groups
  /\ \A m \in outbox : \A d \in m.debts : d.amount >= Cent
  /\ unmailed \subseteq loaded[group] /\ killed \in BOOLEAN

\* When the task is through with a group, what its members owe is what its
\* members are owed, whatever former members still have open and although
\* members, expenses and settlements were read at three moments.
SummariesBalance ==
  pc = "mail" /\ unmailed = {} => SumFunctionOnSet(net_balances, loaded[group]) = 0

\* What the debts listed in a mail come to for its reader.
Total(D)  == Simplify!Total(D)
Listed(m) == Total({d \in m.debts : d.to = m.to}) - Total({d \in m.debts : d.from = m.to})

\* A mail that states an amount lists debts that come to it, to the cent.  A mail
\* that calls its reader fully settled contradicts its list, by one cent and never
\* by more: whoever is settled indeed gets none.
MailAddsUp == \A m \in outbox :
                /\ m.line.says = "owed"    => Listed(m) = m.line.amount
                /\ m.line.says = "owe"     => Listed(m) = -m.line.amount
                /\ m.line.says = "settled" => Listed(m) \in {Cent, -Cent}

\* Send personalized summary to each member: nobody with an open balance is
\* left out of a group the task is through with.
NobodyForgotten ==
  pc = "mail" => \A u \in loaded[group] \ unmailed :
                   net_balances[u] # 0 => Mail(u) \in outbox

\* Whatever the books hold, a run the beat has started comes to an end.
RunEnds == ~Asleep ~> Asleep

\* Nothing but a stranger stops the task: while everyone outside the members it
\* read is square, each of them is mailed, however the roster changes meanwhile.
StoppedByStrangers ==
  [][pc = "mail" /\ Work /\ Asleep'
       => \E u \in Users \ loaded[group] : net_balances[u] # 0]_vars
===============================================================================
