-------------------------------- MODULE Ledger --------------------------------
(***************************************************************************)
(* The money endpoints of a group as concurrent requests: create_expense   *)
(* and delete_expense (expense_service.py), create_settlement              *)
(* (settlement_service.py) and get_group_balances (balance_service.py).    *)
(* Each SELECT is a step, each write takes effect at its commit, and a     *)
(* request at READ COMMITTED sees what others committed in between.  The   *)
(* roster changes under their feet as GroupRoster promises, which          *)
(* Membership implements; the founder of a group is its one admin          *)
(* (Membership's CreatorIsSoleAdmin).                                      *)
(***************************************************************************)
EXTENDS GroupRoster, Splits

CONSTANTS Requests,    \* slots for requests in flight
          Forms,       \* bodies of create_expense
          Amounts,     \* amounts of create_settlement, in cents
          MaxAmount,   \* largest amount a Numeric(12, 2) column holds, in cents
          MaxRecords   \* bound: expenses and settlements ever recorded

ASSUME UsersFinite == IsFiniteSet(Users)
ASSUME FormsAssumption == \A f \in Forms : ValidForm(f, Users)
ASSUME AmountsAssumption == Amounts \subseteq Nat \ {0}
ASSUME BoundsAssumption == MaxAmount \in Nat /\ MaxRecords \in Nat

VARIABLES expenses,     \* rows of expenses with their payers and splits
          settlements,  \* rows of settlements
          nextId,       \* the next primary key
          pc,           \* per request: the statement it runs next
          call,         \* per request: what was asked and by whom
          seen,         \* per request: what a balance report has read so far
          reply         \* the answer the last step sent, if it sent one

ledger  == <<expenses, settlements, nextId>>
request == <<pc, call, seen>>
vars    == <<rosterVars, ledger, request, reply>>

ExpenseCall    == [op : {"expense"}, group : Groups, user : Users, form : Forms]
SettlementCall == [op : {"settlement"}, group : Groups, user : Users,
                   receiver : Users, amount : Amounts]
DeleteCall     == [op : {"delete"}, group : Groups, user : Users, id : 1..MaxRecords]
ReportCall     == [op : {"report"}, group : Groups, user : Users]
Calls  == ExpenseCall \cup SettlementCall \cup DeleteCall \cup ReportCall
NoCall == [op |-> "none"]

FirstStep == [expense |-> "validate", settlement |-> "validate",
              delete |-> "lookup", report |-> "members"]
Steps == {"idle", "validate", "insert", "lookup", "role", "mark", "members",
          "expenses", "settlements"}

Unread == [members |-> {}, expenses |-> {}]
Status(code) == [code |-> code, net |-> <<>>]
Silence == Status(0)

-------------------------------------------------------------------------------
(* Balances: _calculate_net_balances *)

Held(entries, u) == IF u \in DOMAIN entries THEN entries[u] ELSE 0

\* What an expense or a settlement adds to the balance of a user.
ExpenseEffect(e, u) == Held(e.paid, u) - Held(e.owed, u)
SettlementEffect(s, u) ==
  (IF u = s.payer THEN s.amount ELSE 0) - (IF u = s.receiver THEN s.amount ELSE 0)

Net(E, S) ==
  [u \in Users |-> SumFunction([e \in E |-> ExpenseEffect(e, u)])
                     + SumFunction([s \in S |-> SettlementEffect(s, u)])]

Live(g)    == {e \in expenses : e.group = g /\ ~e.deleted}
Settled(g) == {s \in settlements : s.group = g}

-------------------------------------------------------------------------------
(* Guards *)

Participants(f) == DOMAIN f.paid \cup DOMAIN f.value

\* create_expense: payers and split users are members, the payments and the
\* splits add up.
ExpenseOK(g, f) == /\ Participants(f) \subseteq roster[g]
                   /\ SumFunction(f.paid) = f.total
                   /\ Accepts(f.total, f.kind, f.value)

SettlementOK(g, payer, receiver) == receiver \in roster[g] /\ receiver # payer

\* expense.group_id != group_id or expense.is_deleted
NamedById(g, id)   == {e \in expenses : e.id = id /\ ~e.deleted}   \* mutant
Deletable(g, id)   == {e \in expenses : e.id = id /\ e.group = g /\ ~e.deleted}

\* The response looks every debtor and creditor up among the members it read;
\* everyone with a balance is one or the other (DebtSimplification).
NoStrangers(members, net) == TRUE                                  \* mutant
AllKnown(members, net) == \A u \in Users \ members : net[u] = 0

-------------------------------------------------------------------------------
(* Steps of a request *)

Goto(r, step) == /\ pc' = [pc EXCEPT ![r] = step]
                 /\ reply' = Silence
                 /\ UNCHANGED call

Respond(r, answer) == /\ pc'    = [pc    EXCEPT ![r] = "idle"]
                      /\ call'  = [call  EXCEPT ![r] = NoCall]
                      /\ seen'  = [seen  EXCEPT ![r] = Unread]
                      /\ reply' = answer

Answer(r, code) == Respond(r, Status(code))

Receive(r, c) ==
  /\ pc[r] = "idle"
  /\ pc'    = [pc    EXCEPT ![r] = FirstStep[c.op]]
  /\ call'  = [call  EXCEPT ![r] = c]
  /\ reply' = Silence
  /\ UNCHANGED <<rosterVars, ledger, seen>>

\* create_expense: one SELECT of the member ids, then all the checks.
ValidateExpense(r) ==
  /\ pc[r] = "validate" /\ call[r].op = "expense"
  /\ LET c == call[r] IN
       \/ c.user \notin roster[c.group] /\ Answer(r, 403)
       \/ /\ c.user \in roster[c.group] /\ ~ExpenseOK(c.group, c.form)
          /\ Answer(r, 400)
       \/ /\ c.user \in roster[c.group] /\ ExpenseOK(c.group, c.form)
          /\ Goto(r, "insert") /\ UNCHANGED seen
  /\ UNCHANGED <<rosterVars, ledger>>

NewExpense(c) ==
  LET f == c.form IN
    [id |-> nextId, group |-> c.group, creator |-> c.user, paid |-> f.paid,
     owed |-> Shares(f.total, f.kind, f.value, f.last), deleted |-> FALSE]

\* create_expense: expense, payers and splits in one transaction, which fails as
\* a whole when an amount is too large for its column.
InsertExpense(r) ==
  /\ pc[r] = "insert" /\ call[r].op = "expense"
  /\ \/ /\ call[r].form.total > MaxAmount
        /\ Answer(r, 500)
        /\ UNCHANGED ledger
     \/ /\ call[r].form.total <= MaxAmount
        /\ nextId <= MaxRecords
        /\ expenses' = expenses \cup {NewExpense(call[r])}
        /\ nextId' = nextId + 1
        /\ Answer(r, 201)
        /\ UNCHANGED settlements
  /\ UNCHANGED rosterVars

\* create_settlement: one SELECT of the member ids, then all the checks.
ValidateSettlement(r) ==
  /\ pc[r] = "validate" /\ call[r].op = "settlement"
  /\ LET c == call[r] IN
       \/ c.user \notin roster[c.group] /\ Answer(r, 403)
       \/ /\ c.user \in roster[c.group] /\ ~SettlementOK(c.group, c.user, c.receiver)
          /\ Answer(r, 400)
       \/ /\ c.user \in roster[c.group] /\ SettlementOK(c.group, c.user, c.receiver)
          /\ Goto(r, "insert") /\ UNCHANGED seen
  /\ UNCHANGED <<rosterVars, ledger>>

InsertSettlement(r) ==
  /\ pc[r] = "insert" /\ call[r].op = "settlement"
  /\ LET c == call[r] IN
       \/ c.amount > MaxAmount /\ Answer(r, 500) /\ UNCHANGED ledger
       \/ /\ c.amount <= MaxAmount
          /\ nextId <= MaxRecords
          /\ settlements' = settlements \cup
               {[id |-> nextId, group |-> c.group, payer |-> c.user,
                 receiver |-> c.receiver, amount |-> c.amount]}
          /\ nextId' = nextId + 1
          /\ Answer(r, 201)
          /\ UNCHANGED expenses
  /\ UNCHANGED rosterVars

\* delete_expense: read the expense; its creator needs no membership.
FindExpense(r) ==
  /\ pc[r] = "lookup"
  /\ LET c == call[r]
         rows == Deletable(c.group, c.id) IN
       \/ rows = {} /\ Answer(r, 404)
       \/ \E e \in rows : /\ Goto(r, IF e.creator = c.user THEN "mark" ELSE "role")
                          /\ UNCHANGED seen
  /\ UNCHANGED <<rosterVars, ledger>>

\* delete_expense: anybody else must be the group's admin.
CheckRole(r) ==
  /\ pc[r] = "role"
  /\ LET c == call[r] IN
       IF c.user \in roster[c.group] /\ c.user = founder[c.group]
         THEN Goto(r, "mark") /\ UNCHANGED seen
         ELSE Answer(r, 403)
  /\ UNCHANGED <<rosterVars, ledger>>

\* delete_expense: is_deleted = True and COMMIT; the row stays.
Erased(E, id)      == {e \in E : e.id # id}                        \* mutant
WithDeleted(E, id) == {IF e.id = id THEN [e EXCEPT !.deleted = TRUE] ELSE e : e \in E}

MarkDeleted(r) ==
  /\ pc[r] = "mark"
  /\ expenses' = WithDeleted(expenses, call[r].id)
  /\ Answer(r, 204)
  /\ UNCHANGED <<rosterVars, settlements, nextId>>

\* get_group_balances: three SELECTs, then the report.
ReadMembers(r) ==
  /\ pc[r] = "members"
  /\ LET c == call[r] IN
       IF c.user \in roster[c.group]
         THEN /\ seen' = [seen EXCEPT ![r].members = roster[c.group]]
              /\ Goto(r, "expenses")
         ELSE Answer(r, 403)
  /\ UNCHANGED <<rosterVars, ledger>>

ReadExpenses(r) ==
  /\ pc[r] = "expenses"
  /\ seen' = [seen EXCEPT ![r].expenses = Live(call[r].group)]
  /\ Goto(r, "settlements")
  /\ UNCHANGED <<rosterVars, ledger>>

Report(r) ==
  /\ pc[r] = "settlements"
  /\ LET net == Net(seen[r].expenses, Settled(call[r].group)) IN
       IF AllKnown(seen[r].members, net)
         THEN Respond(r, [code |-> 200, net |-> [u \in seen[r].members |-> net[u]]])
         ELSE Answer(r, 500)
  /\ UNCHANGED <<rosterVars, ledger>>

\* The process or the connection dies before the commit.
Abort(r) ==
  /\ pc[r] # "idle"
  /\ Respond(r, Silence)
  /\ UNCHANGED <<rosterVars, ledger>>

\* Meanwhile, users found groups, join and leave.
RosterChanges == RosterNext /\ reply' = Silence /\ UNCHANGED <<ledger, request>>

Next == \/ RosterChanges
        \/ \E r \in Requests :
             \/ \E c \in Calls : Receive(r, c)
             \/ ValidateExpense(r) \/ InsertExpense(r)
             \/ ValidateSettlement(r) \/ InsertSettlement(r)
             \/ FindExpense(r) \/ CheckRole(r) \/ MarkDeleted(r)
             \/ ReadMembers(r) \/ ReadExpenses(r) \/ Report(r)
             \/ Abort(r)

Init == /\ RosterInit
        /\ expenses = {} /\ settlements = {} /\ nextId = 1
        /\ pc    = [r \in Requests |-> "idle"]
        /\ call  = [r \in Requests |-> NoCall]
        /\ seen  = [r \in Requests |-> Unread]
        /\ reply = Silence

Spec == Init /\ [][Next]_vars

-------------------------------------------------------------------------------
(* Properties *)

IsExpense(e) ==
  /\ e = [id |-> e.id, group |-> e.group, creator |-> e.creator, paid |-> e.paid,
          owed |-> e.owed, deleted |-> e.deleted]
  /\ e.id \in 1..MaxRecords /\ e.group \in Groups /\ e.creator \in Users
  /\ e.deleted \in BOOLEAN
  /\ \A h \in {e.paid, e.owed} : /\ DOMAIN h \subseteq Users
                                 /\ \A u \in DOMAIN h : h[u] \in Nat

Settlement == [id : 1..MaxRecords, group : Groups, payer : Users, receiver : Users,
               amount : Amounts]

\* Every variable holds a value of its type.
TypeOK == /\ RosterTypeOK
          /\ \A e \in expenses : IsExpense(e)
          /\ settlements \in SUBSET Settlement
          /\ nextId \in 1..(MaxRecords + 1)
          /\ pc   \in [Requests -> Steps]
          /\ call \in [Requests -> Calls \cup {NoCall}]
          /\ \A r \in Requests : /\ seen[r].members \in SUBSET Users
                                 /\ \A e \in seen[r].expenses : IsExpense(e)

\* The conservation law the tests check on examples: in every group, whoever
\* came, left, paid, was refunded or deleted an expense, the balances of all
\* users add up to zero.
Conservation == \A g \in Groups : SumFunction(Net(Live(g), Settled(g))) = 0

\* A report that is answered with 200 is balanced as well, although its members,
\* its expenses and its settlements come from three different moments: the
\* members it lists owe exactly what the members it lists are owed.
ReportsBalance == reply.code = 200 => SumFunction(reply.net) = 0

\* Nothing recorded is ever lost or rewritten, except that an expense can be
\* marked as deleted, and then for good.
Outlives(e) == \E f \in expenses' : f = [e EXCEPT !.deleted = f.deleted]
                                    /\ (e.deleted => f.deleted)
HistoryKept == [][/\ \A e \in expenses : Outlives(e)
                  /\ settlements \subseteq settlements']_vars

\* What the tables hold for a group changes by one expense or payment at a time,
\* each of which only moves money between users: this is what the weekly summary
\* builds on.
Move(f) == LET e == [paid |-> f.paid, owed |-> Shares(f.total, f.kind, f.value, f.last)]
           IN  [u \in Users |-> ExpenseEffect(e, u)]
Moves == {Move(f) : f \in {f \in Forms : /\ SumFunction(f.paid) = f.total
                                        /\ Accepts(f.total, f.kind, f.value)}}
Spent(g) == [u \in Users |-> SumFunction([e \in Live(g) |-> ExpenseEffect(e, u)])]
Paid(g)  == [u \in Users |-> SumFunction([s \in Settled(g) |-> SettlementEffect(s, u)])]
Kept == INSTANCE Books WITH spent <- [g \in Groups |-> Spent(g)],
                            paid  <- [g \in Groups |-> Paid(g)]
ImplementsBooks == Kept!BooksSpec

\* An expense is deleted only at the request of its creator, or of the admin of
\* the group it belongs to: being the admin of another group is of no use.
Deletes(r, e) == /\ pc[r] = "mark" /\ pc'[r] = "idle" /\ call[r].id = e.id
                 /\ call[r].user \in {e.creator, founder[e.group]}
DeletionsAuthorised ==
  [][\A e \in expenses : ~e.deleted /\ e \notin expenses'
        => \E r \in Requests : Deletes(r, e)]_vars

\* The comment in create_expense: all payers and split users are members of the
\* group the expense is recorded in.
OnlyMembersInvolved ==
  [][\A e \in expenses' : e.id = nextId
        => DOMAIN e.paid \cup DOMAIN e.owed \subseteq roster[e.group]]_vars

\* The docstring of get_group_balances: a verified member gets the report.
ReportsAnswered ==
  [][\A r \in Requests :
       pc[r] = "settlements" /\ pc'[r] = "idle" => reply'.code # 500]_vars
===============================================================================
