# Expense Sharing API: a verification project

TLA+ models of the services of the Expense Sharing API (groups, expenses,
settlements, balances, accounts) and of its mail tasks, the TLC runs that check them on small instances, and
proofs, checked by TLAPS, that their main properties hold for every instance.
Line numbers below refer to the files under `src/` that `PROJECT.json` maps.

## The system

A FastAPI process serves requests with one database session each. PostgreSQL
keeps all the state of the domain; the process keeps none. Celery workers send
mail. The parts, their state and their operations:

| Part | State | Operations | Here |
|---|---|---|---|
| Group membership (`group_service.py`) | `groups.created_by`, rows of `group_members` | create group, invite, remove, leave | `Membership`, `GroupRoster` |
| Split calculation (`_calculate_splits`) | none | equal, exact, percentage, shares | `Splits`, `SplitCalculation` |
| Expenses (`expense_service.py`) | expenses with payers and splits, soft deletion | create, delete | `Ledger` |
| Settlements (`settlement_service.py`) | settlements | create | `Ledger` |
| Balance report (`balance_service.py`) | none: three reads and a calculation | report | `Ledger`, `LedgerHistory` |
| Debt simplification (`_simplify_debts`) | the loop's working copy | match, return | `DebtSimplification`, `SettlingPlan` |
| Listings (`get_group_expenses`) | none | count, page | `Listings` |
| Notifications (`email_tasks.py`, the end of the two create functions) | messages at the broker, tasks of the workers | queue, run, retry, mail | `Notifications` |
| Weekly summary (`email_tasks.py`) | none: reads and a calculation per group | run, mail | `WeeklySummary`, `Books` |
| Accounts (`auth_service.py`) | users | register, authenticate | `Accounts` |
| Tokens (`security.py`, `deps.py`, `api/v1/auth.py`) | tokens held by clients; `users.is_active` | login, refresh, authorise | `Sessions` |
| Wiring, configuration, migrations, deployment | none of the domain | | not modelled |

How they interact: expense, settlement and balance endpoints read
`group_members` to decide who may act and who may take part; the balance report
reads expenses and settlements; its result feeds debt simplification, and the
names in its answer come from the members it read first. Creating an expense or
a settlement queues a message after the commit; a Celery worker takes it, reads
the record and the group, and mails. Once a week a worker reads all groups, their
expenses and settlements, and runs the same debt simplification. Requests share
the database; requests and workers share the database and the broker.

What makes it hard:

* A request is a sequence of statements at READ COMMITTED (no isolation level is
  set in `db/session.py`), with an `await` at each. What one statement read
  (members, a role, the number of admins, the row to delete, the expenses of a
  report) may be out of date when a later one uses it.
* There is no row lock anywhere; the only guards in the database are
  `uq_group_member`, the CHECKs on settlements and the width of `Numeric(12, 2)`.
* Members leave while their balance is open, and come back.
* Cents do not divide evenly, and debts are matched by a greedy loop over
  balances that is trusted to end.
* A process may die between any two statements; an open transaction then has no
  effect (`get_db` rolls back, PostgreSQL does for a lost connection).
* Broker, database and mail server may each fail while the others work. A task is
  retried up to three times, a minute apart, while other tasks run and members come
  and go; a worker that dies takes its message with it.
* The weekly task reads the members of all groups first and comes to the books of
  the last group perhaps minutes later.
* Registrations race for an address or a username; accounts are deactivated while
  requests that have already passed the check are under way; a reader takes one
  request per page while the list changes.

The hazards are listed one by one, with their lines and the properties that
would catch them, in `PROJECT.json`.

## Modules

### Membership and GroupRoster

`Membership` runs the endpoints of `group_service.py` as concurrent requests.
`Requests` is a set of slots; `pc[r]` is the statement request `r` runs next,
`call[r]` what was asked and by whom, `found[r]` the row it read and will delete.
One action per statement:

| Action | Code |
|---|---|
| `CreateGroup` | `create_group`, one transaction (13-42) |
| `Receive` | the routes of `api/v1/groups.py` |
| `Authorise` | `_require_role(..., admin)` (240-253) |
| `InviteLookup`, `InviteInsert`, `InviteRefetch` | `invite_member` (106-141) |
| `TargetLookup`, `CountAdmins`, `Delete` | `remove_member` (156-173), `leave_group` (185-201) |
| `Abort` | the request dies before its commit |

An INSERT or DELETE is one step with the commit behind it: SQLAlchemy sends it at
the flush the commit triggers, and no statement lies between. The lookup of the
invited user by e-mail and of their membership are one step, because accounts are
never removed or renamed, so only the second of the two reads can change. Rows
carry a key that is never used again (`base.py`, a UUID), which is what makes a
slow DELETE of an old membership miss a new one. A DELETE that finds no row is
only a warning in SQLAlchemy.

`GroupRoster` is the abstract specification: a group is founded with its creator,
admits and drops one user at a time, and never drops its founder. `Membership`
implements it under the mapping that takes the set of users of the rows
(`ImplementsRoster`, checked and proved). `Ledger` extends `GroupRoster` and runs
its actions between the steps of its own requests, so it need not carry the rows.

Two facts the model makes plain: as no endpoint promotes anybody, the creator is
always the one admin, so the branch "Promote another member first" of
`remove_member` and `leave_group` asks for something the API does not offer, and
the counts they read never exceed one.

### Splits and SplitCalculation

`Splits` has the operators of `_calculate_splits`: cutting to cents (`Cut`), equal
shares, shares in proportion (`ProRata`, for percentages and shares), exact
amounts, and the conditions under which the code raises `ValueError`
(`Accepts`). `ValidForm` is what the schema lets through. Money is in cents and
entered values are in thousandths, so that a value with too many decimals exists
and is refused. The order of a request's splits matters only through its last
entry. Decimal arithmetic is exact in the model; with Python's 28 digits a
quotient would have to agree with a whole number of cents to 28 places without
being one to be cut differently, which amounts of 12 digits cannot do for values
of the length the schema's users enter. `SplitCalculation` is one call of the
function with an arbitrary form, to state what it returns.

### Ledger and LedgerHistory

`Ledger` runs the money endpoints in the same way: one action per SELECT and one
per transaction.

| Action | Code |
|---|---|
| `ValidateExpense`, `InsertExpense` | `create_expense` (20-55, 57-105) |
| `ValidateSettlement`, `InsertSettlement` | `create_settlement` (23-42, 44-64) |
| `FindExpense`, `CheckRole`, `MarkDeleted` | `delete_expense` (171-197) |
| `ReadMembers`, `ReadExpenses`, `Report` | `get_group_balances` (33-49, 51-63, 65-107) |
| `RosterChanges` | the membership endpoints, by their promise |
| `Abort` | the request dies before its commit |

An expense and its payers and splits are one record, since they are inserted in
one transaction and never changed apart from `is_deleted`; the additional SELECTs
that load payers and splits of a report can therefore not disagree with the one
that found the expense. `Net` is `_calculate_net_balances`, over all users: a
user without an entry has balance zero. `Report` answers 500 when somebody with
a balance is not among the members read (`AllKnown`): `_simplify_debts` names
exactly those with a balance (`NamesTheUnsettled` of `DebtSimplification`), and
`user_map[...]` raises `KeyError` for anyone else. The names the answer carries
are looked up after the last read and touch no state. `reply` is the answer the
last step sent, so that an answer can be judged in the state it was made in.
`InsertExpense` and `InsertSettlement` fail as a whole when an amount does not
fit its column; the same failure for an oversized `split_value` is left out. The
refetch after a commit cannot fail, as expenses and settlements are never removed.

`LedgerHistory` adds a history variable: whether the group was square at some
moment since the request arrived.

### DebtSimplification and SettlingPlan

`DebtSimplification` is the loop of `_simplify_debts`, one iteration per step, on
tenths of a cent so that the threshold of half a cent and the rounding have
something to act on. `max` and `min` take any of several equal balances: their
choice follows the order of a dict built from a set. `SettlingPlan` says what a
list of debts has to do, whoever computes it.

### Books and WeeklySummary

`Books` is what the money endpoints promise whoever reads the tables: the books of
a group move by one record at a time. `spent` is, per group and user, what the live
expenses come to, `paid` what the settlements come to; they are kept apart because
every reader fetches them in two SELECTs. `Ledger` implements it (`ImplementsBooks`,
with `Spent(g)` and `Paid(g)` as the mapping; the theorem is
`LedgerImplementsBooks`). `Books` allows more than `Ledger` does: it refunds an
expense that was never entered, and lets anyone pay. That is sound for what
`WeeklySummary` checks, which extends it and takes its steps as the environment.

`WeeklySummary` is `send_weekly_summary`, with the loop of `DebtSimplification`
instantiated inside.

| Action | Code |
|---|---|
| `Start` | the SELECT of all groups with their members (`loaded`) |
| `ReadExpenses`, `ReadSettlements` | the two SELECTs of a group, the balances |
| `SimplifyStep` | an iteration of `_simplify_debts`, or its return |
| `MailMember` | skip a settled member, or build the mail and send it |
| `FailMember` | `KeyError` from `user_map`, which ends the task |
| `GroupDone`, `Finish` | the next group; the return |
| `Kill` | the worker dies, or its database fails: there is no retry |
| `BooksChange` | requests, by what `Books` promises |

`outbox` has the mails of a run, each with what it says: the line about the balance (an
amount, or "fully settled" and no amount) and the debts. Whether the mail server takes a mail is of no consequence to the task, so
`MailMember` does not tell. `Books` and rosters may change before every step.

### Notifications

One record (an expense or a settlement) at a time goes from its commit to its
mails. `request[r]` is the request that records `r`, `queue` the messages at the
broker with the number of retries, `worker[w]` the task a worker process runs and
whom it has still to mail.

| Action | Code |
|---|---|
| `Commit` | the commit of `create_expense`, `create_settlement` |
| `Delay` | `.delay()` behind it: queued, or an error that is logged |
| `Take` | a worker receives the message and acknowledges it |
| `ReadRecord`, `ReadGroup` | the SELECTs of the task, the list of recipients |
| `Send`, `Bounce` | a mail of the loop, delivered or refused |
| `Fail` | an exception from a SELECT, or from closing the session behind the last mail: `self.retry`, or the end of it |
| `Return` | the session is closed without an error, the task returns |
| `Die`, `Kill` | the request dies after its commit; the worker dies |
| `RosterChanges` | the membership endpoints, by their promise |

`stayed` is a history variable: who has been a member of the group ever since the
record was committed. `dropped` has the records whose message was lost, by
whichever of the failures; `mails` and `bounced` count what happened to whom. `Due(r)` are
those who have to hear of a record whatever happens (who stayed, or the receiver of the
settlement), and a record is `Tried` once each of them was mailed, or would have been had
the mail server taken it.

The whole mail loop is inside `async with _task_db()`. A connection that is lost during
the mails goes unnoticed until the block is left: a mail that fails is caught one by
one (180, 247), but the close of the session (67) and `engine.dispose()` (71) are not.
Their exception comes when everybody has been mailed, and is retried. `Closing` is that
point. `AtMostOneMail`, one mail to each member, is therefore refuted by a run;
`AgainAfterEveryone` is what remains of it: nobody gets a second mail before everyone due
was tried. How often somebody can be mailed is bounded by the tries of a task, as
part of `NotificationsTypeOK`.

### Accounts and Sessions

`Accounts` runs `register_user` and `authenticate_user` as concurrent requests: the
SELECT by e-mail (`CheckEmail`), the SELECT by username (`CheckUsername`), the INSERT
with the unique constraints behind it (`Insert`), and the check of a login
(`Authenticate`). A name reaches the services as the validator of
`RegisterRequest` leaves it: `Lower` stands for it. `acked` is a history variable
with the credentials of every registration that was answered 201.

`Sessions` is what happens with tokens: `Receive`, `Decode` (lifetime and type),
`FindUser` (the SELECT of the account and its `is_active`), `Issue`; `Deactivate` is
an administrator with a database client, and `Tick` lets time pass, in minutes. The
login enters it where the password has matched.

### Listings

`get_group_expenses`, and a reader who asks for page after page until one is not
full: `CheckMember`, `Count`, `ReadPage` are its statements. `Record`, `Delete` and
`ComeOrGo` happen in between. An expense may be recorded with any date, and two
requests may commit in the other order than their `created_at`, so new rows come
in anywhere on the list. `before` and `deleted` are history variables.

### MC modules

`MCMembership`, `MCLedger`, `MCDebts` and `MCSplits` supply the small inputs and
the symmetry sets. Symmetry is used in runs of safety properties only.
`MCLedgerGroups` has two instances of `Ledger` in one run: `used`, picked in the
initial state, are the groups a behaviour may use, and with more than one of them it
may record less.

`Services` puts `Accounts`, `Sessions`, `Listings` and `WeeklySummary` side by side;
`MCServices` gives it small sets. `MCTasks` does the same for the two tasks of the
worker, `Notifications` and `WeeklySummary`, under fairness. The components of a run share no
variable and none reads what another writes, so their
interleavings would add states and no behaviours: `part` picks one of them in the
initial state, and only its steps are taken. Every component is thus checked as if
alone, with the state space of the run the sum, not the product, of theirs.
`Notifications` are two such parts of `MCTasks`: `"alone"`, one record with every user and
every retry, and `"together"`, two records with fewer of both.

## Runs

`tlc -config X.cfg M`, with X and M as below; `PROJECT.json` lists the properties.

Runs that pass:

| Run | M, X | Instance | States | What it shows |
|---|---|---|---|---|
| `membership` | `MCMembership` | 2 groups, 3 users, 2 overlapping requests, 3 rows | 60 000 | the creator of a group stays in it and its only admin; nobody is in a group twice; a row is removed only by a request that read this row and was entitled to; the rows implement `GroupRoster` |
| `splits` | `MCSplits` | every expense of 1 to 12 cents over every set of at most 3 users, 4 split types | 16 500 | shares add up; everybody's share is the exact one cut to the cent, and the last in the list bears what was cut |
| `ledger` | `MCLedgerGroups` | 2 users, 2 overlapping requests; 1 group and 2 records, or 2 groups and 1 record | 658 000 | balances add up to zero; so do those of every report that is answered, though its reads see different moments; no record is lost or rewritten; an expense is deleted only for its creator or the admin of its own group, and not through another group's path |
| `services` | `MCServices` | 2 registrations or logins at once, 3 accounts; 2 account holders, 2 requests; 3 expenses in pages of 1; 1 group of 3 users, expenses and payments of a cent | 294 000 | accounts are unique up to case, and whoever was told 201 can log in; no request that comes after a deactivation is let through; a page-by-page reader misses no more expenses than were deleted; weekly balances of members add up, the debts of a mail come to the amount it states, and are one cent where it says settled, nobody with a balance is left out, and only the balance of somebody who was not read as a member stops the task |
| `tasks` | `MCTasks` | 2 workers; 1 record, 3 users and 3 retries, or 2 records, 2 users and 1 retry; weekly task over 1 group of 2 | 375 000 | nobody is mailed again about a record before everybody due was tried; a task that returns has tried them; every message ends, and so does every weekly run |
| `debts` | `MCDebts` | 5 users, every balanced vector of up to 3 cents each, every choice among equals | 15 500 | the loop ends; everybody is settled by fewer than n positive whole-cent debts; it names exactly those with a balance; what any of the users are owed together is what the debts bring them; it implements `SettlingPlan` |

Runs that end in a counterexample, each a finding in `PROJECT.json`:

| Run | Property | What the counterexample shows |
|---|---|---|
| `membership_errors` | `NoServerError` | two invitations of one user pass the duplicate check; one gets a 500 in place of the 409 |
| `ledger_stale_members` | `OnlyMembersInvolved` | a member leaves between the validation and the INSERT; the expense names a user outside the group |
| `ledger_report_fails` | `ReportsAnswered` | a member with a balance leaves; from then on every report of the group is a 500 |
| `ledger_torn_report` | `SettledReportWasTrue` | `is_settled` is true in a report that mixes two moments, at neither of which the group was square |
| `tasks_mailed_twice` | `AtMostOneMail` | the session cannot be closed behind the mails; the task is retried and everybody is mailed again |
| `debts_not_minimal` | `MinimumSet` | -4, -3, 2, 2, 3 are settled by four debts where three suffice |

### Bounds

Every bound is a constant: `MaxRows` (memberships ever inserted), `MaxRecords`
(expenses and settlements ever inserted), `MaxAmount` (the width of
`Numeric(12, 2)`, tiny), `MaxTotal`, `MaxCents`, and the sets of users, groups,
slots, forms and amounts.

* Two slots are enough for every pair of statements to interleave, and a slot is
  used again after its answer. The sets that matter to a request are one group,
  a requester and a target; the third user of `membership` is a member who is
  neither, and the second group is one an admin has no rights in.
* Three rows let a user leave and come back while an old DELETE is pending.
* Two records are an expense and a settlement that square a group, or two
  expenses; in two groups one is enough (`FewRecords`, `FewAmounts`), since a deletion
  through the path of another group needs one expense; the torn report needs three. `Amounts = {2, 9}` with `MaxAmount = 3`
  has one amount that fits and one that overflows; the forms have an odd cent, a
  payment that falls short, percentages that add up to 200 and a total that
  overflows, so every way to fail is taken.
* Twelve cents with three users have every remainder of a division by three and
  by the shares used. Five users are the fewest with two independent
  sub-settlements in which greedy matching misses both.

* `MaxUsers = 3` accounts are enough for a race over an address, one over a username,
  and a bystander; "ann" and "Ann" are the names that differ in nothing but case.
  `Times = {0, 30}` has the moment a refresh token has expired and an access token
  is just expiring (`exp <= now`). Three stamps and a limit of one make a
  reader take up to four requests, with a row moving in before or out from under
  it at each.
* Two records let a retry of one overlap the task of the other, on two workers; for that,
  two users (`Couple`) and one retry (`FewRetries`) do. One record (`Sole`) has all
  three users, so that one can leave and another be refused before a third is
  mailed, and the code's own three retries (`MaxRetries`), so that somebody can be mailed
  four times. In `MCTasks` users are interchangeable, so a
  fixed `Founder` and `Owner` found the groups; symmetry is no choice there, since
  the run checks liveness.
* `Prices`, `Amounts` and `MaxBalance` are one cent, in tenths. The bound holds for
  expenses and payments apart, so a balance is none, one or two cents: below, at and
  above the threshold. Three users have a debtor, a creditor and a
  former member; with two, every run of the weekly task is short enough to check that it
  ends.

For most of the passing runs the bounds matter little: what they check is proved
without them, except where the section on proofs says so.

Deadlock is checked for `Membership` and `Ledger`, where a request can always
arrive or die. The configurations of `SplitCalculation` and `DebtSimplification`
switch it off: a call of a function returns and nothing follows.

### Fairness

`DebtSimplification` assumes weak fairness of its one process: the loop is
sequential code without a lock, an `await` or I/O, and runs on until it returns.
`Terminates` and the liveness of `ImplementsPlan` rest on this alone. 
`Notifications` assumes weak fairness of `Delay` per record (a request that has
committed goes on: it queues the message or, if it cannot, logs it; it may also
die, which is not forced) and of `Work` per worker: Celery's workers take messages
while there are any, and go on with the task they have begun. Nothing forces a mail
to be refused, a database to fail or a process to die. `EveryMessageEnds` rests on
this and on the limit on retries. `WeeklySummary` assumes weak fairness of `Work`:
sequential code in one worker. It is not assumed that the beat starts a run, that
books ever stop changing, or that a worker lives.

The other modules state safety only. The code promises no client that a request
completes, a process may die at any statement, and nothing retries.

## Proofs

`tlapm M.tla`; all theorems are for any sets of users, groups, requests, forms,
amounts and for any bounds. They rest on the named assumptions of the modules and
nothing else:

| Assumption | Module | Why the code justifies it |
|---|---|---|
| `UsersFinite` | several | a table has finitely many rows |
| `AccountsAssumption` | `Services` | lower case of lower case is lower case |
| `NoUser`, `Unregistered` are not users | `GroupRoster`, `Membership` | they stand for the absence of one |
| `FormsAssumption`, `AmountsAssumption` | `Ledger`, `WeeklySummary` | the schema: positive amounts, at most two decimals, every split with a value its type needs |
| `NetsAssumption`, `WholeCents`, `NetsBalance` | `DebtSimplification` | `Numeric(12, 2)` holds whole cents; the sum is zero by `ReportsAreBalanced` of `LedgerProofs` |
| `MovesAssumption` | `WeeklySummary` | the same for what one expense moves: `MovesBalance` of `LedgerProofs` |
| `TimesAssumption`, `ListingAssumption` | `Services` | times and stamps are numbers; `ge=1` for `limit` |
| bounds are naturals | where declared | |

`Ledger` counts in cents, `DebtSimplification` and `WeeklySummary` in tenths of a cent;
the two theorems that discharge the assumptions about sums are about the same vectors
before they are multiplied by ten.

**`MembershipProofs`.** `IInv` adds to `TypeOK` and `OneRowPerUser` that keys are
never reused (`KeysOK`), that the admins are exactly the founders and every
founder has a row (`AdminsOK`), and what each request has established by the step
it is at (`RequestOK`). `CreatorIsSoleAdmin` is not inductive without the last:
a pending DELETE is harmless only because the row it will delete was not the
founder's when it was read, and a key still means the same row. The theorems are
`TypeCorrect`, `SoleAdmin`, `NoDuplicates`, `RemovalsAreAuthorised` and
`MembershipImplementsRoster`.

**`MoneyLemmas`.** `SumFunctionOnSet` of the community modules is a recursive
function over the subsets of a set. The module proves that it exists, that any
element may be taken out first, and how it behaves under adding, scaling,
comparing and exchanging; induction goes through a well-founded order with the
property given as a set. Everything about money uses these facts. The rest of the module is
about rounding to cents.

**`SplitProofs`.** For each split type, whatever was cut from the
others is what the last entry gets: `SharesAlwaysAddUp` and, against the exact
share as a reference, `AlwaysFairToTheCent`.

**`LedgerProofs`.** `IInv` says that records have unique keys and every expense
is well formed with payments and shares that have the same sum (`RecordsOK`), and
what a request has read: its expenses and its settlements are each some set of
well-formed records of its group, not necessarily of one moment (`RequestOK`). A
balance vector adds up to zero for every such set, by exchanging the sums over
users and over records; that is why a torn report still balances
(`BalancesConserved`, `AnsweredReportsBalance`). `HistoryIsKept` and
`DeletionsAreAuthorised` are action properties from the same invariant.
`ReportsAreBalanced` is one more: every vector of balances that a report hands on
adds up to zero, whether or not the report is answered. `MovesBalance` says the same of what
one expense moves.

**`DebtProofs`.** Whole cents make the threshold and the rounding exact
(`CentFacts`). While anybody has a balance the sum of zero puts somebody on each
side (`BothSides`), so an iteration pays a positive amount and settles the
smaller side. `IInv` counts: debts so far plus people left are at most n, and
strictly fewer debts than n, since the last iteration settles two. The theorems are
`TypeCorrect`, `FewDebts`, `DebtsNameTheUnsettled`, `DebtsExplain`, `NeverStuck`,
`EveryIterationSettles`, `ReturnsSettled` and `DebtsFollowPlan`, the safety half of the refinement.

`NeverStuck` and `EveryIterationSettles` are the two facts that termination rests on: while
anybody has a balance an iteration can be taken, and it leaves fewer people. That
`Terminates` follows from them and the fairness of the loop is the step the
prover cannot take.

`DebtsExplain` needs an invariant of its own, `FlowInv`: for every set of users, their
balances are what they have left open, plus the debts into the set, less the debts out of it; and
one end of every debt is settled. Without the second part the step is not provable:
`results` is a list, the property adds up a set, and two equal debts would count once.
Since one end of each debt is done with, the next debt is none of those before
it.

**`LedgerImplementsBooks`**, in `LedgerProofs`, is the refinement of `Books`. Its
invariant adds to `IInv` that every record came from one of the forms a request may
carry (`FromForms`), so that what a step moves is one of the `Moves` that `Books`
allows. An INSERT adds one record to a sum over records (`InsertSpends`,
`InsertPays`), a deletion takes one out of it (`DeleteRefunds`), and every other step
leaves both sums alone (`BooksStay`): one record at a time is a consequence of
records having keys that are never reused. TLC agrees on the instance of
`ledger` with two groups, but compares sums over records at every step and takes too
long to keep as a property of a run.

**`NotificationProofs`.** The invariant says where a record can be (`OnePlace`): waiting for
its request, in one message, with one worker, or done. Rounds count the mails (`Rounds`): a
message of retry n finds everybody with n mails at most, and if anybody has one, the
record is `Tried` (`Ready`), since a task that has begun to mail reaches the only exit that is retried
after it has come to the end of its list; while it mails, those still on the list have had n mails at
most, the others n + 1 (`Mailing`). `EveryoneBeforeAgain` and the bound on mails in
`TypeCorrect` follow. `Tried` is kept by every other step, because those who stayed only become
fewer. `NobodyIsSkipped` follows from whom the task has still to mail, since those who
stayed were all members when it read the group.

**`WeeklyProofs`.** The weekly task runs the loop that `DebtProofs` is about, so the
module instantiates `DebtProofs` (`Loop`), with `"return"` for every step but the loop's,
and cites its lemmas; `WeeklyInv` has the invariants of the loop as one conjunct. The
others: the books are balanced and in whole cents, group by group; so is what
the task has read of them, although expenses and settlements are of two moments,
since each of the two sums is zero by itself; a member the task is through with was
named in `user_map` and, unless settled, has been mailed. `MailsAddUp` is `DebtsExplain` for
one user, compared with the line: an amount above a cent is stated, and in whole cents a
reader who is mailed without one has a balance of a cent either way; `NobodyIsForgotten` is `DebtsNameTheUnsettled`. `SummariesAddUp` is
`DebtsExplain` for the members: every debt of a member has been looked up in `user_map`,
so no debt leads in or out. `OnlyStrangersStop` is the converse: who cannot be named is an
end of a debt, has a balance and is no member. TLC agrees that `WeeklyInv` is an
invariant of the instance of `services`.

**`ServiceProofs`.** For `Accounts`, `Sessions` and `Listings`, through `Services`.
`AccountsAreUnique` compares names up to case while the
constraint of the table compares them as they are: every row has a canonical name,
because only canonical names get past the schema. `RegisteredUsersLogIn` needs that
rows are never changed or removed, and that every answer 201 left one.

`TheDeactivatedStayOut` rests on an invariant about requests under way: one that came after the
deactivation never reaches `issue`, because the account is read again between decoding
and issuing, and nothing sets `is_active` back. One that came before may still be
answered, which is why `late` is recorded on arrival.

`MissesAreDeletions` compares two orders: the rows a reader has passed are the
first `skip` of the list at this moment, not of the list when they were
read. `ListingInv` bounds the rows that were there before the reader began, lie among the first
`skip`, and were not listed, by the number of deletions. A new row pushes rows down, so
the first `skip` lose one; a deletion lets one row slip in and counts one; a page
lists what it passes. What remains is a fact about ranks in a
finite ordered set, proved by counting.

`EveryPartIsItself` says that a behaviour of `Services` is, for each part, a behaviour
of that part: composing them in one run adds nothing.
`ServicesKeepTheirPromises` draws the conclusion: every property of the run `services`,
as one theorem of the composition it runs. Here, and in `WeeklyProofs`, a theorem about
the weekly task assumes `Safety`, its specification without the fairness.

Every safety property of a passing run is a theorem. Only model-checked:
`Terminates`, `EveryMessageEnds`, `RunEnds` and the fairness in
`ImplementsPlan`, since liveness is out of the prover's reach; and everything the failing
runs refute. What `SumFunctionOnSet` computes is not taken from the
library: its definition by recursion is proved to exist in `MoneyLemmas`, with induction over
finite sets that gives the property as a set.

## Observations

Where the code differs from what is said of it, apart from the runs that end in a
counterexample:

* A debt between a member and a former member makes `_build_weekly_summary_html`
  raise `KeyError` (called at `email_tasks.py:324`, raised at 362). The `try` begins after it (332), so the
  task ends for the members that follow and for every later group, while
  `src/README.md:11` promises a summary every Monday. `FailMember` is this step;
  `StoppedByStrangers` says nothing else stops the task.
* A member who owes, or is owed, exactly one cent is not skipped (321, `<`) but gets
  a mail that calls them settled (353-358, `>` and `<-`) and lists the cent as a debt.
  `MailAddsUp` has this as its third case, and says that it is the only one: every other
  mail states what its debts come to.
* The comment on retries says exponential backoff (109); the delay is a fixed 60
  seconds (93).
* Two registrations that race for an address or a username end in a 500 for one of
  them, not in the 400 promised at `auth_service.py:17`: `Insert`.
* `create_refresh_token` takes `REFRESH_TOKEN_EXPIRE_DAYS` as minutes
  (`security.py:81`). With the defaults (`config.py:21-22`) the token meant to renew an
  access token expires 23 minutes before it does.
* The total of an expense listing and its page come from two statements
  (`expense_service.py:122-139`) and may disagree; no property says they do not.

## Assumptions about what is not the code

* Celery with its default settings: a message is delivered once and acknowledged
  when a worker takes it. A message handed to a broker that answers is not lost.
* One weekly run at a time: a run is over before the next Monday.
* `created_at` differs between two expenses (microseconds).
* A password matches its own hash only (Argon2), and what a token decodes to was
  issued under the secret (PyJWT).
* Nobody but the endpoints writes the tables, apart from `is_active`.

## Not modelled

* `get_expense_detail`, the lists of settlements and of groups: a membership check
  and one SELECT each. Nothing lies between two reads that could go wrong.
* The promises nobody makes: a client that sends a settlement again after a timeout
  records it twice, as requests carry no key that identifies them.
* Wording and layout of mails, beyond the balance, the line and the debts.
* Names, descriptions, dates, response layout, logging, CORS, rate limits,
  password hashing, migrations, containers: no property of the domain depends on
  them.
* `split_value`, kept for display, with its rounding and its overflow; the 28
  digits of Python's decimals (see Splits).
* The connection pool. A database that fails is a request that dies, or a task that is
  retried (`Fail`).

## Plan

Done, in this order: `Membership` over `GroupRoster`; `Splits` with
`SplitCalculation`; `Ledger`, composed of both; `DebtSimplification` over
`SettlingPlan`; `Accounts`, `Sessions`, `Listings`; `Notifications`; `Books`, which
`Ledger` implements, and `WeeklySummary` on top of it; the theorems above.

Next:

1. The refinement of `Books` by `Ledger` in tenths of a cent, to join `WeeklySummary`
   to `Ledger` in one theorem.
2. An instance of `Ledger` small enough to keep `ImplementsBooks` as a run.
