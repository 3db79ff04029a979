------------------------------ MODULE LedgerProofs ------------------------------
(***************************************************************************)
(* The ledger's safety properties, for every set of users, groups and      *)
(* requests and every form and amount.                                     *)
(***************************************************************************)
EXTENDS Ledger, MoneyLemmas

-------------------------------------------------------------------------------
(* The inductive invariant *)

\* What was paid for an expense is what is owed for it.
Balanced(e) == SumFunction(e.paid) = SumFunction(e.owed)

GoodExpenses(E) == IsFiniteSet(E) /\ \A e \in E : IsExpense(e) /\ Balanced(e)

RecordsOK == /\ GoodExpenses(expenses)
             /\ IsFiniteSet(settlements) /\ settlements \in SUBSET Settlement
             /\ nextId \in 1..(MaxRecords + 1)
             /\ \A e \in expenses : e.id < nextId
             /\ \A e, f \in expenses : e.id = f.id => e = f

\* The expense a delete request is about, and why it may be deleted.
About(c, e)     == e.id = c.id /\ e.group = c.group
MayDelete(c, e) == About(c, e) /\ c.user \in {e.creator, founder[e.group]}

\* What a request has established by the time it reaches a statement.
RequestOK(r) ==
  LET c == call[r] IN
    /\ pc[r] \in Steps
    /\ c \in Calls \cup {NoCall}
    /\ pc[r] \in {"lookup", "role", "mark"} => c \in DeleteCall
    /\ pc[r] \in {"members", "expenses", "settlements"} => c \in ReportCall
    /\ pc[r] = "insert" /\ c.op = "expense" =>
         /\ SumFunction(c.form.paid) = c.form.total
         /\ Accepts(c.form.total, c.form.kind, c.form.value)
    /\ pc[r] = "insert" /\ c.op = "settlement" => c.receiver # c.user
    /\ pc[r] = "role" => \E e \in expenses : About(c, e)
    /\ pc[r] = "mark" => \E e \in expenses : MayDelete(c, e)
    /\ seen[r] = [members |-> seen[r].members, expenses |-> seen[r].expenses]
    /\ seen[r].members \in SUBSET Users
    /\ GoodExpenses(seen[r].expenses)

Slots == /\ pc   = [r \in Requests |-> pc[r]]
         /\ call = [r \in Requests |-> call[r]]
         /\ seen = [r \in Requests |-> seen[r]]

IInv == /\ RosterTypeOK
        /\ RecordsOK
        /\ Slots
        /\ \A r \in Requests : RequestOK(r)
        /\ ReportsBalance

-------------------------------------------------------------------------------
(* Balances *)

\* What is held over all users is what is held by those who hold something.
LEMMA HeldSum ==
  ASSUME NEW h, DOMAIN h \subseteq Users, \A u \in DOMAIN h : h[u] \in Nat
  PROVE  LET held == [u \in Users |-> Held(h, u)]
         IN  /\ \A u \in Users : held[u] \in Int
             /\ Sum(held, Users) = SumFunction(h)
<1> DEFINE held == [u \in Users |-> Held(h, u)]
<1>1. IsFiniteSet(Users) /\ IsFiniteSet(DOMAIN h)
  BY UsersFinite, FS_Subset
<1>2. /\ \A u \in Users : held[u] \in Int
      /\ \A u \in Users \ DOMAIN h : held[u] = 0
      /\ \A u \in DOMAIN h : h[u] \in Int /\ held[u] = h[u]
  <2>1. \A u \in Users : held[u] = IF u \in DOMAIN h THEN h[u] ELSE 0
    BY DEF Held
  <2> HIDE DEF held
  <2> QED BY <2>1
<1> HIDE DEF held
<1>3. Sum(held, Users) = Sum(held, DOMAIN h)
  BY <1>1, <1>2, SumSupport
<1>4. Sum(held, DOMAIN h) = Sum(h, DOMAIN h)
  BY <1>1, <1>2, SumSame
<1> QED BY <1>2, <1>3, <1>4, SumOfFunction DEF held

\* Money of which as much is paid as is owed moves between users and is not created.
LEMMA EffectNeutral ==
  ASSUME NEW e, Balanced(e),
         \A h \in {e.paid, e.owed} : DOMAIN h \subseteq Users /\ \A u \in DOMAIN h : h[u] \in Nat
  PROVE  LET effect == [u \in Users |-> ExpenseEffect(e, u)]
         IN  /\ \A u \in Users : effect[u] \in Int
             /\ Sum(effect, Users) = 0
<1> DEFINE effect == [u \in Users |-> ExpenseEffect(e, u)]
           paid   == [u \in Users |-> Held(e.paid, u)]
           owed   == [u \in Users |-> Held(e.owed, u)]
           minus  == [u \in Users |-> (-1) * owed[u]]
<1>1. /\ \A h \in {e.paid, e.owed} : DOMAIN h \subseteq Users /\ \A u \in DOMAIN h : h[u] \in Nat
      /\ IsFiniteSet(Users)
  BY UsersFinite
<1>2. /\ \A u \in Users : paid[u] \in Int /\ owed[u] \in Int
      /\ Sum(paid, Users) = SumFunction(e.paid)
      /\ Sum(owed, Users) = SumFunction(e.owed)
  BY <1>1, HeldSum
<1>3. \A u \in Users : effect[u] = paid[u] - owed[u] /\ minus[u] = (-1) * owed[u]
  BY DEF ExpenseEffect
<1> HIDE DEF effect, paid, owed, minus
<1>4. \A u \in Users : minus[u] \in Int /\ effect[u] = paid[u] + minus[u]
  <2>1. \A x, y \in Int : (-1) * y \in Int /\ x - y = x + (-1) * y
    OBVIOUS
  <2> QED BY <1>2, <1>3, <2>1
<1>5. Sum(minus, Users) = (-1) * Sum(owed, Users)
  BY <1>1, <1>2, <1>3, SumScale
<1>6. Sum(effect, Users) = Sum(paid, Users) + Sum(minus, Users)
  BY <1>1, <1>2, <1>4, SumPlus
<1>7. Sum(paid, Users) = Sum(owed, Users) /\ Sum(owed, Users) \in Int
  BY <1>1, <1>2, SumInt DEF Balanced
<1> QED BY <1>2, <1>4, <1>5, <1>6, <1>7 DEF effect

\* A balanced expense does so.
LEMMA ExpenseNeutral ==
  ASSUME NEW e, IsExpense(e), Balanced(e)
  PROVE  LET effect == [u \in Users |-> ExpenseEffect(e, u)]
         IN  /\ \A u \in Users : effect[u] \in Int
             /\ Sum(effect, Users) = 0
BY EffectNeutral DEF IsExpense

\* A settlement does as well.
LEMMA SettlementNeutral ==
  ASSUME NEW s \in Settlement
  PROVE  LET effect == [u \in Users |-> SettlementEffect(s, u)]
         IN  /\ \A u \in Users : effect[u] \in Int
             /\ Sum(effect, Users) = 0
<1> DEFINE effect == [u \in Users |-> SettlementEffect(s, u)]
           R == Users \ {s.payer}
<1>1. /\ s.payer \in Users /\ s.receiver \in Users /\ s.amount \in Nat
      /\ IsFiniteSet(Users) /\ IsFiniteSet(R)
  BY UsersFinite, AmountsAssumption, FS_Subset DEF Settlement
<1> DEFINE out == [u \in Users |-> IF u = s.payer THEN s.amount ELSE 0]
           in  == [u \in Users |-> IF u = s.receiver THEN s.amount ELSE 0]
<1>2. \A u \in Users : out[u] \in Int /\ in[u] \in Int /\ effect[u] = out[u] - in[u]
  BY <1>1 DEF SettlementEffect
<1> HIDE DEF effect
<1>3. \A u \in Users : effect[u] \in Int
  <2> HIDE DEF out, in
  <2>1. \A x, y \in Int : x - y \in Int /\ (x = y => x - y = 0)
    OBVIOUS
  <2> QED BY <1>2, <2>1
<1>4. Sum(effect, Users) = effect[s.payer] + Sum(effect, R)
  BY <1>1, <1>3, SumRemove
<1>5. CASE s.payer = s.receiver
  <2>0. \A u \in Users : out[u] = in[u]
    BY <1>5
  <2> HIDE DEF out, in
  <2>1. \A u \in Users : effect[u] = 0
    <3>1. \A x \in Int : x - x = 0
      OBVIOUS
    <3> QED BY <1>2, <2>0, <3>1
  <2> QED BY <1>1, <1>3, <2>1, SumZero DEF effect
<1>6. CASE s.payer # s.receiver
  <2> DEFINE Q == R \ {s.receiver}
  <2>1. IsFiniteSet(Q) /\ s.receiver \in R /\ \A u \in Q : effect[u] = 0
    BY <1>1, <1>2, <1>6, FS_Subset
  <2>2. Sum(effect, R) = effect[s.receiver] + Sum(effect, Q)
    BY <1>1, <1>3, <2>1, SumRemove
  <2>3. Sum(effect, Q) = 0
    BY <2>1, SumZero
  <2>4. effect[s.payer] = s.amount /\ effect[s.receiver] = - s.amount
    BY <1>1, <1>2, <1>6
  <2> QED BY <1>1, <1>3, <1>4, <2>2, <2>3, <2>4 DEF effect
<1> QED BY <1>5, <1>6

\* The total by users of a table whose rows add up to zero is zero.
LEMMA ColumnsNeutral ==
  ASSUME NEW R, IsFiniteSet(R), NEW m,
         \A x \in R : /\ \A u \in Users : m[x][u] \in Int
                      /\ Sum(m[x], Users) = 0
  PROVE  LET column == [u \in Users |-> Sum([x \in R |-> m[x][u]], R)]
         IN  /\ \A u \in Users : column[u] \in Int
             /\ Sum(column, Users) = 0
<1> DEFINE rows   == [x \in R |-> Sum(m[x], Users)]
           column == [u \in Users |-> Sum([x \in R |-> m[x][u]], R)]
<1>1. IsFiniteSet(Users)
  BY UsersFinite
<1>2. Sum(rows, R) = Sum(column, Users)
  BY <1>1, SumExchange
<1>3. \A x \in R : rows[x] = 0
  OBVIOUS
<1>4. Sum(rows, R) = 0
  <2> HIDE DEF rows
  <2> QED BY <1>3, SumZero
<1>5. \A u \in Users : column[u] \in Int
  <2> SUFFICES ASSUME NEW u \in Users PROVE Sum([x \in R |-> m[x][u]], R) \in Int
    OBVIOUS
  <2> DEFINE f == [x \in R |-> m[x][u]]
  <2>1. \A x \in R : f[x] \in Int
    OBVIOUS
  <2> HIDE DEF f
  <2>2. Sum(f, R) \in Int
    BY <2>1, SumInt
  <2> QED BY <2>2 DEF f
<1> QED BY <1>2, <1>4, <1>5

\* The balances of all users, over any set of good expenses and of settlements.
LEMMA NetNeutral ==
  ASSUME NEW E, GoodExpenses(E), NEW S, IsFiniteSet(S), S \in SUBSET Settlement
  PROVE  /\ \A u \in Users : Net(E, S)[u] \in Int
         /\ Sum(Net(E, S), Users) = 0
<1> DEFINE me == [e \in E |-> [u \in Users |-> ExpenseEffect(e, u)]]
           ms == [s \in S |-> [u \in Users |-> SettlementEffect(s, u)]]
           ce == [u \in Users |-> Sum([e \in E |-> me[e][u]], E)]
           cs == [u \in Users |-> Sum([s \in S |-> ms[s][u]], S)]
           net == Net(E, S)
<1>1. (\A u \in Users : ce[u] \in Int) /\ Sum(ce, Users) = 0
  <2>1. \A e \in E : (\A u \in Users : me[e][u] \in Int) /\ Sum(me[e], Users) = 0
    BY ExpenseNeutral DEF GoodExpenses
  <2>2. IsFiniteSet(E)
    BY DEF GoodExpenses
  <2> HIDE DEF me
  <2> QED BY <2>1, <2>2, ColumnsNeutral
<1>2. (\A u \in Users : cs[u] \in Int) /\ Sum(cs, Users) = 0
  <2>1. \A s \in S : (\A u \in Users : ms[s][u] \in Int) /\ Sum(ms[s], Users) = 0
    BY SettlementNeutral
  <2> HIDE DEF ms
  <2> QED BY <2>1, ColumnsNeutral
<1>3. \A u \in Users : net[u] = ce[u] + cs[u]
  <2> SUFFICES ASSUME NEW u \in Users PROVE net[u] = ce[u] + cs[u]
    OBVIOUS
  <2>1. [e \in E |-> me[e][u]] = [e \in E |-> ExpenseEffect(e, u)]
    OBVIOUS
  <2>2. [s \in S |-> ms[s][u]] = [s \in S |-> SettlementEffect(s, u)]
    OBVIOUS
  <2>3. net[u] = Sum([e \in E |-> ExpenseEffect(e, u)], E)
                   + Sum([s \in S |-> SettlementEffect(s, u)], S)
    BY SumOfFunction DEF Net
  <2> HIDE DEF me, ms, net
  <2> QED BY <2>1, <2>2, <2>3
<1>4. IsFiniteSet(Users)
  BY UsersFinite
<1> HIDE DEF ce, cs, net
<1>5. Sum(net, Users) = Sum(ce, Users) + Sum(cs, Users)
  BY <1>1, <1>2, <1>3, <1>4, SumPlus
<1>6. Sum(net, Users) = 0 /\ \A u \in Users : net[u] \in Int
  BY <1>1, <1>2, <1>3, <1>5
<1> QED BY <1>6 DEF net

\* A report in which everyone with a balance is listed is balanced.
LEMMA ReportNeutral ==
  ASSUME NEW E, GoodExpenses(E), NEW S, IsFiniteSet(S), S \in SUBSET Settlement,
         NEW M \in SUBSET Users, AllKnown(M, Net(E, S))
  PROVE  SumFunction([u \in M |-> Net(E, S)[u]]) = 0
<1> DEFINE net == Net(E, S)
           listed == [u \in M |-> net[u]]
<1>1. /\ \A u \in Users : net[u] \in Int
      /\ Sum(net, Users) = 0
  BY NetNeutral
<1>2. \A u \in Users \ M : net[u] = 0
  BY DEF AllKnown
<1>3. IsFiniteSet(Users) /\ IsFiniteSet(M)
  BY UsersFinite, FS_Subset
<1>4. \A u \in M : listed[u] = net[u]
  OBVIOUS
<1>5. SumFunction(listed) = Sum(listed, M)
  BY SumOfFunction
<1> HIDE DEF net, listed
<1>6. Sum(net, M) = 0
  BY <1>1, <1>2, <1>3, SumSupport
<1>7. Sum(listed, M) = Sum(net, M)
  BY <1>1, <1>3, <1>4, SumSame
<1> QED BY <1>5, <1>6, <1>7 DEF listed, net

-------------------------------------------------------------------------------
(* What a step does to the requests it is not about *)

\* No step forgets an expense, changes whose it is, or replaces a founder.
Stable == /\ \A e \in expenses : \E f \in expenses' :
               f.id = e.id /\ f.group = e.group /\ f.creator = e.creator
          /\ \A g \in Groups : founder[g] \in Users => founder'[g] = founder[g]

\* What a request has established stays true while others run.
LEMMA OthersKeep ==
  ASSUME NEW r, RequestOK(r), Stable,
         pc'[r] = pc[r], call'[r] = call[r], seen'[r] = seen[r]
  PROVE  RequestOK(r)'
<1>1. pc[r] = "role" => \E f \in expenses' : About(call[r], f)
  BY DEF RequestOK, Stable, About
<1>2. ASSUME pc[r] = "mark"
      PROVE  \E f \in expenses' : About(call[r], f) /\ call[r].user \in {f.creator, founder'[f.group]}
  <2>1. call[r] \in DeleteCall
    BY <1>2 DEF RequestOK
  <2>2. PICK e \in expenses : MayDelete(call[r], e)
    BY <1>2 DEF RequestOK
  <2>3. PICK f \in expenses' : f.id = e.id /\ f.group = e.group /\ f.creator = e.creator
    BY DEF Stable
  <2>4. call[r].user \in Users /\ call[r].group \in Groups /\ e.group = call[r].group
    BY <2>1, <2>2 DEF DeleteCall, MayDelete, About
  <2> QED BY <2>2, <2>3, <2>4 DEF MayDelete, About, Stable
<1> QED BY <1>1, <1>2 DEF RequestOK, MayDelete, About

\* A request that has been answered has a free slot.
LEMMA FreeSlot ==
  ASSUME NEW r \in Requests, NEW a, Slots, Respond(r, a)
  PROVE  /\ Slots' /\ RequestOK(r)'
         /\ \A q \in Requests \ {r} : pc'[q] = pc[q] /\ call'[q] = call[q] /\ seen'[q] = seen[q]
<1>1. /\ pc'[r] = "idle" /\ call'[r] = NoCall /\ seen'[r] = Unread
      /\ \A q \in Requests \ {r} : pc'[q] = pc[q] /\ call'[q] = call[q] /\ seen'[q] = seen[q]
      /\ Slots'
  BY DEF Respond, Slots
<1>2. GoodExpenses({})
  BY FS_EmptySet DEF GoodExpenses
<1>3. RequestOK(r)'
  BY <1>1, <1>2 DEF RequestOK, Steps, NoCall, Unread, GoodExpenses, IsExpense, Balanced
<1> QED BY <1>1, <1>3

\* Answering a request: what remains to be shown is about records and the report.
LEMMA RespondKeeps ==
  ASSUME IInv, NEW r \in Requests, NEW a, Respond(r, a),
         RosterTypeOK', RecordsOK', Stable,
         a.code = 200 => SumFunction(a.net) = 0
  PROVE  IInv'
<1>1. ReportsBalance'
  BY DEF Respond, ReportsBalance
<1>2. ASSUME NEW q \in Requests PROVE RequestOK(q)'
  <2>1. CASE q = r
    BY <2>1, FreeSlot DEF IInv
  <2>2. CASE q # r
    BY <2>2, FreeSlot, OthersKeep DEF IInv
  <2> QED BY <2>1, <2>2
<1>3. Slots'
  BY FreeSlot DEF IInv
<1> QED BY <1>1, <1>2, <1>3 DEF IInv

\* Nothing recorded changes: the records and founders are as good as before.
LEMMA SameRecords ==
  ASSUME IInv, UNCHANGED <<rosterVars, ledger>>
  PROVE  RosterTypeOK' /\ RecordsOK' /\ Stable
<1>1. UNCHANGED <<founder, roster, expenses, settlements, nextId>>
  BY DEF rosterVars, ledger
<1> QED BY <1>1 DEF IInv, RosterTypeOK, RecordsOK, GoodExpenses, IsExpense, Balanced, Stable

\* A request refused, aborted or answered without a report.
LEMMA AnswerKeeps ==
  ASSUME IInv, NEW r \in Requests, NEW code, code # 200, Respond(r, Status(code)),
         UNCHANGED <<rosterVars, ledger>>
  PROVE  IInv'
BY SameRecords, RespondKeeps DEF Status

\* A request that goes on to its next statement.
LEMMA GotoKeeps ==
  ASSUME IInv, NEW r \in Requests, NEW step, Goto(r, step), RequestOK(r)',
         seen' = [seen EXCEPT ![r] = seen'[r]],
         UNCHANGED <<rosterVars, ledger>>
  PROVE  IInv'
<1>1. ReportsBalance'
  BY DEF Goto, ReportsBalance, Silence, Status
<1>2. /\ Slots'
      /\ \A q \in Requests \ {r} : pc'[q] = pc[q] /\ call'[q] = call[q] /\ seen'[q] = seen[q]
  BY DEF IInv, Slots, Goto
<1>3. ASSUME NEW q \in Requests, q # r PROVE RequestOK(q)'
  BY <1>2, <1>3, SameRecords, OthersKeep DEF IInv
<1> QED BY <1>1, <1>2, <1>3, SameRecords DEF IInv

-------------------------------------------------------------------------------
(* The steps, one by one *)

\* The call a request is serving, by the kind of call it is.
LEMMA CallKinds ==
  ASSUME NEW c \in Calls \cup {NoCall}
  PROVE  /\ c.op = "expense" => c \in ExpenseCall
         /\ c.op = "settlement" => c \in SettlementCall
BY DEF Calls, NoCall, ExpenseCall, SettlementCall, DeleteCall, ReportCall

\* A new call.
LEMMA ReceiveKeeps ==
  ASSUME IInv, NEW r \in Requests, NEW c \in Calls, Receive(r, c)
  PROVE  IInv'
<1>1. ReportsBalance'
  BY DEF Receive, ReportsBalance, Silence, Status
<1>2. /\ Slots'
      /\ seen' = seen /\ pc'[r] = FirstStep[c.op] /\ call'[r] = c
      /\ \A q \in Requests \ {r} : pc'[q] = pc[q] /\ call'[q] = call[q]
  BY DEF IInv, Slots, Receive
<1>3. UNCHANGED <<rosterVars, ledger>>
  BY DEF Receive
<1>4. ASSUME NEW q \in Requests, q # r PROVE RequestOK(q)'
  BY <1>2, <1>3, <1>4, SameRecords, OthersKeep DEF IInv
<1>5. RequestOK(r)'
  <2>1. /\ FirstStep[c.op] \in {"validate", "lookup", "members"}
        /\ FirstStep[c.op] = "lookup" => c \in DeleteCall
        /\ FirstStep[c.op] = "members" => c \in ReportCall
    BY DEF Calls, ExpenseCall, SettlementCall, DeleteCall, ReportCall, FirstStep
  <2>2. RequestOK(r)
    BY DEF IInv
  <2> QED BY <1>2, <2>1, <2>2 DEF RequestOK, Steps
<1> QED BY <1>1, <1>2, <1>3, <1>4, <1>5, SameRecords DEF IInv

\* create_expense, the checks.
LEMMA ValidateExpenseKeeps ==
  ASSUME IInv, NEW r \in Requests, ValidateExpense(r)
  PROVE  IInv'
<1> DEFINE c == call[r]
<1>1. UNCHANGED <<rosterVars, ledger>> /\ c.op = "expense"
  BY DEF ValidateExpense
<1>2. CASE Answer(r, 403) \/ Answer(r, 400)
  BY <1>1, <1>2, AnswerKeeps DEF Answer
<1>3. CASE ExpenseOK(c.group, c.form) /\ Goto(r, "insert") /\ UNCHANGED seen
  <2>1. pc'[r] = "insert" /\ call' = call /\ seen' = [seen EXCEPT ![r] = seen'[r]]
    BY <1>3 DEF Goto, IInv, Slots
  <2>2. RequestOK(r)'
    <3>1. RequestOK(r)
      BY DEF IInv
    <3> QED BY <1>1, <1>3, <2>1, <3>1 DEF RequestOK, ExpenseOK, Steps
  <2> QED BY <1>1, <1>3, <2>1, <2>2, GotoKeeps
<1> QED BY <1>2, <1>3 DEF ValidateExpense

\* create_expense, the transaction.
LEMMA InsertExpenseKeeps ==
  ASSUME IInv, NEW r \in Requests, InsertExpense(r)
  PROVE  IInv'
<1> DEFINE c == call[r]
           e == NewExpense(c)
<1>1. CASE Answer(r, 500) /\ UNCHANGED ledger
  BY <1>1, AnswerKeeps DEF Answer, InsertExpense
<1>2. CASE /\ nextId <= MaxRecords /\ expenses' = expenses \cup {e}
           /\ nextId' = nextId + 1 /\ Answer(r, 201) /\ UNCHANGED settlements
  <2>1. /\ c \in ExpenseCall
        /\ SumFunction(c.form.paid) = c.form.total
        /\ Accepts(c.form.total, c.form.kind, c.form.value)
    BY CallKinds DEF IInv, RequestOK, InsertExpense
  <2>2. ValidForm(c.form, Users) /\ c.group \in Groups /\ c.user \in Users
    BY <2>1, FormsAssumption DEF ExpenseCall
  <2>3. /\ DOMAIN e.paid \subseteq Users /\ \A u \in DOMAIN e.paid : e.paid[u] \in Nat
        /\ DOMAIN e.owed \subseteq Users /\ \A u \in DOMAIN e.owed : e.owed[u] \in Nat
        /\ SumFunction(e.owed) = c.form.total
    <3>1. /\ e.paid = c.form.paid
          /\ e.owed = Shares(c.form.total, c.form.kind, c.form.value, c.form.last)
      BY DEF NewExpense
    <3>2. Entries(c.form.paid, Users) /\ Entries(c.form.value, Users)
      BY <2>2 DEF ValidForm
    <3>3. /\ DOMAIN e.owed = DOMAIN c.form.value
          /\ \A u \in DOMAIN e.owed : e.owed[u] \in Nat
          /\ SumFunction(e.owed) = c.form.total
      BY <2>1, <2>2, <3>1, UsersFinite, SharesLemma
    <3> QED BY <3>1, <3>2, <3>3 DEF Entries
  <2>4. IsExpense(e) /\ Balanced(e) /\ e.id = nextId
    <3>1. /\ e = [id |-> e.id, group |-> e.group, creator |-> e.creator, paid |-> e.paid,
                  owed |-> e.owed, deleted |-> e.deleted]
          /\ e.id = nextId /\ e.group = c.group /\ e.creator = c.user
          /\ e.deleted = FALSE /\ e.paid = c.form.paid
      BY DEF NewExpense
    <3>2. nextId \in 1..MaxRecords
      BY <1>2, BoundsAssumption DEF IInv, RecordsOK
    <3> HIDE DEF e
    <3> QED BY <2>1, <2>2, <2>3, <3>1, <3>2 DEF IsExpense, Balanced
  <2> HIDE DEF e
  <2>5. RecordsOK'
    <3>1. GoodExpenses(expenses')
      BY <1>2, <2>4, FS_AddElement DEF GoodExpenses, IInv, RecordsOK
    <3>2. nextId' \in 1..(MaxRecords + 1)
      BY <1>2, BoundsAssumption DEF IInv, RecordsOK
    <3>3. \A f \in expenses : f.id \in Int
      BY DEF IInv, RecordsOK, GoodExpenses, IsExpense
    <3>4. nextId \in Int /\ \A f \in expenses : f.id < nextId /\ f.id # nextId
      BY <3>3, BoundsAssumption DEF IInv, RecordsOK
    <3>5. \A f \in expenses' : f.id < nextId'
      BY <1>2, <2>4, <3>3, <3>4
    <3>6. \A f, g \in expenses' : f.id = g.id => f = g
      BY <1>2, <2>4, <3>4 DEF IInv, RecordsOK
    <3>7. IsFiniteSet(settlements') /\ settlements' \in SUBSET Settlement
      BY <1>2 DEF IInv, RecordsOK
    <3> QED BY <3>1, <3>2, <3>5, <3>6, <3>7 DEF RecordsOK
  <2>6. UNCHANGED rosterVars
    BY DEF InsertExpense
  <2>7. RosterTypeOK' /\ Stable
    BY <1>2, <2>6 DEF IInv, RosterTypeOK, rosterVars, Stable
  <2> QED BY <1>2, <2>5, <2>7, RespondKeeps DEF Answer, Status
<1> QED BY <1>1, <1>2 DEF InsertExpense

\* create_settlement, the checks.
LEMMA ValidateSettlementKeeps ==
  ASSUME IInv, NEW r \in Requests, ValidateSettlement(r)
  PROVE  IInv'
<1> DEFINE c == call[r]
<1>1. UNCHANGED <<rosterVars, ledger>> /\ c.op = "settlement"
  BY DEF ValidateSettlement
<1>2. CASE Answer(r, 403) \/ Answer(r, 400)
  BY <1>1, <1>2, AnswerKeeps DEF Answer
<1>3. CASE SettlementOK(c.group, c.user, c.receiver) /\ Goto(r, "insert") /\ UNCHANGED seen
  <2>1. pc'[r] = "insert" /\ call' = call /\ seen' = [seen EXCEPT ![r] = seen'[r]]
    BY <1>3 DEF Goto, IInv, Slots
  <2>2. RequestOK(r)'
    <3>1. RequestOK(r)
      BY DEF IInv
    <3> QED BY <1>1, <1>3, <2>1, <3>1 DEF RequestOK, SettlementOK, Steps
  <2> QED BY <1>1, <1>3, <2>1, <2>2, GotoKeeps
<1> QED BY <1>2, <1>3 DEF ValidateSettlement

\* create_settlement, the transaction.
LEMMA InsertSettlementKeeps ==
  ASSUME IInv, NEW r \in Requests, InsertSettlement(r)
  PROVE  IInv'
<1> DEFINE c == call[r]
           s == [id |-> nextId, group |-> c.group, payer |-> c.user,
                 receiver |-> c.receiver, amount |-> c.amount]
<1>1. CASE Answer(r, 500) /\ UNCHANGED ledger
  BY <1>1, AnswerKeeps DEF Answer, InsertSettlement
<1>2. CASE /\ nextId <= MaxRecords /\ settlements' = settlements \cup {s}
           /\ nextId' = nextId + 1 /\ Answer(r, 201) /\ UNCHANGED expenses
  <2>1. c \in SettlementCall
    BY CallKinds DEF IInv, RequestOK, InsertSettlement
  <2>2. nextId \in 1..MaxRecords /\ nextId' \in 1..(MaxRecords + 1) /\ nextId' > nextId
    BY <1>2, BoundsAssumption DEF IInv, RecordsOK
  <2>3. s \in Settlement
    BY <2>1, <2>2 DEF SettlementCall, Settlement
  <2> HIDE DEF s
  <2>4. IsFiniteSet(settlements') /\ settlements' \in SUBSET Settlement
    BY <1>2, <2>3, FS_AddElement DEF IInv, RecordsOK
  <2>5. \A e \in expenses : e.id < nextId'
    <3>1. \A e \in expenses : e.id \in Int /\ e.id < nextId
      BY DEF IInv, RecordsOK, GoodExpenses, IsExpense
    <3> QED BY <1>2, <2>2, <3>1
  <2>6. RecordsOK'
    BY <1>2, <2>2, <2>4, <2>5 DEF IInv, RecordsOK, GoodExpenses, IsExpense, Balanced
  <2>7. UNCHANGED rosterVars
    BY DEF InsertSettlement
  <2>8. RosterTypeOK' /\ Stable
    BY <1>2, <2>7 DEF IInv, RosterTypeOK, rosterVars, Stable
  <2> QED BY <1>2, <2>6, <2>8, RespondKeeps DEF Answer, Status
<1> QED BY <1>1, <1>2 DEF InsertSettlement

\* delete_expense, the lookup.
LEMMA FindExpenseKeeps ==
  ASSUME IInv, NEW r \in Requests, FindExpense(r)
  PROVE  IInv'
<1> DEFINE c == call[r]
<1>1. UNCHANGED <<rosterVars, ledger>> /\ c \in DeleteCall
  BY DEF FindExpense, IInv, RequestOK
<1>2. CASE Answer(r, 404)
  BY <1>1, <1>2, AnswerKeeps DEF Answer
<1>3. ASSUME NEW e \in Deletable(c.group, c.id),
             Goto(r, IF e.creator = c.user THEN "mark" ELSE "role"), UNCHANGED seen
      PROVE  IInv'
  <2>1. /\ pc'[r] = (IF e.creator = c.user THEN "mark" ELSE "role")
        /\ call' = call /\ seen' = [seen EXCEPT ![r] = seen'[r]]
    BY <1>3 DEF Goto, IInv, Slots
  <2>2. e \in expenses' /\ About(c, e) /\ (e.creator = c.user => MayDelete(c, e)')
    BY <1>1, <1>3, <2>1 DEF Deletable, About, MayDelete, ledger
  <2>3. RequestOK(r)'
    <3>1. RequestOK(r)
      BY DEF IInv
    <3>2. pc'[r] = "role" => \E f \in expenses' : About(call'[r], f)
      BY <2>1, <2>2
    <3>3. pc'[r] = "mark" => \E f \in expenses' : MayDelete(call[r], f)'
      BY <2>1, <2>2 DEF MayDelete, About
    <3> QED BY <1>1, <1>3, <2>1, <3>1, <3>2, <3>3 DEF RequestOK, Steps, MayDelete, About
  <2> QED BY <1>1, <1>3, <2>1, <2>3, GotoKeeps
<1> QED BY <1>2, <1>3 DEF FindExpense

\* delete_expense, the role of someone who is not the creator.
LEMMA CheckRoleKeeps ==
  ASSUME IInv, NEW r \in Requests, CheckRole(r)
  PROVE  IInv'
<1> DEFINE c == call[r]
<1>1. UNCHANGED <<rosterVars, ledger>> /\ c \in DeleteCall
  BY DEF CheckRole, IInv, RequestOK
<1>2. CASE Answer(r, 403)
  BY <1>1, <1>2, AnswerKeeps DEF Answer
<1>3. CASE c.user = founder[c.group] /\ Goto(r, "mark") /\ UNCHANGED seen
  <2>1. pc'[r] = "mark" /\ call' = call /\ seen' = [seen EXCEPT ![r] = seen'[r]]
    BY <1>3 DEF Goto, IInv, Slots
  <2>2. PICK e \in expenses : About(c, e)
    BY DEF CheckRole, IInv, RequestOK
  <2>3. MayDelete(c, e)
    BY <1>3, <2>2 DEF MayDelete, About
  <2>4. RequestOK(r)'
    <3>1. RequestOK(r) /\ founder' = founder /\ expenses' = expenses
      BY <1>1 DEF IInv, rosterVars, ledger
    <3> QED BY <1>1, <1>3, <2>1, <2>3, <3>1 DEF RequestOK, Steps, MayDelete, About
  <2> QED BY <1>1, <1>3, <2>1, <2>4, GotoKeeps
<1> QED BY <1>2, <1>3 DEF CheckRole

\* A row marked as deleted keeps everything else.
LEMMA DeletedRow ==
  ASSUME NEW e, IsExpense(e), Balanced(e), NEW d, d = [e EXCEPT !.deleted = TRUE]
  PROVE  /\ d.id = e.id /\ d.group = e.group /\ d.creator = e.creator /\ d.deleted = TRUE
         /\ IsExpense(d) /\ Balanced(d)
<1>1. e = [id |-> e.id, group |-> e.group, creator |-> e.creator, paid |-> e.paid,
           owed |-> e.owed, deleted |-> e.deleted]
  BY DEF IsExpense
<1>2. d = [id |-> e.id, group |-> e.group, creator |-> e.creator, paid |-> e.paid,
           owed |-> e.owed, deleted |-> TRUE]
  BY <1>1
<1> QED BY <1>2 DEF IsExpense, Balanced

\* Marking a row changes nothing else about the table.
LEMMA MarkedRecords ==
  ASSUME NEW E, GoodExpenses(E), NEW id
  PROVE  /\ GoodExpenses(WithDeleted(E, id))
         /\ \A f \in WithDeleted(E, id) : \E e \in E :
              /\ f.id = e.id /\ f.group = e.group /\ f.creator = e.creator
              /\ f = IF e.id = id THEN [e EXCEPT !.deleted = TRUE] ELSE e
         /\ \A e \in E : \E f \in WithDeleted(E, id) :
              /\ f.id = e.id /\ f.group = e.group /\ f.creator = e.creator
              /\ f = IF e.id = id THEN [e EXCEPT !.deleted = TRUE] ELSE e
<1> DEFINE Row(e) == IF e.id = id THEN [e EXCEPT !.deleted = TRUE] ELSE e
           D == WithDeleted(E, id)
<1>1. D = {Row(e) : e \in E}
  BY DEF WithDeleted
<1>2. \A e \in E : /\ Row(e).id = e.id /\ Row(e).group = e.group
                   /\ Row(e).creator = e.creator
                   /\ IsExpense(Row(e)) /\ Balanced(Row(e))
  BY DeletedRow DEF GoodExpenses
<1>3. IsFiniteSet(D)
  <2>1. IsFiniteSet(E)
    BY DEF GoodExpenses
  <2> DEFINE row == [e \in E |-> Row(e)]
  <2>2. row \in Surjection(E, D)
    BY <1>1 DEF Surjection
  <2> HIDE DEF row, D
  <2> QED BY <2>1, <2>2, FS_Surjection
<1>4. GoodExpenses(D)
  BY <1>1, <1>2, <1>3 DEF GoodExpenses
<1> QED BY <1>1, <1>2, <1>4

\* delete_expense, the commit.
LEMMA MarkDeletedKeeps ==
  ASSUME IInv, NEW r \in Requests, MarkDeleted(r)
  PROVE  IInv'
<1> DEFINE id == call[r].id
<1>1. /\ expenses' = WithDeleted(expenses, id) /\ Answer(r, 204)
      /\ UNCHANGED <<founder, roster, settlements, nextId>>
  BY DEF MarkDeleted, rosterVars
<1>2. GoodExpenses(expenses)
  BY DEF IInv, RecordsOK
<1>3. /\ GoodExpenses(expenses')
      /\ \A f \in expenses' : \E e \in expenses :
           f.id = e.id /\ f = IF e.id = id THEN [e EXCEPT !.deleted = TRUE] ELSE e
      /\ \A e \in expenses : \E f \in expenses' :
           f.id = e.id /\ f.group = e.group /\ f.creator = e.creator
  BY <1>1, <1>2, MarkedRecords
<1>4. \A e, f \in expenses' : e.id = f.id => e = f
  <2> SUFFICES ASSUME NEW e \in expenses', NEW f \in expenses', e.id = f.id PROVE e = f
    OBVIOUS
  <2>1. PICK a \in expenses :
           e.id = a.id /\ e = IF a.id = id THEN [a EXCEPT !.deleted = TRUE] ELSE a
    BY <1>3
  <2>2. PICK b \in expenses :
           f.id = b.id /\ f = IF b.id = id THEN [b EXCEPT !.deleted = TRUE] ELSE b
    BY <1>3
  <2>3. a = b
    BY <2>1, <2>2 DEF IInv, RecordsOK
  <2> QED BY <2>1, <2>2, <2>3
<1>5. \A f \in expenses' : f.id < nextId'
  BY <1>1, <1>3 DEF IInv, RecordsOK
<1>6. RecordsOK'
  BY <1>1, <1>3, <1>4, <1>5 DEF IInv, RecordsOK
<1>7. RosterTypeOK' /\ Stable
  BY <1>1, <1>3 DEF IInv, RosterTypeOK, Stable
<1> QED BY <1>1, <1>6, <1>7, RespondKeeps DEF Answer, Status

\* get_group_balances, the members.
LEMMA ReadMembersKeeps ==
  ASSUME IInv, NEW r \in Requests, ReadMembers(r)
  PROVE  IInv'
<1> DEFINE c == call[r]
<1>1. UNCHANGED <<rosterVars, ledger>> /\ c \in ReportCall
  BY DEF ReadMembers, IInv, RequestOK
<1>2. CASE Answer(r, 403)
  BY <1>1, <1>2, AnswerKeeps DEF Answer
<1>3. CASE /\ seen' = [seen EXCEPT ![r].members = roster[c.group]]
           /\ Goto(r, "expenses")
  <2>1. /\ pc'[r] = "expenses" /\ call' = call /\ seen' = [seen EXCEPT ![r] = seen'[r]]
        /\ seen'[r] = [seen[r] EXCEPT !.members = roster[c.group]]
    BY <1>3 DEF Goto, IInv, Slots
  <2>2. roster[c.group] \in SUBSET Users
    BY <1>1 DEF IInv, RosterTypeOK, ReportCall
  <2>3. RequestOK(r)
    BY DEF IInv
  <2>4. seen'[r] = [members |-> roster[c.group], expenses |-> seen[r].expenses]
    BY <2>1, <2>3 DEF RequestOK
  <2>5. RequestOK(r)'
    BY <1>1, <2>1, <2>2, <2>3, <2>4 DEF RequestOK, Steps, GoodExpenses, IsExpense, Balanced
  <2> QED BY <1>1, <1>3, <2>1, <2>5, GotoKeeps
<1> QED BY <1>2, <1>3 DEF ReadMembers

\* get_group_balances, the expenses.
LEMMA ReadExpensesKeeps ==
  ASSUME IInv, NEW r \in Requests, ReadExpenses(r)
  PROVE  IInv'
<1> DEFINE c == call[r]
<1>1. /\ UNCHANGED <<rosterVars, ledger>> /\ c \in ReportCall
      /\ pc'[r] = "settlements" /\ call' = call /\ seen' = [seen EXCEPT ![r] = seen'[r]]
      /\ seen'[r] = [seen[r] EXCEPT !.expenses = Live(c.group)]
  BY DEF ReadExpenses, Goto, IInv, Slots, RequestOK
<1>2. GoodExpenses(Live(c.group))
  BY FS_Subset DEF IInv, RecordsOK, GoodExpenses, Live
<1>3. RequestOK(r)
  BY DEF IInv
<1>4. seen'[r] = [members |-> seen[r].members, expenses |-> Live(c.group)]
  BY <1>1, <1>3 DEF RequestOK
<1>5. seen'[r].members = seen[r].members /\ seen'[r].expenses = Live(c.group)
  BY <1>4
<1>6. GoodExpenses(seen'[r].expenses)
  BY <1>2, <1>5
<1>7. RequestOK(r)'
  BY <1>1, <1>3, <1>4, <1>5, <1>6 DEF RequestOK, Steps
<1> QED BY <1>1, <1>7, GotoKeeps DEF ReadExpenses

\* get_group_balances, the settlements and the answer.
LEMMA ReportKeeps ==
  ASSUME IInv, NEW r \in Requests, Report(r)
  PROVE  IInv'
<1> DEFINE E == seen[r].expenses
           S == Settled(call[r].group)
           M == seen[r].members
<1>1. UNCHANGED <<rosterVars, ledger>>
  BY DEF Report
<1>2. CASE Answer(r, 500)
  BY <1>1, <1>2, AnswerKeeps DEF Answer
<1>3. CASE /\ AllKnown(M, Net(E, S))
           /\ Respond(r, [code |-> 200, net |-> [u \in M |-> Net(E, S)[u]]])
  <2>1. M \in SUBSET Users /\ GoodExpenses(E)
    BY DEF IInv, RequestOK
  <2>2. IsFiniteSet(S) /\ S \in SUBSET Settlement
    BY FS_Subset DEF IInv, RecordsOK, Settled
  <2>3. SumFunction([u \in M |-> Net(E, S)[u]]) = 0
    BY <1>3, <2>1, <2>2, ReportNeutral
  <2> QED BY <1>1, <1>3, <2>3, SameRecords, RespondKeeps
<1> QED BY <1>2, <1>3 DEF Report

\* A founder is there for good.
LEMMA RosterKeeps ==
  ASSUME IInv, RosterChanges
  PROVE  IInv'
<1>1. UNCHANGED <<expenses, settlements, nextId, pc, call, seen>> /\ reply' = Silence
  BY DEF RosterChanges, ledger, request
<1>2. PICK g \in Groups, u \in Users : Found(g, u) \/ Admit(g, u) \/ Drop(g, u)
  BY DEF RosterChanges, RosterNext
<1>3. RosterTypeOK' /\ \A h \in Groups : founder[h] \in Users => founder'[h] = founder[h]
  <2>1. RosterTypeOK
    BY DEF IInv
  <2>2. CASE Found(g, u)
    BY <1>2, <2>1, <2>2, NoUserAssumption DEF Found, RosterTypeOK
  <2>3. CASE Admit(g, u)
    BY <1>2, <2>1, <2>3 DEF Admit, RosterTypeOK
  <2>4. CASE Drop(g, u)
    BY <1>2, <2>1, <2>4 DEF Drop, RosterTypeOK
  <2> QED BY <1>2, <2>2, <2>3, <2>4
<1>4. Stable
  BY <1>1, <1>3 DEF Stable
<1>5. RecordsOK'
  BY <1>1 DEF IInv, RecordsOK, GoodExpenses, IsExpense, Balanced
<1>6. ASSUME NEW r \in Requests PROVE RequestOK(r)'
  BY <1>1, <1>4, OthersKeep DEF IInv
<1>7. Slots' /\ ReportsBalance'
  BY <1>1 DEF IInv, Slots, ReportsBalance, Silence, Status
<1> QED BY <1>3, <1>5, <1>6, <1>7 DEF IInv

\* Every step keeps the invariant.
LEMMA NextKeeps == IInv /\ [Next]_vars => IInv'
<1> SUFFICES ASSUME IInv, [Next]_vars PROVE IInv'
  OBVIOUS
<1>1. CASE RosterChanges
  BY <1>1, RosterKeeps
<1>2. ASSUME NEW r \in Requests, NEW c \in Calls, Receive(r, c) PROVE IInv'
  BY <1>2, ReceiveKeeps
<1>3. ASSUME NEW r \in Requests, ValidateExpense(r) \/ InsertExpense(r) PROVE IInv'
  BY <1>3, ValidateExpenseKeeps, InsertExpenseKeeps
<1>4. ASSUME NEW r \in Requests, ValidateSettlement(r) \/ InsertSettlement(r) PROVE IInv'
  BY <1>4, ValidateSettlementKeeps, InsertSettlementKeeps
<1>5. ASSUME NEW r \in Requests, FindExpense(r) \/ CheckRole(r) \/ MarkDeleted(r) PROVE IInv'
  BY <1>5, FindExpenseKeeps, CheckRoleKeeps, MarkDeletedKeeps
<1>6. ASSUME NEW r \in Requests, ReadMembers(r) \/ ReadExpenses(r) \/ Report(r) PROVE IInv'
  BY <1>6, ReadMembersKeeps, ReadExpensesKeeps, ReportKeeps
<1>7. ASSUME NEW r \in Requests, Abort(r) PROVE IInv'
  BY <1>7, AnswerKeeps DEF Abort, Silence
<1>8. CASE UNCHANGED vars
  <2>1. /\ UNCHANGED <<founder, roster, expenses, settlements, nextId, pc, call, seen, reply>>
    BY <1>8 DEF vars, rosterVars, ledger, request
  <2> QED BY <2>1 DEF IInv, RosterTypeOK, RecordsOK, GoodExpenses, IsExpense, Balanced, Slots,
                      RequestOK, MayDelete, About, ReportsBalance
<1> QED BY <1>1, <1>2, <1>3, <1>4, <1>5, <1>6, <1>7, <1>8 DEF Next

\* It holds when the system starts.
LEMMA InitOK == Init => IInv
<1> SUFFICES ASSUME Init PROVE IInv
  OBVIOUS
<1>1. GoodExpenses({}) /\ IsFiniteSet({})
  BY FS_EmptySet DEF GoodExpenses
<1>2. RosterTypeOK
  BY DEF Init, RosterInit, RosterTypeOK
<1>3. RecordsOK
  BY <1>1, BoundsAssumption DEF Init, RecordsOK
<1>4. Slots /\ ReportsBalance
  BY DEF Init, Slots, ReportsBalance, Silence, Status
<1>5. ASSUME NEW r \in Requests PROVE RequestOK(r)
  BY <1>1 DEF Init, RequestOK, Steps, NoCall, Unread
<1> QED BY <1>2, <1>3, <1>4, <1>5 DEF IInv

\* The steps above, put together.
LEMMA Inductive == Spec => []IInv
BY InitOK, NextKeeps, PTL DEF Spec

-------------------------------------------------------------------------------
(* The theorems *)

\* Every variable keeps its type, whatever is recorded, deleted or read.
THEOREM TypeCorrect == Spec => []TypeOK
<1>1. IInv => TypeOK
  BY DEF IInv, TypeOK, RecordsOK, GoodExpenses, Slots, RequestOK
<1> QED BY <1>1, Inductive, PTL

\* The conservation law of the balance tests, for every group and at every moment.
THEOREM BalancesConserved == Spec => []Conservation
<1>1. IInv => Conservation
  <2> SUFFICES ASSUME IInv, NEW g \in Groups
               PROVE  SumFunction(Net(Live(g), Settled(g))) = 0
    BY DEF Conservation
  <2>1. GoodExpenses(Live(g))
    BY FS_Subset DEF IInv, RecordsOK, GoodExpenses, Live
  <2>2. IsFiniteSet(Settled(g)) /\ Settled(g) \in SUBSET Settlement
    BY FS_Subset DEF IInv, RecordsOK, Settled
  <2>3. Sum(Net(Live(g), Settled(g)), Users) = 0
    BY <2>1, <2>2, NetNeutral
  <2>4. DOMAIN Net(Live(g), Settled(g)) = Users
    BY DEF Net
  <2> QED BY <2>3, <2>4, SumOfFunction
<1> QED BY <1>1, Inductive, PTL

\* A report that get_group_balances answers with 200 is balanced, although it is
\* put together from three separate reads.
THEOREM AnsweredReportsBalance == Spec => []ReportsBalance
<1>1. IInv => ReportsBalance
  BY DEF IInv
<1> QED BY <1>1, Inductive, PTL

\* The only steps that touch the tables add a row or mark one as deleted.
LEMMA TableSteps ==
  ASSUME [Next]_vars
  PROVE  \/ expenses' = expenses /\ settlements \subseteq settlements'
         \/ expenses \subseteq expenses' /\ settlements' = settlements
         \/ \E r \in Requests : MarkDeleted(r) /\ settlements' = settlements
<1>1. CASE RosterChanges \/ UNCHANGED vars
  BY <1>1 DEF RosterChanges, vars, ledger
<1>2. ASSUME NEW r \in Requests, \/ \E c \in Calls : Receive(r, c)
                                \/ ValidateExpense(r) \/ ValidateSettlement(r)
                                \/ FindExpense(r) \/ CheckRole(r)
                                \/ ReadMembers(r) \/ ReadExpenses(r) \/ Report(r)
                                \/ Abort(r)
      PROVE  UNCHANGED ledger
  BY <1>2 DEF Receive, ValidateExpense, ValidateSettlement, FindExpense, CheckRole,
              ReadMembers, ReadExpenses, Report, Abort
<1>3. ASSUME NEW r \in Requests, InsertExpense(r)
      PROVE  expenses \subseteq expenses' /\ settlements' = settlements
  BY <1>3 DEF InsertExpense, ledger
<1>4. ASSUME NEW r \in Requests, InsertSettlement(r)
      PROVE  expenses' = expenses /\ settlements \subseteq settlements'
  BY <1>4 DEF InsertSettlement, ledger
<1>5. ASSUME NEW r \in Requests, MarkDeleted(r) PROVE settlements' = settlements
  BY <1>5 DEF MarkDeleted
<1>6. CASE \E r \in Requests : \E c \in Calls : Receive(r, c)
  BY <1>2, <1>6 DEF ledger
<1> QED BY <1>1, <1>2, <1>3, <1>4, <1>5, <1>6 DEF Next, ledger

\* Nothing recorded is lost or rewritten, and a deletion is never undone.
THEOREM HistoryIsKept == Spec => HistoryKept
<1>1. IInv /\ [Next]_vars
        => [(\A e \in expenses : Outlives(e)) /\ settlements \subseteq settlements']_vars
  <2> SUFFICES ASSUME IInv, [Next]_vars
               PROVE  (\A e \in expenses : Outlives(e)) /\ settlements \subseteq settlements'
    OBVIOUS
  <2>1. \A e \in expenses : /\ IsExpense(e)
                            /\ e = [e EXCEPT !.deleted = e.deleted]
    BY DEF IInv, RecordsOK, GoodExpenses, IsExpense
  <2>2. CASE expenses \subseteq expenses' /\ settlements \subseteq settlements'
    BY <2>1, <2>2 DEF Outlives
  <2>3. ASSUME NEW r \in Requests, MarkDeleted(r), settlements' = settlements
        PROVE  \A e \in expenses : Outlives(e)
    <3> SUFFICES ASSUME NEW e \in expenses PROVE Outlives(e)
      OBVIOUS
    <3>1. PICK f \in expenses' :
             f = IF e.id = call[r].id THEN [e EXCEPT !.deleted = TRUE] ELSE e
      BY <2>3, MarkedRecords DEF MarkDeleted, IInv, RecordsOK
    <3>2. CASE e.id # call[r].id
      BY <2>1, <3>1, <3>2 DEF Outlives
    <3>3. CASE e.id = call[r].id
      <4>1. f.deleted = TRUE /\ f = [e EXCEPT !.deleted = TRUE]
        BY <2>1, <3>1, <3>3, DeletedRow DEF IInv, RecordsOK, GoodExpenses
      <4> QED BY <3>1, <4>1 DEF Outlives
    <3> QED BY <3>2, <3>3
  <2> QED BY <2>2, <2>3, TableSteps
<1> QED BY <1>1, Inductive, PTL DEF Spec, HistoryKept

\* An expense is deleted only for its creator or the admin of its own group, even
\* though the right to delete was checked in earlier statements.
THEOREM DeletionsAreAuthorised == Spec => DeletionsAuthorised
<1>1. IInv /\ [Next]_vars
        => [\A e \in expenses : ~e.deleted /\ e \notin expenses'
              => \E r \in Requests : Deletes(r, e)]_vars
  <2> SUFFICES ASSUME IInv, [Next]_vars, NEW e \in expenses, ~e.deleted, e \notin expenses'
               PROVE  \E r \in Requests : Deletes(r, e)
    OBVIOUS
  <2>1. PICK r \in Requests : MarkDeleted(r)
    BY TableSteps
  <2>2. e.id = call[r].id
    <3>1. PICK f \in expenses' :
             f = IF e.id = call[r].id THEN [e EXCEPT !.deleted = TRUE] ELSE e
      BY <2>1, MarkedRecords DEF MarkDeleted, IInv, RecordsOK
    <3> QED BY <3>1
  <2>3. PICK d \in expenses : MayDelete(call[r], d)
    BY <2>1 DEF MarkDeleted, IInv, RequestOK
  <2>4. d = e
    BY <2>2, <2>3 DEF MayDelete, About, IInv, RecordsOK
  <2>5. pc[r] = "mark" /\ pc'[r] = "idle"
    BY <2>1 DEF MarkDeleted, Answer, Respond, IInv, Slots
  <2> QED BY <2>2, <2>3, <2>4, <2>5 DEF Deletes, MayDelete
<1> QED BY <1>1, Inductive, PTL DEF Spec, DeletionsAuthorised

-------------------------------------------------------------------------------
(* The ledger implements Books *)

\* Every expense recorded moves what the form it came from moves.
MovesOf(e) == [u \in Users |-> ExpenseEffect(e, u)]
FromForms  == \A e \in expenses : MovesOf(e) \in Moves
BInv == IInv /\ FromForms

\* A sum over one element more.
LEMMA SumAdd ==
  ASSUME NEW S, IsFiniteSet(S), NEW x, x \notin S, NEW f, NEW h,
         DOMAIN f = S, DOMAIN h = S \cup {x},
         \A y \in S : f[y] \in Int /\ h[y] = f[y], h[x] \in Int
  PROVE  SumFunction(h) = SumFunction(f) + h[x] /\ SumFunction(f) \in Int
<1>1. Sum(h, S \cup {x}) = h[x] + Sum(h, S)
  <2>1. \A y \in S \cup {x} : h[y] \in Int
    OBVIOUS
  <2> QED BY <2>1, SumInsert
<1>2. Sum(h, S) = Sum(f, S) /\ Sum(f, S) \in Int
  BY SumSame, SumInt
<1> QED BY <1>1, <1>2, SumOfFunction

\* What one more live expense adds to what was spent.
LEMMA OneMoreExpense ==
  ASSUME NEW E, GoodExpenses(E), NEW e, e \notin E, IsExpense(e), Balanced(e), NEW u \in Users
  PROVE  /\ SumFunction([x \in E |-> ExpenseEffect(x, u)]) \in Int /\ ExpenseEffect(e, u) \in Int
         /\ SumFunction([x \in E \cup {e} |-> ExpenseEffect(x, u)])
              = SumFunction([x \in E |-> ExpenseEffect(x, u)]) + ExpenseEffect(e, u)
<1> DEFINE f == [x \in E |-> ExpenseEffect(x, u)]
           h == [x \in E \cup {e} |-> ExpenseEffect(x, u)]
<1>1. \A x \in E \cup {e} : ExpenseEffect(x, u) \in Int
  <2> SUFFICES ASSUME NEW x \in E \cup {e} PROVE ExpenseEffect(x, u) \in Int
    OBVIOUS
  <2>1. IsExpense(x) /\ Balanced(x)
    BY DEF GoodExpenses
  <2>2. [v \in Users |-> ExpenseEffect(x, v)][u] \in Int
    BY <2>1, ExpenseNeutral
  <2> QED BY <2>2
<1>2. /\ IsFiniteSet(E) /\ DOMAIN f = E /\ DOMAIN h = E \cup {e}
      /\ h[e] = ExpenseEffect(e, u)
      /\ \A x \in E : f[x] = ExpenseEffect(x, u) /\ h[x] = f[x]
  BY DEF GoodExpenses
<1>3. h[e] \in Int /\ \A x \in E : f[x] \in Int
  BY <1>1, <1>2
<1> HIDE DEF f, h
<1>4. SumFunction(h) = SumFunction(f) + h[e] /\ SumFunction(f) \in Int
  BY <1>2, <1>3, SumAdd
<1> QED BY <1>1, <1>2, <1>4 DEF f, h

\* What one more settlement adds to what was paid.
LEMMA OneMoreSettlement ==
  ASSUME NEW S, IsFiniteSet(S), S \in SUBSET Settlement, NEW s \in Settlement, s \notin S,
         NEW u \in Users
  PROVE  /\ SumFunction([x \in S |-> SettlementEffect(x, u)]) \in Int
         /\ SumFunction([x \in S \cup {s} |-> SettlementEffect(x, u)])
              = SumFunction([x \in S |-> SettlementEffect(x, u)]) + SettlementEffect(s, u)
<1> DEFINE f == [x \in S |-> SettlementEffect(x, u)]
           h == [x \in S \cup {s} |-> SettlementEffect(x, u)]
<1>1. \A x \in S \cup {s} : SettlementEffect(x, u) \in Int
  <2> SUFFICES ASSUME NEW x \in Settlement PROVE SettlementEffect(x, u) \in Int
    OBVIOUS
  <2>1. [v \in Users |-> SettlementEffect(x, v)][u] \in Int
    BY SettlementNeutral
  <2> QED BY <2>1
<1>2. /\ DOMAIN f = S /\ DOMAIN h = S \cup {s} /\ h[s] = SettlementEffect(s, u)
      /\ \A x \in S : f[x] = SettlementEffect(x, u) /\ h[x] = f[x]
  OBVIOUS
<1>3. h[s] \in Int /\ \A x \in S : f[x] \in Int
  BY <1>1, <1>2
<1> HIDE DEF f, h
<1>4. SumFunction(h) = SumFunction(f) + h[s] /\ SumFunction(f) \in Int
  BY <1>2, <1>3, SumAdd
<1> QED BY <1>2, <1>4 DEF f, h

\* Tables that stay the same leave the books as they are.
LEMMA SameBooks ==
  ASSUME NEW g
  PROVE  /\ Live(g)' = Live(g) => Spent(g)' = Spent(g)
         /\ settlements' = settlements => Paid(g)' = Paid(g)
<1>1. ASSUME Live(g)' = Live(g) PROVE Spent(g)' = Spent(g)
  BY <1>1 DEF Spent
<1>2. ASSUME settlements' = settlements PROVE Paid(g)' = Paid(g)
  BY <1>2 DEF Paid, Settled
<1> QED BY <1>1, <1>2

\* The books with one group's balances changed.
LEMMA OneGroup ==
  ASSUME NEW a, NEW b, a = [h \in Groups |-> a[h]], b = [h \in Groups |-> b[h]],
         NEW g \in Groups, NEW column, b[g] = column,
         \A h \in Groups \ {g} : b[h] = a[h]
  PROVE  b = [a EXCEPT ![g] = column]
OBVIOUS

\* create_expense moves the books by the form it inserts.
LEMMA InsertSpends ==
  ASSUME BInv, NEW r \in Requests, InsertExpense(r), expenses' # expenses
  PROVE  /\ FromForms'
         /\ \E g \in Groups, move \in Moves : Kept!Spend(g, move)
<1>1. /\ expenses' = expenses \cup {NewExpense(call[r])}
      /\ UNCHANGED <<founder, roster, settlements>>
      /\ call[r].op = "expense" /\ pc[r] = "insert"
  BY DEF InsertExpense, ledger, rosterVars
<1>2. PICK c \in ExpenseCall : c = call[r]
  BY <1>1, CallKinds DEF BInv, IInv, RequestOK
<1>3. PICK g \in Groups : g = c.group
  BY DEF ExpenseCall
<1>4. PICK move \in Moves : move = Move(c.form)
  <2>1. SumFunction(c.form.paid) = c.form.total /\ Accepts(c.form.total, c.form.kind, c.form.value)
    BY <1>1, <1>2 DEF BInv, IInv, RequestOK
  <2>2. c.form \in Forms
    BY DEF ExpenseCall
  <2> QED BY <2>1, <2>2 DEF Moves
<1>5. PICK e : e = NewExpense(c)
  OBVIOUS
<1>6. /\ e.id = nextId /\ e.group = g /\ e.deleted = FALSE /\ e.paid = c.form.paid
      /\ e.owed = Shares(c.form.total, c.form.kind, c.form.value, c.form.last)
  BY <1>3, <1>5 DEF NewExpense
<1>7. \A u \in Users : move[u] = ExpenseEffect(e, u)
  BY <1>4, <1>6 DEF Move, ExpenseEffect
<1>8. MovesOf(e) = move
  <2>1. move = [u \in Users |-> move[u]]
    BY <1>4 DEF Move
  <2> QED BY <1>7, <2>1 DEF MovesOf
<1>9. expenses' = expenses \cup {e}
  BY <1>1, <1>2, <1>5
<1>10. FromForms'
  BY <1>8, <1>9 DEF FromForms, BInv, MovesOf
<1>11. e \notin expenses
  <2>1. \A f \in expenses : f.id \in Int /\ f.id < nextId
    BY DEF BInv, IInv, RecordsOK, GoodExpenses, IsExpense
  <2> QED BY <1>6, <2>1
<1>12. Live(g)' = Live(g) \cup {e} /\ e \notin Live(g)
  BY <1>6, <1>9, <1>11 DEF Live
<1>13. ASSUME NEW h \in Groups, h # g PROVE Spent(h)' = Spent(h)
  <2>1. Live(h)' = Live(h)
    BY <1>6, <1>9, <1>13 DEF Live
  <2> QED BY <2>1, SameBooks
<1>14. GoodExpenses(Live(g)) /\ IsExpense(e) /\ Balanced(e)
  <2>1. GoodExpenses(Live(g))
    BY FS_Subset DEF BInv, IInv, RecordsOK, GoodExpenses, Live
  <2>2. GoodExpenses(expenses')
    BY InsertExpenseKeeps DEF BInv, IInv, RecordsOK
  <2> QED BY <1>9, <2>1, <2>2 DEF GoodExpenses
<1>15. Spent(g)' = [u \in Users |-> Spent(g)[u] + move[u]]
  <2>1. ASSUME NEW u \in Users PROVE Spent(g)'[u] = Spent(g)[u] + move[u]
    <3>1. Spent(g)[u] = SumFunction([x \in Live(g) |-> ExpenseEffect(x, u)])
      BY DEF Spent
    <3>2. Spent(g)'[u] = SumFunction([x \in Live(g) \cup {e} |-> ExpenseEffect(x, u)])
      BY <1>12 DEF Spent
    <3>3. SumFunction([x \in Live(g) \cup {e} |-> ExpenseEffect(x, u)])
            = SumFunction([x \in Live(g) |-> ExpenseEffect(x, u)]) + ExpenseEffect(e, u)
      BY <1>12, <1>14, OneMoreExpense
    <3> QED BY <1>7, <3>1, <3>2, <3>3
  <2>2. Spent(g)' = [u \in Users |-> Spent(g)'[u]]
    BY DEF Spent
  <2> QED BY <2>1, <2>2
<1>16. Kept!Spend(g, move)
  <2>1. \A h \in Groups : Paid(h)' = Paid(h)
    BY <1>1, SameBooks
  <2> DEFINE a == [h \in Groups |-> Spent(h)]
             b == [h \in Groups |-> Spent(h)']
  <2>2. b = [a EXCEPT ![g] = [u \in Users |-> a[g][u] + move[u]]]
    <3>1. b[g] = [u \in Users |-> a[g][u] + move[u]] /\ \A h \in Groups \ {g} : b[h] = a[h]
      BY <1>13, <1>15
    <3>2. a = [h \in Groups |-> a[h]] /\ b = [h \in Groups |-> b[h]]
      OBVIOUS
    <3> HIDE DEF a, b
    <3> QED BY <3>1, <3>2, OneGroup
  <2> QED BY <1>1, <2>1, <2>2 DEF Kept!Spend, Kept!rosterVars
<1> QED BY <1>10, <1>16

\* delete_expense takes the move of the expense back, or changes nothing when the
\* expense was deleted before.
LEMMA DeleteRefunds ==
  ASSUME BInv, NEW r \in Requests, MarkDeleted(r), expenses' # expenses
  PROVE  /\ FromForms'
         /\ \E g \in Groups, move \in Moves : Kept!Refund(g, move)
<1>1. PICK id : id = call[r].id
  OBVIOUS
<1>2. /\ expenses' = WithDeleted(expenses, id)
      /\ UNCHANGED <<founder, roster, settlements>>
  BY <1>1 DEF MarkDeleted, rosterVars
<1>3. GoodExpenses(expenses) /\ \A a, b \in expenses : a.id = b.id => a = b
  BY DEF BInv, IInv, RecordsOK
<1>4. \A f \in expenses : f.deleted => [f EXCEPT !.deleted = TRUE] = f
  BY <1>3 DEF GoodExpenses, IsExpense
<1>5. PICK e \in expenses : e.id = id /\ ~e.deleted
  <2>1. ASSUME \A f \in expenses : f.id = id => f.deleted PROVE WithDeleted(expenses, id) = expenses
    <3>1. \A f \in expenses : (IF f.id = id THEN [f EXCEPT !.deleted = TRUE] ELSE f) = f
      BY <1>4, <2>1
    <3>2. WithDeleted(expenses, id) = {f : f \in expenses}
      BY <3>1, Zenon DEF WithDeleted
    <3> QED BY <3>2
  <2> QED BY <1>2, <2>1
<1>6. PICK d : d = [e EXCEPT !.deleted = TRUE]
  OBVIOUS
<1>7. /\ IsExpense(e) /\ Balanced(e) /\ d.id = id /\ d.group = e.group /\ d.deleted = TRUE
      /\ d.paid = e.paid /\ d.owed = e.owed
  <2>1. IsExpense(e) /\ Balanced(e)
    BY <1>3 DEF GoodExpenses
  <2>2. e = [id |-> e.id, group |-> e.group, creator |-> e.creator, paid |-> e.paid,
             owed |-> e.owed, deleted |-> e.deleted]
    BY <2>1 DEF IsExpense
  <2> QED BY <1>5, <1>6, <2>1, <2>2, DeletedRow
<1>8. expenses' = (expenses \ {e}) \cup {d}
  BY <1>2, <1>3, <1>5, <1>6 DEF WithDeleted
<1>9. PICK g \in Groups : g = e.group
  BY <1>7 DEF IsExpense
<1>10. PICK move \in Moves : move = MovesOf(e)
  BY DEF BInv, FromForms
<1>11. FromForms'
  <2>1. MovesOf(d) = MovesOf(e)
    BY <1>7 DEF MovesOf, ExpenseEffect
  <2> QED BY <1>8, <1>10, <2>1 DEF FromForms, BInv, MovesOf
<1>12. PICK E : E = Live(g) \ {e}
  OBVIOUS
<1>13. Live(g)' = E /\ Live(g) = E \cup {e} /\ e \notin E
  BY <1>5, <1>7, <1>8, <1>9, <1>12 DEF Live
<1>14. GoodExpenses(E)
  BY <1>3, <1>12, FS_Subset DEF GoodExpenses, Live
<1>15. ASSUME NEW h \in Groups, h # g PROVE Spent(h)' = Spent(h)
  <2>1. Live(h)' = Live(h)
    BY <1>7, <1>8, <1>9, <1>15 DEF Live
  <2> QED BY <2>1, SameBooks
<1>16. Spent(g)' = [u \in Users |-> Spent(g)[u] - move[u]]
  <2>1. ASSUME NEW u \in Users PROVE Spent(g)'[u] = Spent(g)[u] - move[u]
    <3>1. Spent(g)[u] = SumFunction([x \in E \cup {e} |-> ExpenseEffect(x, u)])
      BY <1>13 DEF Spent
    <3>2. Spent(g)'[u] = SumFunction([x \in E |-> ExpenseEffect(x, u)])
      BY <1>13 DEF Spent
    <3>3. move[u] = ExpenseEffect(e, u)
      BY <1>10 DEF MovesOf
    <3>4. /\ Spent(g)'[u] \in Int /\ move[u] \in Int
          /\ Spent(g)[u] = Spent(g)'[u] + move[u]
      <4>1. /\ SumFunction([x \in E |-> ExpenseEffect(x, u)]) \in Int /\ ExpenseEffect(e, u) \in Int
            /\ SumFunction([x \in E \cup {e} |-> ExpenseEffect(x, u)])
                 = SumFunction([x \in E |-> ExpenseEffect(x, u)]) + ExpenseEffect(e, u)
        BY <1>7, <1>13, <1>14, OneMoreExpense
      <4> QED BY <3>1, <3>2, <3>3, <4>1
    <3>5. \A x, y, z \in Int : x = y + z => y = x - z
      OBVIOUS
    <3> QED BY <3>4, <3>5
  <2>2. Spent(g)' = [u \in Users |-> Spent(g)'[u]]
    BY DEF Spent
  <2> QED BY <2>1, <2>2
<1>17. Kept!Refund(g, move)
  <2>1. \A h \in Groups : Paid(h)' = Paid(h)
    BY <1>2, SameBooks
  <2> DEFINE a == [h \in Groups |-> Spent(h)]
             b == [h \in Groups |-> Spent(h)']
  <2>2. b = [a EXCEPT ![g] = [u \in Users |-> a[g][u] - move[u]]]
    <3>1. b[g] = [u \in Users |-> a[g][u] - move[u]] /\ \A h \in Groups \ {g} : b[h] = a[h]
      BY <1>15, <1>16
    <3>2. a = [h \in Groups |-> a[h]] /\ b = [h \in Groups |-> b[h]]
      OBVIOUS
    <3> HIDE DEF a, b
    <3> QED BY <3>1, <3>2, OneGroup
  <2> QED BY <1>2, <2>1, <2>2 DEF Kept!Refund, Kept!rosterVars
<1> QED BY <1>11, <1>17

\* create_settlement moves its amount from the receiver to the payer.
LEMMA InsertPays ==
  ASSUME BInv, NEW r \in Requests, InsertSettlement(r), settlements' # settlements
  PROVE  \E g \in Groups, payer, receiver \in Users, amount \in Amounts :
           Kept!Pay(g, payer, receiver, amount)
<1>1. /\ settlements' = settlements \cup
           {[id |-> nextId, group |-> call[r].group, payer |-> call[r].user,
             receiver |-> call[r].receiver, amount |-> call[r].amount]}
      /\ UNCHANGED <<founder, roster, expenses>>
      /\ nextId <= MaxRecords
      /\ call[r].op = "settlement" /\ pc[r] = "insert"
  BY DEF InsertSettlement, ledger, rosterVars
<1>2. PICK c \in SettlementCall : c = call[r]
  BY <1>1, CallKinds DEF BInv, IInv, RequestOK
<1>3. PICK g \in Groups, payer \in Users, receiver \in Users, amount \in Amounts :
         /\ g = c.group /\ payer = c.user /\ receiver = c.receiver /\ amount = c.amount
  BY DEF SettlementCall
<1>4. payer # receiver
  BY <1>1, <1>2, <1>3 DEF BInv, IInv, RequestOK
<1>5. PICK s : s = [id |-> nextId, group |-> g, payer |-> payer, receiver |-> receiver,
                    amount |-> amount]
  OBVIOUS
<1>6. s \in Settlement /\ settlements' = settlements \cup {s} /\ s.group = g
  BY <1>1, <1>2, <1>3, <1>5, BoundsAssumption DEF Settlement, BInv, IInv, RecordsOK
<1>7. s \notin settlements
  BY <1>1, <1>6
<1>8. Settled(g)' = Settled(g) \cup {s} /\ s \notin Settled(g)
  BY <1>6, <1>7 DEF Settled
<1>9. ASSUME NEW h \in Groups, h # g PROVE Paid(h)' = Paid(h)
  <2>1. Settled(h)' = Settled(h)
    BY <1>6, <1>9 DEF Settled
  <2> QED BY <2>1 DEF Paid
<1>10. IsFiniteSet(Settled(g)) /\ Settled(g) \in SUBSET Settlement
  BY FS_Subset DEF BInv, IInv, RecordsOK, Settled
<1>11. \A u \in Users : Paid(g)[u] \in Int /\ Paid(g)'[u] = Paid(g)[u] + SettlementEffect(s, u)
  <2> SUFFICES ASSUME NEW u \in Users
               PROVE  Paid(g)[u] \in Int /\ Paid(g)'[u] = Paid(g)[u] + SettlementEffect(s, u)
    OBVIOUS
  <2>1. Paid(g)[u] = SumFunction([x \in Settled(g) |-> SettlementEffect(x, u)])
    BY DEF Paid
  <2>2. Paid(g)'[u] = SumFunction([x \in Settled(g) \cup {s} |-> SettlementEffect(x, u)])
    BY <1>8 DEF Paid
  <2>3. /\ SumFunction([x \in Settled(g) |-> SettlementEffect(x, u)]) \in Int
        /\ SumFunction([x \in Settled(g) \cup {s} |-> SettlementEffect(x, u)])
             = SumFunction([x \in Settled(g) |-> SettlementEffect(x, u)]) + SettlementEffect(s, u)
    BY <1>6, <1>8, <1>10, OneMoreSettlement
  <2> QED BY <2>1, <2>2, <2>3
<1>12. /\ amount \in Int
       /\ \A u \in Users : SettlementEffect(s, u) =
            IF u = payer THEN amount ELSE IF u = receiver THEN -amount ELSE 0
  BY <1>4, <1>5, AmountsAssumption DEF SettlementEffect
<1>13. Paid(g)' = [Paid(g) EXCEPT ![payer] = @ + amount, ![receiver] = @ - amount]
  <2> DEFINE a == Paid(g)
             b == Paid(g)'
  <2>1. a = [u \in Users |-> a[u]] /\ b = [u \in Users |-> b[u]]
    BY DEF Paid
  <2>2. \A u \in Users : /\ a[u] \in Int
                         /\ b[u] = a[u] + IF u = payer THEN amount
                                          ELSE IF u = receiver THEN -amount ELSE 0
    BY <1>11, <1>12
  <2> HIDE DEF a, b
  <2>3. b = [a EXCEPT ![payer] = @ + amount, ![receiver] = @ - amount]
    BY <1>4, <1>12, <2>1, <2>2
  <2> QED BY <2>3 DEF a, b
<1>14. Kept!Pay(g, payer, receiver, amount)
  <2>1. \A h \in Groups : Spent(h)' = Spent(h)
    BY <1>1 DEF Spent, Live
  <2> DEFINE a == [h \in Groups |-> Paid(h)]
             b == [h \in Groups |-> Paid(h)']
  <2>2. b = [a EXCEPT ![g][payer] = a[g][payer] + amount, ![g][receiver] = a[g][receiver] - amount]
    <3>1. /\ b[g] = [a[g] EXCEPT ![payer] = @ + amount, ![receiver] = @ - amount]
          /\ \A h \in Groups \ {g} : b[h] = a[h]
      BY <1>9, <1>13
    <3>2. a = [h \in Groups |-> a[h]] /\ b = [h \in Groups |-> b[h]]
      OBVIOUS
    <3>3. a[g] = [u \in Users |-> a[g][u]]
      BY DEF Paid
    <3> HIDE DEF a, b
    <3>4. b = [a EXCEPT ![g] = [a[g] EXCEPT ![payer] = @ + amount, ![receiver] = @ - amount]]
      BY <3>1, <3>2, OneGroup
    <3> QED BY <1>4, <3>2, <3>3, <3>4
  <2> QED BY <1>1, <1>4, <2>1, <2>2 DEF Kept!Pay, Kept!rosterVars
<1> QED BY <1>14

\* The books and rosters of the other specification.
bookVars == <<Kept!rosterVars, Kept!books>>

\* Tables that stay the same leave all the books as they are.
LEMMA BooksStay ==
  ASSUME UNCHANGED <<expenses, settlements>>
  PROVE  UNCHANGED Kept!books
<1>1. \A g \in Groups : Spent(g)' = Spent(g) /\ Paid(g)' = Paid(g)
  BY DEF Spent, Paid, Live, Settled
<1> QED BY <1>1 DEF Kept!books

\* Every step of the ledger is a step of Books, or none, and keeps to the forms.
LEMMA StepImplementsBooks ==
  ASSUME BInv, [Next]_vars
  PROVE  FromForms' /\ [Kept!BooksNext]_bookVars
<1>1. CASE UNCHANGED <<founder, roster, expenses, settlements>>
  <2>1. FromForms'
    BY <1>1 DEF BInv, FromForms, MovesOf
  <2>2. UNCHANGED Kept!books
    BY <1>1, BooksStay
  <2> QED BY <1>1, <2>1, <2>2 DEF bookVars, Kept!rosterVars
<1>2. CASE RosterChanges
  <2>1. UNCHANGED <<expenses, settlements>>
    BY <1>2 DEF RosterChanges, ledger
  <2>2. FromForms'
    BY <2>1 DEF BInv, FromForms, MovesOf
  <2>3. UNCHANGED Kept!books
    BY <2>1, BooksStay
  <2>4. Kept!RosterNext
    BY <1>2 DEF RosterChanges, RosterNext, Found, Admit, Drop,
                Kept!RosterNext, Kept!Found, Kept!Admit, Kept!Drop
  <2> QED BY <2>2, <2>3, <2>4 DEF Kept!BooksNext
<1>3. ASSUME NEW r \in Requests, InsertExpense(r), expenses' # expenses
      PROVE  FromForms' /\ Kept!BooksNext
  BY <1>3, InsertSpends DEF Kept!BooksNext
<1>4. ASSUME NEW r \in Requests, MarkDeleted(r), expenses' # expenses
      PROVE  FromForms' /\ Kept!BooksNext
  BY <1>4, DeleteRefunds DEF Kept!BooksNext
<1>5. ASSUME NEW r \in Requests, InsertSettlement(r), settlements' # settlements
      PROVE  FromForms' /\ Kept!BooksNext
  <2>1. FromForms'
    <3>1. expenses' = expenses
      BY <1>5 DEF InsertSettlement, ledger
    <3> QED BY <3>1 DEF BInv, FromForms, MovesOf
  <2> QED BY <1>5, <2>1, InsertPays DEF Kept!BooksNext
<1>6. ASSUME NEW r \in Requests, InsertExpense(r) \/ MarkDeleted(r) \/ InsertSettlement(r)
      PROVE  \/ UNCHANGED <<founder, roster, expenses, settlements>>
             \/ (InsertExpense(r) \/ MarkDeleted(r)) /\ expenses' # expenses
             \/ InsertSettlement(r) /\ settlements' # settlements
  BY <1>6 DEF InsertExpense, MarkDeleted, InsertSettlement, ledger, rosterVars
<1>7. ASSUME NEW r \in Requests, \/ \E c \in Calls : Receive(r, c)
                                \/ ValidateExpense(r) \/ ValidateSettlement(r)
                                \/ FindExpense(r) \/ CheckRole(r)
                                \/ ReadMembers(r) \/ ReadExpenses(r) \/ Report(r)
                                \/ Abort(r)
      PROVE  UNCHANGED <<founder, roster, expenses, settlements>>
  BY <1>7 DEF Receive, ValidateExpense, ValidateSettlement, FindExpense, CheckRole,
              ReadMembers, ReadExpenses, Report, Abort, ledger, rosterVars
<1>8. CASE UNCHANGED vars
  BY <1>1, <1>8 DEF vars, ledger, rosterVars
<1> QED BY <1>1, <1>2, <1>3, <1>4, <1>5, <1>6, <1>7, <1>8 DEF Next

\* Seen from the tables, the money endpoints move the books of one group by one
\* record at a time, however they overlap: expenses, refunds of deleted expenses
\* and payments from one user to another.
THEOREM LedgerImplementsBooks == Spec => ImplementsBooks
<1>1. Init => Kept!BooksInit
  <2> SUFFICES ASSUME Init PROVE Kept!BooksInit
    OBVIOUS
  <2>1. Kept!RosterInit
    BY DEF Init, RosterInit, Kept!RosterInit
  <2>2. ASSUME NEW g \in Groups
        PROVE  Spent(g) = [u \in Users |-> 0] /\ Paid(g) = [u \in Users |-> 0]
    <3>1. Live(g) = {} /\ Settled(g) = {}
      BY DEF Init, Live, Settled
    <3>2. ASSUME NEW f, DOMAIN f = {} PROVE SumFunction(f) = 0
      BY <3>2, SumOfFunction, SumEmpty
    <3>3. ASSUME NEW u \in Users
          PROVE  /\ SumFunction([e \in {} |-> ExpenseEffect(e, u)]) = 0
                 /\ SumFunction([s \in {} |-> SettlementEffect(s, u)]) = 0
      BY <3>2
    <3> QED BY <3>1, <3>3 DEF Spent, Paid
  <2> QED BY <2>1, <2>2 DEF Kept!BooksInit, Kept!Square
<1>2. Init => BInv
  <2>1. Init => FromForms
    BY DEF Init, FromForms
  <2> QED BY <2>1, InitOK DEF BInv
<1>3. BInv /\ [Next]_vars => BInv' /\ [Kept!BooksNext]_bookVars
  BY NextKeeps, StepImplementsBooks DEF BInv
<1> QED BY <1>1, <1>2, <1>3, PTL DEF Spec, ImplementsBooks, Kept!BooksSpec, bookVars

-------------------------------------------------------------------------------
(* What the ledger guarantees to those who read it *)

\* What create_expense accepts moves whole cents between users and creates none:
\* the assumption on Moves that the weekly summary works under.
THEOREM MovesBalance == \A move \in Moves : move \in [Users -> Int] /\ SumFunction(move) = 0
<1> SUFFICES ASSUME NEW f \in Forms, SumFunction(f.paid) = f.total,
                    Accepts(f.total, f.kind, f.value)
             PROVE  Move(f) \in [Users -> Int] /\ SumFunction(Move(f)) = 0
  BY DEF Moves
<1> DEFINE e == [paid |-> f.paid, owed |-> Shares(f.total, f.kind, f.value, f.last)]
<1>1. ValidForm(f, Users) /\ IsFiniteSet(Users)
  BY FormsAssumption, UsersFinite
<1>2. /\ DOMAIN e.owed = DOMAIN f.value
      /\ \A u \in DOMAIN e.owed : e.owed[u] \in Nat
      /\ SumFunction(e.owed) = f.total
  BY <1>1, SharesLemma
<1>3. Entries(f.paid, Users) /\ Entries(f.value, Users)
  BY <1>1 DEF ValidForm
<1>4. \A h \in {e.paid, e.owed} : DOMAIN h \subseteq Users /\ \A u \in DOMAIN h : h[u] \in Nat
  BY <1>2, <1>3 DEF Entries
<1>5. Balanced(e)
  BY <1>2 DEF Balanced
<1>6. Move(f) = [u \in Users |-> ExpenseEffect(e, u)]
  BY DEF Move
<1> HIDE DEF e
<1>7. Move(f) \in [Users -> Int] /\ Sum(Move(f), Users) = 0
  BY <1>4, <1>5, <1>6, EffectNeutral
<1>8. SumFunction(Move(f)) = Sum(Move(f), DOMAIN Move(f))
  BY SumOfFunction
<1> QED BY <1>7, <1>8

\* The balances a report computes, of whoever is a member or was one.
ReportsHandOver ==
  [][\A r \in Requests :
       Report(r) => LET net == Net(seen[r].expenses, Settled(call[r].group))
                    IN  net \in [Users -> Int] /\ SumFunction(net) = 0]_vars

\* ReportsHandOver: whatever get_group_balances hands over to _simplify_debts adds
\* up to zero, even when it was read at three moments: DebtSimplification assumes no
\* more of its Nets.
THEOREM ReportsAreBalanced == Spec => ReportsHandOver
<1>1. IInv /\ [Next]_vars
        => [\A r \in Requests :
              Report(r) => LET net == Net(seen[r].expenses, Settled(call[r].group))
                           IN  net \in [Users -> Int] /\ SumFunction(net) = 0]_vars
  <2> SUFFICES ASSUME IInv, NEW r \in Requests
               PROVE  LET net == Net(seen[r].expenses, Settled(call[r].group))
                      IN  net \in [Users -> Int] /\ SumFunction(net) = 0
    OBVIOUS
  <2> DEFINE net == Net(seen[r].expenses, Settled(call[r].group))
  <2>1. GoodExpenses(seen[r].expenses)
    BY DEF IInv, RequestOK
  <2>2. /\ IsFiniteSet(Settled(call[r].group))
        /\ Settled(call[r].group) \in SUBSET Settlement
    BY FS_Subset DEF IInv, RecordsOK, Settled
  <2>3. (\A u \in Users : net[u] \in Int) /\ Sum(net, Users) = 0
    BY <2>1, <2>2, NetNeutral
  <2>4. net = [u \in Users |-> net[u]] /\ DOMAIN net = Users
    BY DEF Net
  <2> HIDE DEF net
  <2>5. SumFunction(net) = Sum(net, DOMAIN net)
    BY SumOfFunction
  <2>6. net \in [Users -> Int] /\ SumFunction(net) = 0
    BY <2>3, <2>4, <2>5
  <2> QED BY <2>6 DEF net
<1> QED BY <1>1, Inductive, PTL DEF Spec, ReportsHandOver
===============================================================================
