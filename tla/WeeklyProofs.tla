------------------------------ MODULE WeeklyProofs ------------------------------
(***************************************************************************)
(* What the weekly summary promises its readers, for any number of users   *)
(* and groups, any balanced books and any interleaving with the requests   *)
(* that change them.  The debts are those of the loop of _simplify_debts:  *)
(* what DebtProofs proves of it is used here, not proved again.            *)
(***************************************************************************)
EXTENDS WeeklySummary, MoneyLemmas

\* Balances of whole cents that add up to zero.
WholeNets == {net \in [Users -> Int] : /\ SumFunction(net) = 0
                                       /\ \A u \in Users : net[u] % Cent = 0}

\* The loop runs on what the task has read, and has returned when the task mails.
Loop == INSTANCE DebtProofs WITH Nets <- WholeNets,
                                 pc <- IF pc = "loop" THEN "loop" ELSE "return"

LoopInv == Loop!IInv /\ Loop!FlowInv

\* Spec without its fairness, which nothing here needs.
Safety == Init /\ [][Next]_vars

\* Books, and what the task has read of them, are balanced; the loop is where
\* DebtProofs says; whoever has been dealt with can be named and, unless settled,
\* has a mail.
WeeklyInv ==
  /\ WeeklyTypeOK
  /\ \A g \in Groups : spent[g] \in WholeNets /\ paid[g] \in WholeNets
  /\ expenses \in WholeNets
  /\ pc \notin {"loop", "mail"} => unmailed = {} /\ results = <<>>
  /\ pc \in {"loop", "mail"} => LoopInv
  /\ pc = "loop" => unmailed = loaded[group]
  /\ pc = "mail" => \A u \in loaded[group] \ unmailed : Named(u)
  /\ NobodyForgotten
  /\ MailAddsUp

-------------------------------------------------------------------------------
(* The loop of DebtSimplification in this module *)

\* What the task passes to the loop is what DebtProofs assumes of it.
LEMMA LoopAssumptions ==
  /\ Loop!IsFiniteSet(Users)
  /\ WholeNets \subseteq [Users -> Int]
  /\ \A net \in WholeNets : \A u \in Users : net[u] % Loop!Cent = 0
  /\ \A net \in WholeNets : Loop!SumFunction(net) = 0
<1>1. Loop!IsFiniteSet(Users)
  BY UsersFinite DEF IsFiniteSet, Loop!IsFiniteSet
<1>2. \A net : Loop!SumFunction(net) = SumFunction(net)
  BY DEF Loop!SumFunction, SumFunction, Loop!SumFunctionOnSet, SumFunctionOnSet,
         Loop!FoldFunctionOnSet, FoldFunctionOnSet, Loop!MapThenFoldSet, MapThenFoldSet
<1>3. Loop!Cent = Cent
  BY DEF Loop!Cent, Cent, Simplify!Cent
<1> QED BY <1>1, <1>2, <1>3 DEF WholeNets

\* Both instances of DebtSimplification add up alike.
LEMMA SameMoney == /\ \A f, S : Loop!Sum(f, S) = Sum(f, S)
                   /\ \A D : Loop!Total(D) = Total(D)
<1>1. \A f, S : Loop!SumFunctionOnSet(f, S) = SumFunctionOnSet(f, S)
  BY DEF Loop!SumFunctionOnSet, SumFunctionOnSet, Loop!FoldFunctionOnSet, FoldFunctionOnSet,
         Loop!MapThenFoldSet, MapThenFoldSet
<1>2. \A D : Loop!Total(D) = Simplify!Total(D)
  BY DEF Loop!Total, Simplify!Total, Loop!SumFunction, Simplify!SumFunction,
         Loop!SumFunctionOnSet, Simplify!SumFunctionOnSet,
         Loop!FoldFunctionOnSet, Simplify!FoldFunctionOnSet,
         Loop!MapThenFoldSet, Simplify!MapThenFoldSet
<1> QED BY <1>1, <1>2 DEF Loop!Sum, Sum, Total

\* Both take the same steps.
LEMMA SameLoop ==
  /\ \A b : Simplify!Significant(b) = Loop!Significant(b)
  /\ Simplify!Iterate => Loop!Iterate
  /\ Simplify!Finished => Loop!Finished
<1>1. \A b : Simplify!Abs(b) = Loop!Abs(b)
  BY DEF Loop!Abs, Simplify!Abs
<1>2. Simplify!Threshold = Loop!Threshold
  BY DEF Loop!Threshold, Simplify!Threshold
<1>3. \A b : Simplify!Significant(b) = Loop!Significant(b)
  BY <1>1, <1>2 DEF Loop!Significant, Simplify!Significant
<1>4. \A a, b : Simplify!SmallerSide(a, b) = Loop!SmallerSide(a, b)
  BY DEF Loop!SmallerSide, Simplify!SmallerSide
<1>5. \A b : Simplify!RoundDown(b) = Loop!RoundDown(b)
  BY DEF Loop!RoundDown, Simplify!RoundDown, Loop!Cent, Simplify!Cent
<1>6. \A b : Simplify!MaxOf(b) = Loop!MaxOf(b) /\ Simplify!MinOf(b) = Loop!MinOf(b)
  BY DEF Loop!MaxOf, Simplify!MaxOf, Loop!MinOf, Simplify!MinOf
<1>7. ASSUME NEW c, NEW d, pc = "loop", Simplify!Match(c, d)
      PROVE  Loop!Match(c, d)
  <2>1. pc' = "loop" /\ UNCHANGED net_balances
    BY <1>7 DEF Simplify!Match
  <2> QED BY <1>1, <1>2, <1>3, <1>4, <1>5, <1>7, <2>1 DEF Simplify!Match, Loop!Match
<1>8. Simplify!Iterate => Loop!Iterate
  BY <1>6, <1>7 DEF Simplify!Iterate, Loop!Iterate
<1>9. Simplify!Finished => Loop!Finished
  BY <1>1, <1>2, <1>6 DEF Simplify!Finished, Loop!Finished
<1> QED BY <1>3, <1>8, <1>9

\* The invariants of DebtProofs hold when the loop begins,
LEMMA LoopStarts == Loop!Init' => LoopInv'
<1>1. Loop!Init => LoopInv
  BY LoopAssumptions, Loop!InitInv, Loop!InitFlow DEF LoopInv
<1> QED BY <1>1, PTL

\* through every step of it,
LEMMA LoopRuns == LoopInv /\ SimplifyStep => LoopInv'
<1> SUFFICES ASSUME LoopInv, SimplifyStep PROVE LoopInv'
  OBVIOUS
<1>1. CASE Simplify!Iterate
  BY <1>1, SameLoop, LoopAssumptions, Loop!IterateInv, Loop!IterateFlow DEF LoopInv
<1>2. CASE ~Simplify!Iterate
  <2>1. /\ pc = "loop" /\ pc' = "mail" /\ Loop!Finished
        /\ UNCHANGED <<net_balances, balances, results>>
    BY <1>2, SameLoop DEF SimplifyStep
  <2>2. Loop!Return
    BY <2>1 DEF Loop!Return
  <2> QED BY <2>1, <2>2, LoopAssumptions, Loop!ReturnInv, Loop!StutterFlow DEF LoopInv
<1> QED BY <1>1, <1>2

\* and as long as nobody touches its variables.
LEMMA LoopRests == LoopInv /\ UNCHANGED <<pc, net_balances, balances, results>> => LoopInv'
<1> SUFFICES ASSUME LoopInv, UNCHANGED <<pc, net_balances, balances, results>> PROVE LoopInv'
  OBVIOUS
<1>1. UNCHANGED Loop!vars
  BY DEF Loop!vars
<1> QED BY <1>1, LoopAssumptions, Loop!StutterInv, Loop!StutterFlow DEF LoopInv

\* When it has returned, its debts are of whole cents, between two users each of
\* whom has a balance, and they explain the balances of any set of users.
LEMMA LoopReturned ==
  ASSUME LoopInv, pc = "mail"
  PROVE  /\ net_balances \in WholeNets
         /\ \A d \in Range(results) :
              /\ d.amount >= Cent /\ d.from # d.to
              /\ {d.from, d.to} \subseteq {u \in Users : net_balances[u] # 0}
         /\ \A some \in SUBSET Users :
              Sum(net_balances, some)
                = Total({d \in Range(results) : d.to \in some /\ d.from \notin some})
                    - Total({d \in Range(results) : d.from \in some /\ d.to \notin some})
<1>1. \A some \in SUBSET Users :
        Loop!Sum(net_balances, some) = Loop!Total(Loop!Into(some)) - Loop!Total(Loop!OutOf(some))
  BY LoopAssumptions, Loop!Explained DEF LoopInv
<1>2. \A f : Loop!Range(f) = Range(f)
  BY DEF Loop!Range, Range
<1>3. /\ net_balances \in WholeNets
      /\ results \in Seq(Loop!Debt) /\ Loop!Named \subseteq Loop!Unsettled
      /\ \A i \in DOMAIN results : results[i].amount > 0 /\ results[i].amount % 10 = 0
  BY DEF LoopInv, Loop!IInv, Loop!Cent
<1>4. \A d \in Range(results) : d.from # d.to
  BY <1>2 DEF LoopInv, Loop!FlowInv, Loop!Debts
<1>5. ASSUME NEW d \in Range(results)
      PROVE  d.amount >= Cent /\ {d.from, d.to} \subseteq {u \in Users : net_balances[u] # 0}
  <2>1. PICK i \in DOMAIN results : d = results[i]
    BY DEF Range
  <2>2. d \in Loop!Debt
    BY <1>3, <2>1
  <2>3. d.amount \in Nat /\ d.from \in Users /\ d.to \in Users
    BY <2>2 DEF Loop!Debt
  <2>4. d.amount >= 10
    BY <1>3, <2>1, <2>3
  <2>5. {d.from, d.to} \subseteq Loop!Named
    BY <2>1, <2>3 DEF Loop!Named
  <2> QED BY <1>3, <2>4, <2>5 DEF Loop!Unsettled, Cent, Simplify!Cent
<1> QED BY <1>1, <1>2, <1>3, <1>4, <1>5, SameMoney DEF Loop!Into, Loop!OutOf

-------------------------------------------------------------------------------
(* Balanced books *)

\* Whole cents that add up to zero, in terms of MoneyLemmas.
LEMMA WholeIs ==
  ASSUME NEW net
  PROVE  net \in WholeNets <=> /\ net \in [Users -> Int] /\ Sum(net, Users) = 0
                               /\ \A u \in Users : net[u] % 10 = 0
<1>1. net \in [Users -> Int] => SumFunction(net) = Sum(net, Users)
  <2> SUFFICES ASSUME net \in [Users -> Int] PROVE SumFunction(net) = Sum(net, DOMAIN net)
    OBVIOUS
  <2> QED BY SumOfFunction
<1> QED BY <1>1 DEF WholeNets, Cent, Simplify!Cent

\* Adding and subtracting balances.
LEMMA WholePlus ==
  ASSUME NEW f \in WholeNets, NEW g \in WholeNets
  PROVE  /\ [u \in Users |-> f[u] + g[u]] \in WholeNets
         /\ [u \in Users |-> f[u] - g[u]] \in WholeNets
<1> DEFINE plus  == [u \in Users |-> f[u] + g[u]]
           minus == [u \in Users |-> f[u] - g[u]]
<1>1. /\ f \in [Users -> Int] /\ Sum(f, Users) = 0 /\ \A u \in Users : f[u] % 10 = 0
      /\ g \in [Users -> Int] /\ Sum(g, Users) = 0 /\ \A u \in Users : g[u] % 10 = 0
  BY WholeIs
<1>2. ASSUME NEW u \in Users
      PROVE  /\ f[u] \in Int /\ g[u] \in Int /\ plus[u] = f[u] + g[u]
             /\ minus[u] \in Int /\ f[u] = minus[u] + g[u]
             /\ plus[u] % 10 = 0 /\ minus[u] % 10 = 0
  <2>1. f[u] \in Int /\ g[u] \in Int /\ f[u] % 10 = 0 /\ g[u] % 10 = 0
    BY <1>1
  <2>2. (f[u] + g[u]) % 10 = 0 /\ (f[u] - g[u]) % 10 = 0
    BY <2>1
  <2>3. plus[u] = f[u] + g[u] /\ minus[u] = f[u] - g[u]
    OBVIOUS
  <2> QED BY <2>1, <2>2, <2>3
<1>3. plus \in [Users -> Int] /\ minus \in [Users -> Int]
  <2>1. ASSUME NEW u \in Users PROVE f[u] + g[u] \in Int /\ f[u] - g[u] \in Int
    <3>1. f[u] \in Int /\ g[u] \in Int
      BY <1>1
    <3> QED BY <3>1
  <2> QED BY <2>1
<1>4. \A u \in Users : plus[u] % 10 = 0 /\ minus[u] % 10 = 0
  BY <1>2
<1> HIDE DEF plus, minus
<1>5. Sum(plus, Users) = Sum(f, Users) + Sum(g, Users)
  BY <1>2, UsersFinite, SumPlus
<1>6. Sum(f, Users) = Sum(minus, Users) + Sum(g, Users) /\ Sum(minus, Users) \in Int
  BY <1>2, UsersFinite, SumPlus, SumInt
<1>7. Sum(plus, Users) = 0 /\ Sum(minus, Users) = 0
  BY <1>1, <1>5, <1>6
<1> QED BY <1>3, <1>4, <1>7, WholeIs DEF plus, minus

\* A payment.
LEMMA WholeMoved ==
  ASSUME NEW f \in WholeNets, NEW p \in Users, NEW r \in Users, p # r, NEW a \in Amounts,
         NEW e \in [Users -> Int], e[p] = f[p] + a, e[r] = f[r] - a,
         \A u \in Users \ {p, r} : e[u] = f[u]
  PROVE  e \in WholeNets
<1>1. f \in [Users -> Int] /\ Sum(f, Users) = 0 /\ \A u \in Users : f[u] % 10 = 0
  BY WholeIs
<1>2. a \in Int /\ a % 10 = 0
  BY AmountsAssumption DEF Cent, Simplify!Cent
<1>3. Sum(e, Users) = Sum(f, Users)
  <2>1. \A u \in Users : f[u] \in Int
    BY <1>1
  <2>2. \A u \in Users \ {r, p} : e[u] = f[u]
    OBVIOUS
  <2> QED BY <1>2, <2>1, <2>2, UsersFinite, SumMoved
<1>4. \A u \in Users : e[u] % 10 = 0
  <2>1. f[p] \in Int /\ f[r] \in Int /\ f[p] % 10 = 0 /\ f[r] % 10 = 0
    BY <1>1
  <2>2. (f[p] + a) % 10 = 0 /\ (f[r] - a) % 10 = 0
    BY <1>2, <2>1
  <2> QED BY <1>1, <2>2
<1> QED BY <1>1, <1>3, <1>4, WholeIs

\* Nothing spent, nothing paid.
LEMMA WholeSquare == Square(Users) \in WholeNets
<1>1. Square(Users) \in [Users -> Int] /\ \A u \in Users : Square(Users)[u] = 0
  BY DEF Square
<1>2. Sum(Square(Users), Users) = 0
  BY <1>1, UsersFinite, SumZero
<1> QED BY <1>1, <1>2, WholeIs

\* The requests keep the books balanced, within the bound of the model.
LEMMA BooksStay ==
  ASSUME WeeklyInv, BooksChange
  PROVE  /\ RosterTypeOK'
         /\ \A b \in {spent', paid'} : b \in [Groups -> [Users -> -MaxBalance..MaxBalance]]
         /\ \A g \in Groups : spent'[g] \in WholeNets /\ paid'[g] \in WholeNets
<1>1. /\ spent \in [Groups -> [Users -> -MaxBalance..MaxBalance]]
      /\ paid \in [Groups -> [Users -> -MaxBalance..MaxBalance]]
      /\ RosterTypeOK
      /\ \A g \in Groups : spent[g] \in WholeNets /\ paid[g] \in WholeNets
  BY DEF WeeklyInv, WeeklyTypeOK
<1>2. BooksNext /\ WithinBounds'
  BY DEF BooksChange
<1>3. CASE RosterNext /\ UNCHANGED books
  <2>1. RosterTypeOK'
    <3> SUFFICES ASSUME NEW g \in Groups, NEW u \in Users, Found(g, u) \/ Admit(g, u) \/ Drop(g, u)
                 PROVE  RosterTypeOK'
      BY <1>3 DEF RosterNext
    <3>1. CASE Found(g, u)
      BY <1>1, <3>1 DEF RosterTypeOK, Found
    <3>2. CASE Admit(g, u)
      BY <1>1, <3>2 DEF RosterTypeOK, Admit
    <3>3. CASE Drop(g, u)
      BY <1>1, <3>3 DEF RosterTypeOK, Drop
    <3> QED BY <3>1, <3>2, <3>3
  <2> QED BY <1>1, <1>3, <2>1 DEF books
<1>4. ASSUME NEW g \in Groups, NEW move \in Moves, Spend(g, move) \/ Refund(g, move)
      PROVE  /\ UNCHANGED <<rosterVars, paid>> /\ DOMAIN spent' = Groups
             /\ \A h \in Groups : spent'[h] \in WholeNets
  <2>1. spent[g] \in WholeNets /\ move \in WholeNets
    BY <1>1, MovesAssumption DEF WholeNets
  <2>2. UNCHANGED <<rosterVars, paid>>
    BY <1>4 DEF Spend, Refund
  <2>3. /\ DOMAIN spent' = Groups /\ \A h \in Groups \ {g} : spent'[h] = spent[h]
        /\ \/ spent'[g] = [u \in Users |-> spent[g][u] + move[u]]
           \/ spent'[g] = [u \in Users |-> spent[g][u] - move[u]]
    BY <1>1, <1>4 DEF Spend, Refund
  <2> QED BY <1>1, <2>1, <2>2, <2>3, WholePlus
<1>5. ASSUME NEW g \in Groups, NEW p \in Users, NEW r \in Users, NEW a \in Amounts, Pay(g, p, r, a)
      PROVE  /\ UNCHANGED <<rosterVars, spent>> /\ DOMAIN paid' = Groups
             /\ \A h \in Groups : paid'[h] \in WholeNets
  <2>1. p # r /\ UNCHANGED <<rosterVars, spent>> /\ a \in Int
    BY <1>5, AmountsAssumption DEF Pay
  <2>2. paid[g] \in WholeNets /\ paid[g] \in [Users -> Int]
    BY <1>1, WholeIs
  <2>3. /\ DOMAIN paid' = Groups /\ \A h \in Groups \ {g} : paid'[h] = paid[h]
        /\ paid'[g] = [paid[g] EXCEPT ![p] = @ + a, ![r] = @ - a]
    BY <1>1, <1>5, <2>1, <2>2 DEF Pay
  <2>4. /\ paid'[g] \in [Users -> Int] /\ paid'[g][p] = paid[g][p] + a /\ paid'[g][r] = paid[g][r] - a
        /\ \A u \in Users \ {p, r} : paid'[g][u] = paid[g][u]
    BY <2>1, <2>2, <2>3
  <2>5. paid'[g] \in WholeNets
    BY <2>1, <2>2, <2>4, WholeMoved
  <2> QED BY <1>1, <2>1, <2>3, <2>5
<1>6. ASSUME NEW b, DOMAIN b = Groups, \A g \in Groups : b[g] \in WholeNets,
             \A g \in Groups, u \in Users : Abs(b[g][u]) <= MaxBalance,
             b = [g \in DOMAIN b |-> b[g]]
      PROVE  b \in [Groups -> [Users -> -MaxBalance..MaxBalance]]
  <2>1. ASSUME NEW g \in Groups PROVE b[g] \in [Users -> -MaxBalance..MaxBalance]
    <3>1. b[g] \in [Users -> Int]
      BY <1>6, WholeIs
    <3>2. ASSUME NEW u \in Users PROVE b[g][u] \in -MaxBalance..MaxBalance
      <4>1. b[g][u] \in Int /\ Abs(b[g][u]) <= MaxBalance /\ MaxBalance \in Nat
        BY <1>6, <3>1, MaxBalanceAssumption
      <4> QED BY <4>1 DEF Abs, Simplify!Abs
    <3> QED BY <3>1, <3>2
  <2> QED BY <1>6, <2>1
<1>7. CASE \E g \in Groups, move \in Moves : Spend(g, move) \/ Refund(g, move)
  <2>1. /\ UNCHANGED <<rosterVars, paid>> /\ DOMAIN spent' = Groups
        /\ \A h \in Groups : spent'[h] \in WholeNets
    BY <1>4, <1>7
  <2>2. spent' = [g \in DOMAIN spent' |-> spent'[g]]
    BY <1>1, <1>7 DEF Spend, Refund
  <2>3. spent' \in [Groups -> [Users -> -MaxBalance..MaxBalance]]
    BY <1>2, <1>6, <2>1, <2>2 DEF WithinBounds
  <2> QED BY <1>1, <2>1, <2>3 DEF RosterTypeOK, rosterVars
<1>8. CASE \E g \in Groups, p, r \in Users, a \in Amounts : Pay(g, p, r, a)
  <2>1. /\ UNCHANGED <<rosterVars, spent>> /\ DOMAIN paid' = Groups
        /\ \A h \in Groups : paid'[h] \in WholeNets
    BY <1>5, <1>8
  <2>2. paid' = [g \in DOMAIN paid' |-> paid'[g]]
    BY <1>1, <1>8 DEF Pay
  <2>3. paid' \in [Groups -> [Users -> -MaxBalance..MaxBalance]]
    BY <1>2, <1>6, <2>1, <2>2 DEF WithinBounds
  <2> QED BY <1>1, <2>1, <2>3 DEF RosterTypeOK, rosterVars
<1> QED BY <1>2, <1>3, <1>7, <1>8 DEF BooksNext

-------------------------------------------------------------------------------
(* The invariant *)

\* What requests do to the books and rosters changes nothing the task has read.
LEMMA BooksKeep ==
  ASSUME WeeklyInv, BooksChange
  PROVE  WeeklyInv'
<1>1. UNCHANGED <<pc, loaded, todo, group, expenses, net_balances, balances, results, unmailed,
                  outbox, killed>>
  BY DEF BooksChange, task, work
<1>2. WeeklyTypeOK'
  BY <1>1, BooksStay DEF WeeklyInv, WeeklyTypeOK
<1>3. pc' \in {"loop", "mail"} => LoopInv'
  BY <1>1, LoopRests DEF WeeklyInv
<1>4. pc' = "mail" => \A u \in loaded'[group'] \ unmailed' : Named(u)'
  BY <1>1 DEF WeeklyInv, Named, DebtsOf
<1>5. NobodyForgotten' /\ MailAddsUp'
  BY <1>1 DEF WeeklyInv, NobodyForgotten, MailAddsUp, Mail, DebtsOf
<1> QED BY <1>1, <1>2, <1>3, <1>4, <1>5, BooksStay DEF WeeklyInv

\* Between two groups, and between two runs, the task has nothing in hand.
LEMMA QuietKeeps ==
  ASSUME WeeklyInv, UNCHANGED <<rosterVars, books>>,
         pc' \in {"asleep", "groups", "settlements"}, loaded' \in [Groups -> SUBSET Users],
         todo' \subseteq Groups, group' \in Groups, outbox' \subseteq outbox, unmailed' = {},
         results' = <<>>, expenses' \in WholeNets, killed' \in BOOLEAN
  PROVE  WeeklyInv'
<1>1. /\ RosterTypeOK'
      /\ \A b \in {spent', paid'} : b \in [Groups -> [Users -> -MaxBalance..MaxBalance]]
      /\ \A g \in Groups : spent'[g] \in WholeNets /\ paid'[g] \in WholeNets
  BY DEF WeeklyInv, WeeklyTypeOK, RosterTypeOK, rosterVars, books
<1>2. WeeklyTypeOK'
  BY <1>1 DEF WeeklyInv, WeeklyTypeOK
<1>3. MailAddsUp'
  BY DEF WeeklyInv, MailAddsUp
<1> QED BY <1>1, <1>2, <1>3 DEF WeeklyInv, NobodyForgotten

\* The steps after which the task has nothing in hand.
LEMMA RestKeeps ==
  ASSUME WeeklyInv,
         \/ Start \/ (\E g \in Groups : ReadExpenses(g)) \/ GroupDone \/ Finish \/ Kill
         \/ (\E u \in Users : FailMember(u))
  PROVE  WeeklyInv'
<1>1. /\ roster \in [Groups -> SUBSET Users] /\ loaded \in [Groups -> SUBSET Users]
      /\ todo \subseteq Groups /\ group \in Groups /\ killed \in BOOLEAN
      /\ expenses \in WholeNets /\ \A g \in Groups : spent[g] \in WholeNets
      /\ pc \notin {"loop", "mail"} => unmailed = {} /\ results = <<>>
  BY DEF WeeklyInv, WeeklyTypeOK, RosterTypeOK
<1>2. CASE Start
  BY <1>1, <1>2, QuietKeeps DEF Start, Asleep, work
<1>3. ASSUME NEW g \in Groups, ReadExpenses(g) PROVE WeeklyInv'
  BY <1>1, <1>3, QuietKeeps DEF ReadExpenses
<1>4. CASE Finish
  BY <1>1, <1>4, QuietKeeps DEF Finish, work
<1>5. CASE GroupDone \/ Kill \/ \E u \in Users : FailMember(u)
  <2>1. /\ pc' \in {"asleep", "groups"} /\ PutAway /\ killed' \in BOOLEAN
        /\ UNCHANGED <<rosterVars, books, loaded, todo, group, outbox>>
    BY <1>1, <1>5 DEF GroupDone, Kill, FailMember
  <2> QED BY <1>1, <2>1, QuietKeeps, WholeSquare DEF PutAway
<1> QED BY <1>2, <1>3, <1>4, <1>5

\* The two statements that read the settlements and start the loop.
LEMMA SettlementsKeep ==
  ASSUME WeeklyInv, ReadSettlements
  PROVE  WeeklyInv'
<1>1. /\ pc' = "loop" /\ unmailed' = loaded[group]
      /\ net_balances' = [u \in Users |-> expenses[u] + paid[group][u]]
      /\ balances' = Simplify!Significant(net_balances')
      /\ UNCHANGED <<rosterVars, books, loaded, todo, group, expenses, results, outbox, killed>>
  BY DEF ReadSettlements, Members
<1>2. group \in Groups /\ expenses \in WholeNets /\ paid[group] \in WholeNets
  BY DEF WeeklyInv, WeeklyTypeOK
<1>3. net_balances' \in WholeNets
  BY <1>1, <1>2, WholePlus
<1>4. results = <<>>
  BY DEF WeeklyInv, ReadSettlements
<1>5. Loop!Init'
  BY <1>1, <1>3, <1>4, SameLoop DEF Loop!Init
<1>6. WeeklyTypeOK'
  BY <1>1 DEF WeeklyInv, WeeklyTypeOK, RosterTypeOK, rosterVars, books
<1>7. \A g \in Groups : spent'[g] \in WholeNets /\ paid'[g] \in WholeNets
  BY <1>1 DEF WeeklyInv, books
<1>8. MailAddsUp'
  BY <1>1 DEF WeeklyInv, MailAddsUp
<1> QED BY <1>1, <1>2, <1>5, <1>6, <1>7, <1>8, LoopStarts DEF WeeklyInv, NobodyForgotten

\* The loop leaves everything else alone.
LEMMA SimplifyKeeps ==
  ASSUME WeeklyInv, SimplifyStep
  PROVE  WeeklyInv'
<1>1. /\ pc = "loop" /\ pc' \in {"loop", "mail"} /\ UNCHANGED net_balances
      /\ UNCHANGED <<rosterVars, books, loaded, todo, group, expenses, unmailed, outbox, killed>>
  BY DEF SimplifyStep, Simplify!Iterate, Simplify!Match
<1>2. LoopInv'
  BY <1>1, LoopRuns DEF WeeklyInv
<1>3. WeeklyTypeOK'
  BY <1>1 DEF WeeklyInv, WeeklyTypeOK, RosterTypeOK, rosterVars, books
<1>4. unmailed = loaded[group]
  BY <1>1 DEF WeeklyInv
<1>5. \A g \in Groups : spent'[g] \in WholeNets /\ paid'[g] \in WholeNets
  BY <1>1 DEF WeeklyInv, books
<1>6. MailAddsUp'
  BY <1>1 DEF WeeklyInv, MailAddsUp
<1>7. NobodyForgotten' /\ (pc' = "mail" => \A u \in loaded'[group'] \ unmailed' : Named(u)')
  BY <1>1, <1>4 DEF NobodyForgotten
<1> QED BY <1>1, <1>2, <1>3, <1>5, <1>6, <1>7 DEF WeeklyInv

\* Whoever is skipped has not a cent open, and a mail is explained by its debts.
LEMMA MailKeeps ==
  ASSUME WeeklyInv, NEW u \in Users, MailMember(u)
  PROVE  WeeklyInv'
<1>1. /\ pc = "mail" /\ u \in unmailed /\ unmailed' = unmailed \ {u}
      /\ UNCHANGED <<rosterVars, books, pc, loaded, todo, group, expenses, net_balances, balances,
                     results, killed>>
  BY DEF MailMember
<1>2. LoopInv /\ LoopInv'
  BY <1>1, LoopRests DEF WeeklyInv
<1>3. /\ net_balances[u] \in Int /\ net_balances[u] % 10 = 0
      /\ \A d \in Range(results) : d.amount >= Cent /\ d.from # d.to
  BY <1>1, <1>2, LoopReturned, WholeIs
<1>4. /\ \A m \in outbox' : m \in outbox \/ m = Mail(u)
      /\ outbox \subseteq outbox' /\ Named(u)
      /\ net_balances[u] # 0 => Mail(u) \in outbox'
  <2>1. CASE Skipped(u) /\ UNCHANGED outbox
    <3>1. net_balances[u] = 0 /\ DebtsOf(u) = {}
      BY <1>3, <2>1 DEF Skipped, Cent, Simplify!Cent, Abs, Simplify!Abs
    <3> QED BY <2>1, <3>1 DEF Named
  <2>2. CASE ~Skipped(u) /\ Named(u) /\ outbox' = outbox \cup {Mail(u)}
    BY <2>2
  <2> QED BY <2>1, <2>2 DEF MailMember
<1>5. Listed(Mail(u)) = net_balances[u]
  <2>1. /\ {d \in Range(results) : d.to \in {u} /\ d.from \notin {u}} = {d \in DebtsOf(u) : d.to = u}
        /\ {d \in Range(results) : d.from \in {u} /\ d.to \notin {u}} = {d \in DebtsOf(u) : d.from = u}
    BY <1>3 DEF DebtsOf
  <2>2. Sum(net_balances, {u}) = net_balances[u]
    <3>1. IsFiniteSet({u}) /\ Cardinality({u}) = 1
      BY FS_Singleton
    <3>2. \A v \in {u} : net_balances[v] = net_balances[u]
      OBVIOUS
    <3>3. Sum(net_balances, {u}) = net_balances[u] * Cardinality({u})
      BY <1>3, <3>1, <3>2, SumConstant
    <3> QED BY <1>3, <3>1, <3>3
  <2>3. {u} \in SUBSET Users
    OBVIOUS
  <2>4. net_balances[u] = Total({d \in DebtsOf(u) : d.to = u}) - Total({d \in DebtsOf(u) : d.from = u})
    BY <1>1, <1>2, <2>1, <2>2, <2>3, LoopReturned
  <2> QED BY <2>4 DEF Mail, Listed
<1>6. WeeklyTypeOK'
  <2>1. Mail(u).debts \subseteq Range(results)
    BY DEF Mail, DebtsOf
  <2>2. \A m \in outbox' : \A d \in m.debts : d.amount >= Cent
    BY <1>3, <1>4, <2>1 DEF WeeklyInv, WeeklyTypeOK
  <2> QED BY <1>1, <2>2 DEF WeeklyInv, WeeklyTypeOK, RosterTypeOK, rosterVars, books
<1>7. MailAddsUp'
  <2> DEFINE Explained(m) ==
        /\ m.line.says = "owed"    => Listed(m) = m.line.amount
        /\ m.line.says = "owe"     => Listed(m) = -m.line.amount
        /\ m.line.says = "settled" => Listed(m) \in {Cent, -Cent}
  <2>1. \A m \in outbox : Explained(m)
    BY DEF WeeklyInv, MailAddsUp
  <2>2. ~Skipped(u) => Explained(Mail(u))
    <3> SUFFICES ASSUME ~Skipped(u) PROVE Explained(Mail(u))
      OBVIOUS
    <3>1. net_balances[u] # 0
      <4>1. DebtsOf(u) # {} => net_balances[u] # 0
        BY <1>1, <1>2, LoopReturned DEF DebtsOf
      <4>2. Abs(net_balances[u]) >= Cent => net_balances[u] # 0
        BY <1>3 DEF Abs, Simplify!Abs, Cent, Simplify!Cent
      <4>3. Abs(net_balances[u]) \in Int
        BY <1>3 DEF Abs, Simplify!Abs
      <4> QED BY <4>1, <4>2, <4>3 DEF Skipped, Cent, Simplify!Cent
    <3>2. Mail(u).line = BalanceLine(net_balances[u])
      BY DEF Mail
    <3>3. Cent = 10
      BY DEF Cent, Simplify!Cent
    <3>4. CASE net_balances[u] > Cent
      <4>1. Mail(u).line = [says |-> "owed", amount |-> net_balances[u]]
        BY <3>2, <3>4 DEF BalanceLine
      <4> QED BY <1>5, <4>1
    <3>5. CASE net_balances[u] < -Cent
      <4>1. Mail(u).line = [says |-> "owe", amount |-> -net_balances[u]]
        BY <1>3, <3>2, <3>3, <3>5 DEF BalanceLine
      <4>2. -(-net_balances[u]) = net_balances[u]
        BY <1>3
      <4> QED BY <1>5, <4>1, <4>2
    <3>6. CASE ~(net_balances[u] > Cent) /\ ~(net_balances[u] < -Cent)
      <4>1. Mail(u).line = [says |-> "settled"]
        BY <3>2, <3>6 DEF BalanceLine
      <4>2. net_balances[u] \in {Cent, -Cent}
        BY <1>3, <3>1, <3>3, <3>6
      <4> QED BY <1>5, <4>1, <4>2
    <3> QED BY <3>4, <3>5, <3>6
  <2>3. \A m \in outbox' : Explained(m)
    BY <1>1, <2>1, <2>2 DEF MailMember
  <2> QED BY <2>3 DEF MailAddsUp
<1>8. NobodyForgotten'
  <2>1. \A v : Mail(v)' = Mail(v)
    BY <1>1 DEF Mail, DebtsOf
  <2> QED BY <1>1, <1>4, <2>1 DEF WeeklyInv, NobodyForgotten
<1>9. \A v \in loaded'[group'] \ unmailed' : Named(v)'
  <2>1. \A v : Named(v)' <=> Named(v)
    BY <1>1 DEF Named, DebtsOf
  <2> QED BY <1>1, <1>4, <2>1 DEF WeeklyInv
<1>10. \A g \in Groups : spent'[g] \in WholeNets /\ paid'[g] \in WholeNets
  BY <1>1 DEF WeeklyInv, books
<1> QED BY <1>1, <1>2, <1>6, <1>7, <1>8, <1>9, <1>10 DEF WeeklyInv

\* Before the first run the books are empty.
LEMMA InitKeeps == Init => WeeklyInv
<1> SUFFICES ASSUME Init PROVE WeeklyInv
  OBVIOUS
<1>1. /\ BooksInit /\ RosterInit
      /\ spent = [g \in Groups |-> Square(Users)] /\ paid = [g \in Groups |-> Square(Users)]
      /\ pc = "asleep" /\ expenses = Square(Users) /\ results = <<>> /\ unmailed = {}
      /\ loaded = [g \in Groups |-> {}] /\ todo = {} /\ group \in Groups
      /\ outbox = {} /\ killed = FALSE
  BY DEF Init, BooksInit
<1>2. WeeklyTypeOK
  <2>1. RosterTypeOK
    BY <1>1 DEF RosterInit, RosterTypeOK
  <2>2. Square(Users) \in [Users -> -MaxBalance..MaxBalance]
    BY MaxBalanceAssumption DEF Square
  <2> QED BY <1>1, <2>1, <2>2 DEF WeeklyTypeOK
<1> QED BY <1>1, <1>2, WholeSquare DEF WeeklyInv, NobodyForgotten, MailAddsUp

\* WeeklyInv holds in every reachable state.
LEMMA WeeklyInvariant == Safety => []WeeklyInv
<1>1. WeeklyInv /\ UNCHANGED vars => WeeklyInv'
  <2> SUFFICES ASSUME WeeklyInv, UNCHANGED vars PROVE WeeklyInv'
    OBVIOUS
  <2>1. UNCHANGED <<rosterVars, books, pc, loaded, todo, group, expenses, net_balances, balances,
                    results, unmailed, outbox, killed>>
    BY DEF vars, task, work
  <2>2. WeeklyTypeOK'
    BY <2>1 DEF WeeklyInv, WeeklyTypeOK, RosterTypeOK, rosterVars, books
  <2>3. pc' \in {"loop", "mail"} => LoopInv'
    BY <2>1, LoopRests DEF WeeklyInv
  <2>4. pc' = "mail" => \A u \in loaded'[group'] \ unmailed' : Named(u)'
    BY <2>1 DEF WeeklyInv, Named, DebtsOf
  <2>5. NobodyForgotten' /\ MailAddsUp'
    BY <2>1 DEF WeeklyInv, NobodyForgotten, MailAddsUp, Mail, DebtsOf
  <2> QED BY <2>1, <2>2, <2>3, <2>4, <2>5 DEF WeeklyInv, books
<1>2. WeeklyInv /\ [Next]_vars => WeeklyInv'
  <2> SUFFICES ASSUME WeeklyInv, Next PROVE WeeklyInv'
    BY <1>1
  <2>1. CASE BooksChange
    BY <2>1, BooksKeep
  <2>2. CASE ReadSettlements
    BY <2>2, SettlementsKeep
  <2>3. CASE SimplifyStep
    BY <2>3, SimplifyKeeps
  <2>4. CASE \E u \in Users : MailMember(u)
    BY <2>4, MailKeeps
  <2>5. CASE \/ Start \/ (\E g \in Groups : ReadExpenses(g)) \/ GroupDone \/ Finish \/ Kill
             \/ (\E u \in Users : FailMember(u))
    BY <2>5, RestKeeps
  <2> QED BY <2>1, <2>2, <2>3, <2>4, <2>5 DEF Next, Work
<1> QED BY <1>2, InitKeeps, PTL DEF Safety

-------------------------------------------------------------------------------
(* The theorems *)

\* Every behaviour of the task has the safety half of the specification.
LEMMA SpecIsSafe == Spec => Safety
BY PTL DEF Spec, Safety

\* WeeklyTypeOK: send_weekly_summary comes to members of the group in hand only, and
\* no mail lists a debt of less than a cent.
THEOREM WeeklyTypeCorrect == Safety => []WeeklyTypeOK
<1>1. WeeklyInv => WeeklyTypeOK
  BY DEF WeeklyInv
<1> QED BY <1>1, WeeklyInvariant, PTL

\* SummariesBalance: when send_weekly_summary is through with a group, the balances
\* of those it took for members add up to zero, although it read members, expenses
\* and settlements at three moments: every debt it could name is between two of them.
THEOREM SummariesAddUp == Safety => []SummariesBalance
<1>1. WeeklyInv => SummariesBalance
  <2> SUFFICES ASSUME WeeklyInv, pc = "mail", unmailed = {}
               PROVE  Sum(net_balances, loaded[group]) = 0
    BY DEF SummariesBalance, Sum
  <2> DEFINE L == loaded[group]
  <2>1. L \in SUBSET Users /\ LoopInv /\ \A u \in L : Named(u)
    BY DEF WeeklyInv, WeeklyTypeOK
  <2>2. \A d \in Range(results) : d.from \in L <=> d.to \in L
    BY <2>1 DEF Named, DebtsOf
  <2>3. Sum(net_balances, L) = Total({}) - Total({})
    <3>1. /\ {d \in Range(results) : d.to \in L /\ d.from \notin L} = {}
          /\ {d \in Range(results) : d.from \in L /\ d.to \notin L} = {}
      BY <2>2
    <3> HIDE DEF L
    <3> QED BY <2>1, <3>1, LoopReturned
  <2>4. Total({}) = 0
    <3>1. Loop!Total({}) = Loop!Sum([x \in {} |-> x.amount], {})
      BY LoopAssumptions, Loop!TotalSum
    <3> QED BY <3>1, SameMoney, SumEmpty
  <2> QED BY <2>3, <2>4
<1> QED BY <1>1, WeeklyInvariant, PTL

\* MailAddsUp: a mail of send_weekly_summary that states an amount lists debts that
\* come to it; one that calls its reader settled lists debts of exactly one cent.
THEOREM MailsAddUp == Safety => []MailAddsUp
<1>1. WeeklyInv => MailAddsUp
  BY DEF WeeklyInv
<1> QED BY <1>1, WeeklyInvariant, PTL

\* NobodyForgotten: whoever send_weekly_summary has passed over without a mail has
\* nothing open in the group.
THEOREM NobodyIsForgotten == Safety => []NobodyForgotten
<1>1. WeeklyInv => NobodyForgotten
  BY DEF WeeklyInv
<1> QED BY <1>1, WeeklyInvariant, PTL

\* StoppedByStrangers: the KeyError of _build_weekly_summary_html takes somebody with
\* an open balance who was not read as a member.
THEOREM OnlyStrangersStop == Safety => StoppedByStrangers
<1>1. WeeklyInv /\ [Next]_vars
        => [pc = "mail" /\ Work /\ Asleep' => \E u \in Users \ loaded[group] : net_balances[u] # 0]_vars
  <2> SUFFICES ASSUME WeeklyInv, pc = "mail", Work, Asleep'
               PROVE  \E u \in Users \ loaded[group] : net_balances[u] # 0
    OBVIOUS
  <2>1. PICK u \in Users : FailMember(u)
    BY DEF Work, Asleep, ReadExpenses, ReadSettlements, SimplifyStep, Simplify!Iterate, GroupDone,
           Finish, MailMember
  <2>2. PICK d \in DebtsOf(u) : ~({d.from, d.to} \subseteq loaded[group])
    BY <2>1 DEF FailMember, Named
  <2>3. {d.from, d.to} \subseteq {v \in Users : net_balances[v] # 0}
    BY <2>2, LoopReturned DEF WeeklyInv, DebtsOf
  <2> QED BY <2>2, <2>3
<1> QED BY <1>1, WeeklyInvariant, PTL DEF Safety, StoppedByStrangers
===============================================================================
