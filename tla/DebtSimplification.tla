-------------------------- MODULE DebtSimplification --------------------------
(***************************************************************************)
(* The loop of _simplify_debts (balance_service.py): match the largest     *)
(* creditor with the largest debtor until nobody is left.  Money is in     *)
(* tenths of a cent, to tell the threshold of half a cent and the rounding *)
(* to cents from exact arithmetic.  Which of two equal balances max() and  *)
(* min() return depends on the order of a Python set, so any may be taken. *)
(***************************************************************************)
EXTENDS Integers, FiniteSets, Sequences, Functions

CONSTANTS Users,
          Nets     \* the balances a report computes

Cent == 10

\* _THRESHOLD = Decimal("0.005")
FiveCents   == 50                                                  \* mutant
NoThreshold == 0                                                   \* mutant
Threshold   == 5

\* What the report passes in: columns hold whole cents, and the balances of a
\* group add up to zero (Conservation and ReportsBalance of Ledger).
ASSUME UsersFinite == IsFiniteSet(Users)
ASSUME NetsAssumption == Nets \subseteq [Users -> Int]
ASSUME WholeCents == \A net \in Nets : \A u \in Users : net[u] % Cent = 0
ASSUME NetsBalance == \A net \in Nets : SumFunction(net) = 0

VARIABLES net_balances,  \* the argument
          balances,      \* the working copy: users not yet settled
          results,       \* the debts so far
          pc             \* "loop" or "return"

vars == <<net_balances, balances, results, pc>>

Abs(x) == IF x < 0 THEN -x ELSE x

\* {uid: amt for uid, amt in ... if abs(amt) >= _THRESHOLD}
Significant(b) == [u \in {v \in DOMAIN b : Abs(b[v]) >= Threshold} |-> b[u]]

\* quantize(Decimal("0.01"), rounding=ROUND_DOWN)
RoundDown(x) == (x \div Cent) * Cent

\* min(credit, abs(debt))
LargerSide(credit, debt)  == IF credit > debt THEN credit ELSE debt \* mutant
SmallerSide(credit, debt) == IF credit < debt THEN credit ELSE debt

\* max(balances, ...) and min(balances, ...)
MaxOf(b) == {u \in DOMAIN b : \A v \in DOMAIN b : b[v] <= b[u]}
MinOf(b) == {u \in DOMAIN b : \A v \in DOMAIN b : b[u] <= b[v]}

Init == /\ net_balances \in Nets
        /\ balances = Significant(net_balances)
        /\ results = <<>>
        /\ pc = "loop"

\* One iteration of the while loop.
Match(creditor, debtor) ==
  LET credit == balances[creditor]
      debt   == balances[debtor]
      amount == RoundDown(SmallerSide(credit, Abs(debt)))
  IN /\ ~(credit < Threshold /\ Abs(debt) < Threshold)
     /\ results' = Append(results, [from |-> debtor, to |-> creditor, amount |-> amount])
     /\ balances' = Significant([balances EXCEPT ![creditor] = @ - amount,
                                                 ![debtor]   = @ + amount])
     /\ UNCHANGED <<net_balances, pc>>

Iterate == /\ pc = "loop"
           /\ \E creditor \in MaxOf(balances), debtor \in MinOf(balances) :
                Match(creditor, debtor)

\* The loop ends when nobody is left, or breaks when both sides are near zero.
BreaksOnly == /\ DOMAIN balances # {}                               \* mutant
              /\ \A c \in MaxOf(balances), d \in MinOf(balances) :
                   balances[c] < Threshold /\ Abs(balances[d]) < Threshold
Finished == \A c \in MaxOf(balances), d \in MinOf(balances) :
              balances[c] < Threshold /\ Abs(balances[d]) < Threshold

Return == /\ pc = "loop" /\ Finished
          /\ pc' = "return"
          /\ UNCHANGED <<net_balances, balances, results>>

Next == Iterate \/ Return

\* The loop is sequential code: a call runs on until it returns.
Spec == Init /\ [][Next]_vars /\ WF_vars(Next)

-------------------------------------------------------------------------------
(* Properties *)

Unsettled == {u \in Users : net_balances[u] # 0}
Named     == {u \in Users : \E i \in DOMAIN results : u \in {results[i].from, results[i].to}}

\* Every variable holds a value of its type; the debts are whole positive cents.
TypeOK == /\ net_balances \in Nets
          /\ DOMAIN balances \subseteq Users
          /\ \A u \in DOMAIN balances : balances[u] \in Int
          /\ \A i \in DOMAIN results :
               /\ results[i].from \in Users /\ results[i].to \in Users
               /\ results[i].amount > 0 /\ results[i].amount % Cent = 0
          /\ pc \in {"loop", "return"}

\* The docstring: every iteration settles somebody completely, so there are at
\* most n - 1 debts among n people whose balance is not zero.
AtMostNMinus1 == results # <<>> => Len(results) < Cardinality(Unsettled)

\* The debts name exactly those whose balance is not zero; the report looks each
\* of them up among the members.
NamesTheUnsettled == pc = "return" => Named = Unsettled

\* What some debts come to; those from others to some users, and the other way round.
Total(D) == SumFunction([d \in D |-> d.amount])
Into(some)  == {d \in Range(results) : d.to \in some /\ d.from \notin some}
OutOf(some) == {d \in Range(results) : d.from \in some /\ d.to \notin some}
\* The debts explain the balances to the cent: what any users together are owed or
\* owe is what others have to pay them less what they have to pay others.
DebtsExplainBalances ==
  pc = "return" =>
    \A some \in SUBSET Users :
      SumFunctionOnSet(net_balances, some) = Total(Into(some)) - Total(OutOf(some))

\* What is left of everybody's balance, seen as a settling plan.
Open == [u \in Users |-> IF u \in DOMAIN balances THEN balances[u] ELSE 0]
Plan == INSTANCE SettlingPlan WITH open <- Open, plan <- results
\* The debts are paid by those who owe to those who are owed, never more than
\* either balance, until every balance is zero.
ImplementsPlan == Plan!PlanSpec

\* The function returns: the balances are never stuck, and never shrink forever.
Terminates == <>(pc = "return" /\ DOMAIN balances = {})

\* The comment in GroupBalanceResponse: a minimum set of transactions.  When
\* some of the users can be settled among themselves, two debts can be saved.
MinimumSet ==
  pc = "return" =>
    \A some \in SUBSET Unsettled :
      some \notin {{}, Unsettled} /\ SumFunctionOnSet(net_balances, some) = 0
        => Len(results) <= Cardinality(Unsettled) - 2
===============================================================================
