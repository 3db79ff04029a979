------------------------------ MODULE DebtProofs ------------------------------
(***************************************************************************)
(* The safety of _simplify_debts for any number of users and any balances  *)
(* of whole cents that add up to zero.                                     *)
(***************************************************************************)
EXTENDS DebtSimplification, MoneyLemmas

Debt == [from : Users, to : Users, amount : Nat]

\* The working copy: whole cents, nobody with nothing, and nothing in sum.
WholeCent(x) == x \in Int /\ x % Cent = 0
GoodBalances(b) == /\ DOMAIN b \subseteq Users
                   /\ \A u \in DOMAIN b : WholeCent(b[u]) /\ b[u] # 0
                   /\ Sum(b, DOMAIN b) = 0

\* Whoever has not been named still has a balance, and nobody is named in vain;
\* every debt so far has settled somebody, and the last one settled two.
IInv == /\ net_balances \in Nets
        /\ GoodBalances(balances)
        /\ results \in Seq(Debt)
        /\ \A i \in DOMAIN results : results[i].amount > 0 /\ results[i].amount % Cent = 0
        /\ pc \in {"loop", "return"}
        /\ pc = "return" => DOMAIN balances = {}
        /\ DOMAIN balances \subseteq Unsettled
        /\ Named \subseteq Unsettled
        /\ Unsettled \subseteq Named \cup DOMAIN balances
        /\ Len(results) + Cardinality(DOMAIN balances) <= Cardinality(Unsettled)
        /\ results # <<>> => Len(results) < Cardinality(Unsettled)

-------------------------------------------------------------------------------
(* Whole cents *)

\* The arithmetic of whole cents in tenths of a cent.
LEMMA CentFacts ==
  ASSUME NEW x, WholeCent(x), NEW y, WholeCent(y)
  PROVE  /\ WholeCent(x + y) /\ WholeCent(x - y) /\ WholeCent(- x) /\ WholeCent(Abs(x))
         /\ RoundDown(x) = x
         /\ Abs(x) >= Threshold <=> x # 0
         /\ x # 0 => x >= 10 \/ x <= -10
<1>1. x \in Int /\ y \in Int /\ x % 10 = 0 /\ y % 10 = 0
  BY DEF WholeCent, Cent
<1>2. (x + y) % 10 = 0 /\ (x - y) % 10 = 0 /\ (- x) % 10 = 0
  BY <1>1
<1>3. (x \div 10) * 10 = x /\ (x # 0 => x >= 10 \/ x <= -10)
  BY <1>1
<1> QED BY <1>1, <1>2, <1>3 DEF WholeCent, Cent, Abs, RoundDown, Threshold

\* Filtering out the near-zero balances removes the zeros and nothing else.
LEMMA SignificantGood ==
  ASSUME NEW f, DOMAIN f \subseteq Users, \A u \in DOMAIN f : WholeCent(f[u]),
         Sum(f, DOMAIN f) = 0
  PROVE  LET b == Significant(f)
         IN  /\ GoodBalances(b)
             /\ DOMAIN b = {u \in DOMAIN f : f[u] # 0}
             /\ \A u \in DOMAIN b : b[u] = f[u]
<1> DEFINE b == Significant(f)
           R == {u \in DOMAIN f : f[u] # 0}
<1>1. \A u \in DOMAIN f : Abs(f[u]) >= Threshold <=> f[u] # 0
  BY CentFacts
<1>2. DOMAIN b = R /\ \A u \in R : b[u] = f[u]
  BY <1>1 DEF Significant
<1>3. IsFiniteSet(DOMAIN f) /\ IsFiniteSet(R) /\ R \in SUBSET DOMAIN f
  BY UsersFinite, FS_Subset
<1>4. \A u \in DOMAIN f : f[u] \in Int
  BY DEF WholeCent
<1>5. Sum(f, R) = 0
  <2>1. \A u \in DOMAIN f \ R : f[u] = 0
    OBVIOUS
  <2> HIDE DEF R
  <2> QED BY <1>3, <1>4, <2>1, SumSupport
<1> HIDE DEF b
<1>6. Sum(b, R) = Sum(f, R)
  BY <1>2, <1>3, <1>4, SumSame
<1> QED BY <1>2, <1>3, <1>5, <1>6 DEF GoodBalances, b

\* As long as anybody has a balance, somebody is owed money and somebody owes.
LEMMA BothSides ==
  ASSUME NEW b, GoodBalances(b), NEW c \in MaxOf(b), NEW d \in MinOf(b)
  PROVE  /\ c \in DOMAIN b /\ d \in DOMAIN b /\ c # d
         /\ b[c] >= 10 /\ b[d] <= -10
<1> DEFINE D == DOMAIN b
<1>1. /\ c \in D /\ d \in D
      /\ \A v \in D : b[v] \in Int /\ b[v] <= b[c] /\ b[d] <= b[v]
      /\ \A v \in D : b[v] >= 10 \/ b[v] <= -10
  BY CentFacts DEF MaxOf, MinOf, GoodBalances, WholeCent
<1>2. /\ IsFiniteSet(D) /\ Cardinality(D) \in Nat \ {0}
      /\ Sum(b, D) = 0
  BY <1>1, UsersFinite, FS_Subset, FS_EmptySet, FS_CardinalityType DEF GoodBalances
<1>3. ASSUME NEW k \in {-1, 1}, \A v \in D : k * b[v] >= 1 PROVE FALSE
  <2> DEFINE kb == [v \in D |-> k * b[v]]
             one == [v \in D |-> 1]
  <2>1. \A v \in D : /\ kb[v] \in Int /\ kb[v] = k * b[v]
                     /\ one[v] \in Int /\ one[v] = 1 /\ one[v] <= kb[v]
    BY <1>1, <1>3
  <2> HIDE DEF kb, one
  <2>2. Sum(one, D) <= Sum(kb, D) /\ Sum(one, D) = 1 * Cardinality(D)
    BY <1>2, <2>1, SumAtMost, SumConstant
  <2>3. Sum(kb, D) = k * Sum(b, D)
    <3>1. \A v \in D : b[v] \in Int /\ kb[v] = k * b[v]
      BY <1>1, <2>1
    <3> QED BY <1>2, <3>1, SumScale
  <2> QED BY <1>2, <2>2, <2>3
<1>4. b[c] >= 10
  <2>1. CASE b[c] <= -10
    <3>1. \A v \in D : (-1) * b[v] >= 1
      BY <1>1, <2>1
    <3> QED BY <1>3, <3>1
  <2> QED BY <1>1, <2>1
<1>5. b[d] <= -10
  <2>1. CASE b[d] >= 10
    <3>1. \A v \in D : 1 * b[v] >= 1
      BY <1>1, <2>1
    <3> QED BY <1>3, <3>1
  <2> QED BY <1>1, <2>1
<1> QED BY <1>1, <1>4, <1>5

\* max() and min() find somebody.
LEMMA Extremes ==
  ASSUME NEW b, IsFiniteSet(DOMAIN b), DOMAIN b # {}, \A u \in DOMAIN b : b[u] \in Int
  PROVE  MaxOf(b) # {} /\ MinOf(b) # {}
<1> DEFINE hi == {T \in SUBSET DOMAIN b : T # {} => \E u \in T : \A v \in T : b[v] <= b[u]}
           lo == {T \in SUBSET DOMAIN b : T # {} => \E u \in T : \A v \in T : b[u] <= b[v]}
<1>1. ASSUME NEW T \in SUBSET DOMAIN b, \A U \in SUBSET T : U # T => U \in hi /\ U \in lo
      PROVE  T \in hi /\ T \in lo
  <2>1. CASE T = {}
    BY <2>1
  <2>2. CASE T # {}
    <3>1. PICK x \in T : TRUE
      BY <2>2
    <3> DEFINE R == T \ {x}
    <3>2. R \in hi /\ R \in lo
      BY <1>1, <3>1
    <3>3. CASE R = {}
      <4>1. \A v \in T : v = x
        BY <3>3
      <4> QED BY <4>1, <3>1
    <3>4. CASE R # {}
      <4>1. PICK m \in R : \A v \in R : b[v] <= b[m]
        BY <3>2, <3>4
      <4>2. PICK n \in R : \A v \in R : b[n] <= b[v]
        BY <3>2, <3>4
      <4>3. \A v \in T : v = x \/ v \in R
        OBVIOUS
      <4>4. \E u \in {x, m} : \A v \in T : b[v] <= b[u]
        BY <4>1, <4>3
      <4>5. \E u \in {x, n} : \A v \in T : b[u] <= b[v]
        BY <4>2, <4>3
      <4> QED BY <4>4, <4>5
    <3> QED BY <3>3, <3>4
  <2> QED BY <2>1, <2>2
<1>2. SUBSET DOMAIN b \subseteq hi \cap lo
  <2> DEFINE P == hi \cap lo
  <2>1. \A T \in SUBSET DOMAIN b : (\A U \in SUBSET T : U # T => U \in P) => T \in P
    BY <1>1
  <2>2. SUBSET DOMAIN b \subseteq P
    <3> HIDE DEF P
    <3> QED BY <2>1, SubsetInduction
  <2> QED BY <2>2
<1> QED BY <1>2 DEF MaxOf, MinOf

-------------------------------------------------------------------------------
(* One iteration *)

Paid(c, d)      == RoundDown(SmallerSide(balances[c], Abs(balances[d])))
Rest(c, d)      == [balances EXCEPT ![c] = @ - Paid(c, d), ![d] = @ + Paid(c, d)]
NewDebt(c, d)   == [from |-> d, to |-> c, amount |-> Paid(c, d)]

\* What is paid is the smaller of the two balances, so one of the two is settled.
LEMMA OneDebt ==
  ASSUME GoodBalances(balances),
         NEW c \in MaxOf(balances), NEW d \in MinOf(balances), Match(c, d)
  PROVE  LET a == Paid(c, d)
             e == Rest(c, d)
         IN  /\ c \in DOMAIN balances /\ d \in DOMAIN balances /\ c # d
             /\ a \in Nat /\ a > 0 /\ a % Cent = 0
             /\ a <= balances[c] /\ a <= - balances[d]
             /\ e[c] = 0 \/ e[d] = 0
             /\ results' = Append(results, NewDebt(c, d))
             /\ GoodBalances(balances')
             /\ DOMAIN balances' = {u \in DOMAIN balances : e[u] # 0}
             /\ \A u \in DOMAIN balances' : balances'[u] = e[u]
<1> DEFINE a == Paid(c, d)
           e == Rest(c, d)
           D == DOMAIN balances
<1>1. /\ c \in D /\ d \in D /\ c # d
      /\ balances[c] >= 10 /\ balances[d] <= -10
  BY BothSides
<1>2. \A u \in D : WholeCent(balances[u]) /\ balances[u] \in Int
  BY DEF GoodBalances, WholeCent
<1>3. /\ WholeCent(a) /\ a >= 10 /\ a <= balances[c] /\ a <= - balances[d]
      /\ a = balances[c] \/ a = - balances[d]
  <2>1. WholeCent(- balances[d]) /\ Abs(balances[d]) = - balances[d]
    BY <1>1, <1>2, CentFacts DEF Abs
  <2>2. SmallerSide(balances[c], - balances[d]) \in {balances[c], - balances[d]}
    BY DEF SmallerSide
  <2>3. a = SmallerSide(balances[c], - balances[d])
    BY <1>1, <1>2, <2>1, <2>2, CentFacts DEF Paid
  <2>4. - balances[d] >= 10
    BY <1>1, <1>2
  <2> HIDE DEF a
  <2> QED BY <1>1, <1>2, <2>1, <2>3, <2>4 DEF SmallerSide
<1>4. /\ DOMAIN e = D
      /\ e[c] = balances[c] - a /\ e[d] = balances[d] + a
      /\ \A u \in D \ {c, d} : e[u] = balances[u]
  BY <1>1 DEF Rest
<1> HIDE DEF a, e
<1>5. \A u \in D : WholeCent(e[u])
  BY <1>1, <1>2, <1>3, <1>4, CentFacts
<1>6. a \in Int /\ a % Cent = 0
  BY <1>3 DEF WholeCent
<1>7. Sum(e, D) = 0
  <2>1. IsFiniteSet(D) /\ Sum(balances, D) = 0
    BY UsersFinite, FS_Subset DEF GoodBalances
  <2> QED BY <1>1, <1>2, <1>4, <1>6, <2>1, SumMoved
<1>8. balances' = Significant(e) /\ results' = Append(results, NewDebt(c, d))
  BY DEF Match, Rest, Paid, NewDebt, e
<1>9. D \subseteq Users
  BY DEF GoodBalances
<1>10. /\ GoodBalances(balances')
       /\ DOMAIN balances' = {u \in D : e[u] # 0}
       /\ \A u \in DOMAIN balances' : balances'[u] = e[u]
  BY <1>4, <1>5, <1>7, <1>8, <1>9, SignificantGood
<1>11. e[c] = 0 \/ e[d] = 0
  BY <1>2, <1>1, <1>3, <1>4
<1> QED BY <1>1, <1>3, <1>6, <1>8, <1>10, <1>11 DEF a, e

-------------------------------------------------------------------------------
(* The invariant *)

\* It holds before the first iteration: nobody is named, and the working copy is
\* the balances that are not zero.
LEMMA InitInv == Init => IInv
<1> SUFFICES ASSUME Init PROVE IInv
  OBVIOUS
<1> DEFINE net == net_balances
<1>1. net \in Nets /\ net \in [Users -> Int] /\ \A u \in Users : WholeCent(net[u])
  BY NetsAssumption, WholeCents DEF Init, WholeCent
<1>2. Sum(net, DOMAIN net) = 0
  BY <1>1, NetsBalance DEF Sum, SumFunction
<1>3. /\ GoodBalances(balances)
      /\ DOMAIN balances = Unsettled
  <2>1. DOMAIN net = Users /\ balances = Significant(net)
    BY <1>1 DEF Init
  <2>2. GoodBalances(balances) /\ DOMAIN balances = {u \in DOMAIN net : net[u] # 0}
    BY <1>1, <1>2, <2>1, SignificantGood
  <2> QED BY <2>1, <2>2 DEF Unsettled
<1>4. results = <<>> /\ Len(results) = 0 /\ DOMAIN results = {} /\ pc = "loop"
  BY DEF Init
<1>5. Cardinality(Unsettled) \in Nat
  BY UsersFinite, FS_Subset, FS_CardinalityType DEF Unsettled
<1>6. Named = {}
  BY <1>4 DEF Named
<1> QED BY <1>1, <1>3, <1>4, <1>5, <1>6 DEF IInv

\* An iteration names two people and settles one of them, or both when they are
\* the last two.
LEMMA IterateInv == IInv /\ Iterate => IInv'
<1> SUFFICES ASSUME IInv, pc = "loop",
                    NEW c \in MaxOf(balances), NEW d \in MinOf(balances), Match(c, d)
             PROVE  IInv'
  BY DEF Iterate
<1> DEFINE a == Paid(c, d)
           e == Rest(c, d)
           D == DOMAIN balances
<1>1. /\ c \in D /\ d \in D /\ c # d
      /\ a \in Nat /\ a > 0 /\ a % Cent = 0
      /\ e[c] = 0 \/ e[d] = 0
      /\ results' = Append(results, NewDebt(c, d))
      /\ GoodBalances(balances)'
      /\ DOMAIN balances' = {u \in D : e[u] # 0}
  BY OneDebt DEF IInv, GoodBalances
<1>2. /\ D \subseteq Users /\ \A u \in D : balances[u] # 0
      /\ \A u \in D \ {c, d} : e[u] = balances[u]
  BY <1>1 DEF IInv, GoodBalances, Rest
<1>3. UNCHANGED <<net_balances, pc>> /\ Unsettled' = Unsettled
  BY DEF Match, Unsettled
<1> HIDE DEF a, e
<1>4. /\ results' \in Seq(Debt) /\ Len(results') = Len(results) + 1
      /\ Len(results) \in Nat
  BY <1>1, <1>2 DEF IInv, Debt, NewDebt, a
<1>5. \A i \in DOMAIN results' : results'[i].amount > 0 /\ results'[i].amount % Cent = 0
  BY <1>1 DEF IInv, NewDebt, a
<1>6. Named' = Named \cup {c, d}
  <2>1. DOMAIN results' = DOMAIN results \cup {Len(results) + 1}
    BY <1>1 DEF IInv
  <2>2. \A i \in DOMAIN results : results'[i] = results[i]
    BY <1>1 DEF IInv
  <2>3. results'[Len(results) + 1] = NewDebt(c, d)
    BY <1>1 DEF IInv
  <2> QED BY <1>1, <1>2, <2>1, <2>2, <2>3 DEF Named, NewDebt
<1>7. /\ DOMAIN balances' \subseteq D
      /\ c \notin DOMAIN balances' \/ d \notin DOMAIN balances'
      /\ D \subseteq DOMAIN balances' \cup {c, d}
  BY <1>1, <1>2
<1>8. /\ Len(results') + Cardinality(DOMAIN balances') <= Cardinality(Unsettled)
      /\ Len(results') < Cardinality(Unsettled)
  <2> DEFINE E == DOMAIN balances'
  <2>1. /\ IsFiniteSet(D) /\ IsFiniteSet(E)
        /\ Cardinality(D) \in Nat /\ Cardinality(E) \in Nat
        /\ Cardinality(Unsettled) \in Nat
        /\ Cardinality(E) = 0 <=> E = {}
    <3>1. IsFiniteSet(D) /\ IsFiniteSet(E) /\ IsFiniteSet(Unsettled)
      BY <1>2, <1>7, UsersFinite, FS_Subset DEF Unsettled
    <3> QED BY <3>1, FS_CardinalityType, FS_EmptySet
  <2>2. Cardinality(E) <= Cardinality(D) - 1
    <3>1. PICK x \in D : x \notin E
      BY <1>1, <1>7
    <3>2. Cardinality(D \ {x}) = Cardinality(D) - 1 /\ IsFiniteSet(D \ {x})
      BY <2>1, <3>1, FS_RemoveElement
    <3>3. E \in SUBSET (D \ {x})
      BY <1>7, <3>1
    <3> HIDE DEF E, D
    <3>4. Cardinality(E) <= Cardinality(D \ {x})
      BY <3>2, <3>3, FS_Subset
    <3> QED BY <3>2, <3>4
  <2>3. Cardinality(D) >= 2
    <3>1. Cardinality(D \ {c}) = Cardinality(D) - 1 /\ IsFiniteSet(D \ {c}) /\ d \in D \ {c}
      BY <1>1, <2>1, FS_RemoveElement
    <3>2. Cardinality(D \ {c}) # 0 /\ Cardinality(D \ {c}) \in Nat
      BY <3>1, FS_EmptySet, FS_CardinalityType
    <3> HIDE DEF D
    <3> QED BY <2>1, <3>1, <3>2
  <2>4. Len(results) + Cardinality(D) <= Cardinality(Unsettled)
    BY DEF IInv
  <2>5. Len(results) \in Nat /\ Len(results') = Len(results) + 1
    BY <1>4
  <2> HIDE DEF E, D
  <2>6. Len(results') + Cardinality(E) <= Cardinality(Unsettled)
    BY <2>1, <2>2, <2>4, <2>5
  <2>7. Len(results') < Cardinality(Unsettled)
    <3>1. CASE Cardinality(E) = 0
      BY <2>1, <2>3, <2>4, <2>5, <3>1
    <3>2. CASE Cardinality(E) # 0
      BY <2>1, <2>5, <2>6, <3>2
    <3> QED BY <3>1, <3>2
  <2> QED BY <2>6, <2>7 DEF E
<1>9. /\ DOMAIN balances' \subseteq Unsettled
      /\ Named' \subseteq Unsettled
      /\ Unsettled \subseteq Named' \cup DOMAIN balances'
  BY <1>1, <1>6, <1>7 DEF IInv
<1>10. net_balances' \in Nets /\ pc' = "loop"
  BY <1>3 DEF IInv
<1> QED BY <1>1, <1>3, <1>4, <1>5, <1>8, <1>9, <1>10 DEF IInv

\* The function returns only when nobody is left.
LEMMA ReturnInv == IInv /\ Return => IInv'
<1> SUFFICES ASSUME IInv, Return PROVE IInv'
  OBVIOUS
<1>1. DOMAIN balances = {}
  <2> SUFFICES ASSUME DOMAIN balances # {} PROVE FALSE
    OBVIOUS
  <2>1. IsFiniteSet(DOMAIN balances) /\ \A u \in DOMAIN balances : balances[u] \in Int
    BY UsersFinite, FS_Subset DEF IInv, GoodBalances, WholeCent
  <2>2. PICK c \in MaxOf(balances), d \in MinOf(balances) : TRUE
    BY <2>1, Extremes
  <2>3. balances[c] >= 10
    BY <2>2, BothSides DEF IInv
  <2> QED BY <2>1, <2>2, <2>3, BothSides DEF Return, Finished, Threshold, IInv
<1>2. UNCHANGED <<net_balances, balances, results>> /\ pc' = "return"
  BY DEF Return
<1>3. Unsettled' = Unsettled /\ Named' = Named
  BY <1>2 DEF Unsettled, Named
<1> QED BY <1>1, <1>2, <1>3 DEF IInv, GoodBalances

\* It is about nothing but these variables.
LEMMA StutterInv == IInv /\ UNCHANGED vars => IInv'
BY DEF IInv, vars, GoodBalances, Unsettled, Named

\* Every reachable state satisfies the invariant.
LEMMA Invariant == Spec => []IInv
<1>1. IInv /\ [Next]_vars => IInv'
  BY StutterInv, IterateInv, ReturnInv DEF Next
<1> QED BY <1>1, InitInv, PTL DEF Spec

-------------------------------------------------------------------------------
(* What the debts explain *)

Debts == Range(results)

\* What a set of debts comes to is a sum over the set.
LEMMA TotalSum == ASSUME NEW D PROVE Total(D) = Sum([x \in D |-> x.amount], D)
<1> DEFINE f == [x \in D |-> x.amount]
<1>1. DOMAIN f = D
  OBVIOUS
<1> HIDE DEF f
<1>2. SumFunction(f) = Sum(f, D)
  BY <1>1, SumOfFunction
<1> QED BY <1>2 DEF Total, f

\* Every debt has settled one of its two ends, so it is never made a second time;
\* and the balance of any set of users is what they have left plus what others owe
\* them less what they owe others.
FlowInv == /\ \A x \in Debts : x.from # x.to /\ {x.from, x.to} \cap DOMAIN balances # {x.from, x.to}
           /\ \A L \in SUBSET Users :
                Sum(net_balances, L) = Sum(Open, L) + Total(Into(L)) - Total(OutOf(L))

\* The debts are finitely many, of integer amounts, and so are those of any kind.
LEMMA DebtsFinite ==
  ASSUME results \in Seq(Debt)
  PROVE  /\ IsFiniteSet(Debts) /\ Debts \subseteq Debt
         /\ \A D \in SUBSET Debts : IsFiniteSet(D) /\ Total(D) \in Int
<1> DEFINE I == 1..Len(results)
<1>1. Debts = {results[i] : i \in I} /\ Len(results) \in Nat
  BY DEF Debts, Range
<1>2. IsFiniteSet(Debts)
  <2>1. IsFiniteSet(I)
    BY <1>1, FS_Interval
  <2> DEFINE f == [i \in I |-> results[i]]
  <2>2. f \in Surjection(I, Debts)
    BY <1>1 DEF Surjection
  <2> HIDE DEF I, f
  <2> QED BY <2>1, <2>2, FS_Surjection
<1>3. Debts \subseteq Debt
  BY <1>1
<1>4. ASSUME NEW D \in SUBSET Debts PROVE IsFiniteSet(D) /\ Total(D) \in Int
  <2>1. IsFiniteSet(D)
    BY <1>2, FS_Subset
  <2>2. \A x \in D : [y \in D |-> y.amount][x] \in Int
    BY <1>3 DEF Debt
  <2> QED BY <2>1, <2>2, SumInt, TotalSum
<1> QED BY <1>2, <1>3, <1>4

\* One debt more.
LEMMA TotalInsert ==
  ASSUME NEW D, IsFiniteSet(D), \A y \in D : y.amount \in Int,
         NEW x, x \notin D, x.amount \in Int
  PROVE  Total(D \cup {x}) = Total(D) + x.amount
<1> DEFINE E == D \cup {x}
           f == [y \in E |-> y.amount]
           g == [y \in D |-> y.amount]
<1>1. \A y \in E : f[y] \in Int
  OBVIOUS
<1>2. f[x] = x.amount /\ \A y \in D : g[y] \in Int /\ f[y] = g[y]
  OBVIOUS
<1> HIDE DEF f, g
<1>3. Sum(f, E) = f[x] + Sum(f, D)
  BY <1>1, SumInsert
<1>4. Sum(f, D) = Sum(g, D) /\ Sum(g, D) \in Int
  BY <1>2, SumSame, SumInt
<1>5. Total(E) = Sum(f, E) /\ Total(D) = Sum(g, D)
  BY TotalSum DEF f, g
<1> QED BY <1>2, <1>3, <1>4, <1>5

\* An iteration moves what is open from the creditor to the debtor.
LEMMA OpenMoves ==
  ASSUME IInv, NEW c \in MaxOf(balances), NEW d \in MinOf(balances), Match(c, d)
  PROVE  LET a == Paid(c, d)
         IN  /\ c \in Users /\ d \in Users /\ c # d
             /\ a \in 1..Open[c] /\ a <= - Open[d]
             /\ Open' = [Open EXCEPT ![d] = @ + a, ![c] = @ - a]
             /\ results' = Append(results, NewDebt(c, d))
<1> DEFINE a == Paid(c, d)
           e == Rest(c, d)
           D == DOMAIN balances
<1>1. /\ c \in D /\ d \in D /\ c # d /\ a \in Nat /\ a > 0
      /\ a <= balances[c] /\ a <= - balances[d]
      /\ results' = Append(results, NewDebt(c, d))
      /\ DOMAIN balances' = {u \in D : e[u] # 0}
      /\ \A u \in DOMAIN balances' : balances'[u] = e[u]
  BY OneDebt DEF IInv
<1>2. D \subseteq Users /\ \A u \in D : balances[u] \in Int
  BY DEF IInv, GoodBalances, WholeCent
<1>3. /\ e[c] = balances[c] - a /\ e[d] = balances[d] + a
      /\ \A u \in D \ {c, d} : e[u] = balances[u]
  BY <1>1 DEF Rest
<1> HIDE DEF a, e
<1>4. c \in Users /\ d \in Users /\ Open[c] = balances[c] /\ Open[d] = balances[d]
  BY <1>1, <1>2 DEF Open
<1>5. \A u \in Users : Open'[u] = IF u \in DOMAIN balances' THEN balances'[u] ELSE 0
  BY DEF Open
<1>6. \A u \in D : Open'[u] = e[u]
  BY <1>1, <1>2, <1>5
<1>7. \A u \in Users \ D : Open'[u] = Open[u]
  BY <1>1, <1>5 DEF Open
<1>8. \A u \in Users : Open'[u] = [Open EXCEPT ![d] = @ + a, ![c] = @ - a][u]
  <2> SUFFICES ASSUME NEW u \in Users
               PROVE  Open'[u] = [Open EXCEPT ![d] = @ + a, ![c] = @ - a][u]
    OBVIOUS
  <2>1. DOMAIN Open = Users
    BY DEF Open
  <2>2. CASE u \in {c, d}
    BY <1>1, <1>3, <1>4, <1>6, <2>1, <2>2
  <2>3. CASE u \in D \ {c, d}
    <3>1. Open[u] = balances[u]
      BY <2>3 DEF Open
    <3> QED BY <1>3, <1>6, <2>1, <2>3, <3>1
  <2>4. CASE u \notin D
    BY <1>1, <1>7, <2>1, <2>4
  <2> QED BY <2>2, <2>3, <2>4
<1>9. Open' = [Open EXCEPT ![d] = @ + a, ![c] = @ - a]
  BY <1>8 DEF Open
<1>10. a \in 1..Open[c] /\ a <= - Open[d]
  BY <1>1, <1>2, <1>4
<1> QED BY <1>1, <1>4, <1>9, <1>10 DEF a

\* Before the first iteration everything is open and there are no debts.
LEMMA InitFlow == Init => FlowInv
<1> SUFFICES ASSUME Init PROVE FlowInv
  OBVIOUS
<1>1. Debts = {} /\ Open = net_balances
  <2>1. net_balances \in [Users -> Int] /\ \A u \in Users : WholeCent(net_balances[u])
    BY NetsAssumption, WholeCents DEF Init, WholeCent
  <2>2. \A u \in Users : Abs(net_balances[u]) >= Threshold <=> net_balances[u] # 0
    BY <2>1, CentFacts
  <2>3. \A u \in Users : Open[u] = net_balances[u]
    BY <2>1, <2>2 DEF Init, Significant, Open
  <2> QED BY <2>1, <2>3 DEF Init, Open, Debts, Range
<1>2. ASSUME NEW L \in SUBSET Users
      PROVE  Sum(net_balances, L) = Sum(Open, L) + Total(Into(L)) - Total(OutOf(L))
  <2>1. Into(L) = {} /\ OutOf(L) = {} /\ Total({}) = 0
    BY <1>1, SumEmpty, TotalSum DEF Into, OutOf, Debts
  <2>2. Sum(net_balances, L) \in Int
    <3>1. IsFiniteSet(L) /\ \A u \in L : net_balances[u] \in Int
      BY UsersFinite, FS_Subset, NetsAssumption DEF Init
    <3> QED BY <3>1, SumInt
  <2> QED BY <1>1, <2>1, <2>2
<1> QED BY <1>1, <1>2 DEF FlowInv

\* The new debt moves money within a set of users, into it, out of it or outside,
\* by what the set has less or more open.
LEMMA IterateFlow == IInv /\ FlowInv /\ Iterate => FlowInv'
<1> SUFFICES ASSUME IInv, FlowInv,
                    NEW c \in MaxOf(balances), NEW d \in MinOf(balances), Match(c, d)
             PROVE  FlowInv'
  BY DEF Iterate
<1> DEFINE a == Paid(c, d)
           x == NewDebt(c, d)
           D == DOMAIN balances
<1>1. /\ c \in Users /\ d \in Users /\ c # d
      /\ a \in Int /\ a <= Open[c] /\ a <= - Open[d]
      /\ Open' = [Open EXCEPT ![d] = @ + a, ![c] = @ - a]
      /\ results' = Append(results, x)
  BY OpenMoves
<1>2. /\ c \in D /\ d \in D
      /\ DOMAIN balances' \subseteq D
      /\ c \notin DOMAIN balances' \/ d \notin DOMAIN balances'
  BY OneDebt DEF IInv
<1>3. x.from = d /\ x.to = c /\ x.amount = a
  BY DEF NewDebt
<1>4. Debts' = Debts \cup {x} /\ net_balances' = net_balances
  <2> HIDE DEF x
  <2>1. DOMAIN results' = DOMAIN results \cup {Len(results) + 1}
    BY <1>1 DEF IInv
  <2>2. \A i \in DOMAIN results : results'[i] = results[i]
    BY <1>1 DEF IInv
  <2>3. results'[Len(results) + 1] = x
    BY <1>1 DEF IInv
  <2> QED BY <2>1, <2>2, <2>3 DEF Debts, Range, Match
<1>5. x \notin Debts
  BY <1>2, <1>3 DEF FlowInv
<1> HIDE DEF a, x, D
<1>6. \A y \in Debts' : y.from # y.to /\ {y.from, y.to} \cap DOMAIN balances' # {y.from, y.to}
  <2> SUFFICES ASSUME NEW y \in Debts'
               PROVE  y.from # y.to /\ {y.from, y.to} \cap DOMAIN balances' # {y.from, y.to}
    OBVIOUS
  <2>1. CASE y = x
    BY <1>1, <1>2, <1>3, <2>1
  <2>2. CASE y \in Debts
    BY <1>2, <2>2 DEF FlowInv, D
  <2> QED BY <1>4, <2>1, <2>2
<1>7. ASSUME NEW L \in SUBSET Users
      PROVE  Sum(net_balances, L) = Sum(Open', L) + Total(Into(L)') - Total(OutOf(L)')
  <2>1. /\ Sum(net_balances, L) = Sum(Open, L) + Total(Into(L)) - Total(OutOf(L))
        /\ Sum(Open, L) \in Int /\ Total(Into(L)) \in Int /\ Total(OutOf(L)) \in Int
        /\ IsFiniteSet(L) /\ IsFiniteSet(Into(L)) /\ IsFiniteSet(OutOf(L))
        /\ \A y \in Debts : y.amount \in Int
        /\ \A u \in Users : Open[u] \in Int
    <3>1. Into(L) \in SUBSET Debts /\ OutOf(L) \in SUBSET Debts
      BY DEF Into, OutOf, Debts
    <3>2. IsFiniteSet(L) /\ \A u \in Users : Open[u] \in Int
      BY UsersFinite, FS_Subset DEF Open, IInv, GoodBalances, WholeCent
    <3>3. Sum(Open, L) \in Int
      BY <3>2, SumInt
    <3> QED BY <3>1, <3>2, <3>3, DebtsFinite DEF FlowInv, IInv, Debt
  <2>2. /\ Open'[c] = Open[c] - a /\ Open'[d] = Open[d] + a
        /\ \A u \in Users \ {c, d} : Open'[u] = Open[u]
        /\ \A u \in Users : Open'[u] \in Int
    <3>1. DOMAIN Open = Users
      BY DEF Open
    <3>2. Open'[c] = Open[c] - a /\ Open'[d] = Open[d] + a
      BY <1>1, <3>1
    <3>3. \A u \in Users \ {c, d} : Open'[u] = Open[u]
      BY <1>1, <3>1
    <3>4. a \in Int /\ c \in Users /\ d \in Users
      BY <1>1
    <3> QED BY <2>1, <3>2, <3>3, <3>4
  <2>3. x \notin Into(L) /\ x \notin OutOf(L)
    BY <1>5 DEF Into, OutOf, Debts
  <2>4. /\ Into(L)' = IF c \in L /\ d \notin L THEN Into(L) \cup {x} ELSE Into(L)
        /\ OutOf(L)' = IF d \in L /\ c \notin L THEN OutOf(L) \cup {x} ELSE OutOf(L)
    BY <1>3, <1>4 DEF Into, OutOf, Debts
  <2>5. /\ Total(Into(L) \cup {x}) = Total(Into(L)) + a
        /\ Total(OutOf(L) \cup {x}) = Total(OutOf(L)) + a
    <3>1. (\A y \in Into(L) : y.amount \in Int) /\ (\A y \in OutOf(L) : y.amount \in Int)
      BY <2>1 DEF Into, OutOf, Debts
    <3> QED BY <1>1, <1>3, <2>1, <2>3, <3>1, TotalInsert
  <2>6. CASE c \in L /\ d \in L
    <3>1. \A u \in L : Open[u] \in Int
      BY <2>1
    <3>2. c # d /\ Open'[c] = Open[c] - a /\ Open'[d] = Open[d] + a /\ a \in Int
          /\ \A u \in L \ {c, d} : Open'[u] = Open[u]
      BY <1>1, <2>2
    <3>3. Sum(Open', L) = Sum(Open, L)
      BY <2>1, <2>6, <3>1, <3>2, SumMoved
    <3> QED BY <2>1, <2>4, <2>6, <3>3
  <2>7. CASE c \notin L /\ d \notin L
    <3>1. Sum(Open', L) = Sum(Open, L)
      BY <2>1, <2>2, <2>7, SumSame
    <3> QED BY <2>1, <2>4, <2>7, <3>1
  <2>8. ASSUME NEW u \in L, NEW k \in Int, Open'[u] = Open[u] + k,
               \A v \in L \ {u} : Open'[v] = Open[v]
        PROVE  Sum(Open', L) = Sum(Open, L) + k
    <3> DEFINE R == L \ {u}
    <3>1. (\A v \in L : Open[v] \in Int) /\ (\A v \in L : Open'[v] \in Int) /\ u \in L
      BY <2>1, <2>2
    <3>2. Sum(Open, L) = Open[u] + Sum(Open, R) /\ Sum(Open', L) = Open'[u] + Sum(Open', R)
      BY <2>1, <3>1, SumRemove
    <3>3. IsFiniteSet(R) /\ \A v \in R : Open[v] \in Int /\ Open'[v] = Open[v]
      BY <2>1, <2>8, <3>1, FS_Subset
    <3> HIDE DEF R
    <3>4. Sum(Open', R) = Sum(Open, R) /\ Sum(Open, R) \in Int
      BY <3>3, SumSame, SumInt
    <3> QED BY <2>8, <3>1, <3>2, <3>4
  <2>9. CASE c \in L /\ d \notin L
    <3>1. Sum(Open', L) = Sum(Open, L) + (- a)
      <4>1. \A v \in L \ {c} : Open'[v] = Open[v]
        BY <2>2, <2>9
      <4>2. a \in Int /\ Open[c] \in Int /\ Open'[c] = Open[c] - a
        BY <1>1, <2>1, <2>2
      <4>3. - a \in Int /\ Open'[c] = Open[c] + (- a)
        BY <4>2
      <4> QED BY <2>8, <2>9, <4>1, <4>3
    <3> QED BY <1>1, <2>1, <2>4, <2>5, <2>9, <3>1
  <2>10. CASE d \in L /\ c \notin L
    <3>1. Sum(Open', L) = Sum(Open, L) + a
      <4>1. \A v \in L \ {d} : Open'[v] = Open[v]
        BY <2>2, <2>10
      <4> QED BY <1>1, <2>2, <2>8, <2>10, <4>1
    <3> QED BY <1>1, <2>1, <2>4, <2>5, <2>10, <3>1
  <2> QED BY <2>6, <2>7, <2>9, <2>10
<1> QED BY <1>4, <1>6, <1>7 DEF FlowInv

\* Nothing else changes what the debts explain.
LEMMA StutterFlow ==
  FlowInv /\ UNCHANGED <<net_balances, balances, results>> => FlowInv'
BY DEF FlowInv, Debts, Into, OutOf, Open

\* Every reachable state satisfies FlowInv.
LEMMA FlowInvariant == Spec => []FlowInv
<1>1. IInv /\ FlowInv /\ [Next]_vars => FlowInv'
  BY IterateFlow, StutterFlow DEF Next, Return, vars
<1> QED BY <1>1, InitFlow, Invariant, PTL DEF Spec

\* When nobody is left, the balance of any set of users is what the debts say.
LEMMA Explained ==
  ASSUME IInv, FlowInv, pc = "return", NEW L \in SUBSET Users
  PROVE  Sum(net_balances, L) = Total(Into(L)) - Total(OutOf(L))
<1>1. IsFiniteSet(L) /\ \A u \in L : Open[u] = 0
  BY UsersFinite, FS_Subset DEF IInv, Open
<1>2. Sum(Open, L) = 0
  BY <1>1, SumZero
<1>3. Total(Into(L)) \in Int /\ Total(OutOf(L)) \in Int
  <2>1. Into(L) \in SUBSET Debts /\ OutOf(L) \in SUBSET Debts
    BY DEF Into, OutOf, Debts
  <2> QED BY <2>1, DebtsFinite DEF IInv
<1> QED BY <1>2, <1>3 DEF FlowInv

-------------------------------------------------------------------------------
(* The theorems *)

\* TypeOK: the argument is never written, and every debt of the result is a whole
\* positive number of cents between two users.
THEOREM TypeCorrect == Spec => []TypeOK
<1>1. IInv => TypeOK
  <2> SUFFICES ASSUME IInv PROVE TypeOK
    OBVIOUS
  <2>1. \A i \in DOMAIN results : results[i] \in Debt
    BY DEF IInv
  <2> QED BY <2>1 DEF IInv, TypeOK, GoodBalances, WholeCent, Debt
<1> QED BY <1>1, Invariant, PTL

\* AtMostNMinus1: the bound of _simplify_debts' docstring, n - 1 debts among the n
\* people whose balance is not zero.
THEOREM FewDebts == Spec => []AtMostNMinus1
<1>1. IInv => AtMostNMinus1
  BY DEF IInv, AtMostNMinus1
<1> QED BY <1>1, Invariant, PTL

\* NamesTheUnsettled: when _simplify_debts returns, nobody with a balance has been
\* left out and nobody without one has been drawn in.
THEOREM DebtsNameTheUnsettled == Spec => []NamesTheUnsettled
<1>1. IInv => NamesTheUnsettled
  BY DEF IInv, NamesTheUnsettled
<1> QED BY <1>1, Invariant, PTL

\* DebtsExplainBalances: whatever users a report is read for, the debts of
\* _simplify_debts add up to what they are owed or owe.
THEOREM DebtsExplain == Spec => []DebtsExplainBalances
<1>1. IInv /\ FlowInv => DebtsExplainBalances
  BY Explained DEF DebtsExplainBalances, Sum
<1> QED BY <1>1, Invariant, FlowInvariant, PTL

\* Nobody is left in the working copy when the loop has ended.
NothingLeft == pc = "return" => DOMAIN balances = {}

\* NothingLeft: the early break of _simplify_debts, taken when both sides are near
\* zero, never leaves anybody with an open balance.
THEOREM ReturnsSettled == Spec => []NothingLeft
<1>1. IInv => NothingLeft
  BY DEF IInv, NothingLeft
<1> QED BY <1>1, Invariant, PTL

\* As long as anybody has a balance, whoever max and min choose, one is owed a cent
\* or more and the other owes as much.
CanGoOn == pc = "loop" /\ DOMAIN balances # {}
             => /\ MaxOf(balances) # {} /\ MinOf(balances) # {}
                /\ \A c \in MaxOf(balances), d \in MinOf(balances) :
                     c # d /\ balances[c] >= Cent /\ balances[d] <= -Cent

\* CanGoOn: _simplify_debts is never at a loss for a creditor or a debtor, and never
\* breaks while somebody has a balance.
THEOREM NeverStuck == Spec => []CanGoOn
<1>1. IInv => CanGoOn
  <2> SUFFICES ASSUME IInv, DOMAIN balances # {}
               PROVE  /\ MaxOf(balances) # {} /\ MinOf(balances) # {}
                      /\ \A c \in MaxOf(balances), d \in MinOf(balances) :
                           c # d /\ balances[c] >= Cent /\ balances[d] <= -Cent
    BY DEF CanGoOn
  <2>1. GoodBalances(balances)
    BY DEF IInv
  <2>2. IsFiniteSet(DOMAIN balances) /\ \A u \in DOMAIN balances : balances[u] \in Int
    BY <2>1, UsersFinite, FS_Subset DEF GoodBalances, WholeCent
  <2> QED BY <2>1, <2>2, Extremes, BothSides DEF Cent
<1> QED BY <1>1, Invariant, PTL

\* Somebody is settled completely, and nobody comes back.
SettlesSomebody == [][Iterate => /\ DOMAIN balances' \subseteq DOMAIN balances
                                 /\ Cardinality(DOMAIN balances') < Cardinality(DOMAIN balances)
                                 /\ Cardinality(DOMAIN balances) \in Nat]_vars

\* SettlesSomebody: "Each iteration settles at least one person completely", so the
\* number of people left falls with every iteration of the loop.
THEOREM EveryIterationSettles == Spec => SettlesSomebody
<1>1. IInv /\ [Next]_vars
        => [Iterate => /\ DOMAIN balances' \subseteq DOMAIN balances
                       /\ Cardinality(DOMAIN balances') < Cardinality(DOMAIN balances)
                       /\ Cardinality(DOMAIN balances) \in Nat]_vars
  <2> SUFFICES ASSUME IInv, NEW c \in MaxOf(balances), NEW d \in MinOf(balances), Match(c, d)
               PROVE  /\ DOMAIN balances' \subseteq DOMAIN balances
                      /\ Cardinality(DOMAIN balances') < Cardinality(DOMAIN balances)
                      /\ Cardinality(DOMAIN balances) \in Nat
    BY DEF Iterate
  <2> DEFINE D == DOMAIN balances
             E == DOMAIN balances'
  <2>1. /\ GoodBalances(balances) /\ IsFiniteSet(D)
        /\ E \in SUBSET D /\ \E x \in D : x \notin E
    <3>1. GoodBalances(balances) /\ IsFiniteSet(D)
      BY UsersFinite, FS_Subset DEF IInv, GoodBalances
    <3> QED BY <3>1, OneDebt
  <2> HIDE DEF D, E
  <2>2. PICK x \in D : x \notin E
    BY <2>1
  <2>3. /\ Cardinality(D \ {x}) = Cardinality(D) - 1 /\ IsFiniteSet(D \ {x})
        /\ E \in SUBSET (D \ {x}) /\ Cardinality(D) \in Nat
    BY <2>1, <2>2, FS_RemoveElement, FS_CardinalityType
  <2>4. Cardinality(E) <= Cardinality(D \ {x}) /\ Cardinality(E) \in Nat
    BY <2>3, FS_Subset, FS_CardinalityType
  <2>5. E \subseteq D /\ Cardinality(E) < Cardinality(D) /\ Cardinality(D) \in Nat
    BY <2>1, <2>3, <2>4
  <2> QED BY <2>5 DEF D, E
<1> QED BY <1>1, Invariant, PTL DEF Spec, SettlesSomebody

\* ImplementsPlan without its fairness, which is a matter of liveness.
PlanSafety == Plan!PlanInit /\ [][Plan!PlanNext]_<<Open, results>>

\* PlanSafety: every iteration of _simplify_debts is one transfer of the settling
\* plan, from somebody who owes to somebody who is owed and never more than either
\* has left.
THEOREM DebtsFollowPlan == Spec => PlanSafety
<1>1. Init => Plan!PlanInit
  <2> SUFFICES ASSUME Init PROVE Open = net_balances /\ results = <<>> /\ net_balances \in Nets
    BY DEF Plan!PlanInit
  <2>1. net_balances \in [Users -> Int] /\ net_balances \in Nets
    BY NetsAssumption DEF Init
  <2>2. \A u \in Users : WholeCent(net_balances[u])
    BY <2>1, WholeCents DEF WholeCent
  <2>3. \A u \in Users : Abs(net_balances[u]) >= Threshold <=> net_balances[u] # 0
    BY <2>2, CentFacts
  <2>4. \A u \in Users : Open[u] = net_balances[u]
    BY <2>1, <2>3 DEF Init, Significant, Open
  <2>5. Open = net_balances
    BY <2>1, <2>4 DEF Open
  <2> QED BY <2>1, <2>5 DEF Init
<1>2. IInv /\ [Next]_vars => [Plan!PlanNext]_<<Open, results>>
  <2> SUFFICES ASSUME IInv, [Next]_vars PROVE [Plan!PlanNext]_<<Open, results>>
    OBVIOUS
  <2>1. CASE Return \/ UNCHANGED vars
    BY <2>1 DEF Return, vars, Open
  <2>2. ASSUME NEW c \in MaxOf(balances), NEW d \in MinOf(balances), Match(c, d)
        PROVE  Plan!PlanNext
    <3> DEFINE a == Paid(c, d)
    <3>1. /\ c \in Users /\ d \in Users /\ a \in 1..Open[c] /\ a <= - Open[d]
          /\ Open' = [Open EXCEPT ![d] = @ + a, ![c] = @ - a]
          /\ results' = Append(results, [from |-> d, to |-> c, amount |-> a])
      BY <2>2, OpenMoves DEF NewDebt
    <3> HIDE DEF a
    <3>2. a <= Open[c]
      BY <3>1 DEF Open, IInv, GoodBalances, WholeCent
    <3>3. Plan!Transfer(d, c, a)
      BY <3>1, <3>2 DEF Plan!Transfer
    <3> QED BY <3>1, <3>3 DEF Plan!PlanNext
  <2> QED BY <2>1, <2>2 DEF Next, Iterate
<1> QED BY <1>1, <1>2, Invariant, PTL DEF Spec, PlanSafety
===============================================================================
