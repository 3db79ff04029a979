------------------------------ MODULE SplitProofs ------------------------------
(***************************************************************************)
(* The guarantees of _calculate_splits for every set of users, every total *)
(* and every accepted list of splits.                                      *)
(***************************************************************************)
EXTENDS SplitCalculation, MoneyLemmas

\* What is known of a call: its arguments are valid, and a returned result is the
\* one computed from them.
CallOK == /\ form \in Forms
          /\ status \in {"called", "returned", "ValueError"}
          /\ status = "returned" =>
               /\ Accepts(form.total, form.kind, form.value)
               /\ owed = Shares(form.total, form.kind, form.value, form.last)

\* The call starts in good order and stays so.
LEMMA CallOKInvariant == Spec => []CallOK
<1>1. Init => CallOK
  BY DEF Init, CallOK
<1>2. CallOK /\ [Calculate]_vars => CallOK'
  <2> SUFFICES ASSUME CallOK, [Calculate]_vars PROVE CallOK'
    OBVIOUS
  <2>1. CASE Calculate
    BY <2>1 DEF CallOK, Calculate
  <2>2. CASE UNCHANGED vars
    BY <2>2 DEF CallOK, vars
  <2> QED BY <2>1, <2>2
<1> QED BY <1>1, <1>2, PTL DEF Spec

\* Whatever is divided among whomever, the shares add up to the total and no
\* share is negative: "guarantee sum == total" in _calculate_splits.
THEOREM SharesAlwaysAddUp == Spec => []SharesAddUp
<1>1. CallOK => SharesAddUp
  <2> SUFFICES ASSUME CallOK, status = "returned"
               PROVE  SumFunction(owed) = form.total /\ \A u \in DOMAIN owed : owed[u] >= 0
    BY DEF SharesAddUp
  <2>1. /\ IsFiniteSet(Users) /\ ValidForm(form, Users)
        /\ Accepts(form.total, form.kind, form.value)
        /\ owed = Shares(form.total, form.kind, form.value, form.last)
    BY FormsAssumption DEF CallOK
  <2>2. /\ \A u \in DOMAIN owed : owed[u] \in Nat
        /\ SumFunction(owed) = form.total
    BY <2>1, SharesLemma
  <2> QED BY <2>2
<1> QED BY <1>1, CallOKInvariant, PTL

-------------------------------------------------------------------------------
(* How far a share may be from the exact one.  Over(w, s, t, p) is w times the *)
(* share s, less the exact share of p parts in w of the total t.               *)

Over(w, s, t, p) == w * s - t * p

\* Rounding down loses less than a cent.
LEMMA CutFair ==
  ASSUME NEW t \in Nat, NEW p \in Nat, NEW w \in Nat \ {0}
  PROVE  LET over == Over(w, Cut(t, p, w), t, p) IN over \in Int /\ over <= 0 /\ over > - w
<1>1. t * p \in Nat
  OBVIOUS
<1>2. \A n \in Nat : n \div w \in Nat /\ w * (n \div w) - n <= 0 /\ w * (n \div w) - n > - w
  OBVIOUS
<1>3. Cut(t, p, w) = (t * p) \div w
  BY DEF Cut
<1> DEFINE n == t * p
<1>4. w * (n \div w) \in Int /\ n \in Int
  BY <1>1, <1>2
<1> QED BY <1>1, <1>2, <1>3, <1>4 DEF Over

\* Equal shares.
LEMMA EqualFair ==
  ASSUME NEW t \in Nat, NEW value, Entries(value, Users), NEW last \in DOMAIN value,
         NEW u \in DOMAIN value
  PROVE  LET n    == Count(value)
             over == Over(n, EqualShares(t, value, last)[u], t, 1)
         IN  IF u = last THEN over >= 0 /\ over <= (n - 1) * (n - 1)
                         ELSE over <= 0 /\ over > - n
<1> DEFINE n    == Count(value)
           each == Cut(t, 1, n)
           rest == t - each * n
           s    == EqualShares(t, value, last)
<1>1. n \in Nat \ {0}
  BY FormsAssumption, EntriesFacts
<1>2. each \in Nat
  BY <1>1, CutBounds
<1>3. Over(n, each, t, 1) <= 0 /\ Over(n, each, t, 1) > - n
  BY <1>1, CutFair
<1>4. s[u] = IF u = last THEN each + rest ELSE each
  BY DEF EqualShares
<1> HIDE DEF n, each, s
<1>5. CASE u # last
  BY <1>3, <1>4, <1>5 DEF n, s
<1>6. CASE u = last
  <2>1. n * each - t <= 0 /\ n * each - t > - n /\ n * each = each * n /\ n * each \in Nat
    BY <1>1, <1>2, <1>3 DEF Over
  <2>2. rest \in Nat /\ rest <= n - 1
    BY <1>1, <2>1
  <2>3. \A a \in Nat, b, c, d \in Int : c = d - a * b => a * (b + c) - d = (a - 1) * c
    <3> SUFFICES ASSUME NEW a \in Nat, NEW b \in Int, NEW d \in Int
                 PROVE  a * (b + (d - a * b)) - d = (a - 1) * (d - a * b)
      OBVIOUS
    <3>1. a * (b + (d - a * b)) = a * b + a * (d - a * b)
      OBVIOUS
    <3>2. (a - 1) * (d - a * b) = a * (d - a * b) - (d - a * b)
      OBVIOUS
    <3> QED BY <3>1, <3>2
  <2>4. Over(n, each + rest, t, 1) = (n - 1) * rest
    <3> HIDE DEF rest
    <3> QED BY <1>1, <1>2, <2>1, <2>2, <2>3 DEF Over, rest
  <2>5. (n - 1) * rest >= 0 /\ (n - 1) * rest <= (n - 1) * (n - 1)
    <3>1. \A a, b \in Nat : b <= a => a * b >= 0 /\ a * b <= a * a
      OBVIOUS
    <3> HIDE DEF rest
    <3> QED BY <1>1, <2>2, <3>1
  <2> QED BY <1>4, <1>6, <2>4, <2>5 DEF n, s
<1> QED BY <1>5, <1>6

\* Shares in proportion.
LEMMA ProRataFair ==
  ASSUME NEW t \in Nat, NEW value, Entries(value, Users), NEW last \in DOMAIN value,
         NEW u \in DOMAIN value
  PROVE  LET w    == SumFunction(value)
             over == Over(w, ProRata(t, value, last, w)[u], t, value[u])
         IN  IF u = last THEN over >= 0 /\ over <= (w - 1) * (Count(value) - 1)
                         ELSE over <= 0 /\ over > - w
<1> DEFINE D == DOMAIN value
           R == D \ {last}
           w == SumFunction(value)
           cut == [v \in R |-> Cut(t, value[v], w)]
           s == ProRata(t, value, last, w)
<1>1. /\ IsFiniteSet(D) /\ w \in Nat \ {0} /\ w = Sum(value, D)
      /\ \A v \in D : value[v] \in Nat
      /\ Count(value) = Cardinality(D)
  BY FormsAssumption, EntriesFacts, SumOfFunction DEF Count
<1>2. /\ IsFiniteSet(R) /\ Cardinality(R) = Count(value) - 1 /\ Cardinality(R) \in Nat
  BY <1>1, FS_RemoveElement, FS_CardinalityType
<1>3. s[u] = IF u = last THEN t - Sum(cut, R) ELSE cut[u]
  BY SumOfFunction DEF ProRata
<1>4. \A v \in R : /\ cut[v] \in Nat
                   /\ Over(w, cut[v], t, value[v]) <= 0
                   /\ Over(w, cut[v], t, value[v]) > - w
  <2> HIDE DEF w
  <2> QED BY <1>1, CutBounds, CutFair
<1> HIDE DEF cut, w, s
<1>5. CASE u # last
  BY <1>3, <1>4, <1>5 DEF w, s
<1>6. CASE u = last
  <2> DEFINE lost == [v \in R |-> t * value[v] - w * cut[v]]
             scaled == [v \in R |-> t * value[v]]
             taken == [v \in R |-> w * cut[v]]
             most == [v \in R |-> w - 1]
  <2>1. \A v \in R : /\ scaled[v] \in Int /\ scaled[v] = t * value[v]
                     /\ taken[v] \in Int /\ taken[v] = w * cut[v]
                     /\ lost[v] \in Nat /\ scaled[v] = lost[v] + taken[v]
                     /\ most[v] \in Int /\ lost[v] <= most[v] /\ most[v] = w - 1
    <3> SUFFICES ASSUME NEW v \in R
                 PROVE  /\ t * value[v] \in Int /\ w * cut[v] \in Int
                        /\ t * value[v] - w * cut[v] \in Nat
                        /\ t * value[v] = t * value[v] - w * cut[v] + w * cut[v]
                        /\ w - 1 \in Int /\ t * value[v] - w * cut[v] <= w - 1
      OBVIOUS
    <3>1. t * value[v] \in Int /\ w * cut[v] \in Int /\ w \in Int
      BY <1>1, <1>4
    <3>2. w * cut[v] - t * value[v] <= 0 /\ w * cut[v] - t * value[v] > - w
      BY <1>4 DEF Over
    <3> QED BY <3>1, <3>2
  <2> HIDE DEF lost, scaled, taken, most
  <2>2. Sum(scaled, R) = t * Sum(value, R) /\ Sum(taken, R) = w * Sum(cut, R)
    BY <1>1, <1>2, <1>4, <2>1, SumScale
  <2>3. Sum(scaled, R) = Sum(lost, R) + Sum(taken, R)
    <3>1. \A v \in R : lost[v] \in Int /\ taken[v] \in Int /\ scaled[v] = lost[v] + taken[v]
      BY <2>1
    <3> QED BY <1>2, <3>1, SumPlus
  <2>4. Sum(lost, R) \in Nat
    BY <1>2, <2>1, SumNat
  <2>5. Sum(lost, R) <= (w - 1) * (Count(value) - 1)
    <3>1. Sum(lost, R) <= Sum(most, R)
      BY <1>2, <2>1, SumAtMost
    <3>2. Sum(most, R) = (w - 1) * Cardinality(R)
      BY <1>1, <1>2, <2>1, SumConstant
    <3> QED BY <1>2, <3>1, <3>2
  <2>6. w = value[last] + Sum(value, R) /\ Sum(value, R) \in Nat /\ Sum(cut, R) \in Nat
    BY <1>1, <1>2, <1>4, SumRemove, SumNat
  <2>7. Over(w, t - Sum(cut, R), t, value[last]) = Sum(lost, R)
    <3>1. ASSUME NEW x \in Int, NEW y \in Int, NEW z \in Int, w = x + y
          PROVE  w * (t - z) - t * x = t * y - w * z
      <4>1. w * (t - z) = w * t - w * z
        BY <1>1
      <4>2. w * t = t * x + t * y
        BY <3>1
      <4>3. w * t \in Int /\ w * z \in Int /\ t * x \in Int /\ t * y \in Int
        BY <1>1
      <4> QED BY <4>1, <4>2, <4>3
    <3>2. w * (t - Sum(cut, R)) - t * value[last] = t * Sum(value, R) - w * Sum(cut, R)
      BY <1>1, <2>6, <3>1
    <3>3. t * Sum(value, R) - w * Sum(cut, R) = Sum(lost, R)
      <4>1. w * Sum(cut, R) \in Int
        BY <1>1, <2>6
      <4> QED BY <2>2, <2>3, <2>4, <4>1
    <3> QED BY <3>2, <3>3 DEF Over
  <2> QED BY <1>3, <1>6, <2>4, <2>5, <2>7 DEF w, s
<1> QED BY <1>5, <1>6

\* Exact amounts.
LEMMA ExactFair ==
  ASSUME NEW t \in Nat, NEW value, Entries(value, Users), Accepts(t, "exact", value),
         NEW u \in DOMAIN value
  PROVE  LET w    == SumFunction(value)
         IN  Over(w, ExactShares(value)[u], t, value[u]) = 0
<1> DEFINE share == value[u] \div 10
           w == SumFunction(value)
<1>1. value[u] \in Nat /\ value[u] % 10 = 0 /\ w = 10 * t
  BY FormsAssumption, EntriesFacts DEF Accepts, PerCent
<1>2. \A n \in Nat : n % 10 = 0 => n \div 10 \in Nat /\ n = 10 * (n \div 10)
  OBVIOUS
<1>3. share \in Nat /\ value[u] = 10 * share /\ ExactShares(value)[u] = share
  BY <1>1, <1>2 DEF ExactShares, PerCent
<1> HIDE DEF share, w
<1>4. \A a, b \in Nat : (10 * a) * b - a * (10 * b) = 0
  OBVIOUS
<1> QED BY <1>1, <1>3, <1>4 DEF Over, w

\* Nobody but the last entry pays a cent more than their exact share, or a whole
\* cent less, and the last entry's excess is bounded: ROUND_DOWN and the rule that
\* the last person absorbs the remainder.
THEOREM AlwaysFairToTheCent == Spec => []FairToTheCent
<1>1. CallOK => FairToTheCent
  <2> SUFFICES ASSUME CallOK, status = "returned", NEW u \in DOMAIN owed
               PROVE  LET over == Whole * owed[u] - form.total * Weight(u)
                      IN IF u = form.last
                           THEN over >= 0 /\ over <= (Whole - 1) * (Count(form.value) - 1)
                           ELSE over <= 0 /\ over > - Whole
    BY DEF FairToTheCent
  <2> DEFINE t == form.total
             v == form.value
  <2>1. /\ t \in Nat /\ form.kind \in Kinds /\ Entries(v, Users) /\ form.last \in DOMAIN v
        /\ Accepts(t, form.kind, v) /\ owed = Shares(t, form.kind, v, form.last)
    BY FormsAssumption DEF CallOK, ValidForm
  <2>2. u \in DOMAIN v
    BY FormsAssumption, SharesLemma DEF CallOK
  <2>3. Whole * owed[u] - t * Weight(u) = Over(Whole, owed[u], t, Weight(u))
    BY DEF Over
  <2>4. CASE form.kind = "equal"
    <3>1. /\ Whole = Count(v) /\ Weight(u) = 1
          /\ owed = EqualShares(t, v, form.last)
      BY <2>1, <2>4 DEF Whole, Weight, Shares
    <3> QED BY <2>1, <2>2, <2>3, <3>1, EqualFair
  <2>5. CASE form.kind = "exact"
    <3>1. /\ Whole = SumFunction(v) /\ Weight(u) = v[u] /\ owed = ExactShares(v)
      BY <2>1, <2>5 DEF Whole, Weight, Shares
    <3>2. Over(Whole, owed[u], t, Weight(u)) = 0
      BY <2>1, <2>2, <2>5, <3>1, ExactFair
    <3>3. Whole \in Nat \ {0} /\ Count(v) \in Nat \ {0}
      BY <2>1, <3>1, FormsAssumption, EntriesFacts
    <3>4. \A a, b \in Nat \ {0} : (a - 1) * (b - 1) >= 0
      OBVIOUS
    <3> QED BY <2>3, <3>2, <3>3, <3>4
  <2>6. CASE form.kind \in {"percentage", "shares"}
    <3>1. form.kind = "percentage" => SumFunction(v) = HundredPct
      BY <2>1 DEF Accepts
    <3>2. /\ Whole = SumFunction(v) /\ Weight(u) = v[u]
          /\ owed = ProRata(t, v, form.last, SumFunction(v))
      BY <2>1, <2>6, <3>1 DEF Whole, Weight, Shares
    <3> QED BY <2>1, <2>2, <2>3, <3>2, ProRataFair
  <2> QED BY <2>1, <2>4, <2>5, <2>6 DEF Kinds
<1> QED BY <1>1, CallOKInvariant, PTL
===============================================================================
