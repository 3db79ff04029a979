------------------------------ MODULE MoneyLemmas ------------------------------
(***************************************************************************)
(* Facts about SumFunctionOnSet (Functions): that the recursive function   *)
(* behind it exists, that it does not depend on the order in which the     *)
(* elements are taken, and how it behaves on changed, added and combined   *)
(* functions.  Balances, splits and settling plans all rest on them.       *)
(* Then what _calculate_splits computes, for every total, kind of split,   *)
(* set of users and values: natural numbers of cents that add up to the    *)
(* total.                                                                  *)
(***************************************************************************)
EXTENDS Splits, FiniteSetTheorems, WellFoundedInduction, TLAPS

\* Induction over the subsets of a finite set.  The property is given as the set
\* P of the subsets that have it.
LEMMA SubsetInduction ==
  ASSUME NEW S, IsFiniteSet(S),
         NEW P,
         \A T \in SUBSET S : (\A U \in SUBSET T : U # T => U \in P) => T \in P
  PROVE  SUBSET S \subseteq P
<1> DEFINE Bad == {T \in SUBSET S : T \notin P}
<1> SUFFICES ASSUME Bad # {} PROVE FALSE
  OBVIOUS
<1>1. Bad \subseteq FiniteSubsetsOf(S)
  BY FS_Subset DEF FiniteSubsetsOf
<1>2. IsWellFoundedOn(StrictSubsetOrdering(S), FiniteSubsetsOf(S))
  BY FS_StrictSubsetOrderingWellFounded
<1>3. PICK T \in Bad : \A U \in Bad : ~(<<U, T>> \in StrictSubsetOrdering(S))
  <2> HIDE DEF Bad
  <2> QED BY <1>1, <1>2, WFMin
<1>4. \A U \in SUBSET T : U # T => U \in P
  BY <1>3 DEF StrictSubsetOrdering
<1> QED BY <1>4

-------------------------------------------------------------------------------
(* The recursion that SumFunctionOnSet folds with: a table of the sums of f *)
(* over every subset of S.                                                  *)

Pick(T) == CHOOSE x \in T : TRUE
IsTable(g, f, S) ==
  g = [T \in SUBSET S |-> IF T = {} THEN 0 ELSE f[Pick(T)] + g[T \ {Pick(T)}]]

\* Two tables agree where both are defined.
LEMMA TableUnique ==
  ASSUME NEW S, IsFiniteSet(S), NEW f, NEW g, NEW h, IsTable(g, f, S),
         NEW R, IsTable(h, f, R), S \subseteq R
  PROVE  \A T \in SUBSET S : g[T] = h[T]
<1> DEFINE P == {T \in SUBSET S : g[T] = h[T]}
<1>1. ASSUME NEW T \in SUBSET S, \A U \in SUBSET T : U # T => U \in P
      PROVE  T \in P
  <2>1. CASE T = {}
    BY <2>1 DEF IsTable
  <2>2. CASE T # {}
    <3> DEFINE c == Pick(T)
    <3>1. c \in T
      BY <2>2 DEF Pick
    <3>2. T \ {c} \in P
      BY <3>1, <1>1
    <3>3. g[T] = f[c] + g[T \ {c}]
      BY <2>2 DEF IsTable
    <3>4. h[T] = f[c] + h[T \ {c}]
      BY <2>2 DEF IsTable
    <3> QED BY <3>2, <3>3, <3>4
  <2> QED BY <2>1, <2>2
<1>2. SUBSET S \subseteq P
  <2> HIDE DEF P
  <2> QED BY <1>1, SubsetInduction
<1> QED BY <1>2

\* There is a table: the one that looks each sum up in the table of a smaller set.
LEMMA TableExists ==
  ASSUME NEW S, IsFiniteSet(S), NEW f
  PROVE  \E g : IsTable(g, f, S)
<1> DEFINE P == {T \in SUBSET S : \E g : IsTable(g, f, T)}
<1>1. ASSUME NEW T \in SUBSET S, \A U \in SUBSET T : U # T => U \in P
      PROVE  T \in P
  <2> DEFINE tab(U) == CHOOSE g : IsTable(g, f, U)
             val(U) == IF U = {} THEN 0 ELSE f[Pick(U)] + tab(U \ {Pick(U)})[U \ {Pick(U)}]
             g == [U \in SUBSET T |-> val(U)]
  <2>0. \A U \in SUBSET T : U # T => IsTable(tab(U), f, U)
    BY <1>1
  <2>f. \A U \in SUBSET T : IsFiniteSet(U)
    BY FS_Subset
  <2>1. ASSUME NEW U \in SUBSET T, U # {}
        PROVE  g[U] = f[Pick(U)] + g[U \ {Pick(U)}]
    <3> DEFINE V == U \ {Pick(U)}
    <3>1. Pick(U) \in U
      BY <2>1 DEF Pick
    <3>2. V \in SUBSET T /\ V # T /\ V \in SUBSET V
      BY <3>1
    <3>3. IsTable(tab(V), f, V)
      BY <3>2, <2>0
    <3>4. tab(V)[V] = val(V)
      <4>1. CASE V = {}
        <5> HIDE DEF tab
        <5> QED BY <4>1, <3>3, <3>2 DEF IsTable
      <4>2. CASE V # {}
        <5> DEFINE W == V \ {Pick(V)}
        <5>1. W \in SUBSET V /\ W # T /\ W \in SUBSET T
          BY <4>2, <3>2 DEF Pick
        <5>2. IsTable(tab(W), f, W)
          BY <5>1, <2>0
        <5>3. tab(W)[W] = tab(V)[W]
          <6> HIDE DEF tab, W, V
          <6> QED BY <5>1, <5>2, <3>3, <2>f, TableUnique
        <5>4. tab(V)[V] = f[Pick(V)] + tab(V)[W]
          <6> HIDE DEF tab
          <6> QED BY <4>2, <3>2, <3>3 DEF IsTable
        <5>5. val(V) = f[Pick(V)] + tab(W)[W]
          BY <4>2
        <5> HIDE DEF tab, val, W
        <5> QED BY <5>3, <5>4, <5>5
      <4> QED BY <4>1, <4>2
    <3>5. g[U] = f[Pick(U)] + tab(V)[V]
      <4> HIDE DEF tab
      <4> QED BY <2>1
    <3>6. g[V] = val(V)
      <4> HIDE DEF val, V
      <4> QED BY <3>2
    <3> HIDE DEF val, tab, g
    <3> QED BY <3>4, <3>5, <3>6
  <2>2. g[{}] = 0
    OBVIOUS
  <2>3. g = [U \in SUBSET T |-> g[U]]
    OBVIOUS
  <2>4. IsTable(g, f, T)
    <3> HIDE DEF g
    <3> QED BY <2>1, <2>2, <2>3 DEF IsTable
  <2> HIDE DEF g
  <2> QED BY <2>4
<1>2. S \in P
  <2> HIDE DEF P
  <2> QED BY <1>1, SubsetInduction
<1> QED BY <1>2

\* The sum is read off a table.
LEMMA SumUnfold ==
  ASSUME NEW S, IsFiniteSet(S), NEW f
  PROVE  \E g : IsTable(g, f, S) /\ SumFunctionOnSet(f, S) = g[S]
<1> DEFINE h == CHOOSE g : IsTable(g, f, S)
<1>1. IsTable(h, f, S)
   BY TableExists
<1>2. SumFunctionOnSet(f, S) = h[S]
  BY DEF SumFunctionOnSet, FoldFunctionOnSet, MapThenFoldSet, IsTable, Pick
<1> HIDE DEF h
<1> QED BY <1>1, <1>2

-------------------------------------------------------------------------------
(* Sums of integers over a finite set *)

Sum(f, S) == SumFunctionOnSet(f, S)

\* The empty sum.
LEMMA SumEmpty ==
  ASSUME NEW f
  PROVE  Sum(f, {}) = 0
BY SumUnfold, FS_EmptySet DEF IsTable, Sum

\* The element the recursion happens to take first.
LEMMA SumPick ==
  ASSUME NEW S, IsFiniteSet(S), NEW f, S # {}
  PROVE  Sum(f, S) = f[Pick(S)] + Sum(f, S \ {Pick(S)})
<1> DEFINE V == S \ {Pick(S)}
<1>1. IsFiniteSet(V) /\ V \subseteq S
  BY FS_Subset
<1>2. PICK g : IsTable(g, f, S) /\ Sum(f, S) = g[S]
  BY SumUnfold DEF Sum
<1>3. PICK h : IsTable(h, f, V) /\ Sum(f, V) = h[V]
  BY <1>1, SumUnfold DEF Sum
<1>4. h[V] = g[V]
  BY <1>1, <1>2, <1>3, TableUnique
<1>5. g[S] = f[Pick(S)] + g[V]
  BY <1>2 DEF IsTable
<1> QED BY <1>2, <1>3, <1>4, <1>5

\* A sum of integers is an integer.
LEMMA SumInt ==
  ASSUME NEW S, IsFiniteSet(S), NEW f, \A x \in S : f[x] \in Int
  PROVE  Sum(f, S) \in Int
<1> DEFINE P == {T \in SUBSET S : Sum(f, T) \in Int}
<1>1. ASSUME NEW T \in SUBSET S, \A U \in SUBSET T : U # T => U \in P
      PROVE  T \in P
  <2>1. CASE T = {}
    BY <2>1, SumEmpty
  <2>2. CASE T # {}
    <3>1. Pick(T) \in T /\ IsFiniteSet(T) /\ f[Pick(T)] \in Int
      BY <2>2, FS_Subset DEF Pick
    <3>2. Sum(f, T \ {Pick(T)}) \in Int
      <4>1. T \ {Pick(T)} \in P
        BY <3>1, <1>1
      <4> QED BY <4>1
    <3>3. Sum(f, T) = f[Pick(T)] + Sum(f, T \ {Pick(T)})
      BY <2>2, <3>1, SumPick
    <3> QED BY <3>1, <3>2, <3>3
  <2> QED BY <2>1, <2>2
<1>2. SUBSET S \subseteq P
  <2> HIDE DEF P
  <2> QED BY <1>1, SubsetInduction
<1> QED BY <1>2

\* Any element can be taken out first.
LEMMA SumRemove ==
  ASSUME NEW S, IsFiniteSet(S), NEW f, \A x \in S : f[x] \in Int, NEW x \in S
  PROVE  Sum(f, S) = f[x] + Sum(f, S \ {x})
<1> DEFINE P == {T \in SUBSET S : \A y \in T : Sum(f, T) = f[y] + Sum(f, T \ {y})}
<1>1. ASSUME NEW T \in SUBSET S, \A U \in SUBSET T : U # T => U \in P
      PROVE  T \in P
  <2> SUFFICES ASSUME NEW y \in T PROVE Sum(f, T) = f[y] + Sum(f, T \ {y})
    OBVIOUS
  <2> DEFINE c == Pick(T)
             V == T \ {c}
             W == T \ {y}
  <2>1. c \in T /\ IsFiniteSet(T) /\ IsFiniteSet(V) /\ IsFiniteSet(W) /\ IsFiniteSet(V \ {y})
    BY FS_Subset DEF Pick
  <2>2. Sum(f, T) = f[c] + Sum(f, V)
    BY <2>1, SumPick
  <2>3. CASE c = y
    BY <2>2, <2>3
  <2>4. CASE c # y
    <3>1. Sum(f, V) = f[y] + Sum(f, V \ {y})
      <4>1. V \in P /\ y \in V
        BY <1>1, <2>1, <2>4
      <4> QED BY <4>1
    <3>2. Sum(f, W) = f[c] + Sum(f, W \ {c})
      <4>1. W \in P /\ c \in W
        BY <1>1, <2>1, <2>4
      <4> QED BY <4>1
    <3>3. W \ {c} = V \ {y}
      OBVIOUS
    <3>4. f[c] \in Int /\ f[y] \in Int /\ Sum(f, V \ {y}) \in Int
      <4>1. \A z \in V \ {y} : f[z] \in Int
        OBVIOUS
      <4> HIDE DEF V
      <4> QED BY <2>1, <4>1, SumInt
    <3>5. Sum(f, W \ {c}) = Sum(f, V \ {y})
      BY <3>3
    <3>6. Sum(f, T) = f[y] + Sum(f, W)
      <4> HIDE DEF c, V, W
      <4> QED BY <2>2, <3>1, <3>2, <3>4, <3>5
    <3> QED BY <3>6
  <2> QED BY <2>3, <2>4
<1>2. SUBSET S \subseteq P
  <2> HIDE DEF P
  <2> QED BY <1>1, SubsetInduction
<1> QED BY <1>2

\* Adding a new element.
LEMMA SumInsert ==
  ASSUME NEW S, IsFiniteSet(S), NEW x, x \notin S, NEW f, \A y \in S \cup {x} : f[y] \in Int
  PROVE  Sum(f, S \cup {x}) = f[x] + Sum(f, S)
<1>1. IsFiniteSet(S \cup {x}) /\ (S \cup {x}) \ {x} = S
  BY FS_AddElement
<1> QED BY <1>1, SumRemove

\* Combining two functions element by element.
LEMMA SumPlus ==
  ASSUME NEW S, IsFiniteSet(S), NEW f, NEW g, NEW h,
         \A x \in S : f[x] \in Int /\ g[x] \in Int /\ h[x] = f[x] + g[x]
  PROVE  Sum(h, S) = Sum(f, S) + Sum(g, S)
<1> DEFINE P == {T \in SUBSET S : Sum(h, T) = Sum(f, T) + Sum(g, T)}
<1>1. ASSUME NEW T \in SUBSET S, \A U \in SUBSET T : U # T => U \in P
      PROVE  T \in P
  <2>1. CASE T = {}
    BY <2>1, SumEmpty
  <2>2. CASE T # {}
    <3> DEFINE c == Pick(T)
               V == T \ {c}
    <3>1. c \in T /\ c \in S /\ IsFiniteSet(T) /\ IsFiniteSet(V)
      BY <2>2, FS_Subset DEF Pick
    <3>2. Sum(h, V) = Sum(f, V) + Sum(g, V)
      <4>1. V \in P
        BY <1>1, <3>1
      <4> QED BY <4>1
    <3>3. /\ Sum(f, T) = f[c] + Sum(f, V)
          /\ Sum(g, T) = g[c] + Sum(g, V)
          /\ Sum(h, T) = h[c] + Sum(h, V)
      BY <2>2, <3>1, SumPick
    <3>4. Sum(f, V) \in Int /\ Sum(g, V) \in Int
      <4>1. \A z \in V : f[z] \in Int /\ g[z] \in Int
        OBVIOUS
      <4> HIDE DEF V
      <4> QED BY <3>1, <4>1, SumInt
    <3>5. f[c] \in Int /\ g[c] \in Int /\ h[c] = f[c] + g[c]
      BY <3>1
    <3> HIDE DEF c, V
    <3> QED BY <3>2, <3>3, <3>4, <3>5
  <2> QED BY <2>1, <2>2
<1>2. SUBSET S \subseteq P
  <2> HIDE DEF P
  <2> QED BY <1>1, SubsetInduction
<1> QED BY <1>2

\* A constant function.
LEMMA SumConstant ==
  ASSUME NEW S, IsFiniteSet(S), NEW f, NEW k \in Int, \A x \in S : f[x] = k
  PROVE  Sum(f, S) = k * Cardinality(S)
<1> DEFINE P == {T \in SUBSET S : Sum(f, T) = k * Cardinality(T)}
<1>1. ASSUME NEW T \in SUBSET S, \A U \in SUBSET T : U # T => U \in P
      PROVE  T \in P
  <2>1. CASE T = {}
    <3>1. Sum(f, T) = 0 /\ Cardinality(T) = 0
      BY <2>1, SumEmpty, FS_EmptySet
    <3> QED BY <3>1
  <2>2. CASE T # {}
    <3> DEFINE c == Pick(T)
               V == T \ {c}
    <3>1. c \in T /\ IsFiniteSet(T) /\ IsFiniteSet(V)
      BY <2>2, FS_Subset DEF Pick
    <3>2. Sum(f, V) = k * Cardinality(V)
      <4>1. V \in P
        BY <1>1, <3>1
      <4> QED BY <4>1
    <3>3. Sum(f, T) = k + Sum(f, V)
      BY <2>2, <3>1, SumPick
    <3>4. Cardinality(V) = Cardinality(T) - 1 /\ Cardinality(T) \in Nat
      BY <3>1, FS_RemoveElement, FS_CardinalityType
    <3>5. \A n \in Nat : k + k * (n - 1) = k * n
      OBVIOUS
    <3>6. Sum(f, T) = k * Cardinality(T)
      <4> HIDE DEF c, V
      <4> QED BY <3>2, <3>3, <3>4, <3>5
    <3> QED BY <3>6
  <2> QED BY <2>1, <2>2
<1>2. SUBSET S \subseteq P
  <2> HIDE DEF P
  <2> QED BY <1>1, SubsetInduction
<1> QED BY <1>2

\* Functions that agree on S have the same sum.
LEMMA SumSame ==
  ASSUME NEW S, IsFiniteSet(S), NEW f, NEW g,
         \A x \in S : f[x] \in Int /\ g[x] = f[x]
  PROVE  Sum(g, S) = Sum(f, S)
<1> DEFINE zero == [x \in S |-> 0]
<1>1. Sum(zero, S) = 0 * Cardinality(S) /\ Cardinality(S) \in Nat
  BY SumConstant, FS_CardinalityType
<1>2. Sum(f, S) \in Int
  BY SumInt
<1>3. Sum(g, S) = Sum(f, S) + Sum(zero, S)
  BY SumPlus
<1> QED BY <1>1, <1>2, <1>3

\* Nothing but zeros.
LEMMA SumZero ==
  ASSUME NEW S, IsFiniteSet(S), NEW f, \A x \in S : f[x] = 0
  PROVE  Sum(f, S) = 0
<1>1. Sum(f, S) = 0 * Cardinality(S) /\ Cardinality(S) \in Nat
  BY SumConstant, FS_CardinalityType
<1> QED BY <1>1

\* Elements outside R contribute nothing.
LEMMA SumSupport ==
  ASSUME NEW S, IsFiniteSet(S), NEW R \in SUBSET S, NEW f,
         \A x \in S : f[x] \in Int, \A x \in S \ R : f[x] = 0
  PROVE  Sum(f, S) = Sum(f, R)
<1> DEFINE P == {T \in SUBSET S : R \subseteq T => Sum(f, T) = Sum(f, R)}
<1>1. ASSUME NEW T \in SUBSET S, \A U \in SUBSET T : U # T => U \in P
      PROVE  T \in P
  <2>1. CASE R \subseteq T /\ T # R
    <3>1. PICK x \in T : x \notin R
      BY <2>1
    <3>2. T \ {x} \in P /\ R \subseteq T \ {x}
      BY <1>1, <2>1, <3>1
    <3>3. IsFiniteSet(T) /\ \A y \in T : f[y] \in Int
      BY FS_Subset
    <3>4. Sum(f, T) = f[x] + Sum(f, T \ {x})
      BY <3>3, SumRemove
    <3>5. Sum(f, R) \in Int
      <4>1. IsFiniteSet(R) /\ \A y \in R : f[y] \in Int
        BY FS_Subset
      <4> QED BY <4>1, SumInt
    <3>6. f[x] = 0
      BY <3>1
    <3> QED BY <3>2, <3>4, <3>5, <3>6
  <2>2. CASE R \subseteq T /\ T = R
    BY <2>2
  <2> QED BY <2>1, <2>2
<1>2. SUBSET S \subseteq P
  <2> HIDE DEF P
  <2> QED BY <1>1, SubsetInduction
<1> QED BY <1>2

\* Sums of naturals are naturals.
LEMMA SumNat ==
  ASSUME NEW S, IsFiniteSet(S), NEW f, \A x \in S : f[x] \in Nat
  PROVE  Sum(f, S) \in Nat
<1> DEFINE P == {T \in SUBSET S : Sum(f, T) \in Nat}
<1>1. ASSUME NEW T \in SUBSET S, \A U \in SUBSET T : U # T => U \in P
      PROVE  T \in P
  <2>1. CASE T = {}
    BY <2>1, SumEmpty
  <2>2. CASE T # {}
    <3>1. Pick(T) \in T /\ IsFiniteSet(T) /\ f[Pick(T)] \in Nat
      BY <2>2, FS_Subset DEF Pick
    <3>2. Sum(f, T \ {Pick(T)}) \in Nat
      <4>1. T \ {Pick(T)} \in P
        BY <3>1, <1>1
      <4> QED BY <4>1
    <3>3. Sum(f, T) = f[Pick(T)] + Sum(f, T \ {Pick(T)})
      BY <2>2, <3>1, SumPick
    <3> QED BY <3>1, <3>2, <3>3
  <2> QED BY <2>1, <2>2
<1>2. SUBSET S \subseteq P
  <2> HIDE DEF P
  <2> QED BY <1>1, SubsetInduction
<1> QED BY <1>2

\* A table of integers has the same total by rows as by columns.
LEMMA SumExchange ==
  ASSUME NEW S, IsFiniteSet(S), NEW R, IsFiniteSet(R), NEW m,
         \A x \in S : \A y \in R : m[x][y] \in Int
  PROVE  Sum([x \in S |-> Sum(m[x], R)], S)
           = Sum([y \in R |-> Sum([x \in S |-> m[x][y]], S)], R)
<1> DEFINE rows(T) == [x \in S |-> Sum(m[x], T)]
           col(y) == [x \in S |-> m[x][y]]
           cols == [y \in R |-> Sum(col(y), S)]
           P == {T \in SUBSET R : Sum(rows(T), S) = Sum(cols, T)}
<1>1. ASSUME NEW T \in SUBSET R, \A U \in SUBSET T : U # T => U \in P
      PROVE  T \in P
  <2>1. CASE T = {}
    <3>1. Sum(rows(T), S) = 0
      <4>1. \A x \in S : rows(T)[x] = 0
        BY <2>1, SumEmpty
      <4> QED BY <4>1, SumZero
    <3> QED BY <2>1, <3>1, SumEmpty
  <2>2. CASE T # {}
    <3>1. PICK c \in T : TRUE
      BY <2>2
    <3> DEFINE V == T \ {c}
    <3>2. IsFiniteSet(T) /\ IsFiniteSet(V) /\ V \in P /\ c \in R
      BY <1>1, <3>1, FS_Subset
    <3>3. \A x \in S : /\ col(c)[x] \in Int /\ rows(V)[x] \in Int
                       /\ rows(T)[x] = col(c)[x] + rows(V)[x]
      <4> SUFFICES ASSUME NEW x \in S
                   PROVE  /\ m[x][c] \in Int /\ Sum(m[x], V) \in Int
                          /\ Sum(m[x], T) = m[x][c] + Sum(m[x], V)
        OBVIOUS
      <4>1. (\A y \in T : m[x][y] \in Int) /\ (\A y \in V : m[x][y] \in Int)
        OBVIOUS
      <4>2. Sum(m[x], V) \in Int
        <5> HIDE DEF V
        <5> QED BY <3>2, <4>1, SumInt
      <4>3. Sum(m[x], T) = m[x][c] + Sum(m[x], V)
        BY <3>2, <4>1, SumRemove
      <4> QED BY <3>2, <4>1, <4>2, <4>3
    <3>4. Sum(rows(T), S) = Sum(col(c), S) + Sum(rows(V), S)
      <4> HIDE DEF rows, col, V
      <4> QED BY <3>3, SumPlus
    <3>5. \A y \in T : cols[y] \in Int
      <4> SUFFICES ASSUME NEW y \in T PROVE Sum(col(y), S) \in Int
        OBVIOUS
      <4>1. \A x \in S : col(y)[x] \in Int
        OBVIOUS
      <4> HIDE DEF col
      <4> QED BY <4>1, SumInt
    <3>6. Sum(cols, T) = cols[c] + Sum(cols, V)
      <4> HIDE DEF cols
      <4> QED BY <3>2, <3>5, SumRemove
    <3>7. cols[c] = Sum(col(c), S)
      BY <3>2
    <3>8. Sum(rows(V), S) = Sum(cols, V)
      BY <3>2
    <3>9. Sum(rows(T), S) = Sum(cols, T)
      <4> HIDE DEF rows, col, cols, V, P
      <4> QED BY <3>4, <3>6, <3>7, <3>8
    <3> QED BY <3>9
  <2> QED BY <2>1, <2>2
<1>2. SUBSET R \subseteq P
  <2> HIDE DEF P
  <2> QED BY <1>1, SubsetInduction
<1> QED BY <1>2

\* Scaling a function.
LEMMA SumScale ==
  ASSUME NEW S, IsFiniteSet(S), NEW f, NEW h, NEW k \in Int,
         \A x \in S : f[x] \in Int /\ h[x] = k * f[x]
  PROVE  Sum(h, S) = k * Sum(f, S)
<1> DEFINE P == {T \in SUBSET S : Sum(h, T) = k * Sum(f, T)}
<1>1. ASSUME NEW T \in SUBSET S, \A U \in SUBSET T : U # T => U \in P
      PROVE  T \in P
  <2>1. CASE T = {}
    <3>1. Sum(h, T) = 0 /\ Sum(f, T) = 0
      BY <2>1, SumEmpty
    <3> QED BY <3>1
  <2>2. CASE T # {}
    <3>1. PICK c \in T : TRUE
      BY <2>2
    <3> DEFINE V == T \ {c}
    <3>2. IsFiniteSet(T) /\ IsFiniteSet(V) /\ V \in P
      BY <1>1, <3>1, FS_Subset
    <3>3. \A x \in T : f[x] \in Int /\ h[x] \in Int
      OBVIOUS
    <3>4. Sum(h, T) = h[c] + Sum(h, V) /\ Sum(f, T) = f[c] + Sum(f, V)
      BY <3>2, <3>3, SumRemove
    <3>5. Sum(f, V) \in Int
      <4>1. \A x \in V : f[x] \in Int
        OBVIOUS
      <4> HIDE DEF V
      <4> QED BY <3>2, <4>1, SumInt
    <3>6. \A i, j \in Int : k * i + k * j = k * (i + j)
      OBVIOUS
    <3>7. f[c] \in Int /\ h[c] = k * f[c] /\ Sum(h, V) = k * Sum(f, V)
      BY <3>2
    <3>8. Sum(h, T) = k * Sum(f, T)
      <4> HIDE DEF V
      <4> QED BY <3>4, <3>5, <3>6, <3>7
    <3> QED BY <3>8
  <2> QED BY <2>1, <2>2
<1>2. SUBSET S \subseteq P
  <2> HIDE DEF P
  <2> QED BY <1>1, SubsetInduction
<1> QED BY <1>2

\* Comparing two functions element by element.
LEMMA SumAtMost ==
  ASSUME NEW S, IsFiniteSet(S), NEW f, NEW g,
         \A x \in S : f[x] \in Int /\ g[x] \in Int /\ f[x] <= g[x]
  PROVE  Sum(f, S) <= Sum(g, S)
<1> DEFINE gap == [x \in S |-> g[x] - f[x]]
<1>1. Sum(gap, S) \in Nat /\ Sum(f, S) \in Int /\ Sum(g, S) \in Int
  <2>1. \A x \in S : gap[x] \in Nat
    OBVIOUS
  <2> HIDE DEF gap
  <2> QED BY <2>1, SumNat, SumInt
<1>2. Sum(g, S) = Sum(f, S) + Sum(gap, S)
  <2>1. \A x \in S : f[x] \in Int /\ gap[x] \in Int /\ g[x] = f[x] + gap[x]
    OBVIOUS
  <2> HIDE DEF gap
  <2> QED BY <2>1, SumPlus
<1> HIDE DEF gap
<1> QED BY <1>1, <1>2

-------------------------------------------------------------------------------
(* Shares *)

\* Moving an amount from one balance to another keeps the sum.
LEMMA SumMoved ==
  ASSUME NEW D, IsFiniteSet(D), NEW b, NEW e, NEW c \in D, NEW d \in D, c # d, NEW a \in Int,
         \A u \in D : b[u] \in Int,
         e[c] = b[c] - a, e[d] = b[d] + a, \A u \in D \ {c, d} : e[u] = b[u]
  PROVE  (\A u \in D : e[u] \in Int) /\ Sum(e, D) = Sum(b, D)
<1> DEFINE R == D \ {c}
           Q == R \ {d}
<1>1. IsFiniteSet(R) /\ IsFiniteSet(Q) /\ d \in R
  BY FS_Subset
<1>2. \A u \in D : e[u] \in Int
  OBVIOUS
<1>3. Sum(b, D) = b[c] + Sum(b, R) /\ Sum(e, D) = e[c] + Sum(e, R)
  BY <1>2, SumRemove
<1>4. Sum(b, R) = b[d] + Sum(b, Q) /\ Sum(e, R) = e[d] + Sum(e, Q)
  BY <1>1, <1>2, SumRemove
<1>5. Sum(e, Q) = Sum(b, Q) /\ Sum(b, Q) \in Int
  <2>1. \A u \in Q : b[u] \in Int /\ e[u] = b[u]
    OBVIOUS
  <2> HIDE DEF Q
  <2> QED BY <1>1, <2>1, SumSame, SumInt
<1> QED BY <1>2, <1>3, <1>4, <1>5

\* The sum of a whole function (sum() over a list of rows in the code).
LEMMA SumOfFunction ==
  ASSUME NEW f
  PROVE  SumFunction(f) = Sum(f, DOMAIN f)
BY DEF SumFunction, Sum

\* Rounding down.
LEMMA CutBounds ==
  ASSUME NEW a \in Nat, NEW p \in Nat, NEW w \in Nat \ {0}
  PROVE  Cut(a, p, w) \in Nat /\ w * Cut(a, p, w) <= a * p
<1>1. a * p \in Nat
  OBVIOUS
<1>2. \A n \in Nat : n \div w \in Nat /\ w * (n \div w) <= n
  OBVIOUS
<1> QED BY <1>1, <1>2 DEF Cut

\* A list of payers or splits that passed the schema is finite, not empty, and positive.
LEMMA EntriesFacts ==
  ASSUME NEW users, IsFiniteSet(users), NEW h, Entries(h, users)
  PROVE  /\ IsFiniteSet(DOMAIN h)
         /\ Count(h) \in Nat \ {0}
         /\ \A u \in DOMAIN h : h[u] \in Nat /\ h[u] > 0
         /\ SumFunction(h) \in Nat \ {0}
<1>1. IsFiniteSet(DOMAIN h) /\ DOMAIN h # {} /\ \A u \in DOMAIN h : h[u] \in Nat /\ h[u] > 0
  BY FS_Subset DEF Entries
<1>2. Count(h) \in Nat \ {0}
  BY <1>1, FS_CardinalityType, FS_EmptySet DEF Count
<1>3. PICK u \in DOMAIN h : TRUE
  BY <1>1
<1>4. Sum(h, DOMAIN h) = h[u] + Sum(h, DOMAIN h \ {u})
  BY <1>1, SumRemove
<1>5. Sum(h, DOMAIN h \ {u}) \in Nat
  BY <1>1, FS_Subset, SumNat
<1>6. SumFunction(h) \in Nat \ {0}
  BY <1>1, <1>4, <1>5, SumOfFunction
<1> QED BY <1>1, <1>2, <1>6

\* Equal shares: the last entry takes what rounding left.
LEMMA EqualAddsUp ==
  ASSUME NEW users, IsFiniteSet(users), NEW total \in Nat, NEW value, Entries(value, users),
         NEW last \in DOMAIN value
  PROVE  LET s == EqualShares(total, value, last)
         IN  /\ DOMAIN s = DOMAIN value
             /\ \A u \in DOMAIN s : s[u] \in Nat
             /\ Sum(s, DOMAIN value) = total
<1> DEFINE n == Count(value)
           each == Cut(total, 1, n)
           s == EqualShares(total, value, last)
           D == DOMAIN value
<1>1. n \in Nat \ {0} /\ IsFiniteSet(D) /\ n = Cardinality(D)
  BY EntriesFacts DEF Count
<1>2. each \in Nat /\ n * each <= total * 1
  BY <1>1, CutBounds
<1>3. /\ DOMAIN s = D
      /\ s[last] = each + (total - each * n)
      /\ \A u \in D \ {last} : s[u] = each
  BY DEF EqualShares
<1> HIDE DEF each, s
<1>4. each * n \in Nat /\ each * n <= total
  BY <1>1, <1>2
<1>5. \A u \in D : s[u] \in Nat
  BY <1>2, <1>3, <1>4
<1>6. Cardinality(D \ {last}) = n - 1 /\ IsFiniteSet(D \ {last})
  BY <1>1, FS_RemoveElement
<1>7. Sum(s, D \ {last}) = each * (n - 1)
  BY <1>2, <1>3, <1>6, SumConstant
<1>8. Sum(s, D) = s[last] + Sum(s, D \ {last})
  BY <1>1, <1>5, SumRemove
<1>9. each * (n - 1) = each * n - each
  BY <1>1, <1>2
<1> QED BY <1>2, <1>3, <1>4, <1>5, <1>7, <1>8, <1>9 DEF s

\* Shares in proportion: what is cut off for the others never exceeds the total.
LEMMA ProRataAddsUp ==
  ASSUME NEW users, IsFiniteSet(users), NEW total \in Nat, NEW value, Entries(value, users),
         NEW last \in DOMAIN value
  PROVE  LET s == ProRata(total, value, last, SumFunction(value))
         IN  /\ DOMAIN s = DOMAIN value
             /\ \A u \in DOMAIN s : s[u] \in Nat
             /\ Sum(s, DOMAIN value) = total
<1> DEFINE D == DOMAIN value
           R == D \ {last}
           W == SumFunction(value)
           cut == [u \in R |-> Cut(total, value[u], W)]
           s == ProRata(total, value, last, W)
<1>1. /\ IsFiniteSet(D) /\ IsFiniteSet(R) /\ W \in Nat \ {0} /\ W = Sum(value, D)
      /\ \A u \in D : value[u] \in Nat /\ value[u] > 0
  BY EntriesFacts, SumOfFunction, FS_Subset
<1>2. DOMAIN cut = R
  OBVIOUS
<1>3. /\ DOMAIN s = D
      /\ s[last] = total - Sum(cut, R)
      /\ \A u \in R : s[u] = cut[u]
  BY SumOfFunction DEF ProRata
<1>4. \A u \in R : cut[u] \in Nat /\ W * cut[u] <= total * value[u]
  <2> HIDE DEF W
  <2> QED BY <1>1, CutBounds
<1>5. W * Sum(cut, R) <= total * Sum(value, R)
  <2> DEFINE f == [u \in R |-> W * cut[u]]
             g == [u \in R |-> total * value[u]]
  <2>1. \A u \in R : f[u] \in Int /\ g[u] \in Int /\ f[u] <= g[u] /\ f[u] = W * cut[u]
                     /\ g[u] = total * value[u] /\ cut[u] \in Int /\ value[u] \in Int
    <3> HIDE DEF W, cut
    <3> QED BY <1>1, <1>4
  <2> HIDE DEF f, g, cut, W
  <2>2. Sum(f, R) <= Sum(g, R)
    BY <1>1, <2>1, SumAtMost
  <2>3. Sum(f, R) = W * Sum(cut, R)
    BY <1>1, <2>1, SumScale
  <2>4. Sum(g, R) = total * Sum(value, R)
    BY <1>1, <2>1, SumScale
  <2> QED BY <2>2, <2>3, <2>4
<1>6. W = value[last] + Sum(value, R) /\ Sum(value, R) \in Nat /\ Sum(cut, R) \in Nat
  <2> HIDE DEF cut, W
  <2>1. Sum(value, D) = value[last] + Sum(value, R)
    BY <1>1, SumRemove
  <2> QED BY <1>1, <1>4, <2>1, SumNat
<1>7. Sum(cut, R) <= total
  <2>1. \A w \in Nat \ {0}, x, y, z \in Nat : w * x <= y * z /\ z <= w => x <= y
    <3> SUFFICES ASSUME NEW w \in Nat \ {0}, NEW x \in Nat, NEW y \in Nat, NEW z \in Nat,
                        w * x <= y * z, z <= w, x > y
                 PROVE  FALSE
      OBVIOUS
    <3>1. y * z <= y * w
      OBVIOUS
    <3>2. w * x >= w * (y + 1)
      OBVIOUS
    <3> QED BY <3>1, <3>2
  <2> HIDE DEF cut, W
  <2> QED BY <1>1, <1>5, <1>6, <2>1
<1>8. \A u \in D : s[u] \in Nat
  <2> HIDE DEF cut, s, W
  <2> QED BY <1>3, <1>4, <1>6, <1>7
<1>9. Sum(s, R) = Sum(cut, R)
  <2> HIDE DEF cut, s
  <2> QED BY <1>1, <1>3, <1>4, SumSame
<1>10. Sum(s, D) = s[last] + Sum(s, R)
  <2> HIDE DEF s
  <2> QED BY <1>1, <1>8, SumRemove
<1>11. Sum(s, D) = total
  <2> HIDE DEF cut, s
  <2> QED BY <1>3, <1>6, <1>9, <1>10
<1> QED BY <1>3, <1>8, <1>11

\* Exact amounts: whole cents, once they have been accepted.
LEMMA ExactAddsUp ==
  ASSUME NEW users, IsFiniteSet(users), NEW total \in Nat, NEW value, Entries(value, users),
         Accepts(total, "exact", value)
  PROVE  LET s == ExactShares(value)
         IN  /\ DOMAIN s = DOMAIN value
             /\ \A u \in DOMAIN s : s[u] \in Nat
             /\ Sum(s, DOMAIN value) = total
<1> DEFINE D == DOMAIN value
           s == ExactShares(value)
<1>1. IsFiniteSet(D) /\ \A u \in D : value[u] \in Nat
  BY EntriesFacts
<1>2. /\ \A u \in D : value[u] % 10 = 0
      /\ Sum(value, D) = 10 * total
  BY SumOfFunction DEF Accepts, PerCent
<1>3. DOMAIN s = D /\ \A u \in D : s[u] = value[u] \div 10
  BY DEF ExactShares, PerCent
<1>4. \A n \in Nat : n % 10 = 0 => n \div 10 \in Nat /\ n = 10 * (n \div 10)
  OBVIOUS
<1> HIDE DEF s
<1>5. \A u \in D : s[u] \in Nat /\ value[u] = 10 * s[u]
  BY <1>1, <1>2, <1>3, <1>4
<1>6. Sum(value, D) = 10 * Sum(s, D)
  BY <1>1, <1>5, SumScale
<1>7. Sum(s, D) \in Nat
  BY <1>1, <1>5, SumNat
<1> QED BY <1>2, <1>3, <1>5, <1>6, <1>7 DEF s

\* Every kind of split: the shares are natural numbers of cents and add up.
LEMMA SharesLemma ==
  ASSUME NEW users, IsFiniteSet(users), NEW f, ValidForm(f, users),
         Accepts(f.total, f.kind, f.value)
  PROVE  LET s == Shares(f.total, f.kind, f.value, f.last)
         IN  /\ DOMAIN s = DOMAIN f.value
             /\ \A u \in DOMAIN s : s[u] \in Nat
             /\ SumFunction(s) = f.total
<1>1. /\ f.total \in Nat /\ f.kind \in Kinds /\ Entries(f.value, users)
      /\ f.last \in DOMAIN f.value
  BY DEF ValidForm
<1>2. CASE f.kind = "equal"
  BY <1>1, <1>2, EqualAddsUp, SumOfFunction DEF Shares
<1>3. CASE f.kind = "exact"
  BY <1>1, <1>3, ExactAddsUp, SumOfFunction DEF Shares
<1>4. CASE f.kind = "percentage"
  <2>1. SumFunction(f.value) = HundredPct
    BY <1>4 DEF Accepts
  <2>2. Shares(f.total, f.kind, f.value, f.last)
          = ProRata(f.total, f.value, f.last, SumFunction(f.value))
    BY <1>4, <2>1 DEF Shares
  <2> QED BY <1>1, <2>2, ProRataAddsUp, SumOfFunction
<1>5. CASE f.kind = "shares"
  BY <1>1, <1>5, ProRataAddsUp, SumOfFunction DEF Shares
<1> QED BY <1>1, <1>2, <1>3, <1>4, <1>5 DEF Kinds
===============================================================================
