-------------------------------- MODULE Splits --------------------------------
(***************************************************************************)
(* How an expense is divided: _calculate_splits of expense_service.py.     *)
(* Money is in cents.  The value a user enters for a split has a decimal   *)
(* more than money: thousandths of the currency unit for "exact", of a     *)
(* percent for "percentage", of a share for "shares".  The order of the    *)
(* splits matters only through the last entry, which takes the remainder.  *)
(***************************************************************************)
EXTENDS Integers, FiniteSets, Functions

Kinds      == {"equal", "exact", "percentage", "shares"}
PerCent    == 10        \* thousandths in a cent
HundredPct == 100000    \* thousandths of a percent in the whole

\* A request body that passed the schema: each user at most once among payers
\* and among splits, all amounts and values positive.
Entries(h, users) == /\ DOMAIN h # {} /\ DOMAIN h \subseteq users
                     /\ h = [u \in DOMAIN h |-> h[u]]
                     /\ \A u \in DOMAIN h : h[u] \in Nat \ {0}
ValidForm(f, users) == /\ f.total \in Nat \ {0} /\ f.kind \in Kinds
                       /\ Entries(f.paid, users) /\ Entries(f.value, users)
                       /\ f.last \in DOMAIN f.value

Count(value) == Cardinality(DOMAIN value)

\* Decimal.quantize(TWO_PLACES, rounding=ROUND_DOWN) of amount * part / whole
CutUp(amount, part, whole) ==                                      \* mutant
  (2 * amount * part + whole) \div (2 * whole)
Cut(amount, part, whole) == (amount * part) \div whole

\* The last split takes what the others left over.
NoRemainder(total, value, last) ==                                 \* mutant
  [u \in DOMAIN value |-> Cut(total, 1, Count(value))]
EqualShares(total, value, last) ==
  LET perPerson == Cut(total, 1, Count(value))
      remainder == total - perPerson * Count(value)
  IN [u \in DOMAIN value |-> IF u = last THEN perPerson + remainder ELSE perPerson]

ProRata(total, value, last, whole) ==
  LET cut == [u \in DOMAIN value \ {last} |-> Cut(total, value[u], whole)]
  IN [u \in DOMAIN value |-> IF u = last THEN total - SumFunction(cut) ELSE cut[u]]

ExactShares(value) == [u \in DOMAIN value |-> value[u] \div PerCent]

\* The input errors that raise ValueError.
AcceptsPercentages(total, kind, value) ==                          \* mutant
  kind \in {"equal", "shares", "percentage"}
Accepts(total, kind, value) ==
  \/ kind \in {"equal", "shares"}
  \/ /\ kind = "exact"
     /\ \A u \in DOMAIN value : value[u] % PerCent = 0
     /\ SumFunction(value) = PerCent * total
  \/ /\ kind = "percentage"
     /\ SumFunction(value) = HundredPct

\* What each user owes.
Shares(total, kind, value, last) ==
  CASE kind = "equal"      -> EqualShares(total, value, last)
    [] kind = "exact"      -> ExactShares(value)
    [] kind = "percentage" -> ProRata(total, value, last, HundredPct)
    [] kind = "shares"     -> ProRata(total, value, last, SumFunction(value))
===============================================================================
