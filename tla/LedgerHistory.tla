----------------------------- MODULE LedgerHistory -----------------------------
(***************************************************************************)
(* Ledger with a history variable: whether the group a report is about has *)
(* been square at some moment since the request arrived.                   *)
(***************************************************************************)
EXTENDS MCLedger

VARIABLE wasSquare

Square(g) == \A u \in Users : Net(Live(g), Settled(g))[u] = 0

SquareNow(r) == pc[r] # "idle" /\ Square(call[r].group)

HInit == Init /\ wasSquare = [r \in Requests |-> FALSE]
HNext == /\ Next
         /\ wasSquare' = [r \in Requests |-> \/ SquareNow(r)'
                                             \/ wasSquare[r] /\ pc'[r] # "idle"]
HSpec == HInit /\ [][HNext]_<<vars, wasSquare>>

\* is_settled is documented as true when everyone's balance is zero: a report
\* without a balance was true at some moment while it was being made.
SettledReportWasTrue ==
  [][\A r \in Requests :
       /\ pc[r] = "settlements" /\ pc'[r] = "idle"
       /\ reply'.code = 200
       /\ \A u \in DOMAIN reply'.net : reply'.net[u] = 0
       => wasSquare[r]]_<<vars, wasSquare>>
===============================================================================
