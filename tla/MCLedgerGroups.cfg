\* Two users and two overlapping requests; two records in one group, or one in two groups.
CONSTANTS
  Users = {u1, u2}
  NoUser = nobody
  Groups = {g1, g2}
  Requests = {r1, r2}
  Forms <- MCForms
  Amounts = {2, 9}
  MaxAmount = 3
  MaxRecords = 2
  FewRecords = 1
  FewAmounts = {2}
SPECIFICATION MCSpec
SYMMETRY Symmetry
INVARIANTS
  TypeOK
  Conservation
  ReportsBalance
PROPERTIES
  HistoryKept
  DeletionsAuthorised
