CONSTANTS
  Users = {u1, u2}
  NoUser = nobody
  Groups = {g1}
  Requests = {r1, r2}
  Forms <- GoodForms
  Amounts = {2}
  MaxAmount = 3
  MaxRecords = 3
SPECIFICATION HSpec
SYMMETRY Symmetry
PROPERTY SettledReportWasTrue
