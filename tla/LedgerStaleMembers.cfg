CONSTANTS
  Users = {u1, u2}
  NoUser = nobody
  Groups = {g1}
  Requests = {r1}
  Forms <- GoodForms
  Amounts = {2}
  MaxAmount = 3
  MaxRecords = 2
SPECIFICATION Spec
PROPERTY OnlyMembersInvolved
