CONSTANTS
  Users = {u1, u2, u3, u4, u5}
  MaxCents = 3
  Nets <- MCNets
SPECIFICATION Spec
INVARIANTS
  TypeOK
  AtMostNMinus1
  NamesTheUnsettled
  DebtsExplainBalances
PROPERTIES
  ImplementsPlan
  Terminates
CHECK_DEADLOCK FALSE
