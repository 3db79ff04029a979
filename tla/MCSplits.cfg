CONSTANTS
  Users = {u1, u2, u3}
  MaxTotal = 12
  Forms <- MCForms
SPECIFICATION Spec
INVARIANTS
  SharesAddUp
  FairToTheCent
CHECK_DEADLOCK FALSE
