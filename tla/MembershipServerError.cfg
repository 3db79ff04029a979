\* Two invitations of the same user at once.
CONSTANTS
  Users = {u1, u2}
  Unregistered = unregistered
  NoUser = nobody
  Groups = {g1}
  Requests = {r1, r2}
  MaxRows = 2
SPECIFICATION Spec
INVARIANT NoServerError
