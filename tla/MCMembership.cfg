\* Two overlapping requests over two groups and three users.
CONSTANTS
  Users = {u1, u2, u3}
  Unregistered = unregistered
  NoUser = nobody
  Groups = {g1, g2}
  Requests = {r1, r2}
  MaxRows = 3
SPECIFICATION Spec
SYMMETRY Symmetry
INVARIANTS
  TypeOK
  CreatorIsSoleAdmin
  OneRowPerUser
PROPERTIES
  RemovalsAuthorised
  ImplementsRoster
