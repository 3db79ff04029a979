SPECIFICATION MCSpec
CONSTANTS
  Users = {u1, u2, u3}
  Groups = {g1}
  NoUser = NoUser
  Records = {r1, r2}
  Workers = {w1, w2}
  People = {m1, m2}
  Founder = u1
  Sole = r1
  Couple = {u1, u2}
  FewRetries = 1
  Owner = m1
  Circles = {c1}
  Prices = {10}
  Amounts = {10}
  MaxBalance = 10
INVARIANTS
  NotificationsTypeOK
  AgainAfterEveryone
  NobodySkipped
PROPERTIES
  EveryMessageEnds
  RunEnds
