SPECIFICATION ServicesSpec
CONSTANTS
  Requests = {r1, r2}
  Emails = {m1, m2}
  Passwords = {p1, p2}
  Names <- MCNames
  Lower <- MCLower
  MaxUsers = 3
  Holders = {h1, h2}
  Times = {0, 30}
  ACCESS_TOKEN_EXPIRE_MINUTES = 30
  REFRESH_TOKEN_EXPIRE_DAYS = 7
  Dates = {1, 2}
  Stamps = {1, 2, 3}
  Limit = 1
  Users = {u1, u2, u3}
  Groups = {g1}
  NoUser = NoUser
  Prices = {10}
  Moves <- MCMoves
  Amounts = {10}
  MaxBalance = 10
SYMMETRY Symmetry
INVARIANTS
  AccountsTypeOK
  UniqueAccounts
  SessionsTypeOK
  ListingsTypeOK
  MissedByDeletions
  WeeklyTypeOK
  SummariesBalance
  MailAddsUp
  NobodyForgotten
PROPERTIES
  RegisteredCanLogIn
  DeactivatedStayOut
  StoppedByStrangers
