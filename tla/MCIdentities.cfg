CONSTANTS
  u1 = u1
  u2 = u2
  r1 = r1
  r2 = r2
  a = a
  b = b
  n = n
  m = m
  Users = {u1, u2}
  Repos = {r1, r2}
  Logins = {a, b, c}
  Names = {n, m}
  PageSize = 1
  None = None
  Handlers = {h1}
  Collector = collector
  SignedUpAs <- FirstLogins
  Worlds <- Mixed
SPECIFICATION MCSpec
INVARIANTS
  TypeOK
  ForeignDataMeansRenamed
PROPERTIES
  OwnDataSettles
  NamesSettle
  LoginsSettle
  CirclesStay
  BlocksStay
