\* Three requests of one user, at most two at a time, who may save one connection under three names.
\* No symmetry: temporal properties.
CONSTANTS
  r1 = r1
  r2 = r2
  r3 = r3
  Main = Main
  Requests = {r1, r2, r3}
  Conns = {r1, r2, r3}
  Engines = {r1, r2, r3}
  Callers = {r1, r2, r3, Main}
  Users = {u1}
  Names = {n1, n2, n3}
  Blank = Blank
  None = None
  MaxConnectionsPerUser = 1
  PoolSize = 2
  MaxSize = 1
  TTL = 0
SPECIFICATION FairSpec
INVARIANT LimitBound
PROPERTIES DeletedIsNotServed RequestsFinish
CHECK_DEADLOCK FALSE
