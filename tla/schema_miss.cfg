\* A schema request after the cached entry expired.
CONSTANTS
  r1 = r1
  r2 = r2
  r3 = r3
  Main = Main
  Requests = {r1, r2, r3}
  Conns = {r1, r2, r3}
  Engines = {r1, r2, r3}
  Callers = {r1, r2, r3, Main}
  Users = {u1}
  Names = {n1}
  Blank = Blank
  None = None
  MaxConnectionsPerUser = 1
  PoolSize = 1
  MaxSize = 1
  TTL = 0
SPECIFICATION Spec
PROPERTY MissOnlySlower
CHECK_DEADLOCK FALSE
