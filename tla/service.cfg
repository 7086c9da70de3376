\* Four requests of two users, two at a time; a cache of one entry, so that
\* connections compete for it; entries that expire at the first tick.
CONSTANTS
  r1 = r1
  r2 = r2
  r3 = r3
  r4 = r4
  Main = Main
  Requests = {r1, r2, r3, r4}
  Conns = {r1, r2, r3, r4}
  Engines = {r1, r2, r3, r4}
  Callers = {r1, r2, r3, r4, Main}
  Users = {u1, u2}
  Names = {n1}
  Blank = Blank
  None = None
  MaxConnectionsPerUser = 1
  PoolSize = 2
  MaxSize = 1
  TTL = 0
SPECIFICATION Spec
SYMMETRY Symmetry
INVARIANTS
  ServiceTypeOK EngineHasOneKeeper ServedToOwner RefusalsLeaveNothing ShutdownReleasesAll
CHECK_DEADLOCK FALSE
