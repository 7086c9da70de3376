\* Two calls compete for the one connection of an engine.
CONSTANTS
  Calls = {c1, c2}
  PoolSize = 1
  Timeout = 1
  PoolTimeout = 2
  ConnectTimeout = 1
  StatementTimeout = 1
SPECIFICATION FairSpec
INVARIANTS LiveTypeOK PoolBounded CallBounded
PROPERTIES TimeoutDecides OutageRecognised EveryCallReturns
