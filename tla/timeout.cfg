\* One call is enough.
CONSTANTS
  Calls = {c1}
  PoolSize = 2
  Timeout = 1
  PoolTimeout = 2
  ConnectTimeout = 1
  StatementTimeout = 1
SPECIFICATION Spec
INVARIANT TimeoutStopsTheWait
