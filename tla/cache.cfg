CONSTANTS
  Conns = {c1, c2, c3}
  Engines = {e1, e2, e3}
  Callers = {k1, k2}
  MaxSize = 2
  TTL = 1
  NoEngine = NoEngine
SPECIFICATION MCSpec
INVARIANTS CacheShape NoUseAfterDispose
PROPERTIES OverflowIsLeastRecent ImplementsStore
