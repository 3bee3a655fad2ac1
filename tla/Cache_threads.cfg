SPECIFICATION FairSpec
CONSTANTS
  Threads = {t1, t2}
  Nodes = {n1, n2}
  Keys = {k1, k2}
  Buckets = {b1}
  Hash <- OneBucket
  Conflicts <- AllConflicts
  NoThread = NoThread
  NoNode = NoNode
  NoKey = NoKey
  CACHE_MAX_PRIORITY = 0
  CACHE_SHAKE_COUNT = 1
  InitialMax = 1
  MaxGets <- TwoGets
INVARIANTS RefsCounted MruExact CountBounds
PROPERTIES ImplementsNodeCache PurgeEmpties GetReturns
