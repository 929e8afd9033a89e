SPECIFICATION FairSpec
CONSTANTS
  t1 = t1  t2 = t2
  k1 = k1  k2 = k2
  Threads = {t1, t2}
  Ids = {k1, k2}
  ShardCount = 2
  MaxCalls = 2
  NoThread = NoThread
  NoValidator = NoValidator
INVARIANTS
  TypeOK
  LockedWhileBuilding
  ClearComplete
  LenInBounds
PROPERTIES
  EveryCallReturns
  ImplementsPromise
CHECK_DEADLOCK FALSE
