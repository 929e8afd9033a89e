SPECIFICATION FairSpec
CONSTANTS
  r1 = r1  r2 = r2  r3 = r3
  t1 = t1  t2 = t2
  s1 = s1  s2 = s2
  Refs = {r1, r2}
  Values = {field}
  WithField = {field}
  Threads = {t1}
  Shards = {s1, s2}
  MaxCalls = 1
  NoNode = NoNode
  NoThread = NoThread
  NoCall = NoCall
  Missing = Missing
  Pending = Pending
PROPERTIES
  CircularDetected
CHECK_DEADLOCK FALSE
