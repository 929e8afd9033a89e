SPECIFICATION FairSpec
CONSTANTS
  c1 = c1  c2 = c2
  api1 = api1  api2 = api2
  s1 = s1  s2 = s2
  Connections = {c1, c2}
  Apis = {api1, api2}
  First = api1
  Shards = {s1, s2}
  Requests <- MCRequests
  NoApi = NoApi
  NoRequest = NoRequest
  MaxWorkers = 2
  MaxRequests = 2
  MaxCrashes = 1
INVARIANTS
  TypeOK
  ForwardedWasAccepted
  AnswersAreTrue
  StuckHasCause
PROPERTIES
  MovesOn
  LostOnlyThen
CHECK_DEADLOCK FALSE
