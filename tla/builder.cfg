SPECIFICATION Spec
CONSTANTS
  f1 = f1  f2 = f2
  Paths = {f1, f2}
  Versions = {"3.1.0", "3.0.3", "2.0"}
  V31x = {"3.1.0"}
  V30x = {"3.0.3"}
  Ids = {"@@root", "other"}
  Root = "@@root"
  Contents <- MCContents
  Unreadable = Unreadable
  NotJson = NotJson
  NoVersion = NoVersion
  NoFile = NoFile
  NoValidator = NoValidator
  MaxSetters = 3
  MaxWrites = 1
INVARIANTS
  TypeOK
  BuildsWhatNewBuilds
  LastCallsCount
  BodiesNeedRoot
PROPERTIES
  BuiltFromFileOfBuild
CHECK_DEADLOCK FALSE
