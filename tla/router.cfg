SPECIFICATION Spec
CONSTANTS
  t1 = t1  t2 = t2  get = get  put = put
  integer = integer  string = string  unknown = unknown  rejected = rejected
  Threads = {t1, t2}
  Methods = {get, put}
  Segments = {"me", "7", "x"}
  Names = {"me", "x", "a", "b", "~1"}
  Schemas = {integer, string, unknown, rejected}
  Converts <- MCConverts
  Accepts <- MCAccepts
  Unknown = {unknown}
  Rejected = {rejected}
  Items = {"/me", "/{a}", "/{a}/", "/{b}", "/me/x", "/{a}/x", "/~1", "//"}
  MediaTypes = {"text/xml"}
  Spelled <- MCSpelled
  Documents <- MCDocuments
  Paths = {"/me", "/me/", "/x", "/7/x", "/me/x"}
  Split <- MCSplit
  MaxCalls = 1
  NoSchema = NoSchema
  NotFound = NotFound
  Panic = Panic
  Pending = Pending
INVARIANTS
  TypeOK
  TreeHoldsDocument
  FoundFits
  LookupsAgree
  NotFoundIfUnambiguous
  BodyPointersLeadBack
SYMMETRY Symmetry
CHECK_DEADLOCK FALSE
