SPECIFICATION TextSpec
CONSTANTS
  object = object  open = open  nullable = nullable
  integer = integer  number = number  large = large
  nothing = nothing  boolean = boolean  shared = shared
  person = person  list = list
  Names = {"a", "A", ""}
  Lower <- MCLower
  Schemas = {object, open, nullable, integer, number, large, nothing, boolean, shared}
  Accepts <- MCAccepts
  Complete <- MCComplete
  Broken = {boolean}
  Untyped = {shared}
  MediaTypes = {"json"}
  Bodies = {person, list}
  Texts <- MCTexts
  Scopes = {"read", "write"}
  Schemes = {"oauth", "key"}
  Operations <- MCOperations
  Requests <- MCRequests
  Securities <- MCSecurities
  NotFound = NotFound
  NoBody = NoBody
  NoSchema = NoSchema
  Null = Null
  NoType = NoType
  NoQuery = NoQuery
  NoScopes = NoScopes
  NoSecurity = NoSecurity
  Width = 5
  Precision = 4
  Top = 7
  Opaque = Opaque
  Typed = {integer, number, large, nothing}
  TypeOf <- MCTypeOf
  SentRequests <- MCSent
INVARIANTS
  TypeOK
  PassedConforms
  FailedDeviates
  PanicsOnlyHere
  PassedAsSent
  FailedAsSent
CHECK_DEADLOCK FALSE
