-------------------------- MODULE RequestValidation --------------------------
(***************************************************************************)
(* OpenApiPayloadValidator::validate_request (src/src/validator/mod.rs)    *)
(* with the body, parameter and scope validators it calls.  A request is   *)
(* looked up, then its body, headers, query and scopes are checked one     *)
(* after the other; the first part that fails ends the call.  None of this *)
(* has a state of its own: the traverser that the parts read the document  *)
(* through is modelled in ReferenceResolver and PathRouter.                *)
(*                                                                         *)
(* Beside what the code does stands what OpenAPI asks of each part, and    *)
(* the properties say where exactly the two differ.                        *)
(***************************************************************************)
EXTENDS Naturals, Sequences

CONSTANTS
  Names,       \* names of parameters, as the document writes them
  Lower,       \* the lower-case form of each name
  Schemas,     \* schemas of bodies and of parameters
  Accepts,     \* the bodies, and the texts once converted, that a schema accepts
  Complete,    \* the bodies that have the fields a schema lists as required
  Broken,      \* schemas of a type the conversion panics on
  Untyped,     \* schemas without, in place, a type that a text converts to:
               \* a $ref, a list of types, arrays, objects
  MediaTypes,  \* media types
  Bodies,      \* bodies, Null not among them
  Texts,       \* values of headers and of query parameters
  Scopes,      \* scopes of a caller
  Schemes,     \* names of security schemes
  Operations,  \* operations of the document
  Requests,    \* requests
  Securities,  \* what the document's own `security` can be
  NotFound,    \* no operation is found for the request
  NoBody,      \* the operation has no requestBody
  NoSchema,    \* a parameter or a media type without a schema
  Null,        \* the JSON null that stands for no body
  NoType,      \* the request has no usable Content-Type
  NoQuery,     \* the request has no query string
  NoScopes,    \* the caller passes no scopes
  NoSecurity   \* there is no `security` section

(***************************************************************************)
(* A definition is written in place, given by a $ref, or by a $ref that    *)
(* points nowhere.  Absent and empty `parameters` are alike to the code.   *)
(***************************************************************************)
Via == {"inline", "ref", "dangling"}
PartialFunctions(D, R) == UNION {[S -> R] : S \in SUBSET D}

BodyDefinition ==
  [via : Via, required : {"absent", "true", "false"},
   media : PartialFunctions(MediaTypes, Schemas \cup {NoSchema})]
Parameter ==
  [via : Via, location : {"header", "query", "path", "cookie"}, name : Names,
   required : BOOLEAN, schema : Schemas \cup {NoSchema}]
Security == {NoSecurity} \cup Seq(PartialFunctions(Schemes, SUBSET Scopes))

Operation ==
  [body : {NoBody} \cup BodyDefinition, parameters : Seq(Parameter),
   security : Security]

(* The names of headers are in lower case in every HeaderMap. *)
Headers == PartialFunctions({Lower[n] : n \in Names}, Texts)
Query == PartialFunctions(Names, Texts)
Request ==
  [contentType : MediaTypes \cup {NoType}, body : Bodies \cup {Null},
   headers : Headers, query : {NoQuery} \cup Query,
   scopes : {NoScopes} \cup SUBSET Scopes]

ASSUME ValidationAssumption ==
  /\ Lower \in [Names -> Names]
  /\ \A n \in Names : Lower[Lower[n]] = Lower[n]
  /\ Accepts \in [Schemas -> SUBSET (Bodies \cup Texts \cup {Null})]
  /\ Complete \in [Schemas -> SUBSET (Bodies \cup {Null})]
  /\ Broken \subseteq Schemas
  /\ Untyped \subseteq Schemas \ Broken
  /\ Null \notin Bodies
  /\ NoSchema \notin Schemas
  /\ NoType \notin MediaTypes
  /\ NotFound \notin Operations
  /\ Operations \subseteq Operation
  /\ Requests \subseteq Request
  /\ Securities \subseteq Security

VARIABLES
  operation, \* what find_operation comes to, NotFound included
  security,  \* the document's own `security`
  request,   \* the request, with the scopes the caller passes for it
  stage,     \* the part that is being checked
  index,     \* the parameter the loop of the part is at
  verdict    \* "pending", "ok", "error" or "panic"

inputs == <<operation, security, request>>
vars == <<inputs, stage, index, verdict>>

Init ==
  /\ request \in Requests
  /\ operation \in Operations \cup {NotFound}
  /\ security \in Securities
  /\ stage = "find"
  /\ index = 1
  /\ verdict = "pending"

At(part) == verdict = "pending" /\ stage = part

(* A part that fails ends the call: the stage tells which one it was. *)
Fail(outcome) ==
  /\ verdict' = outcome
  /\ UNCHANGED <<inputs, stage, index>>

Proceed(part) ==
  /\ stage' = part
  /\ index' = 1
  /\ UNCHANGED <<inputs, verdict>>

-----------------------------------------------------------------------------
(* find_operation: an error of the lookup is a todo!(). *)
FindOperation ==
  /\ At("find")
  /\ \/ operation = NotFound /\ Fail("panic")
     \/ operation # NotFound /\ Proceed("body")

-----------------------------------------------------------------------------
(* The request body.  A body that does not serialize is Null, as none is.  *)

Body == operation.body
ContentType == request.contentType
BodySchema == Body.media[ContentType]

(* `required` is read through the $ref; without one the default is true. *)
BodyRequired == Body.via = "dangling" \/ Body.required # "false"

(* No requestBody is defined: only a request without a body passes. *)
UndefinedBody ==
  /\ At("body")
  /\ Body = NoBody
  /\ \/ request.body = Null /\ Proceed("headers")
     \/ request.body # Null /\ Fail("error")

(* Without a Content-Type the body is not looked at. *)
UntypedBody ==
  /\ At("body")
  /\ Body # NoBody
  /\ ContentType = NoType
  /\ \/ ~BodyRequired /\ Proceed("headers")
     \/ BodyRequired /\ Fail("error")

(***************************************************************************)
(* The schema is found by way of the $refs.  The validation is by pointer, *)
(* from @@root to requestBody, content, the media type and the schema,     *)
(* which goes through no $ref: the validator cannot be built.              *)
(***************************************************************************)
BodyPasses ==
  /\ Body.via # "dangling"
  /\ ContentType \in DOMAIN Body.media
  /\ BodySchema # NoSchema
  /\ request.body \in Complete[BodySchema]
  /\ Body.via = "inline"
  /\ request.body \in Accepts[BodySchema]

TypedBody ==
  /\ At("body")
  /\ Body # NoBody
  /\ ContentType # NoType
  /\ \/ BodyPasses /\ Proceed("headers")
     \/ ~BodyPasses /\ Fail("error")

-----------------------------------------------------------------------------
(* The parameters, once for the headers and once for the query. *)

Location == IF stage = "headers" THEN "header" ELSE "query"
Given == IF stage = "headers" THEN request.headers ELSE request.query
Current == operation.parameters[index]
NextPart == IF stage = "headers" THEN "query" ELSE "scopes"

InParameters ==
  /\ verdict = "pending"
  /\ stage \in {"headers", "query"}
  /\ stage = "query" => request.query # NoQuery
  /\ index <= Len(operation.parameters)

(* The location of a definition behind a dangling $ref cannot be read. *)
UnreadableParameter ==
  /\ InParameters
  /\ Current.via = "dangling"
  /\ Fail("error")

(* Fault: the next definition is passed over as well. *)
OtherParameterTwice ==
  /\ InParameters
  /\ Current.via # "dangling"
  /\ Current.location # Location
  /\ index' = index + 2
  /\ UNCHANGED <<inputs, stage, verdict>>

OtherParameter ==
  /\ InParameters
  /\ Current.via # "dangling"
  /\ Current.location # Location
  /\ index' = index + 1
  /\ UNCHANGED <<inputs, stage, verdict>>

(* Fault: the result of the conversion is unwrapped. *)
OutcomeUnwrapped(p) ==
  IF p.schema = NoSchema THEN "error"
  ELSE IF p.name \notin DOMAIN Given THEN IF p.required THEN "error" ELSE "ok"
  ELSE IF p.schema \in Broken \cup Untyped THEN "panic"
  ELSE IF Given[p.name] \in Accepts[p.schema] THEN "ok" ELSE "error"

(***************************************************************************)
(* A value is converted before it is validated.  The type is read off the  *)
(* schema in place: without one, or with one of arrays or objects, it is   *)
(* an error, and one that from_str does not know is a todo!().             *)
(***************************************************************************)
Outcome(p) ==
  IF p.schema = NoSchema THEN "error"
  ELSE IF p.name \notin DOMAIN Given THEN IF p.required THEN "error" ELSE "ok"
  ELSE IF p.schema \in Broken THEN "panic"
  ELSE IF p.schema \in Untyped THEN "error"
  ELSE IF Given[p.name] \in Accepts[p.schema] THEN "ok" ELSE "error"

CheckParameter ==
  /\ InParameters
  /\ Current.via # "dangling"
  /\ Current.location = Location
  /\ \/ /\ Outcome(Current) = "ok"
        /\ index' = index + 1
        /\ UNCHANGED <<inputs, stage, verdict>>
     \/ /\ Outcome(Current) # "ok"
        /\ Fail(Outcome(Current))

(* Fault: the loop over the query goes on where that over the headers ended. *)
EndParametersKeepsIndex ==
  /\ verdict = "pending"
  /\ stage \in {"headers", "query"}
  /\ index > Len(operation.parameters)
  /\ stage = "query" => request.query # NoQuery
  /\ stage' = NextPart
  /\ index' = IF stage = "headers" THEN index ELSE 1
  /\ UNCHANGED <<inputs, verdict>>

EndParameters ==
  /\ verdict = "pending"
  /\ stage \in {"headers", "query"}
  /\ index > Len(operation.parameters)
  /\ stage = "query" => request.query # NoQuery
  /\ Proceed(NextPart)

(* Without a query string its parameters are not looked at. *)
SkipQuery ==
  /\ At("query")
  /\ request.query = NoQuery
  /\ Proceed("scopes")

-----------------------------------------------------------------------------
(* The scopes. *)

Accept ==
  /\ verdict' = "ok"
  /\ stage' = "done"
  /\ UNCHANGED <<inputs, index>>

SkipScopes ==
  /\ At("scopes")
  /\ request.scopes = NoScopes
  /\ Accept

(* The section of the operation counts, and that of the document without. *)
Required ==
  IF operation.security # NoSecurity THEN operation.security ELSE security

(* Fault: every requirement must be met. *)
ScopesMatchAll ==
  Required # NoSecurity =>
    \A i \in 1 .. Len(Required) : \E scheme \in DOMAIN Required[i] :
      Required[i][scheme] \subseteq request.scopes

(* One scheme of one requirement is enough. *)
ScopesMatch ==
  Required # NoSecurity =>
    \/ Required = <<>>
    \/ \E i \in 1 .. Len(Required) : \E scheme \in DOMAIN Required[i] :
         Required[i][scheme] \subseteq request.scopes

CheckScopes ==
  /\ At("scopes")
  /\ request.scopes # NoScopes
  /\ \/ ScopesMatch /\ Accept
     \/ ~ScopesMatch /\ Fail("error")

Next ==
  FindOperation \/ UndefinedBody \/ UntypedBody \/ TypedBody
  \/ UnreadableParameter \/ OtherParameter \/ CheckParameter \/ EndParameters
  \/ SkipQuery \/ SkipScopes \/ CheckScopes

Spec == Init /\ [][Next]_vars

-----------------------------------------------------------------------------
(* Every variable has its type; the stage of a failure is that of its part. *)
TypeOK ==
  /\ stage \in {"find", "body", "headers", "query", "scopes", "done"}
  /\ stage # "find" => operation # NotFound
  /\ index \in 1 .. (IF stage \in {"headers", "query"}
                     THEN Len(operation.parameters) + 1 ELSE 1)
  /\ verdict \in {"pending", "ok", "error", "panic"}
  /\ verdict = "ok" <=> stage = "done"

(***************************************************************************)
(* What OpenAPI asks of a request, part by part.                           *)
(***************************************************************************)
BodyConforms ==
  IF Body = NoBody THEN request.body = Null
  ELSE IF request.body = Null THEN Body.required # "true"
  ELSE /\ Body.via # "dangling"
       /\ ContentType \in DOMAIN Body.media
       /\ BodySchema # NoSchema => request.body \in Accepts[BodySchema]

Written(p, location) == IF location = "header" THEN Lower[p.name] ELSE p.name
Sent(location) ==
  IF location = "header" THEN request.headers
  ELSE IF request.query = NoQuery THEN <<>> ELSE request.query

ParameterConforms(p, location) ==
  LET name == Written(p, location) IN
  /\ p.via # "dangling"
  /\ p.required => name \in DOMAIN Sent(location)
  /\ name \in DOMAIN Sent(location) /\ p.schema # NoSchema
       => Sent(location)[name] \in Accepts[p.schema]

ScopesConform ==
  Required # NoSecurity =>
    \/ Required = <<>>
    \/ \E i \in 1 .. Len(Required) : \A scheme \in DOMAIN Required[i] :
         Required[i][scheme] \subseteq request.scopes

ParametersAt(location) ==
  {operation.parameters[i] : i \in
     {j \in 1 .. Len(operation.parameters) :
        operation.parameters[j].location = location}}

(***************************************************************************)
(* Where the code is more lenient than that: a body without a Content-Type,*)
(* a required body that is missing where the schema allows null, a header  *)
(* the document does not write in lower case (mod.rs:367), several schemes *)
(* of one requirement (scope.rs:47).                                       *)
(***************************************************************************)
BodyUnchecked ==
  /\ Body # NoBody
  /\ \/ ContentType = NoType /\ Body.required = "false"
     \/ ContentType # NoType /\ request.body = Null /\ BodyPasses

HeaderMissed(p) == ~p.required /\ Lower[p.name] # p.name

SchemesAlternative ==
  \E i \in 1 .. Len(Required) : \E s, q \in DOMAIN Required[i] : s # q

(***************************************************************************)
(* A part that validate_request has left behind conforms, but for these    *)
(* cases, a request without a query string (mod.rs:302) and a caller       *)
(* without scopes: whatever the other definitions of the operation are and *)
(* in whatever order its parameters stand.                                 *)
(***************************************************************************)
PassedConforms ==
  /\ stage \in {"headers", "query", "scopes", "done"} =>
       BodyConforms \/ BodyUnchecked
  /\ stage \in {"query", "scopes", "done"} =>
       \A p \in ParametersAt("header") :
         ParameterConforms(p, "header") \/ HeaderMissed(p)
  /\ stage \in {"scopes", "done"} /\ request.query # NoQuery =>
       \A p \in ParametersAt("query") : ParameterConforms(p, "query")
  /\ stage = "done" /\ request.scopes # NoScopes =>
       ScopesConform \/ SchemesAlternative

(***************************************************************************)
(* Where the code is stricter: a body by $ref, none where a Content-Type   *)
(* is sent or nothing is said of `required`, one that is no object; a      *)
(* parameter whose schema is absent or one of Untyped, a required header    *)
(* that the document does not write in lower case, any parameter that      *)
(* cannot be read; a requirement that names no scheme.                     *)
(***************************************************************************)
BodyOverstrict ==
  /\ Body # NoBody
  /\ \/ Body.via # "inline"
     \/ request.body = Null /\ (ContentType # NoType \/ Body.required = "absent")
     \/ /\ ContentType \in DOMAIN Body.media
        /\ BodySchema = NoSchema \/ request.body \notin Complete[BodySchema]

ParameterOverstrict(p, location) ==
  \/ p.schema = NoSchema
  \/ p.schema \in Untyped /\ p.name \in DOMAIN Sent(location)
  \/ location = "header" /\ p.required /\ Lower[p.name] # p.name

Unreadable ==
  \E i \in 1 .. Len(operation.parameters) : operation.parameters[i].via = "dangling"

SchemelessRequirement ==
  \E i \in 1 .. Len(Required) : DOMAIN Required[i] = {}

(***************************************************************************)
(* An error is raised only by a part that does not conform, but for these  *)
(* cases: a request that conforms to a document without them is accepted.  *)
(***************************************************************************)
FailedDeviates ==
  verdict = "error" =>
    CASE stage = "body"    -> ~BodyConforms \/ BodyOverstrict
      [] stage = "headers" -> \/ Unreadable
                              \/ \E p \in ParametersAt("header") :
                                   \/ ~ParameterConforms(p, "header")
                                   \/ ParameterOverstrict(p, "header")
      [] stage = "query"   -> \E p \in ParametersAt("query") :
                                \/ ~ParameterConforms(p, "query")
                                \/ ParameterOverstrict(p, "query")
      [] stage = "scopes"  -> ~ScopesConform \/ SchemelessRequirement
      [] OTHER             -> FALSE

(***************************************************************************)
(* validate_request panics only on a request no operation is found for     *)
(* (mod.rs:180) and on a parameter, sent with the request, of a type that  *)
(* from_str does not know (primitive.rs:43), `boolean` among them.         *)
(***************************************************************************)
PanicsOnlyHere ==
  verdict = "panic" =>
    \/ stage = "find" /\ operation = NotFound
    \/ /\ stage \in {"headers", "query"}
       /\ \E p \in ParametersAt(Location) :
            p.schema \in Broken /\ p.name \in DOMAIN Given
==============================================================================
