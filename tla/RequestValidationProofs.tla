----------------------- MODULE RequestValidationProofs -----------------------
(***************************************************************************)
(* Where validate_request is right, and where it panics, for any document  *)
(* and any request.  What makes the properties inductive is Examined: what *)
(* the loop over the parameters has left behind, it has read and found     *)
(* right, and what the part before has left behind could be read.          *)
(***************************************************************************)
EXTENDS RequestValidation, TLAPS

Inputs ==
  /\ operation \in Operations \cup {NotFound}
  /\ security \in Securities
  /\ request \in Requests

(* What the loops have left behind. *)
Examined ==
  /\ stage \in {"headers", "query"} =>
       \A i \in 1 .. index - 1 :
         /\ operation.parameters[i].via # "dangling"
         /\ operation.parameters[i].location = Location =>
              Outcome(operation.parameters[i]) = "ok"
  /\ stage \in {"query", "scopes", "done"} => ~Unreadable

IInv ==
  /\ TypeOK
  /\ Inputs
  /\ Examined
  /\ PassedConforms
  /\ FailedDeviates
  /\ PanicsOnlyHere

USE DEF At

-----------------------------------------------------------------------------
(* The inputs. *)

(* A found operation is one of the document, and has a list of parameters. *)
LEMMA OperationType ==
  ASSUME Inputs, operation # NotFound
  PROVE  /\ operation \in Operation
         /\ operation.parameters \in Seq(Parameter)
         /\ Len(operation.parameters) \in Nat
         /\ \A i \in 1 .. Len(operation.parameters) :
              operation.parameters[i] \in Parameter
<1>1. operation \in Operation
  BY ValidationAssumption DEF Inputs
<1>2. operation.parameters \in Seq(Parameter)
  BY <1>1 DEF Operation
<1> QED  BY <1>1, <1>2

(* A header of a request is its own lower-case form. *)
LEMMA HeaderNames ==
  ASSUME Inputs, NEW n \in DOMAIN request.headers
  PROVE  n \in Names /\ Lower[n] = n
<1>1. request.headers \in Headers
  BY ValidationAssumption DEF Inputs, Request
<1>2. DOMAIN request.headers \subseteq {Lower[k] : k \in Names}
  BY <1>1 DEF Headers, PartialFunctions
<1> QED  BY <1>2, ValidationAssumption

-----------------------------------------------------------------------------
(* The parts, by themselves. *)

(* A body that passes conforms, or is of the cases that are not looked at. *)
LEMMA BodyPassed ==
  ASSUME Body # NoBody, ContentType # NoType, BodyPasses
  PROVE  BodyConforms \/ BodyUnchecked
BY DEF BodyPasses, BodyConforms, BodyUnchecked

(* A body that fails deviates, or is of the cases that are refused. *)
LEMMA BodyFailed ==
  ASSUME Body # NoBody, ContentType # NoType, ~BodyPasses
  PROVE  ~BodyConforms \/ BodyOverstrict
BY DEF BodyPasses, BodyConforms, BodyOverstrict

(* What a part is given is what was sent at its location. *)
LEMMA GivenIsSent ==
  ASSUME stage \in {"headers", "query"},
         stage = "query" => request.query # NoQuery
  PROVE  Given = Sent(Location)
BY DEF Given, Sent, Location

(* A name that is found is the one that was written. *)
LEMMA FoundAsWritten ==
  ASSUME Inputs, stage \in {"headers", "query"}, NEW p, p.name \in DOMAIN Given
  PROVE  Written(p, Location) = p.name
<1>1. CASE stage = "headers"
  BY <1>1, HeaderNames DEF Given, Written, Location
<1>2. CASE stage = "query"
  BY <1>2 DEF Written, Location
<1> QED  BY <1>1, <1>2

(* A header that passes conforms, or is written with a capital. *)
LEMMA HeaderPassed ==
  ASSUME Inputs, stage = "headers",
         NEW p, p.via # "dangling", Outcome(p) = "ok"
  PROVE  ParameterConforms(p, "header") \/ HeaderMissed(p)
<1>1. Location = "header" /\ Given = request.headers /\ Sent("header") = Given
  BY DEF Location, Given, Sent
<1>2. CASE p.name \in DOMAIN Given
  <2>1. Written(p, "header") = p.name
    BY <1>1, <1>2, FoundAsWritten
  <2>2. p.schema # NoSchema => Given[p.name] \in Accepts[p.schema]
    BY <1>2 DEF Outcome
  <2> QED  BY <1>1, <1>2, <2>1, <2>2 DEF ParameterConforms
<1>3. CASE p.name \notin DOMAIN Given
  <2>1. ~p.required
    BY <1>3 DEF Outcome
  <2>2. CASE Lower[p.name] = p.name
    BY <1>1, <1>3, <2>1, <2>2 DEF ParameterConforms, Written
  <2> QED  BY <2>1, <2>2 DEF HeaderMissed
<1> QED  BY <1>2, <1>3

(* A query parameter that passes conforms. *)
LEMMA QueryPassed ==
  ASSUME stage = "query", request.query # NoQuery,
         NEW p, p.via # "dangling", Outcome(p) = "ok"
  PROVE  ParameterConforms(p, "query")
<1>1. Given = request.query /\ Sent("query") = Given /\ Written(p, "query") = p.name
  BY DEF Given, Sent, Written
<1> QED  BY <1>1 DEF Outcome, ParameterConforms

(* A parameter that fails deviates, or is of the cases that are refused. *)
LEMMA ParameterFailed ==
  ASSUME Inputs, stage \in {"headers", "query"},
         stage = "query" => request.query # NoQuery,
         NEW p, Outcome(p) = "error"
  PROVE  ~ParameterConforms(p, Location) \/ ParameterOverstrict(p, Location)
<1>1. Given = Sent(Location)
  BY GivenIsSent
<1>2. CASE p.schema = NoSchema
  BY <1>2 DEF ParameterOverstrict
<1>3. CASE p.schema # NoSchema /\ p.name \in DOMAIN Given
  <2>1. p.schema \in Untyped \/ Given[p.name] \notin Accepts[p.schema]
    BY <1>3 DEF Outcome
  <2>2. Written(p, Location) = p.name
    BY <1>3, FoundAsWritten
  <2> QED  BY <1>1, <1>3, <2>1, <2>2 DEF ParameterConforms, ParameterOverstrict
<1>4. CASE p.schema # NoSchema /\ p.name \notin DOMAIN Given
  <2>1. p.required
    BY <1>4 DEF Outcome
  <2>2. CASE Written(p, Location) = p.name
    BY <1>1, <1>4, <2>1, <2>2 DEF ParameterConforms
  <2>3. CASE Written(p, Location) # p.name
    BY <2>1, <2>3 DEF Written, ParameterOverstrict
  <2> QED  BY <2>2, <2>3
<1> QED  BY <1>2, <1>3, <1>4

(* Scopes that match conform, unless a requirement names several schemes. *)
LEMMA ScopesPassed ==
  ASSUME ScopesMatch
  PROVE  ScopesConform \/ SchemesAlternative
BY DEF ScopesMatch, ScopesConform, SchemesAlternative

(* Scopes that do not match deviate, unless a requirement names no scheme. *)
LEMMA ScopesFailed ==
  ASSUME ~ScopesMatch
  PROVE  ~ScopesConform \/ SchemelessRequirement
BY DEF ScopesMatch, ScopesConform, SchemelessRequirement

-----------------------------------------------------------------------------
(* The steps. *)

(* What OpenAPI asks of a request does not change while it is validated. *)
LEMMA Frame ==
  ASSUME UNCHANGED inputs
  PROVE  /\ UNCHANGED <<operation, security, request>>
         /\ Inputs' <=> Inputs
         /\ Body' = Body
         /\ BodyConforms' <=> BodyConforms
         /\ BodyUnchecked' <=> BodyUnchecked
         /\ BodyOverstrict' <=> BodyOverstrict
         /\ ScopesConform' <=> ScopesConform
         /\ SchemesAlternative' <=> SchemesAlternative
         /\ SchemelessRequirement' <=> SchemelessRequirement
         /\ Unreadable' <=> Unreadable
         /\ \A l : ParametersAt(l)' = ParametersAt(l)
         /\ \A p, l : ParameterConforms(p, l)' <=> ParameterConforms(p, l)
         /\ \A p, l : ParameterOverstrict(p, l)' <=> ParameterOverstrict(p, l)
<1>1. UNCHANGED <<operation, security, request>>
  BY DEF inputs
<1>2. /\ Body' = Body
      /\ ContentType' = ContentType
      /\ BodySchema' = BodySchema
      /\ Required' = Required
  BY <1>1 DEF Body, ContentType, BodySchema, Required
<1>3. BodyPasses' <=> BodyPasses
  BY <1>1, <1>2 DEF BodyPasses
<1>4. Inputs' <=> Inputs
  BY <1>1 DEF Inputs
<1>5. BodyConforms' <=> BodyConforms
  BY <1>1, <1>2 DEF BodyConforms
<1>6. BodyUnchecked' <=> BodyUnchecked
  BY <1>1, <1>2, <1>3 DEF BodyUnchecked
<1>7. BodyOverstrict' <=> BodyOverstrict
  BY <1>1, <1>2 DEF BodyOverstrict
<1>8. ScopesConform' <=> ScopesConform
  BY <1>1, <1>2 DEF ScopesConform
<1>9. SchemesAlternative' <=> SchemesAlternative
  BY <1>2 DEF SchemesAlternative
<1>10. SchemelessRequirement' <=> SchemelessRequirement
  BY <1>2 DEF SchemelessRequirement
<1>11. Unreadable' <=> Unreadable
  BY <1>1 DEF Unreadable
<1>12. \A l : ParametersAt(l)' = ParametersAt(l)
  BY <1>1 DEF ParametersAt
<1>13. \A l : Sent(l)' = Sent(l)
  BY <1>1 DEF Sent
<1>14. \A p, l : ParameterConforms(p, l)' <=> ParameterConforms(p, l)
  BY <1>13 DEF ParameterConforms, Written
<1>15. \A p, l : ParameterOverstrict(p, l)' <=> ParameterOverstrict(p, l)
  BY <1>13 DEF ParameterOverstrict
<1> QED
  BY <1>1, <1>2, <1>4, <1>5, <1>6, <1>7, <1>8, <1>9, <1>10, <1>11, <1>12,
     <1>14, <1>15

(* Nor does what a part is given, while it runs. *)
LEMMA PartFrame ==
  ASSUME UNCHANGED inputs, UNCHANGED stage
  PROVE  Location' = Location /\ \A p : Outcome(p)' = Outcome(p)
<1>1. Given' = Given
  BY DEF inputs, Given
<1> QED  BY <1>1 DEF Outcome, Location

(* No action changes what validate_request was called with. *)
LEMMA InputsUnchanged ==
  ASSUME Next
  PROVE  UNCHANGED inputs
BY DEF Next, FindOperation, UndefinedBody, UntypedBody, TypedBody,
       UnreadableParameter, OtherParameter, CheckParameter, EndParameters,
       SkipQuery, SkipScopes, CheckScopes, Accept, Fail, Proceed

LEMMA TypeStep ==
  ASSUME TypeOK, Inputs, Next
  PROVE  TypeOK'
<1>1. UNCHANGED <<operation, security, request>>
  BY InputsUnchanged, Frame
<1>2. operation # NotFound => Len(operation.parameters) \in Nat
  BY OperationType
<1> USE <1>1, <1>2 DEF TypeOK
<1>3. CASE FindOperation
  BY <1>3 DEF FindOperation, Fail, Proceed
<1>4. CASE UndefinedBody \/ UntypedBody \/ TypedBody
  BY <1>4 DEF UndefinedBody, UntypedBody, TypedBody, Fail, Proceed
<1>5. CASE UnreadableParameter
  BY <1>5 DEF UnreadableParameter, InParameters, Fail
<1>6. CASE OtherParameter
  BY <1>6 DEF OtherParameter, InParameters
<1>7. CASE CheckParameter
  <2>1. CASE Outcome(Current) = "ok" /\ index' = index + 1 /\ UNCHANGED <<stage, verdict>>
    BY <1>7, <2>1 DEF CheckParameter, InParameters
  <2>2. CASE Outcome(Current) # "ok" /\ Fail(Outcome(Current))
    <3>1. Outcome(Current) \in {"error", "panic"}
      BY <2>2 DEF Outcome
    <3> QED  BY <1>7, <2>2, <3>1 DEF CheckParameter, InParameters, Fail
  <2> QED  BY <1>7, <2>1, <2>2 DEF CheckParameter
<1>8. CASE EndParameters \/ SkipQuery
  BY <1>8 DEF EndParameters, SkipQuery, NextPart, Proceed
<1>9. CASE SkipScopes \/ CheckScopes
  BY <1>9 DEF SkipScopes, CheckScopes, Accept, Fail
<1> QED  BY <1>3, <1>4, <1>5, <1>6, <1>7, <1>8, <1>9 DEF Next

LEMMA ExaminedStep ==
  ASSUME TypeOK, Inputs, Examined, Next
  PROVE  Examined'
<1>1. UNCHANGED inputs
  BY InputsUnchanged
<1>2. UNCHANGED operation /\ (Unreadable' <=> Unreadable)
  BY <1>1, Frame
<1>3. CASE UNCHANGED <<stage, index>>
  BY <1>1, <1>2, <1>3, PartFrame DEF Examined
<1>4. CASE stage' \in {"body", "headers"} /\ index' = 1
  BY <1>4 DEF Examined
<1>5. CASE OtherParameter \/ (CheckParameter /\ Outcome(Current) = "ok")
  <2>1. /\ UNCHANGED stage
        /\ index' = index + 1
        /\ stage \in {"headers", "query"}
        /\ Current.via # "dangling"
        /\ Current.location = Location => Outcome(Current) = "ok"
    BY <1>5 DEF OtherParameter, CheckParameter, InParameters, Fail
  <2>2. index \in Nat
    BY DEF TypeOK
  <2>3. \A i \in 1 .. index' - 1 : i \in 1 .. index - 1 \/ i = index
    BY <2>1, <2>2
  <2>4. Location' = Location /\ \A p : Outcome(p)' = Outcome(p)
    BY <1>1, <2>1, PartFrame
  <2> QED  BY <1>2, <2>1, <2>3, <2>4 DEF Examined, Current
<1>6. CASE EndParameters
  <2>1. stage = "headers" => ~Unreadable
    <3> SUFFICES ASSUME stage = "headers",
                        NEW i \in 1 .. Len(operation.parameters)
                 PROVE  operation.parameters[i].via # "dangling"
      BY DEF Unreadable
    <3>1. Len(operation.parameters) \in Nat
      BY OperationType DEF TypeOK
    <3>2. i \in 1 .. index - 1
      BY <1>6, <3>1 DEF EndParameters, TypeOK
    <3> QED  BY <3>2 DEF Examined
  <2> QED  BY <1>2, <1>6, <2>1 DEF EndParameters, Proceed, NextPart, Examined
<1>7. CASE SkipQuery \/ SkipScopes \/ (CheckScopes /\ Accept)
  BY <1>2, <1>7 DEF SkipQuery, SkipScopes, CheckScopes, Accept, Proceed, Examined
<1>8. CASE FindOperation \/ UndefinedBody \/ UntypedBody \/ TypedBody
  BY <1>3, <1>4, <1>8
  DEF FindOperation, UndefinedBody, UntypedBody, TypedBody, Fail, Proceed
<1>9. CASE UnreadableParameter \/ CheckParameter
  BY <1>3, <1>5, <1>9 DEF UnreadableParameter, CheckParameter, Fail
<1>10. CASE CheckScopes
  BY <1>3, <1>7, <1>10 DEF CheckScopes, Fail
<1> QED  BY <1>5, <1>6, <1>7, <1>8, <1>9, <1>10 DEF Next

LEMMA PassedStep ==
  ASSUME TypeOK, Inputs, Examined, PassedConforms, Next
  PROVE  PassedConforms'
<1>1. UNCHANGED inputs
  BY InputsUnchanged
<1> USE <1>1, Frame
<1>2. CASE UNCHANGED stage
  BY <1>2 DEF PassedConforms
<1>3. CASE stage' = "body"
  BY <1>3 DEF PassedConforms
<1>4. CASE (UndefinedBody \/ UntypedBody \/ TypedBody) /\ Proceed("headers")
  <2>1. BodyConforms \/ BodyUnchecked
    <3>1. CASE UndefinedBody
      BY <1>4, <3>1 DEF UndefinedBody, BodyConforms, Fail, Proceed
    <3>2. CASE UntypedBody
      BY <1>4, <3>2, OperationType DEF UntypedBody, BodyRequired, BodyUnchecked, Fail, Proceed
    <3>3. CASE TypedBody
      BY <1>4, <3>3, BodyPassed DEF TypedBody, Fail, Proceed
    <3> QED  BY <1>4, <3>1, <3>2, <3>3
  <2> QED  BY <1>4, <2>1 DEF Proceed, PassedConforms
<1>5. CASE EndParameters
  <2>1. /\ stage \in {"headers", "query"}
        /\ stage = "query" => request.query # NoQuery
        /\ stage' = NextPart
    BY <1>5 DEF EndParameters, Proceed
  <2>2. \A i \in 1 .. Len(operation.parameters) : i \in 1 .. index - 1
    <3>1. Len(operation.parameters) \in Nat /\ index \in Nat
      BY <2>1, OperationType DEF TypeOK
    <3> QED  BY <1>5, <3>1 DEF EndParameters
  <2>3. \A p \in ParametersAt(Location) : p.via # "dangling" /\ Outcome(p) = "ok"
    BY <2>1, <2>2 DEF ParametersAt, Examined
  <2>4. CASE stage = "headers"
    <3>1. \A p \in ParametersAt("header") : ParameterConforms(p, "header") \/ HeaderMissed(p)
      BY <2>3, <2>4, HeaderPassed DEF Location
    <3> QED  BY <2>1, <2>4, <3>1 DEF NextPart, PassedConforms, HeaderMissed
  <2>5. CASE stage = "query"
    <3>1. \A p \in ParametersAt("query") : ParameterConforms(p, "query")
      BY <2>1, <2>3, <2>5, QueryPassed DEF Location
    <3> QED  BY <2>1, <2>5, <3>1 DEF NextPart, PassedConforms, HeaderMissed
  <2> QED  BY <2>1, <2>4, <2>5
<1>6. CASE SkipQuery
  BY <1>6 DEF SkipQuery, Proceed, PassedConforms, HeaderMissed
<1>7. CASE SkipScopes
  BY <1>7 DEF SkipScopes, Accept, PassedConforms, HeaderMissed
<1>8. CASE CheckScopes /\ ~UNCHANGED stage
  <2>1. ScopesMatch /\ stage = "scopes" /\ stage' = "done"
    BY <1>8 DEF CheckScopes, Accept, Fail
  <2> QED  BY <2>1, ScopesPassed DEF PassedConforms, HeaderMissed
<1> QED
  BY <1>2, <1>3, <1>4, <1>5, <1>6, <1>7, <1>8
  DEF Next, FindOperation, UndefinedBody, UntypedBody, TypedBody,
      UnreadableParameter, OtherParameter, CheckParameter, Fail, Proceed

LEMMA FailedStep ==
  ASSUME TypeOK, Inputs, Examined, FailedDeviates, Next
  PROVE  FailedDeviates'
<1>1. UNCHANGED inputs
  BY InputsUnchanged
<1> USE <1>1, Frame
<1>2. CASE verdict' # "error"
  BY <1>2 DEF FailedDeviates
<1>3. CASE UndefinedBody /\ Fail("error")
  <2>1. ~BodyConforms
    BY <1>3 DEF UndefinedBody, BodyConforms, Fail, Proceed
  <2> QED  BY <1>3, <2>1 DEF UndefinedBody, Fail, FailedDeviates
<1>4. CASE UntypedBody /\ Fail("error")
  <2>1. BodyRequired
    BY <1>4 DEF UntypedBody, Fail, Proceed
  <2>2. ~BodyConforms \/ BodyOverstrict
    <3>1. operation # NotFound
      BY <1>4 DEF UntypedBody, TypeOK
    <3>2. Body \in BodyDefinition
      BY <1>4, <3>1, OperationType DEF Operation, Body, UntypedBody
    <3>3. Body.via = "dangling" \/ Body.required \in {"absent", "true"}
      BY <2>1, <3>2 DEF BodyRequired, BodyDefinition
    <3>4. DOMAIN Body.media \subseteq MediaTypes
      BY <3>2 DEF BodyDefinition, PartialFunctions
    <3>5. ContentType \notin DOMAIN Body.media
      BY <1>4, <3>4, ValidationAssumption DEF UntypedBody
    <3> QED
      BY <1>4, <3>3, <3>5 DEF UntypedBody, BodyConforms, BodyOverstrict
  <2> QED  BY <1>4, <2>2 DEF UntypedBody, Fail, FailedDeviates
<1>5. CASE TypedBody /\ Fail("error")
  <2>1. ~BodyConforms \/ BodyOverstrict
    BY <1>5, BodyFailed DEF TypedBody, Fail, Proceed
  <2> QED  BY <1>5, <2>1 DEF TypedBody, Fail, FailedDeviates
<1>6. CASE UnreadableParameter
  <2>1. index \in 1 .. Len(operation.parameters)
    BY <1>6, OperationType DEF UnreadableParameter, InParameters, TypeOK
  <2>2. Unreadable
    BY <1>6, <2>1 DEF UnreadableParameter, Current, Unreadable
  <2>3. stage = "headers"
    BY <1>6, <2>2 DEF UnreadableParameter, InParameters, Examined
  <2> QED  BY <1>6, <2>2, <2>3 DEF UnreadableParameter, Fail, FailedDeviates
<1>7. CASE CheckParameter /\ verdict' = "error"
  <2>1. /\ stage \in {"headers", "query"}
        /\ stage = "query" => request.query # NoQuery
        /\ UNCHANGED stage
        /\ Current.location = Location
        /\ Outcome(Current) = "error"
    BY <1>7 DEF CheckParameter, InParameters, Fail
  <2>2. index \in 1 .. Len(operation.parameters)
    BY <1>7, <2>1, OperationType DEF CheckParameter, InParameters, TypeOK
  <2>3. Current \in ParametersAt(Location)
    BY <2>1, <2>2 DEF ParametersAt, Current
  <2>4. ~ParameterConforms(Current, Location) \/ ParameterOverstrict(Current, Location)
    BY <2>1, ParameterFailed
  <2> QED  BY <2>1, <2>3, <2>4 DEF Location, FailedDeviates
<1>8. CASE CheckScopes /\ verdict' = "error"
  <2>1. ~ScopesMatch /\ stage = "scopes" /\ UNCHANGED stage
    BY <1>8 DEF CheckScopes, Accept, Fail
  <2> QED  BY <2>1, ScopesFailed DEF FailedDeviates
<1> QED
  BY <1>2, <1>3, <1>4, <1>5, <1>6, <1>7, <1>8
  DEF Next, FindOperation, UndefinedBody, UntypedBody, TypedBody, OtherParameter,
      InParameters, EndParameters, SkipQuery, SkipScopes, Accept, Fail, Proceed

LEMMA PanicStep ==
  ASSUME TypeOK, Inputs, PanicsOnlyHere, Next
  PROVE  PanicsOnlyHere'
<1>1. UNCHANGED inputs
  BY InputsUnchanged
<1> USE <1>1, Frame
<1>2. CASE verdict' # "panic"
  BY <1>2 DEF PanicsOnlyHere
<1>3. CASE FindOperation /\ verdict' = "panic"
  BY <1>3 DEF FindOperation, Fail, Proceed, PanicsOnlyHere
<1>4. CASE CheckParameter /\ verdict' = "panic"
  <2>1. /\ stage \in {"headers", "query"}
        /\ UNCHANGED stage
        /\ Current.location = Location
        /\ Outcome(Current) = "panic"
    BY <1>4 DEF CheckParameter, InParameters, Fail
  <2>2. index \in 1 .. Len(operation.parameters)
    BY <1>4, <2>1, OperationType DEF CheckParameter, InParameters, TypeOK
  <2>3. Current \in ParametersAt(Location)
    BY <2>1, <2>2 DEF ParametersAt, Current
  <2>4. Current.schema \in Broken /\ Current.name \in DOMAIN Given
    BY <2>1 DEF Outcome
  <2>5. Location' = Location /\ Given' = Given
    BY <2>1 DEF Location, Given
  <2> QED  BY <2>1, <2>3, <2>4, <2>5 DEF PanicsOnlyHere
<1> QED
  BY <1>2, <1>3, <1>4
  DEF Next, UndefinedBody, UntypedBody, TypedBody, UnreadableParameter,
      InParameters, OtherParameter, EndParameters, SkipQuery, SkipScopes, CheckScopes,
      Accept, Fail, Proceed

-----------------------------------------------------------------------------
(* The invariant IInv, and with it what the runs check: the index and the  *)
(* stage of validate_request stay in step (TypeOK), what is left behind    *)
(* conforms, what fails deviates, and panics have two places.              *)
THEOREM Invariance == Spec => []IInv
<1>1. Init => IInv
  BY DEF Init, inputs, IInv, TypeOK, Inputs, Examined, PassedConforms,
         FailedDeviates, PanicsOnlyHere
<1>2. IInv /\ [Next]_vars => IInv'
  <2> SUFFICES ASSUME IInv, [Next]_vars  PROVE IInv'
    OBVIOUS
  <2>1. CASE Next
    <3>1. Inputs'
      BY <2>1, InputsUnchanged, Frame DEF IInv
    <3> QED
      BY <2>1, <3>1, TypeStep, ExaminedStep, PassedStep, FailedStep, PanicStep
      DEF IInv
  <2>2. CASE UNCHANGED vars
    <3>1. UNCHANGED inputs /\ UNCHANGED <<stage, index, verdict>>
      BY <2>2 DEF vars
    <3>2. TypeOK' /\ Inputs' /\ Examined'
      BY <3>1, Frame, PartFrame DEF IInv, TypeOK, Examined
    <3>3. PassedConforms' /\ FailedDeviates'
      BY <3>1, Frame DEF IInv, PassedConforms, FailedDeviates, HeaderMissed
    <3>4. PanicsOnlyHere'
      BY <3>1, Frame DEF IInv, PanicsOnlyHere, Location, Given
    <3> QED  BY <3>2, <3>3, <3>4 DEF IInv
  <2> QED  BY <2>1, <2>2
<1> QED  BY <1>1, <1>2, PTL DEF Spec

(* The loop over the parameters stays within them, and an accepted request *)
(* is one that every part has been asked about.                            *)
THEOREM TypeCorrect == Spec => []TypeOK
BY Invariance, PTL DEF IInv

(* Every part that validate_request has left behind conforms to OpenAPI,   *)
(* but for the cases that PassedConforms names.                            *)
THEOREM PassedIsRight == Spec => []PassedConforms
BY Invariance, PTL DEF IInv

(* Every error of validate_request has its reason in the part that raised  *)
(* it, but for the cases that FailedDeviates names.                        *)
THEOREM FailedIsRight == Spec => []FailedDeviates
BY Invariance, PTL DEF IInv

(* validate_request has two panics: find_operation and from_str.           *)
THEOREM PanicsAreKnown == Spec => []PanicsOnlyHere
BY Invariance, PTL DEF IInv
==============================================================================
