----------------------------- MODULE RequestTexts -----------------------------
(***************************************************************************)
(* A request as it is sent, below RequestValidation: the header fields in  *)
(* their order and the pieces of the query string, which validate_request  *)
(* reads into two HashMaps (src/src/validator/mod.rs:363, :432) before the *)
(* texts in them are converted and validated.  RequestValidation works on  *)
(* the maps; this module says what its verdict means for what was sent.    *)
(***************************************************************************)
EXTENDS RequestValidation, Integers

CONSTANTS
  Width,      \* bits of an i64
  Precision,  \* bits of the significand of an f64
  Top,        \* halves from which an f64 is infinite, as a power of two
  Opaque,     \* a header value that is no visible ASCII
  Typed,      \* schemas of parameters with a type the conversion knows
  TypeOf,     \* the type and the maximum of each of these
  SentRequests \* requests as they are sent

T == INSTANCE ParameterTexts WITH TextNames <- Names

FieldName == {Lower[n] : n \in Names}

ASSUME TextAssumption ==
  /\ Width \in Nat \ {0} /\ Precision \in Nat \ {0} /\ Top \in Nat \ {0}
  /\ Texts \subseteq T!Text
  /\ T!Word \in Texts
  /\ \A t \in Texts : t.form = "integer" => t.halves % 2 = 0
  /\ Opaque \notin Texts
  /\ Null \notin [halves : Int]
  /\ NoQuery \notin Query
  /\ Typed \subseteq Schemas \ (Broken \cup Untyped)
  /\ TypeOf \in [Typed -> [type : {"integer", "number", "string", "null"},
                           maximum : Int]]
  /\ \A s \in Typed, t \in Texts :
       t \in Accepts[s] <=> T!ConvertsAndValidates(TypeOf[s], t)
  /\ SentRequests \subseteq
       [fields : Seq(FieldName \X (Texts \cup {Opaque})),
        pieces : {NoQuery} \cup Seq([name : Names, values : Seq(Texts)])]

VARIABLE sent  \* the fields and the pieces of the request

(* The maps that the headers and the query of a request are read into. *)
HeadersOf == [s \in SentRequests |-> T!ReadHeaders(s.fields)]
QueryOf ==
  [s \in SentRequests |->
     IF s.pieces = NoQuery THEN NoQuery ELSE T!ReadQuery(s.pieces)]

(* The requests that what was sent is read as. *)
ReadAs ==
  [s \in SentRequests |->
     {r \in Requests : r.headers = HeadersOf[s] /\ r.query = QueryOf[s]}]

TextInit ==
  /\ sent \in SentRequests
  /\ request \in ReadAs[sent]
  /\ Init

TextSpec == TextInit /\ [][Next /\ UNCHANGED sent]_<<vars, sent>>

-----------------------------------------------------------------------------
(* Where values are sent under the name of a parameter, and the values. *)
Named(p, location) ==
  IF location = "header"
  THEN {i \in 1 .. Len(sent.fields) : sent.fields[i][1] = Lower[p.name]}
  ELSE IF sent.pieces = NoQuery THEN {}
  ELSE {i \in 1 .. Len(sent.pieces) : sent.pieces[i].name = p.name}

Value(location, i) ==
  IF location = "header" THEN sent.fields[i][2] ELSE T!FormValue(sent.pieces[i])

Means(p, v) == v # Opaque /\ T!MeansAndValidates(TypeOf[p.schema], v)

(* A name that the code looks up, of a schema it converts to. *)
Examinable(p, location) ==
  /\ p.via # "dangling"
  /\ p.schema \in Typed
  /\ location = "header" => Lower[p.name] = p.name

(***************************************************************************)
(* What passes without meaning a value the schema accepts: whatever comes  *)
(* before another value of the same name (mod.rs:463), and of the last one *)
(* any text if the type is null, a number that rounds to one in bounds     *)
(* (primitive.rs:95), a plus or a second = in a query value (mod.rs:440),  *)
(* a header value the code cannot read (mod.rs:371).                       *)
(***************************************************************************)
RoundsInto(p, v) ==
  /\ TypeOf[p.schema].type = "number"
  /\ T!Numeral(v)
  /\ T!Rounded(v.halves) # v.halves
  /\ T!Rounded(v.halves) <= TypeOf[p.schema].maximum

Misread(piece) ==
  /\ piece.values # <<>>
  /\ T!FormValue(piece) # piece.values[1]

(* The part of a location has been left behind. *)
Passed(location) ==
  IF location = "header" THEN stage \in {"query", "scopes", "done"}
  ELSE stage \in {"scopes", "done"}

(***************************************************************************)
(* A parameter of a part that validate_request has left behind was sent    *)
(* with a last value that means one its schema accepts, but for the cases  *)
(* above, whatever else was sent.                                          *)
(***************************************************************************)
PassedAsSent ==
  \A location \in {"header", "query"} : Passed(location) =>
    \A p \in ParametersAt(location) : Examinable(p, location) =>
      \A i \in Named(p, location) : (\A j \in Named(p, location) : j <= i) =>
        LET v == Value(location, i) IN
        \/ Means(p, v)
        \/ TypeOf[p.schema].type = "null"
        \/ IF location = "header" THEN v = Opaque ELSE Misread(sent.pieces[i])
        \/ v # Opaque /\ RoundsInto(p, v)

(***************************************************************************)
(* What fails though every value that was sent means one the schema        *)
(* accepts: an integer beyond i64 or written with a point (primitive.rs:   *)
(* 94), a number beyond f64, which becomes null, or one that rounds out of *)
(* bounds (:95).                                                           *)
(***************************************************************************)
Unrepresentable(p, v) ==
  LET schema == TypeOf[p.schema] IN
  \/ /\ schema.type = "integer"
     /\ v.form = "decimal" \/ v.halves \notin -(2 ^ Width) .. 2 ^ Width - 1
  \/ /\ schema.type = "number"
     /\ \/ T!ToF64(v) = Null
        \/ ~(T!Rounded(v.halves) <= schema.maximum)

FailedAsSent ==
  verdict = "error" /\ stage \in {"headers", "query"} =>
    \/ Unreadable
    \/ \E p \in ParametersAt(Location) :
         \/ ~Examinable(p, Location)
         \/ p.required /\ Named(p, Location) = {}
         \/ \E i \in Named(p, Location) :
              LET v == Value(Location, i) IN
              ~Means(p, v) \/ Unrepresentable(p, v)
=============================================================================
