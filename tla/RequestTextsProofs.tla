------------------------- MODULE RequestTextsProofs -------------------------
(***************************************************************************)
(* What the verdict of validate_request means for the texts of a request,  *)
(* as they were sent: for any header fields and query strings, any widths  *)
(* of i64 and f64 and any document.  RequestValidationProofs says what the *)
(* verdict means for the two maps the texts are read into; here is what    *)
(* those maps keep of what was sent, and what a text that is converted and *)
(* validated means.                                                        *)
(***************************************************************************)
EXTENDS RequestTexts, RequestValidationProofs, SequenceTheorems,
        WellFoundedInduction, TLAPS

(* The request is one that what was sent is read as. *)
Reads ==
  /\ sent \in SentRequests
  /\ request \in ReadAs[sent]

-----------------------------------------------------------------------------
(* Reading into a map *)

LEMMA GreatestOf ==
  ASSUME NEW n \in Nat, NEW S \in SUBSET (1 .. n), S # {}
  PROVE  T!Max(S) \in S /\ \A i \in S : i <= T!Max(S)
<1> DEFINE B == {m \in Nat : \A i \in S : i <= m}
<1>1. n \in B
  OBVIOUS
<1>2. B \in SUBSET Nat /\ B # {}
  BY <1>1
<1> HIDE DEF B
<1>3. PICK m \in B : \A k \in B : ~(<<k, m>> \in OpToRel(<, Nat))
  BY <1>2, NatLessThanWellFounded, WFMin
<1> USE DEF B
<1>4. m \in Nat /\ \A i \in S : i <= m
  OBVIOUS
<1>5. m \in S
  <2> SUFFICES ASSUME m \notin S  PROVE FALSE
    OBVIOUS
  <2>1. m # 0
    <3>1. PICK i \in S : i \in 1 .. n
      OBVIOUS
    <3> QED  BY <1>4, <3>1
  <2>2. m - 1 \in B
    BY <1>4, <2>1
  <2>3. m - 1 \in Nat /\ m - 1 < m
    BY <1>4, <2>1
  <2>4. <<m - 1, m>> \in OpToRel(<, Nat)
    BY <1>4, <2>3 DEF OpToRel
  <2> QED  BY <1>3, <2>2, <2>4
<1>6. \E x \in S : \A y \in S : x >= y
  BY <1>4, <1>5
<1> QED  BY <1>6 DEF T!Max

(* A map that is collected has of each name the last pair that was kept. *)
LEMMA Collected ==
  ASSUME NEW pairs, NEW n \in Nat, NEW kept \in SUBSET (1 .. n)
  PROVE  /\ DOMAIN T!Collect(pairs, kept) = {pairs[i][1] : i \in kept}
         /\ \A name \in DOMAIN T!Collect(pairs, kept) :
              \E i \in kept :
                /\ pairs[i][1] = name
                /\ T!Collect(pairs, kept)[name] = pairs[i][2]
                /\ \A j \in kept : pairs[j][1] = name => j <= i
<1>1. DOMAIN T!Collect(pairs, kept) = {pairs[i][1] : i \in kept}
  BY DEF T!Collect
<1>2. ASSUME NEW name \in DOMAIN T!Collect(pairs, kept)
      PROVE  \E i \in kept :
                /\ pairs[i][1] = name
                /\ T!Collect(pairs, kept)[name] = pairs[i][2]
                /\ \A j \in kept : pairs[j][1] = name => j <= i
  <2> DEFINE S == {i \in kept : pairs[i][1] = name}
  <2>1. S \in SUBSET (1 .. n) /\ S # {}
    BY <1>1
  <2>2. T!Max(S) \in S /\ \A i \in S : i <= T!Max(S)
    <3> HIDE DEF S
    <3> QED  BY <2>1, GreatestOf
  <2>3. T!Collect(pairs, kept)[name] = pairs[T!Max(S)][2]
    BY <1>1 DEF T!Collect
  <2> QED  BY <2>2, <2>3
<1> QED  BY <1>1, <1>2

LEMMA SentTyped ==
  ASSUME Reads
  PROVE  /\ sent.fields \in Seq(FieldName \X (Texts \cup {Opaque}))
         /\ Len(sent.fields) \in Nat
         /\ \A i \in 1 .. Len(sent.fields) :
              sent.fields[i] \in FieldName \X (Texts \cup {Opaque})
         /\ sent.pieces # NoQuery =>
              /\ sent.pieces \in Seq([name : Names, values : Seq(Texts)])
              /\ Len(sent.pieces) \in Nat
              /\ \A i \in 1 .. Len(sent.pieces) :
                   sent.pieces[i] \in [name : Names, values : Seq(Texts)]
         /\ request.headers = T!ReadHeaders(sent.fields)
         /\ request.query = IF sent.pieces = NoQuery THEN NoQuery
                            ELSE T!ReadQuery(sent.pieces)
<1>1. sent \in [fields : Seq(FieldName \X (Texts \cup {Opaque})),
                pieces : {NoQuery} \cup Seq([name : Names, values : Seq(Texts)])]
  BY TextAssumption DEF Reads
<1>2. /\ sent.fields \in Seq(FieldName \X (Texts \cup {Opaque}))
      /\ sent.pieces # NoQuery => sent.pieces \in Seq([name : Names, values : Seq(Texts)])
  BY <1>1
<1>3. request.headers = HeadersOf[sent] /\ request.query = QueryOf[sent]
  BY DEF Reads, ReadAs
<1>4. /\ request.headers = T!ReadHeaders(sent.fields)
      /\ request.query = IF sent.pieces = NoQuery THEN NoQuery ELSE T!ReadQuery(sent.pieces)
  BY <1>3 DEF Reads, HeadersOf, QueryOf
<1>5. /\ Len(sent.fields) \in Nat
      /\ \A i \in 1 .. Len(sent.fields) :
           sent.fields[i] \in FieldName \X (Texts \cup {Opaque})
  BY <1>2, LenProperties, ElementOfSeq
<1>6. sent.pieces # NoQuery =>
        /\ Len(sent.pieces) \in Nat
        /\ \A i \in 1 .. Len(sent.pieces) :
             sent.pieces[i] \in [name : Names, values : Seq(Texts)]
  BY <1>2, LenProperties, ElementOfSeq
<1> QED  BY <1>2, <1>4, <1>5, <1>6

(* What the map of headers keeps: the last value of a name that is a text. *)
LEMMA HeadersRead ==
  ASSUME Reads
  PROVE  /\ \A i \in 1 .. Len(sent.fields) : sent.fields[i][2] # Opaque =>
              sent.fields[i][1] \in DOMAIN request.headers
         /\ \A name \in DOMAIN request.headers :
              \E i \in 1 .. Len(sent.fields) :
                /\ sent.fields[i][1] = name
                /\ request.headers[name] = sent.fields[i][2]
                /\ sent.fields[i][2] \in Texts
                /\ \A j \in 1 .. Len(sent.fields) :
                     sent.fields[j][1] = name /\ sent.fields[j][2] # Opaque => j <= i
<1> DEFINE kept == {i \in 1 .. Len(sent.fields) : sent.fields[i][2] # Opaque}
<1>1. /\ Len(sent.fields) \in Nat
      /\ request.headers = T!Collect(sent.fields, kept)
      /\ \A i \in kept : sent.fields[i][2] \in Texts
  BY SentTyped DEF T!ReadHeaders
<1>2. kept \in SUBSET (1 .. Len(sent.fields))
  OBVIOUS
<1>3. /\ DOMAIN request.headers = {sent.fields[i][1] : i \in kept}
      /\ \A name \in DOMAIN request.headers :
           \E i \in kept :
             /\ sent.fields[i][1] = name
             /\ request.headers[name] = sent.fields[i][2]
             /\ \A j \in kept : sent.fields[j][1] = name => j <= i
  <2> DEFINE map == T!Collect(sent.fields, kept)
  <2>1. /\ DOMAIN map = {sent.fields[i][1] : i \in kept}
        /\ \A name \in DOMAIN map :
             \E i \in kept :
               /\ sent.fields[i][1] = name
               /\ map[name] = sent.fields[i][2]
               /\ \A j \in kept : sent.fields[j][1] = name => j <= i
    <3> HIDE DEF kept
    <3> QED  BY <1>1, <1>2, Collected
  <2> HIDE DEF kept, map
  <2>2. request.headers = map
    BY <1>1 DEF map
  <2> QED  BY <2>1, <2>2
<1> QED  BY <1>1, <1>3

(* What the map of a query keeps: of each name the last value. *)
LEMMA QueryRead ==
  ASSUME Reads, sent.pieces # NoQuery
  PROVE  /\ request.query # NoQuery
         /\ \A i \in 1 .. Len(sent.pieces) : sent.pieces[i].name \in DOMAIN request.query
         /\ \A name \in DOMAIN request.query :
              \E i \in 1 .. Len(sent.pieces) :
                /\ sent.pieces[i].name = name
                /\ request.query[name] = T!ValueOf(sent.pieces[i])
                /\ T!ValueOf(sent.pieces[i]) \in Texts
                /\ \A j \in 1 .. Len(sent.pieces) : sent.pieces[j].name = name => j <= i
<1> DEFINE pairs == [i \in 1 .. Len(sent.pieces) |->
                       <<sent.pieces[i].name, T!ValueOf(sent.pieces[i])>>]
<1>1. /\ Len(sent.pieces) \in Nat
      /\ request.query = T!Collect(pairs, 1 .. Len(sent.pieces))
      /\ \A i \in 1 .. Len(sent.pieces) :
           sent.pieces[i] \in [name : Names, values : Seq(Texts)]
  BY SentTyped DEF T!ReadQuery
<1>2. \A i \in 1 .. Len(sent.pieces) :
        /\ pairs[i][1] = sent.pieces[i].name
        /\ pairs[i][2] = T!ValueOf(sent.pieces[i])
        /\ T!ValueOf(sent.pieces[i]) \in Texts
        /\ sent.pieces[i].name \in Names
  <2> SUFFICES ASSUME NEW i \in 1 .. Len(sent.pieces)
               PROVE  T!ValueOf(sent.pieces[i]) \in Texts
    BY <1>1
  <2>1. sent.pieces[i].values \in Seq(Texts)
    BY <1>1
  <2>2. sent.pieces[i].values # <<>> => sent.pieces[i].values[1] \in Texts
    BY <2>1, EmptySeq, LenProperties, ElementOfSeq
  <2> QED  BY <2>2, TextAssumption DEF T!ValueOf
<1> HIDE DEF pairs
<1>3. /\ DOMAIN request.query = {pairs[i][1] : i \in 1 .. Len(sent.pieces)}
      /\ \A name \in DOMAIN request.query :
           \E i \in 1 .. Len(sent.pieces) :
             /\ pairs[i][1] = name
             /\ request.query[name] = pairs[i][2]
             /\ \A j \in 1 .. Len(sent.pieces) : pairs[j][1] = name => j <= i
  <2>1. 1 .. Len(sent.pieces) \in SUBSET (1 .. Len(sent.pieces))
    OBVIOUS
  <2> DEFINE map == T!Collect(pairs, 1 .. Len(sent.pieces))
  <2>2. /\ DOMAIN map = {pairs[i][1] : i \in 1 .. Len(sent.pieces)}
        /\ \A name \in DOMAIN map :
             \E i \in 1 .. Len(sent.pieces) :
               /\ pairs[i][1] = name
               /\ map[name] = pairs[i][2]
               /\ \A j \in 1 .. Len(sent.pieces) : pairs[j][1] = name => j <= i
    BY <1>1, <2>1, Collected, ZenonT(40)
  <2> HIDE DEF map
  <2>3. request.query = map
    BY <1>1 DEF map
  <2> QED  BY <2>2, <2>3
<1>4. request.query # NoQuery
  <2>1. DOMAIN request.query \in SUBSET Names
    BY <1>2, <1>3
  <2>2. \A name \in DOMAIN request.query : request.query[name] \in Texts
    BY <1>2, <1>3
  <2>3. request.query = [name \in DOMAIN request.query |-> request.query[name]]
    BY <1>1 DEF T!Collect
  <2>4. request.query \in [DOMAIN request.query -> Texts]
    BY <2>2, <2>3
  <2>5. request.query \in Query
    BY <2>1, <2>4 DEF Query, PartialFunctions
  <2> QED  BY <2>5, TextAssumption
<1>5. \A i \in 1 .. Len(sent.pieces) : sent.pieces[i].name \in DOMAIN request.query
  BY <1>2, <1>3
<1>6. ASSUME NEW name \in DOMAIN request.query
      PROVE  \E i \in 1 .. Len(sent.pieces) :
               /\ sent.pieces[i].name = name
               /\ request.query[name] = T!ValueOf(sent.pieces[i])
               /\ T!ValueOf(sent.pieces[i]) \in Texts
               /\ \A j \in 1 .. Len(sent.pieces) : sent.pieces[j].name = name => j <= i
  <2>1. PICK i \in 1 .. Len(sent.pieces) :
          /\ pairs[i][1] = name
          /\ request.query[name] = pairs[i][2]
          /\ \A j \in 1 .. Len(sent.pieces) : pairs[j][1] = name => j <= i
    BY <1>3
  <2>2. /\ sent.pieces[i].name = name
        /\ request.query[name] = T!ValueOf(sent.pieces[i])
        /\ T!ValueOf(sent.pieces[i]) \in Texts
    BY <1>2, <2>1
  <2>3. \A j \in 1 .. Len(sent.pieces) : sent.pieces[j].name = name => j <= i
    BY <1>2, <2>1
  <2> QED  BY <2>2, <2>3
<1> QED  BY <1>4, <1>5, <1>6

-----------------------------------------------------------------------------
(* What a text means *)

(* An i64 is between its least and its greatest value. *)
LEMMA WidthRange ==
  ASSUME NEW h \in Int
  PROVE  T!FitsI64(h) <=> h \in -(2 ^ Width) .. 2 ^ Width - 1
<1>1. 2 ^ Width \in Int
  BY TextAssumption
<1> DEFINE w == 2 ^ Width
<1>2. w \in Int /\ (T!FitsI64(h) <=> h >= -w /\ h < w)
  BY <1>1 DEF T!FitsI64
<1> HIDE DEF w
<1>3. T!FitsI64(h) <=> h \in -w .. w - 1
  BY <1>2
<1> QED  BY <1>3 DEF w

LEMMA TextTyped ==
  ASSUME NEW t \in Texts
  PROVE  /\ t.form \in {"integer", "decimal", "special", "word"}
         /\ T!Numeral(t) => t.halves \in Int
         /\ t.form = "integer" => t.halves % 2 = 0
<1>1. t \in T!Text
  BY TextAssumption
<1>2. CASE t \in [form : {"integer", "decimal"}, halves : Int, plus : BOOLEAN]
  BY <1>2, TextAssumption
<1>3. CASE t \in [form : {"special", "word"}]
  BY <1>3 DEF T!Numeral
<1> QED  BY <1>1, <1>2, <1>3 DEF T!Text

LEMMA SchemaTyped ==
  ASSUME NEW s \in Typed
  PROVE  /\ TypeOf[s].type \in {"integer", "number", "string", "null"}
         /\ TypeOf[s].maximum \in Int
BY TextAssumption

(* A text that is accepted means a value its schema accepts, or is a null,  *)
(* or rounds to a number in bounds.                                        *)
LEMMA AcceptedMeans ==
  ASSUME NEW s \in Typed, NEW t \in Texts, t \in Accepts[s]
  PROVE  \/ T!MeansAndValidates(TypeOf[s], t)
         \/ TypeOf[s].type = "null"
         \/ /\ TypeOf[s].type = "number"
            /\ T!Numeral(t)
            /\ T!Rounded(t.halves) # t.halves
            /\ T!Rounded(t.halves) <= TypeOf[s].maximum
<1>1. PICK json \in T!Converted(TypeOf[s].type, t) : T!Validates(TypeOf[s], json)
  BY TextAssumption DEF T!ConvertsAndValidates
<1>2. CASE TypeOf[s].type = "integer"
  <2>1. t.form = "integer" /\ json = [halves |-> t.halves]
    BY <1>1, <1>2 DEF T!Converted
  <2>2. t.halves <= TypeOf[s].maximum
    BY <1>1, <1>2, <2>1 DEF T!Validates
  <2> QED  BY <1>2, <2>1, <2>2, TextTyped DEF T!MeansAndValidates, T!Numeral
<1>3. CASE TypeOf[s].type = "number"
  <2>1. json = T!ToF64(t) /\ json # Null /\ json.halves <= TypeOf[s].maximum
    BY <1>1, <1>3 DEF T!Converted, T!Validates
  <2>2. T!Numeral(t) /\ json = [halves |-> T!Rounded(t.halves)]
    BY <2>1 DEF T!ToF64
  <2>3. T!Rounded(t.halves) <= TypeOf[s].maximum
    BY <2>1, <2>2
  <2>4. CASE T!Rounded(t.halves) = t.halves
    <3>1. t.halves <= TypeOf[s].maximum
      BY <2>3, <2>4
    <3> QED  BY <1>3, <2>2, <3>1 DEF T!MeansAndValidates
  <2> QED  BY <1>3, <2>2, <2>3, <2>4
<1>4. CASE TypeOf[s].type = "string"
  BY <1>4 DEF T!MeansAndValidates
<1> QED  BY <1>2, <1>3, <1>4, SchemaTyped

(* A text that is refused means no value its schema accepts, or one that an *)
(* i64 or an f64 does not hold.                                            *)
LEMMA RefusedMeans ==
  ASSUME NEW p, p.schema \in Typed, NEW t \in Texts, t \notin Accepts[p.schema]
  PROVE  ~T!MeansAndValidates(TypeOf[p.schema], t) \/ Unrepresentable(p, t)
<1> DEFINE schema == TypeOf[p.schema]
<1>1. \A json \in T!Converted(schema.type, t) : ~T!Validates(schema, json)
  BY TextAssumption DEF T!ConvertsAndValidates
<1>2. schema.type \in {"integer", "number", "string", "null"}
  BY SchemaTyped
<1> SUFFICES ASSUME T!MeansAndValidates(schema, t)  PROVE Unrepresentable(p, t)
  OBVIOUS
<1>3. CASE schema.type = "integer"
  <2>1. T!Numeral(t) /\ t.halves <= schema.maximum
    BY <1>3 DEF T!MeansAndValidates
  <2>2. CASE t.form = "integer" /\ T!FitsI64(t.halves)
    <3>1. [halves |-> t.halves] \in T!Converted(schema.type, t)
      BY <1>3, <2>2 DEF T!Converted
    <3>2. [halves |-> t.halves] # Null
      BY <2>1, TextTyped, TextAssumption
    <3>3. T!Validates(schema, [halves |-> t.halves])
      BY <1>3, <2>1, <3>2 DEF T!Validates
    <3> QED  BY <1>1, <3>1, <3>3
  <2>3. CASE t.form # "integer"
    BY <1>3, <2>1, <2>3 DEF T!Numeral, Unrepresentable
  <2>4. CASE ~T!FitsI64(t.halves)
    <3>1. t.halves \notin -(2 ^ Width) .. 2 ^ Width - 1
      BY <2>1, <2>4, TextTyped, WidthRange
    <3> QED  BY <1>3, <3>1 DEF Unrepresentable
  <2> QED  BY <2>2, <2>3, <2>4
<1>4. CASE schema.type = "number"
  <2>1. T!Numeral(t)
    BY <1>4 DEF T!MeansAndValidates
  <2>2. T!ToF64(t) \in T!Converted(schema.type, t)
    BY <1>4, <2>1 DEF T!Converted, T!Numeral
  <2>3. T!ToF64(t) = Null \/ T!ToF64(t) = [halves |-> T!Rounded(t.halves)]
    BY <2>1 DEF T!ToF64
  <2>4. T!ToF64(t) = Null \/ ~(T!ToF64(t).halves <= schema.maximum)
    BY <1>1, <1>4, <2>2 DEF T!Validates
  <2> QED  BY <1>4, <2>3, <2>4 DEF Unrepresentable
<1>5. CASE schema.type = "string"
  <2>1. t \in T!Converted(schema.type, t) /\ T!Validates(schema, t)
    BY <1>5 DEF T!Converted, T!Validates
  <2> QED  BY <1>1, <2>1
<1>6. CASE schema.type = "null"
  BY <1>6 DEF T!MeansAndValidates
<1> QED  BY <1>2, <1>3, <1>4, <1>5, <1>6

(* A piece that is not misread is read as a form is; and what a form reads  *)
(* otherwise is a word.                                                    *)
LEMMA FormOrWord ==
  ASSUME Reads, sent.pieces # NoQuery, NEW i \in 1 .. Len(sent.pieces)
  PROVE  /\ \/ T!FormValue(sent.pieces[i]) = T!ValueOf(sent.pieces[i])
            \/ /\ T!FormValue(sent.pieces[i]) = T!Word
               /\ Misread(sent.pieces[i])
         /\ T!FormValue(sent.pieces[i]) \in Texts
<1> DEFINE piece == sent.pieces[i]
<1>1. piece.values \in Seq(Texts) /\ Len(piece.values) \in Nat
  BY SentTyped, LenProperties
<1>2. piece.values # <<>> => Len(piece.values) # 0 /\ piece.values[1] \in Texts
  BY <1>1, EmptySeq, LenProperties, ElementOfSeq
<1>3. piece.values = <<>> => Len(piece.values) = 0
  BY EmptySeq
<1>4. T!FormValue(piece) = T!Word \/ T!FormValue(piece) = piece.values[1]
  BY DEF T!FormValue
<1>5. CASE piece.values = <<>>
  BY <1>3, <1>5, TextAssumption DEF T!FormValue, T!ValueOf
<1>6. CASE piece.values # <<>> /\ T!FormValue(piece) = piece.values[1]
  BY <1>2, <1>6 DEF T!ValueOf
<1>7. CASE piece.values # <<>> /\ T!FormValue(piece) # piece.values[1]
  <2>1. Misread(piece)
    BY <1>7 DEF Misread
  <2> QED  BY <1>4, <1>7, <2>1, TextAssumption
<1> QED  BY <1>5, <1>6, <1>7

LEMMA WordMeans ==
  ASSUME NEW s \in Typed, T!MeansAndValidates(TypeOf[s], T!Word)
  PROVE  \A t \in Texts : t \in Accepts[s]
<1>1. TypeOf[s].type = "string"
  BY SchemaTyped DEF T!MeansAndValidates, T!Numeral, T!Word
<1> SUFFICES ASSUME NEW t \in Texts  PROVE T!ConvertsAndValidates(TypeOf[s], t)
  BY TextAssumption
<1> QED  BY <1>1 DEF T!ConvertsAndValidates, T!Converted, T!Validates

-----------------------------------------------------------------------------
(* What the verdict means *)

(* A header that conforms was sent with a last value that means one its     *)
(* schema accepts, or is of the cases that PassedAsSent names.             *)
LEMMA HeaderAsSent ==
  ASSUME Reads, NEW p, Examinable(p, "header"), ParameterConforms(p, "header"),
         NEW i \in Named(p, "header"), \A j \in Named(p, "header") : j <= i
  PROVE  LET v == Value("header", i) IN
         \/ Means(p, v)
         \/ TypeOf[p.schema].type = "null"
         \/ v # Opaque /\ RoundsInto(p, v)
         \/ v = Opaque
<1> DEFINE v == Value("header", i)
           name == Lower[p.name]
<1>1. /\ Named(p, "header") = {j \in 1 .. Len(sent.fields) : sent.fields[j][1] = name}
      /\ v = sent.fields[i][2]
  BY DEF Named, Value
<1> SUFFICES ASSUME v # Opaque
             PROVE  \/ Means(p, v)
                    \/ TypeOf[p.schema].type = "null"
                    \/ RoundsInto(p, v)
  OBVIOUS
<1>2. name \in DOMAIN request.headers
  BY <1>1, HeadersRead
<1>3. PICK k \in 1 .. Len(sent.fields) :
        /\ sent.fields[k][1] = name
        /\ request.headers[name] = sent.fields[k][2]
        /\ sent.fields[k][2] \in Texts
        /\ \A j \in 1 .. Len(sent.fields) :
             sent.fields[j][1] = name /\ sent.fields[j][2] # Opaque => j <= k
  BY <1>2, HeadersRead
<1>4. i <= k /\ k <= i /\ i \in Int /\ k \in Int
  BY <1>1, <1>3
<1>5. v \in Texts /\ request.headers[name] = v
  BY <1>1, <1>3, <1>4
<1>6. p.schema \in Typed /\ p.schema # NoSchema
  BY TextAssumption, ValidationAssumption DEF Examinable
<1>7. v \in Accepts[p.schema]
  BY <1>2, <1>5, <1>6 DEF ParameterConforms, Written, Sent
<1> HIDE DEF v
<1> QED  BY <1>5, <1>6, <1>7, AcceptedMeans DEF Means, RoundsInto

(* A query parameter that conforms likewise. *)
LEMMA QueryAsSent ==
  ASSUME Reads, NEW p, Examinable(p, "query"),
         request.query # NoQuery => ParameterConforms(p, "query"),
         NEW i \in Named(p, "query"), \A j \in Named(p, "query") : j <= i
  PROVE  LET v == Value("query", i) IN
         \/ Means(p, v)
         \/ TypeOf[p.schema].type = "null"
         \/ v # Opaque /\ RoundsInto(p, v)
         \/ Misread(sent.pieces[i])
<1> DEFINE v == Value("query", i)
<1>1. /\ sent.pieces # NoQuery
      /\ Named(p, "query") = {j \in 1 .. Len(sent.pieces) : sent.pieces[j].name = p.name}
      /\ v = T!FormValue(sent.pieces[i])
  BY DEF Named, Value
<1>2. request.query # NoQuery /\ p.name \in DOMAIN request.query
  BY <1>1, QueryRead
<1>3. PICK k \in 1 .. Len(sent.pieces) :
        /\ sent.pieces[k].name = p.name
        /\ request.query[p.name] = T!ValueOf(sent.pieces[k])
        /\ T!ValueOf(sent.pieces[k]) \in Texts
        /\ \A j \in 1 .. Len(sent.pieces) : sent.pieces[j].name = p.name => j <= k
  BY <1>1, <1>2, QueryRead
<1>4. i <= k /\ k <= i /\ i \in Int /\ k \in Int
  BY <1>1, <1>3
<1>5. v = T!ValueOf(sent.pieces[i]) \/ Misread(sent.pieces[i])
  BY <1>1, FormOrWord
<1> SUFFICES ASSUME v = T!ValueOf(sent.pieces[i])
             PROVE  \/ Means(p, v)
                    \/ TypeOf[p.schema].type = "null"
                    \/ v # Opaque /\ RoundsInto(p, v)
  BY <1>5
<1>6. v \in Texts /\ request.query[p.name] = v /\ v # Opaque
  BY <1>3, <1>4, TextAssumption
<1>7. p.schema \in Typed /\ p.schema # NoSchema
  BY TextAssumption, ValidationAssumption DEF Examinable
<1>8. v \in Accepts[p.schema]
  BY <1>2, <1>6, <1>7 DEF ParameterConforms, Written, Sent
<1> HIDE DEF v
<1> QED  BY <1>6, <1>7, <1>8, AcceptedMeans DEF Means, RoundsInto

(* A parameter that does not conform has its reason in what was sent. *)
LEMMA ReasonAsSent ==
  ASSUME Reads, NEW location \in {"header", "query"}, NEW p, Examinable(p, location),
         ~ParameterConforms(p, location)
  PROVE  \/ p.required /\ Named(p, location) = {}
         \/ \E i \in Named(p, location) :
              LET v == Value(location, i) IN
              ~Means(p, v) \/ Unrepresentable(p, v)
<1> DEFINE name == Written(p, location)
<1>1. p.schema \in Typed /\ p.schema # NoSchema /\ p.via # "dangling"
  BY TextAssumption, ValidationAssumption DEF Examinable
<1>2. CASE name \notin DOMAIN Sent(location)
  <2>1. p.required
    BY <1>1, <1>2 DEF ParameterConforms
  <2>2. CASE location = "header"
    <3>1. \A i \in Named(p, location) : Value(location, i) = Opaque
      BY <1>2, <2>2, HeadersRead DEF Named, Value, Written, Sent
    <3> QED  BY <2>1, <3>1 DEF Means
  <2>3. CASE location = "query"
    <3>1. Named(p, location) = {}
      BY <1>2, <2>3, QueryRead DEF Named, Written, Sent
    <3> QED  BY <2>1, <3>1
  <2> QED  BY <2>2, <2>3
<1>3. CASE name \in DOMAIN Sent(location)
  <2>1. Sent(location)[name] \notin Accepts[p.schema]
    BY <1>1, <1>3 DEF ParameterConforms
  <2>2. CASE location = "header"
    <3>1. name = Lower[p.name] /\ Sent(location) = request.headers
      BY <2>2 DEF Written, Sent
    <3>2. PICK i \in 1 .. Len(sent.fields) :
            /\ sent.fields[i][1] = name
            /\ request.headers[name] = sent.fields[i][2]
            /\ sent.fields[i][2] \in Texts
      BY <1>3, <3>1, HeadersRead
    <3>3. i \in Named(p, location) /\ Value(location, i) = request.headers[name]
      BY <2>2, <3>1, <3>2 DEF Named, Value
    <3>4. \/ ~T!MeansAndValidates(TypeOf[p.schema], request.headers[name])
          \/ Unrepresentable(p, request.headers[name])
      BY <1>1, <2>1, <3>1, <3>2, RefusedMeans
    <3> QED  BY <3>3, <3>4 DEF Means
  <2>3. CASE location = "query"
    <3>1. name = p.name
      BY <2>3 DEF Written
    <3>2. sent.pieces # NoQuery
      <4> SUFFICES ASSUME sent.pieces = NoQuery  PROVE FALSE
        OBVIOUS
      <4>1. request.query = NoQuery
        BY SentTyped
      <4>2. Sent(location) = <<>>
        BY <2>3, <4>1 DEF Sent
      <4>3. DOMAIN Sent(location) = {}
        BY <4>2
      <4> QED  BY <1>3, <4>3
    <3>3. Sent(location) = request.query
      BY <2>3, <3>2, QueryRead DEF Sent
    <3>4. PICK i \in 1 .. Len(sent.pieces) :
            /\ sent.pieces[i].name = name
            /\ request.query[name] = T!ValueOf(sent.pieces[i])
            /\ T!ValueOf(sent.pieces[i]) \in Texts
      BY <1>3, <3>2, <3>3, QueryRead
    <3>5. i \in Named(p, location) /\ Value(location, i) = T!FormValue(sent.pieces[i])
      BY <2>3, <3>1, <3>2, <3>4 DEF Named, Value
    <3>6. CASE T!FormValue(sent.pieces[i]) = T!ValueOf(sent.pieces[i])
      <4>1. \/ ~T!MeansAndValidates(TypeOf[p.schema], T!ValueOf(sent.pieces[i]))
            \/ Unrepresentable(p, T!ValueOf(sent.pieces[i]))
        BY <1>1, <2>1, <3>3, <3>4, RefusedMeans
      <4> QED  BY <3>5, <3>6, <4>1 DEF Means
    <3>7. CASE T!FormValue(sent.pieces[i]) = T!Word
      <4>1. ~T!MeansAndValidates(TypeOf[p.schema], T!Word)
        BY <1>1, <2>1, <3>3, <3>4, WordMeans
      <4> QED  BY <3>5, <3>7, <4>1 DEF Means
    <3> QED  BY <3>2, <3>6, <3>7, FormOrWord
  <2> QED  BY <2>2, <2>3
<1> QED  BY <1>2, <1>3

LEMMA PassedLemma ==
  ASSUME Reads, PassedConforms
  PROVE  PassedAsSent
<1>1. ASSUME Passed("header"), NEW p \in ParametersAt("header"), Examinable(p, "header")
      PROVE  ParameterConforms(p, "header")
  BY <1>1 DEF Passed, PassedConforms, HeaderMissed, Examinable
<1>2. ASSUME Passed("query"), NEW p \in ParametersAt("query"), request.query # NoQuery
      PROVE  ParameterConforms(p, "query")
  BY <1>2 DEF Passed, PassedConforms
<1> SUFFICES ASSUME NEW location \in {"header", "query"}, Passed(location),
                    NEW p \in ParametersAt(location), Examinable(p, location),
                    NEW i \in Named(p, location),
                    \A j \in Named(p, location) : j <= i
             PROVE  LET v == Value(location, i) IN
                    \/ Means(p, v)
                    \/ TypeOf[p.schema].type = "null"
                    \/ IF location = "header" THEN v = Opaque
                       ELSE Misread(sent.pieces[i])
                    \/ v # Opaque /\ RoundsInto(p, v)
  BY DEF PassedAsSent
<1>3. CASE location = "header"
  BY <1>1, <1>3, HeaderAsSent
<1>4. CASE location = "query"
  BY <1>2, <1>4, QueryAsSent
<1> QED  BY <1>3, <1>4

LEMMA FailedLemma ==
  ASSUME Reads, FailedDeviates
  PROVE  FailedAsSent
<1> SUFFICES ASSUME verdict = "error", stage \in {"headers", "query"}, ~Unreadable
             PROVE  \E p \in ParametersAt(Location) :
                      \/ ~Examinable(p, Location)
                      \/ p.required /\ Named(p, Location) = {}
                      \/ \E i \in Named(p, Location) :
                           LET v == Value(Location, i) IN
                           ~Means(p, v) \/ Unrepresentable(p, v)
  BY DEF FailedAsSent
<1>1. Location \in {"header", "query"}
  BY DEF Location
<1>2. PICK p \in ParametersAt(Location) :
        ~ParameterConforms(p, Location) \/ ParameterOverstrict(p, Location)
  BY DEF FailedDeviates, Location
<1>3. CASE ~Examinable(p, Location)
  BY <1>2, <1>3
<1>4. CASE Examinable(p, Location)
  <2>1. ~ParameterOverstrict(p, Location)
    BY <1>4, TextAssumption, ValidationAssumption DEF Examinable, ParameterOverstrict
  <2> QED  BY <1>1, <1>2, <1>4, <2>1, ReasonAsSent
<1> QED  BY <1>3, <1>4

(* The request that is validated is the one that was sent. *)
LEMMA ReadsHolds == TextSpec => []Reads
<1>1. TextInit => Reads
  BY DEF TextInit, Reads
<1>2. Reads /\ [Next /\ UNCHANGED sent]_<<vars, sent>> => Reads'
  BY InputsUnchanged DEF vars, inputs, Reads, ReadAs
<1> QED  BY <1>1, <1>2, PTL DEF TextSpec

(* A request with its texts is a request of RequestValidation. *)
LEMMA TextsAreRequests == TextSpec => Spec
<1>1. TextInit => Init
  BY DEF TextInit
<1>2. [Next /\ UNCHANGED sent]_<<vars, sent>> => [Next]_vars
  OBVIOUS
<1> QED  BY <1>1, <1>2, PTL DEF TextSpec, Spec

(* A parameter of a part that validate_request has left behind was sent     *)
(* with a last value that means one its schema accepts, but for the cases   *)
(* that PassedAsSent names.                                                *)
THEOREM PassedMeans == TextSpec => []PassedAsSent
<1>1. Reads /\ PassedConforms => PassedAsSent
  BY PassedLemma
<1> QED  BY <1>1, ReadsHolds, TextsAreRequests, PassedIsRight, PTL

(* A request whose headers or query validate_request refuses was sent with  *)
(* a reason for it, but for the cases that FailedAsSent names.             *)
THEOREM FailedHasReason == TextSpec => []FailedAsSent
<1>1. Reads /\ FailedDeviates => FailedAsSent
  BY FailedLemma
<1> QED  BY <1>1, ReadsHolds, TextsAreRequests, FailedIsRight, PTL
=============================================================================
