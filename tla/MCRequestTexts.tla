--------------------------- MODULE MCRequestTexts ---------------------------
(***************************************************************************)
(* RequestTexts on operations that exercise one part at a time, with as    *)
(* much of the others as the order of the parts needs.                     *)
(***************************************************************************)
EXTENDS RequestTexts, TLC

CONSTANTS object, open, nullable, integer, number, large, nothing,
          boolean, shared, person, list

Number(form, halves, plus) == [form |-> form, halves |-> halves, plus |-> plus]
Twelve == Number("integer", 24, FALSE)

(* With Width 5, Precision 4 and Top 7: 16 and -17 are no i64, 12.5, 13.5   *)
(* and 19 no f64, and -100 is infinite.                                     *)
MCTexts ==
  {Twelve, Number("integer", 24, TRUE), Number("decimal", 24, FALSE),
   Number("integer", -32, FALSE), Number("integer", -34, FALSE),
   Number("integer", 32, FALSE), Number("integer", 38, FALSE),
   Number("decimal", 25, FALSE), Number("decimal", 27, FALSE),
   Number("decimal", -200, FALSE), [form |-> "special"], T!Word}

MCTypeOf ==
  (integer :> [type |-> "integer", maximum |-> 24])
  @@ (number :> [type |-> "number", maximum |-> 24])
  @@ (large :> [type |-> "number", maximum |-> 38])
  @@ (nothing :> [type |-> "null", maximum |-> 0])

MCLower == [n \in Names |-> IF n = "A" THEN "a" ELSE n]

Accepted(s) == {t \in MCTexts : T!ConvertsAndValidates(MCTypeOf[s], t)}

MCAccepts ==
  (object :> {person}) @@ (open :> {person, list})
  @@ (nullable :> {person, Null})
  @@ (integer :> Accepted(integer)) @@ (number :> Accepted(number))
  @@ (large :> Accepted(large)) @@ (nothing :> Accepted(nothing))
  @@ (boolean :> {}) @@ (shared :> {Twelve})

(* `object` and `open` list required fields, which only the person has. *)
MCComplete ==
  (object :> {person}) @@ (open :> {person})
  @@ [s \in {nullable, integer, number, large, nothing,
              boolean, shared} |-> {person, list, Null}]

JsonBody(via, required, schema) ==
  [via |-> via, required |-> required, media |-> "json" :> schema]

BodyDefinitions ==
  {NoBody}
    \cup {JsonBody(via, required, schema) :
            via \in Via, required \in {"absent", "true", "false"},
            schema \in {object, open, nullable, NoSchema}}
    \cup {[via |-> "inline", required |-> required, media |-> <<>>] :
            required \in {"true", "false"}}

Defined(location, name, required, schema) ==
  [via |-> "inline", location |-> location, name |-> name,
   required |-> required, schema |-> schema]

Parameters ==
  {Defined(location, name, required, schema) :
     location \in {"header", "query"}, name \in {"a", "A"}, required \in BOOLEAN,
     schema \in {integer, number, large, nothing, boolean, shared, NoSchema}}
  \cup {[Defined("header", "a", TRUE, integer) EXCEPT !.via = "dangling"],
        [Defined("query", "a", TRUE, integer) EXCEPT !.via = "dangling"],
        [Defined("query", "a", TRUE, integer) EXCEPT !.via = "ref"],
        Defined("cookie", "a", TRUE, integer)}

MCSecurities == {NoSecurity, <<"oauth" :> {"read"}>>}

SecuritySections ==
  {NoSecurity, <<>>, << <<>> >>, <<"oauth" :> {"read", "write"}, "key" :> {}>>,
   <<"oauth" :> {"read", "write"}>>,
   <<("oauth" :> {"read", "write"}) @@ ("key" :> {"read"})>>,
   <<"oauth" :> {"write"}, "oauth" :> {"read"}>>}

MCOperations ==
  {[body |-> body, parameters |-> ps, security |-> <<>>] :
     body \in BodyDefinitions, ps \in {<<>>, <<Defined("header", "a", TRUE, integer)>>}}
  \cup {[body |-> NoBody, parameters |-> <<p>>, security |-> NoSecurity] :
          p \in Parameters}
  \cup {[body |-> NoBody, parameters |-> <<p, q>>, security |-> NoSecurity] :
          p, q \in {p \in Parameters : p.schema \notin {number, large, nothing}}}
  \cup {[body |-> JsonBody("inline", "false", object), parameters |-> <<>>,
         security |-> section] : section \in SecuritySections}

(* One value in each place, with every body and every set of scopes; and    *)
(* every text in each place, two values of one name, a value with two =.    *)
Piece(name, values) == [name |-> name, values |-> values]

FewSent ==
  [fields : {<<>>, << <<"a", Twelve>> >>, << <<"a", T!Word>> >>},
   pieces : {NoQuery, <<Piece("", <<>>)>>, <<Piece("a", <<Twelve>>)>>,
             <<Piece("a", <<>>)>>}]

ManySent ==
  {[fields |-> <<>>, pieces |-> <<Piece("a", <<t>>)>>] : t \in MCTexts}
  \cup {[fields |-> << <<"a", t>> >>, pieces |-> NoQuery] : t \in MCTexts \cup {Opaque}}
  \cup {[fields |-> << <<"a", Twelve>>, <<"a", v>> >>,
         pieces |-> <<Piece("a", <<T!Word>>), Piece("a", <<Twelve>>)>>] :
           v \in {T!Word, Opaque}}
  \cup {[fields |-> << <<"a", T!Word>>, <<"a", Twelve>> >>,
         pieces |-> <<Piece("a", <<Twelve>>), Piece("A", <<Twelve, T!Word>>),
                      Piece("a", vs)>>] :
           vs \in {<<T!Word>>, <<Twelve, T!Word>>}}

MCSent == FewSent \cup ManySent

ReadRequest(s, contentType, body, scopes) ==
  [contentType |-> contentType, body |-> body, headers |-> HeadersOf[s],
   query |-> QueryOf[s], scopes |-> scopes]

MCRequests ==
  {ReadRequest(s, contentType, body, scopes) :
     s \in FewSent, contentType \in {"json", NoType}, body \in {person, list, Null},
     scopes \in {NoScopes, {"read"}, {"read", "write"}}}
  \cup {ReadRequest(s, NoType, Null, NoScopes) : s \in ManySent}
=============================================================================
