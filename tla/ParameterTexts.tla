---------------------------- MODULE ParameterTexts ----------------------------
(***************************************************************************)
(* What the texts of a request come to: how a query string and the headers *)
(* are read into a HashMap (src/src/validator/mod.rs:363, :432) and what a *)
(* text is converted to before it is validated (types/primitive.rs:66).    *)
(*                                                                         *)
(* A number is a count of halves, so that a text can have a fraction.  An  *)
(* i64 has Width bits (64), an f64 a significand of Precision bits (53)    *)
(* and is infinite from 2^Top halves on (2^1025).                          *)
(***************************************************************************)
EXTENDS Integers, SequencesExt

CONSTANTS
  Width, Precision, Top,
  TextNames,  \* decoded names
  Opaque,     \* a header value that is no visible ASCII
  Null        \* the JSON null

(***************************************************************************)
(* A text is an integer, or a number written with a point or an exponent,  *)
(* either perhaps after a plus; a name that parses as an f64 (NaN, inf);   *)
(* or any other word.                                                      *)
(***************************************************************************)
Text ==
  [form : {"integer", "decimal"}, halves : Int, plus : BOOLEAN]
    \cup [form : {"special", "word"}]

Numeral(t) == t.form \in {"integer", "decimal"}
Word == [form |-> "word"]

-----------------------------------------------------------------------------
(* f64: the nearest number with Precision bits, of two the even one. *)

Magnitude(h) == IF h < 0 THEN -h ELSE h

Unit(h) ==
  2 ^ (CHOOSE k \in 0 .. Top :
         /\ Magnitude(h) < 2 ^ (k + Precision)
         /\ k > 0 => Magnitude(h) >= 2 ^ (k + Precision - 1))

RoundMagnitude(m, unit) ==
  LET down == m \div unit
      rest == m % unit
  IN  IF 2 * rest > unit \/ (2 * rest = unit /\ down % 2 = 1)
      THEN (down + 1) * unit ELSE down * unit

Rounded(h) ==
  IF h < 0 THEN -RoundMagnitude(-h, Unit(h)) ELSE RoundMagnitude(h, Unit(h))

(* The JSON of an f64 that is not finite is null. *)
ToF64(t) ==
  IF ~Numeral(t) THEN Null
  ELSE IF Magnitude(t.halves) >= 2 ^ Top THEN Null
  ELSE IF Magnitude(Rounded(t.halves)) >= 2 ^ Top THEN Null
  ELSE [halves |-> Rounded(t.halves)]

(* Fault: integers are parsed as u32. *)
FitsUnsigned(h) == h >= 0 /\ h < 2 ^ Width

FitsI64(h) == h >= -(2 ^ Width) /\ h < 2 ^ Width

(***************************************************************************)
(* convert_value_to_type: the JSON values a text can become, none if it    *)
(* does not parse.  Every text is a null, and a string.                    *)
(***************************************************************************)
Converted(type, t) ==
  CASE type = "integer" ->
         IF t.form = "integer" /\ FitsI64(t.halves) THEN {[halves |-> t.halves]} ELSE {}
    [] type = "number" -> IF t.form # "word" THEN {ToF64(t)} ELSE {}
    [] type = "null" -> {Null}
    [] type = "string" -> {t}

(* JSON Schema, for a schema with a type and a maximum. *)
Validates(schema, json) ==
  CASE schema.type \in {"integer", "number"} ->
         json # Null /\ json.halves <= schema.maximum
    [] schema.type = "null" -> json = Null
    [] schema.type = "string" -> TRUE

ConvertsAndValidates(schema, t) ==
  \E json \in Converted(schema.type, t) : Validates(schema, json)

(* What the text means, by itself: the number it writes out, exactly. *)
MeansAndValidates(schema, t) ==
  CASE schema.type = "integer" ->
         Numeral(t) /\ t.halves % 2 = 0 /\ t.halves <= schema.maximum
    [] schema.type = "number" -> Numeral(t) /\ t.halves <= schema.maximum
    [] schema.type = "null" -> FALSE
    [] schema.type = "string" -> TRUE

-----------------------------------------------------------------------------
(***************************************************************************)
(* A query string is split at every &, each piece at every =, and then     *)
(* decoded.  A piece is its name and what stands after each =.             *)
(***************************************************************************)
Piece == [name : TextNames, values : Seq(Text)]

(* The part after a second = is not looked at; without one there is "". *)
ValueOf(piece) == IF piece.values = <<>> THEN Word ELSE piece.values[1]

(* Fault: the first of several pairs with one name stays in the map. *)
CollectFirst(pairs, kept) ==
  [n \in {pairs[i][1] : i \in kept} |-> pairs[Min({i \in kept : pairs[i][1] = n})][2]]

(***************************************************************************)
(* collect() into a HashMap, of the pairs that a filter has kept: of those *)
(* with one name the last stays.                                           *)
(***************************************************************************)
Collect(pairs, kept) ==
  [n \in {pairs[i][1] : i \in kept} |-> pairs[Max({i \in kept : pairs[i][1] = n})][2]]

ReadQuery(pieces) ==
  Collect([i \in 1 .. Len(pieces) |-> <<pieces[i].name, ValueOf(pieces[i])>>],
          1 .. Len(pieces))

(* A field whose value is no visible ASCII is passed over. *)
ReadHeaders(fields) ==
  Collect(fields, {i \in 1 .. Len(fields) : fields[i][2] # Opaque})

(***************************************************************************)
(* How a form is read: the value is all that stands after the first =, and *)
(* a plus is a space, which is part of no number.                          *)
(***************************************************************************)
FormValue(piece) ==
  IF Len(piece.values) # 1 THEN Word
  ELSE IF Numeral(piece.values[1]) /\ piece.values[1].plus THEN Word
  ELSE piece.values[1]
==============================================================================
