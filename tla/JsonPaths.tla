----------------------------- MODULE JsonPaths -----------------------------
(***************************************************************************)
(* JsonPath (src/src/types/json_path.rs): a list of segments that are      *)
(* escaped as they are added and joined into a JSON pointer.  A text is a  *)
(* sequence of tokens: the characters that a pointer gives a meaning to,   *)
(* and whatever stands between them.                                       *)
(***************************************************************************)
EXTENDS Naturals, SequencesExt

(* str::replace of one token. *)
Replaced(text, token, by) ==
  FlattenSeq([i \in 1 .. Len(text) |->
    IF text[i] = token THEN by ELSE <<text[i]>>])

(* Fault: the separator is replaced before the tilde. *)
EscapedSeparatorFirst(segment) ==
  Replaced(Replaced(segment, "/", <<"~", "1">>), "~", <<"~", "0">>)

(* The tilde comes first, or it would replace those of the separators. *)
Escaped(segment) ==
  Replaced(Replaced(segment, "~", <<"~", "0">>), "/", <<"~", "1">>)

(* add, of one segment after the other *)
Added(path, segments) ==
  path \o [i \in 1 .. Len(segments) |-> Escaped(segments[i])]

(* format_path *)
FormatPath(path) ==
  FlattenSeq([i \in 1 .. Len(path) |->
    IF i = 1 THEN path[i] ELSE <<"/">> \o path[i]])

(***************************************************************************)
(* How a pointer is read (RFC 6901): it is split at each /, and in every   *)
(* part ~1 is a / and ~0 a ~.                                              *)
(***************************************************************************)
Ends(pointer) ==
  {0, Len(pointer) + 1} \cup {i \in 1 .. Len(pointer) : pointer[i] = "/"}

End(pointer, k) ==
  CHOOSE i \in Ends(pointer) : Cardinality({j \in Ends(pointer) : j < i}) = k

Parts(pointer) ==
  [k \in 1 .. Cardinality(Ends(pointer)) - 1 |->
     SubSeq(pointer, End(pointer, k - 1) + 1, End(pointer, k) - 1)]

Unescaped(part) ==
  FlattenSeq([i \in 1 .. Len(part) |->
    IF i > 1 /\ part[i - 1] = "~" THEN <<IF part[i] = "1" THEN "/" ELSE "~">>
    ELSE IF part[i] = "~" THEN <<>>
    ELSE <<part[i]>>])

ReadPath(pointer) ==
  [k \in 1 .. Len(Parts(pointer)) |-> Unescaped(Parts(pointer)[k])]
=============================================================================
