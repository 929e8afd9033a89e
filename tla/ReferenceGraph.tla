--------------------------- MODULE ReferenceGraph ---------------------------
(***************************************************************************)
(* What a $ref of an OpenAPI document stands for, independently of how the *)
(* traverser finds it.  A document is seen as a function `doc` from each   *)
(* $ref string to the node its JSON pointer points at: another $ref node,  *)
(* a node that is not a $ref, or nothing.                                  *)
(***************************************************************************)
CONSTANTS
  Refs,       \* $ref strings of the document: the keys of the memo table
  Values,     \* nodes of the document that are not $ref nodes
  WithField,  \* those of Values that have the field the accessor asks for
  NoNode      \* a JSON pointer that points nowhere

ASSUME GraphAssumption ==
  /\ Refs \cap Values = {}
  /\ NoNode \notin Refs \cup Values
  /\ WithField \subseteq Values

Nodes == Refs \cup Values
Documents == [Refs -> Nodes \cup {NoNode}]

(***************************************************************************)
(* Leads(doc, r, x): following pointers from the $ref r ends at x, a value *)
(* or NoNode.  It is the least relation closed under one step backwards,   *)
(* so a $ref on a cycle leads nowhere.                                     *)
(***************************************************************************)
ClosedFor(doc, x, S) ==
  \A q \in Refs : doc[q] = x \/ doc[q] \in S => q \in S

Leads(doc, r, x) == \A S \in SUBSET Refs : ClosedFor(doc, x, S) => r \in S

(* A node stands for x: it is the value x, or a $ref that leads to x. *)
StandsFor(doc, n, x) ==
  \/ n \in Values /\ n = x
  \/ n \in Refs /\ Leads(doc, n, x)

(* A $ref from which no value and no dangling pointer is ever reached. *)
Cyclic(doc, n) == \A x \in Values \cup {NoNode} : ~StandsFor(doc, n, x)

(***************************************************************************)
(* The answers of an accessor, asked for a field of a node: the field, an  *)
(* error that names the field, an error that names the $ref, or None, which*)
(* get_optional has for a missing field, and for that only.                *)
(***************************************************************************)
Accessors == {"required", "optional"}
Answers == {"pending", "found", "no field", "no reference", "none"}

CorrectAnswer(doc, accessor, n, a) ==
  LET HasField   == \E x \in WithField : StandsFor(doc, n, x)
      LacksField == \E x \in Values \ WithField : StandsFor(doc, n, x)
      Dangles    == StandsFor(doc, n, NoNode)
  IN  \/ a = "found"        /\ HasField
      \/ a = "no field"     /\ LacksField /\ accessor = "required"
      \/ a = "none"         /\ LacksField /\ accessor = "optional"
      \/ a = "no reference" /\ Dangles

(* The answer that is not what it should be: None, of a $ref to nothing. *)
DanglingIsNone(doc, accessor, n, a) ==
  a = "none" /\ accessor = "optional" /\ StandsFor(doc, n, NoNode)
==============================================================================
