------------------------- MODULE MCValidatorBuilder -------------------------
(* ValidatorBuilder over files that fail at each step of a construction. *)
EXTENDS ValidatorBuilder

CONSTANTS f1, f2

Object(openapi, loads, crawls) ==
  [shape |-> "object", openapi |-> openapi, loads |-> loads, crawls |-> crawls]

MCContents ==
  {Unreadable, NotJson,
   Object("3.1.0", TRUE, TRUE), Object("3.0.3", TRUE, TRUE),
   Object("2.0", TRUE, TRUE), Object(NoVersion, TRUE, TRUE),
   Object("3.1.0", FALSE, TRUE), Object(NoVersion, TRUE, FALSE),
   [shape |-> "null", openapi |-> NoVersion, loads |-> TRUE, crawls |-> FALSE],
   [shape |-> "other", openapi |-> NoVersion, loads |-> TRUE, crawls |-> FALSE]}
=============================================================================
