---------------------------- MODULE MCPathRouter ----------------------------
(***************************************************************************)
(* PathRouter on small documents: literals and parameters that compete for *)
(* one segment, two keys with the same segments, a parameter below another *)
(* segment, parameters that are not declared.                              *)
(***************************************************************************)
EXTENDS PathRouter

CONSTANTS t1, t2, get, put, integer, string, unknown, rejected

MCConverts ==
  (integer :> {"7"}) @@ (string :> {"me", "7", "x"})
  @@ (unknown :> {}) @@ (rejected :> {"7"})
MCAccepts == [MCConverts EXCEPT ![rejected] = {}]
(* /~1, escaped, and // , escaped, differ by the tilde alone. *)
MCSpelled ==
  ("/me" :> <<"/", "me">>) @@ ("/{a}" :> <<"/", "{a}">>)
  @@ ("/{a}/" :> <<"/", "{a}", "/">>) @@ ("/{b}" :> <<"/", "{b}">>)
  @@ ("/me/x" :> <<"/", "me", "/", "x">>) @@ ("/{a}/x" :> <<"/", "{a}", "/", "x">>)
  @@ ("/~1" :> <<"/", "~", "1">>) @@ ("//" :> <<"/", "/">>)
  @@ ("text/xml" :> <<"text", "/", "xml">>)
  @@ (get :> <<get>>) @@ (put :> <<put>>)

MCSplit ==
  [path \in Paths |->
     CASE path \in {"/me", "/me/"} -> <<"me">>
       [] path = "/x" -> <<"x">>
       [] path = "/7/x" -> <<"7", "x">>
       [] path = "/me/x" -> <<"me", "x">>]

Literal(n) == [parameter |-> FALSE, name |-> n]
Parameter(n) == [parameter |-> TRUE, name |-> n]

MCTemplates ==
  ("/me" :> <<Literal("me")>>)
  @@ ("/{a}" :> <<Parameter("a")>>)
  @@ ("/{a}/" :> <<Parameter("a")>>)
  @@ ("/{b}" :> <<Parameter("b")>>)
  @@ ("/me/x" :> <<Literal("me"), Literal("x")>>)
  @@ ("/{a}/x" :> <<Parameter("a"), Literal("x")>>)
  @@ ("/~1" :> <<Literal("~1")>>)
  @@ ("//" :> <<>>)

(* What the parameters array of an operation of a template can be. *)
Arrays(template) ==
  IF \E i \in 1 .. Len(template) : template[i].parameter
  THEN LET n == CHOOSE m \in {"a", "b"} :
                  \E i \in 1 .. Len(template) : template[i] = Parameter(m)
       IN  {<<FALSE, <<>>>>, <<TRUE, <<>>>>}
             \cup {<<TRUE, n :> s>> : s \in Schemas}
  ELSE {<<FALSE, <<>>>>}

MCOperations ==
  UNION {{[item |-> item, template |-> MCTemplates[item], method |-> method,
           hasParameters |-> array[1], declared |-> array[2]] :
            array \in Arrays(MCTemplates[item]), method \in Methods} :
           item \in DOMAIN MCTemplates}

MCItems == <<"//", "/me", "/me/x", "/{a}", "/{a}/", "/{a}/x", "/{b}", "/~1">>

(* serde_json keeps the keys of an object sorted. *)
Before(op, other) ==
  \/ op.item = other.item /\ op.method # other.method
  \/ \E i, j \in 1 .. Len(MCItems) : i < j /\ op.item = MCItems[i] /\ other.item = MCItems[j]

MCDocuments ==
  {<<op>> : op \in MCOperations}
    \cup {<<pair[1], pair[2]>> : pair \in {p \in MCOperations \X MCOperations : Before(p[1], p[2])}}

(* Documents whose operations declare their parameters inline. *)
MCDeclaredDocuments ==
  {doc \in MCDocuments : \A i \in 1 .. Len(doc) :
     /\ Declares(doc[i])
     /\ \A n \in DOMAIN doc[i].declared : doc[i].declared[n] \in {integer, string}}

Symmetry == Permutations(Threads) \cup Permutations(Methods)
=============================================================================
