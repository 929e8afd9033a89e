----------------------------- MODULE MCServers -----------------------------
(* Servers with two prefixes, and requests for each way through them. *)
EXTENDS Servers, TLC

CONSTANTS c1, c2, api1, api2, s1, s2

(* None of these has a $ref on its way. *)
Asked(prefix, body, verdict1, verdict2) ==
  [long |-> FALSE, prefix |-> prefix, body |-> body,
   verdict |-> (api1 :> verdict1) @@ (api2 :> verdict2),
   walks |-> (api1 :> {<<>>}) @@ (api2 :> {<<>>})]

(* Two chains, of which the table may hold the far end of the first. *)
Forth == {<< <<s1, s2>>, <<s2>> >>, << <<s1>>, <<s2>> >>}
(* A chain in the opposite order, and one that is a circle. *)
Back == {<< <<s2, s1>> >>}
Circle == {<< <<s1, s1>> >>}

MCRequests ==
  {[Asked(NoApi, "json", "panic", "panic") EXCEPT !.long = TRUE],
   Asked(NoApi, "text", "panic", "panic"),
   Asked(api1, "binary", "ok", "ok"),
   Asked(api1, "broken", "ok", "ok"),
   [Asked(api1, "json", "ok", "error") EXCEPT !.walks[api1] = Forth],
   [Asked(api1, "json", "error", "ok") EXCEPT !.walks[api1] = Back],
   [Asked(api2, "json", "ok", "panic") EXCEPT !.walks[api2] = Back],
   [Asked(api1, "json", "panic", "ok") EXCEPT !.walks[api1] = Circle]}
=============================================================================
