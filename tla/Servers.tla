------------------------------- MODULE Servers -------------------------------
(***************************************************************************)
(* The two servers that use the library (src/examples): hyper-validation   *)
(* answers with the verdict of one validator; the gateway forwards what    *)
(* the validator of its prefix accepts to a downstream service.  One task  *)
(* accepts connections, each is served by a task of its own, and tokio     *)
(* runs the tasks on a few worker threads.                                 *)
(*                                                                         *)
(* validate_request is a plain call: it keeps its worker until it returns. *)
(* What it comes to is RequestValidation's affair; here it is the shards   *)
(* it takes on its way.  All requests of a document share its validator,   *)
(* and the table of resolved references in it: of a chain of $refs each is *)
(* resolved with the entries of those before it open, and an open entry    *)
(* keeps its shard of the table (ReferenceResolver).  A validation that    *)
(* awaits a shard waits on its worker; there is no timeout anywhere.       *)
(***************************************************************************)
EXTENDS Naturals, FiniteSets, Sequences

CONSTANTS
  Connections, \* places for a client
  Apis,        \* prefixes with a document of their own
  First,       \* the one that is inserted and asked for first
  Shards,      \* shards of the table of resolved references of a validator
  Requests,    \* requests of clients
  NoApi,       \* the path starts with no prefix
  NoRequest,   \* none was sent on the connection
  MaxWorkers,  \* bound: worker threads
  MaxRequests, \* bound: requests of all the clients
  MaxCrashes   \* bound: crashes of the downstream service

Programs == {"gateway", "validation"}
Verdicts == {"ok", "error", "panic"}

(***************************************************************************)
(* Of a request: whether http://127.0.0.1:3000 before its target is still  *)
(* short enough for a URI; the first prefix its path starts with; its      *)
(* body, "text" standing for UTF-8 that is not JSON, the empty body too,   *)
(* and "broken" for one that cannot be read; what each validator says of   *)
(* it; and the walks of its validation there: the chains of $refs that it  *)
(* resolves one after the other, each as the shards that it takes.  Which  *)
(* of the walks it is depends on what is in the table by then.             *)
(***************************************************************************)
Walk == Seq(Seq(Shards))

Request ==
  [long : BOOLEAN, prefix : Apis \cup {NoApi},
   body : {"json", "text", "binary", "broken"},
   verdict : [Apis -> Verdicts], walks : [Apis -> SUBSET Walk]]

ASSUME ServersAssumption ==
  /\ First \in Apis
  /\ NoApi \notin Apis
  /\ Requests \subseteq Request
  /\ NoRequest \notin Request
  /\ \A r \in Requests, a \in Apis : r.walks[a] # {}
  /\ MaxWorkers \in Nat \ {0} /\ MaxRequests \in Nat /\ MaxCrashes \in Nat
  /\ IsFiniteSet(Connections)

VARIABLES
  program,    \* which of the two servers runs
  workers,    \* its worker threads
  loadable,   \* those of its documents that make a validator
  main,       \* "starting", "accepting" or "ended", as the task of main
  validators, \* the ids in the collection
  pc,         \* where the task of each connection is
  request,    \* the request it serves, or served last
  link,       \* its own connection to the downstream service
  response,   \* what it answered last
  walk,       \* the chains its validation has yet to resolve
  passed,     \* of the first of them, the shards it has taken
  downstream, \* "up" or "down"
  received,   \* history: the requests that reached the service
  sent,       \* requests sent so far
  crashes     \* crashes of the downstream service

setup == <<program, workers, loadable>>
connection == <<pc, request, link, response, walk, passed, sent>>
service == <<downstream, received, crashes>>
vars == <<setup, main, validators, connection, service>>

(* Not open; open and waiting for a request; serving one. *)
Closed == {"none", "left", "lost"}
Serving == {"sent", "dialling", "reading", "read", "accepted", "waiting",
            "relaying", "validating"}

(* The documents the server loads. *)
Wanted == IF program = "gateway" THEN Apis ELSE {First}

Init ==
  /\ program \in Programs
  /\ workers \in 1 .. MaxWorkers
  /\ loadable \in SUBSET Wanted
  /\ main = "starting"
  /\ validators = {}
  /\ pc = [c \in Connections |-> "none"]
  /\ request = [c \in Connections |-> NoRequest]
  /\ link = [c \in Connections |-> "none"]
  /\ response = [c \in Connections |-> "none"]
  /\ walk = [c \in Connections |-> <<>>]
  /\ passed = [c \in Connections |-> 0]
  /\ downstream = "up"
  /\ received = {}
  /\ sent = 0
  /\ crashes = 0

-----------------------------------------------------------------------------
(* main: the validators first, then the loop that accepts connections. *)

NextApi ==
  IF First \notin validators THEN First
  ELSE CHOOSE a \in Wanted : a \notin validators

Started(a) == IF validators \cup {a} = Wanted THEN "accepting" ELSE "starting"

(* Fault: a document that makes no validator is passed over. *)
StartPassesOver ==
  /\ main = "starting"
  /\ IF NextApi \in loadable
     THEN validators' = validators \cup {NextApi} /\ main' = Started(NextApi)
     ELSE main' = "accepting" /\ UNCHANGED validators
  /\ UNCHANGED <<setup, connection, service>>

(* insert_from_file_path, or new: an error is a panic of main. *)
Start ==
  /\ main = "starting"
  /\ IF NextApi \in loadable
     THEN validators' = validators \cup {NextApi} /\ main' = Started(NextApi)
     ELSE main' = "ended" /\ UNCHANGED validators
  /\ UNCHANGED <<setup, connection, service>>

(* main runs on a thread of its own, so that it accepts in any case. *)
Accept(c) ==
  /\ main = "accepting"
  /\ pc[c] \in Closed
  /\ sent < MaxRequests
  /\ pc' = [pc EXCEPT ![c] = "open"]
  /\ UNCHANGED <<setup, main, validators, request, link, response, walk, passed, sent, service>>

(* listener.accept().await?: an error ends main. *)
AcceptFails ==
  /\ main = "accepting"
  /\ main' = "ended"
  /\ UNCHANGED <<setup, validators, connection, service>>

-----------------------------------------------------------------------------
(* The clients and the downstream service, which the servers only react to. *)

Send(c, r) ==
  /\ pc[c] = "open"
  /\ sent < MaxRequests
  /\ pc' = [pc EXCEPT ![c] = "sent"]
  /\ request' = [request EXCEPT ![c] = r]
  /\ response' = [response EXCEPT ![c] = "none"]
  /\ sent' = sent + 1
  /\ UNCHANGED <<setup, main, validators, link, walk, passed, service>>

(* The body is there, or cannot be read: its framing is broken. *)
FinishBody(c) ==
  /\ pc[c] = "reading"
  /\ pc' = [pc EXCEPT ![c] = "read"]
  /\ UNCHANGED <<setup, main, validators, request, link, response, walk, passed, sent, service>>

(* hyper drops the task of a client that is gone where it awaits something, *)
(* which a validation does not.                                             *)
Leave(c) ==
  /\ pc[c] \in {"open"} \cup (Serving \ {"validating"})
  /\ pc' = [pc EXCEPT ![c] = "left"]
  /\ link' = [link EXCEPT ![c] = "none"]
  /\ UNCHANGED <<setup, main, validators, request, response, walk, passed, sent, service>>

Answer(c) ==
  /\ pc[c] = "waiting"
  /\ link[c] = "up"
  /\ pc' = [pc EXCEPT ![c] = "relaying"]
  /\ UNCHANGED <<setup, main, validators, request, link, response, walk, passed, sent, service>>

Crash ==
  /\ downstream = "up"
  /\ crashes < MaxCrashes
  /\ downstream' = "down"
  /\ crashes' = crashes + 1
  /\ link' = [c \in Connections |-> IF link[c] = "up" THEN "broken" ELSE link[c]]
  /\ UNCHANGED <<setup, main, validators, pc, request, response, walk, passed, received, sent>>

Restart ==
  /\ downstream = "down"
  /\ downstream' = "up"
  /\ UNCHANGED <<setup, main, validators, connection, received, crashes>>

-----------------------------------------------------------------------------
(* The task of a connection.  Each of these is a poll, on a free worker, or *)
(* what a validation does on the worker that it has.                        *)

Validating == {c \in Connections : pc[c] = "validating"}
Exhausted == Cardinality(Validating) >= workers

Polled(c, place) == pc[c] = place /\ ~Exhausted

(* main is at its end: the runtime it drops has its free workers drop the  *)
(* other tasks, and waits for the workers that are not free.               *)
Drop(c) ==
  /\ main = "ended"
  /\ ~Exhausted
  /\ pc[c] \notin Closed \cup {"validating"}
  /\ pc' = [pc EXCEPT ![c] = "lost"]
  /\ link' = [link EXCEPT ![c] = "none"]
  /\ UNCHANGED <<setup, main, validators, request, response, walk, passed, sent, service>>

(* Fault: the connection downstream stays open. *)
RespondKeepsLink(c, status) ==
  /\ response' = [response EXCEPT ![c] = status]
  /\ pc' = [pc EXCEPT ![c] = "open"]
  /\ UNCHANGED <<request, link, walk, passed, sent>>

Respond(c, status) ==
  /\ response' = [response EXCEPT ![c] = status]
  /\ pc' = [pc EXCEPT ![c] = "open"]
  /\ link' = [link EXCEPT ![c] = "none"]
  /\ UNCHANGED <<request, walk, passed, sent>>

(* Where the body is not read hyper may close the connection as well. *)
RespondUnread(c, status) ==
  /\ response' = [response EXCEPT ![c] = status]
  /\ \E place \in {"open", "none"} : pc' = [pc EXCEPT ![c] = place]
  /\ link' = [link EXCEPT ![c] = "none"]
  /\ UNCHANGED <<request, walk, passed, sent>>

(* The panic of a task: its connection closes without an answer. *)
Panic(c) ==
  /\ pc' = [pc EXCEPT ![c] = "lost"]
  /\ link' = [link EXCEPT ![c] = "none"]
  /\ UNCHANGED <<request, response, walk, passed, sent>>

MoveOn(c, place) ==
  /\ pc' = [pc EXCEPT ![c] = place]
  /\ UNCHANGED <<request, link, response, walk, passed, sent>>

(* The gateway makes a URI of the target before anything else. *)
Receive(c) ==
  /\ Polled(c, "sent")
  /\ IF program = "validation" THEN MoveOn(c, "reading")
     ELSE IF request[c].long THEN RespondUnread(c, "400")
     ELSE MoveOn(c, "dialling")
  /\ UNCHANGED <<setup, main, validators, service>>

(* It connects to the service before it reads or validates the body. *)
Dial(c) ==
  /\ Polled(c, "dialling")
  /\ IF downstream = "down" THEN RespondUnread(c, "502")
     ELSE /\ pc' = [pc EXCEPT ![c] = "reading"]
          /\ link' = [link EXCEPT ![c] = "up"]
          /\ UNCHANGED <<request, response, walk, passed, sent>>
  /\ UNCHANGED <<setup, main, validators, service>>

(* Fault: what is under any prefix goes to the first validator. *)
ValidatorOfFirst(c) ==
  IF program = "gateway" /\ request[c].prefix = NoApi THEN NoApi ELSE First

(* The gateway asks the validator of the prefix, or none. *)
ValidatorOf(c) == IF program = "gateway" THEN request[c].prefix ELSE First

(* validate_request starts; the table decides on its way through the $refs. *)
Validate(c) ==
  /\ pc' = [pc EXCEPT ![c] = "validating"]
  /\ \E w \in request[c].walks[ValidatorOf(c)] : walk' = [walk EXCEPT ![c] = w]
  /\ UNCHANGED <<request, link, response, passed, sent>>

(***************************************************************************)
(* hyper-validation panics on a body that cannot be read or is not JSON;   *)
(* to the gateway it is a string, if it is UTF-8.                          *)
(***************************************************************************)
Judge(c) ==
  /\ Polled(c, "read")
  /\ IF program = "validation" /\ request[c].body # "json" THEN Panic(c)
     ELSE IF request[c].body = "broken" THEN RespondUnread(c, "400")
     ELSE IF request[c].body = "binary" THEN Respond(c, "400")
     ELSE IF ValidatorOf(c) = NoApi THEN MoveOn(c, "accepted")
     ELSE IF ValidatorOf(c) \notin validators THEN Respond(c, "500")
     ELSE Validate(c)
  /\ UNCHANGED <<setup, main, validators, service>>

(* The shards a validation keeps: those of the entries it has open. *)
Held(c) == {Head(walk[c])[i] : i \in 1 .. passed[c]}

Opening(c) ==
  pc[c] = "validating" /\ walk[c] # <<>> /\ passed[c] < Len(Head(walk[c]))

NextShard(c) == Head(walk[c])[passed[c] + 1]

(* Who keeps it locked, in the one table that its document has. *)
Awaited(c) ==
  {d \in Connections : NextShard(c) \in Held(d) /\ ValidatorOf(d) = ValidatorOf(c)}

(* resolve_with_cache takes the shard of the entry, unless it is taken,    *)
(* and keeps it while the next of the chain is resolved.                   *)
OpenEntry(c) ==
  /\ Opening(c)
  /\ Awaited(c) = {}
  /\ passed' = [passed EXCEPT ![c] = @ + 1]
  /\ UNCHANGED <<setup, main, validators, pc, request, link, response, walk, sent, service>>

(* Fault: an error on the last chain leaves its entries open. *)
EndChainKeeps(c) ==
  /\ pc[c] = "validating" /\ walk[c] # <<>> /\ passed[c] = Len(Head(walk[c]))
  /\ IF Len(walk[c]) = 1 /\ request[c].verdict[ValidatorOf(c)] = "error"
     THEN Respond(c, "400")
     ELSE /\ walk' = [walk EXCEPT ![c] = Tail(@)]
          /\ passed' = [passed EXCEPT ![c] = 0]
          /\ UNCHANGED <<pc, request, link, response, sent>>
  /\ UNCHANGED <<setup, main, validators, service>>

(* The chain is resolved, or not: every entry of it is closed. *)
EndChain(c) ==
  /\ pc[c] = "validating" /\ walk[c] # <<>> /\ passed[c] = Len(Head(walk[c]))
  /\ walk' = [walk EXCEPT ![c] = Tail(@)]
  /\ passed' = [passed EXCEPT ![c] = 0]
  /\ UNCHANGED <<setup, main, validators, pc, request, link, response, sent, service>>

(* Fault: the error of a validation is unwrapped. *)
ConcludeUnwraps(c) ==
  /\ pc[c] = "validating" /\ walk[c] = <<>>
  /\ CASE request[c].verdict[ValidatorOf(c)] = "ok" ->
            IF program = "gateway" THEN MoveOn(c, "accepted") ELSE Respond(c, "200")
       [] OTHER -> Panic(c)
  /\ UNCHANGED <<setup, main, validators, service>>

(* What becomes of a request once its validator has spoken. *)
Conclude(c) ==
  /\ pc[c] = "validating" /\ walk[c] = <<>>
  /\ CASE request[c].verdict[ValidatorOf(c)] = "ok" ->
            IF program = "gateway" THEN MoveOn(c, "accepted") ELSE Respond(c, "200")
       [] request[c].verdict[ValidatorOf(c)] = "error" -> Respond(c, "400")
       [] request[c].verdict[ValidatorOf(c)] = "panic" -> Panic(c)
  /\ UNCHANGED <<setup, main, validators, service>>

(* Validations that await shards of each other, or one of its own: none of *)
(* them ever returns.                                                      *)
Stuck ==
  UNION {S \in SUBSET Connections :
           \A c \in S : Opening(c) /\ \E d \in Awaited(c) : d \in S \/ pc[d] # "validating"}

(* handshake and send_request *)
Forward(c) ==
  /\ Polled(c, "accepted")
  /\ IF link[c] = "up"
     THEN MoveOn(c, "waiting") /\ received' = received \cup {request[c]}
     ELSE Respond(c, "502") /\ UNCHANGED received
  /\ UNCHANGED <<setup, main, validators, downstream, crashes>>

(* Fault: only an answer ends the wait. *)
LoseServiceNever(c) == FALSE /\ UNCHANGED vars

LoseService(c) ==
  /\ Polled(c, "waiting")
  /\ link[c] = "broken"
  /\ Respond(c, "502")
  /\ UNCHANGED <<setup, main, validators, service>>

(* The service ends the body of its answer. *)
Relay(c) ==
  /\ Polled(c, "relaying")
  /\ link[c] = "up"
  /\ Respond(c, "relayed")
  /\ UNCHANGED <<setup, main, validators, service>>

(* An error in the body of the answer is unreachable!(). *)
LoseAnswer(c) ==
  /\ Polled(c, "relaying")
  /\ link[c] = "broken"
  /\ Panic(c)
  /\ UNCHANGED <<setup, main, validators, service>>

Poll(c) ==
  \/ Receive(c) \/ Dial(c) \/ Judge(c) \/ OpenEntry(c) \/ EndChain(c) \/ Conclude(c)
  \/ Forward(c) \/ LoseService(c) \/ LoseAnswer(c)

Next ==
  \/ Start \/ AcceptFails \/ Crash \/ Restart
  \/ \E c \in Connections :
       \/ Accept(c) \/ FinishBody(c) \/ Leave(c) \/ Answer(c) \/ Relay(c)
       \/ Poll(c) \/ Drop(c)
       \/ \E r \in Requests : Send(c, r)

Spec == Init /\ [][Next]_vars

(***************************************************************************)
(* tokio polls every task that can go on, the system runs every worker,    *)
(* and a connect to the local host ends, as long as no validation is       *)
(* stuck: the worker it keeps may be the one that waited for I/O, and none *)
(* takes over for it.  A shard may go to any of those that await it.       *)
(* Nothing makes a client finish its body or the service answer.           *)
(***************************************************************************)
FairSpec ==
  Spec /\ \A c \in Connections : WF_vars(Stuck = {} /\ (Poll(c) \/ Drop(c)))

-----------------------------------------------------------------------------
(***************************************************************************)
(* Every variable has its type.  Only a request that is being served has a *)
(* connection to the service, only one that is being validated has shards, *)
(* and main accepts no connection without validators.                      *)
(***************************************************************************)
TypeOK ==
  /\ main \in {"starting", "accepting", "ended"}
  /\ validators \subseteq Wanted
  /\ main = "accepting" => validators = Wanted
  /\ pc \in [Connections -> Closed \cup {"open"} \cup Serving]
  /\ \A c \in Connections :
       /\ request[c] \in Requests \cup {NoRequest}
       /\ pc[c] \in Serving => request[c] # NoRequest
       /\ link[c] \in {"none", "up", "broken"}
       /\ link[c] # "none" => /\ program = "gateway"
                              /\ pc[c] \in Serving \ {"sent", "dialling"}
       /\ response[c] \in {"none", "200", "400", "500", "502", "relayed"}
       /\ walk[c] \in Walk
       /\ passed[c] \in 0 .. IF walk[c] = <<>> THEN 0 ELSE Len(Head(walk[c]))
       /\ walk[c] # <<>> => pc[c] = "validating"
  /\ downstream \in {"up", "down"}
  /\ received \subseteq Requests
  /\ sent \in 0 .. MaxRequests /\ crashes \in 0 .. MaxCrashes

(***************************************************************************)
(* What reaches the service under a prefix is what the validator of that   *)
(* prefix accepts, whatever the other one says of it (main.rs:119, :139);  *)
(* only what is under no prefix is not validated.                          *)
(***************************************************************************)
ForwardedWasAccepted ==
  \A r \in received :
    /\ program = "gateway" /\ ~r.long /\ r.body \notin {"binary", "broken"}
    /\ r.prefix # NoApi => r.verdict[r.prefix] = "ok"

(***************************************************************************)
(* An answer means what its status says: a client is told of a bad request *)
(* only if its own validator found one or the gateway could not read it,   *)
(* is answered by the service only if the service had its request, and     *)
(* never hears that there is no validator (main.rs:122, :142).             *)
(***************************************************************************)
AnswersAreTrue ==
  \A c \in Connections :
    LET r == request[c] IN
    /\ response[c] = "relayed" => r \in received
    /\ response[c] = "200" =>
         program = "validation" /\ r.body = "json" /\ r.verdict[First] = "ok"
    /\ response[c] = "400" =>
         \/ program = "gateway" /\ (r.long \/ r.body \in {"binary", "broken"})
         \/ ValidatorOf(c) # NoApi /\ r.verdict[ValidatorOf(c)] = "error"
    /\ response[c] # "500"

(***************************************************************************)
(* A client that does not leave is answered, or its connection closes for  *)
(* one of four reasons: no connection could be accepted (main.rs:50), a    *)
(* body cannot be read or is no JSON (hyper-validation/main.rs:65, :74),   *)
(* the validator panics, or the service breaks off its answer              *)
(* (main.rs:195, "This should not happen").                                *)
(***************************************************************************)
LostOnlyThen ==
  [][\A c \in Connections :
       pc[c] \in Serving /\ pc'[c] = "lost" =>
         \/ main = "ended"
         \/ pc[c] = "read" /\ program = "validation" /\ request[c].body # "json"
         \/ pc[c] = "validating" /\ request[c].verdict[ValidatorOf(c)] = "panic"
         \/ pc[c] = "relaying" /\ link[c] = "broken"]_vars

(* Some chain takes t while it keeps s. *)
Precedes(chains, s, t) ==
  \E w \in chains : \E i, j \in 1 .. Len(w) : i < j /\ w[i] = s /\ w[j] = t

(* There is an order of the shards that all the chains follow. *)
InOrder(chains) ==
  \A T \in (SUBSET Shards) \ {{}} : \E s \in T : \A t \in T : ~Precedes(chains, s, t)

(***************************************************************************)
(* The validations that never return have only their chains to blame, not  *)
(* another document's, a client that left, or a request served before:     *)
(* those of one document that are stuck together take the shards of its    *)
(* table in no common order.  One chain is enough for that, if its $refs   *)
(* are a circle or two of them meet in a shard, and so are two chains that *)
(* pass two shards in opposite order (traverser.rs:334-337).               *)
(***************************************************************************)
StuckHasCause ==
  \A c \in Stuck :
    LET group == {d \in Stuck : ValidatorOf(d) = ValidatorOf(c)} IN
    ~InOrder({Head(walk[d]) : d \in group})

(***************************************************************************)
(* A server does not sit on a request: as long as no validation is stuck,  *)
(* it is answered, or lost, or the turn is its client's or the service's.  *)
(***************************************************************************)
InHand(c) ==
  \/ pc[c] \in {"sent", "dialling", "read", "validating", "accepted"}
  \/ pc[c] \in {"waiting", "relaying"} /\ link[c] = "broken"

MovesOn == \A c \in Connections : InHand(c) ~> ~InHand(c) \/ Stuck # {}
=============================================================================
