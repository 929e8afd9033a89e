---------------------------- MODULE ServersProofs ----------------------------
(***************************************************************************)
(* What the example servers do with a request, for any documents, any      *)
(* requests, any number of connections and workers and any verdicts.  The  *)
(* properties are not inductive: ConnectionOK adds what a task has         *)
(* established of its request at each place it can be.                     *)
(***************************************************************************)
EXTENDS Servers, TLAPS

Status == {"none", "200", "400", "500", "502", "relayed"}

ConnectionShape ==
  /\ pc \in [Connections -> Closed \cup {"open"} \cup Serving]
  /\ request \in [Connections -> Requests \cup {NoRequest}]
  /\ link \in [Connections -> {"none", "up", "broken"}]
  /\ response \in [Connections -> Status]
  /\ walk \in [Connections -> Walk]
  /\ passed \in [Connections -> Nat]
  /\ sent \in 0 .. MaxRequests

Shape ==
  /\ program \in Programs
  /\ main \in {"starting", "accepting", "ended"}
  /\ validators \subseteq Wanted
  /\ ConnectionShape
  /\ downstream \in {"up", "down"}
  /\ received \subseteq Requests
  /\ crashes \in 0 .. MaxCrashes

(* The validators are all there before a connection is accepted. *)
Ready ==
  /\ main = "starting" => /\ validators # Wanted
                          /\ \A c \in Connections : pc[c] = "none"
  /\ main = "accepting" => validators = Wanted

(* The gateway may forward the request. *)
Screened(r) ==
  /\ program = "gateway" /\ ~r.long /\ r.body \notin {"binary", "broken"}
  /\ r.prefix # NoApi => r.verdict[r.prefix] = "ok"

(* An answer means what its status says. *)
TrueAnswer(c) ==
  LET r == request[c] IN
  /\ response[c] = "relayed" => r \in received
  /\ response[c] = "200" =>
       program = "validation" /\ r.body = "json" /\ r.verdict[First] = "ok"
  /\ response[c] = "400" =>
       \/ program = "gateway" /\ (r.long \/ r.body \in {"binary", "broken"})
       \/ ValidatorOf(c) # NoApi /\ r.verdict[ValidatorOf(c)] = "error"
  /\ response[c] # "500"

(* The task keeps no shard. *)
Idle(c) == walk[c] = <<>> /\ passed[c] = 0

ChainsOK(c) ==
  /\ walk[c] # <<>> => pc[c] = "validating"
  /\ passed[c] # 0 => walk[c] # <<>> /\ passed[c] <= Len(Head(walk[c]))

(* The request got as far as a validator. *)
Judged(c) ==
  LET r == request[c] IN
  /\ ValidatorOf(c) \in Apis
  /\ IF program = "gateway" THEN r.body \notin {"binary", "broken"} ELSE r.body = "json"

ConnectionOK(c) ==
  /\ pc[c] # "none" => validators = Wanted
  /\ pc[c] \in Serving => request[c] \in Requests
  /\ link[c] # "none" => /\ program = "gateway"
                         /\ pc[c] \in Serving \ {"sent", "dialling"}
  /\ ChainsOK(c)
  /\ pc[c] = "dialling" => program = "gateway"
  /\ pc[c] \in {"dialling", "reading", "read", "validating"} /\ program = "gateway"
       => ~request[c].long
  /\ pc[c] = "validating" => Judged(c)
  /\ pc[c] \in {"accepted", "waiting", "relaying"} => Screened(request[c])
  /\ pc[c] \in {"waiting", "relaying"} => request[c] \in received
  /\ TrueAnswer(c)

IInv ==
  /\ Shape
  /\ Ready
  /\ \A r \in received : Screened(r)
  /\ \A c \in Connections : ConnectionOK(c)

-----------------------------------------------------------------------------
(* What the properties say follows. *)

LEMMA Implied == IInv => TypeOK /\ ForwardedWasAccepted /\ AnswersAreTrue
<1> SUFFICES ASSUME IInv  PROVE TypeOK /\ ForwardedWasAccepted /\ AnswersAreTrue
  OBVIOUS
<1>1. TypeOK
  <2> SUFFICES ASSUME NEW c \in Connections
               PROVE  /\ request[c] \in Requests \cup {NoRequest}
                      /\ pc[c] \in Serving => request[c] # NoRequest
                      /\ link[c] \in {"none", "up", "broken"}
                      /\ link[c] # "none" => /\ program = "gateway"
                                             /\ pc[c] \in Serving \ {"sent", "dialling"}
                      /\ response[c] \in {"none", "200", "400", "500", "502", "relayed"}
                      /\ walk[c] \in Walk
                      /\ passed[c] \in 0 .. IF walk[c] = <<>> THEN 0
                                            ELSE Len(Head(walk[c]))
                      /\ walk[c] # <<>> => pc[c] = "validating"
    BY DEF IInv, Shape, ConnectionShape, Ready, TypeOK
  <2>1. request[c] \in Requests \cup {NoRequest} /\ walk[c] \in Walk
    BY DEF IInv, Shape, ConnectionShape
  <2>2. /\ link[c] \in {"none", "up", "broken"}
        /\ response[c] \in {"none", "200", "400", "500", "502", "relayed"}
    BY DEF IInv, Shape, ConnectionShape, Status
  <2>3. ConnectionOK(c)
    BY DEF IInv
  <2>4. passed[c] \in 0 .. IF walk[c] = <<>> THEN 0 ELSE Len(Head(walk[c]))
    <3>1. passed[c] \in Nat
      BY DEF IInv, Shape, ConnectionShape
    <3>2. passed[c] # 0 => walk[c] # <<>> /\ passed[c] <= Len(Head(walk[c]))
      BY <2>3 DEF ConnectionOK, ChainsOK
    <3>3. CASE walk[c] = <<>>
      BY <3>1, <3>2, <3>3
    <3>4. CASE walk[c] # <<>>
      <4>1. Len(Head(walk[c])) \in Nat
        BY <2>1, <3>4 DEF Walk
      <4> QED  BY <3>1, <3>2, <3>4, <4>1
    <3> QED  BY <3>3, <3>4
  <2> QED  BY <2>1, <2>2, <2>3, <2>4, ServersAssumption DEF ConnectionOK, ChainsOK
<1>2. ForwardedWasAccepted
  BY DEF IInv, ForwardedWasAccepted, Screened
<1>3. AnswersAreTrue
  BY DEF IInv, AnswersAreTrue, ConnectionOK, TrueAnswer
<1> QED  BY <1>1, <1>2, <1>3

-----------------------------------------------------------------------------
(* What a step leaves alone. *)

Same(c) ==
  /\ pc'[c] = pc[c]
  /\ request'[c] = request[c]
  /\ link'[c] = link[c]
  /\ response'[c] = response[c]
  /\ walk'[c] = walk[c]
  /\ passed'[c] = passed[c]

LEMMA ConnectionFrame ==
  ASSUME NEW c \in Connections, ConnectionOK(c), Same(c),
         program' = program, validators' = validators, received \subseteq received'
  PROVE  ConnectionOK(c)'
<1>1. ValidatorOf(c)' = ValidatorOf(c)
  BY DEF ValidatorOf, Same
<1>2. TrueAnswer(c)'
  BY <1>1 DEF ConnectionOK, TrueAnswer, Same
<1>3. Screened(request[c]) => Screened(request[c])'
  BY DEF Screened, Same
<1>4. Wanted' = Wanted
  BY DEF Wanted
<1>5. ChainsOK(c)' /\ (Judged(c) => Judged(c)')
  BY <1>1 DEF ConnectionOK, ChainsOK, Judged, Same
<1> QED  BY <1>2, <1>3, <1>4, <1>5 DEF ConnectionOK, Same

(* A step of one connection. *)
LEMMA OneMoves ==
  ASSUME IInv, NEW c \in Connections, Shape',
         \A d \in Connections : d # c => Same(d),
         program' = program, validators' = validators, main' = main,
         received \subseteq received', \A r \in received' : Screened(r),
         main = "starting" => pc'[c] = "none",
         ConnectionOK(c)'
  PROVE  IInv'
<1>1. \A d \in Connections : ConnectionOK(d)'
  BY ConnectionFrame DEF IInv
<1>2. Ready'
  BY DEF IInv, Ready, Wanted, Same
<1>3. \A r \in received' : Screened(r)'
  BY DEF Screened
<1> QED  BY <1>1, <1>2, <1>3 DEF IInv

-----------------------------------------------------------------------------
(* What the steps of a task come to. *)

OthersSame(c) == \A d \in Connections : d # c => Same(d)

LEMMA RespondUnreadEffect ==
  ASSUME ConnectionShape, NEW c \in Connections, NEW status \in Status,
         RespondUnread(c, status)
  PROVE  /\ ConnectionShape'
         /\ OthersSame(c)
         /\ pc'[c] \in {"open", "none"} /\ link'[c] = "none"
         /\ response'[c] = status
         /\ request'[c] = request[c]
         /\ walk'[c] = walk[c] /\ passed'[c] = passed[c]
BY DEF ConnectionShape, OthersSame, Same, RespondUnread, Closed

LEMMA PanicEffect ==
  ASSUME ConnectionShape, NEW c \in Connections, Panic(c)
  PROVE  /\ ConnectionShape'
         /\ OthersSame(c)
         /\ pc'[c] = "lost" /\ link'[c] = "none"
         /\ response'[c] = response[c]
         /\ request'[c] = request[c]
         /\ walk'[c] = walk[c] /\ passed'[c] = passed[c]
BY DEF ConnectionShape, OthersSame, Same, Panic, Closed

LEMMA MoveOnEffect ==
  ASSUME ConnectionShape, NEW c \in Connections, NEW place \in Serving,
         MoveOn(c, place)
  PROVE  /\ ConnectionShape'
         /\ OthersSame(c)
         /\ pc'[c] = place /\ link'[c] = link[c]
         /\ response'[c] = response[c]
         /\ request'[c] = request[c]
         /\ walk'[c] = walk[c] /\ passed'[c] = passed[c]
BY DEF ConnectionShape, OthersSame, Same, MoveOn

(* Only a validation keeps a shard. *)
LEMMA IdleTask ==
  ASSUME NEW c \in Connections, ConnectionOK(c), pc[c] # "validating"
  PROVE  Idle(c)
BY DEF ConnectionOK, ChainsOK, Idle

(* A step of the task of one connection, but for Forward. *)
LEMMA TaskMoves ==
  ASSUME IInv, NEW c \in Connections, pc[c] # "none",
         UNCHANGED <<setup, main, validators, service>>,
         ConnectionShape', OthersSame(c),
         ConnectionOK(c)'
  PROVE  IInv'
<1>1. Shape'
  BY DEF IInv, Shape, setup, service, Wanted
<1>2. main # "starting"
  BY DEF IInv, Ready
<1> QED  BY <1>1, <1>2, OneMoves DEF IInv, OthersSame, setup, service

(* An answer that is true when it is given. *)
Justified(c, status) ==
  LET r == request[c] IN
  /\ status = "relayed" => r \in received
  /\ status = "200" =>
       program = "validation" /\ r.body = "json" /\ r.verdict[First] = "ok"
  /\ status = "400" =>
       \/ program = "gateway" /\ (r.long \/ r.body \in {"binary", "broken"})
       \/ ValidatorOf(c) # NoApi /\ r.verdict[ValidatorOf(c)] = "error"
  /\ status # "500"

LEMMA RespondUnreadKeeps ==
  ASSUME IInv, NEW c \in Connections, pc[c] \in Serving, Idle(c),
         NEW status \in Status, Justified(c, status), RespondUnread(c, status),
         UNCHANGED <<setup, main, validators, service>>
  PROVE  IInv'
<1>1. /\ ConnectionOK(c) /\ ConnectionShape /\ validators = Wanted /\ pc[c] # "none"
  BY DEF IInv, Shape, ConnectionOK, Serving
<1>2. program' = program /\ validators' = Wanted' /\ received' = received
  BY <1>1 DEF setup, service, Wanted
<1>3. /\ ConnectionShape' /\ OthersSame(c) /\ pc'[c] \in {"open", "none"}
      /\ link'[c] = "none" /\ response'[c] = status /\ request'[c] = request[c]
      /\ walk'[c] = walk[c] /\ passed'[c] = passed[c]
  BY <1>1, RespondUnreadEffect
<1>4. TrueAnswer(c)'
  BY <1>2, <1>3 DEF TrueAnswer, Justified, ValidatorOf
<1>5. ChainsOK(c)'
  BY <1>3 DEF Idle, ChainsOK
<1>6. ConnectionOK(c)'
  BY <1>2, <1>3, <1>4, <1>5 DEF ConnectionOK, Serving
<1> QED  BY <1>1, <1>3, <1>6, TaskMoves

LEMMA RespondKeeps ==
  ASSUME IInv, NEW c \in Connections, pc[c] \in Serving, Idle(c),
         NEW status \in Status, Justified(c, status), Respond(c, status),
         UNCHANGED <<setup, main, validators, service>>
  PROVE  IInv'
<1>1. RespondUnread(c, status)
  BY DEF Respond, RespondUnread
<1> QED  BY <1>1, RespondUnreadKeeps

LEMMA PanicKeeps ==
  ASSUME IInv, NEW c \in Connections, pc[c] \in Serving, Idle(c), Panic(c),
         UNCHANGED <<setup, main, validators, service>>
  PROVE  IInv'
<1>1. /\ ConnectionOK(c) /\ ConnectionShape /\ validators = Wanted /\ pc[c] # "none"
  BY DEF IInv, Shape, ConnectionOK, Serving
<1>2. program' = program /\ validators' = Wanted' /\ received' = received
  BY <1>1 DEF setup, service, Wanted
<1>3. /\ ConnectionShape' /\ OthersSame(c) /\ pc'[c] = "lost" /\ link'[c] = "none"
      /\ response'[c] = response[c] /\ request'[c] = request[c]
      /\ walk'[c] = walk[c] /\ passed'[c] = passed[c]
  BY <1>1, PanicEffect
<1>4. TrueAnswer(c)'
  BY <1>1, <1>2, <1>3 DEF ConnectionOK, TrueAnswer, ValidatorOf
<1>5. ChainsOK(c)'
  BY <1>3 DEF Idle, ChainsOK
<1>6. ConnectionOK(c)'
  BY <1>2, <1>3, <1>4, <1>5 DEF ConnectionOK, Serving
<1> QED  BY <1>1, <1>3, <1>6, TaskMoves

(* The gateway lets a request pass that its validator, if any, accepts. *)
LEMMA AcceptKeeps ==
  ASSUME IInv, NEW c \in Connections, pc[c] \in {"read", "validating"}, Idle(c),
         Screened(request[c]), MoveOn(c, "accepted"),
         UNCHANGED <<setup, main, validators, service>>
  PROVE  IInv'
<1>1. /\ ConnectionOK(c) /\ ConnectionShape /\ validators = Wanted
      /\ request[c] \in Requests /\ "accepted" \in Serving
  BY DEF IInv, Shape, ConnectionOK, Serving
<1>2. program' = program /\ validators' = Wanted' /\ received' = received
  BY <1>1 DEF setup, service, Wanted
<1>3. /\ ConnectionShape' /\ OthersSame(c) /\ pc'[c] = "accepted" /\ link'[c] = link[c]
      /\ response'[c] = response[c] /\ request'[c] = request[c]
      /\ walk'[c] = walk[c] /\ passed'[c] = passed[c]
  BY <1>1, MoveOnEffect
<1>4. TrueAnswer(c)'
  BY <1>1, <1>2, <1>3 DEF ConnectionOK, TrueAnswer, ValidatorOf
<1>5. Screened(request[c])' /\ ChainsOK(c)'
  BY <1>2, <1>3 DEF Screened, Idle, ChainsOK
<1>6. ConnectionOK(c)'
  BY <1>1, <1>2, <1>3, <1>4, <1>5 DEF ConnectionOK, Screened, Serving
<1> QED  BY <1>1, <1>3, <1>6, TaskMoves

LEMMA ReceiveStep ==
  ASSUME IInv, NEW c \in Connections, Receive(c)
  PROVE  IInv'
<1>1. /\ pc[c] = "sent" /\ ConnectionOK(c) /\ ConnectionShape /\ program \in Programs
      /\ UNCHANGED <<setup, main, validators, service>>
  BY DEF Receive, Polled, IInv, Shape
<1>2. link[c] = "none" /\ Idle(c) /\ request[c] \in Requests /\ validators = Wanted
  BY IdleTask, <1>1 DEF ConnectionOK, Serving, ConnectionShape
<1>3. program' = program /\ validators' = Wanted' /\ received' = received
  BY <1>1, <1>2 DEF setup, service, Wanted
<1>4. CASE program = "validation" /\ MoveOn(c, "reading")
  <2>1. "reading" \in Serving
    BY DEF Serving
  <2>2. /\ ConnectionShape' /\ OthersSame(c) /\ pc'[c] = "reading" /\ link'[c] = "none"
        /\ response'[c] = response[c] /\ request'[c] = request[c] /\ Idle(c)'
    BY <1>1, <1>2, <1>4, <2>1, MoveOnEffect DEF Idle
  <2>3. TrueAnswer(c)'
    BY <1>1, <1>3, <2>2 DEF ConnectionOK, TrueAnswer, ValidatorOf
  <2>4. ConnectionOK(c)'
    BY <1>2, <1>3, <1>4, <2>2, <2>3 DEF ConnectionOK, Idle, ChainsOK
  <2> QED  BY <1>1, <2>2, <2>4, TaskMoves
<1>5. CASE program # "validation" /\ request[c].long /\ RespondUnread(c, "400")
  <2>1. Justified(c, "400") /\ "400" \in Status
    BY <1>1, <1>5 DEF Justified, Status, Programs
  <2> QED  BY <1>1, <1>2, <1>5, <2>1, RespondUnreadKeeps DEF Serving
<1>6. CASE program # "validation" /\ ~request[c].long /\ MoveOn(c, "dialling")
  <2>1. "dialling" \in Serving
    BY DEF Serving
  <2>2. /\ ConnectionShape' /\ OthersSame(c) /\ pc'[c] = "dialling" /\ link'[c] = "none"
        /\ response'[c] = response[c] /\ request'[c] = request[c] /\ Idle(c)'
    BY <1>1, <1>2, <1>6, <2>1, MoveOnEffect DEF Idle
  <2>3. TrueAnswer(c)'
    BY <1>1, <1>3, <2>2 DEF ConnectionOK, TrueAnswer, ValidatorOf
  <2>4. ConnectionOK(c)'
    BY <1>1, <1>2, <1>3, <1>6, <2>2, <2>3 DEF ConnectionOK, Programs, Idle, ChainsOK
  <2> QED  BY <1>1, <2>2, <2>4, TaskMoves
<1> QED  BY <1>4, <1>5, <1>6 DEF Receive

LEMMA DialStep ==
  ASSUME IInv, NEW c \in Connections, Dial(c)
  PROVE  IInv'
<1>1. /\ pc[c] = "dialling" /\ ConnectionOK(c) /\ ConnectionShape
      /\ UNCHANGED <<setup, main, validators, service>>
  BY DEF Dial, Polled, IInv, Shape
<1>2. /\ link[c] = "none" /\ Idle(c) /\ request[c] \in Requests
      /\ validators = Wanted /\ program = "gateway" /\ ~request[c].long
  BY IdleTask, <1>1 DEF ConnectionOK, Serving, ConnectionShape
<1>3. program' = program /\ validators' = Wanted' /\ received' = received
  BY <1>1, <1>2 DEF setup, service, Wanted
<1>4. CASE RespondUnread(c, "502")
  <2>1. Justified(c, "502") /\ "502" \in Status
    BY DEF Justified, Status
  <2> QED  BY <1>1, <1>2, <1>4, <2>1, RespondUnreadKeeps DEF Serving
<1>5. CASE /\ pc' = [pc EXCEPT ![c] = "reading"]
           /\ link' = [link EXCEPT ![c] = "up"]
           /\ UNCHANGED <<request, response, walk, passed, sent>>
  <2>1. /\ ConnectionShape' /\ OthersSame(c) /\ pc'[c] = "reading" /\ link'[c] = "up"
        /\ response'[c] = response[c] /\ request'[c] = request[c] /\ Idle(c)'
    BY <1>1, <1>2, <1>5 DEF ConnectionShape, OthersSame, Same, Serving, Idle
  <2>2. TrueAnswer(c)'
    BY <1>1, <1>3, <2>1 DEF ConnectionOK, TrueAnswer, ValidatorOf
  <2>3. ConnectionOK(c)'
    BY <1>2, <1>3, <2>1, <2>2 DEF ConnectionOK, Serving, Idle, ChainsOK
  <2> QED  BY <1>1, <2>1, <2>3, TaskMoves
<1> QED  BY <1>4, <1>5 DEF Dial

LEMMA ValidateKeeps ==
  ASSUME IInv, NEW c \in Connections, pc[c] = "read", Judged(c), Validate(c),
         UNCHANGED <<setup, main, validators, service>>
  PROVE  IInv'
<1>1. /\ ConnectionOK(c) /\ ConnectionShape /\ validators = Wanted
      /\ request[c] \in Requests /\ Idle(c)
  BY IdleTask DEF IInv, Shape, ConnectionOK, Serving
<1>2. program' = program /\ validators' = Wanted' /\ received' = received
  BY <1>1 DEF setup, service, Wanted
<1>3. PICK w \in request[c].walks[ValidatorOf(c)] : walk' = [walk EXCEPT ![c] = w]
  BY DEF Validate
<1>4. w \in Walk
  <2>1. request[c].walks \in [Apis -> SUBSET Walk]
    BY <1>1, ServersAssumption DEF Request
  <2> QED  BY <1>3, <2>1 DEF Judged
<1>5. /\ ConnectionShape' /\ OthersSame(c) /\ pc'[c] = "validating" /\ link'[c] = link[c]
      /\ response'[c] = response[c] /\ request'[c] = request[c] /\ passed'[c] = passed[c]
  BY <1>1, <1>3, <1>4 DEF ConnectionShape, OthersSame, Same, Validate, Serving
<1>6. TrueAnswer(c)' /\ Judged(c)'
  BY <1>1, <1>2, <1>5 DEF ConnectionOK, TrueAnswer, Judged, ValidatorOf
<1>7. ChainsOK(c)'
  BY <1>1, <1>5 DEF Idle, ChainsOK
<1>8. ConnectionOK(c)'
  BY <1>1, <1>2, <1>5, <1>6, <1>7 DEF ConnectionOK, Serving
<1> QED  BY <1>1, <1>5, <1>8, TaskMoves

LEMMA JudgeStep ==
  ASSUME IInv, NEW c \in Connections, Judge(c)
  PROVE  IInv'
<1> DEFINE r == request[c]
<1>1. /\ pc[c] = "read" /\ ConnectionOK(c) /\ program \in Programs
      /\ pc[c] \in Serving /\ Idle(c)
      /\ UNCHANGED <<setup, main, validators, service>>
  BY IdleTask DEF Judge, Polled, IInv, Shape, Serving
<1>2. r \in Requests /\ validators = Wanted /\ (program = "gateway" => ~r.long)
  BY <1>1 DEF ConnectionOK
<1>3. r.prefix \in Apis \cup {NoApi}
  BY <1>2, ServersAssumption DEF Request
<1>4. CASE program = "validation" /\ r.body # "json"
  BY <1>1, <1>4, PanicKeeps DEF Judge
<1>5. CASE ~(program = "validation" /\ r.body # "json") /\ r.body \in {"binary", "broken"}
  <2>1. program = "gateway"
    BY <1>1, <1>5 DEF Programs
  <2>2. Justified(c, "400") /\ "400" \in Status
    BY <1>5, <2>1 DEF Justified, Status
  <2>3. RespondUnread(c, "400") \/ Respond(c, "400")
    BY <1>5 DEF Judge
  <2> QED  BY <1>1, <2>2, <2>3, RespondKeeps, RespondUnreadKeeps
<1>6. CASE ~(program = "validation" /\ r.body # "json") /\ r.body \notin {"binary", "broken"}
  <2>1. CASE ValidatorOf(c) = NoApi
    <3>1. program = "gateway" /\ r.prefix = NoApi
      BY <1>1, <2>1, ServersAssumption DEF ValidatorOf, Programs
    <3>2. Screened(r)
      BY <1>2, <1>6, <3>1 DEF Screened
    <3>3. MoveOn(c, "accepted")
      BY <1>6, <2>1 DEF Judge
    <3> QED  BY <1>1, <3>2, <3>3, AcceptKeeps
  <2>2. CASE ValidatorOf(c) # NoApi
    <3>1. ValidatorOf(c) \in Apis /\ ValidatorOf(c) \in validators
      BY <1>1, <1>2, <1>3, <2>2, ServersAssumption DEF ValidatorOf, Wanted, Programs
    <3>2. Judged(c)
      BY <1>1, <1>6, <3>1 DEF Judged, Programs
    <3>3. Validate(c)
      BY <1>6, <2>2, <3>1 DEF Judge
    <3> QED  BY <1>1, <3>2, <3>3, ValidateKeeps
  <2> QED  BY <2>1, <2>2
<1> QED  BY <1>4, <1>5, <1>6

(* A validation opens an entry, or closes those of a chain. *)
LEMMA WalkStep ==
  ASSUME IInv, NEW c \in Connections, OpenEntry(c) \/ EndChain(c)
  PROVE  IInv'
<1>1. /\ pc[c] = "validating" /\ ConnectionOK(c) /\ ConnectionShape
      /\ UNCHANGED <<setup, main, validators, service>>
      /\ UNCHANGED <<pc, request, link, response, sent>>
      /\ walk[c] # <<>>
  BY DEF OpenEntry, Opening, EndChain, IInv, Shape
<1>2. /\ validators = Wanted /\ request[c] \in Requests /\ Judged(c)
      /\ walk[c] \in Walk /\ passed[c] \in Nat
  BY <1>1 DEF ConnectionOK, ConnectionShape, Serving
<1>3. program' = program /\ validators' = Wanted' /\ received' = received
  BY <1>1, <1>2 DEF setup, service, Wanted
<1>4. /\ walk' \in [Connections -> Walk] /\ passed' \in [Connections -> Nat]
      /\ \A d \in Connections : d # c => walk'[d] = walk[d] /\ passed'[d] = passed[d]
      /\ passed'[c] # 0 => walk'[c] # <<>> /\ passed'[c] <= Len(Head(walk'[c]))
  <2>1. CASE OpenEntry(c)
    <3>1. /\ walk' = walk /\ passed' = [passed EXCEPT ![c] = @ + 1]
          /\ passed[c] < Len(Head(walk[c]))
      BY <2>1 DEF OpenEntry, Opening
    <3>2. Len(Head(walk[c])) \in Nat
      BY <1>1, <1>2 DEF Walk
    <3>3. passed[c] + 1 \in Nat /\ passed[c] + 1 <= Len(Head(walk[c]))
      BY <1>2, <3>1, <3>2
    <3> QED  BY <1>1, <3>1, <3>3 DEF ConnectionShape
  <2>2. CASE EndChain(c)
    <3>1. /\ walk' = [walk EXCEPT ![c] = Tail(@)]
          /\ passed' = [passed EXCEPT ![c] = 0]
      BY <2>2 DEF EndChain
    <3>2. Tail(walk[c]) \in Walk
      BY <1>1, <1>2 DEF Walk
    <3> QED  BY <1>1, <3>1, <3>2 DEF ConnectionShape
  <2> QED  BY <2>1, <2>2
<1>5. ConnectionShape' /\ OthersSame(c)
  BY <1>1, <1>4 DEF ConnectionShape, OthersSame, Same
<1>6. TrueAnswer(c)' /\ Judged(c)' /\ ChainsOK(c)'
  BY <1>1, <1>2, <1>3, <1>4 DEF ConnectionOK, TrueAnswer, Judged, ChainsOK, ValidatorOf
<1>7. ConnectionOK(c)'
  BY <1>1, <1>2, <1>3, <1>6 DEF ConnectionOK, Serving
<1> QED  BY <1>1, <1>5, <1>7, TaskMoves

LEMMA ConcludeStep ==
  ASSUME IInv, NEW c \in Connections, Conclude(c)
  PROVE  IInv'
<1> DEFINE r == request[c]
           v == r.verdict[ValidatorOf(c)]
<1>1. /\ pc[c] = "validating" /\ walk[c] = <<>> /\ ConnectionOK(c)
      /\ program \in Programs /\ pc[c] \in Serving
      /\ UNCHANGED <<setup, main, validators, service>>
  BY DEF Conclude, IInv, Shape, Serving
<1>2. Idle(c) /\ r \in Requests /\ Judged(c) /\ (program = "gateway" => ~r.long)
  BY <1>1 DEF ConnectionOK, ChainsOK, Idle
<1>3. ValidatorOf(c) \in Apis /\ ValidatorOf(c) # NoApi /\ v \in Verdicts
  BY <1>2, ServersAssumption DEF Judged, Request
<1>4. CASE v = "ok" /\ program = "gateway"
  <2>1. Screened(r)
    BY <1>2, <1>4 DEF Screened, Judged, ValidatorOf
  <2>2. MoveOn(c, "accepted")
    BY <1>4 DEF Conclude
  <2> QED  BY <1>1, <1>2, <2>1, <2>2, AcceptKeeps
<1>5. CASE v = "ok" /\ program # "gateway"
  <2>1. Justified(c, "200") /\ "200" \in Status
    BY <1>1, <1>2, <1>5 DEF Justified, Status, Judged, ValidatorOf, Programs
  <2>2. Respond(c, "200")
    BY <1>5 DEF Conclude
  <2> QED  BY <1>1, <1>2, <2>1, <2>2, RespondKeeps
<1>6. CASE v = "error"
  <2>1. Justified(c, "400") /\ "400" \in Status
    BY <1>3, <1>6 DEF Justified, Status
  <2>2. Respond(c, "400")
    BY <1>6 DEF Conclude
  <2> QED  BY <1>1, <1>2, <2>1, <2>2, RespondKeeps
<1>7. CASE v = "panic"
  <2>1. Panic(c)
    BY <1>7 DEF Conclude
  <2> QED  BY <1>1, <1>2, <2>1, PanicKeeps
<1> QED  BY <1>3, <1>4, <1>5, <1>6, <1>7 DEF Verdicts

LEMMA ForwardStep ==
  ASSUME IInv, NEW c \in Connections, Forward(c)
  PROVE  IInv'
<1>1. /\ pc[c] = "accepted" /\ ConnectionOK(c) /\ ConnectionShape
      /\ UNCHANGED <<setup, main, validators, downstream, crashes>>
      /\ pc[c] \in Serving /\ Idle(c)
  BY IdleTask DEF Forward, Polled, IInv, Shape, Serving
<1>2. /\ Screened(request[c]) /\ validators = Wanted
      /\ request[c] \in Requests
  BY <1>1 DEF ConnectionOK
<1>3. CASE /\ link[c] = "up" /\ MoveOn(c, "waiting")
           /\ received' = received \cup {request[c]}
  <2>1. program' = program /\ validators' = Wanted'
    BY <1>1, <1>2 DEF setup, Wanted
  <2>2. /\ ConnectionShape' /\ OthersSame(c) /\ pc'[c] = "waiting"
        /\ link'[c] = link[c] /\ response'[c] = response[c]
        /\ request'[c] = request[c] /\ Idle(c)'
    BY <1>1, <1>2, <1>3, MoveOnEffect DEF Serving, Idle
  <2>3. TrueAnswer(c)'
    BY <1>1, <1>3, <2>1, <2>2 DEF ConnectionOK, TrueAnswer, ValidatorOf
  <2>4. Screened(request[c])'
    BY <1>2, <2>1, <2>2 DEF Screened
  <2>5. ConnectionOK(c)'
    BY <1>1, <1>2, <1>3, <2>1, <2>2, <2>3, <2>4 DEF ConnectionOK, Screened, Serving, Idle, ChainsOK
  <2>6. Shape'
    BY <1>1, <1>2, <1>3, <2>2 DEF IInv, Shape, setup, Wanted
  <2>7. main # "starting"
    BY <1>1 DEF IInv, Ready
  <2> QED
    BY <1>1, <1>2, <1>3, <2>1, <2>2, <2>5, <2>6, <2>7, OneMoves
    DEF IInv, OthersSame, Screened
<1>4. CASE Respond(c, "502") /\ UNCHANGED received
  <2>1. Justified(c, "502") /\ "502" \in Status
    BY DEF Justified, Status
  <2> QED  BY <1>1, <1>4, <2>1, RespondKeeps DEF service
<1> QED  BY <1>3, <1>4 DEF Forward

LEMMA ServiceStep ==
  ASSUME IInv, NEW c \in Connections, LoseService(c) \/ Relay(c) \/ LoseAnswer(c)
  PROVE  IInv'
<1>1. /\ pc[c] \in Serving /\ Idle(c)
      /\ UNCHANGED <<setup, main, validators, service>>
  BY IdleTask DEF LoseService, Relay, LoseAnswer, Polled, Serving, IInv
<1>2. CASE LoseService(c)
  <2>1. Justified(c, "502") /\ "502" \in Status
    BY DEF Justified, Status
  <2> QED  BY <1>1, <1>2, <2>1, RespondKeeps DEF LoseService
<1>3. CASE Relay(c)
  <2>1. pc[c] = "relaying" /\ ConnectionOK(c)
    BY <1>3 DEF Relay, Polled, IInv
  <2>2. Justified(c, "relayed") /\ "relayed" \in Status
    BY <2>1 DEF ConnectionOK, Justified, Status
  <2> QED  BY <1>1, <1>3, <2>2, RespondKeeps DEF Relay
<1>4. CASE LoseAnswer(c)
  BY <1>1, <1>4, PanicKeeps DEF LoseAnswer
<1> QED  BY <1>2, <1>3, <1>4

-----------------------------------------------------------------------------
(* What the clients and the service do, and main. *)

LEMMA ClientStep ==
  ASSUME IInv, NEW c \in Connections,
         FinishBody(c) \/ Leave(c) \/ Answer(c) \/ \E r \in Requests : Send(c, r)
  PROVE  IInv'
<1>1. /\ ConnectionOK(c) /\ ConnectionShape
      /\ UNCHANGED <<setup, main, validators, service>>
      /\ pc[c] \notin {"none", "validating"}
  BY DEF IInv, Shape, FinishBody, Leave, Answer, Send, Serving
<1>2. validators = Wanted /\ Idle(c)
  BY IdleTask, <1>1 DEF ConnectionOK
<1>3. program' = program /\ validators' = Wanted' /\ received' = received
  BY <1>1, <1>2 DEF setup, service, Wanted
<1>4. CASE FinishBody(c) \/ Leave(c) \/ Answer(c)
  <2>1. /\ ConnectionShape' /\ OthersSame(c) /\ response'[c] = response[c]
        /\ request'[c] = request[c] /\ Idle(c)'
        /\ \/ pc[c] = "reading" /\ pc'[c] = "read" /\ link'[c] = link[c]
           \/ pc'[c] = "left" /\ link'[c] = "none"
           \/ pc[c] = "waiting" /\ pc'[c] = "relaying" /\ link'[c] = link[c]
    BY <1>1, <1>2, <1>4
    DEF ConnectionShape, OthersSame, Same, FinishBody, Leave, Answer, Closed, Serving, Idle
  <2>2. TrueAnswer(c)'
    BY <1>1, <1>3, <2>1 DEF ConnectionOK, TrueAnswer, ValidatorOf
  <2>3. Screened(request[c]) => Screened(request[c])'
    BY <1>3, <2>1 DEF Screened
  <2>4. ConnectionOK(c)'
    BY <1>1, <1>3, <2>1, <2>2, <2>3 DEF ConnectionOK, Serving, Idle, ChainsOK
  <2> QED  BY <1>1, <2>1, <2>4, TaskMoves
<1>5. CASE \E r \in Requests : Send(c, r)
  <2>1. PICK r \in Requests : Send(c, r)
    BY <1>5
  <2>2. sent + 1 \in 0 .. MaxRequests
    BY <1>1, <2>1, ServersAssumption DEF Send, ConnectionShape
  <2>3. /\ ConnectionShape' /\ OthersSame(c) /\ pc'[c] = "sent" /\ link'[c] = link[c]
        /\ response'[c] = "none" /\ request'[c] = r /\ Idle(c)'
    BY <1>1, <1>2, <2>1, <2>2 DEF ConnectionShape, OthersSame, Same, Send, Serving, Status, Idle
  <2>4. link[c] = "none"
    BY <1>1, <2>1 DEF ConnectionOK, Send, Serving
  <2>5. ConnectionOK(c)'
    BY <1>3, <2>1, <2>3, <2>4 DEF ConnectionOK, TrueAnswer, Serving, Idle, ChainsOK
  <2> QED  BY <1>1, <2>3, <2>5, TaskMoves
<1> QED  BY <1>4, <1>5

LEMMA AcceptStep ==
  ASSUME IInv, NEW c \in Connections, Accept(c)
  PROVE  IInv'
<1>1. /\ ConnectionOK(c) /\ ConnectionShape /\ main = "accepting"
      /\ UNCHANGED <<setup, main, validators, service>>
      /\ pc[c] \in Closed /\ validators = Wanted
  BY DEF IInv, Shape, Accept, Ready
<1>2. program' = program /\ validators' = Wanted' /\ received' = received
  BY <1>1 DEF setup, service, Wanted
<1>3. link[c] = "none" /\ Idle(c)
  BY IdleTask, <1>1 DEF ConnectionOK, Closed, Serving
<1>4. /\ ConnectionShape' /\ OthersSame(c) /\ response'[c] = response[c]
      /\ request'[c] = request[c] /\ Idle(c)'
      /\ pc'[c] = "open" /\ link'[c] = "none"
  BY <1>1, <1>3 DEF ConnectionShape, OthersSame, Same, Accept, Idle
<1>5. TrueAnswer(c)'
  BY <1>1, <1>2, <1>4 DEF ConnectionOK, TrueAnswer, ValidatorOf
<1>6. ConnectionOK(c)'
  BY <1>2, <1>4, <1>5 DEF ConnectionOK, Serving, Idle, ChainsOK
<1>7. Shape'
  BY <1>1, <1>4 DEF IInv, Shape, setup, service, Wanted
<1> QED  BY <1>1, <1>3, <1>4, <1>6, <1>7, OneMoves DEF IInv, OthersSame, setup, service

LEMMA StartStep ==
  ASSUME IInv, Start
  PROVE  IInv'
<1>1. /\ main = "starting" /\ validators # Wanted /\ validators \subseteq Wanted
      /\ UNCHANGED <<setup, connection, service>>
      /\ \A c \in Connections : pc[c] = "none"
  BY DEF IInv, Shape, Ready, Start
<1>2. NextApi \in Wanted
  <2>1. First \in Wanted /\ \E a \in Wanted : a \notin validators
    BY <1>1, ServersAssumption DEF Wanted
  <2> QED  BY <2>1 DEF NextApi
<1>3. Wanted' = Wanted /\ program' = program
  BY <1>1 DEF Wanted, setup
<1>4. /\ validators' \subseteq Wanted
      /\ main' \in {"starting", "accepting", "ended"}
      /\ main' = "starting" => validators' # Wanted
      /\ main' = "accepting" => validators' = Wanted
  BY <1>1, <1>2 DEF Start, Started
<1>5. Shape' /\ Ready'
  BY <1>1, <1>3, <1>4
  DEF IInv, Shape, ConnectionShape, Ready, setup, connection, service
<1>6. ASSUME NEW c \in Connections  PROVE ConnectionOK(c)'
  <2>1. ConnectionOK(c) /\ pc[c] = "none"
    BY <1>1 DEF IInv
  <2>2. TrueAnswer(c)'
    BY <1>1, <1>3, <2>1
    DEF ConnectionOK, TrueAnswer, ValidatorOf, setup, connection, service
  <2>3. link[c] = "none" /\ Idle(c)
    BY IdleTask, <2>1 DEF ConnectionOK, Serving
  <2> QED  BY <1>1, <2>1, <2>2, <2>3 DEF ConnectionOK, Serving, connection, Idle, ChainsOK
<1>7. \A r \in received' : Screened(r)'
  BY <1>1 DEF IInv, Screened, setup, service
<1> QED  BY <1>5, <1>6, <1>7 DEF IInv

(* main ends, and the tasks that are dropped then. *)
LEMMA AcceptFailsStep ==
  ASSUME IInv, AcceptFails
  PROVE  IInv'
<1>1. /\ main = "accepting" /\ main' = "ended" /\ validators' = validators
      /\ UNCHANGED <<setup, connection, service>>
  BY DEF AcceptFails
<1>2. Shape' /\ Ready'
  BY <1>1
  DEF IInv, Shape, ConnectionShape, Ready, Wanted, setup, connection, service
<1>3. \A c \in Connections : ConnectionOK(c)'
  BY <1>1, ConnectionFrame DEF IInv, Same, setup, connection, service
<1>4. \A r \in received' : Screened(r)'
  BY <1>1 DEF IInv, Screened, setup, service
<1> QED  BY <1>2, <1>3, <1>4 DEF IInv

LEMMA DropStep ==
  ASSUME IInv, NEW c \in Connections, Drop(c)
  PROVE  IInv'
<1>1. /\ ConnectionOK(c) /\ ConnectionShape
      /\ UNCHANGED <<setup, main, validators, service>>
      /\ pc[c] \notin {"none", "validating"}
  BY DEF IInv, Shape, Drop, Closed
<1>2. validators = Wanted /\ Idle(c)
  BY <1>1, IdleTask DEF ConnectionOK
<1>3. program' = program /\ validators' = Wanted' /\ received' = received
  BY <1>1, <1>2 DEF setup, service, Wanted
<1>4. /\ ConnectionShape' /\ OthersSame(c) /\ pc'[c] = "lost" /\ link'[c] = "none"
      /\ response'[c] = response[c] /\ request'[c] = request[c]
      /\ walk'[c] = walk[c] /\ passed'[c] = passed[c]
  BY <1>1 DEF ConnectionShape, OthersSame, Same, Drop, Closed
<1>5. TrueAnswer(c)' /\ ChainsOK(c)'
  BY <1>1, <1>2, <1>3, <1>4
  DEF ConnectionOK, TrueAnswer, ValidatorOf, Idle, ChainsOK
<1>6. ConnectionOK(c)'
  BY <1>3, <1>4, <1>5 DEF ConnectionOK, Serving
<1> QED  BY <1>1, <1>4, <1>6, TaskMoves

LEMMA DownstreamStep ==
  ASSUME IInv, Crash \/ Restart
  PROVE  IInv'
<1>1. /\ UNCHANGED <<setup, main, validators, pc, request, response, walk, passed, sent, received>>
      /\ ConnectionShape
  BY DEF IInv, Shape, Crash, Restart, connection
<1>2. Wanted' = Wanted /\ program' = program
  BY <1>1 DEF Wanted, setup
<1>3. /\ link' \in [Connections -> {"none", "up", "broken"}]
      /\ \A c \in Connections : link'[c] = "none" <=> link[c] = "none"
  BY <1>1 DEF Crash, Restart, ConnectionShape, connection
<1>4. downstream' \in {"up", "down"} /\ crashes' \in 0 .. MaxCrashes
  BY ServersAssumption DEF IInv, Shape, Crash, Restart
<1>5. Shape' /\ Ready'
  BY <1>1, <1>2, <1>3, <1>4 DEF IInv, Shape, ConnectionShape, Ready, setup
<1>6. ASSUME NEW c \in Connections  PROVE ConnectionOK(c)'
  <2>1. ConnectionOK(c)
    BY DEF IInv
  <2>2. TrueAnswer(c)'
    BY <1>1, <1>2, <2>1 DEF ConnectionOK, TrueAnswer, ValidatorOf
  <2>3. Screened(request[c]) => Screened(request[c])'
    BY <1>1, <1>2 DEF Screened
  <2>4. ChainsOK(c)' /\ (Judged(c) => Judged(c)')
    BY <1>1, <1>2, <2>1 DEF ConnectionOK, ChainsOK, Judged, ValidatorOf
  <2> QED  BY <1>1, <1>2, <1>3, <2>1, <2>2, <2>3, <2>4 DEF ConnectionOK
<1>7. \A r \in received' : Screened(r)'
  BY <1>1, <1>2 DEF IInv, Screened
<1> QED  BY <1>5, <1>6, <1>7 DEF IInv

-----------------------------------------------------------------------------
(* The invariant IInv: the shape of the state, validators before accepted  *)
(* connections, and for each connection what its task has established of   *)
(* the request it serves (ConnectionOK).                                   *)
THEOREM Invariance == Spec => []IInv
<1>1. Init => IInv
  <2> SUFFICES ASSUME Init  PROVE IInv
    OBVIOUS
  <2>1. Shape
    BY ServersAssumption DEF Init, Shape, ConnectionShape, Closed, Status, Walk
  <2>2. Ready
    BY ServersAssumption DEF Init, Ready, Wanted
  <2>3. \A c \in Connections : ConnectionOK(c)
    BY DEF Init, ConnectionOK, TrueAnswer, Serving, Idle, ChainsOK
  <2> QED  BY <2>1, <2>2, <2>3 DEF Init, IInv
<1>2. IInv /\ [Next]_vars => IInv'
  <2> SUFFICES ASSUME IInv, [Next]_vars  PROVE IInv'
    OBVIOUS
  <2>1. CASE Start \/ AcceptFails \/ Crash \/ Restart
    BY <2>1, StartStep, AcceptFailsStep, DownstreamStep
  <2>2. ASSUME NEW c \in Connections, Accept(c)  PROVE IInv'
    BY <2>2, AcceptStep
  <2>3. ASSUME NEW c \in Connections,
               FinishBody(c) \/ Leave(c) \/ Answer(c) \/ \E r \in Requests : Send(c, r)
        PROVE  IInv'
    BY <2>3, ClientStep
  <2>4. ASSUME NEW c \in Connections, Relay(c) \/ Poll(c)  PROVE IInv'
    BY <2>4, ReceiveStep, DialStep, JudgeStep, WalkStep, ConcludeStep, ForwardStep,
       ServiceStep DEF Poll
  <2>5. ASSUME NEW c \in Connections, Drop(c)  PROVE IInv'
    BY <2>5, DropStep
  <2>6. CASE UNCHANGED vars
    <3>1. Shape' /\ Ready'
      BY <2>6
      DEF IInv, Shape, ConnectionShape, Ready, Wanted, vars, setup, connection, service
    <3>2. \A c \in Connections : ConnectionOK(c)'
      BY <2>6, ConnectionFrame DEF IInv, Same, vars, setup, connection, service
    <3>3. \A r \in received' : Screened(r)'
      BY <2>6 DEF IInv, Screened, vars, setup, service
    <3> QED  BY <3>1, <3>2, <3>3 DEF IInv
  <2> QED  BY <2>1, <2>2, <2>3, <2>4, <2>5, <2>6 DEF Next
<1> QED  BY <1>1, <1>2, PTL DEF Spec

(* A connection to the service belongs to a request that is being served,  *)
(* and main accepts no connection without its validators.                  *)
THEOREM TypeCorrect == Spec => []TypeOK
BY Invariance, Implied, PTL

(* Only what its own validator accepts is forwarded (main.rs:119).         *)
THEOREM ForwardedIsAccepted == Spec => []ForwardedWasAccepted
BY Invariance, Implied, PTL

(* An answer means what its status says, and is never a 500.               *)
THEOREM AnswersCorrect == Spec => []AnswersAreTrue
BY Invariance, Implied, PTL

(* Among the stuck validations of a document each awaits a shard that one  *)
(* of them keeps, and which that one took before the shard it awaits: of   *)
(* the shards they await none comes last.                                  *)
LEMMA StuckCause == IInv => StuckHasCause
<1> SUFFICES ASSUME IInv, NEW c \in Stuck
             PROVE  ~InOrder({Head(walk[d]) : d \in {e \in Stuck : ValidatorOf(e) = ValidatorOf(c)}})
  BY DEF StuckHasCause
<1> DEFINE group == {d \in Stuck : ValidatorOf(d) = ValidatorOf(c)}
           chains == {Head(walk[d]) : d \in group}
           T == {NextShard(d) : d \in group}
<1>1. \A d \in Stuck : /\ d \in Connections /\ Opening(d)
                       /\ \E e \in Awaited(d) : e \in Stuck \/ pc[e] # "validating"
  BY DEF Stuck
<1>2. \A d \in Connections : pc[d] # "validating" => Held(d) = {}
  <2> SUFFICES ASSUME NEW d \in Connections, pc[d] # "validating"  PROVE Held(d) = {}
    OBVIOUS
  <2>1. passed[d] = 0
    BY IdleTask DEF IInv, Idle
  <2> QED  BY <2>1 DEF Held
<1>3. ASSUME NEW d \in group
      PROVE  \E e \in group : Precedes(chains, NextShard(d), NextShard(e))
  <2>1. PICK e \in Awaited(d) : e \in Stuck \/ pc[e] # "validating"
    BY <1>1, <1>3
  <2>2. /\ e \in Connections /\ NextShard(d) \in Held(e)
        /\ ValidatorOf(e) = ValidatorOf(d)
    BY <2>1 DEF Awaited
  <2>3. e \in group
    BY <1>2, <2>1, <2>2
  <2>4. PICK i \in 1 .. passed[e] : Head(walk[e])[i] = NextShard(d)
    BY <2>2 DEF Held
  <2>5. /\ passed[e] \in Nat /\ walk[e] \in Walk /\ walk[e] # <<>>
        /\ passed[e] < Len(Head(walk[e]))
    BY <1>1, <2>2, <2>3 DEF Opening, IInv, Shape, ConnectionShape
  <2>6. Len(Head(walk[e])) \in Nat
    BY <2>5 DEF Walk
  <2>7. /\ i \in 1 .. Len(Head(walk[e])) /\ i < passed[e] + 1
        /\ passed[e] + 1 \in 1 .. Len(Head(walk[e]))
    BY <2>5, <2>6
  <2>8. Head(walk[e]) \in chains
    BY <2>3
  <2>9. Precedes(chains, NextShard(d), NextShard(e))
    BY <2>4, <2>7, <2>8 DEF Precedes, NextShard
  <2> QED  BY <2>3, <2>9
<1>4. T \in (SUBSET Shards) \ {{}}
  <2>1. c \in group
    OBVIOUS
  <2>2. ASSUME NEW d \in group  PROVE NextShard(d) \in Shards
    <3>1. /\ passed[d] \in Nat /\ walk[d] \in Walk /\ walk[d] # <<>>
          /\ passed[d] < Len(Head(walk[d]))
      BY <1>1 DEF Opening, IInv, Shape, ConnectionShape
    <3>2. Head(walk[d]) \in Seq(Shards)
      BY <3>1 DEF Walk
    <3>3. passed[d] + 1 \in 1 .. Len(Head(walk[d]))
      BY <3>1, <3>2
    <3> QED  BY <3>2, <3>3 DEF NextShard
  <2> QED  BY <2>1, <2>2
<1>5. \A s \in T : \E t \in T : Precedes(chains, s, t)
  BY <1>3
<1>6. ~InOrder(chains)
  BY <1>4, <1>5 DEF InOrder
<1> QED  BY <1>6

(* Validations that are stuck together take the shards of the one table of *)
(* their document in no common order: nothing else keeps one.              *)
THEOREM StuckCorrect == Spec => []StuckHasCause
BY Invariance, StuckCause, PTL

(* The start and the end of a validation move its own task alone, and lose *)
(* the connection only on a panic.                                         *)
LEMMA ValidationMoves ==
  ASSUME IInv, NEW c \in Connections, Judge(c) \/ Conclude(c)
  PROVE  \/ /\ Panic(c)
            /\ \/ /\ pc[c] = "read" /\ program = "validation"
                  /\ request[c].body # "json"
               \/ /\ pc[c] = "validating"
                  /\ request[c].verdict[ValidatorOf(c)] = "panic"
         \/ \E place \in {"open", "none", "accepted", "validating"} :
              pc' = [pc EXCEPT ![c] = place]
<1> DEFINE Moves == \E place \in {"open", "none", "accepted", "validating"} :
                      pc' = [pc EXCEPT ![c] = place]
           v == request[c].verdict[ValidatorOf(c)]
<1>1. /\ \A status : Respond(c, status) => Moves
      /\ \A status : RespondUnread(c, status) => Moves
      /\ MoveOn(c, "accepted") => Moves
      /\ Validate(c) => Moves
  BY DEF Respond, RespondUnread, MoveOn, Validate
<1>2. CASE Judge(c)
  <2>1. CASE program = "validation" /\ request[c].body # "json"
    BY <1>2, <2>1 DEF Judge, Polled
  <2>2. CASE ~(program = "validation" /\ request[c].body # "json")
    BY <1>1, <1>2, <2>2 DEF Judge
  <2> QED  BY <2>1, <2>2
<1>3. CASE Conclude(c)
  <2>1. pc[c] = "validating" /\ v \in Verdicts
    <3>1. pc[c] = "validating" /\ request[c] \in Requests /\ Judged(c)
      BY <1>3 DEF Conclude, IInv, ConnectionOK, Serving
    <3>2. request[c].verdict \in [Apis -> Verdicts]
      BY <3>1, ServersAssumption DEF Request
    <3> QED  BY <3>1, <3>2 DEF Judged
  <2>2. CASE v = "ok" \/ v = "error"
    BY <1>1, <1>3, <2>2 DEF Conclude
  <2>3. CASE v = "panic"
    BY <1>3, <2>1, <2>3 DEF Conclude
  <2> QED  BY <2>1, <2>2, <2>3 DEF Verdicts
<1> QED  BY <1>2, <1>3

(* A request is lost for one of the four reasons of LostOnlyThen.          *)
THEOREM LossesKnown == Spec => LostOnlyThen
<1> DEFINE Excused(c) ==
      \/ main = "ended"
      \/ pc[c] = "read" /\ program = "validation" /\ request[c].body # "json"
      \/ pc[c] = "validating" /\ request[c].verdict[ValidatorOf(c)] = "panic"
      \/ pc[c] = "relaying" /\ link[c] = "broken"
<1>1. IInv /\ [Next]_vars =>
        [\A c \in Connections :
           pc[c] \in Serving /\ pc'[c] = "lost" => Excused(c)]_vars
  <2> SUFFICES ASSUME IInv, Next,
                      NEW c \in Connections, pc[c] \in Serving, pc'[c] = "lost"
               PROVE  Excused(c)
    OBVIOUS
  <2>1. pc[c] # "lost" /\ ConnectionShape /\ ConnectionOK(c)
    BY DEF Serving, IInv, Shape
  <2>2. ASSUME NEW d \in Connections, Drop(d)  PROVE Excused(c)
    BY <2>2 DEF Drop
  <2>3. CASE Start \/ AcceptFails \/ Crash \/ Restart
    BY <2>1, <2>3 DEF Start, AcceptFails, Crash, Restart, connection
  <2>4. ASSUME NEW d \in Connections,
               \/ Accept(d) \/ FinishBody(d) \/ Leave(d) \/ Answer(d)
               \/ \E r \in Requests : Send(d, r)
        PROVE  FALSE
    BY <2>1, <2>4
    DEF Accept, FinishBody, Leave, Answer, Send, ConnectionShape
  <2>5. ASSUME NEW d \in Connections,
               \/ Receive(d) \/ Dial(d) \/ Forward(d) \/ LoseService(d) \/ Relay(d)
               \/ OpenEntry(d) \/ EndChain(d)
        PROVE  FALSE
    BY <2>1, <2>5
    DEF Receive, Dial, Forward, LoseService, Relay, OpenEntry, EndChain,
        Respond, RespondUnread, MoveOn, ConnectionShape
  <2>6. ASSUME NEW d \in Connections, LoseAnswer(d)  PROVE Excused(c)
    <3>1. d = c
      BY <2>1, <2>6 DEF LoseAnswer, Panic, ConnectionShape
    <3> QED  BY <2>6, <3>1 DEF LoseAnswer, Polled
  <2>7. ASSUME NEW d \in Connections, Judge(d) \/ Conclude(d)  PROVE Excused(c)
    <3>1. d = c
      BY <2>1, <2>7, ValidationMoves DEF Panic, ConnectionShape
    <3> QED  BY <2>1, <2>7, <3>1, ValidationMoves DEF ConnectionShape
  <2> QED  BY <2>2, <2>3, <2>4, <2>5, <2>6, <2>7 DEF Next, Poll
<1> QED  BY Invariance, <1>1, PTL DEF Spec, LostOnlyThen
==============================================================================
