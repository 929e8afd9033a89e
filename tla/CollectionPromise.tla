-------------------------- MODULE CollectionPromise --------------------------
(***************************************************************************)
(* What a ValidatorCollection promises the tasks that share it, without    *)
(* shards and locks.  A call on one id takes effect in a single step       *)
(* between its start and its reply.  `clear` removes every validator that  *)
(* was there when it was called, in any number of steps, and `len` returns *)
(* a number between the ids that were there all the time it ran and those  *)
(* that were there some of that time.                                      *)
(***************************************************************************)
EXTENDS Naturals, FiniteSets

CONSTANTS
  Threads,     \* callers
  Ids,         \* ids of validators
  MaxCalls,    \* bound: calls a caller makes
  NoValidator  \* no validator in a reply

VARIABLES
  cache,   \* partial function from Ids to validators
  request, \* what each caller is waiting for: an operation and an id
  reply,   \* the last reply to each caller
  calls,   \* calls each caller has made
  doomed,  \* validators that were there when a caller last called clear
  always,  \* ids that were there ever since a waiting caller called len
  ever     \* ids that were there at some time since then

vars == <<cache, request, reply, calls, doomed, always, ever>>

Operations ==
  {"insert", "insert_from_file_path", "get", "remove", "contains", "len", "clear"}
(* A validator is named by the caller that made it and that caller's call. *)
Validators == Threads \X (1 .. MaxCalls)

Present == DOMAIN cache
Idle == [op |-> "none"]
Asks(t) == request[t].op
Id(t) == request[t].id

Init ==
  /\ cache = [k \in {} |-> NoValidator]
  /\ request = [t \in Threads |-> Idle]
  /\ reply = [t \in Threads |->
                [outcome |-> "none", validator |-> NoValidator, count |-> 0]]
  /\ calls = [t \in Threads |-> 0]
  /\ doomed = [t \in Threads |-> {}]
  /\ always = [t \in Threads |-> {}]
  /\ ever = [t \in Threads |-> {}]

(* What the callers of len that wait while the cache changes get to see. *)
Observe ==
  /\ always' = [t \in Threads |->
                  IF request'[t].op = "len" THEN always[t] \cap DOMAIN cache' ELSE {}]
  /\ ever' = [t \in Threads |->
                IF request'[t].op = "len" THEN ever[t] \cup DOMAIN cache' ELSE {}]

Ask(t, op, k) ==
  /\ Asks(t) = "none"
  /\ calls[t] < MaxCalls
  /\ calls' = [calls EXCEPT ![t] = @ + 1]
  /\ request' = [request EXCEPT ![t] = [op |-> op, id |-> k]]
  /\ doomed' = [doomed EXCEPT ![t] =
                  IF op = "clear" THEN {cache[q] : q \in Present} ELSE {}]
  /\ always' = [always EXCEPT ![t] = IF op = "len" THEN Present ELSE {}]
  /\ ever' = [ever EXCEPT ![t] = IF op = "len" THEN Present ELSE {}]
  /\ UNCHANGED <<cache, reply>>

Reply(t, outcome, v, n) ==
  /\ reply' = [reply EXCEPT ![t] =
                 [outcome |-> outcome, validator |-> v, count |-> n]]
  /\ request' = [request EXCEPT ![t] = Idle]
  /\ UNCHANGED <<calls, doomed>>

(* An id is taken by at most one validator; a construction may fail. *)
Insert(t) ==
  /\ Asks(t) \in {"insert", "insert_from_file_path"}
  /\ \/ /\ Id(t) \notin Present
        /\ cache' = [q \in Present \cup {Id(t)} |->
                       IF q = Id(t) THEN <<t, calls[t]>> ELSE cache[q]]
        /\ Reply(t, "inserted", <<t, calls[t]>>, 0)
     \/ /\ Id(t) \in Present
        /\ Reply(t, "already exists", NoValidator, 0)
        /\ UNCHANGED cache
     \/ /\ Id(t) \notin Present
        /\ \E outcome \in {"failed to create", "panic"} :
             Reply(t, outcome, NoValidator, 0)
        /\ UNCHANGED cache
     \/ /\ Asks(t) = "insert_from_file_path"
        /\ Reply(t, "io error", NoValidator, 0)
        /\ UNCHANGED cache
  /\ Observe

Get(t) ==
  /\ Asks(t) = "get"
  /\ IF Id(t) \in Present
     THEN Reply(t, "found", cache[Id(t)], 0)
     ELSE Reply(t, "not found", NoValidator, 0)
  /\ UNCHANGED cache
  /\ Observe

Remove(t) ==
  /\ Asks(t) = "remove"
  /\ cache' = [q \in Present \ {Id(t)} |-> cache[q]]
  /\ Reply(t, IF Id(t) \in Present THEN "removed" ELSE "not found",
           NoValidator, 0)
  /\ Observe

Contains(t) ==
  /\ Asks(t) = "contains"
  /\ Reply(t, IF Id(t) \in Present THEN "yes" ELSE "no", NoValidator, 0)
  /\ UNCHANGED cache
  /\ Observe

Len(t) ==
  /\ Asks(t) = "len"
  /\ \E n \in Cardinality(always[t]) .. Cardinality(ever[t]) :
       Reply(t, "len", NoValidator, n)
  /\ UNCHANGED cache
  /\ Observe

(* A call of clear removes ids, and ends when none it met is left. *)
Sweep(t) ==
  /\ Asks(t) = "clear"
  /\ \E S \in SUBSET Present : cache' = [q \in Present \ S |-> cache[q]]
  /\ \/ UNCHANGED <<request, reply, calls, doomed>>
     \/ /\ \A q \in DOMAIN cache' : cache'[q] \notin doomed[t]
        /\ Reply(t, "cleared", NoValidator, 0)
  /\ Observe

Next ==
  \E t \in Threads :
    \/ \E op \in Operations, k \in Ids : Ask(t, op, k)
    \/ Insert(t) \/ Get(t) \/ Remove(t) \/ Contains(t) \/ Len(t) \/ Sweep(t)

Spec == Init /\ [][Next]_vars
==============================================================================
