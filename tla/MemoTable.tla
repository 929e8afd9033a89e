------------------------------ MODULE MemoTable ------------------------------
(***************************************************************************)
(* What the memo table of resolved $ref nodes promises its callers, without*)
(* shards, locks or resolvers: every question about a node gets one reply, *)
(* right for the document, but that get_optional may have None for a $ref  *)
(* to nothing; and the table gains one $ref at a time, from the far end of *)
(* a chain, each with a value it leads to, and only while somebody asks.   *)
(***************************************************************************)
EXTENDS ReferenceGraph, Naturals

CONSTANTS
  Threads,  \* callers
  MaxCalls, \* bound: questions a caller asks
  NoCall    \* request of a caller that waits for no reply

VARIABLES
  specification, \* the document
  memo,          \* partial function from Refs to [val : Values, by : Threads]
  request,       \* the question each caller is asking
  reply,         \* the last reply of each caller
  calls          \* questions each caller has asked

vars == <<specification, memo, request, reply, calls>>

Init ==
  /\ specification \in Documents
  /\ memo = [r \in {} |-> NoCall]
  /\ request = [t \in Threads |-> NoCall]
  /\ reply = [t \in Threads |-> "pending"]
  /\ calls = [t \in Threads |-> 0]

Ask(t, accessor, n) ==
  /\ request[t] = NoCall
  /\ calls[t] < MaxCalls
  /\ calls' = [calls EXCEPT ![t] = @ + 1]
  /\ request' = [request EXCEPT ![t] = [accessor |-> accessor, node |-> n]]
  /\ reply' = [reply EXCEPT ![t] = "pending"]
  /\ UNCHANGED <<specification, memo>>

(* A new $ref shares the Arc of the $ref it points at, or gets a fresh one. *)
Memoize(r) ==
  /\ r \notin DOMAIN memo
  /\ \E t \in Threads : request[t] # NoCall
  /\ \E arc \in [val : Values, by : Threads] :
       /\ \/ specification[r] = arc.val
          \/ specification[r] \in DOMAIN memo /\ memo[specification[r]] = arc
       /\ memo' = [q \in DOMAIN memo \cup {r} |->
                     IF q = r THEN arc ELSE memo[q]]
  /\ UNCHANGED <<specification, request, reply, calls>>

Reply(t) ==
  /\ request[t] # NoCall
  /\ request' = [request EXCEPT ![t] = NoCall]
  /\ \E a \in Answers :
       /\ \/ CorrectAnswer(specification, request[t].accessor, request[t].node, a)
          \/ DanglingIsNone(specification, request[t].accessor, request[t].node, a)
       /\ reply' = [reply EXCEPT ![t] = a]
  /\ UNCHANGED <<specification, memo, calls>>

Next ==
  \/ \E t \in Threads :
       \/ \E accessor \in Accessors, n \in Nodes : Ask(t, accessor, n)
       \/ Reply(t)
  \/ \E r \in Refs : Memoize(r)

Spec == Init /\ [][Next]_vars
==============================================================================
