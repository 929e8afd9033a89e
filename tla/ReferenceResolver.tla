-------------------------- MODULE ReferenceResolver --------------------------
(***************************************************************************)
(* The $ref resolution of OpenApiTraverser (src/src/traverser.rs): the     *)
(* accessors get_required and get_optional, resolve_possible_ref,          *)
(* get_reference_path, and the memo table that resolve_with_cache keeps in *)
(* the DashMap `resolved_references`.                                      *)
(*                                                                         *)
(* One traverser is shared by many threads (the validators live in Arcs).  *)
(* A DashMap is split into shards, each behind one lock that is not        *)
(* reentrant; DashMap::entry returns holding the write lock of the key's   *)
(* shard, and resolve_with_cache keeps that entry alive while it runs the  *)
(* resolver.  The resolver follows one pointer and calls                   *)
(* resolve_possible_ref on what it finds, so a thread that follows a chain *)
(* of $ref nodes holds a stack of open entries.                            *)
(***************************************************************************)
EXTENDS ReferenceGraph, Naturals, SequencesExt

CONSTANTS
  Threads,    \* threads that share the traverser
  Shards,     \* shards of the DashMap
  MaxCalls,   \* bound: accessor calls a thread makes
  NoThread,   \* holder of a free shard
  NoCall,     \* call of a thread that has made none
  Missing,    \* Err(MissingField(ref_string))
  Pending     \* no result yet

(***************************************************************************)
(* An Arc<Value>: the node it holds and the thread that allocated it.  Two *)
(* Arcs made by different threads are different allocations.               *)
(***************************************************************************)
Arc == [val : Values, by : Threads]
Call == [accessor : Accessors, node : Nodes]

ASSUME ResolverAssumption ==
  /\ NoThread \notin Threads
  /\ NoCall \notin Call
  /\ Missing \notin Arc
  /\ Pending \notin Arc
  /\ Missing # Pending
  /\ MaxCalls \in Nat

VARIABLES
  specification,       \* what the JSON pointer of each $ref string points at
  shardOf,             \* shard each key hashes to in this DashMap
  resolved_references, \* the memo table: partial function from Refs to Arc
  holder,              \* thread that holds the write lock of each shard
  pc,                  \* where each thread is
  stack,               \* $ref strings a thread is resolving, innermost last
  call,                \* the accessor call of each thread
  ret,                 \* what the innermost resolve_possible_ref returned
  answer,              \* what the accessor returned to its caller
  calls                \* accessor calls each thread has made

document == <<specification, shardOf>>
table == <<resolved_references, holder>>
threadState == <<pc, stack, call, ret, answer, calls>>
vars == <<document, table, threadState>>

(***************************************************************************)
(* OpenApiTraverser::new: an empty memo table over a document that nothing *)
(* changes afterwards.  Any document, any hash of its keys.                *)
(***************************************************************************)
Init ==
  /\ specification \in Documents
  /\ shardOf \in [Refs -> Shards]
  /\ resolved_references = [r \in {} |-> Pending]
  /\ holder = [s \in Shards |-> NoThread]
  /\ pc = [t \in Threads |-> "idle"]
  /\ stack = [t \in Threads |-> <<>>]
  /\ call = [t \in Threads |-> NoCall]
  /\ ret = [t \in Threads |-> Pending]
  /\ answer = [t \in Threads |-> "pending"]
  /\ calls = [t \in Threads |-> 0]

-----------------------------------------------------------------------------
Top(t) == Last(stack[t])
TopShard(t) == shardOf[Top(t)]

(***************************************************************************)
(* A caller asks for a field of node n.  resolve_possible_ref hands a node *)
(* that is not a $ref back at once; a $ref goes through the memo table.    *)
(***************************************************************************)
Access(t, accessor, n) ==
  /\ pc[t] = "idle"
  /\ calls[t] < MaxCalls
  /\ calls' = [calls EXCEPT ![t] = @ + 1]
  /\ call' = [call EXCEPT ![t] = [accessor |-> accessor, node |-> n]]
  /\ answer' = [answer EXCEPT ![t] = "pending"]
  /\ \/ /\ n \in Refs
        /\ pc' = [pc EXCEPT ![t] = "entry"]
        /\ stack' = [stack EXCEPT ![t] = <<n>>]
        /\ ret' = [ret EXCEPT ![t] = Pending]
     \/ /\ n \in Values
        /\ pc' = [pc EXCEPT ![t] = "return"]
        /\ ret' = [ret EXCEPT ![t] = [val |-> n, by |-> t]]
        /\ UNCHANGED stack
  /\ UNCHANGED <<document, table>>

(***************************************************************************)
(* resolve_with_cache, Entry::Occupied: the Arc is cloned and the entry    *)
(* dropped; the enclosing resolver gets the same Arc.                      *)
(***************************************************************************)
EntryOccupied(t) ==
  /\ pc[t] = "entry"
  /\ holder[TopShard(t)] = NoThread
  /\ Top(t) \in DOMAIN resolved_references
  /\ ret' = [ret EXCEPT ![t] = resolved_references[Top(t)]]
  /\ stack' = [stack EXCEPT ![t] = Front(@)]
  /\ pc' = [pc EXCEPT ![t] = "return"]
  /\ UNCHANGED <<document, table, call, answer, calls>>

(* Fault: the table is looked up first and written later, as get and insert. *)
EntryVacantUnlocked(t) ==
  /\ pc[t] = "entry"
  /\ holder[TopShard(t)] = NoThread
  /\ Top(t) \notin DOMAIN resolved_references
  /\ pc' = [pc EXCEPT ![t] = "resolver"]
  /\ UNCHANGED <<document, table, stack, call, ret, answer, calls>>

(***************************************************************************)
(* resolve_with_cache, Entry::Vacant: the entry, and with it the write     *)
(* lock of the shard, stays open while the resolver runs.                  *)
(***************************************************************************)
EntryVacant(t) ==
  /\ pc[t] = "entry"
  /\ holder[TopShard(t)] = NoThread
  /\ Top(t) \notin DOMAIN resolved_references
  /\ holder' = [holder EXCEPT ![TopShard(t)] = t]
  /\ pc' = [pc EXCEPT ![t] = "resolver"]
  /\ UNCHANGED <<document, resolved_references, stack, call, ret, answer, calls>>

(* Fault: the node a pointer is at is taken as it is, a $ref node too. *)
FollowPointerOnce(t) ==
  /\ pc[t] = "resolver"
  /\ LET n == specification[Top(t)] IN
       ret' = [ret EXCEPT ![t] = IF n = NoNode THEN Missing
                                 ELSE [val |-> n, by |-> t]]
  /\ pc' = [pc EXCEPT ![t] = "return"]
  /\ UNCHANGED <<document, table, stack, call, answer, calls>>

(* Fault: a pointer to nothing yields some default node. *)
FollowPointerDefault(t) ==
  /\ pc[t] = "resolver"
  /\ LET n == specification[Top(t)] IN
     \/ /\ n \notin Refs
        /\ \E v \in Values :
             /\ n \in {v, NoNode}
             /\ ret' = [ret EXCEPT ![t] = [val |-> v, by |-> t]]
        /\ pc' = [pc EXCEPT ![t] = "return"]
        /\ UNCHANGED stack
     \/ /\ n \in Refs
        /\ stack' = [stack EXCEPT ![t] = Append(@, n)]
        /\ pc' = [pc EXCEPT ![t] = "entry"]
        /\ UNCHANGED ret
  /\ UNCHANGED <<document, table, call, answer, calls>>

(***************************************************************************)
(* get_reference_path.  Each resolver starts with a HashSet of its own, so *)
(* the test for a $ref already seen never succeeds and no CyclicReference  *)
(* error leaves it.  A pointer to nothing is an error; a plain node is     *)
(* cloned into a new Arc; a $ref node re-enters resolve_with_cache.        *)
(***************************************************************************)
FollowPointer(t) ==
  /\ pc[t] = "resolver"
  /\ LET n == specification[Top(t)] IN
     \/ /\ n = NoNode
        /\ ret' = [ret EXCEPT ![t] = Missing]
        /\ pc' = [pc EXCEPT ![t] = "return"]
        /\ UNCHANGED stack
     \/ /\ n \in Values
        /\ ret' = [ret EXCEPT ![t] = [val |-> n, by |-> t]]
        /\ pc' = [pc EXCEPT ![t] = "return"]
        /\ UNCHANGED stack
     \/ /\ n \in Refs
        /\ stack' = [stack EXCEPT ![t] = Append(@, n)]
        /\ pc' = [pc EXCEPT ![t] = "entry"]
        /\ UNCHANGED ret
  /\ UNCHANGED <<document, table, call, answer, calls>>

Memo(r, arc) ==
  [q \in DOMAIN resolved_references \cup {r} |->
     IF q = r THEN arc ELSE resolved_references[q]]

(* Fault: an Err leaves with the entry still open. *)
CloseEntryLeaks(t) ==
  /\ pc[t] = "return"
  /\ stack[t] # <<>>
  /\ \/ /\ ret[t] # Missing
        /\ resolved_references' = Memo(Top(t), ret[t])
        /\ holder' = [holder EXCEPT ![TopShard(t)] = NoThread]
     \/ /\ ret[t] = Missing
        /\ UNCHANGED table
  /\ stack' = [stack EXCEPT ![t] = Front(@)]
  /\ UNCHANGED <<document, pc, call, ret, answer, calls>>

(* Fault: each $ref of a chain is given an Arc of its own. *)
CloseEntryCopies(t) ==
  /\ pc[t] = "return"
  /\ stack[t] # <<>>
  /\ \/ /\ ret[t] # Missing
        /\ resolved_references' = Memo(Top(t), [ret[t] EXCEPT !.by = t])
     \/ /\ ret[t] = Missing
        /\ UNCHANGED resolved_references
  /\ holder' = [holder EXCEPT ![TopShard(t)] = NoThread]
  /\ stack' = [stack EXCEPT ![t] = Front(@)]
  /\ UNCHANGED <<document, pc, call, ret, answer, calls>>

(***************************************************************************)
(* The resolver of the innermost open entry has returned: Ok is inserted,  *)
(* Err leaves through `?` and inserts nothing.  Both drop the entry.       *)
(***************************************************************************)
CloseEntry(t) ==
  /\ pc[t] = "return"
  /\ stack[t] # <<>>
  /\ \/ /\ ret[t] # Missing
        /\ resolved_references' = Memo(Top(t), ret[t])
     \/ /\ ret[t] = Missing
        /\ UNCHANGED resolved_references
  /\ holder' = [holder EXCEPT ![TopShard(t)] = NoThread]
  /\ stack' = [stack EXCEPT ![t] = Front(@)]
  /\ UNCHANGED <<document, pc, call, ret, answer, calls>>

(***************************************************************************)
(* What get_required makes of a resolved node, and get_optional of         *)
(* get_required: every MissingField error, whatever it names, is a None.   *)
(***************************************************************************)
Required(result) ==
  IF result = Missing THEN "no reference"
  ELSE IF result.val \in WithField THEN "found"
  ELSE "no field"

Optional(result) ==
  IF Required(result) = "found" THEN "found" ELSE "none"

Answer(t) ==
  /\ pc[t] = "return"
  /\ stack[t] = <<>>
  /\ answer' = [answer EXCEPT ![t] =
                  IF call[t].accessor = "required"
                  THEN Required(ret[t]) ELSE Optional(ret[t])]
  /\ pc' = [pc EXCEPT ![t] = "idle"]
  /\ UNCHANGED <<document, table, stack, call, ret, calls>>

Work(t) ==
  EntryOccupied(t) \/ EntryVacant(t) \/ FollowPointer(t) \/ CloseEntry(t)
  \/ Answer(t)

Next ==
  \E t \in Threads :
    \/ \E accessor \in Accessors, n \in Nodes : Access(t, accessor, n)
    \/ Work(t)

Spec == Init /\ [][Next]_vars

(***************************************************************************)
(* A thread that can move is scheduled sooner or later.  Nothing is        *)
(* assumed of the locks: a waiting thread may be overtaken each time.      *)
(***************************************************************************)
FairSpec == Spec /\ \A t \in Threads : WF_vars(Work(t))

-----------------------------------------------------------------------------
(* Every variable has its type; only answers are left of a finished call. *)
TypeOK ==
  /\ specification \in Documents
  /\ shardOf \in [Refs -> Shards]
  /\ DOMAIN resolved_references \subseteq Refs
  /\ \A r \in DOMAIN resolved_references : resolved_references[r] \in Arc
  /\ holder \in [Shards -> Threads \cup {NoThread}]
  /\ pc \in [Threads -> {"idle", "entry", "resolver", "return"}]
  /\ stack \in [Threads -> Seq(Refs)]
  /\ call \in [Threads -> Call \cup {NoCall}]
  /\ ret \in [Threads -> Arc \cup {Missing, Pending}]
  /\ answer \in [Threads -> Answers]
  /\ calls \in [Threads -> 0 .. MaxCalls]

(* Entries a thread holds open: all of its stack, save the one it awaits. *)
Open(t) ==
  IF pc[t] = "entry" THEN 1 .. Len(stack[t]) - 1 ELSE 1 .. Len(stack[t])

(***************************************************************************)
(* A shard is locked by the thread that has an entry of it open, no thread *)
(* has two entries of one shard open, and so a `?` that leaves a resolver  *)
(* early leaks no lock (resolve_with_cache, traverser.rs:334-342).         *)
(***************************************************************************)
LocksMatchOpenEntries ==
  /\ \A s \in Shards, t \in Threads :
       holder[s] = t <=> \E i \in Open(t) : shardOf[stack[t][i]] = s
  /\ \A t \in Threads : \A i, j \in Open(t) :
       shardOf[stack[t][i]] = shardOf[stack[t][j]] => i = j

(***************************************************************************)
(* A $ref is being resolved at most once at any time, among all threads    *)
(* and within one, and never once it is in the memo table: the resolver    *)
(* that resolve_with_cache is given runs only for a vacant entry.          *)
(***************************************************************************)
ResolvedAtMostOnce ==
  \A t, u \in Threads : \A i \in Open(t), j \in Open(u) :
    /\ stack[t][i] \notin DOMAIN resolved_references
    /\ stack[t][i] = stack[u][j] => t = u /\ i = j

(***************************************************************************)
(* What the memo table holds for a $ref is the node that following the     *)
(* $ref in the document leads to; a dangling or cyclic $ref is never held. *)
(***************************************************************************)
MemoSound ==
  \A r \in DOMAIN resolved_references :
    Leads(specification, r, resolved_references[r].val)

(***************************************************************************)
(* A $ref to a $ref shares the Arc of its target, which is in the table    *)
(* before it: get_reference_path passes SearchResult::Arc on unchanged.    *)
(***************************************************************************)
ChainSharesArc ==
  \A r \in DOMAIN resolved_references :
    specification[r] \in Refs =>
      /\ specification[r] \in DOMAIN resolved_references
      /\ resolved_references[r] = resolved_references[specification[r]]

(***************************************************************************)
(* Every answer an accessor gives is right for the document, however the   *)
(* threads interleave and whatever was memoized before, save one: that     *)
(* get_optional may have None for a $ref to nothing (traverser.rs:553).    *)
(***************************************************************************)
AnswersCorrect ==
  \A t \in Threads :
    answer[t] # "pending" =>
      \/ CorrectAnswer(specification, call[t].accessor, call[t].node, answer[t])
      \/ DanglingIsNone(specification, call[t].accessor, call[t].node, answer[t])

(***************************************************************************)
(* Without that exception, as traverser.rs:543 has it: get_optional        *)
(* "distinguishes between missing fields (returns None) and other errors   *)
(* (propagates the error)".                                                *)
(***************************************************************************)
NoneMeansMissing ==
  \A t \in Threads :
    answer[t] # "pending" =>
      CorrectAnswer(specification, call[t].accessor, call[t].node, answer[t])

(***************************************************************************)
(* An entry of the memo table is never replaced or removed: an Arc a       *)
(* caller got stays the one every later caller of that $ref gets.          *)
(***************************************************************************)
MemoWriteOnce ==
  [][\A r \in DOMAIN resolved_references :
       /\ r \in DOMAIN resolved_references'
       /\ resolved_references'[r] = resolved_references[r]]_vars

-----------------------------------------------------------------------------
Busy(t) == pc[t] # "idle"
Blocked(t) == pc[t] = "entry" /\ holder[TopShard(t)] # NoThread

(***************************************************************************)
(* Every nonempty set of shards has one whose keys never point at a $ref   *)
(* in the set: the shards can be ordered so that pointers only descend.    *)
(* It fails for a cycle of $ref nodes, and also for a chain without a      *)
(* cycle when two of its keys hash to one shard.                           *)
(***************************************************************************)
ShardsOrdered ==
  \A T \in (SUBSET Shards) \ {{}} :
    \E s \in T : \A r \in Refs :
      shardOf[r] = s /\ specification[r] \in Refs
        => shardOf[specification[r]] \notin T

(***************************************************************************)
(* When pointers descend along the shards, the threads never all wait for  *)
(* a shard lock: entries held open over the resolver (traverser.rs:334-340)*)
(* then form no cycle of waiting threads.                                  *)
(***************************************************************************)
NoDeadlock ==
  ShardsOrdered /\ (\E t \in Threads : Busy(t))
    => \E t \in Threads : Busy(t) /\ ~Blocked(t)

(* And then every call of an accessor is answered. *)
EveryCallAnswered ==
  ShardsOrdered => \A t \in Threads : Busy(t) ~> ~Busy(t)

(***************************************************************************)
(* README.md:20 promises "robust handling of nested `$ref` references      *)
(* through pointer resolution and circular reference detection", and       *)
(* traverser.rs:642 "circular reference detection": a circular $ref is     *)
(* answered, with an error.                                                *)
(***************************************************************************)
CircularDetected ==
  \A t \in Threads :
    Busy(t) /\ Cyclic(specification, call[t].node) ~> ~Busy(t)

(* The same sentence of nested references that are not circular. *)
NestedAnswered ==
  \A t \in Threads :
    Busy(t) /\ ~Cyclic(specification, call[t].node) ~> ~Busy(t)

-----------------------------------------------------------------------------
(***************************************************************************)
(* The promise: a table that callers fill and read in single steps.        *)
(***************************************************************************)
Promise ==
  INSTANCE MemoTable WITH
    memo <- resolved_references,
    request <- [t \in Threads |-> IF Busy(t) THEN call[t] ELSE NoCall],
    reply <- answer

ImplementsMemoTable == Promise!Spec
=============================================================================
