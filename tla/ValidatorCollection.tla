------------------------- MODULE ValidatorCollection -------------------------
(***************************************************************************)
(* ValidatorCollection (src/src/cache.rs): the DashMap of validators by id *)
(* that the tasks of a program share, most often as the process-wide       *)
(* global_validator_cache().                                               *)
(*                                                                         *)
(* A DashMap is split into shards with a lock each.  get, contains and     *)
(* remove hold one shard lock for an instant.  insert holds the entry, and *)
(* with it the write lock of the shard, while it builds the validator, so  *)
(* every other call that needs the shard waits for the construction.  len  *)
(* and clear visit the shards one after the other and hold no two locks.   *)
(* A panic in a construction unwinds through the entry and frees the lock; *)
(* DashMap does not poison it.                                             *)
(***************************************************************************)
EXTENDS Naturals, FiniteSets

CONSTANTS
  Threads,     \* tasks that share the collection
  Ids,         \* keys
  ShardCount,  \* number of shards of the DashMap
  MaxCalls,    \* bound: calls a task makes
  NoThread,    \* holder of a free shard
  NoValidator  \* no validator in a reply

ASSUME CollectionAssumption ==
  /\ IsFiniteSet(Ids)
  /\ ShardCount \in Nat \ {0}
  /\ MaxCalls \in Nat
  /\ NoThread \notin Threads
  /\ NoValidator \notin Threads \X (1 .. MaxCalls)

Shards == 1 .. ShardCount

Operations ==
  {"insert", "insert_from_file_path", "get", "remove", "contains", "len", "clear"}

Outcomes ==
  {"none", "inserted", "already exists", "failed to create", "io error", "panic",
   "found", "not found", "removed", "yes", "no", "len", "cleared"}

VARIABLES
  cache,   \* the DashMap: partial function from Ids to validators
  shardOf, \* shard each id hashes to
  holder,  \* task that holds the write lock of a shard over a construction
  pc,      \* where each task is
  request, \* operation and id a task is busy with
  reply,   \* what its last call returned
  calls,   \* calls each task has made
  scanned, \* shards a len or clear has visited
  count,   \* what a len has added up
  doomed,  \* history: the validators a task's clear met when it was called
  always,  \* history: ids in the cache ever since a task called len
  ever     \* history: ids in the cache at some time since then

history == <<doomed, always, ever>>
vars == <<cache, shardOf, holder, pc, request, reply, calls, scanned, count,
          history>>

(***************************************************************************)
(* Every successful construction allocates a validator of its own: it is   *)
(* named by the task and the number of its call.                           *)
(***************************************************************************)
Validators == Threads \X (1 .. MaxCalls)
Made(t) == <<t, calls[t]>>

Present == DOMAIN cache
Idle == [op |-> "none"]
Asks(t) == request[t].op
Id(t) == request[t].id
InShard(s) == {k \in Ids : shardOf[k] = s}

(* ValidatorCollection::new, for any hash of the ids. *)
Init ==
  /\ cache = [k \in {} |-> NoValidator]
  /\ shardOf \in [Ids -> Shards]
  /\ holder = [s \in Shards |-> NoThread]
  /\ pc = [t \in Threads |-> "idle"]
  /\ request = [t \in Threads |-> Idle]
  /\ reply = [t \in Threads |->
                [outcome |-> "none", validator |-> NoValidator, count |-> 0]]
  /\ calls = [t \in Threads |-> 0]
  /\ scanned = [t \in Threads |-> 0]
  /\ count = [t \in Threads |-> 0]
  /\ doomed = [t \in Threads |-> {}]
  /\ always = [t \in Threads |-> {}]
  /\ ever = [t \in Threads |-> {}]

-----------------------------------------------------------------------------
(* History: what the running calls of len see of the ids in the cache. *)
Observe ==
  /\ always' = [t \in Threads |->
                  IF request'[t].op = "len" THEN always[t] \cap DOMAIN cache' ELSE {}]
  /\ ever' = [t \in Threads |->
                IF request'[t].op = "len" THEN ever[t] \cup DOMAIN cache' ELSE {}]
  /\ UNCHANGED doomed

FirstStep(op) ==
  IF op = "insert_from_file_path" THEN "read"
  ELSE IF op \in {"len", "clear"} THEN "scan"
  ELSE "lock"

(* Fault: a second len or clear goes on where the first one stopped. *)
AskKeepsScan(t, op, k) ==
  /\ pc[t] = "idle"
  /\ calls[t] < MaxCalls
  /\ calls' = [calls EXCEPT ![t] = @ + 1]
  /\ request' = [request EXCEPT ![t] = [op |-> op, id |-> k]]
  /\ pc' = [pc EXCEPT ![t] = FirstStep(op)]
  /\ doomed' = [doomed EXCEPT ![t] =
                  IF op = "clear" THEN {cache[q] : q \in Present} ELSE {}]
  /\ always' = [always EXCEPT ![t] = IF op = "len" THEN Present ELSE {}]
  /\ ever' = [ever EXCEPT ![t] = IF op = "len" THEN Present ELSE {}]
  /\ UNCHANGED <<cache, shardOf, holder, reply, scanned, count>>

(* A task calls one of the operations; is_empty is len compared with 0. *)
Ask(t, op, k) ==
  /\ pc[t] = "idle"
  /\ calls[t] < MaxCalls
  /\ calls' = [calls EXCEPT ![t] = @ + 1]
  /\ request' = [request EXCEPT ![t] = [op |-> op, id |-> k]]
  /\ pc' = [pc EXCEPT ![t] = FirstStep(op)]
  /\ scanned' = [scanned EXCEPT ![t] = 0]
  /\ count' = [count EXCEPT ![t] = 0]
  /\ doomed' = [doomed EXCEPT ![t] =
                  IF op = "clear" THEN {cache[q] : q \in Present} ELSE {}]
  /\ always' = [always EXCEPT ![t] = IF op = "len" THEN Present ELSE {}]
  /\ ever' = [ever EXCEPT ![t] = IF op = "len" THEN Present ELSE {}]
  /\ UNCHANGED <<cache, shardOf, holder, reply>>

Return(t, outcome, v, n) ==
  /\ reply' = [reply EXCEPT ![t] =
                 [outcome |-> outcome, validator |-> v, count |-> n]]
  /\ request' = [request EXCEPT ![t] = Idle]
  /\ pc' = [pc EXCEPT ![t] = "idle"]
  /\ UNCHANGED <<shardOf, calls, scanned, count>>

(* The shard of the id a task asks for has no construction going on. *)
AtEntry(t) ==
  /\ pc[t] = "lock"
  /\ holder[shardOf[Id(t)]] = NoThread

(***************************************************************************)
(* insert_from_file_path: the file may be unreadable or not JSON, before   *)
(* any lock is taken; otherwise it goes on as insert.                      *)
(***************************************************************************)
ReadFile(t) ==
  /\ pc[t] = "read"
  /\ \/ /\ Return(t, "io error", NoValidator, 0)
        /\ UNCHANGED <<cache, holder>>
        /\ Observe
     \/ /\ pc' = [pc EXCEPT ![t] = "lock"]
        /\ UNCHANGED <<cache, shardOf, holder, request, reply, calls, scanned,
                       count, history>>

InsertOccupied(t) ==
  /\ AtEntry(t)
  /\ Asks(t) \in {"insert", "insert_from_file_path"}
  /\ Id(t) \in Present
  /\ Return(t, "already exists", NoValidator, 0)
  /\ UNCHANGED <<cache, holder>>
  /\ Observe

(* Fault: the id is looked up first, built for without the entry. *)
InsertVacantUnlocked(t) ==
  /\ AtEntry(t)
  /\ Asks(t) \in {"insert", "insert_from_file_path"}
  /\ Id(t) \notin Present
  /\ pc' = [pc EXCEPT ![t] = "build"]
  /\ UNCHANGED <<cache, shardOf, holder, request, reply, calls, scanned, count,
                 history>>

(* The vacant entry is handed to create_validator with its lock held. *)
InsertVacant(t) ==
  /\ AtEntry(t)
  /\ Asks(t) \in {"insert", "insert_from_file_path"}
  /\ Id(t) \notin Present
  /\ holder' = [holder EXCEPT ![shardOf[Id(t)]] = t]
  /\ pc' = [pc EXCEPT ![t] = "build"]
  /\ UNCHANGED <<cache, shardOf, request, reply, calls, scanned, count, history>>

(* Fault: a panic leaves the shard locked. *)
BuildPanicLocks(t) ==
  /\ pc[t] = "build"
  /\ \/ /\ cache' = [q \in Present \cup {Id(t)} |->
                       IF q = Id(t) THEN Made(t) ELSE cache[q]]
        /\ holder' = [holder EXCEPT ![shardOf[Id(t)]] = NoThread]
        /\ Return(t, "inserted", Made(t), 0)
     \/ /\ holder' = [holder EXCEPT ![shardOf[Id(t)]] = NoThread]
        /\ Return(t, "failed to create", NoValidator, 0)
        /\ UNCHANGED cache
     \/ /\ Return(t, "panic", NoValidator, 0)
        /\ UNCHANGED <<cache, holder>>
  /\ Observe

(* Fault: a failed construction leaves an entry with no validator behind. *)
BuildLeavesEntry(t) ==
  /\ pc[t] = "build"
  /\ holder' = [holder EXCEPT ![shardOf[Id(t)]] = NoThread]
  /\ \E built \in {<<"inserted", Made(t)>>, <<"panic", NoValidator>>,
                  <<"failed to create", NoValidator>>} :
       /\ cache' = [q \in Present \cup {Id(t)} |->
                      IF q = Id(t) THEN built[2] ELSE cache[q]]
       /\ Return(t, built[1], built[2], 0)
  /\ Observe

(***************************************************************************)
(* create_validator: the construction succeeds and the validator goes into *)
(* the entry, or it fails, or it panics (todo! for a specification that    *)
(* does not serialize, an index into one that is no object).  Each of      *)
(* these drops the entry.                                                  *)
(***************************************************************************)
Build(t) ==
  /\ pc[t] = "build"
  /\ holder' = [holder EXCEPT ![shardOf[Id(t)]] = NoThread]
  /\ \/ /\ cache' = [q \in Present \cup {Id(t)} |->
                       IF q = Id(t) THEN Made(t) ELSE cache[q]]
        /\ Return(t, "inserted", Made(t), 0)
     \/ /\ \E outcome \in {"failed to create", "panic"} :
             Return(t, outcome, NoValidator, 0)
        /\ UNCHANGED cache
  /\ Observe

Get(t) ==
  /\ AtEntry(t)
  /\ Asks(t) = "get"
  /\ IF Id(t) \in Present
     THEN Return(t, "found", cache[Id(t)], 0)
     ELSE Return(t, "not found", NoValidator, 0)
  /\ UNCHANGED <<cache, holder>>
  /\ Observe

Remove(t) ==
  /\ AtEntry(t)
  /\ Asks(t) = "remove"
  /\ cache' = [q \in Present \ {Id(t)} |-> cache[q]]
  /\ Return(t, IF Id(t) \in Present THEN "removed" ELSE "not found",
            NoValidator, 0)
  /\ UNCHANGED holder
  /\ Observe

Contains(t) ==
  /\ AtEntry(t)
  /\ Asks(t) = "contains"
  /\ Return(t, IF Id(t) \in Present THEN "yes" ELSE "no", NoValidator, 0)
  /\ UNCHANGED <<cache, holder>>
  /\ Observe

(* Fault: clear passes over a shard that is locked. *)
VisitSkips(t) ==
  /\ pc[t] = "scan"
  /\ scanned[t] < ShardCount
  /\ LET s == scanned[t] + 1 IN
     /\ \/ /\ Asks(t) = "len"
           /\ holder[s] = NoThread
           /\ count' = [count EXCEPT ![t] =
                          @ + Cardinality(Present \cap InShard(s))]
           /\ UNCHANGED cache
        \/ /\ Asks(t) = "clear"
           /\ cache' = IF holder[s] = NoThread
                       THEN [q \in Present \ InShard(s) |-> cache[q]]
                       ELSE cache
           /\ UNCHANGED count
     /\ scanned' = [scanned EXCEPT ![t] = s]
  /\ UNCHANGED <<shardOf, holder, pc, request, reply, calls>>
  /\ Observe

(* The next shard is locked, read or emptied, and unlocked again. *)
Visit(t) ==
  /\ pc[t] = "scan"
  /\ scanned[t] < ShardCount
  /\ LET s == scanned[t] + 1 IN
     /\ holder[s] = NoThread
     /\ \/ /\ Asks(t) = "len"
           /\ count' = [count EXCEPT ![t] =
                          @ + Cardinality(Present \cap InShard(s))]
           /\ UNCHANGED cache
        \/ /\ Asks(t) = "clear"
           /\ cache' = [q \in Present \ InShard(s) |-> cache[q]]
           /\ UNCHANGED count
     /\ scanned' = [scanned EXCEPT ![t] = s]
  /\ UNCHANGED <<shardOf, holder, pc, request, reply, calls>>
  /\ Observe

EndScan(t) ==
  /\ pc[t] = "scan"
  /\ scanned[t] = ShardCount
  /\ \/ Asks(t) = "len" /\ Return(t, "len", NoValidator, count[t])
     \/ Asks(t) = "clear" /\ Return(t, "cleared", NoValidator, 0)
  /\ UNCHANGED <<cache, holder>>
  /\ Observe

Work(t) ==
  ReadFile(t) \/ InsertOccupied(t) \/ InsertVacant(t) \/ Build(t) \/ Get(t)
  \/ Remove(t) \/ Contains(t) \/ Visit(t) \/ EndScan(t)

Next ==
  \E t \in Threads :
    \/ \E op \in Operations, k \in Ids : Ask(t, op, k)
    \/ Work(t)

Spec == Init /\ [][Next]_vars

(* Each task runs when it can; locks are granted in no particular order. *)
FairSpec == Spec /\ \A t \in Threads : WF_vars(Work(t))

-----------------------------------------------------------------------------
(* Every variable has its type. *)
TypeOK ==
  /\ Present \subseteq Ids
  /\ \A k \in Present : cache[k] \in Validators
  /\ shardOf \in [Ids -> Shards]
  /\ holder \in [Shards -> Threads \cup {NoThread}]
  /\ pc \in [Threads -> {"idle", "read", "lock", "build", "scan"}]
  /\ request \in [Threads -> [op : Operations, id : Ids] \cup {Idle}]
  /\ reply \in [Threads -> [outcome : Outcomes, count : Nat,
                            validator : Validators \cup {NoValidator}]]
  /\ calls \in [Threads -> 0 .. MaxCalls]
  /\ scanned \in [Threads -> 0 .. ShardCount]
  /\ count \in [Threads -> Nat]
  /\ doomed \in [Threads -> SUBSET Validators]
  /\ always \in [Threads -> SUBSET Ids]
  /\ ever \in [Threads -> SUBSET Ids]

(***************************************************************************)
(* A shard stays locked over a step exactly while one task builds for an   *)
(* id of that shard, which is then not in the cache: neither a failed nor  *)
(* a panicking construction (cache.rs:104-115) leaves the lock or a        *)
(* half-made entry behind.                                                 *)
(***************************************************************************)
LockedWhileBuilding ==
  /\ \A t \in Threads : pc[t] = "build" =>
       holder[shardOf[Id(t)]] = t /\ Id(t) \notin Present
  /\ \A s \in Shards : holder[s] # NoThread =>
       pc[holder[s]] = "build" /\ shardOf[Id(holder[s])] = s

(***************************************************************************)
(* Once clear has returned, nothing that was in the cache when it was      *)
(* called is in it, then or later, though shards are emptied one by one    *)
(* and other tasks insert meanwhile (cache.rs:144).                        *)
(***************************************************************************)
ClearComplete ==
  \A t \in Threads :
    reply[t].outcome = "cleared" /\ pc[t] = "idle" =>
      \A k \in Present : cache[k] \notin doomed[t]

(***************************************************************************)
(* What len has counted so far lies between the ids of the visited shards  *)
(* that were there all along and those that were there at some time        *)
(* (cache.rs:136), so is_empty never says yes while some id stays.         *)
(***************************************************************************)
Visited(t) == {k \in Ids : shardOf[k] <= scanned[t]}

LenInBounds ==
  \A t \in Threads : Asks(t) = "len" =>
    /\ Cardinality(always[t] \cap Visited(t)) <= count[t]
    /\ count[t] <= Cardinality(ever[t] \cap Visited(t))

(* insert, get, remove and contains look atomic to every caller. *)
Promise == INSTANCE CollectionPromise
ImplementsPromise == Promise!Spec

(* Every call returns, whatever the constructions of other tasks end in. *)
EveryCallReturns == \A t \in Threads : pc[t] # "idle" ~> pc[t] = "idle"
==============================================================================
