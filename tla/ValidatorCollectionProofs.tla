----------------------- MODULE ValidatorCollectionProofs -----------------------
(***************************************************************************)
(* The collection of validators, for any tasks, ids, hash of the ids and   *)
(* number of shards and calls.  None of its properties is inductive: IInv  *)
(* adds what a task is doing at each place it can be, that a validator in  *)
(* the cache or met by a clear was made by a call that has returned, and   *)
(* how far each scan has come.                                             *)
(***************************************************************************)
EXTENDS ValidatorCollection, FiniteSetTheorems, TLAPS

Scans == {"len", "clear"}
Inserts == {"insert", "insert_from_file_path"}

(* What a task asks for, at each place it can be; it has begun a call. *)
Stage(t) ==
  /\ pc[t] # "idle" => calls[t] >= 1
  /\ pc[t] = "idle" <=> request[t] = Idle
  /\ pc[t] = "read" => Asks(t) = "insert_from_file_path"
  /\ pc[t] = "lock" => Asks(t) \in Operations \ Scans
  /\ pc[t] = "build" => Asks(t) \in Inserts
  /\ pc[t] = "scan" => Asks(t) \in Scans

Shape ==
  /\ TypeOK
  /\ cache \in [Present -> Validators]
  /\ \A t \in Threads : Stage(t)

(* The call that made a validator has returned. *)
Old(v) ==
  \/ v[2] < calls[v[1]]
  \/ v[2] = calls[v[1]] /\ pc[v[1]] = "idle"

AllOld ==
  /\ \A k \in Present : Old(cache[k])
  /\ \A t \in Threads : \A v \in doomed[t] : Old(v)

(* A clear that is under way has left what it met in later shards only. *)
Sweeping ==
  \A t \in Threads : Asks(t) = "clear" =>
    \A k \in Present : cache[k] \in doomed[t] => scanned[t] < shardOf[k]

(* What a running len has seen all along is there, and what is there seen. *)
Watching ==
  \A t \in Threads :
    /\ Asks(t) = "len" => always[t] \subseteq Present /\ Present \subseteq ever[t]
    /\ Asks(t) # "len" => always[t] = {} /\ ever[t] = {}

IInv ==
  /\ Shape
  /\ LockedWhileBuilding
  /\ AllOld
  /\ Sweeping
  /\ ClearComplete
  /\ Watching
  /\ LenInBounds

-----------------------------------------------------------------------------
(* Types *)

LEMMA AskedId ==
  ASSUME Shape, NEW t \in Threads, pc[t] # "idle"
  PROVE  /\ Id(t) \in Ids /\ shardOf[Id(t)] \in Shards
         /\ Asks(t) \in Operations
BY DEF Shape, TypeOK, Stage, Id, Asks, Idle

LEMMA InitShape == Init => Shape
BY CollectionAssumption DEF Init, Shape, TypeOK, Stage, Asks, Idle, Present, Validators, Outcomes, Shards

LEMMA ObserveTypes ==
  ASSUME TypeOK, Observe, DOMAIN cache' \subseteq Ids
  PROVE  /\ always' \in [Threads -> SUBSET Ids]
         /\ ever' \in [Threads -> SUBSET Ids]
         /\ doomed' \in [Threads -> SUBSET Validators]
BY DEF TypeOK, Observe

LEMMA ReturnTypes ==
  ASSUME Shape, NEW t \in Threads,
         NEW o \in Outcomes, NEW v \in Validators \cup {NoValidator}, NEW n \in Nat,
         Return(t, o, v, n)
  PROVE  /\ pc' \in [Threads -> {"idle", "read", "lock", "build", "scan"}]
         /\ request' \in [Threads -> [op : Operations, id : Ids] \cup {Idle}]
         /\ reply' \in [Threads -> [outcome : Outcomes, count : Nat,
                                    validator : Validators \cup {NoValidator}]]
         /\ calls' \in [Threads -> 0 .. MaxCalls]
         /\ scanned' \in [Threads -> 0 .. ShardCount]
         /\ count' \in [Threads -> Nat]
         /\ shardOf' \in [Ids -> Shards]
         /\ \A u \in Threads : Stage(u)'
<1>1. \A u \in Threads : Stage(u)'
  BY DEF Shape, TypeOK, Return, Stage, Asks, Idle
<1> QED  BY <1>1 DEF Shape, TypeOK, Return, Stage, Asks, Idle

LEMMA CacheTypes ==
  ASSUME Shape, NEW S \in SUBSET Ids, NEW f \in [S -> Validators], cache' = f
  PROVE  /\ Present' \subseteq Ids /\ \A k \in Present' : cache'[k] \in Validators
         /\ cache' \in [Present' -> Validators]
         /\ DOMAIN cache' \subseteq Ids
BY DEF Present

LEMMA SameCacheTypes ==
  ASSUME Shape, UNCHANGED cache
  PROVE  /\ Present' \subseteq Ids /\ \A k \in Present' : cache'[k] \in Validators
         /\ cache' \in [Present' -> Validators]
         /\ DOMAIN cache' \subseteq Ids
BY DEF Present, Shape, TypeOK

LEMMA ShapeStep == Shape /\ [Next]_vars => Shape'
<1> SUFFICES ASSUME Shape, [Next]_vars  PROVE Shape'
  OBVIOUS
<1>n. NoValidator \in Validators \cup {NoValidator} /\ 0 \in Nat
  OBVIOUS
<1>1. ASSUME NEW t \in Threads, NEW op \in Operations, NEW k \in Ids, Ask(t, op, k)
      PROVE  Shape'
  <2>1. TypeOK'
    <3>1. request' \in [Threads -> [op : Operations, id : Ids] \cup {Idle}]
      BY <1>1 DEF Ask, Shape, TypeOK
    <3>2. calls' \in [Threads -> 0 .. MaxCalls]
      BY <1>1, CollectionAssumption DEF Ask, Shape, TypeOK
    <3>3. pc' \in [Threads -> {"idle", "read", "lock", "build", "scan"}]
      BY <1>1 DEF Ask, Shape, TypeOK, FirstStep
    <3>4. /\ scanned' \in [Threads -> 0 .. ShardCount] /\ count' \in [Threads -> Nat]
          /\ doomed' \in [Threads -> SUBSET Validators]
          /\ always' \in [Threads -> SUBSET Ids] /\ ever' \in [Threads -> SUBSET Ids]
      BY <1>1, CollectionAssumption DEF Ask, Shape, TypeOK
    <3> QED  BY <1>1, <3>1, <3>2, <3>3, <3>4 DEF Ask, Shape, TypeOK, Present
  <2>2. \A u \in Threads : Stage(u)'
    BY <1>1 DEF Ask, Shape, TypeOK, FirstStep, Operations, Scans, Inserts, Stage, Asks, Idle
  <2> QED  BY <2>1, <2>2, <1>1, SameCacheTypes DEF Shape, Ask
<1>2. ASSUME NEW t \in Threads, ReadFile(t)  PROVE Shape'
  <2>1. CASE Return(t, "io error", NoValidator, 0) /\ UNCHANGED <<cache, holder>> /\ Observe
    BY <2>1, <1>n, ReturnTypes, SameCacheTypes, ObserveTypes DEF Shape, TypeOK, Outcomes
  <2>2. CASE /\ pc' = [pc EXCEPT ![t] = "lock"]
             /\ UNCHANGED <<cache, shardOf, holder, request, reply, calls, scanned,
                            count, history>>
    <3>1. \A u \in Threads : Stage(u)'
      BY <2>2, <1>2 DEF Shape, TypeOK, ReadFile, Stage, Asks, Operations, Scans, Idle
    <3> QED  BY <3>1, <2>2, SameCacheTypes DEF Shape, TypeOK, history
  <2> QED  BY <1>2, <2>1, <2>2 DEF ReadFile
<1>3. ASSUME NEW t \in Threads, InsertOccupied(t)  PROVE Shape'
  BY <1>3, <1>n, ReturnTypes, SameCacheTypes, ObserveTypes DEF InsertOccupied, Shape, TypeOK, Outcomes
<1>4. ASSUME NEW t \in Threads, InsertVacant(t)  PROVE Shape'
  <2>1. \A u \in Threads : Stage(u)'
    BY <1>4 DEF Shape, TypeOK, InsertVacant, AtEntry, Stage, Asks, Operations, Inserts, Idle
  <2>2. holder' \in [Shards -> Threads \cup {NoThread}]
    BY <1>4, AskedId DEF Shape, TypeOK, InsertVacant, AtEntry
  <2> QED  BY <2>1, <2>2, <1>4, SameCacheTypes DEF Shape, TypeOK, InsertVacant, history
<1>5. ASSUME NEW t \in Threads, Build(t)  PROVE Shape'
  <2>1. Id(t) \in Ids /\ Made(t) \in Validators
    <3>1. calls[t] \in 0 .. MaxCalls /\ pc[t] = "build"
      BY <1>5 DEF Build, Shape, TypeOK
    <3>2. calls[t] \in 1 .. MaxCalls
      BY <3>1, CollectionAssumption DEF Shape, Stage
    <3> QED  BY <3>1, <3>2, AskedId DEF Made, Validators
  <2>2. holder' \in [Shards -> Threads \cup {NoThread}]
    BY <1>5 DEF Build, Shape, TypeOK
  <2>3. CASE /\ cache' = [q \in Present \cup {Id(t)} |->
                            IF q = Id(t) THEN Made(t) ELSE cache[q]]
             /\ Return(t, "inserted", Made(t), 0)
    <3>1. cache' \in [Present \cup {Id(t)} -> Validators] /\ Present \cup {Id(t)} \in SUBSET Ids
      BY <2>1, <2>3 DEF Shape, TypeOK
    <3>2. /\ Present' \subseteq Ids /\ \A k \in Present' : cache'[k] \in Validators
          /\ cache' \in [Present' -> Validators]
          /\ DOMAIN cache' \subseteq Ids
      BY <3>1, CacheTypes
    <3> QED  BY <1>5, <1>n, <2>1, <2>2, <2>3, <3>2, ReturnTypes, ObserveTypes DEF Build, Shape, TypeOK, Outcomes
  <2>4. CASE /\ \E outcome \in {"failed to create", "panic"} :
                  Return(t, outcome, NoValidator, 0)
             /\ UNCHANGED cache
    <3>1. PICK outcome \in {"failed to create", "panic"} : Return(t, outcome, NoValidator, 0)
      BY <2>4
    <3>2. outcome \in Outcomes
      BY DEF Outcomes
    <3> QED  BY <1>5, <1>n, <2>2, <2>4, <3>1, <3>2, ReturnTypes, SameCacheTypes, ObserveTypes
             DEF Build, Shape, TypeOK
  <2> QED  BY <1>5, <2>3, <2>4 DEF Build
<1>6. ASSUME NEW t \in Threads, Get(t)  PROVE Shape'
  <2>1. Id(t) \in Present => cache[Id(t)] \in Validators
    BY DEF Shape, TypeOK
  <2> QED
    BY <1>6, <1>n, <2>1, ReturnTypes, SameCacheTypes, ObserveTypes DEF Get, Shape, TypeOK, Outcomes
<1>7. ASSUME NEW t \in Threads, Remove(t)  PROVE Shape'
  <2>1. cache' \in [Present \ {Id(t)} -> Validators] /\ Present \ {Id(t)} \in SUBSET Ids
    BY <1>7 DEF Remove, Shape, TypeOK
  <2>2. /\ Present' \subseteq Ids /\ \A k \in Present' : cache'[k] \in Validators
        /\ cache' \in [Present' -> Validators]
        /\ DOMAIN cache' \subseteq Ids
    BY <2>1, CacheTypes
  <2> QED
    BY <1>7, <1>n, <2>2, ReturnTypes, ObserveTypes DEF Remove, Shape, TypeOK, Outcomes
<1>8. ASSUME NEW t \in Threads, Contains(t)  PROVE Shape'
  BY <1>8, <1>n, ReturnTypes, SameCacheTypes, ObserveTypes DEF Contains, Shape, TypeOK, Outcomes
<1>9. ASSUME NEW t \in Threads, Visit(t)  PROVE Shape'
  <2>1. /\ Present' \subseteq Ids /\ \A k \in Present' : cache'[k] \in Validators
        /\ cache' \in [Present' -> Validators]
        /\ DOMAIN cache' \subseteq Ids
    <3>1. CASE UNCHANGED cache
      BY <3>1, SameCacheTypes
    <3>2. CASE cache' = [q \in Present \ InShard(scanned[t] + 1) |-> cache[q]]
      <4>1. /\ cache' \in [Present \ InShard(scanned[t] + 1) -> Validators]
            /\ Present \ InShard(scanned[t] + 1) \in SUBSET Ids
        BY <3>2 DEF Shape, TypeOK
      <4> QED  BY <4>1, CacheTypes
    <3> QED  BY <1>9, <3>1, <3>2 DEF Visit
  <2>2. count' \in [Threads -> Nat]
    <3>1. IsFiniteSet(Present \cap InShard(scanned[t] + 1))
      BY CollectionAssumption, FS_Subset DEF InShard
    <3>2. Cardinality(Present \cap InShard(scanned[t] + 1)) \in Nat
      BY <3>1, FS_CardinalityType
    <3> QED  BY <1>9, <3>2 DEF Visit, Shape, TypeOK
  <2>3. scanned' \in [Threads -> 0 .. ShardCount]
    BY <1>9, CollectionAssumption DEF Visit, Shape, TypeOK
  <2>4. \A u \in Threads : Stage(u)'
    BY <1>9 DEF Visit, Shape, Stage, Asks
  <2> QED  BY <1>9, <2>1, <2>2, <2>3, <2>4, ObserveTypes DEF Visit, Shape, TypeOK
<1>10. ASSUME NEW t \in Threads, EndScan(t)  PROVE Shape'
  <2>1. count[t] \in Nat
    BY DEF Shape, TypeOK
  <2> QED
    BY <1>10, <1>n, <2>1, ReturnTypes, SameCacheTypes, ObserveTypes DEF EndScan, Shape, TypeOK, Outcomes
<1>11. CASE UNCHANGED vars
  BY <1>11 DEF vars, history, Shape, TypeOK, Stage, Asks, Present
<1> QED
  BY <1>1, <1>2, <1>3, <1>4, <1>5, <1>6, <1>7, <1>8, <1>9, <1>10, <1>11 DEF Next, Work
-----------------------------------------------------------------------------
(* What a step of one task leaves alone, and what it does to the cache. *)

Others(t) ==
  \A u \in Threads : u # t =>
    /\ pc'[u] = pc[u] /\ request'[u] = request[u] /\ reply'[u] = reply[u]
    /\ calls'[u] = calls[u] /\ scanned'[u] = scanned[u] /\ count'[u] = count[u]
    /\ doomed'[u] = doomed[u]

LEMMA AskFrame ==
  ASSUME Shape, NEW t \in Threads, NEW op \in Operations, NEW k \in Ids, Ask(t, op, k)
  PROVE  Others(t) /\ UNCHANGED <<cache, shardOf, holder, reply>>
BY DEF Ask, Shape, TypeOK, Others

LEMMA WorkFrame ==
  ASSUME Shape, NEW t \in Threads, Work(t)
  PROVE  Others(t) /\ UNCHANGED <<shardOf, calls, doomed>>
<1>1. CASE ReadFile(t)
  BY <1>1 DEF ReadFile, Return, Observe, history, Others, Shape, TypeOK
<1>2. CASE InsertVacant(t)
  BY <1>2 DEF InsertVacant, history, Others, Shape, TypeOK
<1>3. CASE Visit(t)
  BY <1>3 DEF Visit, Observe, Others, Shape, TypeOK
<1>4. CASE InsertOccupied(t) \/ Get(t) \/ Remove(t) \/ Contains(t) \/ EndScan(t) \/ Build(t)
  <2>1. \E o, v, n : Return(t, o, v, n)
    BY <1>4 DEF InsertOccupied, Get, Remove, Contains, EndScan, Build
  <2>2. UNCHANGED doomed
    BY <1>4 DEF InsertOccupied, Get, Remove, Contains, EndScan, Build, Observe
  <2> QED  BY <2>1, <2>2 DEF Return, Others, Shape, TypeOK
<1> QED  BY <1>1, <1>2, <1>3, <1>4 DEF Work

(* An entry is new only where a construction ended. *)
Kept(t) ==
  \A k \in Present' :
    \/ k \in Present /\ cache'[k] = cache[k]
    \/ pc[t] = "build" /\ pc'[t] = "idle" /\ k = Id(t) /\ cache'[k] = Made(t)

LEMMA WorkKeeps ==
  ASSUME Shape, NEW t \in Threads, Work(t)
  PROVE  Kept(t)
<1>1. CASE UNCHANGED cache
  BY <1>1 DEF Kept, Present
<1>2. CASE Build(t)
  <2>1. CASE /\ cache' = [q \in Present \cup {Id(t)} |->
                            IF q = Id(t) THEN Made(t) ELSE cache[q]]
             /\ Return(t, "inserted", Made(t), 0)
    <3>1. pc[t] = "build" /\ pc'[t] = "idle"
      BY <1>2, <2>1 DEF Build, Return, Shape, TypeOK
    <3>2. Present' = Present \cup {Id(t)}
      BY <2>1 DEF Present
    <3> QED  BY <2>1, <3>1, <3>2 DEF Kept
  <2> QED  BY <1>1, <1>2, <2>1 DEF Build
<1>3. CASE Remove(t)
  BY <1>3 DEF Remove, Kept, Present
<1>4. CASE Visit(t)
  BY <1>4, <1>1 DEF Visit, Kept, Present
<1> QED
  BY <1>1, <1>2, <1>3, <1>4
     DEF Work, ReadFile, InsertOccupied, InsertVacant, Get, Contains, EndScan

-----------------------------------------------------------------------------
(* Locks *)

LEMMA LockStep ==
  ASSUME Shape, LockedWhileBuilding, Shape', [Next]_vars
  PROVE  LockedWhileBuilding'
<1>1. CASE UNCHANGED vars
  BY <1>1 DEF vars, LockedWhileBuilding, Id, Present
<1>2. ASSUME NEW t \in Threads, NEW op \in Operations, NEW k \in Ids, Ask(t, op, k)
      PROVE  LockedWhileBuilding'
  <2>1. pc[t] = "idle" /\ pc'[t] # "build"
    BY <1>2 DEF Ask, FirstStep, Shape, TypeOK
  <2>2. \A s \in Shards : holder[s] # t
    BY <2>1, CollectionAssumption DEF LockedWhileBuilding
  <2>3. \A s \in Shards : holder[s] # NoThread => holder[s] \in Threads
    BY DEF Shape, TypeOK
  <2> QED
    BY <1>2, <2>1, <2>2, <2>3, AskFrame DEF LockedWhileBuilding, Others, Id, Present
<1>3. ASSUME NEW t \in Threads, Work(t)
      PROVE  LockedWhileBuilding'
  <2>1. Others(t) /\ shardOf' = shardOf /\ Kept(t)
    BY <1>3, WorkFrame, WorkKeeps
  <2>2. \A s \in Shards : holder[s] # NoThread => holder[s] \in Threads
    BY DEF Shape, TypeOK
  <2>3. \A u \in Threads : pc[u] = "build" => Id(u) \in Ids /\ shardOf[Id(u)] \in Shards
    BY AskedId
  <2>4. CASE UNCHANGED holder /\ pc[t] # "build" /\ pc'[t] # "build"
    <3>1. \A s \in Shards : holder[s] # t
      BY <2>4, CollectionAssumption DEF LockedWhileBuilding
    <3> QED
      BY <2>1, <2>2, <2>3, <2>4, <3>1 DEF LockedWhileBuilding, Others, Kept, Id
  <2>5. CASE InsertVacant(t)
    <3> DEFINE s == shardOf[Id(t)]
    <3>1. s \in Shards /\ holder[s] = NoThread /\ pc[t] = "lock" /\ Id(t) \notin Present
      BY <2>5, AskedId DEF InsertVacant, AtEntry
    <3>2. /\ holder' = [holder EXCEPT ![s] = t] /\ pc'[t] = "build"
          /\ request' = request /\ cache' = cache
      BY <2>5 DEF InsertVacant, Shape, TypeOK
    <3>3. /\ holder'[s] = t
          /\ \A r \in Shards : r # s => holder'[r] = holder[r] /\ holder[r] # t
      BY <3>1, <3>2, CollectionAssumption DEF LockedWhileBuilding, Shape, TypeOK
    <3>4. \A u \in Threads : pc[u] = "build" => shardOf[Id(u)] # s
      BY <3>1, CollectionAssumption DEF LockedWhileBuilding
    <3> QED
      BY <2>1, <2>2, <2>3, <3>1, <3>2, <3>3, <3>4 DEF LockedWhileBuilding, Others, Id, Present
  <2>6. CASE Build(t)
    <3> DEFINE s == shardOf[Id(t)]
    <3>1. pc[t] = "build" /\ s \in Shards /\ holder[s] = t
      BY <2>6, <2>3 DEF Build, LockedWhileBuilding
    <3>2. holder' = [holder EXCEPT ![s] = NoThread]
      BY <2>6 DEF Build
    <3>3. pc'[t] = "idle"
      BY <2>6 DEF Build, Return, Shape, TypeOK
    <3>4. /\ holder'[s] = NoThread
          /\ \A r \in Shards : r # s => holder'[r] = holder[r] /\ holder[r] # t
      BY <3>1, <3>2, CollectionAssumption DEF LockedWhileBuilding, Shape, TypeOK
    <3>5. \A u \in Threads : u # t /\ pc[u] = "build" => shardOf[Id(u)] # s
      BY <3>1 DEF LockedWhileBuilding
    <3>6. \A u \in Threads : u # t /\ pc[u] = "build" => Id(u) # Id(t)
      BY <3>5
    <3>7. \A u \in Threads : pc'[u] = "build" =>
            /\ u # t /\ pc[u] = "build" /\ Id(u)' = Id(u)
            /\ holder'[shardOf'[Id(u)']] = u /\ Id(u)' \notin Present'
      BY <2>1, <2>3, <3>3, <3>4, <3>5, <3>6 DEF LockedWhileBuilding, Others, Kept, Id
    <3>8. \A r \in Shards : holder'[r] # NoThread =>
            pc'[holder'[r]] = "build" /\ shardOf'[request'[holder'[r]].id] = r
      BY <2>1, <2>2, <3>4 DEF LockedWhileBuilding, Others, Id
    <3> QED  BY <3>7, <3>8 DEF LockedWhileBuilding, Id
  <2>7. (UNCHANGED holder /\ pc[t] # "build" /\ pc'[t] # "build") \/ InsertVacant(t) \/ Build(t)
    <3>1. ReadFile(t) => UNCHANGED holder /\ pc[t] = "read" /\ pc'[t] \in {"idle", "lock"}
      BY DEF ReadFile, Return, Shape, TypeOK
    <3>2. InsertOccupied(t) \/ Get(t) \/ Remove(t) \/ Contains(t) =>
            UNCHANGED holder /\ pc[t] = "lock" /\ pc'[t] = "idle"
      BY DEF InsertOccupied, Get, Remove, Contains, AtEntry, Return, Shape, TypeOK
    <3>3. Visit(t) => UNCHANGED <<holder, pc>> /\ pc[t] = "scan"
      BY DEF Visit
    <3>4. EndScan(t) => UNCHANGED holder /\ pc[t] = "scan" /\ pc'[t] = "idle"
      BY DEF EndScan, Return, Shape, TypeOK
    <3> QED  BY <1>3, <3>1, <3>2, <3>3, <3>4 DEF Work
  <2> QED  BY <2>4, <2>5, <2>6, <2>7
<1> QED  BY <1>1, <1>2, <1>3 DEF Next
-----------------------------------------------------------------------------
(* Whose validators are in the cache, and what a clear leaves of them *)

LEMMA OldStays ==
  ASSUME Shape, NEW t \in Threads, Others(t), NEW v \in Validators, Old(v),
         \/ pc[t] # "idle" /\ calls'[t] = calls[t]
         \/ calls'[t] = calls[t] + 1
  PROVE  Old(v)'
<1>1. v[1] \in Threads /\ v[2] \in Int /\ calls[v[1]] \in Int
  BY CollectionAssumption DEF Validators, Shape, TypeOK
<1>2. CASE v[1] = t
  BY <1>1, <1>2 DEF Old
<1>3. CASE v[1] # t
  BY <1>1, <1>3 DEF Old, Others
<1> QED  BY <1>2, <1>3

LEMMA OldStep ==
  ASSUME Shape, AllOld, [Next]_vars
  PROVE  AllOld'
<1>1. CASE UNCHANGED vars
  BY <1>1 DEF vars, history, AllOld, Old, Present
<1>2. ASSUME NEW t \in Threads, NEW op \in Operations, NEW k \in Ids, Ask(t, op, k)
      PROVE  AllOld'
  <2>1. Others(t) /\ cache' = cache /\ calls'[t] = calls[t] + 1
    BY <1>2, AskFrame DEF Ask, Shape, TypeOK
  <2>2. \A q \in Present' : Old(cache[q])'
    BY <2>1, OldStays DEF AllOld, Present, Shape, TypeOK
  <2>3. \A u \in Threads : \A v \in doomed'[u] :
          v \in doomed[u] \/ \E q \in Present : v = cache[q]
    BY <1>2 DEF Ask, Shape, TypeOK
  <2>4. \A u \in Threads : \A v \in doomed'[u] : v \in Validators /\ Old(v)
    BY <2>3 DEF AllOld, Shape, TypeOK
  <2>5. \A u \in Threads : \A v \in doomed'[u] : Old(v)'
    BY <2>1, <2>4, OldStays
  <2> QED  BY <2>2, <2>5 DEF AllOld
<1>3. ASSUME NEW t \in Threads, Work(t)
      PROVE  AllOld'
  <2>1. Others(t) /\ calls' = calls /\ doomed' = doomed /\ Kept(t)
    BY <1>3, WorkFrame, WorkKeeps
  <2>2. pc[t] # "idle"
    BY <1>3 DEF Work, ReadFile, InsertOccupied, InsertVacant, Build, Get, Remove,
                Contains, Visit, EndScan, AtEntry
  <2>3. \A v \in Validators : Old(v) => Old(v)'
    BY <2>1, <2>2, OldStays
  <2>4. pc'[t] = "idle" => Old(Made(t))'
    BY <2>1 DEF Old, Made
  <2>5. \A q \in Present' : Old(cache[q])'
    <3> SUFFICES ASSUME NEW q \in Present'  PROVE Old(cache[q])'
      OBVIOUS
    <3>1. CASE q \in Present /\ cache'[q] = cache[q]
      BY <2>3, <3>1 DEF AllOld, Shape, TypeOK
    <3>2. CASE pc'[t] = "idle" /\ cache'[q] = Made(t)
      BY <2>1, <3>2 DEF Old, Made
    <3> QED  BY <2>1, <3>1, <3>2 DEF Kept
  <2>6. \A u \in Threads : \A v \in doomed'[u] : Old(v)'
    BY <2>1, <2>3 DEF AllOld, Shape, TypeOK
  <2> QED  BY <2>5, <2>6 DEF AllOld
<1> QED  BY <1>1, <1>2, <1>3 DEF Next

(* A step of t adds nothing that another task is clearing. *)
LEMMA NothingDoomedAppears ==
  ASSUME Shape, AllOld, NEW t \in Threads, Work(t), NEW u \in Threads,
         NEW k \in Present', cache'[k] \in doomed[u]
  PROVE  k \in Present /\ cache'[k] = cache[k]
<1>1. Kept(t)
  BY WorkKeeps
<1>2. ASSUME pc[t] = "build", Made(t) \in doomed[u]  PROVE FALSE
  <2>1. Old(Made(t))
    BY <1>2 DEF AllOld
  <2>2. calls[t] \in Int
    BY CollectionAssumption DEF Shape, TypeOK
  <2> QED  BY <1>2, <2>1, <2>2 DEF Old, Made
<1> QED  BY <1>1, <1>2 DEF Kept

LEMMA SweepStep ==
  ASSUME Shape, AllOld, Sweeping, [Next]_vars
  PROVE  Sweeping'
<1>1. CASE UNCHANGED vars
  BY <1>1 DEF vars, history, Sweeping, Asks, Present
<1>2. ASSUME NEW t \in Threads, NEW op \in Operations, NEW k \in Ids, Ask(t, op, k)
      PROVE  Sweeping'
  <2>1. Others(t) /\ UNCHANGED <<cache, shardOf>>
    BY <1>2, AskFrame
  <2>2. scanned'[t] = 0 /\ \A q \in Present : shardOf[q] \in Shards
    BY <1>2 DEF Ask, Shape, TypeOK
  <2>3. \A q \in Present : scanned'[t] < shardOf[q]
    BY <2>2, CollectionAssumption DEF Shards
  <2> QED  BY <2>1, <2>3 DEF Sweeping, Others, Asks, Present
<1>3. ASSUME NEW t \in Threads, Work(t)
      PROVE  Sweeping'
  <2>1. Others(t) /\ UNCHANGED <<shardOf, doomed>>
    BY <1>3, WorkFrame
  <2> SUFFICES ASSUME NEW u \in Threads, Asks(u)' = "clear",
                      NEW k \in Present', cache'[k] \in doomed[u]
               PROVE  scanned'[u] < shardOf[k]
    BY <2>1 DEF Sweeping
  <2>2. k \in Present /\ cache'[k] = cache[k]
    BY <1>3, NothingDoomedAppears
  <2>3. CASE u # t
    BY <2>1, <2>2, <2>3 DEF Sweeping, Others, Asks
  <2>4. CASE u = t
    <3>1. request' = request \/ request'[t] = Idle
      BY <1>3 DEF Work, ReadFile, InsertOccupied, InsertVacant, Build, Get, Remove,
                  Contains, Visit, EndScan, Return, Shape, TypeOK
    <3>2. Asks(t) = "clear"
      BY <2>4, <3>1 DEF Asks, Idle
    <3>3. scanned[t] < shardOf[k]
      BY <2>2, <2>4, <3>2 DEF Sweeping
    <3>4. CASE Visit(t)
      <4>1. Present' = Present \ InShard(scanned[t] + 1) /\ scanned'[t] = scanned[t] + 1
        BY <3>2, <3>4 DEF Visit, Present, Shape, TypeOK
      <4>2. shardOf[k] # scanned[t] + 1 /\ shardOf[k] \in Int /\ scanned[t] \in Int
        BY <2>2, <4>1, CollectionAssumption DEF InShard, Shape, TypeOK, Shards
      <4> QED  BY <2>4, <3>3, <4>1, <4>2
    <3>5. CASE ~Visit(t)
      <4>1. scanned' = scanned
        BY <1>3, <3>5 DEF Work, ReadFile, InsertOccupied, InsertVacant, Build, Get,
                          Remove, Contains, EndScan, Return
      <4> QED  BY <2>4, <3>3, <4>1
    <3> QED  BY <3>4, <3>5
  <2> QED  BY <2>3, <2>4
<1> QED  BY <1>1, <1>2, <1>3 DEF Next

LEMMA ClearStep ==
  ASSUME Shape, AllOld, Sweeping, ClearComplete, [Next]_vars
  PROVE  ClearComplete'
<1>1. CASE UNCHANGED vars
  BY <1>1 DEF vars, history, ClearComplete, Present
<1>2. ASSUME NEW t \in Threads, NEW op \in Operations, NEW k \in Ids, Ask(t, op, k)
      PROVE  ClearComplete'
  <2>1. Others(t) /\ UNCHANGED cache
    BY <1>2, AskFrame
  <2>2. pc'[t] # "idle"
    BY <1>2 DEF Ask, FirstStep, Shape, TypeOK
  <2> QED  BY <2>1, <2>2 DEF ClearComplete, Others, Present
<1>3. ASSUME NEW t \in Threads, Work(t)
      PROVE  ClearComplete'
  <2>1. Others(t) /\ UNCHANGED doomed
    BY <1>3, WorkFrame
  <2> SUFFICES ASSUME NEW u \in Threads, reply'[u].outcome = "cleared", pc'[u] = "idle",
                      NEW k \in Present', cache'[k] \in doomed[u]
               PROVE  FALSE
    BY <2>1 DEF ClearComplete
  <2>2. k \in Present /\ cache'[k] = cache[k]
    BY <1>3, NothingDoomedAppears
  <2>3. CASE u # t
    BY <2>1, <2>2, <2>3 DEF ClearComplete, Others
  <2>4. CASE u = t
    <3>1. \A o, v, n : Return(t, o, v, n) => o = "cleared"
      BY <2>4 DEF Return, Shape, TypeOK
    <3>2. pc[t] # "idle" /\ pc'[t] = "idle"
      BY <1>3, <2>4 DEF Work, ReadFile, InsertOccupied, InsertVacant, Build, Get, Remove,
                        Contains, Visit, EndScan, AtEntry
    <3>3. EndScan(t)
      <4>1. ~InsertVacant(t) /\ ~Visit(t)
        BY <3>2 DEF InsertVacant, Visit, Shape, TypeOK
      <4>2. ~ReadFile(t)
        BY <3>1, <3>2 DEF ReadFile, Shape, TypeOK
      <4>3. ~InsertOccupied(t) /\ ~Build(t) /\ ~Get(t) /\ ~Remove(t) /\ ~Contains(t)
        BY <3>1 DEF InsertOccupied, Build, Get, Remove, Contains
      <4> QED  BY <1>3, <4>1, <4>2, <4>3 DEF Work
    <3>4. Asks(t) = "clear" /\ scanned[t] = ShardCount
      BY <3>1, <3>3 DEF EndScan
    <3>5. scanned[t] < shardOf[k] /\ shardOf[k] \in Shards
      BY <2>2, <2>4, <3>4 DEF Sweeping, Shape, TypeOK
    <3> QED  BY <3>4, <3>5, CollectionAssumption DEF Shards
  <2> QED  BY <2>3, <2>4
<1> QED  BY <1>1, <1>2, <1>3 DEF Next
-----------------------------------------------------------------------------
(* What a len has seen, and what it has counted *)

(* The steps that end nothing and change nothing in the cache observe nothing. *)
LEMMA WorkObserves ==
  ASSUME NEW t \in Threads, Work(t)
  PROVE  \/ Observe
         \/ UNCHANGED <<cache, request, scanned, count, history>> /\ pc[t] \in {"read", "lock"}
BY DEF Work, ReadFile, InsertOccupied, InsertVacant, Build, Get, Remove, Contains, Visit,
       EndScan, AtEntry, history

LEMMA WatchStep ==
  ASSUME Shape, Watching, [Next]_vars
  PROVE  Watching'
<1>1. CASE UNCHANGED vars
  BY <1>1 DEF vars, history, Watching, Asks, Present
<1>2. ASSUME NEW t \in Threads, NEW op \in Operations, NEW k \in Ids, Ask(t, op, k)
      PROVE  Watching'
  BY <1>2 DEF Ask, Shape, TypeOK, Watching, Asks, Present
<1>3. ASSUME NEW t \in Threads, Work(t)
      PROVE  Watching'
  <2>1. CASE Observe
    BY <2>1 DEF Observe, Watching, Asks, Present
  <2>2. CASE UNCHANGED <<cache, request, history>>
    BY <2>2 DEF history, Watching, Asks, Present
  <2> QED  BY <1>3, <2>1, <2>2, WorkObserves
<1> QED  BY <1>1, <1>2, <1>3 DEF Next

LEMMA IdsFinite ==
  ASSUME NEW S \in SUBSET Ids, NEW T \in SUBSET S
  PROVE  /\ IsFiniteSet(S) /\ IsFiniteSet(T)
         /\ Cardinality(S) \in Nat /\ Cardinality(T) \in Nat
         /\ Cardinality(T) <= Cardinality(S)
<1>1. IsFiniteSet(S)
  BY CollectionAssumption, FS_Subset
<1> QED  BY <1>1, FS_Subset, FS_CardinalityType

(* One shard more: the bounds move with the count. *)
LEMMA OneShard ==
  ASSUME NEW low \in SUBSET Ids, NEW high \in SUBSET Ids,
         NEW here \in SUBSET Ids, NEW n \in Nat,
         Cardinality(low) <= n, n <= Cardinality(high), high \cap here = {},
         NEW low2 \in SUBSET (low \cup here), NEW high2 \in SUBSET Ids,
         high \cup here \subseteq high2
  PROVE  /\ Cardinality(low2) <= n + Cardinality(here)
         /\ n + Cardinality(here) <= Cardinality(high2)
<1>1. /\ Cardinality(low \cup here)
           = Cardinality(low) + Cardinality(here) - Cardinality(low \cap here)
      /\ Cardinality(high \cup here)
           = Cardinality(high) + Cardinality(here) - Cardinality(high \cap here)
  BY IdsFinite, FS_Union
<1>2. Cardinality(high \cap here) = 0
  BY FS_EmptySet
<1>3. Cardinality(low2) <= Cardinality(low \cup here) /\ Cardinality(low2) \in Nat
  BY IdsFinite
<1>4. Cardinality(high \cup here) <= Cardinality(high2) /\ Cardinality(high2) \in Nat
  BY IdsFinite
<1>5. /\ Cardinality(low) \in Nat /\ Cardinality(high) \in Nat
      /\ Cardinality(here) \in Nat /\ Cardinality(low \cap here) \in Nat
  BY IdsFinite
<1> QED  BY <1>1, <1>2, <1>3, <1>4, <1>5

LEMMA LenStep ==
  ASSUME Shape, Watching, LenInBounds, Shape', Watching', [Next]_vars
  PROVE  LenInBounds'
<1>1. CASE UNCHANGED vars
  BY <1>1 DEF vars, history, LenInBounds, Asks, Visited
<1>2. ASSUME NEW t \in Threads, NEW op \in Operations, NEW k \in Ids, Ask(t, op, k)
      PROVE  LenInBounds'
  <2>1. /\ Others(t) /\ UNCHANGED shardOf
        /\ \A u \in Threads : u # t => always'[u] = always[u] /\ ever'[u] = ever[u]
    <3>1. Others(t) /\ UNCHANGED shardOf
      BY <1>2, AskFrame
    <3>2. \A u \in Threads : u # t => always'[u] = always[u] /\ ever'[u] = ever[u]
      BY <1>2 DEF Ask, Shape, TypeOK
    <3> QED  BY <3>1, <3>2
  <2>2. scanned'[t] = 0 /\ count'[t] = 0
    BY <1>2 DEF Ask, Shape, TypeOK
  <2>3. Visited(t)' = {}
    BY <2>1, <2>2, CollectionAssumption DEF Visited, Shape, TypeOK, Shards
  <2>4. /\ Cardinality(always'[t] \cap Visited(t)') = 0
        /\ Cardinality(ever'[t] \cap Visited(t)') = 0
    BY <2>3, FS_EmptySet
  <2>5. \A u \in Threads : u # t => Visited(u)' = Visited(u)
    BY <2>1 DEF Visited, Others
  <2>6. ASSUME NEW u \in Threads, Asks(u)' = "len"
        PROVE  /\ Cardinality(always'[u] \cap Visited(u)') <= count'[u]
               /\ count'[u] <= Cardinality(ever'[u] \cap Visited(u)')
    <3>1. CASE u = t
      BY <2>2, <2>4, <3>1
    <3>2. CASE u # t
      BY <2>1, <2>5, <2>6, <3>2 DEF LenInBounds, Others, Asks
    <3> QED  BY <3>1, <3>2
  <2> QED  BY <2>6 DEF LenInBounds
<1>3. ASSUME NEW t \in Threads, Work(t)
      PROVE  LenInBounds'
  <2>1. Others(t) /\ UNCHANGED shardOf
    BY <1>3, WorkFrame
  <2> SUFFICES ASSUME NEW u \in Threads, Asks(u)' = "len"
               PROVE  /\ Cardinality(always'[u] \cap Visited(u)') <= count'[u]
                      /\ count'[u] <= Cardinality(ever'[u] \cap Visited(u)')
    BY DEF LenInBounds
  <2>2. request' = request \/ request'[t] = Idle
    BY <1>3 DEF Work, ReadFile, InsertOccupied, InsertVacant, Build, Get, Remove,
                Contains, Visit, EndScan, Return, Shape, TypeOK
  <2>3. Asks(u) = "len"
    BY <2>1, <2>2 DEF Others, Asks, Idle
  <2>4. /\ always'[u] \subseteq always[u] \cap Present'
        /\ ever[u] \cup Present' \subseteq ever'[u]
    <3>1. CASE Observe
      BY <3>1 DEF Observe, Asks, Present
    <3>2. CASE UNCHANGED <<cache, request, scanned, count, history>>
      BY <2>3, <3>2 DEF Watching, history, Present
    <3> QED  BY <1>3, <3>1, <3>2, WorkObserves
  <2>5. /\ always[u] \subseteq Ids /\ ever[u] \subseteq Ids
        /\ always'[u] \subseteq Ids /\ ever'[u] \subseteq Ids /\ count[u] \in Nat
    BY DEF Shape, TypeOK
  <2>6. /\ Cardinality(always[u] \cap Visited(u)) <= count[u]
        /\ count[u] <= Cardinality(ever[u] \cap Visited(u))
    BY <2>3 DEF LenInBounds
  <2>7. CASE scanned'[u] = scanned[u] /\ count'[u] = count[u]
    <3>1. Visited(u)' = Visited(u)
      BY <2>1, <2>7 DEF Visited
    <3>2. Cardinality(always'[u] \cap Visited(u)) <= Cardinality(always[u] \cap Visited(u))
      BY <2>4, <2>5, IdsFinite
    <3>3. Cardinality(ever[u] \cap Visited(u)) <= Cardinality(ever'[u] \cap Visited(u))
      BY <2>4, <2>5, IdsFinite
    <3>4. /\ Cardinality(always[u] \cap Visited(u)) \in Nat
          /\ Cardinality(always'[u] \cap Visited(u)) \in Nat
          /\ Cardinality(ever[u] \cap Visited(u)) \in Nat
          /\ Cardinality(ever'[u] \cap Visited(u)) \in Nat
      BY <2>5, IdsFinite
    <3> QED  BY <2>5, <2>6, <2>7, <3>1, <3>2, <3>3, <3>4
  <2>8. CASE u = t /\ Visit(t)
    <3> DEFINE s == scanned[t] + 1
               here == Present \cap InShard(s)
    <3>1. /\ scanned'[t] = s /\ count'[t] = count[t] + Cardinality(here)
          /\ cache' = cache
      BY <2>3, <2>8 DEF Visit, Shape, TypeOK
    <3>2. Visited(t)' = Visited(t) \cup InShard(s) /\ Visited(t) \cap InShard(s) = {}
      <4>1. scanned[t] \in Int /\ \A q \in Ids : shardOf[q] \in Int
        BY CollectionAssumption DEF Shape, TypeOK, Shards
      <4> QED  BY <2>1, <3>1, <4>1 DEF Visited, InShard
    <3> DEFINE low == always[t] \cap Visited(t)
               high == ever[t] \cap Visited(t)
               low2 == always'[t] \cap Visited(t)'
               high2 == ever'[t] \cap Visited(t)'
    <3>3. Present' = Present
      BY <3>1 DEF Present
    <3>4. low2 \subseteq low \cup here /\ high \cup here \subseteq high2 /\ high \cap here = {}
      BY <2>4, <2>8, <3>2, <3>3
    <3>5. /\ low \subseteq Ids /\ high \subseteq Ids /\ here \subseteq Ids
          /\ high2 \subseteq Ids
      BY <2>5, <2>8 DEF InShard
    <3>6. Cardinality(low) <= count[t] /\ count[t] <= Cardinality(high) /\ count[t] \in Nat
      BY <2>5, <2>6, <2>8
    <3> HIDE DEF low, high, low2, high2, here
    <3>7. /\ Cardinality(low2) <= count[t] + Cardinality(here)
          /\ count[t] + Cardinality(here) <= Cardinality(high2)
      BY <3>4, <3>5, <3>6, OneShard
    <3> QED  BY <2>8, <3>1, <3>7 DEF low2, high2
  <2>9. CASE u = t /\ ~Visit(t)
    <3>1. scanned' = scanned /\ count' = count
      BY <1>3, <2>9 DEF Work, ReadFile, InsertOccupied, InsertVacant, Build, Get,
                        Remove, Contains, EndScan, Return
    <3> QED  BY <2>7, <3>1
  <2>10. CASE u # t
    BY <2>1, <2>7, <2>10 DEF Others
  <2> QED  BY <2>8, <2>9, <2>10
<1> QED  BY <1>1, <1>2, <1>3 DEF Next

-----------------------------------------------------------------------------
(* The theorems *)

LEMMA InitIInv == Init => IInv
<1> SUFFICES ASSUME Init  PROVE IInv
  OBVIOUS
<1>1. Shape
  BY InitShape
<1>2. LockedWhileBuilding
  BY DEF Init, LockedWhileBuilding
<1>3. AllOld
  BY DEF Init, AllOld, Present
<1>4. /\ \A t \in Threads : Asks(t) = "none" /\ reply[t].outcome = "none"
      /\ \A t \in Threads : always[t] = {} /\ ever[t] = {}
  BY DEF Init, Asks, Idle
<1> QED  BY <1>1, <1>2, <1>3, <1>4 DEF IInv, Sweeping, ClearComplete, Watching, LenInBounds

LEMMA StepIInv == IInv /\ [Next]_vars => IInv'
BY ShapeStep, LockStep, OldStep, SweepStep, ClearStep, WatchStep, LenStep DEF IInv

(***************************************************************************)
(* The inductive invariant holds throughout.                               *)
(***************************************************************************)
THEOREM Invariance == Spec => []IInv
BY InitIInv, StepIInv, PTL DEF Spec

(***************************************************************************)
(* Every variable has its type (TypeOK).                                   *)
(***************************************************************************)
THEOREM TypeCorrect == Spec => []TypeOK
<1>1. IInv => TypeOK
  BY DEF IInv, Shape
<1> QED  BY <1>1, Invariance, PTL

(***************************************************************************)
(* The write lock of a shard is kept over a step by one construction for   *)
(* an absent id of that shard, and by nothing else: failed and panicking   *)
(* constructions free it (LockedWhileBuilding, cache.rs:104-115).          *)
(***************************************************************************)
THEOREM LocksCorrect == Spec => []LockedWhileBuilding
<1>1. IInv => LockedWhileBuilding
  BY DEF IInv
<1> QED  BY <1>1, Invariance, PTL

(***************************************************************************)
(* Nothing that a clear met is in the cache once it has returned, whatever *)
(* other tasks insert while it goes from shard to shard (ClearComplete,    *)
(* cache.rs:144).                                                          *)
(***************************************************************************)
THEOREM ClearsAll == Spec => []ClearComplete
<1>1. IInv => ClearComplete
  BY DEF IInv
<1> QED  BY <1>1, Invariance, PTL

(***************************************************************************)
(* len counts no id that was never there while it ran, and misses none     *)
(* that was there all along (LenInBounds, cache.rs:136).                   *)
(***************************************************************************)
THEOREM CountsWithin == Spec => []LenInBounds
<1>1. IInv => LenInBounds
  BY DEF IInv
<1> QED  BY <1>1, Invariance, PTL
-----------------------------------------------------------------------------
(***************************************************************************)
(* The collection keeps CollectionPromise, under the identity on what both *)
(* have: ReadFile (if it fails), InsertOccupied and Build are Insert, Get, *)
(* Remove and Contains themselves, EndScan is Len or the last Sweep, Visit *)
(* of a clear is a Sweep of one shard, and all else is a stutter.          *)
(***************************************************************************)

LEMMA InitMaps == Init => Promise!Init
BY DEF Init, Promise!Init, Idle, Promise!Idle

LEMMA ReturnMaps ==
  ASSUME NEW t, NEW o, NEW v, NEW n, Return(t, o, v, n), doomed' = doomed
  PROVE  Promise!Reply(t, o, v, n)
BY DEF Return, Promise!Reply, Idle, Promise!Idle

LEMMA ObserveMaps == Observe => Promise!Observe /\ doomed' = doomed
BY DEF Observe, Promise!Observe

(* A len that ends answers between what it saw all along and what it saw. *)
LEMMA LenMaps ==
  ASSUME IInv, NEW t \in Threads, EndScan(t), Asks(t) = "len"
  PROVE  count[t] \in Cardinality(always[t]) .. Cardinality(ever[t])
<1>1. scanned[t] = ShardCount
  BY DEF EndScan
<1>2. Visited(t) = Ids
  BY <1>1, CollectionAssumption DEF Visited, IInv, Shape, TypeOK, Shards
<1>3. always[t] \subseteq Ids /\ ever[t] \subseteq Ids /\ count[t] \in Nat
  BY DEF IInv, Shape, TypeOK
<1>4. always[t] \cap Visited(t) = always[t] /\ ever[t] \cap Visited(t) = ever[t]
  BY <1>2, <1>3
<1>5. Cardinality(always[t]) <= count[t] /\ count[t] <= Cardinality(ever[t])
  BY <1>4 DEF IInv, LenInBounds
<1>6. Cardinality(always[t]) \in Nat /\ Cardinality(ever[t]) \in Nat
  BY <1>3, IdsFinite
<1> QED  BY <1>3, <1>5, <1>6

(* What a running len has seen does not change while the cache stays. *)
LEMMA NothingSeen ==
  ASSUME IInv, Observe, UNCHANGED <<cache, request>>
  PROVE  UNCHANGED <<always, ever>>
<1>1. \A t \in Threads :
        /\ (IF Asks(t) = "len" THEN always[t] \cap Present ELSE {}) = always[t]
        /\ (IF Asks(t) = "len" THEN ever[t] \cup Present ELSE {}) = ever[t]
  BY DEF IInv, Watching
<1>2. /\ always' = [t \in Threads |-> IF Asks(t) = "len" THEN always[t] \cap Present ELSE {}]
      /\ ever' = [t \in Threads |-> IF Asks(t) = "len" THEN ever[t] \cup Present ELSE {}]
  BY DEF Observe, Asks, Present
<1>3. always \in [Threads -> SUBSET Ids] /\ ever \in [Threads -> SUBSET Ids]
  BY DEF IInv, Shape, TypeOK
<1> QED  BY <1>1, <1>2, <1>3

LEMMA SameCardinality == \A S : Promise!Cardinality(S) = Cardinality(S)
BY DEF Cardinality, Promise!Cardinality, IsFiniteSet, Promise!IsFiniteSet

LEMMA StepMaps == IInv /\ [Next]_vars => [Promise!Next]_Promise!vars
<1> SUFFICES ASSUME IInv, [Next]_vars  PROVE [Promise!Next]_Promise!vars
  OBVIOUS
<1>s. ASSUME UNCHANGED <<cache, request, reply, calls, doomed, always, ever>>
      PROVE  UNCHANGED Promise!vars
  BY <1>s DEF Promise!vars
<1>d. \A t : Promise!Asks(t) = Asks(t) /\ Promise!Id(t) = Id(t)
  BY DEF Asks, Promise!Asks, Id, Promise!Id
<1>p. Promise!Present = Present
  BY DEF Present, Promise!Present
<1>1. CASE UNCHANGED vars
  BY <1>1, <1>s DEF vars, history
<1>2. ASSUME NEW t \in Threads, NEW op \in Operations, NEW k \in Ids, Ask(t, op, k)
      PROVE  Promise!Next
  <2>1. Asks(t) = "none"
    BY <1>2 DEF Ask, IInv, Shape, Stage, Asks, Idle
  <2>2. Promise!Ask(t, op, k)
    BY <1>2, <2>1, <1>d, <1>p DEF Ask, Promise!Ask
  <2>3. op \in Promise!Operations
    BY DEF Operations, Promise!Operations
  <2> QED  BY <2>2, <2>3 DEF Promise!Next
<1>3. ASSUME NEW t \in Threads, Work(t)
      PROVE  [Promise!Next]_Promise!vars
  <2>1. CASE ReadFile(t)
    <3>1. CASE /\ Return(t, "io error", NoValidator, 0)
               /\ UNCHANGED <<cache, holder>>
               /\ Observe
      <4>1. Asks(t) = "insert_from_file_path"
        BY <2>1 DEF ReadFile, IInv, Shape, Stage
      <4>2. Promise!Insert(t)
        BY <3>1, <4>1, <1>d, ReturnMaps, ObserveMaps DEF Promise!Insert
      <4> QED  BY <4>2 DEF Promise!Next
    <3> QED  BY <2>1, <3>1, <1>s DEF ReadFile, history
  <2>2. CASE InsertOccupied(t)
    <3>1. Promise!Insert(t)
      BY <2>2, <1>d, <1>p, ReturnMaps, ObserveMaps DEF InsertOccupied, Promise!Insert
    <3> QED  BY <3>1 DEF Promise!Next
  <2>3. CASE InsertVacant(t)
    BY <2>3, <1>s DEF InsertVacant, history
  <2>4. CASE Build(t)
    <3>1. Asks(t) \in Inserts /\ Id(t) \notin Present
      BY <2>4 DEF Build, IInv, Shape, Stage, LockedWhileBuilding
    <3>2. Observe
      BY <2>4 DEF Build
    <3>3. CASE /\ cache' = [q \in Present \cup {Id(t)} |->
                              IF q = Id(t) THEN Made(t) ELSE cache[q]]
               /\ Return(t, "inserted", Made(t), 0)
      BY <3>1, <3>2, <3>3, <1>d, <1>p, ReturnMaps, ObserveMaps
         DEF Promise!Insert, Promise!Next, Made, Inserts
    <3>4. CASE /\ \E outcome \in {"failed to create", "panic"} :
                    Return(t, outcome, NoValidator, 0)
               /\ UNCHANGED cache
      BY <3>1, <3>2, <3>4, <1>d, <1>p, ReturnMaps, ObserveMaps
         DEF Promise!Insert, Promise!Next, Inserts
    <3> QED  BY <2>4, <3>3, <3>4 DEF Build
  <2>5. CASE Get(t)
    <3>1. Promise!Get(t)
      BY <2>5, <1>d, <1>p, ReturnMaps, ObserveMaps DEF Get, Promise!Get
    <3> QED  BY <3>1 DEF Promise!Next
  <2>6. CASE Remove(t)
    <3>1. Promise!Remove(t)
      BY <2>6, <1>d, <1>p, ReturnMaps, ObserveMaps DEF Remove, Promise!Remove
    <3> QED  BY <3>1 DEF Promise!Next
  <2>7. CASE Contains(t)
    <3>1. Promise!Contains(t)
      BY <2>7, <1>d, <1>p, ReturnMaps, ObserveMaps DEF Contains, Promise!Contains
    <3> QED  BY <3>1 DEF Promise!Next
  <2>8. CASE Visit(t)
    <3>1. UNCHANGED <<request, reply, calls, doomed>> /\ Observe
      BY <2>8 DEF Visit, Observe
    <3>2. CASE UNCHANGED cache
      BY <3>1, <3>2, <1>s, NothingSeen
    <3>3. CASE Asks(t) = "clear" /\ cache' = [q \in Present \ InShard(scanned[t] + 1) |-> cache[q]]
      <4>1. Present \cap InShard(scanned[t] + 1) \in SUBSET Present
        OBVIOUS
      <4>2. cache' = [q \in Present \ (Present \cap InShard(scanned[t] + 1)) |-> cache[q]]
        BY <3>3
      <4>3. Promise!Sweep(t)
        BY <3>1, <3>3, <4>1, <4>2, <1>d, <1>p, ObserveMaps DEF Promise!Sweep
      <4> QED  BY <4>3 DEF Promise!Next
    <3> QED  BY <2>8, <3>2, <3>3 DEF Visit
  <2>9. CASE EndScan(t)
    <3>1. UNCHANGED cache /\ Observe
      BY <2>9 DEF EndScan
    <3>2. CASE Asks(t) = "len" /\ Return(t, "len", NoValidator, count[t])
      <4>1. count[t] \in Cardinality(always[t]) .. Cardinality(ever[t])
        BY <2>9, <3>2, LenMaps
      <4>2. Promise!Observe /\ Promise!Reply(t, "len", NoValidator, count[t])
        BY <3>1, <3>2, ReturnMaps, ObserveMaps
      <4>3. \E n \in Cardinality(always[t]) .. Cardinality(ever[t]) :
              Promise!Reply(t, "len", NoValidator, n)
        BY <4>1, <4>2
      <4>4. Promise!Len(t)
        BY <3>1, <3>2, <4>2, <4>3, <1>d, SameCardinality DEF Promise!Len
      <4> QED  BY <4>4 DEF Promise!Next
    <3>3. CASE Asks(t) = "clear" /\ Return(t, "cleared", NoValidator, 0)
      <4>1. cache = [q \in Present \ {} |-> cache[q]] /\ {} \in SUBSET Present
        BY DEF IInv, Shape
      <4>2. \A q \in Present : cache[q] \notin doomed[t]
        <5>1. \A q \in Present : shardOf[q] \in Shards
          BY DEF IInv, Shape, TypeOK
        <5> QED
          BY <2>9, <3>3, <5>1, CollectionAssumption DEF EndScan, IInv, Sweeping, Shards
      <4>3. Promise!Observe /\ Promise!Reply(t, "cleared", NoValidator, 0)
        BY <3>1, <3>3, ReturnMaps, ObserveMaps
      <4>4. \A q \in DOMAIN cache' : cache'[q] \notin doomed[t]
        BY <3>1, <4>2 DEF Present
      <4>5. \E S \in SUBSET Present : cache' = [q \in Present \ S |-> cache[q]]
        BY <3>1, <4>1
      <4>6. Promise!Sweep(t)
        BY <3>3, <4>3, <4>4, <4>5, <1>d, <1>p DEF Promise!Sweep
      <4> QED  BY <4>6 DEF Promise!Next
    <3> QED  BY <2>9, <3>2, <3>3 DEF EndScan
  <2> QED
    BY <1>3, <2>1, <2>2, <2>3, <2>4, <2>5, <2>6, <2>7, <2>8, <2>9 DEF Work
<1> QED  BY <1>1, <1>2, <1>3 DEF Next

(***************************************************************************)
(* The sharded, locked collection keeps the promise of CollectionPromise   *)
(* (ImplementsPromise): a call about one id takes effect in one step.      *)
(***************************************************************************)
THEOREM KeepsPromise == Spec => ImplementsPromise
<1>1. Spec => Promise!Init /\ [][Promise!Next]_Promise!vars
  BY InitMaps, StepMaps, Invariance, PTL DEF Spec
<1> QED
  BY <1>1 DEF ImplementsPromise, Promise!Spec
=============================================================================
