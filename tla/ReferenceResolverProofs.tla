---------------------- MODULE ReferenceResolverProofs ----------------------
(***************************************************************************)
(* Theorems about the $ref resolution of ReferenceResolver, for any        *)
(* document, any number of threads, any number of shards and any hash.     *)
(***************************************************************************)
EXTENDS ReferenceResolver, SequenceTheorems, TLAPS

-----------------------------------------------------------------------------
(* What pushing and popping a stack of $ref strings do. *)
LEMMA PushStack ==
  ASSUME NEW s \in Seq(Refs), NEW r \in Refs
  PROVE  /\ Append(s, r) \in Seq(Refs)
         /\ Append(s, r) # <<>>
         /\ Len(Append(s, r)) = Len(s) + 1
         /\ \A i \in 1 .. Len(s) : Append(s, r)[i] = s[i]
         /\ Append(s, r)[Len(s) + 1] = r
BY AppendProperties, SMT

LEMMA PopStack ==
  ASSUME NEW s \in Seq(Refs), s # <<>>
  PROVE  /\ Front(s) \in Seq(Refs)
         /\ Len(s) \in Nat \ {0}
         /\ Len(Front(s)) = Len(s) - 1
         /\ \A i \in 1 .. Len(s) - 1 : Front(s)[i] = s[i]
         /\ Last(s) = s[Len(s)]
         /\ Last(s) \in Refs
<1>1. Len(s) \in Nat \ {0}
  BY EmptySeq
<1>2. Front(s) = SubSeq(s, 1, Len(s) - 1)
  BY DEF Front
<1>3. /\ Front(s) \in Seq(Refs)
      /\ Len(Front(s)) = Len(s) - 1
      /\ \A i \in 1 .. Len(s) - 1 : Front(s)[i] = s[i]
  <2> DEFINE n == Len(s) - 1
  <2>1. n \in Nat /\ 1 \in Int /\ n \in Int
    BY <1>1
  <2>2. \A i \in 1 .. n : i \in 1 .. Len(s)
    BY <1>1
  <2>3. \A i \in 1 .. n : s[i] \in Refs
    BY <2>2, ElementOfSeq
  <2>4. /\ SubSeq(s, 1, n) \in Seq(Refs)
        /\ Len(SubSeq(s, 1, n)) = IF 1 <= n THEN n - 1 + 1 ELSE 0
        /\ \A i \in 1 .. n - 1 + 1 : SubSeq(s, 1, n)[i] = s[1 + i - 1]
    BY ONLY <2>1, <2>3, SubSeqProperties
  <2> HIDE DEF n
  <2>5. \A i \in 1 .. n : i \in 1 .. n - 1 + 1 /\ 1 + i - 1 = i
    BY <2>1
  <2>6. Len(SubSeq(s, 1, n)) = n
    BY <2>1, <2>4
  <2>7. \A i \in 1 .. n : SubSeq(s, 1, n)[i] = s[i]
    BY <2>4, <2>5, Zenon
  <2>8. Front(s) = SubSeq(s, 1, n)
    BY <1>2 DEF n
  <2>9. QED
    BY <2>4, <2>6, <2>7, <2>8, Zenon DEF n
<1>4. Last(s) = s[Len(s)] /\ Last(s) \in Refs
  BY <1>1, ElementOfSeq DEF Last
<1>5. QED
  BY <1>1, <1>3, <1>4

-----------------------------------------------------------------------------
(* What the program counter says of the other variables of a thread. *)
Shape ==
  \A t \in Threads :
    /\ pc[t] = "idle" => stack[t] = <<>>
    /\ pc[t] \in {"entry", "resolver"} => stack[t] # <<>>
    /\ pc[t] = "return" => ret[t] \in Arc \cup {Missing}
    /\ pc[t] # "idle" => call[t] \in Call

LEMMA TypeInit == Init => TypeOK /\ Shape
<1> SUFFICES ASSUME Init PROVE TypeOK /\ Shape
  OBVIOUS
<1>1. TypeOK
  BY ResolverAssumption DEF Init, TypeOK, Answers
<1>2. Shape
  BY DEF Init, Shape
<1>3. QED
  BY <1>1, <1>2

(* The node at the top of a stack and the result of popping it. *)
LEMMA TopOfStack ==
  ASSUME TypeOK, NEW t \in Threads, stack[t] # <<>>
  PROVE  /\ Top(t) \in Refs
         /\ Front(stack[t]) \in Seq(Refs)
         /\ TopShard(t) \in Shards
<1>1. stack[t] \in Seq(Refs)
  BY DEF TypeOK
<1>2. Top(t) \in Refs /\ Front(stack[t]) \in Seq(Refs)
  BY <1>1, PopStack DEF Top
<1>3. QED
  BY <1>2 DEF TypeOK, TopShard

LEMMA TypeStep == TypeOK /\ Shape /\ [Next]_vars => TypeOK' /\ Shape'
<1> SUFFICES ASSUME TypeOK, Shape, [Next]_vars
             PROVE  TypeOK' /\ Shape'
  OBVIOUS
<1> USE GraphAssumption, ResolverAssumption
<1>1. ASSUME NEW t \in Threads, NEW accessor \in Accessors, NEW n \in Nodes,
             Access(t, accessor, n)
      PROVE  TypeOK' /\ Shape'
  <2>1. [accessor |-> accessor, node |-> n] \in Call
    BY DEF Call
  <2>2. n \in Refs => <<n>> \in Seq(Refs) /\ <<n>> # <<>>
    OBVIOUS
  <2>3. n \in Values => [val |-> n, by |-> t] \in Arc
    BY DEF Arc
  <2>4. calls[t] + 1 \in 0 .. MaxCalls
    BY <1>1 DEF Access, TypeOK
  <2>5. TypeOK'
    <3>1. pc' \in [Threads -> {"idle", "entry", "resolver", "return"}]
      BY <1>1 DEF Access, TypeOK
    <3>2. stack' \in [Threads -> Seq(Refs)]
      BY <1>1, <2>2 DEF Access, TypeOK
    <3>3. ret' \in [Threads -> Arc \cup {Missing, Pending}]
      BY <1>1, <2>3 DEF Access, TypeOK
    <3>4. call' \in [Threads -> Call \cup {NoCall}]
      BY <1>1, <2>1 DEF Access, TypeOK
    <3>5. answer' \in [Threads -> Answers] /\ calls' \in [Threads -> 0 .. MaxCalls]
      BY <1>1, <2>4 DEF Access, TypeOK, Answers
    <3>6. QED
      BY <1>1, <3>1, <3>2, <3>3, <3>4, <3>5 DEF Access, TypeOK, document, table
  <2>6. Shape'
    BY <1>1, <2>1, <2>2, <2>3, ZenonT(40) DEF Access, Shape, TypeOK
  <2>7. QED
    BY <2>5, <2>6
<1>2. ASSUME NEW t \in Threads, EntryOccupied(t)
      PROVE  TypeOK' /\ Shape'
  <2>1. Front(stack[t]) \in Seq(Refs) /\ Top(t) \in Refs
    BY <1>2, TopOfStack DEF EntryOccupied, Shape
  <2>2. resolved_references[Top(t)] \in Arc
    BY <1>2 DEF EntryOccupied, TypeOK
  <2>3. TypeOK'
    BY <1>2, <2>1, <2>2 DEF EntryOccupied, TypeOK, document, table
  <2>4. Shape'
    BY <1>2, <2>1, <2>2 DEF EntryOccupied, Shape, TypeOK
  <2>5. QED
    BY <2>3, <2>4
<1>3. ASSUME NEW t \in Threads, EntryVacant(t)
      PROVE  TypeOK' /\ Shape'
  <2>1. TypeOK'
    BY <1>3 DEF EntryVacant, TypeOK, document
  <2>2. Shape'
    BY <1>3 DEF EntryVacant, Shape, TypeOK
  <2>3. QED
    BY <2>1, <2>2
<1>4. ASSUME NEW t \in Threads, FollowPointer(t)
      PROVE  TypeOK' /\ Shape'
  <2> DEFINE n == specification[Top(t)]
  <2>1. Top(t) \in Refs
    BY <1>4, TopOfStack DEF FollowPointer, Shape
  <2>2. n \in Values => [val |-> n, by |-> t] \in Arc
    BY DEF Arc
  <2>3. n \in Refs => /\ Append(stack[t], n) \in Seq(Refs)
                      /\ Append(stack[t], n) # <<>>
    BY PushStack DEF TypeOK
  <2> HIDE DEF n
  <2>4. TypeOK'
    <3>1. pc' \in [Threads -> {"idle", "entry", "resolver", "return"}]
      BY <1>4 DEF FollowPointer, TypeOK
    <3>2. stack' \in [Threads -> Seq(Refs)]
      BY <1>4, <2>3, ZenonT(40) DEF FollowPointer, TypeOK, n
    <3>3. ret' \in [Threads -> Arc \cup {Missing, Pending}]
      BY <1>4, <2>2, ZenonT(40) DEF FollowPointer, TypeOK, n
    <3>4. QED
      BY <1>4, <3>1, <3>2, <3>3 DEF FollowPointer, TypeOK, document, table
  <2>5. Shape'
    BY <1>4, <2>2, <2>3 DEF FollowPointer, Shape, TypeOK, n
  <2>6. QED
    BY <2>4, <2>5
<1>5. ASSUME NEW t \in Threads, CloseEntry(t)
      PROVE  TypeOK' /\ Shape'
  <2>1. Front(stack[t]) \in Seq(Refs) /\ Top(t) \in Refs
    BY <1>5, TopOfStack DEF CloseEntry
  <2>2. ret[t] # Missing => ret[t] \in Arc
    BY <1>5 DEF CloseEntry, Shape
  <2>3. /\ DOMAIN resolved_references' \subseteq Refs
        /\ \A r \in DOMAIN resolved_references' :
             resolved_references'[r] \in Arc
    BY <1>5, <2>1, <2>2 DEF CloseEntry, TypeOK, Memo
  <2>4. TypeOK'
    BY <1>5, <2>1, <2>3 DEF CloseEntry, TypeOK, document
  <2>5. Shape'
    BY <1>5, <2>1 DEF CloseEntry, Shape, TypeOK
  <2>6. QED
    BY <2>4, <2>5
<1>6. ASSUME NEW t \in Threads, Answer(t)
      PROVE  TypeOK' /\ Shape'
  <2>1. Required(ret[t]) \in Answers /\ Optional(ret[t]) \in Answers
    BY DEF Required, Optional, Answers
  <2>2. TypeOK'
    BY <1>6, <2>1 DEF Answer, TypeOK, document, table
  <2>3. Shape'
    BY <1>6 DEF Answer, Shape, TypeOK
  <2>4. QED
    BY <2>2, <2>3
<1>7. CASE UNCHANGED vars
  <2>1. TypeOK'
    BY <1>7 DEF vars, document, table, threadState, TypeOK
  <2>2. Shape'
    BY <1>7 DEF vars, document, table, threadState, Shape
  <2>3. QED
    BY <2>1, <2>2
<1>8. QED
  BY <1>1, <1>2, <1>3, <1>4, <1>5, <1>6, <1>7 DEF Next, Work

(* Every variable keeps its type (TypeOK). *)
THEOREM TypeCorrect == Spec => []TypeOK
<1>1. Spec => [](TypeOK /\ Shape)
  BY TypeInit, TypeStep, PTL DEF Spec
<1>2. QED
  BY <1>1, PTL

-----------------------------------------------------------------------------
(***************************************************************************)
(* Open entries.  A step changes the open entries of one thread by at most *)
(* the last of them, and the lock table in step with it.                   *)
(***************************************************************************)
LEMMA OpenType ==
  ASSUME TypeOK, Shape, NEW t \in Threads
  PROVE  /\ Len(stack[t]) \in Nat
         /\ Open(t) \subseteq 1 .. Len(stack[t])
         /\ pc[t] = "entry" => Open(t) = 1 .. Len(stack[t]) - 1
         /\ pc[t] # "entry" => Open(t) = 1 .. Len(stack[t])
         /\ \A i \in Open(t) : stack[t][i] \in Refs
<1>1. stack[t] \in Seq(Refs)
  BY DEF TypeOK
<1>2. Len(stack[t]) \in Nat
  BY <1>1
<1>3. /\ Open(t) \subseteq 1 .. Len(stack[t])
      /\ pc[t] = "entry" => Open(t) = 1 .. Len(stack[t]) - 1
      /\ pc[t] # "entry" => Open(t) = 1 .. Len(stack[t])
  BY <1>2 DEF Open
<1>4. \A i \in 1 .. Len(stack[t]) : stack[t][i] \in Refs
  BY <1>1, ElementOfSeq
<1>5. QED
  BY <1>2, <1>3, <1>4

(* A step that leaves the stacks and the open entries as they are. *)
SameOpen(t) ==
  /\ Open(t)' = Open(t)
  /\ \A i \in Open(t) : stack'[t][i] = stack[t][i]

(***************************************************************************)
(* The three ways a step of thread t changes what is open.                 *)
(***************************************************************************)
LEMMA StepOpens ==
  ASSUME TypeOK, Shape, NEW t \in Threads
  PROVE  /\ \A a \in Accessors, n \in Nodes : Access(t, a, n) => SameOpen(t)
         /\ EntryOccupied(t) \/ FollowPointer(t) \/ Answer(t) => SameOpen(t)
         /\ EntryVacant(t) =>
              /\ Len(stack[t]) \notin Open(t)
              /\ Open(t)' = Open(t) \cup {Len(stack[t])}
              /\ stack'[t] = stack[t]
              /\ stack[t][Len(stack[t])] = Top(t)
         /\ CloseEntry(t) =>
              /\ Len(stack[t]) \in Open(t)
              /\ Open(t)' = Open(t) \ {Len(stack[t])}
              /\ \A i \in Open(t)' : stack'[t][i] = stack[t][i]
              /\ stack[t][Len(stack[t])] = Top(t)
<1> DEFINE s == stack[t]
<1>1. s \in Seq(Refs) /\ Len(s) \in Nat
  BY DEF TypeOK
<1>2. s # <<>> => /\ Len(s) \in Nat \ {0}
                  /\ Len(Front(s)) = Len(s) - 1
                  /\ \A i \in 1 .. Len(s) - 1 : Front(s)[i] = s[i]
                  /\ Top(t) = s[Len(s)]
                  /\ Top(t) \in Refs
  BY <1>1, PopStack DEF Top
<1>3. ASSUME NEW a \in Accessors, NEW n \in Nodes, Access(t, a, n)
      PROVE  SameOpen(t)
  <2>1. s = <<>> /\ pc[t] = "idle" /\ Len(s) = 0
    BY <1>3 DEF Access, Shape
  <2>2. Open(t) = {}
    BY <2>1 DEF Open
  <2>3. CASE n \in Refs
    <3>1. pc'[t] = "entry" /\ stack'[t] = <<n>>
      BY <1>3, <2>3, GraphAssumption DEF Access, TypeOK
    <3>2. Len(stack'[t]) = 1
      BY <3>1
    <3>3. Open(t)' = 1 .. Len(stack'[t]) - 1
      BY <3>1 DEF Open
    <3>4. Open(t)' = {}
      BY <3>2, <3>3
    <3>5. QED
      BY <2>2, <3>4 DEF SameOpen
  <2>4. CASE n \in Values
    <3>1. pc'[t] = "return" /\ stack'[t] = s
      BY <1>3, <2>4, GraphAssumption DEF Access, TypeOK
    <3>2. QED
      BY <2>1, <2>2, <3>1 DEF Open, SameOpen
  <2>5. QED
    BY <2>3, <2>4 DEF Nodes
<1>4. ASSUME EntryOccupied(t)
      PROVE  SameOpen(t)
  <2>1. pc[t] = "entry" /\ pc'[t] = "return" /\ stack'[t] = Front(s)
    BY <1>4 DEF EntryOccupied, TypeOK
  <2>2. s # <<>>
    BY <2>1 DEF Shape
  <2>3. Open(t) = 1 .. Len(s) - 1 /\ Open(t)' = 1 .. Len(s) - 1
    BY <1>2, <2>1, <2>2 DEF Open
  <2>4. QED
    BY <1>2, <2>1, <2>2, <2>3 DEF SameOpen
<1>5. ASSUME FollowPointer(t)
      PROVE  SameOpen(t)
  <2> DEFINE n == specification[Top(t)]
  <2>1. pc[t] = "resolver" /\ s # <<>>
    BY <1>5 DEF FollowPointer, Shape
  <2>2. Open(t) = 1 .. Len(s)
    BY <2>1, OpenType
  <2>3. CASE pc'[t] = "return" /\ stack' = stack
    BY <2>2, <2>3 DEF Open, SameOpen
  <2>4. CASE n \in Refs /\ pc'[t] = "entry" /\ stack'[t] = Append(s, n)
    <3>1. Len(stack'[t]) = Len(s) + 1
          /\ \A i \in 1 .. Len(s) : stack'[t][i] = s[i]
      BY <1>1, <2>4, PushStack
    <3>2. Open(t)' = 1 .. Len(s)
      BY <1>1, <2>4, <3>1 DEF Open
    <3>3. QED
      BY <2>2, <3>1, <3>2 DEF SameOpen
  <2>5. QED
    BY <1>5, <2>3, <2>4 DEF FollowPointer, TypeOK
<1>6. ASSUME Answer(t)
      PROVE  SameOpen(t)
  BY <1>6 DEF Answer, TypeOK, Open, SameOpen
<1>7. ASSUME EntryVacant(t)
      PROVE  /\ Len(s) \notin Open(t)
             /\ Open(t)' = Open(t) \cup {Len(s)}
             /\ stack'[t] = s
             /\ s[Len(s)] = Top(t)
  <2>1. pc[t] = "entry" /\ s # <<>> /\ pc'[t] = "resolver" /\ stack' = stack
    BY <1>7 DEF EntryVacant, Shape, TypeOK
  <2>2. Open(t) = 1 .. Len(s) - 1 /\ Open(t)' = 1 .. Len(s)
    BY <1>1, <2>1 DEF Open
  <2>3. QED
    BY <1>2, <2>1, <2>2
<1>8. ASSUME CloseEntry(t)
      PROVE  /\ Len(s) \in Open(t)
             /\ Open(t)' = Open(t) \ {Len(s)}
             /\ \A i \in Open(t)' : stack'[t][i] = s[i]
             /\ s[Len(s)] = Top(t)
  <2>1. pc[t] = "return" /\ s # <<>> /\ pc' = pc /\ stack'[t] = Front(s)
    BY <1>8 DEF CloseEntry, TypeOK
  <2>2. Open(t) = 1 .. Len(s) /\ Open(t)' = 1 .. Len(s) - 1
    BY <1>2, <2>1 DEF Open
  <2>3. QED
    BY <1>2, <2>1, <2>2
<1>9. QED
  BY <1>3, <1>4, <1>5, <1>6, <1>7, <1>8

(* The open entries of a thread are no business of the steps of another. *)
LEMMA OthersKeepOpen ==
  ASSUME TypeOK, NEW t \in Threads, NEW u \in Threads, u # t,
         Work(t) \/ \E a \in Accessors, n \in Nodes : Access(t, a, n)
  PROVE  /\ SameOpen(u)
         /\ stack'[u] = stack[u]
         /\ pc'[u] = pc[u]
         /\ ret'[u] = ret[u]
         /\ call'[u] = call[u]
         /\ answer'[u] = answer[u]
<1>1. /\ stack'[u] = stack[u]
      /\ pc'[u] = pc[u]
      /\ ret'[u] = ret[u]
      /\ call'[u] = call[u]
      /\ answer'[u] = answer[u]
  BY DEF Work, Access, EntryOccupied, EntryVacant, FollowPointer, CloseEntry,
         Answer, TypeOK
<1>2. QED
  BY <1>1 DEF SameOpen, Open

-----------------------------------------------------------------------------
LEMMA LockInit == Init => LocksMatchOpenEntries
<1> SUFFICES ASSUME Init PROVE LocksMatchOpenEntries
  OBVIOUS
<1>1. \A t \in Threads : Open(t) = {}
  BY DEF Init, Open
<1>2. \A s \in Shards, t \in Threads : holder[s] # t
  BY ResolverAssumption DEF Init
<1>3. QED
  BY <1>1, <1>2 DEF LocksMatchOpenEntries

(* A step that touches no lock and leaves the open entries as they are. *)
LEMMA LockFrame ==
  ASSUME LocksMatchOpenEntries, holder' = holder, shardOf' = shardOf,
         \A t \in Threads : SameOpen(t)
  PROVE  LocksMatchOpenEntries'
BY DEF LocksMatchOpenEntries, SameOpen

LEMMA LockVacant ==
  ASSUME TypeOK, Shape, LocksMatchOpenEntries,
         NEW t \in Threads, EntryVacant(t)
  PROVE  LocksMatchOpenEntries'
<1> DEFINE k == Len(stack[t])
           sh == TopShard(t)
<1>1. /\ k \notin Open(t)
      /\ Open(t)' = Open(t) \cup {k}
      /\ stack' = stack
      /\ stack[t][k] = Top(t)
  BY StepOpens DEF EntryVacant
<1>2. sh \in Shards /\ holder[sh] = NoThread /\ shardOf[stack[t][k]] = sh
  BY <1>1, TopOfStack DEF EntryVacant, Shape, TopShard
<1>3. holder' = [holder EXCEPT ![sh] = t] /\ shardOf' = shardOf
  BY DEF EntryVacant, document
<1>4. \A u \in Threads : \A i \in Open(u) : shardOf[stack[u][i]] # sh
  BY <1>2, ResolverAssumption DEF LocksMatchOpenEntries
<1>5. \A u \in Threads \ {t} : Open(u)' = Open(u)
  BY OthersKeepOpen DEF Work, SameOpen
<1> HIDE DEF k, sh
<1>6. ASSUME NEW s \in Shards, NEW u \in Threads
      PROVE  holder'[s] = u <=> \E i \in Open(u)' : shardOf'[stack'[u][i]] = s
  <2>1. CASE s = sh /\ u = t
    BY <1>1, <1>2, <1>3, <2>1 DEF TypeOK
  <2>2. CASE s = sh /\ u # t
    BY <1>1, <1>2, <1>3, <1>4, <1>5, <2>2 DEF TypeOK
  <2>3. CASE s # sh /\ u = t
    BY <1>1, <1>2, <1>3, <2>3 DEF TypeOK, LocksMatchOpenEntries
  <2>4. CASE s # sh /\ u # t
    BY <1>1, <1>3, <1>5, <2>4 DEF TypeOK, LocksMatchOpenEntries
  <2>5. QED
    BY <2>1, <2>2, <2>3, <2>4
<1>7. ASSUME NEW u \in Threads, NEW i \in Open(u)', NEW j \in Open(u)',
             shardOf'[stack'[u][i]] = shardOf'[stack'[u][j]]
      PROVE  i = j
  <2>1. CASE u = t
    BY <1>1, <1>2, <1>3, <1>4, <1>7, <2>1 DEF LocksMatchOpenEntries
  <2>2. CASE u # t
    BY <1>1, <1>3, <1>5, <1>7, <2>2 DEF LocksMatchOpenEntries
  <2>3. QED
    BY <2>1, <2>2
<1>8. QED
  BY <1>6, <1>7 DEF LocksMatchOpenEntries

LEMMA LockClose ==
  ASSUME TypeOK, Shape, LocksMatchOpenEntries,
         NEW t \in Threads, CloseEntry(t)
  PROVE  LocksMatchOpenEntries'
<1> DEFINE k == Len(stack[t])
           sh == TopShard(t)
<1>1. /\ k \in Open(t)
      /\ Open(t)' = Open(t) \ {k}
      /\ \A i \in Open(t)' : stack'[t][i] = stack[t][i]
      /\ stack[t][k] = Top(t)
  BY StepOpens
<1>2. sh \in Shards /\ shardOf[stack[t][k]] = sh
  BY <1>1, TopOfStack DEF CloseEntry, TopShard
<1>3. holder' = [holder EXCEPT ![sh] = NoThread] /\ shardOf' = shardOf
  BY DEF CloseEntry, document
<1> HIDE DEF k, sh
<1>4. holder[sh] = t
  BY <1>1, <1>2 DEF LocksMatchOpenEntries
<1>5. \A i \in Open(t) \ {k} : shardOf[stack[t][i]] # sh
  BY <1>1, <1>2 DEF LocksMatchOpenEntries
<1>6. \A u \in Threads \ {t} : \A i \in Open(u) : shardOf[stack[u][i]] # sh
  BY <1>2, <1>4 DEF LocksMatchOpenEntries
<1>7. \A u \in Threads \ {t} : Open(u)' = Open(u) /\ stack'[u] = stack[u]
  BY OthersKeepOpen DEF Work, SameOpen
<1>8. ASSUME NEW s \in Shards, NEW u \in Threads
      PROVE  holder'[s] = u <=> \E i \in Open(u)' : shardOf'[stack'[u][i]] = s
  <2>1. CASE s = sh /\ u = t
    BY <1>1, <1>3, <1>5, <2>1, ResolverAssumption DEF TypeOK
  <2>2. CASE s = sh /\ u # t
    BY <1>3, <1>6, <1>7, <2>2, ResolverAssumption DEF TypeOK
  <2>3. CASE s # sh
    <3>1. holder'[s] = holder[s]
      BY <1>3, <2>3 DEF TypeOK
    <3>2. holder[s] = u <=> \E i \in Open(u) : shardOf[stack[u][i]] = s
      BY DEF LocksMatchOpenEntries
    <3>3. CASE u = t
      BY <1>1, <1>2, <1>3, <2>3, <3>1, <3>2, <3>3
    <3>4. CASE u # t
      BY <1>3, <1>7, <3>1, <3>2, <3>4
    <3>5. QED
      BY <3>3, <3>4
  <2>4. QED
    BY <2>1, <2>2, <2>3
<1>9. ASSUME NEW u \in Threads, NEW i \in Open(u)', NEW j \in Open(u)',
             shardOf'[stack'[u][i]] = shardOf'[stack'[u][j]]
      PROVE  i = j
  <2>1. CASE u = t
    BY <1>1, <1>3, <1>9, <2>1 DEF LocksMatchOpenEntries
  <2>2. CASE u # t
    BY <1>3, <1>7, <1>9, <2>2 DEF LocksMatchOpenEntries
  <2>3. QED
    BY <2>1, <2>2
<1>10. QED
  BY <1>8, <1>9 DEF LocksMatchOpenEntries

LEMMA LockStep ==
  TypeOK /\ Shape /\ LocksMatchOpenEntries /\ [Next]_vars
    => LocksMatchOpenEntries'
<1> SUFFICES ASSUME TypeOK, Shape, LocksMatchOpenEntries, [Next]_vars
             PROVE  LocksMatchOpenEntries'
  OBVIOUS
<1>1. ASSUME NEW t \in Threads, NEW a \in Accessors, NEW n \in Nodes,
             Access(t, a, n)
      PROVE  LocksMatchOpenEntries'
  <2>1. \A u \in Threads : SameOpen(u)
    BY <1>1, StepOpens, OthersKeepOpen
  <2>2. QED
    BY <1>1, <2>1, LockFrame DEF Access, document, table
<1>2. ASSUME NEW t \in Threads, EntryOccupied(t)
      PROVE  LocksMatchOpenEntries'
  <2>1. \A u \in Threads : SameOpen(u)
    BY <1>2, StepOpens, OthersKeepOpen DEF Work
  <2>2. QED
    BY <1>2, <2>1, LockFrame DEF EntryOccupied, document, table
<1>3. ASSUME NEW t \in Threads, FollowPointer(t)
      PROVE  LocksMatchOpenEntries'
  <2>1. \A u \in Threads : SameOpen(u)
    BY <1>3, StepOpens, OthersKeepOpen DEF Work
  <2>2. QED
    BY <1>3, <2>1, LockFrame DEF FollowPointer, document, table
<1>4. ASSUME NEW t \in Threads, Answer(t)
      PROVE  LocksMatchOpenEntries'
  <2>1. \A u \in Threads : SameOpen(u)
    BY <1>4, StepOpens, OthersKeepOpen DEF Work
  <2>2. QED
    BY <1>4, <2>1, LockFrame DEF Answer, document, table
<1>5. CASE UNCHANGED vars
  <2>1. \A u \in Threads : SameOpen(u)
    BY <1>5 DEF vars, threadState, SameOpen, Open
  <2>2. QED
    BY <1>5, <2>1, LockFrame DEF vars, document, table
<1>6. QED
  BY <1>1, <1>2, <1>3, <1>4, <1>5, LockVacant, LockClose DEF Next, Work

(***************************************************************************)
(* A shard is locked by exactly the thread that has an entry of it open.   *)
(***************************************************************************)
THEOREM LocksCorrect == Spec => []LocksMatchOpenEntries
<1>1. Init => TypeOK /\ Shape /\ LocksMatchOpenEntries
  BY TypeInit, LockInit
<1>2. TypeOK /\ Shape /\ LocksMatchOpenEntries /\ [Next]_vars
        => TypeOK' /\ Shape' /\ LocksMatchOpenEntries'
  BY TypeStep, LockStep
<1>3. QED
  BY <1>1, <1>2, PTL DEF Spec

-----------------------------------------------------------------------------
(***************************************************************************)
(* What ties a thread's stack, the node its caller asked about and the     *)
(* result it carries to the document and the memo table.                   *)
(***************************************************************************)
StackFollowsPointers ==
  \A t \in Threads :
    /\ stack[t] # <<>> => stack[t][1] = call[t].node
    /\ \A i \in 1 .. Len(stack[t]) - 1 :
         specification[stack[t][i]] = stack[t][i + 1]

(* x is what the pointer of the open $ref r leads to. *)
Continues(r, x) ==
  \/ specification[r] = x
  \/ specification[r] \in Refs /\ Leads(specification, specification[r], x)

ResultFits(t) ==
  IF stack[t] # <<>>
  THEN /\ ret[t] = Missing => Continues(Top(t), NoNode)
       /\ ret[t] # Missing =>
            \/ specification[Top(t)] = ret[t].val
            \/ /\ specification[Top(t)] \in DOMAIN resolved_references
               /\ resolved_references[specification[Top(t)]] = ret[t]
  ELSE /\ ret[t] = Missing => StandsFor(specification, call[t].node, NoNode)
       /\ ret[t] # Missing =>
            StandsFor(specification, call[t].node, ret[t].val)

ResultsFit == \A t \in Threads : pc[t] = "return" => ResultFits(t)

OpenAreVacant ==
  \A t \in Threads : \A i \in Open(t) :
    stack[t][i] \notin DOMAIN resolved_references

IInv ==
  /\ TypeOK
  /\ Shape
  /\ LocksMatchOpenEntries
  /\ OpenAreVacant
  /\ StackFollowsPointers
  /\ ResultsFit
  /\ MemoSound
  /\ ChainSharesArc
  /\ AnswersCorrect

-----------------------------------------------------------------------------
(* A $ref leads wherever its pointer leads, or to what the pointer is at. *)
LEMMA LeadsStep ==
  ASSUME NEW r \in Refs, NEW x, Continues(r, x)
  PROVE  Leads(specification, r, x)
<1> SUFFICES ASSUME NEW S \in SUBSET Refs, ClosedFor(specification, x, S)
             PROVE  r \in S
  BY DEF Leads
<1>1. CASE specification[r] = x
  BY <1>1 DEF ClosedFor
<1>2. CASE specification[r] \in Refs /\ Leads(specification, specification[r], x)
  <2>1. specification[r] \in S
    BY <1>2 DEF Leads
  <2>2. QED
    BY <2>1 DEF ClosedFor
<1>3. QED
  BY <1>1, <1>2 DEF Continues

(* The document and the hash of its keys never change. *)
LEMMA DocumentFixed ==
  ASSUME [Next]_vars
  PROVE  specification' = specification /\ shardOf' = shardOf
BY DEF Next, Work, Access, EntryOccupied, EntryVacant, FollowPointer,
       CloseEntry, Answer, vars, document

(* Two open entries for one $ref are one and the same. *)
LEMMA OpenUnique ==
  ASSUME TypeOK, Shape, LocksMatchOpenEntries,
         NEW t \in Threads, NEW u \in Threads,
         NEW i \in Open(t), NEW j \in Open(u), stack[t][i] = stack[u][j]
  PROVE  t = u /\ i = j
<1> DEFINE s == shardOf[stack[t][i]]
<1>1. s \in Shards
  BY OpenType DEF TypeOK
<1>2. holder[s] = t /\ holder[s] = u
  BY <1>1 DEF LocksMatchOpenEntries
<1>3. QED
  BY <1>2 DEF LocksMatchOpenEntries

(* Only CloseEntry changes the memo table, and it adds a $ref to it. *)
LEMMA MemoStep ==
  ASSUME TypeOK, Shape, OpenAreVacant, [Next]_vars
  PROVE  \/ resolved_references' = resolved_references
         \/ \E t \in Threads :
              /\ CloseEntry(t)
              /\ ret[t] # Missing
              /\ Top(t) \in Refs \ DOMAIN resolved_references
              /\ resolved_references' = Memo(Top(t), ret[t])
<1>1. ASSUME NEW t \in Threads, CloseEntry(t)
      PROVE  Top(t) \in Refs \ DOMAIN resolved_references
  <2>1. Len(stack[t]) \in Open(t) /\ stack[t][Len(stack[t])] = Top(t)
    BY <1>1, StepOpens
  <2>2. QED
    BY <1>1, <2>1, TopOfStack DEF OpenAreVacant, CloseEntry
<1>2. ASSUME NEW t \in Threads, CloseEntry(t)
      PROVE  \/ resolved_references' = resolved_references
             \/ /\ ret[t] # Missing
                /\ resolved_references' = Memo(Top(t), ret[t])
  BY <1>2 DEF CloseEntry
<1>3. QED
  BY <1>1, <1>2 DEF Next, Work, Access, EntryOccupied, EntryVacant,
     FollowPointer, Answer, vars, table

LEMMA MemoGrows ==
  ASSUME TypeOK, Shape, OpenAreVacant, [Next]_vars,
         NEW r \in DOMAIN resolved_references
  PROVE  /\ r \in DOMAIN resolved_references'
         /\ resolved_references'[r] = resolved_references[r]
BY MemoStep DEF Memo

LEMMA VacantStep ==
  ASSUME TypeOK, Shape, LocksMatchOpenEntries, OpenAreVacant, [Next]_vars
  PROVE  OpenAreVacant'
<1> SUFFICES ASSUME NEW u \in Threads, NEW i \in Open(u)'
             PROVE  stack'[u][i] \notin DOMAIN resolved_references'
  BY DEF OpenAreVacant
<1>1. ASSUME SameOpen(u), resolved_references' = resolved_references
      PROVE  stack'[u][i] \notin DOMAIN resolved_references'
  BY <1>1 DEF SameOpen, OpenAreVacant
<1>2. ASSUME NEW t \in Threads, NEW a \in Accessors, NEW n \in Nodes,
             Access(t, a, n)
      PROVE  stack'[u][i] \notin DOMAIN resolved_references'
  BY <1>1, <1>2, StepOpens, OthersKeepOpen DEF Access, table
<1>3. ASSUME NEW t \in Threads,
             EntryOccupied(t) \/ FollowPointer(t) \/ Answer(t)
      PROVE  stack'[u][i] \notin DOMAIN resolved_references'
  <2>1. SameOpen(u)
    BY <1>3, StepOpens, OthersKeepOpen DEF Work
  <2>2. QED
    BY <1>1, <1>3, <2>1 DEF EntryOccupied, FollowPointer, Answer, table
<1>4. ASSUME NEW t \in Threads, EntryVacant(t)
      PROVE  stack'[u][i] \notin DOMAIN resolved_references'
  <2>1. resolved_references' = resolved_references
    BY <1>4 DEF EntryVacant
  <2>2. CASE u # t
    BY <1>1, <1>4, <2>1, <2>2, OthersKeepOpen DEF Work
  <2>3. CASE u = t
    <3>1. /\ Open(t)' = Open(t) \cup {Len(stack[t])}
          /\ stack'[t] = stack[t]
          /\ stack[t][Len(stack[t])] = Top(t)
      BY <1>4, StepOpens
    <3>2. Top(t) \notin DOMAIN resolved_references
      BY <1>4 DEF EntryVacant
    <3>3. QED
      BY <2>1, <2>3, <3>1, <3>2 DEF OpenAreVacant
  <2>4. QED
    BY <2>2, <2>3
<1>5. ASSUME NEW t \in Threads, CloseEntry(t)
      PROVE  stack'[u][i] \notin DOMAIN resolved_references'
  <2>1. /\ Len(stack[t]) \in Open(t)
        /\ Open(t)' = Open(t) \ {Len(stack[t])}
        /\ \A k \in Open(t)' : stack'[t][k] = stack[t][k]
        /\ stack[t][Len(stack[t])] = Top(t)
    BY <1>5, StepOpens
  <2>2. u # t => SameOpen(u)
    BY <1>5, OthersKeepOpen DEF Work
  <2>3. i \in Open(u) /\ stack'[u][i] = stack[u][i]
    BY <2>1, <2>2 DEF SameOpen
  <2>4. stack[u][i] # Top(t)
    BY <2>1, <2>3, OpenUnique
  <2>5. stack[u][i] \notin DOMAIN resolved_references
    BY <2>3 DEF OpenAreVacant
  <2>6. DOMAIN resolved_references'
          \subseteq DOMAIN resolved_references \cup {Top(t)}
    BY <1>5 DEF CloseEntry, Memo
  <2>7. QED
    BY <2>3, <2>4, <2>5, <2>6
<1>6. CASE UNCHANGED vars
  BY <1>1, <1>6 DEF vars, table, threadState, SameOpen, Open
<1>7. QED
  BY <1>2, <1>3, <1>4, <1>5, <1>6 DEF Next, Work

-----------------------------------------------------------------------------
(* Popping a stack uncovers the $ref whose pointer led to the popped one. *)
LEMMA Uncovered ==
  ASSUME TypeOK, StackFollowsPointers, NEW t \in Threads, stack[t] # <<>>
  PROVE  LET rest == Front(stack[t])
         IN  IF rest # <<>>
             THEN Last(rest) \in Refs /\ specification[Last(rest)] = Top(t)
             ELSE Top(t) = call[t].node
<1> DEFINE s == stack[t]
           rest == Front(s)
<1>1. s \in Seq(Refs)
  BY DEF TypeOK
<1>2. /\ rest \in Seq(Refs)
      /\ Len(s) \in Nat \ {0}
      /\ Len(rest) = Len(s) - 1
      /\ \A i \in 1 .. Len(s) - 1 : rest[i] = s[i]
      /\ Top(t) = s[Len(s)]
  BY <1>1, PopStack DEF Top
<1>3. /\ s[1] = call[t].node
      /\ \A i \in 1 .. Len(s) - 1 : specification[s[i]] = s[i + 1]
  BY DEF StackFollowsPointers
<1> HIDE DEF s, rest
<1>4. CASE rest # <<>>
  <2>1. Len(rest) \in Nat \ {0} /\ Last(rest) = rest[Len(rest)]
        /\ Last(rest) \in Refs
    BY <1>2, <1>4, PopStack
  <2>2. Len(rest) \in 1 .. Len(s) - 1 /\ Len(rest) + 1 = Len(s)
    BY <1>2, <2>1
  <2>3. specification[rest[Len(rest)]] = s[Len(s)]
    BY <1>2, <1>3, <2>2
  <2>4. QED
    BY <1>2, <1>4, <2>1, <2>3 DEF rest, s
<1>5. CASE rest = <<>>
  <2>1. Len(s) = 1
    BY <1>2, <1>5
  <2>2. QED
    BY <1>2, <1>3, <1>5, <2>1 DEF rest, s
<1>6. QED
  BY <1>4, <1>5

LEMMA FollowStep ==
  ASSUME TypeOK, Shape, StackFollowsPointers, [Next]_vars
  PROVE  StackFollowsPointers'
<1> DEFINE Follows(s, n) ==
             /\ s # <<>> => s[1] = n
             /\ \A i \in 1 .. Len(s) - 1 : specification[s[i]] = s[i + 1]
<1>0. specification' = specification
  BY DocumentFixed
<1> SUFFICES ASSUME NEW u \in Threads
             PROVE  Follows(stack'[u], call'[u].node)
  BY <1>0 DEF StackFollowsPointers
<1>1. Follows(stack[u], call[u].node)
  BY DEF StackFollowsPointers
<1>2. ASSUME NEW t \in Threads, NEW a \in Accessors, NEW n \in Nodes,
             Access(t, a, n)
      PROVE  Follows(stack'[u], call'[u].node)
  <2>1. CASE u # t
    BY <1>1, <1>2, <2>1, OthersKeepOpen
  <2>2. CASE u = t
    <3>1. call'[u].node = n
      BY <1>2, <2>2 DEF Access, TypeOK
    <3>2. stack[u] = <<>>
      BY <1>2, <2>2 DEF Access, Shape
    <3>3. stack'[u] = <<n>> \/ stack'[u] = <<>>
      BY <1>2, <2>2, <3>2 DEF Access, TypeOK
    <3>4. Len(<<n>>) = 1 /\ <<n>>[1] = n /\ Len(<<>>) = 0
      OBVIOUS
    <3>5. CASE stack'[u] = <<n>>
      BY <3>1, <3>4, <3>5
    <3>6. CASE stack'[u] = <<>>
      BY <3>4, <3>6
    <3>7. QED
      BY <3>3, <3>5, <3>6
  <2>3. QED
    BY <2>1, <2>2
<1>3. ASSUME NEW t \in Threads, EntryOccupied(t) \/ CloseEntry(t)
      PROVE  Follows(stack'[u], call'[u].node)
  <2>1. CASE u # t
    BY <1>1, <1>3, <2>1, OthersKeepOpen DEF Work
  <2>2. CASE u = t
    <3>1. /\ stack[t] # <<>>
          /\ stack'[t] = Front(stack[t])
          /\ call' = call
      BY <1>3 DEF EntryOccupied, CloseEntry, TypeOK, Shape
    <3>2. /\ Len(stack[t]) \in Nat \ {0}
          /\ Len(stack'[t]) = Len(stack[t]) - 1
          /\ \A i \in 1 .. Len(stack[t]) - 1 : stack'[t][i] = stack[t][i]
          /\ stack'[t] \in Seq(Refs)
      BY <3>1, PopStack DEF TypeOK
    <3>3. \A i \in 1 .. Len(stack'[t]) - 1 :
            /\ i \in 1 .. Len(stack[t]) - 1
            /\ i + 1 \in 1 .. Len(stack[t]) - 1
      BY <3>2
    <3>4. stack'[t] # <<>> => 1 \in 1 .. Len(stack[t]) - 1
      BY <3>2, EmptySeq
    <3>5. QED
      BY <1>1, <2>2, <3>1, <3>2, <3>3, <3>4
  <2>3. QED
    BY <2>1, <2>2
<1>4. ASSUME NEW t \in Threads, EntryVacant(t) \/ Answer(t)
      PROVE  Follows(stack'[u], call'[u].node)
  BY <1>1, <1>4 DEF EntryVacant, Answer
<1>5. ASSUME NEW t \in Threads, FollowPointer(t)
      PROVE  Follows(stack'[u], call'[u].node)
  <2> DEFINE n == specification[Top(t)]
  <2>1. CASE u # t
    BY <1>1, <1>5, <2>1, OthersKeepOpen DEF Work
  <2>2. CASE u = t
    <3>1. call' = call /\ stack[t] # <<>>
      BY <1>5 DEF FollowPointer, Shape
    <3>2. stack' = stack \/ (n \in Refs /\ stack'[t] = Append(stack[t], n))
      BY <1>5 DEF FollowPointer, TypeOK
    <3>3. CASE stack' = stack
      BY <1>1, <3>1, <3>3
    <3>4. CASE n \in Refs /\ stack'[t] = Append(stack[t], n)
      <4>1. /\ Len(stack[t]) \in Nat \ {0}
            /\ Top(t) = stack[t][Len(stack[t])]
        BY <3>1, PopStack DEF TypeOK, Top
      <4>2. /\ Len(stack'[t]) = Len(stack[t]) + 1
            /\ \A i \in 1 .. Len(stack[t]) : stack'[t][i] = stack[t][i]
            /\ stack'[t][Len(stack[t]) + 1] = n
        BY <3>4, PushStack DEF TypeOK
      <4>3. ASSUME NEW i \in 1 .. Len(stack'[t]) - 1
            PROVE  specification[stack'[t][i]] = stack'[t][i + 1]
        <5>1. CASE i = Len(stack[t])
          BY <4>1, <4>2, <5>1
        <5>2. CASE i \in 1 .. Len(stack[t]) - 1
          <6>1. i \in 1 .. Len(stack[t]) /\ i + 1 \in 1 .. Len(stack[t])
            BY <4>1, <5>2
          <6>2. QED
            BY <1>1, <2>2, <4>2, <5>2, <6>1
        <5>3. QED
          BY <4>1, <4>2, <5>1, <5>2
      <4>4. stack'[t][1] = stack[t][1]
        BY <4>1, <4>2
      <4>5. QED
        BY <1>1, <2>2, <3>1, <4>3, <4>4
    <3>5. QED
      BY <3>2, <3>3, <3>4
  <2>3. QED
    BY <2>1, <2>2
<1>6. CASE UNCHANGED vars
  BY <1>1, <1>6 DEF vars, threadState
<1>7. QED
  BY <1>2, <1>3, <1>4, <1>5, <1>6 DEF Next, Work

-----------------------------------------------------------------------------
(* A result keeps fitting while the memo table grows under other threads. *)
LEMMA ResultKept ==
  ASSUME TypeOK, Shape, OpenAreVacant, [Next]_vars,
         NEW u \in Threads, ResultFits(u),
         stack'[u] = stack[u], ret'[u] = ret[u], call'[u] = call[u]
  PROVE  ResultFits(u)'
<1>1. specification' = specification
  BY DocumentFixed
<1>2. Top(u)' = Top(u)
  BY DEF Top
<1>3. \A r \in DOMAIN resolved_references :
        /\ r \in DOMAIN resolved_references'
        /\ resolved_references'[r] = resolved_references[r]
  BY MemoGrows
<1>4. QED
  BY <1>1, <1>2, <1>3 DEF ResultFits, Continues

(***************************************************************************)
(* A thread that pops the $ref r = Top(t) and carries a result that the    *)
(* table has for r, or the error r leads to, carries one that fits.        *)
(***************************************************************************)
LEMMA ResultPassedOn ==
  ASSUME TypeOK, StackFollowsPointers, NEW t \in Threads,
         stack[t] # <<>>,
         specification' = specification, call' = call,
         stack'[t] = Front(stack[t]),
         \/ /\ ret'[t] = Missing
            /\ Leads(specification, Top(t), NoNode)
         \/ /\ ret'[t] # Missing
            /\ Top(t) \in DOMAIN resolved_references'
            /\ resolved_references'[Top(t)] = ret'[t]
            /\ Leads(specification, Top(t), ret'[t].val)
  PROVE  ResultFits(t)'
<1>1. Top(t) \in Refs
  BY TopOfStack
<1>2. CASE stack'[t] # <<>>
  <2>1. Top(t)' = Last(Front(stack[t])) /\ specification[Top(t)'] = Top(t)
    BY <1>2, Uncovered DEF Top
  <2>2. specification'[Top(t)'] = Top(t)
    BY <2>1
  <2>3. ret'[t] = Missing => Continues(Top(t), NoNode)'
    BY <1>1, <2>2 DEF Continues
  <2>4. QED
    BY <1>2, <2>2, <2>3 DEF ResultFits
<1>3. CASE stack'[t] = <<>>
  <2>1. call'[t].node = Top(t)
    BY <1>3, Uncovered
  <2>2. QED
    BY <1>1, <1>3, <2>1 DEF ResultFits, StandsFor
<1>4. QED
  BY <1>2, <1>3

(* What a resolver returned to the entry of Top(t) is what Top(t) leads to. *)
LEMMA ResultLeads ==
  ASSUME TypeOK, Shape, MemoSound, NEW t \in Threads,
         pc[t] = "return", stack[t] # <<>>, ResultFits(t)
  PROVE  /\ ret[t] = Missing => Leads(specification, Top(t), NoNode)
         /\ ret[t] # Missing => /\ ret[t] \in Arc
                                /\ Leads(specification, Top(t), ret[t].val)
<1>1. Top(t) \in Refs
  BY TopOfStack
<1>2. ASSUME ret[t] = Missing
      PROVE  Leads(specification, Top(t), NoNode)
  BY <1>1, <1>2, LeadsStep DEF ResultFits
<1>3. ASSUME ret[t] # Missing
      PROVE  ret[t] \in Arc /\ Leads(specification, Top(t), ret[t].val)
  <2>1. ret[t] \in Arc
    BY <1>3 DEF Shape
  <2>2. Continues(Top(t), ret[t].val)
    BY <1>3 DEF ResultFits, Continues, MemoSound, TypeOK
  <2>3. QED
    BY <1>1, <2>1, <2>2, LeadsStep
<1>4. QED
  BY <1>2, <1>3

LEMMA ResultsStep ==
  ASSUME TypeOK, Shape, OpenAreVacant, StackFollowsPointers, ResultsFit,
         MemoSound, [Next]_vars
  PROVE  ResultsFit'
<1> SUFFICES ASSUME NEW u \in Threads, pc'[u] = "return"
             PROVE  ResultFits(u)'
  BY DEF ResultsFit
<1> USE GraphAssumption, ResolverAssumption
<1>0. specification' = specification
  BY DocumentFixed
<1>1. ASSUME pc[u] = "return", stack'[u] = stack[u], ret'[u] = ret[u],
             call'[u] = call[u]
      PROVE  ResultFits(u)'
  BY <1>1, ResultKept DEF ResultsFit
<1>2. ASSUME NEW t \in Threads, u # t,
             Work(t) \/ \E a \in Accessors, n \in Nodes : Access(t, a, n)
      PROVE  ResultFits(u)'
  BY <1>1, <1>2, OthersKeepOpen
<1>3. ASSUME NEW a \in Accessors, NEW n \in Nodes, Access(u, a, n)
      PROVE  ResultFits(u)'
  <2>1. n \in Values
    BY <1>3 DEF Access, TypeOK
  <2>2. stack'[u] = <<>> /\ ret'[u] = [val |-> n, by |-> u]
        /\ call'[u].node = n
    BY <1>3, <2>1 DEF Access, TypeOK, Shape
  <2>3. ret'[u] # Missing /\ ret'[u].val = n
    BY <2>1, <2>2 DEF Arc
  <2>4. QED
    BY <2>1, <2>2, <2>3 DEF ResultFits, StandsFor
<1>4. ASSUME EntryOccupied(u)
      PROVE  ResultFits(u)'
  <2>1. /\ stack[u] # <<>>
        /\ stack'[u] = Front(stack[u])
        /\ call' = call
        /\ ret'[u] = resolved_references[Top(u)]
        /\ Top(u) \in DOMAIN resolved_references
        /\ resolved_references' = resolved_references
    BY <1>4 DEF EntryOccupied, TypeOK, Shape, table
  <2>2. ret'[u] # Missing
    BY <2>1 DEF TypeOK
  <2>3. Leads(specification, Top(u), ret'[u].val)
    BY <2>1 DEF MemoSound
  <2>4. QED
    BY <1>0, <2>1, <2>2, <2>3, ResultPassedOn
<1>5. ASSUME FollowPointer(u)
      PROVE  ResultFits(u)'
  <2> DEFINE n == specification[Top(u)]
  <2>1. /\ stack' = stack
        /\ stack[u] # <<>>
        /\ \/ n = NoNode /\ ret'[u] = Missing
           \/ n \in Values /\ ret'[u] = [val |-> n, by |-> u]
    BY <1>5 DEF FollowPointer, TypeOK, Shape
  <2>2. n \in Values => [val |-> n, by |-> u] # Missing
    BY DEF Arc
  <2>3. Top(u)' = Top(u) /\ specification'[Top(u)'] = n
    BY <1>0, <2>1 DEF Top
  <2> HIDE DEF n
  <2>4. ret'[u] = Missing => Continues(Top(u), NoNode)'
    BY <2>1, <2>2, <2>3 DEF Continues
  <2>5. ret'[u] # Missing => specification'[Top(u)'] = ret'[u].val
    BY <2>1, <2>3
  <2>6. QED
    BY <2>1, <2>4, <2>5 DEF ResultFits
<1>6. ASSUME CloseEntry(u)
      PROVE  ResultFits(u)'
  <2>1. /\ pc[u] = "return"
        /\ stack[u] # <<>>
        /\ stack'[u] = Front(stack[u])
        /\ call' = call
        /\ ret' = ret
        /\ ret[u] # Missing => resolved_references' = Memo(Top(u), ret[u])
    BY <1>6 DEF CloseEntry, TypeOK
  <2>2. /\ ret[u] = Missing => Leads(specification, Top(u), NoNode)
        /\ ret[u] # Missing => Leads(specification, Top(u), ret[u].val)
    BY <2>1, ResultLeads DEF ResultsFit
  <2>3. ret[u] # Missing => /\ Top(u) \in DOMAIN resolved_references'
                            /\ resolved_references'[Top(u)] = ret[u]
    BY <2>1 DEF Memo
  <2>4. QED
    BY <1>0, <2>1, <2>2, <2>3, ResultPassedOn
<1>7. ASSUME EntryVacant(u) \/ Answer(u)
      PROVE  ResultFits(u)'
  BY <1>7 DEF EntryVacant, Answer, TypeOK
<1>8. CASE UNCHANGED vars
  BY <1>1, <1>8 DEF vars, threadState
<1>9. QED
  BY <1>2, <1>3, <1>4, <1>5, <1>6, <1>7, <1>8 DEF Next, Work

LEMMA MemoSoundStep ==
  ASSUME TypeOK, Shape, OpenAreVacant, ResultsFit, MemoSound, ChainSharesArc,
         [Next]_vars
  PROVE  MemoSound' /\ ChainSharesArc'
<1>1. specification' = specification
  BY DocumentFixed
<1>2. CASE resolved_references' = resolved_references
  BY <1>1, <1>2 DEF MemoSound, ChainSharesArc
<1>3. ASSUME NEW t \in Threads, CloseEntry(t), ret[t] # Missing,
             Top(t) \in Refs \ DOMAIN resolved_references,
             resolved_references' = Memo(Top(t), ret[t])
      PROVE  MemoSound' /\ ChainSharesArc'
  <2>1. pc[t] = "return" /\ stack[t] # <<>> /\ ResultFits(t)
    BY <1>3 DEF CloseEntry, ResultsFit
  <2>2. ret[t] \in Arc /\ Leads(specification, Top(t), ret[t].val)
    BY <1>3, <2>1, ResultLeads
  <2>3. MemoSound'
    BY <1>1, <1>3, <2>2 DEF MemoSound, Memo
  <2>4. specification[Top(t)] \in Refs =>
          /\ specification[Top(t)] \in DOMAIN resolved_references
          /\ resolved_references[specification[Top(t)]] = ret[t]
    BY <1>3, <2>1, <2>2, GraphAssumption DEF ResultFits, Arc
  <2>5. ChainSharesArc'
    BY <1>1, <1>3, <2>4 DEF ChainSharesArc, Memo
  <2>6. QED
    BY <2>3, <2>5
<1>4. QED
  BY <1>2, <1>3, MemoStep

(* What a call may be answered. *)
Answered(c, a) ==
  \/ CorrectAnswer(specification, c.accessor, c.node, a)
  \/ DanglingIsNone(specification, c.accessor, c.node, a)

LEMMA AnswersStep ==
  ASSUME TypeOK, Shape, ResultsFit, AnswersCorrect, [Next]_vars
  PROVE  AnswersCorrect'
<1> SUFFICES ASSUME NEW u \in Threads, answer'[u] # "pending"
             PROVE  Answered(call'[u], answer'[u])
  BY DocumentFixed DEF AnswersCorrect, Answered
<1> USE GraphAssumption, ResolverAssumption
<1>1. ASSUME answer'[u] = answer[u], call'[u] = call[u]
      PROVE  Answered(call'[u], answer'[u])
  BY <1>1 DEF AnswersCorrect, Answered
<1>2. ASSUME NEW t \in Threads, u # t,
             Work(t) \/ \E a \in Accessors, n \in Nodes : Access(t, a, n)
      PROVE  answer'[u] = answer[u] /\ call'[u] = call[u]
  BY <1>2, OthersKeepOpen
<1>3. ASSUME NEW a \in Accessors, NEW n \in Nodes, Access(u, a, n)
      PROVE  FALSE
  BY <1>3 DEF Access, TypeOK
<1>4. ASSUME EntryOccupied(u) \/ EntryVacant(u) \/ FollowPointer(u)
             \/ CloseEntry(u) \/ UNCHANGED vars
      PROVE  answer'[u] = answer[u] /\ call'[u] = call[u]
  BY <1>4 DEF EntryOccupied, EntryVacant, FollowPointer, CloseEntry, vars,
              threadState
<1>5. ASSUME Answer(u)
      PROVE  Answered(call'[u], answer'[u])
  <2> DEFINE n == call[u].node
             a == call[u].accessor
  <2>1. /\ call' = call
        /\ answer'[u] = IF a = "required"
                        THEN Required(ret[u]) ELSE Optional(ret[u])
        /\ a \in Accessors
        /\ ret[u] \in Arc \cup {Missing}
    BY <1>5 DEF Answer, TypeOK, Shape, Call
  <2>2. /\ ret[u] = Missing => StandsFor(specification, n, NoNode)
        /\ ret[u] # Missing => StandsFor(specification, n, ret[u].val)
    BY <1>5 DEF Answer, ResultsFit, ResultFits
  <2>3. ret[u] # Missing => ret[u].val \in Values
    BY <2>1 DEF Arc
  <2>4. CASE ret[u] = Missing
    BY <2>1, <2>2, <2>4
    DEF Required, Optional, Answered, CorrectAnswer, DanglingIsNone, Accessors
  <2>5. CASE ret[u] # Missing /\ ret[u].val \in WithField
    BY <2>1, <2>2, <2>5 DEF Required, Optional, Answered, CorrectAnswer, Accessors
  <2>6. CASE ret[u] # Missing /\ ret[u].val \notin WithField
    BY <2>1, <2>2, <2>3, <2>6 DEF Required, Optional, Answered, CorrectAnswer, Accessors
  <2>7. QED
    BY <2>4, <2>5, <2>6
<1>6. QED
  BY <1>1, <1>2, <1>3, <1>4, <1>5 DEF Next, Work

-----------------------------------------------------------------------------
LEMMA InvInit == Init => IInv
<1> SUFFICES ASSUME Init PROVE IInv
  OBVIOUS
<1>1. TypeOK /\ Shape /\ LocksMatchOpenEntries
  BY TypeInit, LockInit
<1>2. OpenAreVacant
  BY DEF Init, OpenAreVacant
<1>3. StackFollowsPointers
  BY DEF Init, StackFollowsPointers
<1>4. ResultsFit /\ MemoSound /\ ChainSharesArc /\ AnswersCorrect
  BY DEF Init, ResultsFit, MemoSound, ChainSharesArc, AnswersCorrect
<1>5. QED
  BY <1>1, <1>2, <1>3, <1>4 DEF IInv

LEMMA InvStep == IInv /\ [Next]_vars => IInv'
<1> SUFFICES ASSUME IInv, [Next]_vars PROVE IInv'
  OBVIOUS
<1> USE DEF IInv
<1>1. TypeOK' /\ Shape'
  BY TypeStep
<1>2. LocksMatchOpenEntries'
  BY LockStep
<1>3. OpenAreVacant'
  BY VacantStep
<1>4. StackFollowsPointers'
  BY FollowStep
<1>5. ResultsFit'
  BY ResultsStep
<1>6. MemoSound' /\ ChainSharesArc'
  BY MemoSoundStep
<1>7. AnswersCorrect'
  BY AnswersStep
<1>8. QED
  BY <1>1, <1>2, <1>3, <1>4, <1>5, <1>6, <1>7

THEOREM Invariance == Spec => []IInv
BY InvInit, InvStep, PTL DEF Spec

(***************************************************************************)
(* What the memo table holds for a $ref is what the $ref leads to          *)
(* (MemoSound), for every document, cyclic ones included.                  *)
(***************************************************************************)
THEOREM MemoIsSound == Spec => []MemoSound
BY Invariance, PTL DEF IInv

(* A chain of $ref nodes shares one Arc in the table (ChainSharesArc). *)
THEOREM ChainsShare == Spec => []ChainSharesArc
BY Invariance, PTL DEF IInv

(***************************************************************************)
(* Whatever get_required and get_optional answer is right for the document *)
(* (AnswersCorrect), however many threads share the traverser; save that   *)
(* get_optional may answer None for a $ref to nothing.                     *)
(***************************************************************************)
THEOREM AnswersAreCorrect == Spec => []AnswersCorrect
BY Invariance, PTL DEF IInv

(* No $ref is resolved twice, neither at once nor later. *)
THEOREM ResolvedOnce == Spec => []ResolvedAtMostOnce
<1>1. IInv => ResolvedAtMostOnce
  BY OpenUnique DEF IInv, ResolvedAtMostOnce, OpenAreVacant
<1>2. QED
  BY <1>1, Invariance, PTL

(* The table is write-once (MemoWriteOnce). *)
THEOREM WriteOnce == Spec => MemoWriteOnce
<1>1. IInv /\ [Next]_vars =>
        [\A r \in DOMAIN resolved_references :
           /\ r \in DOMAIN resolved_references'
           /\ resolved_references'[r] = resolved_references[r]]_vars
  BY MemoGrows DEF IInv
<1>2. QED
  BY <1>1, Invariance, PTL DEF Spec, MemoWriteOnce

-----------------------------------------------------------------------------
(***************************************************************************)
(* Were all busy threads waiting, each shard one of them waits for or      *)
(* holds would be held by one of them, over an open entry whose pointer    *)
(* leads to a shard that thread holds or waits for: a set of shards in     *)
(* which every shard points back into the set, against ShardsOrdered.      *)
(***************************************************************************)
LEMMA WaitingIsOrdered ==
  ASSUME IInv, ShardsOrdered, NEW t0 \in Threads, Busy(t0),
         \A t \in Threads : Busy(t) => Blocked(t)
  PROVE  FALSE
<1> DEFINE Waits(s) == \E t \in Threads, i \in Nat :
                         /\ Busy(t)
                         /\ i \in 1 .. Len(stack[t])
                         /\ shardOf[stack[t][i]] = s
           W == {s \in Shards : Waits(s)}
<1> USE DEF IInv
<1>1. \A t \in Threads : Busy(t) =>
        /\ pc[t] = "entry"
        /\ holder[TopShard(t)] # NoThread
        /\ TopShard(t) \in Shards
        /\ Len(stack[t]) \in Nat \ {0}
        /\ TopShard(t) = shardOf[stack[t][Len(stack[t])]]
        /\ Open(t) = 1 .. Len(stack[t]) - 1
        /\ \A i \in 1 .. Len(stack[t]) : stack[t][i] \in Refs
  <2> SUFFICES ASSUME NEW t \in Threads, Busy(t)
               PROVE  /\ pc[t] = "entry"
                      /\ holder[TopShard(t)] # NoThread
                      /\ TopShard(t) \in Shards
                      /\ Len(stack[t]) \in Nat \ {0}
                      /\ TopShard(t) = shardOf[stack[t][Len(stack[t])]]
                      /\ Open(t) = 1 .. Len(stack[t]) - 1
                      /\ \A i \in 1 .. Len(stack[t]) : stack[t][i] \in Refs
    OBVIOUS
  <2>1. pc[t] = "entry" /\ holder[TopShard(t)] # NoThread /\ stack[t] # <<>>
    BY DEF Blocked, Shape
  <2>2. stack[t] \in Seq(Refs)
    BY DEF TypeOK
  <2>3. Len(stack[t]) \in Nat \ {0} /\ Top(t) = stack[t][Len(stack[t])]
    BY <2>1, <2>2, PopStack DEF Top
  <2>4. TopShard(t) \in Shards
    BY <2>1, TopOfStack
  <2>5. Open(t) = 1 .. Len(stack[t]) - 1
    BY <2>1 DEF Open
  <2>6. \A i \in 1 .. Len(stack[t]) : stack[t][i] \in Refs
    BY <2>2, ElementOfSeq
  <2>7. QED
    BY <2>1, <2>3, <2>4, <2>5, <2>6 DEF TopShard
<1>2. TopShard(t0) \in W
  <2>1. /\ Len(stack[t0]) \in Nat
        /\ Len(stack[t0]) \in 1 .. Len(stack[t0])
        /\ shardOf[stack[t0][Len(stack[t0])]] = TopShard(t0)
        /\ TopShard(t0) \in Shards
    BY <1>1
  <2>2. QED
    BY <2>1
<1>3. PICK s \in W : \A r \in Refs :
        shardOf[r] = s /\ specification[r] \in Refs
          => shardOf[specification[r]] \notin W
  <2>1. W \in (SUBSET Shards) \ {{}}
    BY <1>2
  <2>2. QED
    BY <2>1 DEF ShardsOrdered
<1>4. PICK t \in Threads, i \in Nat :
        /\ Busy(t)
        /\ i \in 1 .. Len(stack[t])
        /\ shardOf[stack[t][i]] = s
  OBVIOUS
<1>5. \E u \in Threads : holder[s] = u
  <2>1. CASE i = Len(stack[t])
    BY <1>1, <1>4, <2>1 DEF TypeOK
  <2>2. CASE i # Len(stack[t])
    <3>1. i \in Open(t)
      BY <1>1, <1>4, <2>2
    <3>2. QED
      BY <1>4, <3>1 DEF LocksMatchOpenEntries
  <2>3. QED
    BY <2>1, <2>2
<1>6. PICK u \in Threads : \E j \in Open(u) : shardOf[stack[u][j]] = s
  BY <1>5 DEF LocksMatchOpenEntries
<1>7. PICK j \in Open(u) : shardOf[stack[u][j]] = s
  BY <1>6
<1>8. Busy(u)
  <2>1. pc[u] = "idle" => Open(u) = {}
    BY DEF Shape, Open
  <2>2. QED
    BY <1>7, <2>1 DEF Busy
<1>9. /\ j \in 1 .. Len(stack[u]) - 1
      /\ j + 1 \in Nat
      /\ j + 1 \in 1 .. Len(stack[u])
      /\ stack[u][j] \in Refs
      /\ stack[u][j + 1] \in Refs
      /\ specification[stack[u][j]] = stack[u][j + 1]
  <2>1. j \in 1 .. Len(stack[u]) - 1
    BY <1>1, <1>7, <1>8
  <2>2. j \in 1 .. Len(stack[u]) /\ j + 1 \in Nat /\ j + 1 \in 1 .. Len(stack[u])
    BY <1>1, <1>8, <2>1
  <2>3. QED
    BY <1>1, <1>8, <2>1, <2>2 DEF StackFollowsPointers
<1>10. shardOf[stack[u][j + 1]] \in W
  BY <1>8, <1>9 DEF TypeOK
<1>11. QED
  BY <1>3, <1>7, <1>9, <1>10

(* The threads never all wait for shard locks (NoDeadlock). *)
THEOREM DeadlockFree == Spec => []NoDeadlock
<1>1. IInv => NoDeadlock
  BY WaitingIsOrdered DEF NoDeadlock
<1>2. QED
  BY <1>1, Invariance, PTL

-----------------------------------------------------------------------------
(***************************************************************************)
(* The resolver implements MemoTable: Access is Ask, the CloseEntry of a   *)
(* resolver that succeeded is Memoize, Answer is Reply, and every step in  *)
(* between leaves the abstract state alone.                                *)
(***************************************************************************)
Request == [t \in Threads |-> IF Busy(t) THEN call[t] ELSE NoCall]

LEMMA InitMaps == Init => Promise!Init
<1> SUFFICES ASSUME Init PROVE Promise!Init
  OBVIOUS
<1>1. Request = [t \in Threads |-> NoCall]
  BY DEF Init, Request, Busy
<1>2. resolved_references = [r \in {} |-> NoCall]
  BY DEF Init
<1>3. QED
  BY <1>1, <1>2
  DEF Init, Promise!Init, Request, Documents, Promise!Documents, Nodes,
      Promise!Nodes

LEMMA StepMaps == IInv /\ IInv' /\ [Next]_vars => [Promise!Next]_Promise!vars
<1> SUFFICES ASSUME IInv, IInv', [Next]_vars
             PROVE  Promise!Next \/ UNCHANGED Promise!vars
  OBVIOUS
<1> USE DEF IInv
<1>1. ASSUME NEW t \in Threads, NEW a \in Accessors, NEW n \in Nodes,
             Access(t, a, n)
      PROVE  Promise!Next
  <2>1. Request[t] = NoCall
    BY <1>1 DEF Access, Request, Busy
  <2>2. \A u \in Threads : Busy(u)' <=> (Busy(u) \/ u = t)
    BY <1>1 DEF Access, Busy, TypeOK
  <2>3. Request' = [Request EXCEPT ![t] = [accessor |-> a, node |-> n]]
    BY <1>1, <2>2 DEF Access, Request, TypeOK
  <2>4. Promise!Ask(t, a, n)
    BY <1>1, <2>1, <2>3 DEF Access, Request, Promise!Ask, document, table
  <2>5. QED
    BY <2>4 DEF Promise!Next, Promise!Accessors, Promise!Nodes, Accessors, Nodes
<1>2. ASSUME NEW t \in Threads,
             EntryOccupied(t) \/ EntryVacant(t) \/ FollowPointer(t)
             \/ (CloseEntry(t) /\ ret[t] = Missing)
      PROVE  UNCHANGED Promise!vars
  <2>1. \A u \in Threads : Busy(u)' <=> Busy(u)
    BY <1>2 DEF EntryOccupied, EntryVacant, FollowPointer, CloseEntry, Busy,
                TypeOK
  <2>2. /\ call' = call
        /\ specification' = specification
        /\ resolved_references' = resolved_references
        /\ answer' = answer
        /\ calls' = calls
    BY <1>2 DEF EntryOccupied, EntryVacant, FollowPointer, CloseEntry,
                document, table
  <2>3. Request' = Request
    BY <2>1, <2>2 DEF Request
  <2>4. QED
    BY <2>2, <2>3 DEF Promise!vars, Request
<1>3. ASSUME NEW t \in Threads, CloseEntry(t), ret[t] # Missing
      PROVE  Promise!Next
  <2>1. /\ pc[t] = "return"
        /\ stack[t] # <<>>
        /\ resolved_references' = Memo(Top(t), ret[t])
        /\ UNCHANGED <<document, pc, call, answer, calls>>
    BY <1>3 DEF CloseEntry
  <2>2. /\ Top(t) \in Refs
        /\ Top(t) \notin DOMAIN resolved_references
    <3>1. Len(stack[t]) \in Open(t) /\ stack[t][Len(stack[t])] = Top(t)
      BY <1>3, StepOpens
    <3>2. QED
      BY <2>1, <3>1, TopOfStack DEF OpenAreVacant
  <2>3. ret[t] \in Arc
    BY <1>3, <2>1 DEF Shape
  <2>4. \/ specification[Top(t)] = ret[t].val
        \/ /\ specification[Top(t)] \in DOMAIN resolved_references
           /\ resolved_references[specification[Top(t)]] = ret[t]
    BY <1>3, <2>1 DEF ResultsFit, ResultFits
  <2>5. Request' = Request
    BY <2>1 DEF Request, Busy
  <2>6. Request[t] # NoCall
    BY <2>1, ResolverAssumption DEF Request, Busy, Shape
  <2>7. Promise!Memoize(Top(t))
    BY <2>1, <2>2, <2>3, <2>4, <2>5, <2>6
    DEF Promise!Memoize, Memo, Arc, Request, document
  <2>8. QED
    BY <2>2, <2>7 DEF Promise!Next
<1>4. ASSUME NEW t \in Threads, Answer(t)
      PROVE  Promise!Next
  <2>1. /\ pc[t] = "return"
        /\ pc' = [pc EXCEPT ![t] = "idle"]
        /\ answer' = [answer EXCEPT ![t] = answer'[t]]
        /\ answer'[t] \in Answers
        /\ answer'[t] # "pending"
        /\ UNCHANGED <<document, table, call, calls>>
    BY <1>4, ZenonT(40) DEF Answer, TypeOK, Required, Optional, Answers
  <2>2. Request[t] = call[t] /\ call[t] # NoCall
    BY <2>1, ResolverAssumption DEF Request, Busy, Shape
  <2>3. \A u \in Threads : Busy(u)' <=> (Busy(u) /\ u # t)
    BY <2>1 DEF Busy, TypeOK
  <2>4. Request' = [Request EXCEPT ![t] = NoCall]
    BY <2>1, <2>3 DEF Request
  <2>5. Answered(call[t], answer'[t])
    BY <2>1 DEF AnswersCorrect, Answered, document
  <2>6. Promise!Reply(t)
    BY <2>1, <2>2, <2>4, <2>5
    DEF Promise!Reply, Request, document, table, Answers, Promise!Answers, Answered,
        CorrectAnswer, Promise!CorrectAnswer, DanglingIsNone, Promise!DanglingIsNone,
        StandsFor, Promise!StandsFor,
        Leads, Promise!Leads, ClosedFor, Promise!ClosedFor
  <2>7. QED
    BY <2>6 DEF Promise!Next
<1>5. CASE UNCHANGED vars
  <2>1. Request' = Request
    BY <1>5 DEF vars, threadState, Request, Busy
  <2>2. QED
    BY <1>5, <2>1 DEF vars, document, table, threadState, Promise!vars, Request
<1>6. QED
  BY <1>1, <1>2, <1>3, <1>4, <1>5 DEF Next, Work

(***************************************************************************)
(* The resolver, with its shards, locks and stacks of open entries, keeps  *)
(* the promise of MemoTable (ImplementsMemoTable).                         *)
(***************************************************************************)
THEOREM KeepsPromise == Spec => ImplementsMemoTable
<1>1. Spec => Promise!Init /\ [][Promise!Next]_Promise!vars
  BY InitMaps, StepMaps, Invariance, PTL DEF Spec
<1>2. QED
  BY <1>1 DEF ImplementsMemoTable, Promise!Spec

=============================================================================
