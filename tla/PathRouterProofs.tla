--------------------------- MODULE PathRouterProofs ---------------------------
(***************************************************************************)
(* The routing tree and the lookups in it, for any documents, schemas,     *)
(* request paths and threads, and any iteration order of the HashMaps.     *)
(*                                                                         *)
(* While the paths are crawled the invariant says that the node reached is *)
(* spelled by what the template keeps (Trail).  Once the tree is there, a  *)
(* search is at a node every step of which was the first choice (Greedy),  *)
(* and there is one such node of each length, so lookups agree.            *)
(***************************************************************************)
EXTENDS PathRouter, JsonPathsProofs

Nodes == DOMAIN children

(* The nodes are a tree of segments, each below the node it extends. *)
Tree ==
  /\ Root \in Nodes
  /\ children \in [Nodes -> Seq(PathSegment)]
  /\ \A n \in Nodes :
       /\ n \in Seq(PathSegment)
       /\ IsInjective(children[n])
       /\ \A i \in 1 .. Len(children[n]) : Append(n, children[n][i]) \in Nodes
       /\ \A i \in 1 .. Len(n) : /\ SubSeq(n, 1, i - 1) \in Nodes
                                 /\ n[i] \in Range(children[SubSeq(n, 1, i - 1)])

(* Where a template leads: the segments of its first p places that are kept. *)
KeptTo(op, p) ==
  {i \in 1 .. p : op.template[i].parameter => op.template[i].name \in DOMAIN op.declared}

Trail(op, p) ==
  [j \in 1 .. Cardinality(KeptTo(op, p)) |-> Segment(op, Nth(KeptTo(op, p), j))]

(* The crawl is where the places of the template it has passed lead. *)
OnTrail ==
  /\ document \in Documents
  /\ phase \in {"crawling", "ready", "failed"}
  /\ current \in 1 .. Len(document) + 1
  /\ position \in Nat
  /\ node \in Nodes
  /\ phase = "ready" => current = Len(document) + 1
  /\ phase = "crawling" /\ current <= Len(document) =>
       /\ position \in 1 .. Len(Crawled.template) + 1
       /\ node = Trail(Crawled, position - 1)
       /\ \A i \in 1 .. position - 1 : Crawled.template[i].parameter => Crawled.hasParameters

(* The operations before the current one are stored, each at its place. *)
Stored ==
  /\ DOMAIN operations = {Place(i) : i \in 1 .. current - 1}
  /\ \A i \in 1 .. current - 1 :
       /\ HasParameter(document[i]) => document[i].hasParameters
       /\ (\A j \in i + 1 .. current - 1 : Place(j) # Place(i))
            => operations[Place(i)] = document[i]
  /\ \A k \in DOMAIN operations :
       /\ k[1] \in Nodes
       /\ \E i \in 1 .. current - 1 : Place(i) = k /\ operations[k] = document[i]

Crawls == Tree /\ OnTrail /\ Stored

(* A node every segment of which was the first choice at the node above. *)
Greedy(n, segs) ==
  /\ Len(n) <= Len(segs)
  /\ \A i \in 1 .. Len(n) :
       LET above == SubSeq(n, 1, i - 1)
           first == Choice(above, segs[i])
       IN  /\ first # 0
           /\ n[i] = children[above][first]
           /\ Verdict(n[i], segs[i]) = "match"

(* How a search that has come to a node ends there. *)
EndsAt(n, segs, method, a) ==
  IF Len(n) = Len(segs)
  THEN a = IF <<n, method>> \in DOMAIN operations THEN operations[<<n, method>>] ELSE NotFound
  ELSE LET first == Choice(n, segs[Len(n) + 1]) IN
       \/ first = 0 /\ a = NotFound
       \/ /\ first # 0
          /\ Verdict(children[n][first], segs[Len(n) + 1]) = "panic"
          /\ a = Panic

(* The nodes a search for these segments may be at, and what it may return. *)
Reach == [segs \in Seq(Segments) |-> {n \in Nodes : Greedy(n, segs)}]

Outcomes ==
  [segs \in Seq(Segments) |->
     [method \in Methods |->
        {a \in Range(document) \cup {NotFound, Panic} :
           \E n \in Reach[segs] : EndsAt(n, segs, method, a)}]]

Requests == [path : Paths, method : Methods]

(* No lookup has begun before the tree is there. *)
NotYet ==
  phase # "ready" =>
    /\ \A t \in Threads : pc[t] = "idle" /\ answer[t] = Pending /\ at[t] = Root
    /\ DOMAIN resolved_operations = {}

(* Searches, answers and the memo table keep to the first choices. *)
Answered ==
  /\ pc \in [Threads -> {"idle", "entry", "search"}]
  /\ calls \in [Threads -> 0 .. MaxCalls]
  /\ at \in [Threads -> Nodes]
  /\ answer \in [Threads -> Range(document) \cup {NotFound, Panic, Pending}]
  /\ DOMAIN request = Threads
  /\ \A t \in Threads :
       /\ pc[t] # "idle" => /\ request[t] \in Requests
                            /\ answer[t] = Pending
                            /\ at[t] \in Reach[Split[request[t].path]]
       /\ answer[t] # Pending =>
            /\ request[t] \in Requests
            /\ answer[t] \in Outcomes[Split[request[t].path]][request[t].method]
  /\ \A k \in DOMAIN resolved_operations :
       /\ k \in Paths \X Methods
       /\ resolved_operations[k] \in Range(document)
       /\ resolved_operations[k] \in Outcomes[Split[k[1]]][k[2]]

IInv == Crawls /\ NotYet /\ Answered

-----------------------------------------------------------------------------
(* Sequences, numbers and maps *)

LEMMA Inserted ==
  ASSUME NEW S, NEW s \in Seq(S), NEW e \in S, NEW i \in 1 .. Len(s) + 1
  PROVE  /\ InsertAt(s, i, e) \in Seq(S)
         /\ Len(InsertAt(s, i, e)) = Len(s) + 1
         /\ \A j \in 1 .. Len(s) + 1 :
              InsertAt(s, i, e)[j] = IF j < i THEN s[j]
                                     ELSE IF j = i THEN e ELSE s[j - 1]
         /\ Range(InsertAt(s, i, e)) = Range(s) \cup {e}
         /\ IsInjective(s) /\ e \notin Range(s) => IsInjective(InsertAt(s, i, e))
<1> DEFINE a == SubSeq(s, 1, i - 1)
           b == SubSeq(s, i, Len(s))
<1>1. Len(s) \in Nat /\ \A j \in 1 .. Len(s) : s[j] \in S
  BY LenProperties, ElementOfSeq
<1>2. /\ a \in Seq(S) /\ Len(a) = i - 1
      /\ \A j \in 1 .. i - 1 : a[j] = s[j]
  BY <1>1, SubSeqProperties
<1>3. /\ b \in Seq(S) /\ Len(b) = Len(s) - i + 1
      /\ \A j \in 1 .. Len(s) - i + 1 : b[j] = s[i + j - 1]
  BY <1>1, SubSeqProperties
<1> HIDE DEF a, b
<1>4. /\ a \o <<e>> \in Seq(S) /\ Len(a \o <<e>>) = i
      /\ \A j \in 1 .. i : (a \o <<e>>)[j] = IF j < i THEN s[j] ELSE e
  BY <1>2
<1>5. /\ (a \o <<e>>) \o b \in Seq(S)
      /\ Len((a \o <<e>>) \o b) = Len(s) + 1
      /\ \A j \in 1 .. Len(s) + 1 :
           ((a \o <<e>>) \o b)[j] = IF j <= i THEN (a \o <<e>>)[j] ELSE b[j - i]
  <2> DEFINE c == a \o <<e>>
  <2> HIDE DEF c
  <2>1. c \in Seq(S) /\ b \in Seq(S) /\ Len(c) = i /\ Len(b) = Len(s) - i + 1
    BY <1>3, <1>4 DEF c
  <2>2. /\ c \o b \in Seq(S) /\ Len(c \o b) = Len(c) + Len(b)
        /\ \A j \in 1 .. Len(c) + Len(b) :
             (c \o b)[j] = IF j <= Len(c) THEN c[j] ELSE b[j - Len(c)]
    BY <2>1, ConcatProperties
  <2>3. Len(c) + Len(b) = Len(s) + 1
    BY <1>1, <2>1
  <2> QED  BY <2>1, <2>2, <2>3 DEF c
<1>6. InsertAt(s, i, e) = (a \o <<e>>) \o b
  BY DEF InsertAt, a, b
<1> DEFINE r == InsertAt(s, i, e)
<1>7. /\ r \in Seq(S) /\ Len(r) = Len(s) + 1
      /\ \A j \in 1 .. Len(s) + 1 :
           r[j] = IF j < i THEN s[j] ELSE IF j = i THEN e ELSE s[j - 1]
  BY <1>1, <1>3, <1>4, <1>5, <1>6
<1> HIDE DEF r
<1>8. DOMAIN r = 1 .. Len(s) + 1 /\ DOMAIN s = 1 .. Len(s)
  BY <1>1, <1>7, LenProperties
<1>9. Range(r) = Range(s) \cup {e}
  <2>1. ASSUME NEW j \in 1 .. Len(s) + 1  PROVE r[j] \in Range(s) \cup {e}
    <3>1. CASE j < i
      <4>1. r[j] = s[j] /\ j \in 1 .. Len(s)
        BY <1>1, <1>7, <3>1
      <4> QED  BY <1>8, <4>1 DEF Range
    <3>2. CASE j = i
      BY <1>1, <1>7, <3>2
    <3>3. CASE j > i
      <4>1. r[j] = s[j - 1] /\ j - 1 \in 1 .. Len(s)
        BY <1>1, <1>7, <3>3
      <4> QED  BY <1>8, <4>1 DEF Range
    <3> QED  BY <1>1, <1>7, <3>1, <3>2, <3>3
  <2>2. ASSUME NEW j \in 1 .. Len(s)  PROVE s[j] \in Range(r)
    <3>1. CASE j < i
      <4>1. r[j] = s[j] /\ j \in 1 .. Len(s) + 1
        BY <1>1, <1>7, <3>1
      <4>2. \E k \in DOMAIN r : s[j] = r[k]
        BY <1>8, <4>1
      <4> QED  BY <4>2 DEF Range
    <3>2. CASE ~(j < i)
      <4>1. r[j + 1] = s[j] /\ j + 1 \in 1 .. Len(s) + 1
        BY <1>1, <1>7, <3>2
      <4>2. \E k \in DOMAIN r : s[j] = r[k]
        BY <1>8, <4>1
      <4> QED  BY <4>2 DEF Range
    <3> QED  BY <3>1, <3>2
  <2>3. e \in Range(r)
    BY <1>1, <1>7, <1>8 DEF Range
  <2> QED  BY <1>8, <2>1, <2>2, <2>3 DEF Range
<1>10. ASSUME IsInjective(s), e \notin Range(s)
       PROVE  IsInjective(r)
  <2>1. \A j \in 1 .. Len(s) : s[j] # e
    BY <1>8, <1>10 DEF Range
  <2> SUFFICES ASSUME NEW j \in 1 .. Len(s) + 1, NEW k \in 1 .. Len(s) + 1,
                      r[j] = r[k], j < k
               PROVE  FALSE
    BY <1>1, <1>7, <1>8 DEF IsInjective
  <2>2. CASE j = i \/ k = i
    <3>1. \A m \in 1 .. Len(s) + 1 : m # i => r[m] # e
      <4> SUFFICES ASSUME NEW m \in 1 .. Len(s) + 1, m # i  PROVE r[m] # e
        OBVIOUS
      <4>1. m < i \/ m > i
        BY <1>1
      <4>2. CASE m < i
        <5>1. r[m] = s[m] /\ m \in 1 .. Len(s)
          BY <1>1, <1>7, <4>2
        <5> QED  BY <2>1, <5>1
      <4>3. CASE m > i
        <5>1. r[m] = s[m - 1] /\ m - 1 \in 1 .. Len(s)
          BY <1>1, <1>7, <4>3
        <5> QED  BY <2>1, <5>1
      <4> QED  BY <4>1, <4>2, <4>3
    <3>2. r[i] = e /\ j # k
      BY <1>1, <1>7
    <3> QED  BY <2>2, <3>1, <3>2
  <2>3. CASE j # i /\ k # i
    <3> DEFINE o(m) == IF m < i THEN m ELSE m - 1
    <3>1. r[j] = s[o(j)] /\ r[k] = s[o(k)] /\ o(j) \in 1 .. Len(s) /\ o(k) \in 1 .. Len(s)
      <4>1. ASSUME NEW m \in 1 .. Len(s) + 1, m # i
            PROVE  r[m] = s[o(m)] /\ o(m) \in 1 .. Len(s)
        <5>1. CASE m < i
          BY <1>1, <1>7, <5>1
        <5>2. CASE ~(m < i)
          BY <1>1, <1>7, <4>1, <5>2
        <5> QED  BY <5>1, <5>2
      <4> HIDE DEF o
      <4> QED  BY <2>3, <4>1
    <3>2. o(j) # o(k)
      BY <1>1, <1>7, <2>3
    <3> QED  BY <1>8, <1>10, <3>1, <3>2 DEF IsInjective
  <2> QED  BY <2>2, <2>3
<1> QED  BY <1>7, <1>9, <1>10 DEF r

LEMMA Below ==
  ASSUME NEW S, NEW n \in Seq(S), NEW e \in S
  PROVE  /\ Append(n, e) \in Seq(S) /\ Append(n, e) # <<>>
         /\ Len(Append(n, e)) = Len(n) + 1 /\ Len(n) \in Nat
         /\ Append(n, e)[Len(n) + 1] = e
         /\ \A i \in 1 .. Len(n) : Append(n, e)[i] = n[i]
         /\ \A i \in 0 .. Len(n) : SubSeq(Append(n, e), 1, i) = SubSeq(n, 1, i)
         /\ SubSeq(Append(n, e), 1, Len(n)) = n
<1>1. \A i \in 0 .. Len(n) : SubSeq(Append(n, e), 1, i) = SubSeq(n, 1, i)
  OBVIOUS
<1> QED  BY <1>1, AppendProperties, SubSeqFull, LenProperties

-----------------------------------------------------------------------------
(* The tree *)

LEMMA TreeInit == Init => Tree
<1> SUFFICES ASSUME Init  PROVE Tree
  OBVIOUS
<1>1. Nodes = {<<>>} /\ children[<<>>] = <<>> /\ children = [n \in {<<>>} |-> <<>>]
  BY DEF Init, Nodes, Root
<1>2. <<>> \in Seq(PathSegment) /\ Len(<<>>) = 0 /\ IsInjective(<<>>)
  BY DEF IsInjective
<1> QED  BY <1>1, <1>2 DEF Tree, Root

(* Entering a segment keeps the tree, and no node is ever lost. *)
LEMMA TreeEnter ==
  ASSUME Tree, node \in Nodes, NEW seg \in PathSegment, Enter(seg)
  PROVE  /\ Tree'
         /\ Nodes \subseteq Nodes'
         /\ node' = Append(node, seg) /\ node' \in Nodes'
         /\ \A n \in Nodes : Range(children[n]) \subseteq Range(children'[n])
<1> DEFINE child == Append(node, seg)
<1>1. node \in Seq(PathSegment) /\ child \in Seq(PathSegment) /\ child # node
  BY AppendProperties, LenProperties DEF Tree
<1>2. node' = child
  BY DEF Enter
<1>3. CASE child \in Nodes
  BY <1>2, <1>3 DEF Enter, Nodes, Tree
<1>4. CASE child \notin Nodes
  <2>1. PICK i \in 1 .. Len(children[node]) + 1 :
          children' = With(With(children, child, <<>>), node, InsertAt(children[node], i, seg))
    BY <1>4 DEF Enter, Nodes
  <2> DEFINE old == children[node]
             new == InsertAt(old, i, seg)
  <2>2. old \in Seq(PathSegment) /\ IsInjective(old)
    BY DEF Tree
  <2>3. seg \notin Range(old)
    <3>1. \A j \in 1 .. Len(old) : Append(node, old[j]) \in Nodes
      BY DEF Tree
    <3>2. DOMAIN old = 1 .. Len(old)
      BY <2>2, LenProperties
    <3> QED  BY <1>4, <3>1, <3>2 DEF Range
  <2>4. /\ new \in Seq(PathSegment) /\ IsInjective(new)
        /\ Range(new) = Range(old) \cup {seg}
    BY <2>2, <2>3, Inserted
  <2>5. /\ Nodes' = Nodes \cup {child}
        /\ children'[node] = new /\ children'[child] = <<>>
        /\ \A n \in Nodes : n # node => children'[n] = children[n]
        /\ children' = [n \in Nodes' |-> children'[n]]
    BY <1>1, <1>4, <2>1 DEF With, Nodes
  <2> HIDE DEF new, old, child
  <2>6. <<>> \in Seq(PathSegment) /\ Len(<<>>) = 0 /\ IsInjective(<<>>)
    BY DEF IsInjective
  <2>7. children' \in [Nodes' -> Seq(PathSegment)]
    BY <2>4, <2>5, <2>6 DEF Tree
  <2>8. \A n \in Nodes : Range(children[n]) \subseteq Range(children'[n])
    BY <2>4, <2>5 DEF old
  <2>9. ASSUME NEW n \in Nodes'
        PROVE  /\ n \in Seq(PathSegment)
               /\ IsInjective(children'[n])
               /\ \A j \in 1 .. Len(children'[n]) : Append(n, children'[n][j]) \in Nodes'
    <3>1. CASE n = child
      BY <1>1, <2>5, <2>6, <3>1 DEF child
    <3>2. CASE n = node
      <4>1. \A j \in 1 .. Len(new) : new[j] \in Range(old) \cup {seg}
        <5>1. DOMAIN new = 1 .. Len(new)
          BY <2>4, LenProperties
        <5> QED  BY <2>4, <5>1 DEF Range
      <4>2. \A x \in Range(old) : Append(node, x) \in Nodes
        <5>1. DOMAIN old = 1 .. Len(old)
          BY <2>2, LenProperties
        <5> QED  BY <5>1 DEF Range, Tree, old
      <4>3. \A j \in 1 .. Len(new) : Append(node, new[j]) \in Nodes'
        BY <2>5, <4>1, <4>2 DEF child
      <4> QED  BY <1>1, <2>4, <2>5, <3>2, <4>3
    <3>3. CASE n \in Nodes /\ n # node
      BY <2>5, <3>3 DEF Tree
    <3> QED  BY <2>5, <3>1, <3>2, <3>3
  <2>10. ASSUME NEW n \in Nodes', NEW j \in 1 .. Len(n)
         PROVE  /\ SubSeq(n, 1, j - 1) \in Nodes'
                /\ n[j] \in Range(children'[SubSeq(n, 1, j - 1)])
    <3>1. CASE n \in Nodes
      BY <2>5, <2>8, <3>1 DEF Tree
    <3>2. CASE n = child /\ j <= Len(node)
      <4>1. SubSeq(child, 1, j - 1) = SubSeq(node, 1, j - 1) /\ child[j] = node[j]
        BY <1>1, <3>2, Below DEF child
      <4>2. SubSeq(node, 1, j - 1) \in Nodes /\ node[j] \in Range(children[SubSeq(node, 1, j - 1)])
        BY <3>2, <1>1, LenProperties DEF Tree
      <4> QED  BY <2>5, <2>8, <3>2, <4>1, <4>2
    <3>3. CASE n = child /\ ~(j <= Len(node))
      <4>1. j = Len(node) + 1
        BY <1>1, <3>3, Below DEF child
      <4>2. SubSeq(child, 1, j - 1) = node /\ child[j] = seg
        BY <1>1, <4>1, Below DEF child
      <4> QED  BY <2>4, <2>5, <3>3, <4>2
    <3> QED  BY <2>5, <3>1, <3>2, <3>3
  <2>11. Tree'
    <3>1. Root \in Nodes'
      BY <2>5 DEF Tree
    <3> QED  BY <2>7, <2>9, <2>10, <3>1 DEF Tree
  <2> QED  BY <1>2, <2>5, <2>8, <2>11 DEF child
<1> QED  BY <1>3, <1>4
-----------------------------------------------------------------------------
(* Trails *)

LEMMA TrailEnd == \A op : Resolved(op) = Trail(op, Len(op.template))
BY DEF Resolved, Trail, Kept, KeptTo

LEMMA NumbersFinite ==
  ASSUME NEW p \in Nat, NEW S \in SUBSET (1 .. p)
  PROVE  IsFiniteSet(S) /\ Cardinality(S) \in Nat
<1>1. IsFiniteSet(1 .. p)
  BY FS_Interval
<1>2. IsFiniteSet(S)
  BY <1>1, FS_Subset
<1> QED  BY <1>2, FS_CardinalityType

(* A number above all others comes last, and moves none of them. *)
LEMMA RankedAbove ==
  ASSUME NEW p \in Nat, NEW S \in SUBSET (1 .. p), NEW j
  PROVE  /\ j = Cardinality(S) + 1 => Ranked(S \cup {p + 1}, j) = {p + 1}
         /\ j # Cardinality(S) + 1 => Ranked(S \cup {p + 1}, j) = Ranked(S, j)
<1> DEFINE T == S \cup {p + 1}
<1>1. /\ IsFiniteSet(S) /\ Cardinality(S) \in Nat
      /\ Cardinality(T) = Cardinality(S) + 1
  BY NumbersFinite, FS_AddElement
<1>2. ASSUME NEW i \in S
      PROVE  /\ {k \in T : k <= i} = {k \in S : k <= i}
             /\ Cardinality({k \in S : k <= i}) # Cardinality(S) + 1
  <2>1. {k \in S : k <= i} \subseteq S
    OBVIOUS
  <2>2. /\ Cardinality({k \in S : k <= i}) \in Nat
        /\ Cardinality({k \in S : k <= i}) <= Cardinality(S)
    BY <1>1, <2>1, FS_Subset, FS_CardinalityType
  <2> QED  BY <1>1, <2>2
<1>3. {k \in T : k <= p + 1} = T
  <2>1. \A k \in T : k <= p + 1
    OBVIOUS
  <2> HIDE DEF T
  <2> QED  BY <2>1
<1>4. p + 1 \notin S
  OBVIOUS
<1>5. Ranked(T, j) = {i \in S : Cardinality({k \in S : k <= i}) = j}
                       \cup {i \in {p + 1} : Cardinality(S) + 1 = j}
  <2> DEFINE F(i) == Cardinality({k \in T : k <= i})
             G(i) == Cardinality({k \in S : k <= i})
  <2>1. F(p + 1) = Cardinality(S) + 1
    BY <1>1, <1>3
  <2>2. \A i \in S : F(i) = G(i)
    BY <1>2
  <2>3. Ranked(T, j) = {i \in T : F(i) = j}
    BY DEF Ranked
  <2> HIDE DEF F, G
  <2>4. {i \in T : F(i) = j} = {i \in S : G(i) = j} \cup {i \in {p + 1} : F(p + 1) = j}
    BY <2>2
  <2> QED  BY <2>1, <2>3, <2>4 DEF G
<1>6. CASE j = Cardinality(S) + 1
  BY <1>2, <1>5, <1>6
<1>7. CASE j # Cardinality(S) + 1
  BY <1>5, <1>7 DEF Ranked
<1> QED  BY <1>6, <1>7

LEMMA TrailStart == \A op : Trail(op, 0) = <<>>
<1> SUFFICES ASSUME NEW op  PROVE Trail(op, 0) = <<>>
  OBVIOUS
<1>1. KeptTo(op, 0) = {}
  BY DEF KeptTo
<1>2. Cardinality({}) = 0 /\ 1 .. 0 = {}
  BY FS_EmptySet
<1>3. Trail(op, 0) = [j \in {} |-> Segment(op, Nth(KeptTo(op, 0), j))]
  BY <1>1, <1>2 DEF Trail
<1> QED  BY <1>3

LEMMA TrailSkips ==
  ASSUME NEW op, NEW p \in Nat,
         op.template[p + 1].parameter, op.template[p + 1].name \notin DOMAIN op.declared
  PROVE  Trail(op, p + 1) = Trail(op, p)
<1>1. KeptTo(op, p + 1) = KeptTo(op, p)
  BY DEF KeptTo
<1> QED  BY <1>1 DEF Trail

LEMMA TrailEnters ==
  ASSUME NEW op, NEW p \in Nat,
         op.template[p + 1].parameter => op.template[p + 1].name \in DOMAIN op.declared,
         Trail(op, p) \in Seq(PathSegment), Segment(op, p + 1) \in PathSegment
  PROVE  Trail(op, p + 1) = Append(Trail(op, p), Segment(op, p + 1))
<1> DEFINE S == KeptTo(op, p)
           m == Cardinality(S)
<1>1. KeptTo(op, p + 1) = S \cup {p + 1} /\ S \in SUBSET (1 .. p) /\ p + 1 \notin S
  BY DEF KeptTo
<1> HIDE DEF S
<1>2. m \in Nat /\ Cardinality(S \cup {p + 1}) = m + 1
  BY <1>1, NumbersFinite, FS_AddElement
<1>3. Nth(S \cup {p + 1}, m + 1) = p + 1
  <2>1. Ranked(S \cup {p + 1}, m + 1) = {p + 1}
    BY <1>1, RankedAbove
  <2> QED  BY <2>1 DEF Nth
<1>4. \A j \in 1 .. m : Nth(S \cup {p + 1}, j) = Nth(S, j)
  <2>1. \A j \in 1 .. m : Ranked(S \cup {p + 1}, j) = Ranked(S, j)
    <3> SUFFICES ASSUME NEW j \in 1 .. m
                 PROVE  Ranked(S \cup {p + 1}, j) = Ranked(S, j)
      OBVIOUS
    <3>1. j # Cardinality(S) + 1
      BY <1>2
    <3> HIDE DEF m
    <3> QED  BY <1>1, <3>1, RankedAbove
  <2> QED  BY <2>1 DEF Nth
<1>5. /\ Trail(op, p) = [j \in 1 .. m |-> Segment(op, Nth(S, j))]
      /\ Trail(op, p + 1) = [j \in 1 .. m + 1 |-> Segment(op, Nth(S \cup {p + 1}, j))]
  BY <1>1, <1>2 DEF Trail, S
<1>6. Len(Trail(op, p)) = m
  <2>1. DOMAIN Trail(op, p) = 1 .. m /\ DOMAIN Trail(op, p) = 1 .. Len(Trail(op, p))
        /\ Len(Trail(op, p)) \in Nat
    BY <1>5, LenProperties
  <2> QED  BY <1>2, <2>1
<1> DEFINE b == Append(Trail(op, p), Segment(op, p + 1))
<1>7. /\ b \in Seq(PathSegment) /\ Len(b) = m + 1 /\ b[m + 1] = Segment(op, p + 1)
      /\ \A j \in 1 .. m : b[j] = Segment(op, Nth(S, j))
  BY <1>2, <1>5, <1>6, AppendProperties
<1>8. b = [j \in 1 .. m + 1 |-> b[j]]
  BY <1>7, LenProperties
<1>9. \A j \in 1 .. m + 1 : b[j] = Segment(op, Nth(S \cup {p + 1}, j))
  <2>1. \A j \in 1 .. m + 1 : j \in 1 .. m \/ j = m + 1
    BY <1>2
  <2> HIDE DEF b, m
  <2> QED  BY <2>1, <1>3, <1>4, <1>7
<1> HIDE DEF b, m
<1>10. [j \in 1 .. m + 1 |-> b[j]] = [j \in 1 .. m + 1 |-> Segment(op, Nth(S \cup {p + 1}, j))]
  BY <1>9
<1> QED  BY <1>5, <1>8, <1>10 DEF b

(* All of the first p places are kept: the trail spells them. *)
LEMMA TrailFull ==
  ASSUME NEW op, NEW p \in Nat, KeptTo(op, p) = 1 .. p
  PROVE  Trail(op, p) = [i \in 1 .. p |-> Segment(op, i)]
<1>1. Cardinality(1 .. p) = p
  BY FS_Interval
<1>2. ASSUME NEW j \in 1 .. p  PROVE Nth(1 .. p, j) = j
  <2>1. ASSUME NEW i \in 1 .. p  PROVE Cardinality({k \in 1 .. p : k <= i}) = i
    <3>1. {k \in 1 .. p : k <= i} = 1 .. i
      OBVIOUS
    <3>2. Cardinality(1 .. i) = i
      BY FS_Interval
    <3> QED  BY <3>1, <3>2
  <2>2. Ranked(1 .. p, j) = {j}
    BY <2>1 DEF Ranked
  <2> QED  BY <2>2 DEF Nth
<1> QED  BY <1>1, <1>2 DEF Trail

(* A place of a template that is kept is a segment of the tree. *)
LEMMA OperationTyped ==
  ASSUME NEW op \in Operation, NEW i \in 1 .. Len(op.template)
  PROVE  /\ op.template[i] \in [parameter : BOOLEAN, name : Names]
         /\ (op.template[i].parameter => op.template[i].name \in DOMAIN op.declared)
              => Segment(op, i) \in PathSegment
<1>1. op.template \in Seq([parameter : BOOLEAN, name : Names])
  BY DEF Operation, Template
<1>2. op.template[i] \in [parameter : BOOLEAN, name : Names]
  BY <1>1, ElementOfSeq
<1>3. \A n \in DOMAIN op.declared : op.declared[n] \in Schemas
  BY DEF Operation, Declared
<1> QED  BY <1>2, <1>3 DEF Segment, PathSegment

LEMMA DocumentTyped ==
  ASSUME document \in Documents
  PROVE  /\ document \in Seq(Operation) /\ Len(document) \in Nat
         /\ \A i \in 1 .. Len(document) :
              /\ document[i] \in Operation
              /\ document[i] \in Range(document)
              /\ Len(document[i].template) \in Nat
         /\ \A op \in Range(document) : op \in Operation
<1>1. document \in Seq(Operation)
  BY RouterAssumption
<1>2. /\ Len(document) \in Nat /\ DOMAIN document = 1 .. Len(document)
      /\ \A i \in 1 .. Len(document) : document[i] \in Operation
  BY <1>1, LenProperties, ElementOfSeq
<1>3. \A op \in Operation : Len(op.template) \in Nat
  BY LenProperties DEF Operation, Template
<1> QED  BY <1>1, <1>2, <1>3 DEF Range

-----------------------------------------------------------------------------
(* Crawling *)

LEMMA CrawlInit == Init => Crawls
<1> SUFFICES ASSUME Init  PROVE Crawls
  OBVIOUS
<1>1. /\ document \in Documents /\ phase = "crawling" /\ current = 1 /\ position = 1
      /\ node = Root /\ Nodes = {Root} /\ operations = [k \in {} |-> Pending]
  BY DEF Init, Nodes
<1>2. Len(document) \in Nat /\ \A i \in 1 .. Len(document) : Len(document[i].template) \in Nat
  BY <1>1, DocumentTyped
<1>3. Trail(Crawled, 0) = Root
  BY TrailStart DEF Root
<1>4. OnTrail
  <2>1. current \in 1 .. Len(document) + 1
    BY <1>1, <1>2
  <2>2. current <= Len(document) =>
          /\ position \in 1 .. Len(Crawled.template) + 1
          /\ position - 1 = 0 /\ 1 .. 0 = {}
    BY <1>1, <1>2 DEF Crawled
  <2> QED  BY <1>1, <1>3, <2>1, <2>2 DEF OnTrail
<1>5. Stored
  <2>1. current - 1 = 0 /\ 1 .. 0 = {}
    BY <1>1
  <2>2. DOMAIN operations = {}
    BY <1>1
  <2> QED  BY <2>1, <2>2 DEF Stored
<1> QED  BY <1>4, <1>5, TreeInit DEF Crawls

(* The place the crawl is at, and what it knows there. *)
LEMMA AtPlace ==
  ASSUME OnTrail, AtSegment
  PROVE  /\ Crawled \in Operation /\ current \in 1 .. Len(document)
         /\ position \in 1 .. Len(Crawled.template)
         /\ position \in Nat /\ position - 1 \in Nat /\ (position - 1) + 1 = position
         /\ (position + 1) - 1 = position
         /\ node = Trail(Crawled, position - 1)
         /\ Len(document) \in Nat /\ Len(Crawled.template) \in Nat
<1>1. document \in Documents /\ current \in 1 .. Len(document) + 1
  BY DEF OnTrail
<1>2. Len(document) \in Nat
  BY <1>1, DocumentTyped
<1>3. current \in 1 .. Len(document)
  BY <1>1, <1>2 DEF AtSegment
<1>4. Crawled \in Operation /\ Len(Crawled.template) \in Nat
  BY <1>1, <1>3, DocumentTyped DEF Crawled
<1>5. /\ position \in 1 .. Len(Crawled.template) + 1 /\ position <= Len(Crawled.template)
      /\ node = Trail(Crawled, position - 1)
  BY DEF OnTrail, AtSegment
<1> QED  BY <1>2, <1>3, <1>4, <1>5

(* The next place is entered: the tree, the trail and the store go on. *)
LEMMA PlaceEntered ==
  ASSUME Crawls, AtSegment,
         TemplateSegment.parameter => TemplateSegment.name \in DOMAIN Crawled.declared,
         TemplateSegment.parameter => Crawled.hasParameters,
         Enter(Segment(Crawled, position)),
         UNCHANGED <<document, phase, current, operations>>
  PROVE  Crawls' /\ Nodes \subseteq Nodes'
<1>1. Tree /\ OnTrail /\ Stored /\ node \in Nodes
  BY DEF Crawls, OnTrail
<1>2. /\ Crawled \in Operation /\ current \in 1 .. Len(document)
      /\ position \in 1 .. Len(Crawled.template)
      /\ position \in Nat /\ position - 1 \in Nat /\ (position - 1) + 1 = position
      /\ (position + 1) - 1 = position
      /\ node = Trail(Crawled, position - 1)
      /\ Len(document) \in Nat /\ Len(Crawled.template) \in Nat
  BY <1>1, AtPlace
<1>3. Segment(Crawled, position) \in PathSegment
  BY <1>2, OperationTyped DEF TemplateSegment
<1>4. /\ Tree' /\ Nodes \subseteq Nodes' /\ node' \in Nodes'
      /\ node' = Append(node, Segment(Crawled, position))
  BY <1>1, <1>3, TreeEnter
<1>5. node \in Seq(PathSegment)
  BY <1>1 DEF Tree
<1>6. Trail(Crawled, position) = Append(node, Segment(Crawled, position))
  <2>1. Crawled.template[(position - 1) + 1].parameter
          => Crawled.template[(position - 1) + 1].name \in DOMAIN Crawled.declared
    BY <1>2 DEF TemplateSegment
  <2> QED  BY <1>2, <1>3, <1>5, <2>1, TrailEnters
<1>7. Crawled' = Crawled /\ position' = position + 1
  BY DEF Crawled, Enter
<1>8. \A i \in 1 .. position : Crawled.template[i].parameter => Crawled.hasParameters
  <2>1. \A i \in 1 .. position - 1 : Crawled.template[i].parameter => Crawled.hasParameters
    BY <1>1 DEF OnTrail, AtSegment
  <2>2. \A i \in 1 .. position : i \in 1 .. position - 1 \/ i = position
    BY <1>2
  <2> QED  BY <2>1, <2>2 DEF TemplateSegment
<1>9. OnTrail'
  <2>1. position' \in 1 .. Len(Crawled'.template) + 1 /\ position' - 1 = position
        /\ position' \in Nat
    BY <1>2, <1>7
  <2>2. node' = Trail(Crawled', position' - 1)
    BY <1>4, <1>6, <1>7, <2>1
  <2>3. \A i \in 1 .. position' - 1 : Crawled'.template[i].parameter => Crawled'.hasParameters
    BY <1>7, <1>8, <2>1
  <2>4. /\ document' = document /\ phase' = phase /\ current' = current
        /\ document \in Documents /\ phase = "crawling" /\ current \in 1 .. Len(document) + 1
    BY <1>1 DEF OnTrail, AtSegment
  <2> QED  BY <1>4, <2>1, <2>2, <2>3, <2>4 DEF OnTrail
<1>10. Stored'
  <2>1. \A k \in DOMAIN operations : k[1] \in Nodes'
    BY <1>1, <1>4 DEF Stored
  <2> QED  BY <1>1, <2>1 DEF Stored, Place
<1> QED  BY <1>4, <1>9, <1>10 DEF Crawls

LEMMA StillStored ==
  ASSUME Tree, Stored, UNCHANGED <<document, current, children, operations>>
  PROVE  Tree' /\ Stored' /\ Nodes' = Nodes
<1>1. \A i : Place(i)' = Place(i)
  BY DEF Place
<1>2. Tree' /\ Nodes' = Nodes
  BY DEF Tree, Nodes
<1> QED  BY <1>1, <1>2 DEF Stored

LEMMA CrawlsOn ==
  ASSUME Crawls, Crawl
  PROVE  /\ Crawls' /\ Nodes \subseteq Nodes'
         /\ phase = "crawling" /\ UNCHANGED <<document, lookups>>
<1>1. Tree /\ OnTrail /\ Stored /\ node \in Nodes
  BY DEF Crawls, OnTrail
<1>2. document \in Documents /\ Len(document) \in Nat /\ current \in 1 .. Len(document) + 1
  BY <1>1, DocumentTyped DEF OnTrail
<1>3. phase = "crawling" /\ UNCHANGED <<document, lookups>>
  BY DEF Crawl, AtSegment, CrawlStatic, CrawlParameter, CrawlUndeclared, CrawlFails,
         StoreOperation, EndCrawl
<1>4. ASSUME AtSegment
      PROVE  /\ TemplateSegment.parameter \in BOOLEAN
             /\ Segment(Crawled, position) =
                  [parameter |-> TemplateSegment.parameter, name |-> TemplateSegment.name,
                   schema |-> IF TemplateSegment.parameter
                              THEN Crawled.declared[TemplateSegment.name] ELSE NoSchema]
  <2>1. Crawled \in Operation /\ position \in 1 .. Len(Crawled.template)
    BY <1>1, <1>4, AtPlace
  <2>2. TemplateSegment \in [parameter : BOOLEAN, name : Names]
    BY <2>1, OperationTyped DEF TemplateSegment
  <2> QED  BY <2>2 DEF Segment, TemplateSegment
<1>5. CASE CrawlStatic
  <2>1. AtSegment /\ ~TemplateSegment.parameter
    BY <1>5 DEF CrawlStatic
  <2>2. Segment(Crawled, position) =
          [parameter |-> FALSE, name |-> TemplateSegment.name, schema |-> NoSchema]
    BY <1>4, <2>1
  <2>3. Enter(Segment(Crawled, position)) /\ UNCHANGED <<document, phase, current, operations>>
    BY <1>5, <2>2 DEF CrawlStatic
  <2> QED  BY <1>3, <2>1, <2>3, PlaceEntered
<1>6. CASE CrawlParameter
  <2>1. /\ AtSegment /\ TemplateSegment.parameter /\ Crawled.hasParameters
        /\ TemplateSegment.name \in DOMAIN Crawled.declared
    BY <1>6 DEF CrawlParameter
  <2>2. Segment(Crawled, position) =
          [parameter |-> TRUE, name |-> TemplateSegment.name,
           schema |-> Crawled.declared[TemplateSegment.name]]
    BY <1>4, <2>1
  <2>3. Enter(Segment(Crawled, position)) /\ UNCHANGED <<document, phase, current, operations>>
    BY <1>6, <2>2 DEF CrawlParameter
  <2> QED  BY <1>3, <2>1, <2>3, PlaceEntered
<1>7. CASE CrawlUndeclared
  <2>1. /\ AtSegment /\ TemplateSegment.parameter /\ Crawled.hasParameters
        /\ TemplateSegment.name \notin DOMAIN Crawled.declared
        /\ position' = position + 1
        /\ UNCHANGED <<document, phase, current, node, children, operations>>
    BY <1>7 DEF CrawlUndeclared
  <2>2. /\ Crawled \in Operation /\ position \in 1 .. Len(Crawled.template)
        /\ position \in Nat /\ position - 1 \in Nat /\ (position - 1) + 1 = position
        /\ (position + 1) - 1 = position
        /\ node = Trail(Crawled, position - 1)
        /\ Len(Crawled.template) \in Nat
    BY <1>1, <2>1, AtPlace
  <2>3. Trail(Crawled, position) = node
    <3>1. /\ Crawled.template[(position - 1) + 1].parameter
          /\ Crawled.template[(position - 1) + 1].name \notin DOMAIN Crawled.declared
      BY <2>1, <2>2 DEF TemplateSegment
    <3> QED  BY <2>2, <3>1, TrailSkips
  <2>4. \A i \in 1 .. position : Crawled.template[i].parameter => Crawled.hasParameters
    BY <2>1
  <2>5. position' \in 1 .. Len(Crawled.template) + 1 /\ position' - 1 = position
        /\ position' \in Nat /\ Crawled' = Crawled
    BY <2>1, <2>2 DEF Crawled
  <2>6. OnTrail'
    BY <1>1, <2>1, <2>3, <2>4, <2>5 DEF OnTrail, AtSegment, Nodes
  <2>7. Tree' /\ Stored' /\ Nodes' = Nodes
    BY <1>1, <2>1, StillStored
  <2> QED  BY <1>3, <2>6, <2>7 DEF Crawls
<1>8. CASE CrawlFails
  <2>1. /\ phase' = "failed"
        /\ UNCHANGED <<document, current, position, node, children, operations>>
    BY <1>8 DEF CrawlFails
  <2>2. Tree' /\ Stored' /\ Nodes' = Nodes
    BY <1>1, <2>1, StillStored
  <2>3. OnTrail'
    BY <1>1, <2>1, <2>2 DEF OnTrail
  <2> QED  BY <1>3, <2>2, <2>3 DEF Crawls
<1>9. CASE StoreOperation
  <2>1. /\ current <= Len(document) /\ position > Len(Crawled.template)
        /\ operations' = With(operations, <<node, Crawled.method>>, Crawled)
        /\ current' = current + 1 /\ position' = 1 /\ node' = Root
        /\ UNCHANGED <<document, phase, children>>
    BY <1>9 DEF StoreOperation
  <2>2. /\ current \in 1 .. Len(document) /\ current' \in 1 .. Len(document) + 1
        /\ current' - 1 = current
    BY <1>2, <2>1
  <2>3. /\ position = Len(Crawled.template) + 1 /\ Len(Crawled.template) \in Nat
        /\ node = Trail(Crawled, Len(Crawled.template))
        /\ \A i \in 1 .. Len(Crawled.template) :
             Crawled.template[i].parameter => Crawled.hasParameters
    <3>1. /\ position \in 1 .. Len(Crawled.template) + 1
          /\ node = Trail(Crawled, position - 1)
          /\ \A i \in 1 .. position - 1 : Crawled.template[i].parameter => Crawled.hasParameters
      BY <1>1, <1>3, <2>1 DEF OnTrail
    <3>2. Len(Crawled.template) \in Nat
      BY <1>2, <2>2, DocumentTyped DEF Crawled
    <3>3. position = Len(Crawled.template) + 1 /\ position - 1 = Len(Crawled.template)
      BY <2>1, <3>1, <3>2
    <3> QED  BY <3>1, <3>2, <3>3
  <2>4. Place(current) = <<node, Crawled.method>>
    BY <2>3, TrailEnd DEF Place, Crawled
  <2>5. /\ DOMAIN operations' = DOMAIN operations \cup {Place(current)}
        /\ operations'[Place(current)] = document[current]
        /\ \A k \in DOMAIN operations : k # Place(current) => operations'[k] = operations[k]
    <3>1. operations' = With(operations, Place(current), document[current])
      BY <2>1, <2>4 DEF Crawled
    <3> HIDE DEF Crawled
    <3> QED  BY <3>1 DEF With
  <2>6. \A i : Place(i)' = Place(i)
    BY <2>1 DEF Place
  <2>7. \A i \in 1 .. current : i \in 1 .. current - 1 \/ i = current
    BY <2>2
  <2>8. Tree' /\ Nodes' = Nodes
    BY <1>1, <2>1 DEF Tree, Nodes
  <2>9. OnTrail'
    <3>1. Root \in Nodes
      BY <1>1 DEF Tree
    <3>2. Trail(Crawled', 0) = Root
      BY TrailStart DEF Root
    <3>3. current' <= Len(document) => Len(Crawled'.template) \in Nat
      BY <1>2, <2>1, <2>2, DocumentTyped DEF Crawled
    <3>4. position' - 1 = 0 /\ 1 .. 0 = {} /\ position' \in Nat
      BY <2>1
    <3>5. current' <= Len(document) => position' \in 1 .. Len(Crawled'.template) + 1
      BY <2>1, <3>3
    <3> QED  BY <1>1, <1>3, <2>1, <2>2, <2>8, <3>1, <3>2, <3>4, <3>5 DEF OnTrail
  <2>10. Stored'
    <3> DEFINE Here(i) ==
          /\ HasParameter(document[i]) => document[i].hasParameters
          /\ (\A j \in i + 1 .. current : Place(j) # Place(i))
               => operations'[Place(i)] = document[i]
    <3>1. DOMAIN operations' = {Place(i) : i \in 1 .. current}
      <4>1. {Place(i) : i \in 1 .. current} = {Place(i) : i \in 1 .. current - 1} \cup {Place(current)}
        BY <2>2, <2>7
      <4> QED  BY <1>1, <2>5, <4>1 DEF Stored
    <3>2. ASSUME NEW i \in 1 .. current  PROVE Here(i)
      <4>1. CASE i = current
        BY <2>3, <2>5, <4>1 DEF HasParameter, Crawled
      <4>2. CASE i \in 1 .. current - 1
        <5>1. HasParameter(document[i]) => document[i].hasParameters
          BY <1>1, <4>2 DEF Stored
        <5>2. ASSUME \A j \in i + 1 .. current : Place(j) # Place(i)
              PROVE  operations'[Place(i)] = document[i]
          <6>1. current \in i + 1 .. current /\ \A j \in i + 1 .. current - 1 : j \in i + 1 .. current
            BY <2>2, <4>2
          <6>2. operations[Place(i)] = document[i] /\ Place(i) \in DOMAIN operations
            BY <1>1, <4>2, <5>2, <6>1 DEF Stored
          <6> QED  BY <2>5, <5>2, <6>1, <6>2
        <5> QED  BY <5>1, <5>2
      <4> QED  BY <2>7, <4>1, <4>2
    <3>3. ASSUME NEW k \in DOMAIN operations'
          PROVE  k[1] \in Nodes /\ \E i \in 1 .. current : Place(i) = k /\ operations'[k] = document[i]
      <4>1. CASE k = Place(current)
        BY <1>1, <2>2, <2>4, <2>5, <4>1
      <4>2. CASE k # Place(current)
        <5>1. k \in DOMAIN operations /\ operations'[k] = operations[k]
          BY <2>5, <4>2
        <5>2. PICK i \in 1 .. current - 1 : Place(i) = k /\ operations[k] = document[i]
          BY <1>1, <5>1 DEF Stored
        <5>3. i \in 1 .. current
          BY <2>2
        <5> QED  BY <1>1, <5>1, <5>2, <5>3 DEF Stored
      <4> QED  BY <4>1, <4>2
    <3>4. current' - 1 = current /\ document' = document
      BY <2>1, <2>2
    <3> QED  BY <2>6, <2>8, <3>1, <3>2, <3>3, <3>4 DEF Stored
  <2> QED  BY <1>3, <2>8, <2>9, <2>10 DEF Crawls
<1>10. CASE EndCrawl
  <2>1. /\ current > Len(document) /\ phase' = "ready"
        /\ UNCHANGED <<document, current, position, node, children, operations>>
    BY <1>10 DEF EndCrawl
  <2>2. current = Len(document) + 1
    BY <1>2, <2>1
  <2>3. Tree' /\ Stored' /\ Nodes' = Nodes
    BY <1>1, <2>1, StillStored
  <2>4. OnTrail'
    BY <1>1, <2>1, <2>2, <2>3 DEF OnTrail
  <2> QED  BY <1>3, <2>3, <2>4 DEF Crawls
<1> QED  BY <1>5, <1>6, <1>7, <1>8, <1>9, <1>10 DEF Crawl

-----------------------------------------------------------------------------
(* Choosing a child *)

LEMMA ChoiceIsFirst ==
  ASSUME Tree, NEW n \in Nodes, NEW segment
  PROVE  /\ Choice(n, segment) \in 0 .. Len(children[n])
         /\ Choice(n, segment) # 0 =>
              /\ Verdict(children[n][Choice(n, segment)], segment) # "pass"
              /\ children[n][Choice(n, segment)] \in Range(children[n])
              /\ children[n][Choice(n, segment)] \in PathSegment
              /\ Append(n, children[n][Choice(n, segment)]) \in Nodes
         /\ \A i \in 1 .. Len(children[n]) :
              Verdict(children[n][i], segment) # "pass" => Choice(n, segment) # 0
<1> DEFINE I == {i \in 1 .. Len(children[n]) : Verdict(children[n][i], segment) # "pass"}
<1>1. /\ children[n] \in Seq(PathSegment) /\ Len(children[n]) \in Nat
      /\ DOMAIN children[n] = 1 .. Len(children[n])
      /\ \A i \in 1 .. Len(children[n]) : children[n][i] \in PathSegment
  BY LenProperties, ElementOfSeq DEF Tree
<1>2. Choice(n, segment) = IF I # {} THEN Min(I) ELSE 0
  BY DEF Choice, SelectInSeq
<1>3. I # {} => Min(I) \in I
  <2> SUFFICES ASSUME I # {}  PROVE Min(I) \in I
    OBVIOUS
  <2>1. I \in SUBSET Nat
    BY <1>1
  <2> HIDE DEF I
  <2>2. \E m \in I : \A i \in I : m <= i
    BY <2>1, LeastNatural
  <2> QED  BY <2>2 DEF Min
<1>4. CASE I = {}
  BY <1>1, <1>2, <1>4
<1>5. CASE I # {}
  <2>1. Choice(n, segment) \in I
    BY <1>2, <1>3, <1>5
  <2>2. /\ Choice(n, segment) \in 1 .. Len(children[n])
        /\ Verdict(children[n][Choice(n, segment)], segment) # "pass"
    BY <2>1
  <2>3. Append(n, children[n][Choice(n, segment)]) \in Nodes
    BY <2>2 DEF Tree
  <2> QED  BY <1>1, <2>2, <2>3 DEF Range
<1> QED  BY <1>4, <1>5

(* A search goes down: the node it comes to is again one of first choices. *)
LEMMA GreedyRoot ==
  ASSUME Tree, NEW segs \in Seq(Segments)
  PROVE  Root \in Reach[segs]
<1>1. Root \in Nodes /\ Len(Root) = 0 /\ 1 .. 0 = {} /\ Len(segs) \in Nat
  BY LenProperties DEF Tree, Root
<1> QED  BY <1>1 DEF Reach, Greedy

LEMMA GreedyDown ==
  ASSUME Tree, NEW segs \in Seq(Segments), NEW n \in Reach[segs], Len(n) < Len(segs),
         NEW i, i = Choice(n, segs[Len(n) + 1]), i # 0,
         Verdict(children[n][i], segs[Len(n) + 1]) = "match"
  PROVE  Append(n, children[n][i]) \in Reach[segs]
<1> DEFINE e == children[n][i]
           b == Append(n, e)
<1>1. n \in Nodes /\ n \in Seq(PathSegment) /\ Greedy(n, segs) /\ Len(segs) \in Nat
  BY LenProperties DEF Reach, Tree
<1>2. e \in PathSegment /\ b \in Nodes
  BY <1>1, ChoiceIsFirst
<1> HIDE DEF e
<1>3. /\ Len(b) = Len(n) + 1 /\ Len(n) \in Nat /\ b[Len(n) + 1] = e
      /\ \A j \in 1 .. Len(n) : b[j] = n[j]
      /\ \A j \in 0 .. Len(n) : SubSeq(b, 1, j) = SubSeq(n, 1, j)
      /\ SubSeq(b, 1, Len(n)) = n
  BY <1>1, <1>2, Below
<1> HIDE DEF b
<1>4. ASSUME NEW j \in 1 .. Len(b)
      PROVE  /\ Choice(SubSeq(b, 1, j - 1), segs[j]) # 0
             /\ b[j] = children[SubSeq(b, 1, j - 1)][Choice(SubSeq(b, 1, j - 1), segs[j])]
             /\ Verdict(b[j], segs[j]) = "match"
  <2>1. CASE j = Len(n) + 1
    <3>1. j - 1 = Len(n)
      BY <1>3, <2>1
    <3>2. SubSeq(b, 1, j - 1) = n /\ b[j] = e /\ Choice(n, segs[j]) = i
      BY <1>3, <2>1, <3>1
    <3> QED  BY <2>1, <3>2 DEF e
  <2>2. CASE j \in 1 .. Len(n)
    <3>1. SubSeq(b, 1, j - 1) = SubSeq(n, 1, j - 1) /\ b[j] = n[j]
      BY <1>3, <2>2
    <3> QED  BY <1>1, <2>2, <3>1 DEF Greedy
  <2> QED  BY <1>3, <2>1, <2>2
<1>5. Greedy(b, segs)
  BY <1>1, <1>3, <1>4 DEF Greedy
<1> QED  BY <1>2, <1>5 DEF Reach, b, e

-----------------------------------------------------------------------------
(* Looking up *)

LEMMA LookupInit == Init => NotYet /\ Answered
<1> SUFFICES ASSUME Init  PROVE NotYet /\ Answered
  OBVIOUS
<1>1. /\ phase = "crawling" /\ resolved_operations = [k \in {} |-> Pending]
      /\ pc = [t \in Threads |-> "idle"] /\ request = [t \in Threads |-> <<>>]
      /\ at = [t \in Threads |-> Root] /\ answer = [t \in Threads |-> Pending]
      /\ calls = [t \in Threads |-> 0] /\ Nodes = {Root}
  BY DEF Init, Nodes
<1>2. calls \in [Threads -> 0 .. MaxCalls]
  BY <1>1, RouterAssumption
<1> QED  BY <1>1, <1>2 DEF NotYet, Answered

(* Before the tree is there, there is nothing to answer. *)
LEMMA LookupsWait ==
  ASSUME NotYet, Answered, phase # "ready", Nodes \subseteq Nodes', UNCHANGED lookups
  PROVE  NotYet' /\ Answered'
<1>1. /\ \A t \in Threads : pc[t] = "idle" /\ answer[t] = Pending /\ at[t] = Root
      /\ DOMAIN resolved_operations = {}
  BY DEF NotYet
<1>2. /\ pc' = pc /\ answer' = answer /\ at' = at /\ calls' = calls /\ request' = request
      /\ resolved_operations' = resolved_operations
  BY DEF lookups
<1>3. NotYet'
  BY <1>1, <1>2 DEF NotYet
<1>4. Answered'
  BY <1>1, <1>2 DEF Answered
<1> QED  BY <1>3, <1>4

(* The tree stays, and with it what may be reached and returned. *)
LEMMA TreeStays ==
  ASSUME Crawls, UNCHANGED <<document, crawl>>
  PROVE  Crawls' /\ Nodes' = Nodes /\ Reach' = Reach /\ Outcomes' = Outcomes
<1>1. /\ document' = document /\ phase' = phase /\ current' = current
      /\ position' = position /\ node' = node /\ children' = children
      /\ operations' = operations
  BY DEF crawl
<1>2. Tree' /\ Stored' /\ Nodes' = Nodes
  BY <1>1, StillStored DEF Crawls
<1>3. OnTrail'
  <2>1. Crawled' = Crawled
    BY <1>1 DEF Crawled
  <2> QED  BY <1>1, <1>2, <2>1 DEF Crawls, OnTrail
<1>4. Reach' = Reach
  <2>1. \A n, s : Choice(n, s)' = Choice(n, s)
    BY <1>1 DEF Choice, SelectInSeq
  <2>2. \A n, segs : Greedy(n, segs)' <=> Greedy(n, segs)
    BY <1>1, <2>1 DEF Greedy
  <2> QED  BY <1>2, <2>2 DEF Reach
<1>5. Outcomes' = Outcomes
  <2>1. \A n, s : Choice(n, s)' = Choice(n, s)
    BY <1>1 DEF Choice, SelectInSeq
  <2>2. \A n, segs, method, a : EndsAt(n, segs, method, a)' <=> EndsAt(n, segs, method, a)
    BY <1>1, <2>1 DEF EndsAt
  <2> QED  BY <1>1, <1>4, <2>2 DEF Outcomes
<1> QED  BY <1>2, <1>3, <1>4, <1>5 DEF Crawls

LEMMA RequestTyped ==
  ASSUME NEW r \in Requests
  PROVE  /\ Split[r.path] \in Seq(Segments) /\ r.path \in Paths /\ r.method \in Methods
         /\ <<r.path, r.method>> \in Paths \X Methods
BY RouterAssumption DEF Requests

(* How a search ends: with what EndsAt says of the node it is at. *)
LEMMA EndOfSearch ==
  ASSUME NEW segs \in Seq(Segments), NEW method \in Methods, NEW n \in Reach[segs],
         NEW a \in Range(document) \cup {NotFound, Panic}, EndsAt(n, segs, method, a)
  PROVE  a \in Outcomes[segs][method]
BY DEF Outcomes

LEMMA StoredTyped ==
  ASSUME Crawls, NEW k \in DOMAIN operations
  PROVE  operations[k] \in Range(document)
<1>1. PICK i \in 1 .. current - 1 : operations[k] = document[i]
  BY DEF Crawls, Stored
<1>2. document \in Documents /\ current \in 1 .. Len(document) + 1
  BY DEF Crawls, OnTrail
<1>3. Len(document) \in Nat /\ \A j \in 1 .. Len(document) : document[j] \in Range(document)
  BY <1>2, DocumentTyped
<1>4. i \in 1 .. Len(document)
  BY <1>2, <1>3
<1> QED  BY <1>1, <1>3, <1>4

(* Whatever is neither an operation nor an answer yet is not mistaken for one. *)
LEMMA NotAnOperation ==
  ASSUME document \in Documents
  PROVE  {NotFound, Panic, Pending} \cap Range(document) = {}
BY DocumentTyped, RouterAssumption

LEMMA BeginsLookup ==
  ASSUME IInv, NEW t \in Threads, NEW path \in Paths, NEW method \in Methods,
         Lookup(t, path, method)
  PROVE  IInv'
<1>1. Crawls /\ Answered /\ Tree
  BY DEF IInv, Crawls
<1>2. /\ UNCHANGED <<document, crawl>> /\ resolved_operations' = resolved_operations
      /\ phase = "ready" /\ calls[t] < MaxCalls
      /\ calls' = [calls EXCEPT ![t] = @ + 1]
      /\ request' = [request EXCEPT ![t] = [path |-> path, method |-> method]]
      /\ at' = [at EXCEPT ![t] = Root]
      /\ answer' = [answer EXCEPT ![t] = Pending]
      /\ pc' = [pc EXCEPT ![t] = "entry"]
  BY DEF Lookup
<1>3. Crawls' /\ Nodes' = Nodes /\ Reach' = Reach /\ Outcomes' = Outcomes
  BY <1>1, <1>2, TreeStays
<1>4. document' = document /\ phase' = phase
  BY <1>2 DEF crawl
<1>5. [path |-> path, method |-> method] \in Requests /\ Root \in Nodes
  BY <1>1 DEF Requests, Tree
<1>6. calls' \in [Threads -> 0 .. MaxCalls]
  <2>1. calls \in [Threads -> 0 .. MaxCalls] /\ MaxCalls \in Nat
    BY <1>1, RouterAssumption DEF Answered
  <2> QED  BY <1>2, <2>1
<1>7. Answered'
  <2>1. Root \in Reach[Split[path]]
    BY <1>1, <1>5, RequestTyped, GreedyRoot
  <2> QED  BY <1>1, <1>2, <1>3, <1>4, <1>5, <1>6, <2>1 DEF Answered
<1>8. NotYet'
  BY <1>2, <1>4 DEF NotYet
<1> QED  BY <1>3, <1>7, <1>8 DEF IInv, Crawls

(* Every other step of a lookup: one thread moves, and the tree stays. *)
LEMMA LookupGoesOn ==
  ASSUME IInv, NEW t \in Threads, pc[t] # "idle",
         UNCHANGED <<document, crawl, request, calls>>,
         NEW p \in {"idle", "entry", "search"}, pc' = [pc EXCEPT ![t] = p],
         NEW n \in Nodes, at' = [at EXCEPT ![t] = n],
         NEW a, answer' = [answer EXCEPT ![t] = a],
         p # "idle" => a = Pending /\ n \in Reach[Split[request[t].path]],
         a # Pending => a \in Outcomes[Split[request[t].path]][request[t].method],
         \A k \in DOMAIN resolved_operations' :
           \/ k \in DOMAIN resolved_operations /\ resolved_operations'[k] = resolved_operations[k]
           \/ /\ k = Key(t)
              /\ resolved_operations'[k] \in Range(document)
              /\ resolved_operations'[k] \in Outcomes[Split[request[t].path]][request[t].method]
  PROVE  IInv'
<1>1. Crawls /\ Answered /\ NotYet
  BY DEF IInv, Crawls
<1>2. Crawls' /\ Nodes' = Nodes /\ Reach' = Reach /\ Outcomes' = Outcomes
  BY <1>1, TreeStays
<1>3. document' = document /\ phase' = phase /\ phase = "ready"
  BY <1>1 DEF crawl, NotYet
<1>4. request[t] \in Requests
  BY <1>1 DEF Answered
<1>5. \A k \in DOMAIN resolved_operations' :
        /\ k \in Paths \X Methods
        /\ resolved_operations'[k] \in Range(document)
        /\ resolved_operations'[k] \in Outcomes[Split[k[1]]][k[2]]
  <2> SUFFICES ASSUME NEW k \in DOMAIN resolved_operations'
               PROVE  /\ k \in Paths \X Methods
                      /\ resolved_operations'[k] \in Range(document)
                      /\ resolved_operations'[k] \in Outcomes[Split[k[1]]][k[2]]
    OBVIOUS
  <2>1. CASE k \in DOMAIN resolved_operations /\ resolved_operations'[k] = resolved_operations[k]
    BY <1>1, <2>1 DEF Answered
  <2>2. CASE ~(k \in DOMAIN resolved_operations /\ resolved_operations'[k] = resolved_operations[k])
    <3>1. /\ k = <<request[t].path, request[t].method>>
          /\ resolved_operations'[k] \in Range(document)
          /\ resolved_operations'[k] \in Outcomes[Split[request[t].path]][request[t].method]
      BY <2>2 DEF Key
    <3>2. k \in Paths \X Methods
      BY <1>4, <3>1, RequestTyped
    <3> QED  BY <3>1, <3>2
  <2> QED  BY <2>1, <2>2
<1>6. Answered'
  <2>1. pc' \in [Threads -> {"idle", "entry", "search"}] /\ calls' \in [Threads -> 0 .. MaxCalls]
    BY <1>1 DEF Answered
  <2>2. DOMAIN request' = Threads /\ at' \in [Threads -> Nodes]
    BY <1>1 DEF Answered
  <2>3. answer' \in [Threads -> Range(document) \cup {NotFound, Panic, Pending}]
    <3>1. a \in Range(document) \cup {NotFound, Panic, Pending}
      BY <1>4, RequestTyped DEF Outcomes
    <3> QED  BY <1>1, <3>1 DEF Answered
  <2>4. ASSUME NEW u \in Threads
        PROVE  /\ pc'[u] # "idle" => /\ request[u] \in Requests
                                     /\ answer'[u] = Pending
                                     /\ at'[u] \in Reach[Split[request[u].path]]
               /\ answer'[u] # Pending =>
                    /\ request[u] \in Requests
                    /\ answer'[u] \in Outcomes[Split[request[u].path]][request[u].method]
    <3>1. CASE u = t
      <4>1. pc'[t] = p /\ at'[t] = n /\ answer'[t] = a
        BY <1>1 DEF Answered
      <4> QED  BY <1>4, <3>1, <4>1
    <3>2. CASE u # t
      <4>1. pc'[u] = pc[u] /\ at'[u] = at[u] /\ answer'[u] = answer[u]
        BY <1>1, <3>2 DEF Answered
      <4> QED  BY <1>1, <4>1 DEF Answered
    <3> QED  BY <3>1, <3>2
  <2> QED  BY <1>2, <1>3, <1>5, <2>1, <2>2, <2>3, <2>4 DEF Answered
<1>7. NotYet'
  BY <1>3 DEF NotYet
<1> QED  BY <1>2, <1>6, <1>7 DEF IInv, Crawls

LEMMA WorksOn ==
  ASSUME IInv, NEW t \in Threads, Work(t)
  PROVE  IInv'
<1> DEFINE segs == Split[request[t].path]
           method == request[t].method
<1>1. Crawls /\ Tree /\ Answered /\ document \in Documents /\ pc[t] # "idle"
  BY DEF IInv, Crawls, OnTrail, Work, EntryOccupied, EntryVacant, Descend, EndSearch
<1>2. /\ request[t] \in Requests /\ answer[t] = Pending /\ at[t] \in Reach[segs]
      /\ at[t] \in Nodes
      /\ at = [at EXCEPT ![t] = at[t]] /\ answer = [answer EXCEPT ![t] = answer[t]]
  BY <1>1 DEF Answered
<1>3. segs \in Seq(Segments) /\ method \in Methods /\ Len(segs) \in Nat /\ Segs(t) = segs
  BY <1>2, RequestTyped, LenProperties DEF Segs
<1>4. at[t] \in Seq(PathSegment) /\ Len(at[t]) \in Nat /\ Len(at[t]) <= Len(segs)
  BY <1>1, <1>2, <1>3, LenProperties DEF Reach, Greedy, Tree
<1>5. Pending \notin {NotFound, Panic} /\ Pending \notin Range(document)
  BY <1>1, NotAnOperation, RouterAssumption
<1> HIDE DEF segs, method
<1>6. ASSUME NEW a \in Range(document) \cup {NotFound, Panic}, Return(t, a),
             a \in Outcomes[segs][method],
             resolved_operations' = resolved_operations
      PROVE  IInv'
  <2>1. /\ UNCHANGED <<document, crawl, request, calls>> /\ at' = [at EXCEPT ![t] = at[t]]
        /\ answer' = [answer EXCEPT ![t] = a] /\ pc' = [pc EXCEPT ![t] = "idle"]
    BY <1>2, <1>6 DEF Return
  <2> QED  BY <1>1, <1>2, <1>6, <2>1, LookupGoesOn DEF segs, method
<1>7. CASE EntryOccupied(t)
  <2>1. /\ Key(t) \in DOMAIN resolved_operations
        /\ Return(t, resolved_operations[Key(t)])
        /\ resolved_operations' = resolved_operations
    BY <1>7 DEF EntryOccupied
  <2>2. /\ resolved_operations[Key(t)] \in Range(document)
        /\ resolved_operations[Key(t)] \in Outcomes[segs][method]
    BY <1>1, <2>1 DEF Answered, Key, segs, method
  <2> QED  BY <1>6, <2>1, <2>2
<1>8. CASE EntryVacant(t)
  <2>1. /\ pc' = [pc EXCEPT ![t] = "search"]
        /\ UNCHANGED <<document, crawl, resolved_operations, request, at, answer, calls>>
    BY <1>8 DEF EntryVacant
  <2>2. at' = [at EXCEPT ![t] = at[t]] /\ answer' = [answer EXCEPT ![t] = Pending]
    BY <1>2, <2>1
  <2> QED  BY <1>1, <1>2, <2>1, <2>2, LookupGoesOn DEF segs
<1>9. CASE Descend(t)
  <2> DEFINE segment == segs[Len(at[t]) + 1]
             i == Choice(at[t], segment)
             child == children[at[t]][i]
  <2>1. /\ Len(at[t]) < Len(segs) /\ resolved_operations' = resolved_operations
        /\ \/ /\ i # 0 /\ Verdict(child, segment) = "match"
              /\ at' = [at EXCEPT ![t] = Append(@, child)]
              /\ UNCHANGED <<document, crawl, pc, request, answer, calls>>
           \/ i # 0 /\ Verdict(child, segment) = "panic" /\ Return(t, Panic)
           \/ i = 0 /\ Return(t, NotFound)
    BY <1>3, <1>9 DEF Descend
  <2>2. Len(at[t]) # Len(segs)
    BY <1>3, <1>4, <2>1
  <2>3. CASE /\ i # 0 /\ Verdict(child, segment) = "match"
             /\ at' = [at EXCEPT ![t] = Append(@, child)]
             /\ UNCHANGED <<document, crawl, pc, request, answer, calls>>
    <3>1. Append(at[t], child) \in Reach[segs]
      BY <1>1, <1>2, <1>3, <2>1, <2>3, GreedyDown
    <3>2. Append(at[t], child) \in Nodes
      BY <1>3, <3>1 DEF Reach
    <3> HIDE DEF child
    <3>3. /\ at' = [at EXCEPT ![t] = Append(at[t], child)]
          /\ pc' = [pc EXCEPT ![t] = pc[t]] /\ pc[t] \in {"idle", "entry", "search"}
          /\ answer' = [answer EXCEPT ![t] = Pending]
          /\ UNCHANGED <<document, crawl, request, calls>>
      BY <1>1, <1>2, <2>3 DEF Answered
    <3> QED  BY <1>1, <2>1, <3>1, <3>2, <3>3, LookupGoesOn DEF segs
  <2>4. CASE i # 0 /\ Verdict(child, segment) = "panic" /\ Return(t, Panic)
    <3>1. EndsAt(at[t], segs, method, Panic)
      BY <2>2, <2>4 DEF EndsAt
    <3> QED  BY <1>2, <1>3, <1>6, <2>1, <2>4, <3>1, EndOfSearch
  <2>5. CASE i = 0 /\ Return(t, NotFound)
    <3>1. EndsAt(at[t], segs, method, NotFound)
      BY <2>2, <2>5 DEF EndsAt
    <3> QED  BY <1>2, <1>3, <1>6, <2>1, <2>5, <3>1, EndOfSearch
  <2> QED  BY <2>1, <2>3, <2>4, <2>5
<1>10. CASE EndSearch(t)
  <2> DEFINE k == <<at[t], method>>
  <2>1. /\ Len(at[t]) = Len(segs)
        /\ \/ /\ k \in DOMAIN operations
              /\ resolved_operations' = With(resolved_operations, Key(t), operations[k])
              /\ Return(t, operations[k])
           \/ /\ k \notin DOMAIN operations
              /\ resolved_operations' = resolved_operations
              /\ Return(t, NotFound)
    BY <1>3, <1>4, <1>10 DEF EndSearch, method
  <2>2. CASE /\ k \notin DOMAIN operations
             /\ resolved_operations' = resolved_operations
             /\ Return(t, NotFound)
    <3>1. EndsAt(at[t], segs, method, NotFound)
      BY <2>1, <2>2 DEF EndsAt
    <3> QED  BY <1>2, <1>3, <1>6, <2>2, <3>1, EndOfSearch
  <2>3. CASE /\ k \in DOMAIN operations
             /\ resolved_operations' = With(resolved_operations, Key(t), operations[k])
             /\ Return(t, operations[k])
    <3> DEFINE op == operations[k]
    <3>1. op \in Range(document)
      BY <1>1, <2>3, StoredTyped
    <3>2. EndsAt(at[t], segs, method, op)
      BY <2>1, <2>3 DEF EndsAt
    <3>3. op \in Outcomes[segs][method]
      BY <1>2, <1>3, <3>1, <3>2, EndOfSearch
    <3> HIDE DEF op
    <3>4. /\ UNCHANGED <<document, crawl, request, calls>> /\ at' = [at EXCEPT ![t] = at[t]]
          /\ answer' = [answer EXCEPT ![t] = op] /\ pc' = [pc EXCEPT ![t] = "idle"]
      BY <1>2, <2>3 DEF Return, op
    <3>5. \A x \in DOMAIN resolved_operations' :
            \/ x \in DOMAIN resolved_operations /\ resolved_operations'[x] = resolved_operations[x]
            \/ x = Key(t) /\ resolved_operations'[x] = op
      BY <2>3 DEF With, op
    <3>6. op \in Outcomes[Split[request[t].path]][request[t].method]
      BY <3>3 DEF segs, method
    <3>7. \A x \in DOMAIN resolved_operations' :
            \/ x \in DOMAIN resolved_operations /\ resolved_operations'[x] = resolved_operations[x]
            \/ /\ x = Key(t)
               /\ resolved_operations'[x] \in Range(document)
               /\ resolved_operations'[x] \in Outcomes[Split[request[t].path]][request[t].method]
      BY <3>1, <3>5, <3>6
    <3>8. at[t] \in Nodes /\ pc[t] # "idle" /\ "idle" \in {"idle", "entry", "search"}
      BY <1>1, <1>2, <1>3 DEF Reach
    <3> QED  BY <1>1, <3>4, <3>6, <3>7, <3>8, LookupGoesOn
  <2> QED  BY <2>1, <2>2, <2>3
<1> QED  BY <1>7, <1>8, <1>9, <1>10 DEF Work

-----------------------------------------------------------------------------
(***************************************************************************)
(* The tree, the crawl, the searches, the answers and the memo table of    *)
(* any run: nodes are stored where templates lead, and searches and        *)
(* answers keep to the first choices (traverser.rs:235, :423).             *)
(***************************************************************************)
THEOREM Invariance == Spec => []IInv
<1>1. Init => IInv
  BY CrawlInit, LookupInit DEF IInv
<1>2. IInv /\ [Next]_vars => IInv'
  <2> SUFFICES ASSUME IInv, [Next]_vars  PROVE IInv'
    OBVIOUS
  <2>1. CASE Crawl
    <3>1. /\ Crawls' /\ Nodes \subseteq Nodes' /\ phase = "crawling"
          /\ UNCHANGED <<document, lookups>>
      BY <2>1, CrawlsOn DEF IInv
    <3>2. NotYet' /\ Answered'
      BY <3>1, LookupsWait DEF IInv
    <3> QED  BY <3>1, <3>2 DEF IInv
  <2>2. CASE \E t \in Threads :
               \/ \E path \in Paths, method \in Methods : Lookup(t, path, method)
               \/ Work(t)
    BY <2>2, BeginsLookup, WorksOn
  <2>3. CASE UNCHANGED vars
    <3>1. /\ UNCHANGED <<document, crawl>> /\ phase' = phase /\ document' = document
          /\ UNCHANGED <<resolved_operations, pc, request, at, answer, calls>>
      BY <2>3 DEF vars, crawl, lookups
    <3>2. Crawls' /\ Nodes' = Nodes /\ Reach' = Reach /\ Outcomes' = Outcomes
      BY <3>1, TreeStays DEF IInv
    <3> QED  BY <3>1, <3>2 DEF IInv, NotYet, Answered
  <2> QED  BY <2>1, <2>2, <2>3 DEF Next
<1> QED  BY <1>1, <1>2, PTL DEF Spec

(* Every variable has its type and the nodes are a tree, in every run. *)
THEOREM TypeCorrect == Spec => []TypeOK
<1>1. IInv => TypeOK
  <2> SUFFICES ASSUME IInv  PROVE TypeOK
    OBVIOUS
  <2>1. Tree /\ OnTrail /\ Stored /\ Answered
    BY DEF IInv, Crawls
  <2>2. /\ phase \in {"crawling", "ready", "failed"} /\ current \in 1 .. Len(document) + 1
        /\ position \in Nat /\ node \in DOMAIN children
    BY <2>1 DEF OnTrail, Nodes
  <2>3. ASSUME NEW n \in DOMAIN children
        PROVE  /\ n \in Seq(PathSegment)
               /\ IsInjective(children[n])
               /\ \A i \in 1 .. Len(children[n]) : Append(n, children[n][i]) \in DOMAIN children
               /\ n # Root => Front(n) \in DOMAIN children /\ Last(n) \in Range(children[Front(n)])
    <3>1. n \in Seq(PathSegment) /\ Len(n) \in Nat
      BY <2>1, LenProperties DEF Tree, Nodes
    <3>2. n # Root => Len(n) \in 1 .. Len(n)
      BY <3>1, EmptySeq DEF Root
    <3>3. Front(n) = SubSeq(n, 1, Len(n) - 1) /\ Last(n) = n[Len(n)]
      BY DEF Front, Last
    <3> QED  BY <2>1, <3>1, <3>2, <3>3 DEF Tree, Nodes
  <2>4. \A k \in DOMAIN operations : k[1] \in DOMAIN children /\ operations[k] \in Range(document)
    BY <2>1, StoredTyped DEF IInv, Stored, Nodes
  <2>5. /\ \A k \in DOMAIN resolved_operations : resolved_operations[k] \in Range(document)
        /\ pc \in [Threads -> {"idle", "entry", "search"}]
        /\ \A t \in Threads : at[t] \in DOMAIN children
        /\ \A t \in Threads : answer[t] \in Range(document) \cup {NotFound, Panic, Pending}
        /\ calls \in [Threads -> 0 .. MaxCalls]
    BY <2>1 DEF Answered, Nodes
  <2> QED  BY <2>2, <2>3, <2>4, <2>5 DEF TypeOK
<1> QED  BY <1>1, Invariance, PTL

(***************************************************************************)
(* crawl_paths puts every operation where its template leads, and nothing  *)
(* else into the tree, and new only succeeds if each operation with a      *)
(* parameter in its template has an array (traverser.rs:255, :267).        *)
(***************************************************************************)
THEOREM DocumentHeld == Spec => []TreeHoldsDocument
<1>1. IInv => TreeHoldsDocument
  <2> SUFFICES ASSUME IInv, phase = "ready"
               PROVE  /\ \A i \in 1 .. Len(document) :
                           HasParameter(document[i]) => document[i].hasParameters
                      /\ DOMAIN operations = {Place(i) : i \in 1 .. Len(document)}
                      /\ \A i \in 1 .. Len(document) :
                           (\A j \in i + 1 .. Len(document) : Place(j) # Place(i))
                             => operations[Place(i)] = document[i]
    BY DEF TreeHoldsDocument
  <2>1. current = Len(document) + 1 /\ document \in Documents
    BY DEF IInv, Crawls, OnTrail
  <2>2. current - 1 = Len(document)
    BY <2>1, DocumentTyped
  <2> QED  BY <2>2 DEF IInv, Crawls, Stored
<1> QED  BY <1>1, Invariance, PTL

-----------------------------------------------------------------------------
(* First choices lead to one node *)

(* Sequences that agree wherever they have agreed so far agree. *)
LEMMA AgreeAll ==
  ASSUME NEW S, NEW n \in Seq(S), NEW m \in Seq(S), NEW k \in Nat, k <= Len(n), k <= Len(m),
         \A i \in 1 .. k : SubSeq(n, 1, i - 1) = SubSeq(m, 1, i - 1) => n[i] = m[i]
  PROVE  SubSeq(n, 1, k) = SubSeq(m, 1, k)
<1>1. Len(n) \in Nat /\ Len(m) \in Nat
  BY LenProperties
<1>2. \A j \in 0 .. k :
        (\A i \in 1 .. j : n[i] = m[i]) => SubSeq(n, 1, j) = SubSeq(m, 1, j)
  <2> SUFFICES ASSUME NEW j \in 0 .. k, \A i \in 1 .. j : n[i] = m[i]
               PROVE  SubSeq(n, 1, j) = SubSeq(m, 1, j)
    OBVIOUS
  <2>1. /\ SubSeq(n, 1, j) \in Seq(S) /\ SubSeq(m, 1, j) \in Seq(S)
        /\ Len(SubSeq(n, 1, j)) = j /\ Len(SubSeq(m, 1, j)) = j
        /\ \A i \in 1 .. j : SubSeq(n, 1, j)[i] = n[i] /\ SubSeq(m, 1, j)[i] = m[i]
    BY <1>1, SubSeqProperties
  <2> QED  BY <2>1, SeqEqual
<1> DEFINE D == {i \in 1 .. k : n[i] # m[i]}
<1>3. D = {}
  <2> SUFFICES ASSUME D # {}  PROVE FALSE
    OBVIOUS
  <2>1. D \in SUBSET Nat
    OBVIOUS
  <2>2. PICK d \in D : \A i \in D : d <= i
    <3> HIDE DEF D
    <3> QED  BY <2>1, LeastNatural
  <2>3. d \in 1 .. k /\ n[d] # m[d] /\ d - 1 \in 0 .. k /\ \A i \in 1 .. d - 1 : n[i] = m[i]
    BY <2>2
  <2>4. SubSeq(n, 1, d - 1) = SubSeq(m, 1, d - 1)
    BY <1>2, <2>3
  <2> QED  BY <2>3, <2>4
<1>4. \A i \in 1 .. k : n[i] = m[i]
  BY <1>3
<1> QED  BY <1>2, <1>4

(* Of two nodes that first choices lead to, one is above the other. *)
LEMMA GreedyAgree ==
  ASSUME Tree, NEW segs \in Seq(Segments), NEW n \in Reach[segs], NEW m \in Reach[segs],
         Len(n) <= Len(m)
  PROVE  SubSeq(m, 1, Len(n)) = n
<1>1. /\ n \in Seq(PathSegment) /\ m \in Seq(PathSegment)
      /\ Greedy(n, segs) /\ Greedy(m, segs)
      /\ Len(n) \in Nat /\ Len(m) \in Nat
  BY LenProperties DEF Reach, Tree
<1>2. \A i \in 1 .. Len(n) : SubSeq(n, 1, i - 1) = SubSeq(m, 1, i - 1) => n[i] = m[i]
  <2> SUFFICES ASSUME NEW i \in 1 .. Len(n), SubSeq(n, 1, i - 1) = SubSeq(m, 1, i - 1)
               PROVE  n[i] = m[i]
    OBVIOUS
  <2>1. i \in 1 .. Len(m)
    BY <1>1
  <2> DEFINE first == Choice(SubSeq(n, 1, i - 1), segs[i])
  <2>2. n[i] = children[SubSeq(n, 1, i - 1)][first]
    BY <1>1 DEF Greedy
  <2>3. m[i] = children[SubSeq(m, 1, i - 1)][Choice(SubSeq(m, 1, i - 1), segs[i])]
    BY <1>1, <2>1 DEF Greedy
  <2> QED  BY <2>2, <2>3
<1>3. SubSeq(n, 1, Len(n)) = SubSeq(m, 1, Len(n))
  <2>1. Len(n) <= Len(n)
    BY <1>1
  <2> HIDE DEF Reach
  <2> QED  BY <1>1, <1>2, <2>1, AgreeAll
<1> QED  BY <1>1, <1>3, SubSeqFull

(* A search that ends above a node that first choices lead to: impossible. *)
LEMMA EndsNotAbove ==
  ASSUME Tree, NEW segs \in Seq(Segments), NEW n \in Reach[segs], NEW m \in Reach[segs],
         NEW method, NEW a, EndsAt(n, segs, method, a), Len(n) < Len(m)
  PROVE  FALSE
<1>1. /\ m \in Seq(PathSegment) /\ n \in Seq(PathSegment)
      /\ Greedy(m, segs) /\ Len(n) \in Nat /\ Len(m) \in Nat /\ Len(segs) \in Nat
  BY LenProperties DEF Reach, Tree
<1>2. SubSeq(m, 1, Len(n)) = n
  BY <1>1, GreedyAgree
<1> DEFINE j == Len(n) + 1
<1>3. j \in 1 .. Len(m) /\ j - 1 = Len(n) /\ Len(n) # Len(segs)
  BY <1>1 DEF Greedy
<1>4. /\ Choice(n, segs[j]) # 0 /\ m[j] = children[n][Choice(n, segs[j])]
      /\ Verdict(m[j], segs[j]) = "match"
  BY <1>1, <1>2, <1>3 DEF Greedy
<1> QED  BY <1>3, <1>4 DEF EndsAt

LEMMA OneOutcome ==
  ASSUME Tree, NEW segs \in Seq(Segments), NEW method \in Methods,
         NEW a \in Outcomes[segs][method], NEW b \in Outcomes[segs][method]
  PROVE  a = b
<1>1. PICK n \in Reach[segs] : EndsAt(n, segs, method, a)
  BY DEF Outcomes
<1>2. PICK m \in Reach[segs] : EndsAt(m, segs, method, b)
  BY DEF Outcomes
<1>3. /\ n \in Seq(PathSegment) /\ m \in Seq(PathSegment)
      /\ Len(n) \in Nat /\ Len(m) \in Nat
  BY LenProperties DEF Reach, Tree
<1>4. Len(n) = Len(m)
  BY <1>1, <1>2, <1>3, EndsNotAbove
<1>5. n = m
  BY <1>3, <1>4, GreedyAgree, SubSeqFull
<1> QED  BY <1>1, <1>2, <1>5 DEF EndsAt

(***************************************************************************)
(* Whatever the document and however the HashMaps iterate, lookups of the  *)
(* same segments and method agree, memoized or searched for, by whichever  *)
(* spelling and on whichever thread (traverser.rs:463).                    *)
(***************************************************************************)
THEOREM LookupsAlwaysAgree == Spec => []LookupsAgree
<1>1. IInv => LookupsAgree
  <2> SUFFICES ASSUME IInv, NEW t \in Threads, NEW u \in Threads,
                      answer[t] # Pending, answer[u] # Pending,
                      Segs(t) = Segs(u), request[t].method = request[u].method
               PROVE  answer[t] = answer[u]
    BY DEF LookupsAgree
  <2>1. Tree /\ Answered
    BY DEF IInv, Crawls
  <2>2. /\ request[t] \in Requests /\ request[u] \in Requests
        /\ answer[t] \in Outcomes[Segs(t)][request[t].method]
        /\ answer[u] \in Outcomes[Segs(t)][request[t].method]
    BY <2>1 DEF Answered, Segs
  <2>3. Segs(t) \in Seq(Segments) /\ request[t].method \in Methods
    BY <2>2, RequestTyped DEF Segs
  <2> QED  BY <2>1, <2>2, <2>3, OneOutcome
<1> QED  BY <1>1, Invariance, PTL

-----------------------------------------------------------------------------
(* What is found fits, and what fits is found *)

(* Where all parameters are declared the place of an operation spells them all. *)
LEMMA ResolvedFull ==
  ASSUME NEW op \in Operation, Declares(op)
  PROVE  /\ Resolved(op) \in Seq(PathSegment)
         /\ Len(Resolved(op)) = Len(op.template)
         /\ \A i \in 1 .. Len(op.template) : Resolved(op)[i] = Segment(op, i)
<1>1. Len(op.template) \in Nat
  BY LenProperties DEF Operation, Template
<1>2. KeptTo(op, Len(op.template)) = 1 .. Len(op.template)
  BY DEF KeptTo, Declares
<1>3. Resolved(op) = [i \in 1 .. Len(op.template) |-> Segment(op, i)]
  BY <1>1, <1>2, TrailEnd, TrailFull
<1>4. \A i \in 1 .. Len(op.template) : Segment(op, i) \in PathSegment
  BY OperationTyped DEF Declares
<1>5. Resolved(op) \in Seq(PathSegment)
  BY <1>1, <1>3, <1>4
<1>6. Len(Resolved(op)) = Len(op.template)
  BY <1>1, <1>3, <1>5, LenProperties
<1> QED  BY <1>3, <1>5, <1>6

(* The places of the tree that hold an operation hold one of the document. *)
LEMMA FoundAt ==
  ASSUME IInv, NEW segs \in Seq(Segments), NEW method \in Methods,
         NEW a \in Outcomes[segs][method], a \notin {NotFound, Panic}
  PROVE  /\ a \in Operation /\ a.method = method
         /\ Resolved(a) \in Reach[segs] /\ Len(Resolved(a)) = Len(segs)
<1>1. PICK n \in Reach[segs] : EndsAt(n, segs, method, a)
  BY DEF Outcomes
<1>2. /\ Len(n) = Len(segs) /\ <<n, method>> \in DOMAIN operations
      /\ a = operations[<<n, method>>]
  BY <1>1 DEF EndsAt
<1>3. PICK i \in 1 .. current - 1 : Place(i) = <<n, method>> /\ a = document[i]
  BY <1>2 DEF IInv, Crawls, Stored
<1>4. document \in Documents /\ current \in 1 .. Len(document) + 1
  BY DEF IInv, Crawls, OnTrail
<1>5. i \in 1 .. Len(document)
  BY <1>4, DocumentTyped
<1> QED  BY <1>2, <1>3, <1>4, <1>5, DocumentTyped DEF Place

(***************************************************************************)
(* An operation that is found has the method of the request, and if its    *)
(* array declares its parameters its template accepts the path, for any    *)
(* document and any order of the children (traverser.rs:423).              *)
(***************************************************************************)
THEOREM FoundIsFit == Spec => []FoundFits
<1>1. IInv => FoundFits
  <2> SUFFICES ASSUME IInv, NEW t \in Threads, Found(t), Declares(answer[t])
               PROVE  Answers(answer[t], t)
    BY DEF FoundFits
  <2> DEFINE a == answer[t]
             segs == Segs(t)
  <2>1. Tree /\ Answered /\ a \notin {NotFound, Panic, Pending}
    BY DEF IInv, Crawls, Found
  <2>2. request[t] \in Requests /\ a \in Outcomes[segs][request[t].method]
    BY <2>1 DEF Answered, Segs
  <2>3. segs \in Seq(Segments) /\ request[t].method \in Methods
    BY <2>2, RequestTyped DEF Segs
  <2>4. /\ a \in Operation /\ a.method = request[t].method
        /\ Resolved(a) \in Reach[segs] /\ Len(Resolved(a)) = Len(segs)
    BY <2>1, <2>2, <2>3, FoundAt
  <2>5. /\ Len(Resolved(a)) = Len(a.template)
        /\ \A i \in 1 .. Len(a.template) : Resolved(a)[i] = Segment(a, i)
    BY <2>4, ResolvedFull
  <2>6. \A i \in 1 .. Len(segs) : Verdict(Segment(a, i), segs[i]) = "match"
    <3>1. Greedy(Resolved(a), segs)
      BY <2>3, <2>4 DEF Reach
    <3> HIDE DEF a, segs
    <3>2. \A i \in 1 .. Len(segs) : Verdict(Resolved(a)[i], segs[i]) = "match"
      BY <2>4, <3>1 DEF Greedy
    <3> QED  BY <2>4, <2>5, <3>2
  <2> HIDE DEF a, segs
  <2>7. ASSUME NEW i \in 1 .. Len(segs)
        PROVE  IF a.template[i].parameter
               THEN /\ a.template[i].name \in DOMAIN a.declared
                    /\ segs[i] \in Accepts[a.declared[a.template[i].name]]
               ELSE a.template[i].name = segs[i]
    <3>1. i \in 1 .. Len(a.template) /\ Verdict(Segment(a, i), segs[i]) = "match"
      BY <2>4, <2>5, <2>6
    <3>2. a.template[i].parameter => a.template[i].name \in DOMAIN a.declared
      BY <3>1 DEF Declares, a
    <3>3. CASE a.template[i].parameter
      <4>1. Conversion(a.declared[a.template[i].name], segs[i]) = "match"
        BY <3>1, <3>3 DEF Verdict, Segment
      <4> QED  BY <3>2, <3>3, <4>1 DEF Conversion
    <3>4. CASE ~a.template[i].parameter
      BY <3>1, <3>4 DEF Verdict, Segment
    <3> QED  BY <3>3, <3>4
  <2>8. Len(a.template) = Len(segs)
    BY <2>4, <2>5
  <2> QED  BY <2>4, <2>7, <2>8 DEF Answers, Fits, a, segs
<1> QED  BY <1>1, Invariance, PTL

(* The segments of a template that fits a request do not let it pass. *)
LEMMA FitNotPassed ==
  ASSUME NEW op \in Operation, NEW segs, Fits(op, segs), NEW i \in 1 .. Len(segs)
  PROVE  Verdict(Segment(op, i), segs[i]) # "pass"
<1>1. CASE op.template[i].parameter
  <2> DEFINE s == op.declared[op.template[i].name]
  <2>1. op.template[i].name \in DOMAIN op.declared /\ segs[i] \in Accepts[s]
    BY <1>1 DEF Fits
  <2>2. PICK D \in SUBSET Names : op.declared \in [D -> Schemas]
    BY DEF Operation, Declared
  <2>3. s \in Schemas
    BY <2>1, <2>2
  <2>4. segs[i] \in Converts[s]
    BY <2>1, <2>3, RouterAssumption
  <2>5. Conversion(s, segs[i]) # "pass"
    BY <2>1, <2>4 DEF Conversion
  <2> QED  BY <1>1, <2>5 DEF Verdict, Segment
<1>2. CASE ~op.template[i].parameter
  BY <1>2 DEF Verdict, Segment, Fits
<1> QED  BY <1>1, <1>2

(* A node the first choices lead to is on the way to any node that fits. *)
LEMMA OnTheWay ==
  ASSUME Tree, Unambiguous, NEW segs \in Seq(Segments), NEW n \in Reach[segs],
         NEW p \in Nodes, Len(p) = Len(segs),
         \A i \in 1 .. Len(p) : Verdict(p[i], segs[i]) # "pass"
  PROVE  SubSeq(p, 1, Len(n)) = n
<1>1. /\ n \in Seq(PathSegment) /\ p \in Seq(PathSegment)
      /\ Greedy(n, segs) /\ Len(n) \in Nat /\ Len(segs) \in Nat /\ n \in Nodes
      /\ Len(n) <= Len(p)
  BY LenProperties DEF Reach, Tree, Greedy
<1>2. ASSUME NEW i \in 1 .. Len(n), SubSeq(n, 1, i - 1) = SubSeq(p, 1, i - 1)
      PROVE  n[i] = p[i]
  <2> DEFINE above == SubSeq(n, 1, i - 1)
             first == Choice(above, segs[i])
  <2>1. i \in 1 .. Len(p) /\ i \in 1 .. Len(segs) /\ segs[i] \in Segments
    BY <1>1, ElementOfSeq
  <2>2. above \in Nodes /\ p[i] \in Range(children[above])
    BY <1>1, <1>2, <2>1 DEF Tree
  <2>3. first # 0 /\ n[i] = children[above][first]
    BY <1>1 DEF Greedy
  <2> HIDE DEF above
  <2>4. /\ first \in 1 .. Len(children[above])
        /\ Verdict(children[above][first], segs[i]) # "pass"
    BY <2>2, <2>3, ChoiceIsFirst
  <2>5. DOMAIN children[above] = 1 .. Len(children[above])
    BY <2>2, LenProperties DEF Tree
  <2>6. PICK j \in 1 .. Len(children[above]) : p[i] = children[above][j]
    BY <2>2, <2>5 DEF Range
  <2>7. Verdict(children[above][j], segs[i]) # "pass"
    BY <2>1, <2>6
  <2>8. first = j
    BY <2>1, <2>2, <2>4, <2>7 DEF Unambiguous, Nodes
  <2> QED  BY <2>3, <2>6, <2>8
<1>3. SubSeq(n, 1, Len(n)) = SubSeq(p, 1, Len(n))
  <2>1. Len(n) <= Len(n)
    BY <1>1
  <2> HIDE DEF Reach
  <2> QED  BY <1>1, <1>2, <2>1, AgreeAll
<1> QED  BY <1>1, <1>3, SubSeqFull

(***************************************************************************)
(* The search never comes back to try another child (traverser.rs:467);    *)
(* if no node has two children for one segment that loses nothing: a       *)
(* lookup that finds nothing means that no operation fits.                 *)
(***************************************************************************)
THEOREM NothingLost == Spec => []NotFoundIfUnambiguous
<1>1. IInv => NotFoundIfUnambiguous
  <2> SUFFICES ASSUME IInv, Unambiguous, NEW t \in Threads, NEW i \in 1 .. Len(document),
                      answer[t] = NotFound, Answers(document[i], t)
               PROVE  FALSE
    BY DEF NotFoundIfUnambiguous
  <2> DEFINE op == document[i]
             segs == Segs(t)
             method == request[t].method
             p == Resolved(op)
  <2>1. Tree /\ Stored /\ Answered /\ NotYet /\ document \in Documents
    BY DEF IInv, Crawls, OnTrail
  <2>2. NotFound # Pending /\ NotFound # Panic
    BY RouterAssumption
  <2>3. request[t] \in Requests /\ NotFound \in Outcomes[segs][method]
    BY <2>1, <2>2 DEF Answered, Segs
  <2>4. segs \in Seq(Segments) /\ method \in Methods /\ Len(segs) \in Nat
    BY <2>3, RequestTyped, LenProperties DEF Segs
  <2>5. op \in Operation /\ op.method = method /\ Fits(op, segs)
    BY <2>1, DocumentTyped DEF Answers
  <2>6. Declares(op) /\ Len(op.template) = Len(segs)
    BY <2>5 DEF Declares, Fits
  <2>7. <<p, method>> \in DOMAIN operations /\ p \in Nodes
    <3>1. current = Len(document) + 1
      BY <2>1, <2>2 DEF NotYet, IInv, Crawls, OnTrail
    <3>2. current - 1 = Len(document)
      BY <2>1, <3>1, DocumentTyped
    <3>3. Place(i) \in DOMAIN operations /\ Place(i) = <<p, method>>
      BY <2>1, <2>5, <3>2 DEF Stored, Place
    <3> QED  BY <2>1, <3>3 DEF Stored
  <2>8. /\ p \in Seq(PathSegment) /\ Len(p) = Len(segs)
        /\ \A j \in 1 .. Len(p) : Verdict(p[j], segs[j]) # "pass"
    BY <2>5, <2>6, ResolvedFull, FitNotPassed
  <2>9. PICK n \in Reach[segs] : EndsAt(n, segs, method, NotFound)
    BY <2>3, <2>4 DEF Outcomes
  <2> HIDE DEF p, segs, method, op
  <2>10. SubSeq(p, 1, Len(n)) = n
    BY <2>1, <2>4, <2>7, <2>8, OnTheWay
  <2>11. n \in Nodes /\ Len(n) \in Nat /\ Len(n) <= Len(segs)
    BY <2>1, <2>4, LenProperties DEF Reach, Greedy, Tree
  <2>12. CASE Len(n) = Len(segs)
    <3>1. n = p
      BY <2>8, <2>10, <2>12, SubSeqFull
    <3>2. NotFound = operations[<<p, method>>]
      BY <2>7, <2>9, <2>12, <3>1 DEF EndsAt
    <3> QED  BY <2>1, <2>7, <3>2, StoredTyped, NotAnOperation DEF IInv
  <2>13. CASE Len(n) # Len(segs)
    <3> DEFINE j == Len(n) + 1
    <3>1. j \in 1 .. Len(p) /\ j - 1 = Len(n)
      BY <2>8, <2>11, <2>13
    <3>2. p[j] \in Range(children[n]) /\ Verdict(p[j], segs[j]) # "pass"
      BY <2>1, <2>7, <2>8, <2>10, <3>1 DEF Tree
    <3>3. DOMAIN children[n] = 1 .. Len(children[n])
      BY <2>1, <2>11, LenProperties DEF Tree
    <3>4. Choice(n, segs[j]) # 0
      BY <2>1, <2>11, <3>2, <3>3, ChoiceIsFirst DEF Range
    <3>5. Choice(n, segs[j]) = 0
      BY <2>2, <2>9, <2>13 DEF EndsAt
    <3> QED  BY <3>4, <3>5
  <2> QED  BY <2>12, <2>13
<1> QED  BY <1>1, Invariance, PTL

-----------------------------------------------------------------------------
(* Pointers to bodies *)

(* Whatever stands in a key, and in a pointer. *)
KeyTokens == UNION {Range(Spelled[key]) : key \in DOMAIN Spelled}

Tokens ==
  KeyTokens \cup {"~", "/", "0", "1"}
            \cup {"paths", "requestBody", "content", "schema"}

LEMMA SpelledTyped ==
  ASSUME NEW key \in DOMAIN Spelled
  PROVE  Spelled[key] \in Seq(Tokens)
<1> DEFINE s == Spelled[key]
           n == Len(s)
           R == Range(s)
<1>1. s \in Seq(R) /\ R \subseteq Tokens
  BY RouterAssumption DEF Tokens, KeyTokens
<1> HIDE DEF s, R
<1>2. n \in Nat /\ s \in [1 .. n -> R]
  BY <1>1, LenProperties
<1> HIDE DEF n
<1>3. s \in [1 .. n -> Tokens]
  BY <1>1, <1>2
<1>4. s \in Seq(Tokens)
  BY <1>2, <1>3
<1> QED  BY <1>4 DEF s

LEMMA BodyTyped ==
  ASSUME NEW b \in Bodies
  PROVE  /\ Body(b) \in Seq(Seq(Tokens)) /\ Body(b) # <<>>
         /\ BodyPath(b[1], b[2], b[3]) = Added(<<>>, Body(b))
<1> DEFINE Texts == Seq(Tokens)
           paths == <<"paths">>
           requestBody == <<"requestBody">>
           content == <<"content">>
           schema == <<"schema">>
           item == Spelled[b[1]]
           method == Spelled[b[2]]
           media == Spelled[b[3]]
           operation == <<paths, item, method>>
           body == <<requestBody, content, media, schema>>
           all == <<paths, item, method, requestBody, content, media, schema>>
<1>1. b[1] \in Items /\ b[2] \in Methods /\ b[3] \in MediaTypes
  BY DEF Bodies
<1>2. paths \in Texts /\ requestBody \in Texts /\ content \in Texts /\ schema \in Texts
  <2>1. /\ "paths" \in Tokens /\ "requestBody" \in Tokens
        /\ "content" \in Tokens /\ "schema" \in Tokens
    BY DEF Tokens
  <2> HIDE DEF Tokens
  <2> QED  BY <2>1
<1>3. item \in Texts /\ method \in Texts /\ media \in Texts
  BY <1>1, SpelledTyped, RouterAssumption
<1>4. Body(b) = all /\ BodyPath(b[1], b[2], b[3]) = Added(Added(<<>>, operation), body)
  BY DEF Body, BodyPath, OperationPath
<1>5. {"~", "/", "0", "1"} \subseteq Tokens
  BY DEF Tokens
<1> HIDE DEF Texts, paths, requestBody, content, schema, item, method, media
<1>6. /\ operation \in Seq(Texts) /\ Len(operation) = 3
      /\ operation[1] = paths /\ operation[2] = item /\ operation[3] = method
  BY <1>2, <1>3
<1>7. /\ body \in Seq(Texts) /\ Len(body) = 4
      /\ body[1] = requestBody /\ body[2] = content /\ body[3] = media /\ body[4] = schema
  BY <1>2, <1>3
<1>8. /\ all \in Seq(Texts) /\ Len(all) = 7
      /\ all[1] = paths /\ all[2] = item /\ all[3] = method
      /\ all[4] = requestBody /\ all[5] = content /\ all[6] = media /\ all[7] = schema
  BY <1>2, <1>3
<1> HIDE DEF operation, body, all
<1>9. operation \o body = all
  <2> DEFINE joined == operation \o body
  <2>1. /\ joined \in Seq(Texts)
        /\ Len(joined) = Len(operation) + Len(body)
        /\ \A i \in 1 .. Len(operation) + Len(body) :
             joined[i] = IF i <= Len(operation) THEN operation[i] ELSE body[i - Len(operation)]
    BY <1>6, <1>7, ConcatProperties
  <2> HIDE DEF joined
  <2>2. Len(joined) = 7 /\ \A i \in 1 .. 7 : joined[i] = IF i <= 3 THEN operation[i] ELSE body[i - 3]
    BY <1>6, <1>7, <2>1
  <2>3. /\ joined[1] = paths /\ joined[2] = item /\ joined[3] = method
        /\ joined[4] = requestBody /\ joined[5] = content
        /\ joined[6] = media /\ joined[7] = schema
    BY <1>6, <1>7, <2>2
  <2>4. \A i \in 1 .. 7 : i \in {1, 2, 3, 4, 5, 6, 7}
    OBVIOUS
  <2>5. \A i \in 1 .. 7 : joined[i] = all[i]
    BY <1>8, <2>3, <2>4
  <2>6. joined = all
    BY <1>8, <2>1, <2>2, <2>5, SeqEqual
  <2> QED  BY <2>6 DEF joined
<1>10. Added(Added(<<>>, operation), body) = Added(<<>>, operation \o body)
  BY <1>5, <1>6, <1>7, AddedTwice DEF Texts
<1>11. all # <<>>
  BY <1>8, EmptySeq
<1> QED  BY <1>4, <1>8, <1>9, <1>10, <1>11 DEF Texts

(***************************************************************************)
(* The pointer to the body of an operation that is stored leads to that    *)
(* body, whatever separators and escapes its template and its media type   *)
(* have, and to the body of no other operation (json_path.rs:16,           *)
(* mod.rs:570).                                                            *)
(***************************************************************************)
THEOREM PointersLeadBack == Spec => []BodyPointersLeadBack
<1>1. ASSUME NEW b \in Bodies  PROVE b \in WellPointed
  <2>1. {"~", "/", "0", "1"} \subseteq Tokens
    BY DEF Tokens
  <2>2. ReadPath(FormatPath(BodyPath(b[1], b[2], b[3]))) = Body(b)
    BY <2>1, BodyTyped, ReadsAdded
  <2>3. \A c \in Bodies : Body(c) = Body(b) => c = b
    <3> SUFFICES ASSUME NEW c \in Bodies, Body(c) = Body(b)  PROVE c = b
      OBVIOUS
    <3>1. \A d \in Bodies :
            /\ Body(d)[2] = Spelled[d[1]]
            /\ Body(d)[3] = Spelled[d[2]]
            /\ Body(d)[6] = Spelled[d[3]]
      BY DEF Body
    <3>2. \A d \in Bodies : /\ d = <<d[1], d[2], d[3]>>
                            /\ d[1] \in Items /\ d[2] \in Methods /\ d[3] \in MediaTypes
      BY DEF Bodies
    <3>3. \A x, y \in DOMAIN Spelled : Spelled[x] = Spelled[y] => x = y
      BY RouterAssumption DEF IsInjective
    <3>4. /\ {b[1], b[2], b[3], c[1], c[2], c[3]} \subseteq DOMAIN Spelled
          /\ Spelled[c[1]] = Spelled[b[1]]
          /\ Spelled[c[2]] = Spelled[b[2]]
          /\ Spelled[c[3]] = Spelled[b[3]]
      <4>1. /\ Body(c)[2] = Body(b)[2] /\ Body(c)[3] = Body(b)[3] /\ Body(c)[6] = Body(b)[6]
            /\ Items \cup MediaTypes \cup Methods \subseteq DOMAIN Spelled
        BY RouterAssumption
      <4> QED  BY <3>1, <3>2, <4>1
    <3>5. c[1] = b[1] /\ c[2] = b[2] /\ c[3] = b[3]
      <4>1. \A d \in {1, 2, 3} : b[d] \in DOMAIN Spelled /\ c[d] \in DOMAIN Spelled
        BY <3>4
      <4> QED  BY <3>3, <3>4, <4>1
    <3> QED  BY <3>2, <3>5
  <2>4. {c \in Bodies : Body(c) = ReadPath(FormatPath(BodyPath(b[1], b[2], b[3])))} = {b}
    BY <2>2, <2>3
  <2> QED  BY <2>4 DEF WellPointed
<1>2. IInv => BodyPointersLeadBack
  <2> SUFFICES ASSUME IInv, NEW k \in DOMAIN operations, NEW media \in MediaTypes
               PROVE  <<operations[k].item, operations[k].method, media>> \in WellPointed
    BY DEF BodyPointersLeadBack
  <2>1. operations[k] \in Operation
    BY StoredTyped, DocumentTyped DEF IInv, Crawls, OnTrail
  <2>2. operations[k].item \in Items /\ operations[k].method \in Methods
    BY <2>1 DEF Operation
  <2> QED  BY <1>1, <2>2 DEF Bodies
<1> QED  BY <1>2, Invariance, PTL
=============================================================================
