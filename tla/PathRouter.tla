----------------------------- MODULE PathRouter -----------------------------
(***************************************************************************)
(* The routing tree of OpenApiTraverser (src/src/traverser.rs):            *)
(* crawl_paths builds it once, inside `new`, from the paths of the         *)
(* document; get_operation_from_path_and_method then looks operations up   *)
(* in it, from any number of threads, and memoizes what it finds in        *)
(* `resolved_operations`.                                                  *)
(*                                                                         *)
(* A node of the tree keeps its children in a HashMap.  Its iteration      *)
(* order is arbitrary, differs from node to node and from one traverser to *)
(* the next, and is fixed once the tree is built.  A lookup goes into the  *)
(* first child in that order that accepts the segment and does not come    *)
(* back to try another.                                                    *)
(***************************************************************************)
EXTENDS Naturals, JsonPaths

CONSTANTS
  Threads,    \* threads that share the traverser
  Methods,    \* HTTP methods, in lower case
  Segments,   \* segments of request paths
  Names,      \* segments of templates: literals and names of parameters
  Schemas,    \* schemas of path parameters
  Converts,   \* the segments that convert to the type of a schema
  Accepts,    \* those of them that validate against it
  Unknown,    \* schemas of a type the conversion does not know
  Rejected,   \* schemas that the validator does not take for schemas
  Items,      \* keys of `paths`: templates as they are written
  MediaTypes, \* media types of request bodies
  Spelled,    \* the tokens of each of these keys, and of each method
  Documents,  \* documents: sequences of operations, in the order of the maps
  Paths,      \* request paths
  Split,      \* segments of a request path, empty ones filtered out
  MaxCalls,   \* bound: lookups a thread makes
  NoSchema,   \* schema of a literal segment
  NotFound,   \* Err(PathNotFound)
  Panic,      \* the lookup panicked
  Pending     \* no answer yet

(***************************************************************************)
(* An operation of a document: the key of its path item, the segments of   *)
(* that key, the method, whether it has a `parameters` array of its own,   *)
(* and the names in it whose first entry has a schema, with that schema    *)
(* (its location is not looked at).  A parameter given by $ref has no name *)
(* there and is not declared.  Any other key of the path item, such as its *)
(* own `parameters`, is crawled as a method too.                           *)
(***************************************************************************)
Template == Seq([parameter : BOOLEAN, name : Names])
Declared == UNION {[D -> Schemas] : D \in SUBSET Names}
Operation == [item : Items, template : Template, method : Methods,
              hasParameters : BOOLEAN, declared : Declared]

(* PathSegment: children are keyed by a parameter's name and its schema. *)
PathSegment == [parameter : BOOLEAN, name : Names, schema : Schemas \cup {NoSchema}]

ASSUME RouterAssumption ==
  /\ \A doc \in Documents :
       /\ doc \in Seq(Operation)
       /\ \A i, j \in 1 .. Len(doc) :
            doc[i].item = doc[j].item /\ doc[i].method = doc[j].method => i = j
  /\ Converts \in [Schemas -> SUBSET Segments]
  /\ Accepts \in [Schemas -> SUBSET Segments]
  /\ \A s \in Schemas : Accepts[s] \subseteq Converts[s]
  /\ Unknown \cup Rejected \subseteq Schemas
  /\ Split \in [Paths -> Seq(Segments)]
  /\ Items \cup MediaTypes \cup Methods \subseteq DOMAIN Spelled
  /\ \A key \in DOMAIN Spelled : Spelled[key] \in Seq(Range(Spelled[key]))
  /\ IsInjective(Spelled)
  /\ NoSchema \notin Schemas
  /\ {NotFound, Panic, Pending} \cap Operation = {}
  /\ NotFound # Panic /\ Pending \notin {NotFound, Panic}
  /\ MaxCalls \in Nat

VARIABLES
  document,   \* the operations under `paths`
  phase,      \* "crawling", "ready", or "failed": new returned an error
  current,    \* operation crawl_paths is at
  position,   \* segment of its template it is at
  node,       \* current_node: the tree node it has reached
  children,   \* the tree: the children of each node, in iteration order
  operations, \* the operations stored at the nodes, by node and method
  resolved_operations, \* memo table: partial function from <<path, method>>
  pc,         \* where each thread is
  request,    \* path and method a thread looks up
  at,         \* node its search has reached
  answer,     \* what its last lookup returned
  calls       \* lookups each thread has made

crawl == <<phase, current, position, node, children, operations>>
lookups == <<resolved_operations, pc, request, at, answer, calls>>
vars == <<document, crawl, lookups>>

Root == <<>>

(* The map with v at k: entry(k).or_insert(v) if k is new, insert(k, v). *)
With(map, k, v) == [x \in DOMAIN map \cup {k} |-> IF x = k THEN v ELSE map[x]]

Init ==
  /\ document \in Documents
  /\ phase = "crawling"
  /\ current = 1
  /\ position = 1
  /\ node = Root
  /\ children = [n \in {Root} |-> <<>>]
  /\ operations = [k \in {} |-> Pending]
  /\ resolved_operations = [k \in {} |-> Pending]
  /\ pc = [t \in Threads |-> "idle"]
  /\ request = [t \in Threads |-> <<>>]
  /\ at = [t \in Threads |-> Root]
  /\ answer = [t \in Threads |-> Pending]
  /\ calls = [t \in Threads |-> 0]

-----------------------------------------------------------------------------
(* crawl_paths *)

Crawled == document[current]
TemplateSegment == Crawled.template[position]

(* A bug that `Enter` must not have: the children are a list. *)
EnterTwice(seg) ==
  LET child == Append(node, seg) IN
  /\ node' = child
  /\ position' = position + 1
  /\ children' = With(IF child \in DOMAIN children THEN children
                       ELSE With(children, child, <<>>),
                       node, Append(children[node], seg))

(***************************************************************************)
(* children.entry(segment).or_insert_with(PathNode::new); where the new    *)
(* child comes in the iteration order of the map is anybody's guess.       *)
(***************************************************************************)
Enter(seg) ==
  LET child == Append(node, seg)
      Grown == {InsertAt(children[node], i, seg) :
                  i \in 1 .. Len(children[node]) + 1}
  IN  /\ node' = child
      /\ position' = position + 1
      /\ IF child \in DOMAIN children
         THEN UNCHANGED children
         ELSE \E order \in Grown :
                children' = With(With(children, child, <<>>), node, order)

AtSegment ==
  /\ phase = "crawling"
  /\ current <= Len(document)
  /\ position <= Len(Crawled.template)

CrawlStatic ==
  /\ AtSegment
  /\ ~TemplateSegment.parameter
  /\ Enter([parameter |-> FALSE, name |-> TemplateSegment.name,
            schema |-> NoSchema])
  /\ UNCHANGED <<document, phase, current, operations, lookups>>

CrawlParameter ==
  /\ AtSegment
  /\ TemplateSegment.parameter
  /\ Crawled.hasParameters
  /\ TemplateSegment.name \in DOMAIN Crawled.declared
  /\ Enter([parameter |-> TRUE, name |-> TemplateSegment.name,
            schema |-> Crawled.declared[TemplateSegment.name]])
  /\ UNCHANGED <<document, phase, current, operations, lookups>>

(* `continue`: a parameter the array does not declare adds no level. *)
CrawlUndeclared ==
  /\ AtSegment
  /\ TemplateSegment.parameter
  /\ Crawled.hasParameters
  /\ TemplateSegment.name \notin DOMAIN Crawled.declared
  /\ position' = position + 1
  /\ UNCHANGED <<document, phase, current, node, children, operations, lookups>>

(* Without an array, `?` leaves crawl_paths and new returns its error. *)
CrawlFails ==
  /\ AtSegment
  /\ TemplateSegment.parameter
  /\ ~Crawled.hasParameters
  /\ phase' = "failed"
  /\ UNCHANGED <<document, current, position, node, children, operations, lookups>>

(* Fault: the next operation is crawled from where this one ended. *)
StoreKeepsNode ==
  /\ phase = "crawling"
  /\ current <= Len(document)
  /\ position > Len(Crawled.template)
  /\ operations' = With(operations, <<node, Crawled.method>>, Crawled)
  /\ current' = current + 1
  /\ position' = 1
  /\ UNCHANGED <<document, phase, node, children, lookups>>

(* operations.insert: a later operation replaces one with the same key. *)
StoreOperation ==
  /\ phase = "crawling"
  /\ current <= Len(document)
  /\ position > Len(Crawled.template)
  /\ operations' = With(operations, <<node, Crawled.method>>, Crawled)
  /\ current' = current + 1
  /\ position' = 1
  /\ node' = Root
  /\ UNCHANGED <<document, phase, children, lookups>>

EndCrawl ==
  /\ phase = "crawling"
  /\ current > Len(document)
  /\ phase' = "ready"
  /\ UNCHANGED <<document, current, position, node, children, operations, lookups>>

(***************************************************************************)
(* Operation.path, and what RequestBodyValidator adds to its own copy of   *)
(* it to ask for the schema of a body (src/src/validator/request_body.rs). *)
(***************************************************************************)
OperationPath(item, method) ==
  Added(<<>>, << <<"paths">>, Spelled[item], Spelled[method] >>)

BodyPath(item, method, media) ==
  Added(OperationPath(item, method),
        << <<"requestBody">>, <<"content">>, Spelled[media], <<"schema">> >>)

Crawl ==
  CrawlStatic \/ CrawlParameter \/ CrawlUndeclared \/ CrawlFails
  \/ StoreOperation \/ EndCrawl

-----------------------------------------------------------------------------
(* get_operation_from_path_and_method and find_matching_operation *)

Segs(t) == Split[request[t].path]

(* Fault: the value is not validated. *)
VerdictUnvalidated(child, segment) ==
  IF child.parameter \/ child.name = segment THEN "match" ELSE "pass"

(***************************************************************************)
(* convert_string_to_schema_type panics on a type it does not know.  What  *)
(* it returns, if it succeeds, is validated: a schema that is none makes   *)
(* the validator panic.                                                    *)
(***************************************************************************)
Conversion(schema, segment) ==
  IF schema \in Unknown THEN "panic"
  ELSE IF segment \notin Converts[schema] THEN "pass"
  ELSE IF schema \in Rejected THEN "panic"
  ELSE IF segment \in Accepts[schema] THEN "match" ELSE "pass"

(* What a child makes of a request segment. *)
Verdict(child, segment) ==
  IF child.parameter THEN Conversion(child.schema, segment)
  ELSE IF child.name = segment THEN "match" ELSE "pass"

(* Fault: a child that passes ends the search. *)
ChoiceOfFirst(n, segment) ==
  IF children[n] # <<>> /\ Verdict(children[n][1], segment) # "pass" THEN 1 ELSE 0

(* The first child in iteration order that does not pass, if there is one. *)
Choice(n, segment) ==
  SelectInSeq(children[n], LAMBDA child : Verdict(child, segment) # "pass")

(* The method is that of the request in lower case: it is converted first. *)
Lookup(t, path, method) ==
  /\ phase = "ready"
  /\ pc[t] = "idle"
  /\ calls[t] < MaxCalls
  /\ calls' = [calls EXCEPT ![t] = @ + 1]
  /\ request' = [request EXCEPT ![t] = [path |-> path, method |-> method]]
  /\ at' = [at EXCEPT ![t] = Root]
  /\ answer' = [answer EXCEPT ![t] = Pending]
  /\ pc' = [pc EXCEPT ![t] = "entry"]
  /\ UNCHANGED <<document, crawl, resolved_operations>>

(***************************************************************************)
(* The search runs under the entry of its key: no other has it open.  (The *)
(* lock is of a whole shard, so other keys may wait too.  A search opens   *)
(* no second entry, so that costs time and nothing else.)                  *)
(***************************************************************************)
EntryFree(t) == \A u \in Threads : pc[u] = "search" => request[u] # request[t]

Return(t, a) ==
  /\ answer' = [answer EXCEPT ![t] = a]
  /\ pc' = [pc EXCEPT ![t] = "idle"]
  /\ UNCHANGED <<document, crawl, request, at, calls>>

Key(t) == <<request[t].path, request[t].method>>

EntryOccupied(t) ==
  /\ pc[t] = "entry"
  /\ EntryFree(t)
  /\ Key(t) \in DOMAIN resolved_operations
  /\ Return(t, resolved_operations[Key(t)])
  /\ UNCHANGED resolved_operations

EntryVacant(t) ==
  /\ pc[t] = "entry"
  /\ EntryFree(t)
  /\ Key(t) \notin DOMAIN resolved_operations
  /\ pc' = [pc EXCEPT ![t] = "search"]
  /\ UNCHANGED <<document, crawl, resolved_operations, request, at, answer, calls>>

(* Fault: the order is not that of the tree. *)
DescendAnyOrder(t) ==
  /\ pc[t] = "search"
  /\ Len(at[t]) < Len(Segs(t))
  /\ LET segment == Segs(t)[Len(at[t]) + 1]
         Takes(child) == Verdict(child, segment) = "match"
         takers == SelectSeq(children[at[t]], Takes)
     IN \/ /\ \E child \in Range(takers) : at' = [at EXCEPT ![t] = Append(@, child)]
           /\ UNCHANGED <<document, crawl, pc, request, answer, calls>>
        \/ takers = <<>> /\ Return(t, NotFound)
  /\ UNCHANGED resolved_operations

(* One call of find_matching_operation per segment of the request. *)
Descend(t) ==
  /\ pc[t] = "search"
  /\ Len(at[t]) < Len(Segs(t))
  /\ LET segment == Segs(t)[Len(at[t]) + 1]
         i == Choice(at[t], segment)
         child == children[at[t]][i]
     IN \/ /\ i # 0
           /\ Verdict(child, segment) = "match"
           /\ at' = [at EXCEPT ![t] = Append(@, child)]
           /\ UNCHANGED <<document, crawl, pc, request, answer, calls>>
        \/ /\ i # 0
           /\ Verdict(child, segment) = "panic"
           /\ Return(t, Panic)
        \/ /\ i = 0
           /\ Return(t, NotFound)
  /\ UNCHANGED resolved_operations

(* The last segment is matched; only a found operation is memoized. *)
EndSearch(t) ==
  /\ pc[t] = "search"
  /\ Len(at[t]) >= Len(Segs(t))
  /\ LET k == <<at[t], request[t].method>> IN
     \/ /\ k \in DOMAIN operations
        /\ resolved_operations' = With(resolved_operations, Key(t), operations[k])
        /\ Return(t, operations[k])
     \/ /\ k \notin DOMAIN operations
        /\ UNCHANGED resolved_operations
        /\ Return(t, NotFound)

Work(t) ==
  EntryOccupied(t) \/ EntryVacant(t) \/ Descend(t) \/ EndSearch(t)

Next ==
  \/ Crawl
  \/ \E t \in Threads :
       \/ \E path \in Paths, method \in Methods : Lookup(t, path, method)
       \/ Work(t)

Spec == Init /\ [][Next]_vars

-----------------------------------------------------------------------------
(***************************************************************************)
(* Every variable has its type, and the nodes are a tree: the children of  *)
(* a node are nodes, each listed once, and every node but the root is the  *)
(* child of one (PathNode.children, traverser.rs:163).                     *)
(***************************************************************************)
TypeOK ==
  /\ phase \in {"crawling", "ready", "failed"}
  /\ current \in 1 .. Len(document) + 1
  /\ position \in Nat
  /\ node \in DOMAIN children
  /\ \A n \in DOMAIN children :
       /\ n \in Seq(PathSegment)
       /\ IsInjective(children[n])
       /\ \A i \in 1 .. Len(children[n]) : Append(n, children[n][i]) \in DOMAIN children
       /\ n # Root => Front(n) \in DOMAIN children /\ Last(n) \in Range(children[Front(n)])
  /\ \A k \in DOMAIN operations :
       k[1] \in DOMAIN children /\ operations[k] \in Range(document)
  /\ \A k \in DOMAIN resolved_operations : resolved_operations[k] \in Range(document)
  /\ pc \in [Threads -> {"idle", "entry", "search"}]
  /\ \A t \in Threads : at[t] \in DOMAIN children
  /\ \A t \in Threads :
       answer[t] \in Range(document) \cup {NotFound, Panic, Pending}
  /\ calls \in [Threads -> 0 .. MaxCalls]

(***************************************************************************)
(* The tree crawl_paths builds, stated without the crawl: an operation     *)
(* sits where its template leads, undeclared parameters left out           *)
(* (traverser.rs:265, :267), and of two at one place the later one stays.  *)
(* There is one only if every operation with a parameter in its template   *)
(* has an array (traverser.rs:255).                                        *)
(***************************************************************************)
Kept(op) ==
  {i \in 1 .. Len(op.template) :
     op.template[i].parameter => op.template[i].name \in DOMAIN op.declared}

Segment(op, i) ==
  LET seg == op.template[i] IN
  [parameter |-> seg.parameter, name |-> seg.name,
   schema |-> IF seg.parameter THEN op.declared[seg.name] ELSE NoSchema]

(* The j-th smallest of a finite set of numbers. *)
Ranked(S, j) == {i \in S : Cardinality({k \in S : k <= i}) = j}
Nth(S, j) == CHOOSE i \in Ranked(S, j) : TRUE

Resolved(op) ==
  [j \in 1 .. Cardinality(Kept(op)) |-> Segment(op, Nth(Kept(op), j))]

Place(i) == <<Resolved(document[i]), document[i].method>>

HasParameter(op) == \E i \in 1 .. Len(op.template) : op.template[i].parameter

TreeHoldsDocument ==
  phase = "ready" =>
    /\ \A i \in 1 .. Len(document) : HasParameter(document[i]) => document[i].hasParameters
    /\ DOMAIN operations = {Place(i) : i \in 1 .. Len(document)}
    /\ \A i \in 1 .. Len(document) :
         (\A j \in i + 1 .. Len(document) : Place(j) # Place(i))
           => operations[Place(i)] = document[i]

(***************************************************************************)
(* The pointer by which a body is validated is made of keys that hold the  *)
(* separator (a template, a media type) and may hold the escape: it leads  *)
(* back to the schema of the operation that was found, in the document,    *)
(* and of no other one (json_path.rs:16, mod.rs:570).                      *)
(***************************************************************************)
Bodies == {<<i, m, t>> : i \in Items, m \in Methods, t \in MediaTypes}

Body(b) ==
  << <<"paths">>, Spelled[b[1]], Spelled[b[2]],
     <<"requestBody">>, <<"content">>, Spelled[b[3]], <<"schema">> >>

(* The bodies whose pointer leads to them and to nothing else. *)
WellPointed ==
  {b \in Bodies :
     {c \in Bodies : Body(c) = ReadPath(FormatPath(BodyPath(b[1], b[2], b[3])))}
       = {b}}

BodyPointersLeadBack ==
  \A k \in DOMAIN operations, media \in MediaTypes :
    <<operations[k].item, operations[k].method, media>> \in WellPointed

(* What a template says of a request: segment by segment, it accepts it. *)
Declares(op) ==
  \A i \in 1 .. Len(op.template) :
    op.template[i].parameter => op.template[i].name \in DOMAIN op.declared

Fits(op, segs) ==
  /\ Len(op.template) = Len(segs)
  /\ \A i \in 1 .. Len(segs) :
       IF op.template[i].parameter
       THEN /\ op.template[i].name \in DOMAIN op.declared
            /\ segs[i] \in Accepts[op.declared[op.template[i].name]]
       ELSE op.template[i].name = segs[i]

Answers(op, t) == op.method = request[t].method /\ Fits(op, Segs(t))

Found(t) == answer[t] \notin {NotFound, Panic, Pending}

(***************************************************************************)
(* An operation that is found has the method of the request, and its       *)
(* template accepts the path, if its own array declares its parameters:    *)
(* whatever else is in the document, and whether it was memoized or not.   *)
(***************************************************************************)
FoundFits ==
  \A t \in Threads :
    Found(t) /\ Declares(answer[t]) => Answers(answer[t], t)

(***************************************************************************)
(* Lookups of the same segments and method on one traverser agree, hit or  *)
(* miss, whichever spelling of the path comes first and in whatever order  *)
(* the HashMaps iterate (traverser.rs:463).                                *)
(***************************************************************************)
LookupsAgree ==
  \A t, u \in Threads :
    /\ answer[t] # Pending /\ answer[u] # Pending
    /\ Segs(t) = Segs(u) /\ request[t].method = request[u].method
    => answer[t] = answer[u]

(***************************************************************************)
(* If no node has two children for one segment, PathNotFound means that no *)
(* operation fits (traverser.rs:418): only then is it no loss that the     *)
(* search does not come back to try another child.                         *)
(***************************************************************************)
Unambiguous ==
  \A n \in DOMAIN children, segment \in Segments :
    \A i, j \in 1 .. Len(children[n]) :
      /\ Verdict(children[n][i], segment) # "pass"
      /\ Verdict(children[n][j], segment) # "pass"
      => i = j

NotFoundIfUnambiguous ==
  Unambiguous =>
    \A t \in Threads, i \in 1 .. Len(document) :
      answer[t] = NotFound => ~Answers(document[i], t)

(***************************************************************************)
(* traverser.rs:418 says without a condition: "Returns `PathNotFound`      *)
(* error if no matching operation exists."                                 *)
(***************************************************************************)
NotFoundMeansNone ==
  \A t \in Threads, i \in 1 .. Len(document) :
    answer[t] = NotFound => ~Answers(document[i], t)

(***************************************************************************)
(* traverser.rs:416 says of every lookup: "performs path matching with     *)
(* parameter validation".                                                  *)
(***************************************************************************)
FoundAlwaysFits ==
  \A t \in Threads : Found(t) => Answers(answer[t], t)
=============================================================================
