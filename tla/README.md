# TLA+ verification of OASert

OASert is a Rust library that checks HTTP requests against an OpenAPI document.
This directory holds its TLA+ models, the TLC configurations that check them on
small instances, and theorems that TLAPS checks for all instances. Paths such as
`traverser.rs:334` are relative to `src/src/`, those that begin with `examples/` to
`src/`.

## The system

A program parses an OpenAPI document, makes an `OpenApiPayloadValidator` of it
and shares that, in an `Arc`, among all the tasks that serve requests. Most
programs keep their validators in the process-wide `global_validator_cache()`.

| component | state it keeps | operations | hard behaviour | what makes it right |
|---|---|---|---|---|
| reference resolution (`traverser.rs`) | `resolved_references`, a DashMap from `$ref` strings to `Arc<Value>`; its shard locks; the stack of open entries of each thread | `get_required`, `get_optional`, `resolve_possible_ref`, `get_reference_path`, `resolve_with_cache` | threads that share the table; an entry held open over the resolver, recursively; errors that leave through open entries; cycles | every answer is right for the document, each `$ref` is resolved once, the table is write-once, no lock is leaked, nobody waits for ever |
| path router (`traverser.rs`) | `path_router`, a tree of HashMaps; `resolved_operations`, a DashMap from path and method to operations | `crawl_paths`; `get_operation_from_path_and_method`, `find_matching_operation` | iteration order of HashMaps; greedy search; skipped segments; overwritten operations; a memo keyed by spelling; panics in the search | what is found fits the request, what fits is found, lookups agree |
| typed accessors (`traverser.rs`) | none | `get_as_*`, `require_*` | - | projections of a JSON value |
| validator collection (`cache.rs`) | `cache`, a DashMap from ids to validators; its shard locks | `insert`, `insert_from_file_path`, `get`, `remove`, `contains`, `len`, `is_empty`, `clear` | construction under the entry, that may fail or panic; `len` and `clear` shard by shard | calls about one id are atomic; `clear` leaves nothing it met; `len` is within what it could have seen; every call returns |
| payload validator (`validator/mod.rs`) | the traverser and the validation options, constant after `new` | `new`, `find_operation`, `validate_request` and its five parts | early returns; parts that are skipped; `todo!()` | a request is accepted exactly if each part the caller asked for conforms |
| body, parameter and scope validators (`validator/*.rs`) | none | `validate` | error paths; definitions found through `$ref` and validated by pointer | same |
| primitive conversion (`types/primitive.rs`), and what reads headers and query strings (`validator/mod.rs:363`, `:432`) | none | `convert_string_to_schema_type`, `validate_request_header_params`, `validate_request_query_parameters` | unknown type names panic; limits of `i64` and `f64`, rounding; values that are sent twice | what passes means, as it was sent, a value the schema accepts |
| builder and version (`validator/builder.rs`, `types/version.rs`) | loader, version, root id | setters, `build` | settings that are dropped, or contradict `@@root`; files that change before they are read | `build` gives what `new` gives |
| JSON paths (`types/json_path.rs`) | list of segments | `add`, `format_path` | escapes whose order matters | the pointer leads back to the body |
| gateway and hyper-validation (`examples/`) | a validator or a collection; one task per connection; a connection downstream per request | accept, read, validate, forward, relay | a synchronous validation on the worker of a task; a service that crashes; clients that leave; errors that end `main`; panics | only accepted requests are forwarded, answers are true, requests are not lost without a reason |
| Lambda example, HTTP conversion, errors, operation types | none | - | - | - |

How they interact: `validate_request` calls `find_operation` (path router), then
the body, header, query and scope validators, each of which reads the operation
and the document through `get_required` and `get_optional` (reference
resolution). `ValidatorCollection::insert` runs `OpenApiPayloadValidator::new`,
and so `crawl_paths`, while it holds a shard lock. In the library there are no
messages, no timeouts and nothing that survives a crash; there is shared memory
under the locks of three DashMaps, and panics that unwind through their guards. The
servers of `examples/` call `validate_request` from asynchronous tasks, where a call
that waits keeps a worker thread, and put a service behind it that may fail.

DashMap is a dependency. It is modelled from its use: `entry` returns with the
write lock of the shard of its key, the lock is not reentrant and not fair, it
is freed when the entry is dropped, on a panic too, and is not poisoned; an
iteration (`len`, `clear`) locks one shard after the other.

## The modules

| module | what it models |
|---|---|
| `ReferenceGraph` | a document as a function from `$ref` strings to nodes; what a `$ref` leads to (a least fixed point, so cycles lead nowhere); what an accessor must answer, and apart from that `None` for a `$ref` to nothing |
| `MemoTable` | abstract specification: questions, replies that are right for the document, and a table that grows from the far ends of chains |
| `ReferenceResolver` | the resolution itself, one action per step between two lock operations |
| `ReferenceResolverProofs` | theorems and proofs about it |
| `CollectionPromise` | abstract specification: every call about one id takes effect in one step |
| `ValidatorCollection` | `cache.rs`: every operation, the construction under the entry, the scans of `len` and `clear` |
| `ValidatorCollectionProofs` | theorems and proofs about it |
| `PathRouter` | the construction of the tree and the lookups; the pointers to the bodies of operations |
| `PathRouterProofs` | theorems and proofs about it |
| `JsonPaths` | `JsonPath` with its escapes, and how a JSON pointer is read |
| `JsonPathsProofs` | theorem and proofs about it |
| `RequestValidation` | `validate_request` and the body, parameter and scope validators it calls, with what OpenAPI asks of each part beside it |
| `RequestValidationProofs` | theorems and proofs about it |
| `ParameterTexts` | reading headers and query strings into a map; converting a text to JSON |
| `RequestTexts` | `RequestValidation` on requests as they are sent, composed with `ParameterTexts` |
| `RequestTextsProofs` | theorems and proofs about it |
| `ValidatorBuilder` | the builder, beside `new`, and validation by pointer |
| `ValidatorBuilderProofs` | theorems and proofs about it |
| `Servers` | the gateway and hyper-validation with their clients, workers and downstream service |
| `ServersProofs` | theorems and proofs about it |
| `MC*` | instances for TLC |

The actions and the code:

- `ReferenceResolver`. `Access` is the call of an accessor up to the first
  `DashMap::entry`; `EntryOccupied` and `EntryVacant` are the two arms of
  `resolve_with_cache`; `FollowPointer` is `get_reference_path` up to the next
  `entry` (its `HashSet` is new in each resolver, so the test for a cycle has no
  effect and is not in the action); `CloseEntry` is the return of a resolver,
  with `insert` or with `?`; `Answer` is what the accessor makes of the result.
  `stack[t]` is the call stack of resolvers, `holder` the shard locks,
  `shardOf` the hash. A value is `[val, by]`, the node and the thread that
  allocated the `Arc`, so that sharing an `Arc` can be told from equality.
- `ValidatorCollection`. `Ask` begins a call, `ReadFile` is the file access of
  `insert_from_file_path`, `InsertOccupied`/`InsertVacant` the two arms of
  `insert`, `Build` is `create_validator` with its three ends, `Get`, `Remove`,
  `Contains` the calls that hold a lock for an instant, `Visit` and `EndScan`
  the shard-by-shard `len` and `clear`. `doomed`, `always` and `ever` are history
  variables that the properties need.
- `PathRouter`. `CrawlStatic`, `CrawlParameter`, `CrawlUndeclared` (the two
  `continue`s) and `CrawlFails` (the `?`) are one turn of the loop over the
  segments of a template, `StoreOperation` its end, `EndCrawl` the end of the
  loop over the operations. `Lookup`, `EntryOccupied` and `EntryVacant` are
  `get_operation_from_path_and_method` with `resolve_with_cache`; `Descend` is
  one call of `find_matching_operation`, `EndSearch` the last one. A node of
  the tree is the sequence of segments from the root; its children are a
  sequence, whose order stands for the arbitrary order of the HashMap: `Enter`
  inserts a child at any place. `Conversion` is what is done with a segment under a
  parameter: a type in `Unknown` panics at once; of the segments that convert to the
  type (`Converts`) the validator takes those in `Accepts`, and panics on each if
  it does not take the schema for one (`Rejected`). Those that do not convert pass
  to the next child.
- `RequestValidation`. The variables `operation`, `security` and `request` are
  what the call is given and never change; `stage` is the part of
  `validate_request` that runs, `index` the turn of its loop over the
  parameters. `FindOperation` is `find_operation`, whose result `PathRouter`
  models; `UndefinedBody`, `UntypedBody` and `TypedBody` are the branches of
  `RequestBodyValidator::validate`; `UnreadableParameter`, `OtherParameter` and
  `CheckParameter` are a turn of the loop of `RequestParameterValidator`,
  `EndParameters` its end; `CheckScopes` is `RequestScopeValidator`; `SkipQuery`
  and `SkipScopes` are the two `if let`s. Conversion and JSON Schema validation
  are the constant `Accepts`, the check of required fields is `Complete`. A
  definition is `inline`, behind a `$ref` or behind a `$ref` to nothing; that the
  `$ref` is then read correctly is what `ReferenceResolver` is about.
  `converted_body` gives no body where serialization fails, and `to_value` makes
  `Null` of that, so the branches for a request without an instance are never
  taken and have no action. Header parameters named Accept, Content-Type or
  Authorization are parameters like any other here, as they are in the code; OpenAPI
  has such definitions ignored, and the module makes no statement about that.
- `JsonPaths`, in `PathRouter`. A key is a sequence of tokens, `/` and `~` among
  them; `BodyPath` is the path that `RequestBodyValidator` builds, `ReadPath` how
  RFC 6901 reads a pointer. The items `/~1` and `//` are there because their
  escaped forms differ by a tilde alone.
- `RequestTexts`. `sent` holds the header fields in order and the pieces of the
  query string; `HeadersOf` and `QueryOf` make of it the maps that the steps of
  `RequestValidation` work on, as the two `collect()`s do. `Accepts` is no longer
  free for schemas with a known type: it is `ConvertsAndValidates`, the conversion
  of `primitive.rs` and then the type and the maximum of the schema. A number is a
  count of halves; `Width`, `Precision` and `Top` stand for 64 bits, 53 bits and
  the exponent of `f64`.
- `ValidatorBuilder`. `SetVersion`, `SetRootId` and `LoadFromFile` are the setters,
  `Build` is `build` with `load_file_spec`, `Write` someone who replaces a file,
  `ValidateByPath` what `complex_validation_by_path` needs of the validator.
  `calls` and `source` are history variables.
- `Servers`. `Start` and `Accept`/`AcceptFails` are `main`; `Receive`, `Dial`,
  `Judge`, `Forward`, `LoseService`, `Relay` and `LoseAnswer` are what the task of
  a connection does between two `await`s; `Send`, `FinishBody`, `Leave`, `Answer`,
  `Crash` and `Restart` are the clients and the service. `Judge` reads the body and,
  unless that ends the request, starts `validate_request`, which then takes steps
  among those of the other tasks, on the worker it has: `OpenEntry` takes the shard
  of the next `$ref` of a chain in the table of the validator, and waits while it is
  taken; `EndChain` closes the entries of a chain; `Conclude` is the return, or the
  panic. `walk` holds the chains that are still to be resolved, `passed` how far the
  first of them is; `Held` are the shards of its open entries, `Stuck` the validations
  that wait for each other or for themselves. The verdict and the possible walks
  are a part of the request (`RequestValidation` and `ReferenceResolver` say where
  they come from). `Drop` is what the end of `main` does to the other tasks. The
  `hyper` connection that the gateway spawns downstream is `link`.

Operators named after an action with a suffix (`EntryVacantUnlocked`,
`CloseEntryLeaks`, `BuildPanicLocks`, `DescendAnyOrder`, ...) are bugs the code
does not have. No specification uses them: put in the place of the action, each
breaks the property it is meant for, which shows that the property is about the
code.

## The runs

| run | question | instance | result |
|---|---|---|---|
| `resolver_chains` | is the resolution right, and free of deadlock while pointers descend along the shards? does it implement `MemoTable`? | 3 `$ref`s, 2 values, 2 threads, 2 shards, 2 calls each; every document and every hash | holds |
| `resolver_answers` | is every call answered under that condition? | 2 `$ref`s, 1 value, otherwise the same, with fairness | holds |
| `resolver_circular` | is a circular `$ref` answered? | 2 `$ref`s, 1 thread, 2 shards, 1 call, fair | violated |
| `resolver_nested` | is every non-circular `$ref` answered? | the same | violated |
| `resolver_optional` | does `get_optional` answer `None` only where the field is missing? | 2 `$ref`s, 2 values, 1 thread, 2 shards, 2 calls | violated |
| `collection` | is each call atomic, each lock freed, each scan right, and does every call return? | 2 tasks, 2 ids, 2 shards, 2 calls each; fair | holds |
| `router` | does the tree hold the document, does what is found fit, do lookups agree, do body pointers lead back? | every document of at most 2 operations over 8 templates, 4 schemas and 2 methods; 5 request paths; 2 threads | holds |
| `router_backtrack` | does `PathNotFound` mean that no operation fits? | documents with all parameters declared | violated |
| `router_undeclared` | does what is found always fit? | same as `router` | violated |
| `requests` | does what passes a part conform to the document, does what fails one deviate, in what was read and in what was sent, and where may the call panic? | 1440 operations, 238 requests from 38 pairs of header fields and query | holds |
| `builder` | does `build` make what `new` makes, of the file as it is then, and does the last call of each setter count? | 3 setters, 2 files of 10 contents, 1 write, 3 versions, 2 ids | holds |
| `servers` | is only what is accepted forwarded, are answers true, which requests are lost, what gets a validation stuck, does a request move on? | 2 connections, 2 requests out of 8 kinds, 1 or 2 workers, 2 prefixes, 2 shards, 1 crash; fair | holds |

The passing runs have 643,478 (`resolver_chains`), 144,352 (`resolver_answers`),
580,420 (`collection`), 618,106 (`router`), 3,613,040 (`requests`), 458,800
(`builder`) and 307,290 (`servers`) distinct states.

Bounds. Three `$ref`s give chains of three, cycles of one, two and three, and
chains that end nowhere or run into a cycle; two shards give both a collision
and an opposite locking order; two threads are enough for two to want one
entry or to wait for each other; the second call of a thread meets what the
first one memoized. In the collection two ids over two shards may share a shard
or not, and two calls let an id be inserted, removed, cleared and inserted
again. In the router two operations are enough for two templates to compete for
a segment, for a place in the tree or for a name, and the templates are chosen
so that they do: a literal beside a parameter, two parameters with different
names, two spellings of one template, a parameter above a literal, a parameter
that is not declared, an operation without an array, a type the conversion does not
know, a schema the validator rejects. Two threads with one call each cover a lookup
that meets the memo of the other.
For `validate_request` the parts are independent but for their order and the loop
index, so the operations vary one part at a time: every requestBody (by `$ref` or
not, required or not or silent, four kinds of schema, no media type), every list
of at most two parameters out of all locations, spellings, schemas and `$ref`s,
every form of security section; two parameters are enough for one to hide the
other, and for the index of one loop to be seen in the next. The texts are chosen
around the limits of a small `i64` and `f64` (integers -16 to 15, 4 bits of
significand, infinite from 64 on): the smallest integer, the first ones beyond both
ends, numbers that round up and down across a maximum, one that overflows, a plus, a
point, NaN, a word. A name may be sent twice, the wrong value first or last.
For the builder three setters let a setting be given, replaced and taken back, or
all three be given; a file written once may change before and after `build`.
For the servers two connections are enough for two validations that wait for each
other, or for one to wait for a shard that a stuck one keeps. The requests have one
that takes the two shards in one order, or, where the far end is memoized, one after
the other; one that takes them in the opposite order, of the same document or of the
other one; and one whose chain is a circle. So a validation gets stuck alone, with
another one, or behind another one, with a worker left or without one. The
second request may also come on the connection of the first and meet what that has
left behind; one crash can break each wait for the service.
Threads are symmetric, and so are the methods: no action tells one from
another. The runs with liveness use no symmetry.

`CHECK_DEADLOCK FALSE` is set because threads stop after `MaxCalls` calls, a
validation and a builder come to an end, and servers run out of requests; in the
resolver, real deadlock is the subject of `NoDeadlock` and
`EveryCallAnswered`.

Fairness. `FairSpec` asks weak fairness of the steps of each thread: a thread
that stays able to move is scheduled. A thread that waits for a lock is able to
move only while the lock is free, so nothing is assumed about who gets it; with
the calls bounded, it is not overtaken for ever. No fairness is assumed of
`Access`, `Ask` or `Lookup`: callers need not call.

`Servers` asks weak fairness of each task (`Poll`, `Drop`), and only while no
validation is stuck. tokio polls every task that was woken and the system runs every
worker, but a poll that blocks may keep the worker that waited for I/O events, and no
idle worker need take over from it; so nothing is assumed from then on, though a
worker may be free. A shard goes to any of the validations that wait for it; as there
are only so many requests, none is overtaken for ever. Nothing is assumed of clients,
of the service or of `accept`: there are no timeouts in the code, and `MovesOn`
therefore does not say that a request is answered, only that it does not lie with the
server.

### Where the code and its documentation differ

- A circular `$ref` is not detected: each resolver starts with an empty set of
  seen references (`traverser.rs:629`), and the second visit waits for the shard
  lock that the first one holds. `README.md:20` and `traverser.rs:642` promise
  detection.
- The same wait happens without a cycle, when two `$ref`s of one chain hash to
  one shard (`traverser.rs:334`). How often depends on the number of shards and
  on the hash.
- `get_optional` answers `None` for a `$ref` that points nowhere
  (`traverser.rs:553`), as `get_reference_path` reports it as a missing field too
  (`:670`); its documentation (`:504`, `:543`) has `None` for missing fields only and
  other errors propagated. `NoneMeansMissing` is the documentation; `AnswersCorrect`,
  which the passing runs check, is the same but for this one case.
- A lookup does not come back from a child that accepted a segment
  (`traverser.rs:466`); the documentation says `PathNotFound` is returned if no
  operation matches.
- A path parameter that is not declared inline adds no level to the tree
  (`traverser.rs:265`), so `/{a}/x` answers for `/x`.
- A required query parameter is not missed if the request has no query string
  (`validator/mod.rs:302`); the documentation of `validate_request` says that query
  parameters are validated and that `Ok` means a valid request. `PassedConforms` says
  nothing of the query parameters of such a request; without that condition TLC finds
  the counterexample.

`PassedConforms` and `FailedDeviates` say, of what was read from a request, where
the validators differ from OpenAPI, and name every case. Without any one of these cases TLC finds a
counterexample.

| the code accepts | | the code refuses | |
|---|---|---|---|
| an optional body whatever it is, without a Content-Type | `request_body.rs:171` | a body whose requestBody is given by `$ref` | `request_body.rs:159` |
| no body for a required one, if the schema allows null | `request_body.rs:152` | no body where `required` is absent, or is false but a Content-Type is sent | `request_body.rs:125`, `:152` |
| any value of an optional header written with a capital | `mod.rs:367` | a required header written with a capital | `mod.rs:367` |
| one scheme of a requirement that names several | `scope.rs:47` | a requirement that names none | `scope.rs:47` |
| | | a body that is no object, if the schema lists required fields; a media type without a schema | `request_body.rs:68`, `:143` |
| | | a parameter without a schema; one, if sent, whose schema is a `$ref`, a list of types, an array or an object | `request_parameter.rs:109`, `primitive.rs:74`, `:97` |
| | | every request, if any parameter of the operation is a `$ref` to nothing | `request_parameter.rs:67` |

`PassedAsSent` and `FailedAsSent` say the same of the texts as they were sent, for
parameters whose schema has a known type. Again no case can be left out.

| the code accepts | | the code refuses | |
|---|---|---|---|
| any text, if the type is null | `primitive.rs:91` | an integer beyond `i64`, or written with a point or an exponent | `primitive.rs:94` |
| a number above the maximum that rounds to one in bounds | `primitive.rs:95` | a number in bounds that rounds out of them, or overflows to infinity and becomes null | `primitive.rs:95` |
| `+5` or `5=x` in a query, as 5 | `mod.rs:440` | | |
| a value the schema does not accept, before another of the same name | `mod.rs:379`, `:463` | | |
| a last header value that is no visible ASCII: the one before it counts | `mod.rs:371` | | |

`PanicsOnlyHere` names the two panics: no operation is found (`mod.rs:180`), and a
parameter of an unknown type is sent. `boolean` is unknown, where `README.md:78`
lists it among the types that are converted: `from_str` only knows `bool`
(`primitive.rs:37`). A parameter of type `bool` does not panic but cannot pass
either, as no draft of JSON Schema has that type; it is left out of the instances.

### What the models of the servers leave out or fold

- A target too long for a URI once `http://127.0.0.1:3000` is put before it is the
  only way to "Invalid URI format"; "URI has no host" cannot happen. A failed
  handshake (`examples/hyper-gateway-example/main.rs:164`) is a failed `send_request`:
  both answer 502.
- A body that cannot be read to its end is "broken" if its client is still there: the
  gateway answers 400 (`examples/hyper-gateway-example/main.rs:102`), hyper-validation
  panics (`examples/hyper-validation/main.rs:65`). A client that goes while its body
  is read is `Leave`.
- Where the gateway answers before it has read the body, hyper may close the
  connection or keep it: `RespondUnread` has both.
- The answer of the service is relayed as a whole; its head may have been sent when
  the service crashes (`LoseAnswer`).
- Which chains a validation resolves depends on what the table holds by then. The
  walks of a request are all that this can come to, and each validation takes any of
  them; the table itself is `ReferenceResolver`'s. The entry for an operation
  (`traverser.rs:427`), open while the paths are searched, is a chain of one shard.
- The entries of a chain are closed in one step. In the code they are closed one after
  the other from the far end, and no shard is waited for in between.
- The two documents of the gateway declare `/pets` and `/anotherEndpoint`, and the
  gateway passes the path with its prefix: with them as they are, the verdict of
  every request under a prefix is "panic" (`mod.rs:180`). The model has all verdicts,
  as the documents are data.

## The proofs

`ReferenceResolverProofs` proves, for any sets of `$ref`s, values, threads and
shards, any document and any hash (`GraphAssumption` and `ResolverAssumption`
only keep the model values apart):

1. `TypeCorrect`: `TypeOK`, with `Shape`, which ties the program counter of a
   thread to its stack and its result.
2. `LocksCorrect`: `LocksMatchOpenEntries`. The argument is on `Open(t)`: a step
   changes the open entries of one thread by at most the innermost one, and
   the holder of one shard in step with it.
3. `Invariance`: the inductive invariant `IInv`. Beside the above it says that
   each `$ref` on a stack is what the one below points at, that the bottom is
   what the caller asked about, that the result a thread carries is what the
   innermost open `$ref` leads to, and that open `$ref`s are not in the table.
   `MemoSound` alone is not inductive: what `CloseEntry` inserts is right only
   because of what the stack and the result have to do with each other. From
   `IInv` follow `MemoIsSound`, `ChainsShare`, `AnswersAreCorrect`,
   `ResolvedOnce` and
   `WriteOnce`. `AnswersAreCorrect` is `AnswersCorrect`, with its exception.
4. `DeadlockFree`: were every busy thread waiting, the set of the shards they
   wait for would have, by `ShardsOrdered`, a shard none of whose keys points
   into the set; its holder waits for a shard of the set through such a key.
5. `KeepsPromise`: `ReferenceResolver` implements `MemoTable`. `Access` is
   `Ask`, the `CloseEntry` of a resolver that succeeded is `Memoize`, `Answer` is
   `Reply`, every other step is a stutter.

`Leads` is defined as a least fixed point over sets instead of by recursion, so
that its two facts (it holds one step back, and only one step back) are proved
without induction.

`ValidatorCollectionProofs` proves, for any tasks, ids, hash, number of shards and of
calls: `TypeCorrect`, `LocksCorrect`, `ClearsAll`, `CountsWithin` and `KeepsPromise`.
From `CollectionAssumption` it needs that there are shards and that the hash maps ids
to them. None of the properties is inductive:

- `LockedWhileBuilding` needs `Stage`: what a task has asked for at each place.
- `ClearComplete` needs `AllOld`, that a validator in the cache or met by a clear was
  made by a call that has returned (so that no running call can insert it again), and
  `Sweeping`, that what a running clear has met lies in the shards still to come.
- `LenInBounds` carries its bounds from shard to shard; it needs `Watching`, that what a
  running `len` has seen all along is still there, and that it has seen all that is.
- `KeepsPromise` maps both modules' variables of the same name to each other. `ReadFile`
  if it fails, `InsertOccupied` and `Build` are `Insert`; `EndScan` is `Len` or the
  last `Sweep`, each `Visit` of a clear a `Sweep` of one shard, and the rest
  stutters.

`PathRouterProofs` proves, for any documents, schemas, verdicts, request paths and
threads and any order of the HashMaps, `TypeCorrect`, `DocumentHeld`, `FoundIsFit`,
`LookupsAlwaysAgree` and `NothingLost`. The invariant has five parts. `Tree`: the nodes
are closed under taking the node above, and every segment of a node is a child there.
`OnTrail`: the crawl is where the kept places of the template it has passed lead
(`Trail`); a segment entered is the next of them because a number above all others
comes last in their order (`RankedAbove`). `Stored`: the operations before the current
one are at their places, and nothing else is. `NotYet`: no lookup begins before the
tree is there. `Answered`: a search is at a node of first choices (`Reach`), and
what was answered or memoized is how a search from such a node ends (`Outcomes`).
`LookupsAgree` is not inductive without the last, as it says nothing of a search
under way or of the memo. Then `OneOutcome`: two nodes of first choices agree at the
first place at which they could differ (`AgreeAll`, by the least such place), so there
is one of each length, and a search ends at one of them only. `NothingLost` compares
the node of first choices with the place of an operation that fits in the same way.
Of `RouterAssumption` these five use the shapes of documents and of `Split`, that
the three answers that are no operation differ from each other and from operations,
and that `MaxCalls` is a natural number; the sixth, below, what it says of `Spelled`.

`JsonPathsProofs` proves `ReadsAdded`: the segments that are added to a `JsonPath` are
read back from its pointer, each as it was, whatever tokens stand in them. The
operators are folds over sequences, so the statements about all sequences come from
`SequencesByAppend`: a set of sequences that has the empty one, and with each all that
extend it by one element, has them all. Each operator has a lemma about one more
token or segment at the end. A token that is read needs the one before it
(`Unescape`), so the statement carried along a segment (`ReadsEscaped`) also says that
an escaped segment has no separator and does not end in a tilde. `Marked` gives the
ends of a pointer in their order; `PartsBetween` says that `Parts`, which tells them
apart by counting, splits the pointer there. From this `PathRouterProofs` has a sixth
theorem, `PointersLeadBack` (`BodyPointersLeadBack`), for any keys: that no two of them
are spelled alike is all it needs to know.

`RequestValidationProofs` proves, for any operations, parameters, schemas and
requests, what the run `requests` checks: `TypeCorrect`, `PassedIsRight`,
`FailedIsRight` and `PanicsAreKnown`. From `ValidationAssumption` it needs that
taking the lower-case form twice changes nothing, that `NoType` is no media type,
and that operations and requests have their shapes. The four properties are not
inductive: the invariant adds `Examined`, that each definition the loop has left
behind was read, and passed if it is of the part's location, and that after the
headers every definition of the operation can be read. The lemmas before the
steps compare each decision of the code with what OpenAPI asks; a header that
is found is written in lower case, as the names of every request are.

`RequestTextsProofs` carries this down to what was sent, for any header fields and
query strings, any texts and any widths of numbers: `PassedMeans` (`PassedAsSent`)
and `FailedHasReason` (`FailedAsSent`). A request with its texts is a request of
`RequestValidation` (`TextsAreRequests`), whose theorems hold of it; `Reads` says that
it is the one that was sent, which no action changes. `Collected` says what a map keeps
of a list of pairs: of each name the last pair that was kept, the greatest of a set of
places (`GreatestOf`). `AcceptedMeans` and `RefusedMeans` compare what a text is converted to
with what it says, type by type; the value of f64 rounding is never needed, only
whether it changes the number. `TextAssumption` ties the schemas of `RequestValidation`
to the conversion: a schema of `Typed` accepts the texts that convert to a value in
its bounds. It also says that an integer is an even number of halves, and keeps the
model values for null and for no query string apart from numbers and queries.

`ValidatorBuilderProofs` proves the five properties of the run `builder` for chains of
any length (`MaxSetters` and `MaxWrites` are any naturals), any files, versions and
ids. The invariant adds `Recorded`: each field of the builder is what the last call
of its setter kept, or its default if there was none. Its step says where the last
call of each setter is after one more call (`SetterCalls`), so that no induction over
the chain is needed. `Made` ties the result to the fields and to the content that
was read.

`ServersProofs` proves the safety properties of the run `servers`, for any number of
connections, workers and prefixes, any requests and verdicts and any loss of the
service: `TypeCorrect`, `ForwardedIsAccepted`, `AnswersCorrect`, `StuckCorrect` and
`LossesKnown`. `ForwardedWasAccepted` speaks of the past, so the invariant
(`ConnectionOK`) says at each place of a task what it has established of its request:
that the URI is short once the gateway dials, that its body can be read once it is
validated, that the request is screened once it is accepted, that the service has it
once the task waits; and that only a validation has chains to resolve. `OneMoves`
reduces a step of one connection to that connection. `StuckCorrect` (`StuckHasCause`)
is a statement about states (`StuckCause`): among the validations of one document that
are stuck together each waits for a shard that another of them, or itself, keeps; that
one has taken it before the shard it waits for, so of the shards waited for there is
none that could come last, and no order of the shards fits all the chains. From `ServersAssumption` the proofs need that
`NoApi` is no prefix, that `First` is one, and that requests have their shape.

Only model-checked: liveness (`EveryCallAnswered`, `EveryCallReturns`, `MovesOn`), which
needs reasoning about `ENABLED`. The theorems about `RequestValidation` take the verdict of the JSON Schema library and the answers
of `find_operation` and of the accessors as given, those about `Servers` the verdict
of `validate_request` and the chains it resolves.

## Plan

Done: reference resolution, the collection and the router, in this order, as the
shared state of the system is there; `validate_request`; then the texts below it,
JSON paths under the router, the builder, and the servers above all of it; proofs
of every safety property of these. To do:

1. `RequestValidation` together with `ReferenceResolver`'s answers: what `None`
   from `get_optional` does to a requestBody or a security section that is there
   but cannot be read. The validators only see it as an absent definition.

## Not modelled, and why

- The wording of errors, the data types of errors and operations, and logging.
- The projections `get_as_*` and `require_*`: they keep no state, and the modules
  use their outcome.
- The Lambda example: one call of `validate_request` in each invocation, and nothing
  shared between two of them but the validator.
- The other implementations of `HttpLike`, which copy fields, and the trait
  `RequestBody` of `converter.rs`, which is private and which nothing calls.
- Definitions that are not of the shape OpenAPI gives them, such as a parameter
  without a name: they are errors where they are read.
- Percent-decoding of query strings, and percent sequences in keys that a pointer
  would have to escape: names and values are taken as decoded.
- JSON Schema validation, which is a library: its verdict is a constant, but for the
  type and the maximum of a parameter's schema.
- I/O beyond what a file holds when it is read; HTTP beyond a request and its answer;
  memory and performance.
