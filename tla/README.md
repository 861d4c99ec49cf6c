# A TLA+ model of go-odata

go-odata serves OData v4 over HTTP from Go structs and a GORM database. This
directory holds TLA+ modules that model the library, TLC configurations that
check them on small instances, and proofs checked by TLAPS. `PROJECT.json`
lists the runs, the mutants that show each property can fail, the map from
definitions to source lines, and the hazards the properties are aimed at.

## 1. The system

An HTTP request enters `Service.ServeHTTP` (`odata.go`), which hands it to the
runtime (`internal/service/runtime`). The runtime negotiates the version, and
either queues the request as an asynchronous job or passes it to the router,
which parses the path and calls a handler (`internal/handlers`). Handlers parse
the query options (`internal/query`), read or write through GORM, run hooks and
policies, record changes, and format a response (`internal/response`).
`net/http` runs every request in a goroutine of its own; the only goroutines
the library starts are the workers and the cleanup ticker of the job manager.

| Component | State | Operations | Hard behaviour |
|---|---|---|---|
| Job manager and dispatcher (`internal/async`, `service/runtime`) | `jobs` map, `asyncQueue` channel, job table | StartJob, run, finish, CancelJob, ServeMonitor, cleanup, Close | goroutines, memory and table written separately, failing writes, crashes |
| JSON batch (`handlers/batch.go`) | group transactions, failed ids, responses | validation, the loop, commit, deferred roll-back | partial failure, dependencies, early ends of the loop |
| Multipart batch and changesets (`handlers/batch.go`) | parts, the changeset's transaction | HandleBatch, processChangeset, executeRequestInTransaction | partial failure, size limit met halfway |
| Change tracker (`internal/trackchanges`) | version and events per set, change log table | RecordChange, CurrentToken, ChangesSince, reload | insert outside the lock, roll-back, restarts |
| Delta feed (`handlers/collection_*.go`, `helpers.go`) | - | commit, record, read rows, take token, poll | order of commit, recording and token |
| Entity cache (`internal/cache`, `handlers/entity_cache.go`) | snapshot pointer, refresh mutex | Current, Refresh, Invalidate | invalidation inside a refresh, expiry |
| Entity writes (`handlers/entity_write.go`, `collection_write.go`) | rows, ETags | POST, PATCH, PUT, DELETE | preconditions against concurrent writers, hooks, roll-back |
| Deep insert/update, bind, `$ref`, singletons, media, streams | rows and links | nested writes and link changes | rows read and saved as a whole, writes without events |
| Collection reads (`handlers/collection_read.go`, `internal/skiptoken`) | the client's next link | `$top`, `$skip`, `$skiptoken`, `$count` | paging over a changing table, boundaries |
| Query option parser (`query/parser.go`) | options and expand options | aliases, options, merge of `$select` paths | slices shared and moved |
| Filter language (`query/tokenizer.go`, `ast_parser*.go`, `apply_filter.go`) | - | tokens, tree, condition | precedence, NULL, negation, lambdas |
| `$apply` (`query/apply_transform.go`, `applier.go`) | clauses of a statement | fold of the pipeline | order of SQL clauses |
| Expand (`query/expand_per_parent.go`) | fields of the parents | batches of children, look-ahead rows | writers between statements |
| Search (`query/search_expression.go`, `fts.go`) | index, triggers, flags | parse, translate, build, follow | builds against writers, restarts |
| Fast row scanning (`internal/fastscan`) | poisoned columns and their count | plan, scan, record a failure, expire | atomics updated one by one |
| Router (`service/router`), operations | registry | path and method to handler, overloads | two spellings of keys |
| Service facade (`odata.go`) | registrations and settings | Register*, Set*, Enable*, Close | configuration against requests in flight |
| Metadata analysis (`metadata/analyzer.go`) | an index of entities per entity | Analyze*, registry | order of registration, ranges over maps |
| Metadata documents (`handlers/metadata_*.go`) | document caches | XML, JSON, service document | two formats of one model, stale caches |
| Overwrite handlers, hooks, AST pools, response formatting, EDM types, observability | - | - | none that is not another component's |

What makes them correct, in a line each: an accepted job is executed once, its
monitor tells one result and its slot comes back; a batch group is all or
nothing and dependencies are honoured; a delta client learns of every change
exactly once; a read after an acknowledged write reflects it; a conditional
write never overwrites what its client has not seen, and any write changes only
what its request names; paging returns every row once; an option, a filter, a
pipeline or a search means what the grammar says, whatever answers it; an
expanded page is a page of one state; both spellings of a URL reach one
resource; both metadata documents tell one model, the one the tags declare.

## 2. The modules

| Module | Models | Composes |
|---|---|---|
| `AsyncJobSpec` | what a monitor promises: accepted, one result, forgotten | - |
| `AsyncJobs` | `manager.go` and the dispatcher of `runtime.go` | implements `AsyncJobSpec` |
| `JsonBatch` | `handleJSONBatch` | - |
| `MultipartBatch` | `HandleBatch`, `processChangeset`, `executeRequestInTransaction` | - |
| `RelatedWrites` | writes that reach links and related entities | - |
| `ChangeTracker` | `tracker.go` for one entity set | - |
| `DeltaFeed` | the write handlers, the collection request and the poll around the tracker | extends `ChangeTracker` |
| `EntityCache` | `cache.go`, `cacheSnapshot` and the invalidations | - |
| `FastScan` | `fastscan.go`: the scan plan shared by concurrent reads | - |
| `EntityWrite` | POST, PATCH, PUT and DELETE of one entity, with ETags and change events | implements `AtomicRow` |
| `AtomicRow` | what its clients are promised: each write is one step, true to its answer | - |
| `CollectionRead` | the collection handler under a client that follows next links | - |
| `QueryOptions` | `parser.go` and the parsers of the options | - |
| `FilterSyntax`, `FilterQuery` | `$filter` from text to rows, through SQL or a snapshot | `FilterQuery` extends `FilterSyntax` |
| `ApplyPipeline` | `$apply` as one statement and a tail in memory | - |
| `SearchLanguage` | `$search`: parser, translations, evaluation in memory | - |
| `SearchIndex` | building and following the index of FTS5 and PostgreSQL | - |
| `ExpandTree` | `ApplyPerParentExpand` and what the response cuts | - |
| `Router` | path, method and parameters to handler, operation and overload | - |
| `Service` | registrations, settings and document caches of `odata.go` | - |
| `EntityModel` | `analyzer.go` and the registry | - |
| `MetadataDocument` | the XML and the JSON metadata document of one model | - |
| `AsyncJobs_proofs`, `CollectionRead_proofs`, `EntityWrite_proofs`, `RelatedWrites_proofs` | theorems about the module they are named after | extend it |
| `Service_proofs` | theorems about `Service`, `SearchIndex`, `MetadataDocument`, `EntityModel` and `Router` | extends them |
| `DeltaFeed_proofs` | theorems about `ChangeTracker` and `DeltaFeed` | extends `DeltaFeed` |
| `Batch_proofs` | theorems about `MultipartBatch` and `JsonBatch` | extends both |
| `ReadPath_proofs` | theorems about `EntityCache`, `FastScan`, `ExpandTree` and `QueryOptions` | extends them |
| `MC*` | the instances TLC runs | see below |

**Composed instances.** `MCWrites`, `MCServiceTables`, `MCQuery`, `MCReadPath` and
`MCFrontend` run several modules in one instance. Their parts share no state in the code, so
the product of their states would only repeat what each shows; a variable
`part`, chosen at the start, says which of them this behaviour is about, and the
others stay at their initial states. Every part is explored to its end.

**AsyncJobs.** One worker and one caller per job, named by their position in
`run`/`finish` and in `tryHandleAsync`/`StartJob`; one monitor request per
client. Each stretch of code under the mutex is one action and each statement
on the job table another, which may fail where `DbMayFail` holds. The row is
`recStatus`, `recResult` (which outcome its response or error text stores),
`recAge` (ticks since `completed_at`) and `recURL`. A crash drops everything
but the rows and starts a new manager. `told` is a history variable: which
results monitors have reported.

**JsonBatch.** One action is one iteration of the loop over the requests, with
all the branches of the code. Sub-requests answer `ok` or `error`; Begin and
Commit may fail. Ids and groups share one name space, as in the code.

**MultipartBatch.** One action is one part of the body, outside or inside a
changeset; the body is a choice at every step because the code streams it.
Requests are known by their position in `log`, the history of what was
executed; a Location is the request that created the entity, so
`contentIDLocations` maps an id to a position (0: none). `staged` is what the
open transaction holds, `durable` what is committed, `events` what the tracker
was told. A handler's work is an outcome, and its routing inside a transaction
is reduced to `Routable`: an unresolved `$id` leads to no entity set. Panics of
`httptest.NewRequest` end the batch without an answer; the transaction, begun
with the context of the request, is then rolled back by `database/sql`
(external). Change tracking is assumed on.

**RelatedWrites.** Products with a link to a category, a singleton, and every
kind of request that reads or writes a link: POST with an inline entity or
`@odata.bind`, PATCH and PUT with a binding or a foreign key, `$ref`, deep
updates, media and streams. Each statement is an action. A handler that saves
the row it read writes back every column, so `asked` remembers per column the
last request for it. PATCH and PUT read the row again for its event; when it is
gone, or the query fails, which is only logged, the write commits without one
(`Refreshed`). `unfed` holds the rows whose last change recorded no event.

**ChangeTracker, DeltaFeed.** A change is committed, recorded in memory under
the mutex, and inserted into the log outside it; a failed insert takes one
version and the last event back, under the mutex again. A client reads the
rows, takes its token, and polls. `owed`, `late` and `delivered` are history
variables. A restart rebuilds the history from the log.

**EntityCache.** The dataset is abstracted to the number of commits it
reflects. Readers are the steps of `cacheSnapshot` and `Refresh`. POST, PATCH,
PUT and DELETE of an entity commit and invalidate (`Writers`); every other write
that reaches rows of the set commits and is answered without it
(`QuietWriters`): requests of a changeset, because `executeRequestInTransaction`
builds handlers without a cache, `$ref`, PUT of a stream or of media, and what a
bind or an inline entity writes to another set than the one of the request.
`acked` is what had been committed when the cache was last invalidated.

**FastScan.** Scans of one plan, each reading the poisoned entries and their
count with separate loads, scanning, and on a failure adding an entry and
counting it in two steps before it repeats the read through GORM. The row is
rewritten meanwhile, and an entry expires at any time after its lifetime.

**EntityWrite.** One entity, any number of requests, each with a client that
may have read the entity before. A request is the steps of its handler: read
and check, one statement by key, commit, record the event, answer. The ETag is
the integer of its property, because its hash identifies it; the value of any
other property is the request that wrote it. Everything that may turn a
request down before its statement (restrictions, policy, content type, body,
validation, bindings, Before hooks) is `Refuse`, except what the properties are
about: preconditions and immutable properties. A failing After hook is only
logged and has no action. `changes` and `births` in a version count commits and
creations; they are history and no guard of the handlers reads them. The
database is external. It locks the row from the statement to the end of the
transaction, and at isolation `snapshot` it refuses a statement on a row that
changed since the transaction read it (PostgreSQL's repeatable read, SQLite);
at `readCommitted` it executes it on the current row. Bodies do not set the
ETag property of an existing entity, and `preserveTimestampFields` is left out:
it only fills zero times of the body.

**CollectionRead.** A request is its paging options; the count and the page are
separate queries. The token is the sequence of key values of the last row as
JSON gives them back: a key above `Exact` loses its last digit, and a row that
was projected (`shape`) may lack a value. Links are built as the code builds
them, from the request of the page before.

**QueryOptions.** A query string is a sequence of options with structured
values; each option's parser is what it accepts and produces. Slices are
modelled where they matter: `expandMap` says at which place of the array of before
an expand option stands, `spare` whether append moves the array. The merge of the
nested items of `$select` is given by its result: one option for each navigation
property, in the order of first mention.

**FilterSyntax, FilterQuery.** Expressions, the shortest text for them, the
tokenizer and the recursive descent over lexemes; then the conversion to a
`FilterExpression`, the WHERE condition under three-valued logic with EXISTS
subqueries, and the evaluator over a snapshot. Values are small integers with
`Null`. Handlers parse with the operators of 4.01 in any case, as the code does.
`Meaning` is stated on the expression itself.

**ApplyPipeline.** Tables are sequences of rows, results are compared as bags.
The fold of a pipeline into SELECT, WHERE, GROUP BY, HAVING, ORDER BY and LIMIT
is the code's; how SQL evaluates these clauses is external. concat, join and
rollup run in memory, one branch per action. `Sequential` is the reference.

**SearchLanguage, SearchIndex.** The grammar, the parser and the three query
languages it is written in; how SQLite and PostgreSQL read them is external.
The index is a sequence of entries for each key, filled by a copy and kept by
triggers; `step` is the statement a build runs next; every
statement of a build may fail, and a restart keeps the index and forgets that
it was built.

**ExpandTree.** The options are a tree, kept as a function from positions
(`<<2, 1>>` is the first option nested in the second); `$levels` is unrolled by
one option per action, until none is left. Then there is one statement per
action, with writers between any two. A frame is one option under one set of
parents; the tree of answers is `fields`, and `Shown` is what the response layer
makes of it: `TruncateExpandedCollectionToTop` cuts the fields of structs, and
nothing cuts those of maps. Whether the parents are maps, as under a `$select`
that is projected or a `$compute` of an expand option, and at which metadata
level the answer is written, is chosen with the answer (`reply`). Nothing is
said of a `$compute` of an expand option together with a `$select` of the
request: `ApplySelect` reads its items as structs (`apply_select.go:201`). An object is the struct scanned
from a row, so what a later statement is asked for are the keys that an earlier
one saw. `ExpandAssumption` says what kinds the constants have.

**Router.** A path is a sequence of segments with at most one key each; the
chain of conditions of the router is a chain of definitions. What the parser
keeps of a path is its segments without the markers at its end (`NonMarkers`);
nothing here is recursive. The parameters of a function stand in the parentheses
of the last segment, whatever that is: a key there, as in `F/Items(2)`, is an
invalid pair and the request is refused (`InvalidPair`).

**Service.** One action per setter or registration, and the steps of a reader
that builds a document: look up, read the settings, build, store. `suspect`
marks a builder that a setter has overtaken.

**EntityModel.** A struct is a sequence of fields with their tags. Analysis is a
function of it: a property stands at the position of its field, and whether a
field is a key depends on the kept fields before it (`IsKey`). What a look-up
finds is a set, empty where the code returns nil, so that a path of a query is a
chain of look-ups (`Passes` over entities, `Reached` over properties).
Registration fills the indexes in the order of a map, one entity per action
(`pending`). `ModelAssumption` says what Go gives: structs with fields of the
known kind, exposed types that are structs, names in paths that are no `-`.

**MetadataDocument.** A model is analysed properties, sets, operations and
annotations; a document is the facts a client reads in it, not its text. Every
model of the catalogue is turned into both.

## 3. The runs

Passing:

- `async_faults`: a dispatched and a directly started job, one client, one
  slot, failing writes, one crash. Two jobs are needed for a slot to be
  contended and for the cleanup to meet rows in different stages; a second
  crash repeats the state after the first. It checks the queue accounting, that
  records are truthful, and that the manager implements `AsyncJobSpec` (safety).
- `service_tables`: the two parts that keep a table of their own. Two dispatched
  jobs compete for one slot without faults: slots are returned, accepted jobs are
  resolved and told, finished rows are pruned. Three changes are recorded and
  polled by one client, with failing inserts and one crash: three allow one to
  fail between two others.
- `writes`: four kinds of requests. Three requests of any method to one entity,
  with no precondition, with `If-None-Match: *` or with the ETag their client
  read; one mutable and one immutable property, both isolation levels, failing
  statements, refreshes and commits. Three are enough for a delete and a
  re-creation between the read of a client and its write; a re-created row gets
  the ETag of the first one (`FirstTags`), the case in which ETags of two
  creations collide. The refinement of `AtomicRow` is checked at the level
  `snapshot`; at the other one `lost_update` refutes it. Every multipart body of
  up to five parts with two Content-IDs and a limit of three (a creation and a
  reference in different changesets; a changeset of three whose commit fails, and
  one more request). Every JSON envelope of the families in `MCWrites` (four
  requests: a group of two with a predecessor and a successor), both preferences.
  Two clients, each with any kind of request of `MCWrites`, on one product, two
  categories and the singleton, a delete and a re-creation among them. Requests
  to the one entity, Content-IDs and clients are interchangeable and a symmetry.
- `collection_read`: key sets of up to three keys - plain, composite, and beyond
  the exact range of JSON numbers -, nullable and equal order values, the
  combinations of page size, `$top`, `$skip`, `$orderby`, projection and `$count`
  in `MCRequests`, one write between the pages. Pages of one and two rows put
  a boundary at every place of three rows. The walk is also live: it ends.
- `query`: catalogues of query strings, of filters to depth three, of pipelines
  of up to three transformations, of searches to depth three, and of expand
  options to three levels, with the tables that tell their meanings apart
  (NULLs, missing related rows, empty and unequal collections, parents beyond
  one batch); an index under two searches, two builds, two writes and a restart.
  Everything here is a function of the input except `$expand` and the index,
  which meet writers.
- `read_path`: two readers that read for ever, a writer that invalidates the
  cache and one that does not, a lifetime of two ticks, failing refreshes; two
  scans of two columns, one of which gets values the plan cannot take.
- `frontend`: three calls of the application, each a registration or a setter,
  beside two readers of documents; every path of the catalogue in `MCRouter`
  with every method and parameter choice, in both spellings; every model of
  `MCMetadataDocument`; three registrations of the types of `MCEntityModel` in
  every order, with indexes filled in every order. Three are needed for a type
  that is shadowed by another and used by a third.

Runs that show a disagreement between the code and what it says of itself:

- `json_batch_atomicity`: a request of a group that is skipped for a failed
  dependency does not fail its group; the others commit, or are rolled back
  while their responses still say success.
- `lost_update`: at read committed two updates with the same `If-Match` succeed,
  because the ETag is checked on a row read without a lock and the UPDATE
  selects by key alone.
- `navigation_select`: a path of `$select` below an expanded navigation property
  is lost when another path makes `append` move the expand options first;
  whether it is depends on the order of a map.
- `cache_guide`: a write is answered while the snapshot from before it is still
  served. The guide says the cache is invalidated whenever a write succeeds
  (`caching.md:67`); only POST, PATCH, PUT and DELETE of an entity, outside a
  changeset, do so, and for their own set. One reader, one write of each kind.
- `expanded_top`: an expanded collection shows one row more than its `$top`.
  Statements read one row ahead so that the response layer sees whether there
  are more (`expand_per_parent.go:523`), but below a parent that is a map it
  neither cuts it (`expand_annotations.go:358`) nor gives a next link.

**What the passing properties leave out.** Some hold only under a condition the
code does not keep; the condition is part of the property and says where:

- `FeedIsExact` and `OwedIsDelivered` speak of an undisturbed service: no insert
  into the log failed and nothing crashed. The roll-back of a failed insert
  takes the last event of the history, which may be another call's, and a change
  recorded between reading the rows (`collection_response.go:39`) and taking the
  token reaches the client neither way, against `advanced-features.md:503`.
- `SnapshotsAreFresh` measures a read by the last invalidation before it: it
  says nothing of commits since then by writes that invalidate nothing
  (`cache_guide`), and excepts the rows that a refresh loaded before an
  invalidation and published after it (against `caching.md:76`). What is stale
  for either reason ends with the snapshot's lifetime (`ReadersCatchUp`).
- `OnlyNamedColumnsChange` excepts rows saved as a whole from an earlier read
  (`$ref`, streams); `LinksWereChecked` a plain foreign key in a PATCH or PUT;
  `FeedTellsTheTables` rows last changed without an event: by a write that
  records none, or by a PATCH or PUT whose refresh failed after its UPDATE
  (`entity_write.go:323`, `539`).
- `ConditionalWritesAreSafe` is about integer ETag properties and a database
  that refuses an update of a changed row; `FeedTellsTheRow` excepts an
  overtaken event and one that a failed refresh dropped.
- `WalkIsExact` promises a row exactly once where the cursor is `Resumable`, or
  where nothing was written.
- `ReadAsWritten` names two peculiarities of the parser (`Peculiar`: once an
  alias is defined, an `@` in a `$search` or in a parameter of the application is
  taken for another one; the aliases of a second `compute(` are unknown to the
  other options), and merges of `$select` paths only when all of them are
  expanded or none is.
- `FilterMeansWhatItSays` and `SnapshotAgreesWithSQL` hold on the fragment the
  library translates exactly and on rows without NULLs respectively.
- `SearchMeansWhatItSays` has no terms with characters that FTS5 reads as syntax.
- `PipelineIsAnswered` is about transformations in the order in which SQL
  evaluates its clauses; the count agrees in any order.
- `EachPageIsOneState` allows the row that was read ahead below maps
  (`expanded_top`), promises a next link at the top only, outside maps and not
  at metadata level none, and is not claimed where `$levels` and a nested
  `$expand` name the same property. `IndexFindsWhatMatches` allows doubles after
  a restart over a filled index.
- `SpellingsAgree` leaves out a type cast behind a key segment and what follows
  a marker. `CachedIsCurrent` leaves out a builder that a setter overtook, and
  `DocumentsAgree` what only XML has a place for.
- `ModelFollowsDeclarations` excepts an `ID` before the tagged key, and entities
  whose name is the name of another type.

Deadlock is checked in `async_faults`, `service_tables` and `read_path`; elsewhere
every request is answered once and the system stops.

**Fairness.** Worker goroutines are scheduled and handlers return (the handler
is the service's own router on a buffered request); a caller that took its slot
is carried through; the cleanup ticker fires. Monitor clients are not assumed
to poll. A reader that waits for the refresh mutex obtains it in the end (strong
fairness: Go's mutex hands over to a waiter that starved for 1 ms), readers
repeat, and time passes, so entries expire; reads that name a column go on
(strong fairness of `Start`), as a client that selects it would send them.
RecordChange runs to its end and delta clients keep polling; a client that pages
follows its links. Writers are never assumed to start.

## 4. The proofs

`AsyncJobs_proofs` proves, for every set of jobs and clients, every queue size,
retention and number of crashes, and with failing writes or without:
`TypeCorrect`, `LiveJobsAreCancellable`, `RecordsAreTruthful`, `MonitorsAgree`,
`SlotsNeverLeak`, `StatusAdvances` and `Implements` (every step of the manager
is a step of `AsyncJobSpec` or stutters). The only assumption is
`AsyncAssumption`: the set of jobs is finite, the dispatched ones are among
them, and the limits are natural numbers.

The properties are not inductive alone. `RecordIsTruthful` needs that no row is
written before its job is registered and that a row outlives the worker that
will finish it (`StagesAgree`); `ToldOneResult` needs that a terminal snapshot
still in a monitor's hands is the finished worker's (`ReportsAreFinal`), which
in turn needs that `finish` runs once. `IInv` is the conjunction; `Invariance`
proves it action by action. `SlotsNeverLeak` is proved on top of it: each
action that moves a token adds or removes exactly one element of `Holders`, and
the rest leave it alone.

`EntityWrite_proofs` proves, for every set of requests, properties and forms of
preconditions, with a failing database or a reliable one: `WriteTypeCorrect`,
`NoLostUpdate` (`ConditionalWritesAreSafe`) and `ImmutableStays`
(`ImmutableIsKept`). `WriteAssumption` bounds the constants to their kinds and
keeps the name `"nobody"` out of the requests. What is assumed of the database
is in the actions: the row lock, and at `snapshot` the guard `UpToDate`; the
theorems say nothing of lower isolation levels, where `lost_update` refutes
them. The inductive invariant is `RowInv`. A precondition compares tags,
and to conclude that the version is the same one needs that the ETag property
counts the changes since the creation (`Known`); that holds only because the
holder of the lock has read the current version (`Continues`), which needs in
turn that a version is determined by its number of changes (`Known` again) and
that nobody else commits while the lock is held. `MatchedIsSeen` carries the
result of the check to the commit, where `SafeNext` uses it.

`Batch_proofs` proves about `MultipartBatch`, for any number of Content-IDs and parts and
every limit: `BatchTypeCorrect`, `ChangesetsAreAtomic`, `CommitsAreReported`,
`ReferencesAreLocal` and `LimitHolds`, from `MultipartAssumption` (`NoID` is no
Content-ID, the bounds are natural numbers). `IInv` adds what is true of an open
changeset: its requests all succeeded and exactly its writes are staged
(`OpenIsStaged`), their events wait in order behind all committed requests
(`EventsWait`), and its ids are the ones seen, one request each (`IDsAreSeen`).
Without these, Commit would not be known to make the whole changeset durable,
nor a resolved reference to be unambiguous. `RunsAreAnswered` counts responses,
which is what the code compares with the limit; `undone` is the number of
requests whose responses a failed commit replaced by a single one. The
documented limit "is always enforced" (`odata.go:371`) only up to `undone`.

`EntityWrite_proofs` also proves `FeedIsComplete` (`FeedTellsTheRow`) with an
invariant of its own, `FeedIInv`: a request between its commit and its event
holds the event of its row (`EventsAreHeld`), the holder of the lock has the row
it is about to commit (`LockHolderTellsItsRow`), and while nobody is overtaken
the one outstanding event tells the current row (`OutstandingIsLast`).

`WritesTakeEffectAtomically` (`WritesAreAtomic`) is a refinement: with the row
of the database for the row, and a request counted as applied from its commit
to its answer (`Phases`), every step at `snapshot` is one of `AtomicRow` or
none; `ImplementsAtomicRow` states it as `Spec => Atomic!Spec` for a database
that knows no other level. `AtomicRow` decides preconditions, immutable
properties and the next ETag on the row that is replaced; the handlers took them
from an earlier read. `AtomicInv` carries what the transaction checked to its
statement, and from there to the commit what the statement will leave behind
(`TakesEffect`); together with `RowInv` (what was read is the current version) and
`FeedIInv` (a transaction past its statement holds the lock) it is inductive.

`RelatedWrites_proofs` proves, for any number of clients, products, categories
and any set of requests: `ColumnsAreNamed`, `LinksWereLookedFor` and
`RelatedFeed`, whether refreshes fail or not, from `RelatedAssumption` (keys and written values are distinct
from the marks of the model, and a request that is not refused names rows of
the sets it is about). `RelatedInv` adds to the three properties that a request
in progress was not refused (`RequestsAgree`), that every link of a row *and of
a row a handler still holds* was looked for, and so were the targets of a
request about to write (`LinksAreChecked`) - a category may be deleted between
the look and the write, and a handler that saves what it read brings old links
back -, and that an event still to come tells its row (`EventsAreCurrent`).
Every write owes the same three things, whatever its statements
(`WritesWhatIsAsked`, `LinksExist`, `TellsWhatItWrites`); `CommitKeeps` proves
that paying them is enough, and one lemma per handler that it pays.

About `JsonBatch` it proves, for envelopes of any length with any ids, groups and
dependencies: `GroupsAreSettled`, `GroupsAreAtomic` (together `GroupsStayWhole`) and
`RightRequestsRun`, from
`BatchAssumption`. `JsonInv` ties the loop to its position: what lies ahead is
untouched (`Progress`), the answers so far say what ran, what was skipped and
why (`OutcomesAreKnown`), and a group's transaction is open, committed or rolled
back exactly as its answers and its flag tell (`TransactionsTell`), a group
rolled back without a failure being one with a skipped request. All branches of
the loop are proved through one predicate on steps, `Iteration`.

`DeltaFeed_proofs` proves `TrackerHistory` and `FeedHistory` (`HistoryIsSound`,
for the tracker alone and under its users) and `FeedExact` (`FeedIsExact`), for
any number of changes, clients and crashes, with a log or without. `TrackerInv`
counts: versions are handed out once, and a call whose insert is outstanding
still finds its own event in the history (`CallsKeepTheirEvent`).
`ReturnedIsDurable` needs that the history is persistent or that nothing
crashed; the theorem cannot be had without that premise, because a memory-only
tracker starts empty. `FeedInv` says what a token means: it divides the history
into what a client has been sent and what it will be sent
(`TokensDivideTheHistory`).

`ReadPath_proofs` proves `CacheIsFresh` (`SnapshotsAreFresh`) for any number of
readers, writers and lifetimes, and `PoisonCountIsExact` and `PlanIsInvisible`
for any finite set of scans and columns. `CacheInv` says that no copy anywhere -
published, found by a reader, or answered - is behind the last invalidation
(for an answer, the last before its read began) unless it was loaded before it,
whatever other writes commit meanwhile (`NothingIsBehind`). `ScanInv` says which entries a scan in
flight has added and not counted (`EntriesAreAtHand`) and that what it fetched is
among the rows it could have seen (`RowsAreSeen`).

About `ExpandTree` it proves `ExpandInvariant`, `PagesAreOneState`
(`EachPageIsOneState`) and `PolicyIsEverywhere` (`PolicyReachesEveryLevel`), for
any rows, any tree of options, any batch size and any number of writes between
the statements. Both properties speak of an answer that is complete; what they
rest on is true in the middle of it, and is `ExpandInv`:

- the keys of a frame that are still to be read have no child yet, and all the
  children of every other parent came from *one* statement, once each and in the
  order asked for (`WereRead`, in `BatchesAgree`). A batch cuts between parents
  and never through the children of one, because the keys are collected without
  repetitions; that is why a page is of one state although the answer is not;
- a field is the page that its parent had in one of the states
  (`FieldsAgree`), and it stands below the options it was read for
  (`StandsBelow`), so that the option the response layer finds by name is the one
  the page was cut for, as long as no level repeats a name;
- once the policy was applied every option has its filter, those that
  `$levels` added included, and a row that a statement found passed the filter
  in the state it was read from.

The proof of a batch (`ReadBatch`) is the long one: the new rows extend what was
read for the keys of the batch and disturb nothing of the others. Terms like
`Pick` and `Window` are not recursive, and their lemmas (`PickKeeps`,
`WindowCuts`) say what a selection from a sequence keeps.

About `QueryOptions` it proves `UrlInvariant` and `OptionsAreReadAsWritten`
(`ReadAsWritten`), for any set of query strings, any entity type and any order of
the merge. `UrlInv` follows the parameters from stage to stage (`ParamsInv`: what
each has become of what was written), and from the moment the options are there
says of them what the property says at the end (`OptionsInv`): `$filter` and
`$orderby` are checked against the aliases the parser found, well-formedness
against all that the query string defines, so the proof needs that the first are
among the second and, without a second `compute(`, all of them
(`AliasesAreKnown`). `MergeInv` is what survives the loop over a Go map: options
that were there keep their selection, and what was merged into one is lost only
if the array moved, which takes a path into a navigation property that is not
expanded. `QueryOptionsAssumption` says no more than what kind of value a query
string has where.

`Service_proofs` proves `SettingsReachEveryPart` (`ConfigurationIsUniform`) and
`DocumentsAreCurrent` (`CachedIsCurrent`) for any number of entity sets, readers
and calls of the application. `ServiceAssumption` says that the two formats of
the metadata document are all there are. `ServiceInv` follows a setter through
the parts it has yet to reach (`SettingsSpread`) and a builder through what it
has read (`BuildersAreCurrent`).

It also proves about `SearchIndex`, for any keys, contents, searches and any number of writes, builds
and restarts, `IndexInvariant` and `SearchFindsEachRowOnce`
(`IndexFindsWhatMatches`). `IndexInv` says what a build owes to the statements
it has run (`BuildsAdvance`), that on SQLite an index that is noted or filled has
all three triggers and an entry of every row (`NothingIsMissing`), and that a
build that met nobody is the only one, over an empty index (`BuildsAlone`), so
that afterwards the index is the table (`IndexIsTable`). `SearchAssumption` says
what kinds the constants have.

About `MetadataDocument` it proves `FormatsAgree` (`DocumentsAgree`) for every
model whose names stay apart and that has nothing one format has no place for
(the premises `NamesApart` and `Shared` of the property). The maps of the JSON
document replace nothing (`NothingIsReplaced`) and the reverse map from types to
sets is the same in whatever order it is filled (`ReverseIsUnique`), so that the
two builders agree piece by piece: properties, complex types, entity types,
containers.

About `EntityModel`, `RegistryInvariant` and `DeclarationsAreFollowed`
(`ModelFollowsDeclarations`): for any structs, exposures and paths, in whatever
order types are registered and maps are ranged over. `RegistryInv` says that the
index of every entity leads, from each name of each entity, to one that bears it,
and that every entity keeps the metadata of its struct; a registration that had
brought an index up to date for one of the two names only would not preserve it.
Of the three parts of the property, the keys (`KeysAreFound`) are an argument
about the first field among the kept ones, the targets (`TargetsAreFound`) follow
from the indexes, and the paths (`PathsAreFound`) need an induction along the
path, over the functions `Passes` and `Reached`: the first navigations lead from
one entity to the one of the next type (`PathPasses`), the walk stops where the
first property is no navigation (`PathEnds`), and from there each embedded struct
adds its prefix (`PathReaches`). Induction is by the least number that is left
out (`CountingOn`), since the induction theorems of the library take an operator
as a parameter; for the same reason each of the three functions along a path has
a lemma that says it exists (`ReadByStep`, `PassesByStep`, `ReachedByStep`). The
premise is `ModelAssumption`.

About `Router`, `OperationsAreRight` (`RightOperationAnswers`) and
`SpellingsAreOne` (`SpellingsAgree`), for any registrations and any paths, of any
length. `RouterAssumption` says what shape registrations and segments have, and
nothing of their names. For the first, the segment from which an operation is
resolved always stands in the path (`NonMarkersAreSegments`,
`KeyAsSegmentKeepsSegments`, `RestsStandIn`), and the overload that answers is one
of the candidates that match (`ResolvedMatches`). For the second, both spellings
are read as the same components once the segment behind the set is taken for a
key (`SpellingsResolveAlike`); an operation is the only answer that looks at more
than the components, and only at the method, the parameters and the last
segment, which the spellings share unless it is the key itself
(`SpellingsHaveSameParts`, `SameComponentsSameRoute`). What the premises of
`SpellingsAgree` leave out, the router does read differently: a key that bears
the name of a property, an operation or a marker, a set that bears the name of
an operation, a qualified segment right behind the key, and segments behind a
marker.

`CollectionRead_proofs` proves `WalkInvariance` and `WalkReturnsEachRowOnce`
(`WalkIsExact`) for tables, pages, orders and numbers of writes of any size.
`WalkInv` places the cursor: between two pages, what lies ahead of the link has
not been returned and what lies behind it was returned once or passed over by
the first `$skip` (`WalkContinues`); with a page in hand, its link leaves behind
exactly its rows and what was behind before (`PageAdvances`). For a token "ahead"
is the comparison in SQL, for `$skip` it is the number of rows that come before
(`Rank`). `StillTable` ties the count to the rows while nobody writes.
`CollectionReadAssumption` asks for finite tables whose keys have one length, and
for first requests whose token, if they have one, comes with a `$skip`, which the
parser refuses: a walk that began in the middle is not claimed to return the
beginning.

Every one of these invariants was first checked by TLC on the instance of the
run that checks the property, and each property follows from it by definition.

What is proved for every value of the constants is not checked again by a run
where a deeper property of the same module is: type correctness,
`LiveJobsAreCancellable`, `MonitorsAgree`, `StatusAdvances`, `ImmutableStays`
and `LimitHolds` are theorems only.

**Left to TLC.** Liveness (`OwedIsDelivered`, `ReadersCatchUp`,
`PoisonWearsOff`, `WalkEnds`, the progress of jobs): the prover has neither
fairness nor ENABLED. `FilterSyntax`, `FilterQuery`,
`ApplyPipeline` and `SearchLanguage` are built from recursive operators and folds
over trees, texts and rows, whose meaning no installed prover can establish by
induction; they are compared with their references over the catalogues. So
`FilterMeansWhatItSays`, `SnapshotAgreesWithSQL`,
`PipelineIsAnswered` and `SearchMeansWhatItSays` are model-checked only; every
other safety property of the passing runs is the subject of a theorem.

## 5. Not modelled, and the plan

`PROJECT.json` gives a reason for each part. Seen on the way, and left out of
the properties because the code says nothing else of itself, or because the
property names them as conditions (section 3):

- qualified names before `$count` (`router.go:501`) reach the operation only
  under some spellings; a type cast behind a key segment is not read as one;
- the JSON metadata document has no schema version, streams, or annotations on
  navigation properties;
- a type whose `ID` field precedes a tagged key gets a composite key, and
  the default of a referential constraint is `ID` (`analyzer.go:677`);
- singletons get no stream properties; a type may be registered as a set and as
  a singleton, and navigation then resolves to either;
- a set whose cache configuration fails stays registered.

SQL text, reflection over Go types, payload formatting, primitive types and
metrics stay out: there is no state or order in them for a model to check. Date,
geospatial and most string functions of `$filter` are represented by one of each
kind; hierarchical `$apply` transformations, parameter conversion of operations
and the negotiation of stream content types are not modelled.

What is left, in order:

1. Proofs: the lexemes of `$filter` and the branches of `$apply`, as far as they
   need no induction over trees.
2. `EnableAsyncProcessing` and `Close` against dispatches in flight, composed
   with `AsyncJobs`.
3. Reads through a navigation property, and orderings and counts over a
   snapshot.
4. `AtomicRow` for several rows at once, implemented by `RelatedWrites`.
