# UtilMeta: a verification project in TLA+

This directory holds TLA+ models of the parts of UtilMeta (`src/utilmeta`) whose
correctness depends on the order in which things happen: concurrent requests on
one session, retries through a chain of plugins, logs that several threads
store, worker processes that elect a primary through a database table, the
reports, connections, resources and alerts that primary looks after, the caches
and locks that clients share, streams cut into chunks, queries and relations
that are read and saved statement by statement, cookies and middlewares around
a request, and the assembly of a service out of parts that come in any order. Each model is checked by TLC on small instances;
the safety properties that matter most are proved by TLAPS for every value of
the constants.

All line numbers below refer to `src/utilmeta`. `PROJECT.json` has the complete
correspondence between definitions and source lines, the runs, the mutants (each
a small bug that makes one property fail) and the list of hazards.

## 1. Inventory

UtilMeta is a Python web framework (declarative APIs and ORM schemas over
Django, Starlette, Sanic, Flask, Tornado), with a client generator and an
operations service that runs inside every worker process of an application and
reports to a remote supervisor.

| Component | State it keeps | Operations | Interacts with | What is hard | What makes it correct | Here |
|---|---|---|---|---|---|---|
| Server-side sessions, `core/auth/session` | session table, cache entries, the session object of a request, the browser's cookie | load, create, save, delete, flush, cycle_key, login, process_response | requests of one browser share both stores | requests interleave between a load and a save, two stores, swallowed errors, expiring cache | a logged-out key never names a session again; a key known before login never names a logged-in one; an issued cookie names a stored session | `Session`, `SessionStore` |
| Client chain and retries, `core/cli/chain.py`, `core/api/plugins/retry.py` | one loop index per layer, one request context shared by all layers | process_request, process_response, handle_error, handler loop | layers call each other and share `retry_index` and `timeout` | nested loops, shared context, timeouts, headers | bounded sends, bounded time, no resend of what is not idempotent, Retry-After kept | `RetryChain` |
| API layers, routes and hooks, `core/api` | per request: the unmatched path, the loop of each layer | handler of an API and of an endpoint, resolve, before/after/error hooks, options | mounted APIs share the context of the request | nested repetition, errors in hooks, fall-through of routes | an endpoint runs only behind the hooks above it; the path decides which | `ApiCall` |
| HTTP cache plugin, `core/api/plugins/cache.py` | none in the service, validators in the clients | process_request, process_response | client and service exchange validators | two kinds of validators, resources that change in between | 304 only to who has the current version | `HttpCache` |
| Request log queue, `ops/log/middleware.py` | `store.responses_queue`, threads, ServiceLog rows | process_response, batch_save_logs | serving threads append while passes read | passes of several threads over one list, failures inside a pass | every queued response is stored; a pass covers what it found | `LogQueue` |
| Workers and primary, `ops/task/worker.py`, `ops/store.py`, `ops/models.py` | the Worker table, `store.worker`, the task thread of each process | Worker.load, update_worker, update_workers, is_worker_primary, clear | processes share the table only | crashes, reused pids, late intervals, cleanup racing registration | one primary in the end, namely the oldest; dead workers disconnected; timely workers keep their row | `WorkerPrimary` |
| Aggregation reports, `ops/task/worker.py` 721-960, `ops/task/report.py` | AggregationLog rows, hourly and daily aggregation in memory | aggregate, report, batch of missing reports | primary, supervisor | two primaries, lost answers, restarts, layers mixed in a batch | each hour and day is recorded once, marked only when stored there, caught up in the end | `ReportLog` |
| Supervisor connection, `ops/spv/connect.py` | Supervisor rows, node id in meta.ini, nodes at the supervisor | connect_supervisor, save_supervisor (called back), delete_supervisor | the remote supervisor calls back into the service | lost and late calls, failure after the remote side has acted | both sides agree when nothing is in flight | `SupervisorLink` |
| Resource synchronisation, `ops/spv/resources.py`, `ops/store.py` | Resource rows, etag, the row each process holds | setup, sync_resources, save_resources | workers of old and new releases, supervisor | queries outside a transaction, maps read before they are used | one live row per resource; the table is what was uploaded | `ResourceSync` |
| Alerts, `ops/alert` | AlertLog rows, last check and last alert of a metric | check, trigger, get_log, recover, alarm, request-failed event | cycles of the workers, supervisor | find-or-create of the open incident, alarms about failed alarms | one open log per incident, alarms spaced, a call ends unless the supervisor stays down | `AlertIncident` |
| Worker metrics, `ops/log/worker.py`, `ops/task/monitor.py` | request counters, Worker totals, WorkerMonitor rows | log, fetch, retrieve, reset, save | request threads and the task thread | increments between a read and a reset, a failed update | totals never exceed what was served, and are exact when nothing meets | `WorkerMetrics` |
| Request loggers, `ops/log/logger.py` | the span tree and the messages of one request, the current logger of each task | with blocks, log methods, commit, generate | tasks of one request share the logger | spans of several tasks, shared dicts | the row of a request has every message, in its span | `SpanLog` |
| Key cache with limits, `core/cache/plugins/entity.py`, `core/cache/backends/redis/entity.py` | values, the sorted sets of hits and updates | set, update, get, alter, push, delete, keys, clear, prepare (eviction) | clients share redis | an operation is several commands, keys expire under the traces | every key traced; at most max_entries keys | `KeyCache` |
| Key lock, `core/cache/backends/redis/lock.py` | one lease per key, the targets of a with statement | lock, unlock, timeout | clients share redis | several keys, blocked and unblocked, expiry under a running body | what is targeted is locked; nobody waits for ever | `KeyLock` |
| Event streams, `core/response/sse.py`, `utils/protocol/sse.py` | byte buffer, fields of the event being read | iter_bytes, decode, iter, close, timeouts | server and network | chunks cut anywhere, three line endings | events as they were written | `EventStream` |
| Saving relations, `core/orm/schema.py`, `core/orm/backends/django/compiler.py` | rows of a schema, its keys and objects | save_data, asave_data, save relations, transactions, ignored errors | database | partial failures, transactions broken by ignored errors | all or nothing; saved means stored | `RelationSave` |
| Querying schemas, `core/orm/compiler.py`, `core/orm/backends/django/compiler.py` | the recursion maps of one query | get_values, query_isolated_field, insert_values, gather | queries of the fields of one object run as tasks | recursion through several relations, shared maps | every relation is filled, every object fetched once | `SchemaQuery` |
| Asynchronous query sets, deletion, transactions, `core/orm/backends/django/queryset.py`, `deletion.py`, `core/orm/databases`, `core/orm/plugins/atomic.py` | connections, open atomic blocks, savepoints | get_or_create, update_or_create, delete, bulk_create, Atomic | tasks share a connection unless the database has asynchronous drivers | unique rows created twice, blocks of several tasks nested on one connection | a request has all its effects or none; a query answers with what is stored | `AtomicQuery` |
| Client, `core/cli/base.py` | cookies, with blocks, kept request clients | request, async_request, enter, exit | tasks share one Client and its sub-clients | blocks of several tasks, a jar replaced under a request | a block keeps its cookies to itself and leaves none behind (cookies of asynchronous responses the code drops) | `ClientSession` |
| Server back ends, `core/server/backends` | context variables of a thread | middlewares, API or view, middlewares | the web framework | state of one request that outlives it | a response goes with its own request | `ServerMiddleware` |
| Service assembly, `core/server/service.py`, `ops/config.py`, `core/orm/databases/config.py` | backend, mode, configurations, APIs that wait, what is set up | use, mount, set_backend, set_asynchronous, mount_to_api, setup, application, integrate, startup | modules of an application in any order of import | parts that come before or after what they need | a service starts complete: everything mounted, documented, in one mode | `ServiceSetup` |
| Responses, `core/response/base.py` | one response | build, send, parse, retype | client and server | what is declared meets what was sent, forwarding | what is read is what was given | `ResponseExchange` |
| OpenAPI documents, `core/api/specs/openapi.py` | names of components, operation ids | walk, merge | the document of the framework | names that collide | references resolve, ids differ (two exceptions, see below) | `ApiDocument` |
| Operations API, commands, migrations, registries, `ops` | tables of the other parts | queries and wrappers | all of `ops` | little | | not modelled |
| Requests, files, client generator | one message | conversions | | none across requests | | not modelled |
| Authentication by token, signature, OAuth2 | none | check of one request | | none across requests | | not modelled |
| Settings, command line, utilities, websocket | set-up | start, run, stop | | start-up only | | not modelled |

The main hazards behind this table, each at its line and with the properties
that cover it, are in `PROJECT.json`. Smaller ones that no property covers yet:

* sessions: `cycle_key` deletes the old key before the response is built, so a
  500 leaves the browser with it (schema.py:278); `expiry_time` is written by
  every save and read by no load (db.py:183); a cache fill may overwrite a newer
  save with an older row (cached_db.py:72);
* logs: every later pass stores the same responses again (middleware.py:159);
* workers: the server resource that `setup` creates is not used before the next
  cycle (store.py:77);
* cache: `alter` with a limit reads, compares and writes in three steps
  (entity.py:408);
* event streams: a read that timed out goes on in its thread (sse.py:241).

## 2. Modules

| Module | Models | Checked in |
|---|---|---|
| `Session` | the three session engines and the requests that use them | `MCSession`, `MCCaches` |
| `SessionStore` | what an engine promises: the abstract store `Session` implements | `MCSession` |
| `ClientSession`, `ServerMiddleware`, `ResponseExchange` | around one request: the cookies of the client, the middlewares of the service, the response on its way | `MCSession` |
| `ServiceSetup` | how a service is put together | `MCCaches` |
| `RetryChain` | one client call through its layers | `MCThreads` |
| `LogQueue`, `KeyLock` | the log queue of a worker process; the lock of the cache | `MCThreads` |
| `WorkerPrimary`, `AlertIncident`, `WorkerMetrics` | the workers of a service instance and their table; the alert checks of their cycles; their request counters | `MCWorkers` |
| `ReportLog`, `SupervisorLink`, `ResourceSync` | the tables shared with the supervisor | `MCTables` |
| `SpanLog`, `ApiDocument` | the log of one request; the document of a service | `MCTables` |
| `KeyCache`, `EventStream`, `HttpCache`, `ApiCall`, `RelationSave`, `AtomicQuery`, `SchemaQuery` | what `core` does for one service: cache, streams, validators, layers, saves, queries | `MCFramework` |
| `Session_proof`, `SupervisorLink_proof` | theorems about one module | TLAPS |
| `Exchange_proof`, `ServiceSetup_proof`, `Threads_proof`, `Workers_proof`, `Tables_proof`, `Framework_proof` | theorems about two to four modules each | TLAPS |

Each component is a module with its own variables, initial predicate, actions
and next-state relation; their names differ, so that several of them can be put
side by side. The `MC` modules give the constants their values. `MCThreads`,
`MCWorkers`, `MCTables`, `MCFramework` are scenes: components
of the same processes that share no state. In a scene a behaviour moves one
part, named by the variable `part`, and leaves the others as they began. The
product of parts that share nothing says no more than each of them alone,
and one model per scene keeps the properties of a group together. `MCSession` and `MCCaches` use
the same device for settings too: `part` also says which instance of `Session` (engine,
policy) the behaviour is one of.

### Session

A request is a small program counter (`pc`) with the session object in `req`.
`Begin` is `get_session` with the cookie, `LoadCache`, `LoadDb` and `Fill` are
the reads of `load` and the cache write of `CachedDBSessionSchema.load_data`.
`Touch`, `Login`, `CycleKey`, `Flush` are what a handler may do, in any order
and number. `InsertDb`, `InsertCache`, `DeleteDb`, `DeleteCache`, `SaveDb`,
`CheckInterrupted`, `SaveCache` are the single accesses to a store that
create, delete and save consist of; other requests run between any two of them.
`Respond` is `process_response` and `Deliver` the arrival of the cookie, in any
order. `Abort` ends a request anywhere. `Evict` is the cache losing an entry.
The constant `Backend` selects the engine, so one set of actions serves the db,
cache and cached_db engines as the subclasses in the code share their methods.

Abstracted: session data is the user and a counter of other writes; expiry
columns (no load reads them), cookie attributes and the Django engine are left
out. A key drawn by `gen_key` is never drawn twice.

`revoked`, `handed` and `anon` are history variables: keys whose deletion
returned, keys given to a browser, keys given with nobody logged in.

### RetryChain

`at` says which layer runs; layer 1 wraps the transport, layer N is outermost,
0 is the transport. The handler loop is in `Again` (count, give up at the loop
limit), `CallInner`, `Return`, `Raise` and `Catch`. One layer is the RetryPlugin
with its options; the others are hooks that may answer, fail, or ask to retry.
`ctx` is the context all layers share: each layer overwrites `retry_index`
(cli/chain.py:114), so a layer inside the plugin can reset its count (see 5). Time advances
in the transport (up to the timeout the plugin left, plus `Overshoot`) and in
the plugin's sleep. A wait is `retry_interval`, or the header of the answer when its name
is in `retry_after_headers` (`Read`), which is empty by default (retry.py:28,71): then no header is
read, whatever a server sends. `retry_delta_ratio` spreads waits, the header's too, and
`retry_timeout` (`Spread`, retry.py:138-144, 275-279). `SecondsHonoured` is therefore about
chains that name the header, and lets a retry be early by the part the ratio may take off. Ratios
above one, with which a wait may be negative, are excluded by `PluginType`.

### LogQueue

`Enqueue` and `CheckBacklog` are the two halves of `process_response`; a pass of
`batch_save_logs` is `Generate` (one turn of the loop over the live list),
`Generated`, `BulkCreate`, `Finish`, and may `Fail` anywhere. The lock in the
code is created by each call (middleware.py:96) and is therefore left out of
the model: it excludes nobody. `owed` is a ghost: what the queue held when the
pass began.

### WorkerPrimary

`proc` is what psutil finds under a pid, `task` the thread of a worker,
`rows` the Worker table. A cycle is `Wake` (and the exists() query of
`Worker.load`), `Join`, `Refresh` (`update_worker`), `Scan` and `Disconnect`
(`update_workers`), `Elect` (`is_worker_primary`) and `Work`, which ends with
`clear()`; each is one query, and cycles of all workers interleave.
`Start`, `Die` and `Reuse` are the processes; `Fail` is a query that raises, and
what `handle_func` makes of it. Time is counted in intervals: `Tick` waits for
the cycles of all workers unless the interval is a late one.

Two workers can be primary at once even if no interval is late: a younger worker
that joined first and is at work when the older one joins. The model has this;
`OldestLeads` therefore speaks of what happens in the end, and `ReportLog`
lets cycles of two primaries overlap for that reason.

### ReportLog

The rows of AggregationLog (`logs`), the aggregation each worker process has in
memory, and the cycles of `OperationWorkerTask` as threads: `StartCycle`, then for the
hour (layer 0) and the day (layer 1) `FindLog`/`FindNothing`, `CreateLog`, `SendLog`,
and what follows an answer: marking the row, and, when a report went through, the
batches of what is still missing (`worker.py:878-960`). `TimePasses` waits
for running cycles unless it spends one of the upsets; `TakeOver` and
`RestartWorker` are the changes of primary, `Receive` is the supervisor's
store, an answer may be lost after it. A report is full, partial (the key
"service" is missing) or empty. Whether the hourly report is sent in a cycle is
drawn with a probability that reaches one in the last slot of the hour
(worker.py:825), a choice in the model except there.
`LayerKept` is violated: see finding 2.

### SupervisorLink

`connect --key` in several terminals (`Lookup`, `Resync`, `Rekey`, `Create`, `Post`,
`Answer`, `Link`, `GiveUp`, `Fail`), the deletion (`Unlink`, `DeleteNode`,
`Unlinked`, `Restore`), and the call back that `save_supervisor` handles in three
queries (`SaveFind`, `SaveExists`, `SaveUpdate`). The supervisor is external: it
makes a node per request, drops it when the call back is refused, and
deletes before it answers. Requests and answers get lost; a call back of a
command that gave up still arrives. `alone` and `overlaps` record whether a
command met another one, a late call back, or a linked row that a race has left
with an init_key (`Taken`).

### ResourceSync

`StartProcess`, `FindInstance`, `MakeInstance` are `store.setup`; a sync is
`BeginSync`, `LoadResources`, `Upload`, `SaveEtag`, `ReadMap`, `Plan`, `Update`,
`CreateMissing` and the deletion of the rest, one query each, as
`save_resources` opens no transaction. The etag is saved before the table is
(resources.py:404), so a sync that breaks in between makes later ones take the
table for right. `Deploy` changes the release that processes start with; old
and new processes sync at the same time.

### AlertIncident

Threads that `Check` a metric or meet a failing request to the supervisor
(`RequestFails`). A trigger is `Get` (the search for an open incident), `OpenIncident`
or `Count`, `Alarming`/`Decide`, `Alarm` and `SaveAlarm`, with other threads in
between. The supervisor is `down` or not, and this changes at any time (`SupervisorChanges`). An
alarm that fails triggers the event of failed requests, whose alarm fails too while it is
down, and triggers the event again: nothing is written down of an alarm that failed, so
`min_alarm_interval` does not apply unless an earlier alarm went through, and nothing in the code counts the turns. The model
does not bound this round either; `MaxCalls` bounds only the checks and failed reports that start a
trigger. `TriggerEnds` says that a call ends, with this one exception: that the
supervisor is down and the call has come to the event. `SetupParam` is the inverted
condition of `setup_params` (config.py:36).

### KeyCache and KeyLock

`KeyCache` has redis' values, the sorted sets `hits` and `updates`, and clients
whose operations are sequences of redis commands: count, excess, pop or pick of
the victims by policy, the deletions, the traces, then the write. `Lapse` expires a
key and leaves its traces. `mixed` records that two operations ever overlapped:
the bounds are promised for those that do not, since nothing in the code makes
an operation atomic.

`KeyLock` is the context manager: keys acquired in the given order, each with a
token; blocked or not; a timeout that also expires under a running body;
the release only of what still carries the token.

### EventStream

The server's lines become bytes on the `wire`, are cut into chunks of any
length, are joined by `_iter_chunks` until an event seems complete, and decoded
by `SSEDecoder`. A read may time out; an event named "close" ends the
iteration. `Written` defines, from the lines alone, the events a reader must
see, and `EventsAsWritten` compares, a reference definition in the style of the
event-stream format.

### HttpCache

One visit is the plugin's `process_request` and `process_response` against a
service whose resource changes in between (`Change`). Settings say whether the
service sets ETag or Last-Modified itself and what the plugin is asked to add.

### ApiCall

`caller` is the layer that runs (the APIs on the way and the endpoint), `stage` what it
does: `ProcessRequest`, `Resolve` (match of what is left of the path),
`BeforeHooks`, `Serve` (parse and call), `Execute`, `AfterHooks`, `HandleError`,
`ErrorHook`, `ProcessResponse`, `Render`. Plugins and hooks do whatever
their interface allows: answer, raise, ask for the request once more. What is
left of the path lives in the context that all layers and all rounds share
(request/var.py:133). `guarded` is a ghost: the APIs whose before hooks passed.

### RelationSave

`step` walks through `save_data` and its asynchronous twin: the row (update, look
for the parent, insert), the many-to-many keys, the objects of a one-to-many
relation one by one, and the deletion of what is no longer given. Each statement
may fail, in a transaction or not, with relation errors ignored or not;
a broken transaction makes the statements after it fail (PostgreSQL) or not
(SQLite). `Meddle` is somebody else's write between two statements, possible
only outside a transaction.

### AtomicQuery

A request enters an atomic block or not (`Enter`), runs one query operation on a
tag (create, get_or_create, update_or_create, delete), writes a comment that
refers to the tag and returns or raises. `GetTag`, `InsertTag`, `Again`, `Update`, `Collect`,
`DeleteChildren`, `DeleteRow`, `Comment` are its statements; `EnterBlock`,
`Exit`, `OpenBlock`, `Rollback`, `Commit` the stack of savepoints that Django and
`databases/encode.py` keep per connection. `pure` tells a database with an asynchronous
driver, where every task has a connection, from one behind `sync_to_async`,
where all tasks nest on one. Uncommitted writes are kept per connection; a
statement waits for the uncommitted row of another.

### SchemaQuery

A compiler (`node`) fetches its objects (`Fetch`), asks for the keys of a
relation (`Ask`, `Receive`) and has another compiler fetch what no recursion
map knows (`Handle`), which puts the values in (`InsertValues`,
`InsertUnordered`). `known` is the recursion map, one per path that made it and
shared by those below. With `gather_async_fields` the fields of an object run as
tasks, in any order; a query may fail (`AskFails`, `FetchFails`) and an object
may be deleted between two queries.

### ClientSession

Jars are numbered, so `jarOf` shows which of them the Client and its sub-client
refer to and `EnterBlock`/`LeaveBlock` that a with block copies or restores.
A request is `BuildRequest`, `Send`, `Answer` or `Break`, and `StoreCookies` (only the
synchronous one stores: `_make_async_request` drops the cookies of a response, although
docs/en/guide/client.md:566 says that they are stored, so `BlocksIsolate` promises a request what
the last response to a synchronous request of its block set, and no more). `mixed` is a ghost: blocks met in a way that
`with` does not isolate, which the properties leave out.

### ServerMiddleware

`serving` walks through the loop of a backend: `PassRequest`, `AnswerEarly`,
`CallApi` or `CallView`, `Collect` (how the response comes back through the framework, in
the context variable or not), `PassResponse`, `Finish`. The context variables stay
from request to request; the guards on `backend` are the differences between the five
files.

### SpanLog

Loggers and events are numbered as they are made; `OpenSpan` is `__call__` and
`__enter__`, `CloseSpan` is `__exit__`, `Emit` a log method, `Generate` what the middleware makes of
the tree. `Below` is the chain of open spans a logger leads to, `Found` what its list of events leads to. `crossed` is a ghost: a task closed a span of another.

### ApiDocument

`EnterApi` collects the responses of an API, `Document` one endpoint with its
operation id and references, `Merge` another document. `SharedName`,
`UsableName`, `Suffixed` and `OperationId` are the naming rules, over names as sequences
of parts: a joined name and the reference of an endpoint (module, class and function) are the same
when their parts are. `DocumentSound` excepts by name the two cases in which the code fails. A class of the user called
Response takes the name that references to Response itself have (`Confused`, only such references);
and an operation id that falls back to the reference is not compared with those in use
(openapi.py:1140), so two operations may have one id if it is the reference of one of them. Both occur in the run: an endpoint of class
`user.Page` has the reference that another one has as a joined name.

### ResponseExchange

`Give` is the construction of a response from a class (`Made`), `SendResponse` what a back end
writes (`Written`), `Receive` what the client reads (`Read`), `Declared` the match with the
classes the client declares (`As`, `Fits`), `Forward` an endpoint that returns it. `given`
is kept, so that `ReadAsGiven` compares the end with the beginning.

### WorkerMetrics

A request adds to each counter by a load and a store (`LoadCounter`,
`StoreCounter`), one step where the build makes it one. A cycle reads, resets
(`FetchMetrics`, `RetrieveMetric`, `ResetMetric`), updates the worker's row (`UpdateRow`, `UpdateFails`) and writes the
monitor row (`Record`).

### ServiceSetup

The service is a record; `WithBackend`, `SetMode`, `WithDatabases`, `MountedTo`,
`OpsSetup`, `SetUp`, `ServerSetup`, `OpsStartup` are functions on it, as the
methods call each other, and the actions are the calls an application, the
framework or a supervisor makes, in any order. `asked` and `belated` are ghosts: what asked to
be mounted, and that a part came after set-up.

## 3. Runs

| Run | Properties | What it shows |
|---|---|---|
| `session_db` | `RevokedUnreadable`, `IssuedKeyStored`, `StoreSpec`, `BlocksIsolate`, `OwnExchange`, `ReadAsGiven` | the db engine, with and without a new key at login: a late save cannot revive a deleted session (the row keeps its deleted_time), an issued cookie names a stored session, and what loads find is a behaviour of `SessionStore`; with blocks keep the cookies that synchronous responses set; a response goes with its own request; what is read is what was given |
| `session_caches` | `AnonymousKeyStaysAnonymous`, `CacheOfDbBacked`, `RevokedStaysGone`, `StartsComplete` | the two engines with a cache, one with `interrupted="cycle"`, evictions and failing cache calls: once nobody works on a revoked session, the old cookie never revives it, and no key known before login names a user; and the assembly of a service in every order |
| `session_revoke_cached_db` (violation) | `RevokedUnreadable` | a fill that read the row before a logout serves the session again afterwards |
| `threads` | `TargetsAreLocked`, `SendBound`, `Deadline`, `PassCoversQueue`, `SecondsHonoured`, `WaitsEnd` | passes of two threads and failures lose no log; a timed lock is only ever released by its holder; about 150 option records of a call, plugin inside or outside a hook layer, with the header named or as by default, waits spread or not, hooks that retry: bounded sends, bounded time, no resend of what is not idempotent, no retry before a Retry-After in seconds that is read; everything that waits goes on |
| `workers` | `OrphanOnlyIfLate`, `CountedOnce`, `ElectionSettles`, `IncidentsCompressed`, `TriggerEnds` | crashes, restarts, reused pids, two late intervals or errors: the oldest worker with a row leads in the end, and works; alert checks of two threads open one incident, and come to an end but for the event of a supervisor that is down; requests are counted once |
| `tables` | `OneLogPerPeriod`, `StoredOnce`, `BothSidesAgree`, `RowsSettled`, `RowComplete`, `DocumentSound`, `CatchUp`, `HourIsReported`, `CommandAlone`, `TableFollows` | reports under overlapping cycles, restarts and lost answers; connections under lost and late call backs; syncs of two releases under failures; the log of a request with spans of two tasks; the names in a document, but for a class called Response and ids that fall back to a reference |
| `report_layer` (violation) | `LayerKept` | missing reports of one layer are resent under the layer of another |
| `framework` | `KeysAccounted`, `EventsAsWritten`, `NamedEndpointRuns`, `SaveIsWhole`, `QueryAnswers`, `RelationsFetched`, `AllOrNothing`, `TaggedIsCurrent`, `RunIsGuarded` | the cache's traces and bound; streams under any chunking and line ending; validators; hooks before endpoints; saves under failing statements; schemas that refer to themselves; asynchronous queries of two tasks on one row |
| `event_keepalive` (violation) | `NeverFails` | a keep-alive comment ends a stream with an error |
| `not_modified` (violation) | `NotModifiedIsCurrent` | a changed resource is answered 304 when the tag differs and the date does not |
| `save_stored` (violation) | `SuccessIsStored` | an ignored error inside a transaction undoes the row of a save that did not raise |
| `atomic_shared` (violation) | `NoEffects` | a request that raised leaves effects, when its atomic block nests in that of another task on one connection |

Some properties are conjunctions of parts that are named in their modules:
`SendBound` includes `NonIdempotentOnce`; `WaitsEnd` is `StoredEventually` of
the logs, `LockedEventually` of who waits for a key and `Finishes` of a call;
`ElectionSettles` is `OldestLeads` (which includes that only live workers stay connected) and
`PrimaryWorks`; `SaveIsWhole` is `FailureLeavesNothing` and `SavedMeansSaved`; `RelationsFetched`
is `RelationsComplete` and `RecursionEnds`; `OwnExchange`, `DocumentSound`, `RowComplete`, `StartsComplete` likewise.

### Bounds and why they suffice

* Sessions: one browser, two requests, three keys (one of them stale), one user,
  one further write (none in the second setting of `MCSession`). The races are between two requests on one key; a key
  cycle or a login needs a second key and a create after a logout a third.
  The engines with a table are run without failing INSERTs and cache calls (`CreateFaults`, `CacheFaults`); the cache
  engine with failing calls. With `CreateFaults` an issued key need not be stored (see 5); that failing cache
  calls break nothing about `IssuedKeyStored` and `CacheBacked` is proved (`IssuedIsStored`, `CacheIsBacked`).
  Requests start again when they are done, so histories are long. Requests are
  interchangeable (symmetry); no liveness is checked in these runs.
* RetryChain: two layers (the plugin and one hook layer, in both orders), no, two or
  four tries against a loop limit of three, so both limits are met; waits none or (1, 2);
  requests that are not idempotent only where the option looks at it; asynchronous calls only with four
  tries and the header read, since only dated headers tell them apart; latency,
  sleep and deadline of the same size, so a deadline can fall into either; the header named or
  not, waits of up to 2 ticks in it, and a ratio of one half, with which a wait of 2 is spread
  over 1 to 3. The clock is bounded at 27 ticks, above the longest call of these options.
* LogQueue: three responses with a backlog of two, one flush thread beside the
  cycle, one failure. The shortest loss would need a response that arrives
  during a pass and one that was there before; the third makes the backlog
  exceed the limit after a store.
* KeyLock: two lockers, two keys in any order, two entries each: enough for a
  circle of waiting and for a lock that expired and was taken again.
* WorkerPrimary: two pids, three starts (a pid is used again), a retention of
  three intervals and two late intervals or errors, enough to orphan a worker
  (retention minus one) and to have the other one primary meanwhile. A row's
  age is capped at the retention, beyond which the code does not look.
* AlertIncident: two threads, three minutes, three checks or failed reports; what they
  trigger is not bounded, nor how often the supervisor goes down and comes back. A window and a pause can both
  begin and end. Counts above `min_times` are not told apart. Four rows are more than the calls
  can open.
* ReportLog: three cycles of two workers, two slots an hour, a day of two hours
  and one more, expiry after 3 and 5 slots, batches of two rows, one upset, one
  lost answer, one partial report. A batch can hold both layers, a row can
  expire unsent, and two cycles can meet in every query.
* SupervisorLink: two terminals, two keys, three rows, nodes and commands, one
  failure. Each pair of commands, and a third after them, interleaves.
* ResourceSync: two processes, two releases that share an endpoint, six rows,
  three syncs, two setups, one deployment, one failure.
* KeyCache: two clients, three keys (one a list), three operations, `max_entries` of
  one, so that nearly every write evicts; both policies.
* EventStream: four lines and three line endings; every chunking. A chunk may
  end inside a CR LF and between two line ends.
* HttpCache: one visitor, three versions, all sixteen settings: a client's copy
  can be two versions old. Visitors do not interact.
* ApiCall: the root, one mounted API and the endpoint, two rounds per layer,
  every set of layers with a plugin.
* AtomicQuery: two tasks, every operation, atomic or not, with and without
  asynchronous drivers; a row there already or not. One unique name is what they can
  collide on.
* SchemaQuery: a cycle of three users, a chain, a user that refers to itself, two that refer to each
  other, users with posts; one failure, one deletion.
* ClientSession: two tasks, two requests, two blocks: a block can begin, end or be
  re-entered while a request of the other is under way.
* ServerMiddleware: two middlewares, three requests on one thread, all five back ends; what
  the first leaves behind is seen by the second, and reset before the third.
* SpanLog: two tasks, three spans, two messages: spans can nest, overlap across tasks and
  be followed by a message.
* ApiDocument: four APIs with seven endpoints, labels that collide in every way the naming
  rules distinguish, one external document.
* ResponseExchange: four response classes, six kinds of result, two hops, a server that
  keeps one cookie and one that keeps all.
* WorkerMetrics: two serving threads, two requests, two saves by one cycle at a time,
  one failing statement. Two cycles that overlap count twice, which `CountedOnce` leaves out.
* ServiceSetup: a synchronous and an asynchronous back end, one database, one API that asks for
  either of two routes, one of which is that of Operations; every order of every call.
* RelationSave: three objects (one without a key yet), two keys, every combination of options; one
  failure of each statement.

### Fairness

* RetryChain: `WF_chainVars(ChainNext)`. A call is one thread or task and each attempt has
  a timeout.
* LogQueue: the cycle begins again and its pass is scheduled; flush threads get
  no fairness, and failures are bounded, as a database that always fails
  stores nothing.
* KeyLock: bodies end, timed locks expire, a waiting locker tries again. A waiter
  gets no promise to win, only to stop waiting (the blocking timeout).
* WorkerPrimary: weak fairness of `Tick` and of each worker's cycle: threads are
  scheduled and `BaseCycleTask.start` wakes them each interval. Nothing needs to
  start, die or fail. The liveness properties speak of the time when processes
  have stopped coming and going, which the bounds ensure.
* AlertIncident: `WF` of each thread's `AlertStep`: a thread goes on with a call it has begun. No check need
  begin, no minute pass, and the supervisor need not come back.

In a scene fairness speaks of the part that moves. Symmetry is used only in runs
without liveness. Scenes set `CHECK_DEADLOCK FALSE` where a part ends when its
budget is spent (a call that was answered, a save that was done, a clock at its
bound); the other runs check deadlock.

## 4. Theorems

Proved by TLAPS for all values of the constants that satisfy the assumptions of
the modules. The assumptions are types (numbers are numbers, options are among
those the constructors accept) and these: the keys of the lock and of the cache,
the cycles of the reports, the threads of the metrics, the processes and the endpoints of a
release are finitely many (`LockAssumption`, `CacheAssumption`, `ReportAssumption`,
`MetricAssumption`, `SyncAssumption`); no endpoint has the ident of the instance (`SyncAssumption`);
the cache has a client (`CacheAssumption`); the names of the steps that are no
object are not names of objects (`SaveAssumption`), nor are the marks of the queries names of
requests (`MarkAssumption`); the clock of the reports
lasts an hour at least (`ReportAssumption`); a response that is given has finitely many cookies, its
result is not a file, and its class shows no two members under one key (`GiftAssumption`): a file is not
modelled as a result, and members under one key would overwrite each other. TLC evaluates all of them.

| Theorem | States | Rests on |
|---|---|---|
| **`Session_proof`** | | |
| `TypeCorrect` | `TypeOK`, every engine | `TypeInv` |
| `RevokedForGood` | `RevokedUnreadable`, db engine | `DbInv` |
| `DbImplementsStore` | db engine implements `SessionStore` | `TypeInv`, `DbInv` |
| `IssuedIsStored`, `CacheIsBacked` | `IssuedKeyStored`, `CacheBacked`, engines with a table | `StoredInv` |
| `NoFixation` | `AnonymousKeyStaysAnonymous`, every engine, policy and fault | `LoginInv` |
| **`Exchange_proof`** | | |
| `BlocksKeepApart` | `BlocksIsolate` of `ClientSession` | `ClientInv` |
| `ServerTypes`, `EveryoneItsOwn`, `ThreeNeverMix` | `OwnExchange` of `ServerMiddleware`; three back ends without its exception | `ServerInv` |
| `GivenIsRead` | `ReadAsGiven` of `ResponseExchange` | `ExchangeInv` |
| `RowsAreComplete` | `RowComplete` of `SpanLog` | `SpanInv` |
| **`Threads_proof`** | | |
| `TypeCorrect`, `PassInvariant`, `PassesCoverTheQueue` | `PassCoversQueue` of `LogQueue` | `PassInv` |
| `LockTypes`, `TargetsStayLocked`, `MutualExclusion` | `TargetsAreLocked` of `KeyLock`; who can be inside together | `LockInv` |
| `ChainTypes`, `SendsBounded`, `CallsEndInTime`, `RetryAfterHonoured` | `SendBound`, `Deadline`, `SecondsHonoured` of `RetryChain` | `ChainInv` |
| **`Workers_proof`** | | |
| `Invariant`, `TypeCorrect`, `LateOrphans` | `OrphanOnlyIfLate` of `WorkerPrimary` | `RowFresh` |
| `MetricTypes`, `RequestsCountedOnce` | `CountedOnce` of `WorkerMetrics` | `MetricInv` |
| `AlertTypes`, `IncidentsStayCompressed` | `IncidentsCompressed` of `AlertIncident` | `AlertInv` |
| **`Tables_proof`** | | |
| `ReportTypes`, `PeriodsHaveOneLog`, `ReportedLogsAreStored`, `HoursAreReported` | `OneLogPerPeriod`, `ReportedIsStored`, `HourIsReported` of `ReportLog` | `ReportInv` |
| `SyncTypes`, `RowsStaySettled`, `TableFollowsSync` | `RowsSettled`, `TableFollows` of `ResourceSync` | `SyncInv` |
| **`SupervisorLink_proof`** | | |
| `LinkTypes`, `SidesAgree`, `CommandsWork` | `BothSidesAgree`, `CommandAlone` of `SupervisorLink` | `LinkInv` |
| **`ServiceSetup_proof`** | | |
| `SetupTypes`, `ServicesStartComplete` | `StartsComplete` of `ServiceSetup` | `SetupInv` |
| `QueryTypes`, `QueriesAnswer`, `QueriesAreAtomic` | `QueryAnswers`, `AllOrNothing` of `AtomicQuery` | `QueryInv`, `AtomicInv` |
| **`Framework_proof`** | | |
| `VisitTypes`, `TaggedIsRight` | `TaggedIsCurrent` of `HttpCache` | `VisitInv` |
| `CacheTypes`, `KeysStayAccounted` | `KeysAccounted` of `KeyCache` | `CacheInv` |
| `EndpointsAreGuarded`, `PathIsFollowed` | `RunIsGuarded`, `NamedEndpointRuns` of `ApiCall` | `CallInv` |
| `SavesAreWhole` | `SaveIsWhole` of `RelationSave` | `SaveInv` |

A proof module EXTENDS the modules it is about; one that is about several hides
the assumption of a part where the next one begins.

### The inductive invariants

Few of the properties are inductive as they stand. What is added, and why:

* `Session`. `TypeInv` adds to `TypeOK` that `req.key` is a key wherever a
  store is accessed (`ReqOK`, for every program counter); the lemmas type the
  helper operators (`Created`, `Deleted`, `BeginCreate`, ...) once. `DbInv` adds to
  `RevokedUnreadable` that requests visit only the db steps and that
  `revoked \subseteq deleted`; nothing removes a key from `deleted`, which is
  what `SaveDb` not touching deleted_time gives. `DbImplementsStore` maps
  `InsertDb` and `SaveDb` on a live key to `Put`, `DeleteDb` to `End`, everything
  else to a stutter. `StoredInv` follows a key from the row to the cache and the
  cookie: at each step where a request is about to write the cache or to answer,
  the row is in the table. Its hypothesis `StoresAll` excludes what breaks it: an INSERT that
  db.py:46 swallows, and a key drawn anew after the cache has lost the old session. `LoginInv`
  divides the keys into those a browser may know (`Public`), those that were given without a user
  (`Open`) and those a request has drawn and not yet given (`Alone`): no session with a user
  is ever written under an open key, because login() cycles the key first and
  nothing but the request that drew a key writes under it before it is given.
* `ClientSession`. While blocks of with have not met (`mixed`), one caller at most is
  inside, and an open request client is kept by its block or belongs to the one request it was made
  for (`OneBlock`, `NoneLeftOpen`); the jar of the root has what the last response that is stored set (`JarInv`).
* `ServerMiddleware`. What the context of the thread may hold at each stage of a request, for each
  back end (`Context`): the own exchange or nothing, unless an earlier request failed to
  reset it (`tainted`), which only flask and sanic can.
* `ResponseExchange`. A message that is on its way says what was given (`Conveys`): its body is what the first
  endpoint made of the gift, its cookies are some of those given with the last, or the last alone. A response that a
  client holds is what it reads of such a message, with whatever class: another service that returns it writes the
  message again, and cannot lose more. Reading with the class of the gift undoes making (`ReadConveys`), for which the keys
  of the class have to be injective. It ends where a client makes a response anew (`remade`).
* `SpanLog`. Loggers are numbered from the root outwards and every event lies in one of them (`TreeOK`); the event
  of a span that has ended and still shares its dict has what was logged in it (`FilledOK`); the level of the root's logger
  is at least that of the messages outside of spans (`LevelOK`). An event is then in the trace as soon as every
  logger above it has ended with a dict it shares, which is an induction over the number of its logger.
  While no task has closed a span of another, one task at most has spans open, each opened in the one before (`HolderOK`):
  what it closes is the innermost. TLC checked `SpanInv` with two tasks and three spans before it was proved.
* `RetryChain`. `SendInv` counts how often each layer was entered within the present run of
  the one outside of it; that the product over the layers is a bound is an induction over the layers. `TimeInv` says what is left of
  max_retries_timeout on the way in, `HeaderInv` which answer the plugin looks at. The bound of the
  layers without the plugin is the function `Nested`, an exponential that is proved about by its recursion.
* `LogQueue`. While a pass generates, what it owes is among its logs or still ahead of it in
  the queue; in bulk it is among the logs; in finish it is stored. It
  needs that the queue only grows and stored rows stay, whoever else runs.
* `KeyLock`. A locker that is outside has nothing, and what expired under a locker is forgotten
  when it leaves. Inside, a lease carries the token of this entry, not of an earlier one.
* `WorkerPrimary`. `RowFresh` bounds the age of a loaded worker's row by the
  late intervals so far plus one, and by that number once this interval's cycle is past its
  update; `OrphanOnlyIfLate` says nothing of rows that are old but not yet cleared.
* `WorkerMetrics`. A request that was logged is in one place: in the hands of a thread that has not added it,
  in a counter, in what a cycle has taken from the counter, or in the row. `NoneTwice` and `NoneMissing`
  account for it at every step of the cycle.
* `AlertIncident`. What a call has read that still holds (`CallOK`): that no incident of its entry is open within the
  window, until another thread writes; that the interval since the alarm it read is over. An alarm the supervisor
  got is stored, or about to be (`ToldOK`). That `GetLog` finds an open log when there is one needs that a set of pks
  has a last one, from the well-foundedness of `<`.
* `ReportLog`. `HeldOK` (only a cycle under way holds rows), `PaceOK` (where the cycles of an interval stand),
  `EachOK` (how many rows each period has, with those that cycles have looked for and not yet made),
  `StoredOK` (a remote id comes from an answer, an answer from a stored row) and `HourOK` (what the last
  cycle of an hour has done so far).
* `ResourceSync`. `Paced` counts, for each ident, the rows that are live or known to the supervisor
  together with the processes that may still add one: one for each overlap and one, or one more as long as
  a process that may add a row will not, because of the rows it has read or will find (`WillNot`). A row that is
  deleted pays for a process that read it and now will add one. `KnowsOK` is what a process knows of the
  table whatever others write; `TableOK` that remote ids are for good and rows are only deleted where there is one with
  a remote id; `EtagOK` what the etag says while nothing failed and nobody met. TLC checked `SyncInv` with
  three processes before it was proved.
* `SupervisorLink`. `BothSidesAgree` counts what is astray once all is quiet; while commands run, it is a set of nodes
  that is counted (`BlameOK`): every node that is on one side only, or is about to be, is in the set, and the set is no
  larger than the failures and twice the overlaps, less one for each command that met another and has yet to ask for a node
  (`Pending`). Nodes join it when a row loses its key or its place, and that takes a failure or an overlap. It rests on what a
  command may assume that meets nobody (`AloneOK`), on which rows and nodes refer to each other
  (`ShapeOK`), and, while there was neither a failure nor an overlap, on the one row that is not yet linked (`Clean`).
  TLC checked the parts with up to three terminals before they were proved.
* `ServiceSetup`. What the calls before the set-up leave behind: while there is no root API, whatever asked is waiting
  or was replaced by what waits on its route; a document is kept only by Operations and under a root API; a service
  that was not changed after its set-up has logged and served its Operations in that order.
* `AtomicQuery`. `ShapeInv` says in which blocks a request is at each of its statements, and that a connection has
  a savepoint for each block open on it, of the request itself with a connection each, of all requests on the
  connection of all. `PureInv` follows a request that gets or creates: until it has its tag it has written nothing,
  in its savepoints neither, and it is only refused when a tag was there. A request that then misses the tag knows that one
  was deleted. `SharedInv`: on one connection a block that met nobody is the only one, and nothing comes between its
  SELECT and its INSERT. `AllOrNothing` needs more. What a step does to the database is one of six effects
  (`StepEffect`), whoever takes it, and from these follow: a committed comment refers to the committed tag (`RefInv`); of a
  request under Atomic nobody else has the id, the name or the comment until it ends (`Apart`), so raising only has to undo its
  own connection; savepoints of a request are of nothing, as its query has written nothing when it opens
  them (`Fresh`); and what a request wrote is still in its connection when it leaves the last block (`Written`). The last is hard for
  the update and the DELETE that find no row: then the tag was deleted, and nobody can bring its id back (`Spent`), for an id
  is inserted once, by the request it is named after, and ids are of requests that have theirs (`KnownInv`). So a
  commit whose comment refers to it is refused. TLC checked these with two and three tasks before they were proved.
* `HttpCache`. The tag a client keeps, if it has one, is that of the version it keeps.
* `KeyCache`. `KeysAccounted` speaks of the moments between operations; `Shape` follows the one operation that is
  under way, command by command: which keys are on their way out of the sorted sets or into them. Keys outside of
  the count are in `slack`.
* `ApiCall`. Inwards, the APIs outside of the layer are guarded and no other (`Guards`); while no API has
  repeated the request, the path is matched as far as the layer (`Matches`).
* `RelationSave`. Statement by statement, what the row, the keys and the objects are so far (`Stored`, while no error
  has been ignored), and that the objects of before stay until those that are no longer given are deleted (`Remaining`). The asynchronous version goes on with `must_create` after it created
  a missing row (compiler.py:1011,1021): then there were no keys and no objects of that row before (`Fresh`).

### What the proofs changed

* `KeyCache`: eviction with the policy RANDOM draws with replacement (`random.choices`, entity.py:266), so it may remove fewer
  keys than the excess. `Pick` had drawn a set of exactly the excess; the proof of the bound could not use that the
  code gives. With batches of two keys and that policy TLC shows a cache beyond max_entries, tolerance and batch. The
  keys an eviction falls short of count as `slack` now.
* `ReportLog`: a batch of missing reports is a slice of a queryset that is evaluated anew for each slice
  (worker.py:880). A row that another cycle creates meanwhile can sort before those that are still to be sent, and one is
  skipped. `CreateLog` did not mark the batches of other cycles as disturbed; `CatchUp` is about
  batches that no other cycle disturbs.
* `AlertIncident`: `AlarmsSpaced` compared times with None where the settings have no min_alarm_interval; an alarm
  then needs no interval.
* `AtomicQuery`: the CASE of `After` had guards that overlap, for which TLA+ leaves the choice open and TLC takes the
  first. They exclude each other now.

* `SupervisorLink`: `BothSidesAgree` was false beyond the bounds of its run. Races can leave a linked row with an
  init_key again and meta.ini with the id of a node that no row has. Every later connect with this key then makes a row of its own,
  its call back finds the linked one instead (connect.py:61) and returns it as it is (connect.py:68), and the command deletes
  its row and leaves its node behind at the supervisor, though it met nobody. After three overlaps seven such commands
  pass the bound of twice the overlaps. A command that starts while a linked row has an init_key is among `overlaps` now.

### What is only model-checked

* All liveness (`WaitsEnd`, `ElectionSettles`, `CatchUp`, `TriggerEnds`): fairness and ENABLED are out of the
  prover's reach.
* `SentOnce`, the half of `StoredOnce` that `ReportedLogsAreStored` leaves: it rests on the order of the batches, which
  `SortSeq` gives, and no installed prover reasons about its definition. Likewise what rests on
  folds and recursive operators over data: `DocumentSound`, `RelationsFetched`, `EventsAsWritten`.
  Induction over the natural numbers is available for a set of numbers (the lemmas `Induction` of `Threads_proof` and
  `Counting` of `Exchange_proof`, from the well-foundedness of `<`), which is enough for the
  functions `Nested` and `Below`; induction over data that is not numbered is not.
* The cache engines' part of `RevokedUnreadable`, which fails (finding 1).
* `CacheOfDbBacked` of the combined engine in `MCCaches` beyond `CacheIsBacked`.

## 5. Findings

Each has a run whose counterexample shows it.

1. cached_db.py:72 (`session_revoke_cached_db`): a logout between the read of the
   row and the fill of the cache is undone; docs/en/guide/auth.md:324 promises
   that flush revokes immediately.
2. worker.py:914 (`report_layer`): after a report of one layer has succeeded,
   missing reports of both layers are resent with the layer and interval of the
   report that just succeeded.
3. sse.py:127 (`event_keepalive`): the decoder keeps the id of an earlier event in
   `_last_event_id` (sse.py:137) and takes it for an event that has begun, so the blank line after
   a comment, as servers send to keep a connection open, makes an event without data, and
   `ServerSentEvent` raises (sse.py:31): the stream ends with an error.
4. plugins/cache.py:105 (`not_modified`): the comparison with If-Modified-Since is the wrong way
   round: 304 is answered when the resource was modified after that date. The date is
   looked at although If-None-Match was sent and did not match, so the different tag does not help.
5. compiler.py:1122 (`save_stored`): with `ignore_errors` inside a transaction, the
   error that is ignored has broken the transaction; leaving the block undoes
   the row and the save returns as if it had succeeded.
6. databases/config.py:282 (`atomic_shared`): with databases behind
   `sync_to_async`, atomic blocks of concurrent tasks nest on one connection: the outer block of
   another task commits what an inner one that raised should have undone, or undoes
   what an inner one that returned had done.

Seen while modelling, without a run of their own: db.py:46 swallows a failed INSERT
of `create()` (with `CreateFaults = TRUE`, `IssuedKeyStored` fails); retry.py:195
reads an index that a layer inside may have reset, and raises
`MaxRetriesExceed` where it should hand on the answer; retry.py:252 takes the
difference to a dated Retry-After the wrong way round; middleware.py:80 counts
stored responses as backlog (docs/en/guide/ops.md:70 speaks of unstored ones);
store.py:111 keeps the stale worker of a process whose row was cleared, so it
is never elected again; config.py:290: while the supervisor is down, a failed alarm triggers the event whose alarm fails and
triggers it again, until Python's recursion limit, if the service subscribed to supervisor_request_failed;
retry.py:28: by default no Retry-After header is read; metric.py:838 does not find an incident older than the
window after a restart; config.py:36 keeps a parameter only when it is None;
entity.py:192 compares the LFU policy of variants with the tolerance; the redis
multi-get compares keys with values, so hits are not counted; compiler.py:1070
drops the coroutine of the deletion, so surplus many-to-many keys stay after a
synchronous save; connect.py:285 compares the node id with itself;
base.py:613: an API layer that repeats a request resolves it with the
path already consumed; service.py:689 builds the thread pool anew at each access;
queryset.py:1235 says "Lock the row" and takes no lock; the fetchall of the Django database adaptor returns
one chunk of 100; tasks that query the fields of one schema put their objects into the maps of each other
(`FieldsIsolated` of `SchemaQuery` fails).

Also, by part:

* Client: sub-clients keep the jar of before a `with` block; asynchronous requests do not store response
  cookies (docs/en/guide/client.md:566); `_build_headers` ignores its base headers (base.py:529);
  async_head calls the synchronous request (base.py:942); a synchronous exit leaves an
  httpx.AsyncClient open; a kept httpx client keeps the timeout of its first request; re-entering
  `with` drops the clients of the outer block.
* API: `merge_hooks` (route.py:124) builds the before hooks of the merge from the after hooks.
* Server: flask leaves its response variable set when rendering fails, sanic when a middleware raises;
  flask publishes the request before the middlewares have run; the response of starlette's error handler has
  no request and is not logged; starlette.py:172 tests whether the request, not the result, is awaitable.
* Logger: a nested span drops the events of the outer one's event; the level of a child does not reach its
  parent; the level is taken before the error is committed; `debug` is logged as INFO.
* OpenAPI: `requires` of an API never reaches its operations; merged tags append name strings;
  a class named "Response" leaves a reference without target; `ref.lstrip(prefix)` strips characters;
  the fallback operation id is not checked (openapi.py:1140), so two operations may have one id; `_generated_document` is shared by all instances.
* Response: the headers for message, state and count are never written (build_headers is not called);
  base.py:288 sets the status of a timeout, which the aborted status overwrites (docs/en/guide/config-run.md:527 says 504, 503 is given);
  a falsy unwrapped result is sent as an empty body; a state of 0 becomes 1; a template's own status is
  kept for errors; starlette and django keep one Set-Cookie; a forwarded response that came
  compressed is written decompressed under the headers of the compressed one.
* Worker metrics: what is counted between a read and its reset is lost; cycles that overlap count
  twice; an update that fails after the reset loses counts; errors without requests are dropped.
* Service: an API that waits is replaced by another with its route (service.py:528), and does not reach
  `on_api_mount`; a synchronous shutdown of the databases connects them (databases/config.py:357); a service that was set up before
  Operations.integrate starts the task without `Operations.setup`; the Django adaptor sets
  `asynchronous` of the service without applying it to the databases; `API.__as__` with a service does not mount.

## 6. Plan

Done: everything in the table of section 2. Left, in this order:

1. Composition of `ReportLog` under `WorkerPrimary`, so that its changes of
   primary are those the election produces and not any within the budget.
2. The reader thread behind an event stream's timeouts (sse.py:241).
3. Composition of `ServiceSetup` with `ServerMiddleware`: which middlewares a back end calls
   once the service was put together in a given order.
4. A theorem: `CacheOfDbBacked` of the combined session engine.

## 7. Not modelled, and why

Parts whose behaviour is a function of one request or of the declarations
(parsing of requests and fields, the schemas of the OpenAPI document, filters and
expressions of queries, authentication checks, the
registries) have no states a model checker would explore; their tests enumerate
inputs. Of the ORM the saving and the querying of relations and the asynchronous
query sets are modelled, where statements fail and meet one by one; how a filter becomes SQL is
not. Of OpenAPI the names are modelled, of responses what becomes of status, members, cookies and content, of
the back ends their loops around a request and the assembly; the rest of settings
and the command line is code that runs once. The file variant of the key cache
(core/cache/plugins/entity.py) raises as soon as it traces keys, so only the
redis variant is modelled. The session engine over Django's own sessions is a
wrapper. Queries are single steps: the isolation of one statement is the
database's.

The code outside the repository (redis, the databases, psutil, the supervisor,
the transport) is modelled from how the code uses it and marked external in
`PROJECT.json`.

## 8. Running

    tlc -config MCSession_db.cfg MCSession
    tlapm Session_proof.tla

and likewise for the other modules. The longest run (`framework`) takes about three
minutes with two workers.
