# Formal model of the Spencer BI engine

Spencer lets a user upload tables, clean them with undoable transforms, query
them in SQL or in words, and chart the results. A FastAPI process (one uvicorn
worker, one asyncio loop) owns a DuckDB file; Redis holds everything that is
small and shared; a SQL database holds users and the ownership of sessions; a
Vue client talks to it over HTTP and one websocket. This directory holds TLA+
models of the parts where the order of steps decides whether data survives,
the TLC configurations that check them, and TLAPS proofs.

`<-` below reads "models". `backend/` is `src/backend/`, `frontend/` is
`src/frontend/src/`.

## 1. Inventory

What runs at the same time: coroutines of the asyncio loop, which can be
interleaved at every `await` (every DuckDB statement is one, through
`DuckDBManager.execute_async` and a pool of ten threads); sync (`def`) handlers
and dependencies, which FastAPI runs on a thread pool and which interleave with
everything; the sweep loop; background query tasks; and the browser, which has
requests of its own in flight. What survives a crash: the DuckDB file, Redis,
the SQL database and the upload directories. What does not: coroutines, the
per-table locks, running queries, the key pool's counters.

| component | state | operations | what is hard | what makes it correct |
|---|---|---|---|---|
| Transforms (`services/transform_service.py`) | live table, snapshot tables, history in Redis, schema version, per-table lock | apply, preview, undo, redo, goto, history | swap of tables in several statements, failure between any two, requests queueing on the lock, handlers that do not take it | the history is a linear undo list; every state it points at is on disk and is the state of that step; every change bumps the version |
| Session router (`routers/session.py`) | schema cache, relationships, tables | create, upload, materialize, delete table, make primary, get/rebuild schema, relationships | read-modify-write of one JSON value around awaits or on threads; check of a name long before it is taken | no table is lost from the cache, none is listed that is gone |
| Session lifecycle (`main.py`, `deps.py`, `services/cleanup_service.py`, `services/ownership_service.py`) | liveness marker with a TTL, ownership row, upload directory, tables | middleware, ownership guard, create, delete session, sweep | the sweep judges by an expiring marker and deletes in several awaited steps, while requests arrive | data of a session in use is never reaped, data of a dead one is eventually |
| Redis wrapper (`services/redis_manager.py`) | all keys | versions, caches, marker, rate limit | two-call sequences, TTLs | atomicity of each operation |
| DuckDB manager (`services/duckdb_manager.py`) | one file, a thread pool, connections by session | run_readwrite, run_sandboxed, interrupt | sandboxed statements roll back, interrupt finds the connection | queries do not change data; cancel cancels |
| AI question answering (`routers/ai.py`, `services/ai_service.py`) | query and failure caches keyed by versions, suggestions and stories keyed by session and version | ask, fix, optimize, explain, suggest, narrate, business dictionary | the LLM answers seconds after the schema was read; bounded loops of attempts | an answer cached under a version was made for that version |
| LLM key pool (`services/llm_key_pool.py`) | cooldown and daily count per key | acquire, success, rate limited | calls in flight while keys are benched | rotation ends, a benched key rests, the daily cap |
| Query worker (`services/query_worker.py`) | jobs, subscribers | start, broadcast, subscribe, cleanup; cancel, which changes nothing | end of a query against look, subscribe and cleanup | every subscriber hears of the end, and hears the truth |
| SQL validator (`services/sql_validator.py`) | none | validate, scope check | | read-only statements on own tables |
| Authentication (`routers/auth.py`, `services/auth_service.py`) | users, reset tokens, rate counters | register, login, reset | token used twice by two threads | a reset token works once |
| Application database, dashboards, admin, schedule, health | SQL rows | CRUD; schedule and kill-query are stubs | little | |
| Grid, chart, profile, quality and dry-run queries (`routers/query.py`, `services/aggregate_service.py`, `profile_service.py`, `quality_service.py`, `preview_transform`) | none | compile a request to SQL statements, run them sandboxed one after the other | several statements without a lock; what is shown is acted upon later (a fix, a cell edit by row number) | what is shown is true of the table; a fix removes its finding; an edit hits its row |
| Client state (`frontend/composables/*.ts`) | active session and table, history, version, user | switch, mutate, refresh, log out | answers that arrive after a switch | what is shown belongs to what is selected |
| Client views and components | presentation | | | |

The components meet in few places: the transform service and the router both
write the table, and the router writes the schema cache after each transform;
`/ask` reads cache and version and stamps its own cache with them; the quality
scan offers transforms, and the grid's row numbers come back as cell edits; the guard and
the middleware move the marker that the sweep reads; the sweep and
`DELETE /sessions/{uuid}` drop what transforms and uploads are working on.

## 2. What is modelled

### 2.1 Transform

`Transform.tla` <- `services/transform_service.py` for one table of one
session, together with the handlers of `routers/session.py` that change the
same table (delete, upload, and the schema refresh behind every transform).

| variable | code |
|---|---|
| `live`, `tmp` | the table and `{table}__tmp` of `_materialize` |
| `snaps` | tables `backup_{table}_step_{id}`, as records of number and content |
| `hist` | `history:{session}:{table}` in Redis: `entries`, `current`, `next_id` |
| `version` | `schema_version:{session}` |
| `listed` | whether `schema:{session}` names the table |
| `lock` | the `asyncio.Lock` of `_lock_for` |
| `pc`, `mem` | where each request is, and the history it read under the lock |
| `saves`, `faults`, `deletes` | counters that only properties and bounds read |

A request is a sequence of actions, one per awaited statement:

| request | actions |
|---|---|
| apply | `Request Apply (SnapshotInitial or DropRedoSnapshot* DropRedoDone) Compile CreateTmp DropLive RenameTmp Snapshot EnforceCap* Save Bump RefreshRead RefreshWrite` |
| undo, redo, goto | `Request (Undo or Redo or Goto) RestoreDrop RestoreCopy Save Bump RefreshRead RefreshWrite` |
| delete table | `Delete DropTable Unlist` |
| upload table | `Upload Ingest RefreshRead RefreshWrite` |

`CompileError`, `CreateTmpError`, `LostTable`, `RestoreError`, `RefreshError`,
`IngestError` are the ways a request fails by itself; `StatementError` and
`HandlerError` are DuckDB or Redis failing at any point, `Crash` is the process
dying; these three are the faults that `MaxFaults` counts. `Refuse` is every
rejection under the lock (nothing to undo, nothing to redo, bad goto target,
table missing). Two reductions: `Save` and `Bump` are synchronous Redis calls
with no await between them and are separate actions only because a crash may
come between; the row count between the bump and the end of the lock has been
merged with the bump, since it reads only and a failure of it leaves the same
state. The operation that is applied is abstracted to its outcome: any content,
or an error.

`UndoHistory.tla` is the abstract specification, a list of states and a
position: a step truncates what had been undone and appends, the list keeps the
last `Cap` states, everything else moves the position. `Transform` implements
it with `states <- contents of hist.entries`, `at <- hist.current`.

### 2.2 SessionLifecycle

`SessionLifecycle.tla` <- the marker, ownership and reclamation of one session.

| variable | code |
|---|---|
| `marker` | what is left of the TTL of `session:{uuid}`, in ticks; 0 when absent |
| `row` | the `datasets` row of the session |
| `dir` | age of `uploads/{uuid}/`, up to the grace period |
| `tables` | `base` and `later`, named `t_{uuid}_...`, and `backup`, named `backup_t_{uuid}_..._step_n` |
| `schema` | whether there is a `schema:{uuid}` |
| `pc`, `seen` | where each request and sweep is, and the catalog it has read |
| `quiet`, `waived`, `torn`, `lost`, `deletion`, `requests`, `faults` | history variables and bounds |

| code | actions |
|---|---|
| `deploy_guards` | the `Refresh` in `OwnerRequest` and in `RefusedRequest` (a request that is then answered with 401 or 404) |
| `require_session_owner`, on a thread | `CheckOwner` or `NotFound`, then `Admit` |
| `create_session` | `CreateSession CreateTable RecordDataset` |
| upload, materialize, `get_schema` | `Upload LoadTable`, `Materialize DeriveTable`, `Rebuild`; then `Register` |
| transform | `TakeSnapshot TakeTable PutTable Register`: the first snapshot, the DROP of the live table, the RENAME |
| undo, redo, goto | `TakeTable PutTable Register`: the DROP, the CREATE from a snapshot |
| `delete_table` | `StartUnlist DropTable WriteSchemaBack` |
| `delete_session` | `StartDelete ReadCatalog DropVictim* PurgeDeleted RemoveDeleted DeleteDataset` |
| `sweep` | `ReadCatalog (Spare or Condemn DropVictim* RemoveDead PurgeDead)` |

`Fail` ends a request at any awaited statement and undoes nothing; in
particular, one that fails between `TakeTable` and `PutTable` leaves the session
without its first table. `SweepError` and `Crash` are the faults, and they come
anywhere: also between `purge_session` and `rmtree` of a deletion and between
`rmtree` and `purge_session` of a sweep, which the event loop runs without a
break (`LoopFree` keeps other coroutines out there) but a process that dies does
not. `Transform` has the states between which the transforms move a table. A
table load may succeed after the directory is gone, because the statement runs
on another thread and may have opened the file before. `rmtree` always succeeds
in the model. Sessions are independent of each other but for the time a sweep
spends on others, which is covered by the actions of other actors between any
two of its steps.

`waived` is true once the owner has given the data up: stayed away for
`SessionTTL`, or asked for the deletion. It becomes false again when the owner
is admitted and finds everything in place with nobody taking it apart. `torn`
says that a deletion has taken the marker and nobody has been admitted since, so
a deletion that was cut there leaves a directory that looks dead; `lost` that a
request of the owner has dropped the first table for good.

All tables are in one DuckDB file in the model, as in the running system:
`DuckDBManager` would keep a file per session if its context variable reached
the worker threads, but `run_in_executor` does not copy the context.

### 2.3 KeyPool

`KeyPool.tla` <- `services/llm_key_pool.py` and the loops above it in
`AIService._call_model_with_pool` and `_call_llm`: the keys of one provider, the
chain of models, and several completions at the same time. Only the provider's
answer is awaited, so what a completion does between two answers (bench or
count, acquire, next model) is one step.

| variable | code |
|---|---|
| `cursor` | `_cursor[provider]`, in memory |
| `cooldown`, `used` | `llmkey:cooldown:*` (what is left of the TTL, in ticks) and `llmkey:calls:*` of today, in Redis |
| `call` | per completion: the model, the key, `attempts` and `last_err` |
| `tried`, `passed` | history variables of the properties |

| code | actions |
|---|---|
| `_call_llm` up to the first call | `Ask` |
| a good answer, `record_success` | `Answer`, `CountCall` |
| `LLMAPIError` | `APIError` |
| a rate limit, `record_rate_limited`, the next `acquire` | `RateLimited`, `Bench`, `Rotate`, `HandOut` |
| the same for a provider without a pool | `BareRateLimited` |
| time, the day's change, a new process | `Tick`, `Midnight`, `Restart` |

`MoveOn` goes to the next model that can be called; a model whose keys are all
spent fails without an await. Redis may fail in either write, which the code
swallows (`MaxFaults`). Waits that are told to the user are left out, and so is
`LLMConfigError`, which is the same for every model.

### 2.4 AskCache

`AskCache.tla` <- the handlers of `routers/ai.py` that call the language model,
the loops of `services/ai_service.py` above the call, and the versioned keys of
`services/redis_manager.py`, while other requests change tables and dictionary.
A session has one table here, and a table is only its *shape*, a number that
each change makes larger: what an answer was made from and run on can then be
compared with what is there now.

| variable | code |
|---|---|
| `shape`, `known` | the table in DuckDB, and as `schema:{s}` describes it |
| `version`, `termVersion` | `schema_version:{s}`, `bizdict_version:{s}` |
| `term` | `bizdict:{s}`: the definition of the one term, 0 for none |
| `query`, `fail` | `query:{hash}:{sv}:{bv}` and `fail:{hash}:{sv}:{bv}` for the one question asked; the key does not name the session |
| `notes` | `eda:{s}:{sv}` and `story:{s}:{sv}` |
| `request`, `change` | the requests to the model, and those that change tables |
| `told`, `announced`, `settled` | history variables: the last edit of the dictionary was bumped; the last change of the table was; the last refresh was by a change that overlapped no other |

| code | actions |
|---|---|
| the handlers up to the first call | `Ask` (a cache hit changes nothing) |
| `LLMError` | `ModelError` |
| `resolve_sql` and `rewrite_sql`: bad JSON or refused SQL, valid SQL, the dry run, its failure | `Reject`, `Propose`, `DryRun`, `DryRunError` |
| suggest-questions, narrate, explain, recommend-chart, explain-chart | `Tell` |
| the TTL of a stored failure | `Expire` |
| `add_instruction`, `delete_instruction` | `Instruct`, or `InstructCut` when the write is not followed by its bump |
| transforms, uploads, deletes as this module sees them | `Commit Bump RefreshRead RefreshWrite`, `Commit Unlist`, `WriterError` |
| a sweep or `DELETE /sessions/{s}`: the tables are dropped, then `purge_session` | `Commit Purge` |

What happens between two awaits, the model and the dry run, is one step: the
handlers read and write Redis synchronously. The model may answer anything or
nothing.

`Purge` takes the schema, the dictionary and both versions, and leaves every
stored answer, as `purge_session` does; the row of a swept session stays, so its
owner may come back, and the versions then count up from 0 a second time. What
was stored before is given again when they reach the old numbers: `Purge` marks
those answers `purged`, also the ones that requests under way will still store,
and forgets what they were made from. Nothing holds of them, which is one of the
findings; the properties are about the others, and what they say is that the
restart breaks nothing else (a version that has come back, an edit or a
transform that overlaps the purge, an answer stored across it). `DryRunError` models what the code does today: `_classify_db_error` is
defined nowhere, so the first refused dry run of a question ends in a
`NameError` and nothing is stored (see findings).

### 2.5 SchemaCache

`SchemaCache.tla` <- the table and relationship routes of `routers/session.py`
for several tables of one session and several requests at the same time.

| variable | code |
|---|---|
| `catalog` | the tables in DuckDB, as the number of the upload they go back to; 0: none |
| `schema` | `schema:{s}`: the flag `is_primary` of each listed table |
| `rels` | `relationships:{s}` |
| `saved` | `history:{s}:{t}`: the uploads that the snapshots of a table go back to |
| `request` | where each request is, the table it works on, what it has read or copied |
| `uploads`, `answered`, `lost`, `chosen`, `mixed` | history variables: uploads so far; what was answered with 200; tables that a cut transform or deletion has lost; the last choice of the primary table; whether requests that do not go together have overlapped |

| code | actions |
|---|---|
| `upload_table`, `materialize_query` | `Upload Create RefreshRead RefreshWrite`, or `CreateError`, `RefreshError` |
| transform, undo, redo, goto | `Transform Prepare TakeTable PutTable Changed RefreshRead RefreshWrite`, or `TransformError` at any step before `RefreshRead` |
| `get_schema` on an empty cache | `Rebuild (RefreshRead RefreshWrite)*` |
| `delete_table` | `Delete Drop Unlist` or `DeleteError`, before the DROP or after it |
| `make_table_primary` | `MakePrimary` |
| `create_relationship`, `delete_relationship`, on threads | `Relate` or `Unrelate`, `ReadRels`, `SaveRels` |
| the process dies | `Crash` |
| Redis is flushed, or was fakeredis and the process restarts | `Forget` |

A transform holds the lock of its table from `Prepare` to `Changed`, takes the
live table out of the catalog and puts another under its name: its own result,
or a copy of a snapshot of the history. When it fails or the process dies in
between, the table is gone; when the history is that of an earlier table of the
same name, undo puts that one there. `lost` names the tables to which this has
happened, and those that a deletion has dropped without taking them off the
list; nothing but a transform or deletion of that very table ever puts a name
there.

`mixed` is what makes the properties sharp instead of vague. The code guards no
overlap at all; some overlaps are harmless and must keep every promise (uploads
with uploads and transforms of any table, a deletion with transforms of other
tables), others are known to lose entries (a deletion writes back the schema it
read before its `DROP`; a transform writes back the primary flag it read before
its refresh). `mixed` becomes true when requests of the second kind overlap, an
upload or a rebuild has failed half way, or an upload takes the name of a listed
lost table, and false again at a rebuild of the cache that runs alone; the
properties say what holds when it is false.

### 2.6 QueryWorker

`QueryWorker.tla` <- `services/query_worker.py` and the execute and websocket
routes of `routers/ai.py`.

| variable | code |
|---|---|
| `job` | `_jobs[query_id]`: running its DESCRIBE or SELECT, or what it ended with, or forgotten |
| `subscribers` | `_subscribers` |
| `socket` | the websocket handlers: where each is, its queue, what it has told its client |
| `size` | history variable: how many rows a query had when it was run |

| code | actions |
|---|---|
| `start_query`, `_run`, `_broadcast` | `StartQuery Describe Select` or `QueryError` |
| `_cleanup_later` | `Cleanup` |
| the websocket route: accept, the look at the job and the subscription, its loop of queue and ping | `Connect Look (Ping Timeout)* Receive Tell` |
| the client goes away, the process dies | `Disconnect`, `Crash` |

`cancel_query` is no action: it interrupts a connection of the session's own,
and none is ever opened, because the context variable that selects it is not
seen on the executor's threads.

### 2.7 TableReads, QualityScan, TableOps

`TableOps.tla` <- what the `SELECT` of each operation in `_compile_op` yields,
on tables whose texts are a core (a word, a numeral, a date, a placeholder) and
how it is written (letter case, separators, padding). An operation yields a
*set* of tables: the empty set is a `TransformError`, and where DuckDB promises
no order of rows (DISTINCT, GROUP BY, a window with a frame) every order is in
the set. Through projections and `WHERE` the order is taken to be kept, which is
DuckDB's default (`preserve_insertion_order`). The texts are made of a constant
set of cores that is closed under dropping special characters (`CoreAssumption`).

`QualityScan.tla` <- `assess_table` of `services/quality_service.py`: the
aggregates of its queries A to D, the findings made of them, their thresholds
and the transforms each finding offers, column by column (`OfColumn`) and for
the table as a whole (`Repeated`). What a finding offers is what its button
opens in the client: a dialog with its parameters filled in (the casts coerce,
`DataQualityPanel.vue`), or an empty one (`AskUser`) for missing values,
whitespace and hidden nulls. `Sent` is what the user may send from it: the fix as
it is offered, or from an empty dialog any strategy, or any choice of
normalizations with at most one placeholder of the column as the token that
becomes null (`OpDialog.vue`, which sends no empty token).

`TableReads.tla` <- the requests that read a table in several statements, with a
transform possible between any two of them. `Turn` is the order in which a
request takes its statements; a statement fails when a column that it names is
gone (`Mentions`) or when one that it computes with has another type than the
schema said (`Uses`). The window is the rows whose place in the order, counted by
how many rows precede them, lies between the offset and the limit.

| variable | code |
|---|---|
| `table` | the rows in DuckDB; each carries an identity that no operation sees |
| `reader` | the one request that reads: its kind and argument, its statements still to come (`todo`), the table each earlier one met (`seen`), the keys of a chart that were chosen (`picked`) |
| `changes`, `edits`, `calm` | bounds, and whether every transform since has left the rows where they were |

| code | actions |
|---|---|
| `get_data`, `assess_table`, `profile_column`, the aggregate chart, `preview_transform` | `Ask Read*`, or `ReadError` when a statement fails |
| transforms of other requests | `Transform` |
| the user takes an offered fix, or fills in an empty dialog | `Fix`, of what is in `Sent` |
| the user edits a cell of the window | `Edit` (`update_cell`) |

### 2.8 Properties and runs

| run | instance | what it checks |
|---|---|---|
| `transform` | 2 requests, 2 contents, cap 3, one fault, one delete, version at most 5; symmetric; 473 thousand states | `HistoryWellFormed`: position inside the list, numbers grow and are used up. `SnapshotsFaithful`: a snapshot that the history names is the state of that step. `CurrentHasCopy`: the current state always has a copy on disk. `UndoIsSafe`: without faults everything undo can reach has its snapshot. `LiveIsCurrent`: without faults and deletes an idle table that is there is the current state of the history. `SavesAreAnnounced`: one bump per change of the history. `ImplementsUndoHistory`: refinement of `UndoHistory`. |
| `transform_live` | cap 2, version at most 3; 132 thousand states, no symmetry | `Answered`: every request ends, so the lock is always given back. |
| `transform_bad_input` | one request at a time, no fault, no delete | violated, see below |
| `transform_reupload` | one request at a time, one delete | violated, see below |
| `lifecycle` | 2 requests at a time, 3 in all, one sweep, two faults, TTLs 1 < 2 < 3 ticks; 256 thousand states, no symmetry | `OnlyIdleIsCondemned`: what the sweep takes for dead is idle, or was left by a deletion cut short. `DataKept`: only the owner's own transforms and deletions of tables take the data of an owner who comes back in time. `DeletedIsGone`: an undisturbed deletion is final. `Reclaimed`: when requests end, the directory goes. |
| `lifecycle_owned` | one request at a time, no fault | violated, see below |
| `lifecycle_revived` | one request at a time, no fault | violated, see below |
| `key_pool` | 2 completions, 3 keys, cap 1, delays 0 and 2, chain pool, bare, pool, one fault; symmetric; 211 thousand states | `CapOvershoot`: overlapping calls exceed the daily cap by one less than there are callers. `NoKeyTwice`: a lap does not call with a key that it benched and that rests. `NoKeyStarves`: the rotation is fair. `SpentMeansSpent`: a model gives up only when no key is free. `GoesForward`: a completion cannot go round for ever. |
| `ask_cache` | 1 session, 1 request to the model, 2 writers, 2 attempts, shapes and announced edits at most 2 and 1, one stored failure at a time; symmetric, with a view; 834 thousand states | `DictionaryIsCurrent`: no answer made with an older definition is given after an edit that was announced. `RanOnCurrent`: while changes are announced, a stored answer has been run on the table as it is, also after versions have started again. `SchemaFits`: and its prompt showed that table, when it was asked for at rest. |
| `schema_cache` | 2 tables, 2 requests, 2 uploads, one pair to relate; requests symmetric, with a view; 1.5 million states | `Acknowledged`: what was answered with 200 goes back to that upload, and is listed, unless a transform of that table is cut or restores an older one. `ListsTheCatalog`: at rest the cache lists the catalog and what was lost, and the primary table is the one chosen. `RelationsHold`: relationships connect listed tables. |
| `query_worker` | 2 queries, 2 sockets, limit 1, up to 3 rows; 91 thousand states, no symmetry | `EndIsHeard`: a waiting socket is subscribed to a running query or has the end in its queue. `ToldTheEnd`: what it is told is how the query ended. `EverySocketCloses`: it does not ping for ever. |
| `table_reads` | tables of up to 3 rows over palettes, one change, two edits; 588 thousand states, no symmetry | `AnswersAreTrue`: histograms, charts, top values and dry runs add up to the table. `FixClears`: a fix that addresses its finding, however late, rids the table of it. `EditHitsItsRow`: a cell edit changes the row the user saw and no other, and moves none. |

Each passing run but `transform_live` also checks the type invariant of its
module.

Why the bounds are enough. Transform: cap 3 with up to four entries reaches the
overflow with a position in the middle; five versions allow an apply that
overflows, an undo, a redo, and a new branch. Two requests give every
interleaving around the lock and the handlers that do not take it; a third
request would wait behind one of them. One fault at any statement is followed by
every short continuation, also by the other request. A delete and an upload can
come between any two statements. Deadlock is not checked there because the
bounds end a run: when the version has reached `MaxVersion` no request may
start. SessionLifecycle: the TTLs only matter by their order, and 1 < 2 < 3
lets a marker that was shortened expire while one that was not is still alive;
three requests are the creation and any two others, which may overlap, and two
faults let a deletion be cut and then a transform or a sweep. The safety
properties have been checked as well with four requests in all and one fault
(599 thousand states up to symmetry) and with two sweeps at once (519 thousand).
KeyPool: three keys are the fewest for which another
completion can move the cursor past a free key; a delay of 2 outlasts a tick and
a delay of 0 is the edge of `max(1, ...)`; cap 1 is the smallest one and lets
both completions hold the same last call.

AskCache: requests to the model meet only in the caches, so one of them against
what earlier ones left there is every case; two writers are needed, since a
transform that overlaps another is what makes a refresh stale. `story` is stored
as `eda` is and `advice` is not stored at all, so three of the five kinds are
enough; the proof has all of them, any number of sessions and of requests.
SchemaCache: two tables distinguish "the same" from "another", two requests are
every pair of overlapping routes, two uploads allow a name to be taken twice and
an undo to reach back to the table that had it before; of the pairs that can be
related one is enough, as the routes treat each pair alike and a deletion of
either table removes it. QueryWorker: limit 1 and sizes to 3 have no row, exactly
the limit, one more, and more than the one row that is fetched beyond it; two
sockets may wait for one query. TableReads: three rows are a pair and one apart;
the palettes hold, for each finding, values that it counts, that it does not,
and that it mistakes; the inductive invariant of the proof has been checked on
the same instance; two bins, one top value and three chart keys are the
smallest numbers with something left over; the columns of missing values pair
placeholders that one token removes with those that it does not (two of them, a
blank, one that only stripping makes blank); the thresholds are the code's but for
the share of nulls (40 instead of 20 percent, as one row of three is 33). One
reader is enough, since readers change nothing.

AskCache and SchemaCache are checked under a view: `MCAskCache` and
`MCSchemaCache` say which states are taken for one, and why no later step and no
property can tell them apart (answers whose versions have been left behind;
primary flags while `mixed` holds; which of several older uploads a table goes
back to). Deadlock is checked for SessionLifecycle,
SchemaCache and KeyPool; in the other runs bounded counters, sockets that are
opened once, or a reader that is done end a behaviour.

Fairness. Transform (`FairSpec`): weak fairness of each request's own steps, as
asyncio runs every ready coroutine and every awaited statement returns; strong
fairness of getting the lock, as `asyncio.Lock` wakes its waiters first come
first served. SessionLifecycle: weak fairness of time, of each request's steps
and of the sweep, which an endless loop restarts. QueryWorker: weak fairness
of each running query, whose statements end with a result or an error (DuckDB
has no lock to wait for, and the code no time limit), and of each websocket
handler, whose wait for the queue times out after a second. No fairness on
requests, faults, deletes, uploads, the cleanup or clients that go away.
`Reclaimed` is about the time after the last request, which the bound on
requests brings about; a client that goes on sending requests keeps the marker
alive, also when they are refused.

`GoesForward` takes the place of a liveness property in KeyPool: attempts and
models are bounded and each answer increases them, so that a completion ends if
the provider, or the time limit of its client library, answers each call.

The four violations are behaviours of the code that its comments exclude.

* `TransformsKeepTable`: apply discards the redo snapshots before it compiles
  the operation and before it saves the history. If the operation is rejected,
  the history still offers the redo; the redo drops the table and then finds no
  snapshot to copy. One client, no fault, four requests: apply, undo, an apply
  with a bad column, redo.
* `UploadStartsHistory`: deleting a table leaves its history and snapshots
  behind, and a table uploaded again under the same name inherits them.
* `OwnedSurvives`: the middleware shortens the marker to 24 hours before the
  request is authenticated; if it is refused nobody makes it 30 days again.
* `AliveIsSpared`: the sweep looks at the marker once and then awaits one DROP
  after the other; an owner who is admitted meanwhile sets the marker again, and
  the sweep removes directory and keys of a session that is alive.

Further divergences were met that no run of this list is for:

* The names of snapshot tables match neither prefix that deletion and sweep look
  for, and `purge_session` does not know `history:*`: both stay for ever.
* `purge_session` takes the versions and leaves what is stored under them: an
  owner who comes back is served SQL and overviews over tables that are gone
  (`Purge` in AskCache).
* A definition is written and its version raised by two calls; when the second
  does not happen, answers made with the old definition are still given
  (`InstructCut`).
* A column with two different placeholders, or with a blank, keeps its
  `hidden_null` after the fix (`Addresses`): the token is one exact text and
  cannot be empty.
* A rate limit of a provider without a pool escapes the chain of models
  (`BareRateLimited`), and a lap of a pool may end with keys free again.
* Between the bump and the end of the refresh, a question is answered from the
  old schema and stored under the new version; an upload, materialize or delete
  is not announced at all. This is why `SchemaFits` speaks of requests at rest.
* `query:{hash}:{sv}:{bv}` does not name the session, so two sessions with equal
  versions share answers (`Fresh` in the properties is about a session's own).
* `_classify_db_error` is called and not defined (`DryRunError`).
* A choice of the primary table during a transform's refresh is lost, and
  `delete_table` writes back a schema that is older than its DROP (`mixed`).
* `cancel_query` has no effect.
* The scan folds 'u.p.i' and 'upi' together but not 'u p i', unlike its comment.
* Two uploads of one name write the same file before the second is refused.

### 2.9 Proofs

`TransformProofs.tla` proves, for any set of requests and contents, any cap of
at least 2 and any bounds, and for unboundedly long runs:

* `TypeCorrect`: `Spec => []TypeOK`
* `HistoryIsWellFormed`: `Spec => []HistoryWellFormed`
* `SnapshotsAreFaithful`: `Spec => []SnapshotsFaithful`
* `CurrentStateHasCopy`: `Spec => []CurrentHasCopy`
* `MutualExclusion`: the lock is held exactly by a request inside its critical
  section

The invariants are not inductive by themselves: while a request holds the lock
its private history `mem[c]` is ahead of the saved one, and what it will save
has to be well formed and covered by snapshots already. The inductive invariant
`IInv` adds `LockInv` (the holder is the one client in a critical step), `Fresh`
(a history without entries is the empty one) and `Holding`, which says for each
program counter how the holder's history relates to the saved one: equal to it
at the start and, but for the position, during a restore; no longer than the
part up to the saved position while the operation is compiled and the table is
swapped; faithful to the snapshots and ordered throughout, with its last state
on disk before the cap is enforced. The proof has one lemma per group of
actions, then `Init => IInv`, `IInv /\ [Next]_vars => IInv'` and `IInv =>` each
property.

`SessionLifecycleProofs.tla` proves `LifecycleTypeCorrect`, `CondemnedAreIdle`
(`OnlyIdleIsCondemned`), `DataIsKept` (`DataKept`) and `DeletedStaysGone`
(`DeletedIsGone`), for any number of requests, sweeps and faults and any TTLs in
the right order. Its `IInv` adds: `Covered`, what is left of the TTL and what has
gone by since the owner was admitted make up a SessionTTL as long as the
directory exists (this is what every touch, refresh and tick keeps), unless a
deletion has torn the marker off; `Unborn`, nothing exists before the creation;
`Unknown` and `Deleting`, the session is used by nobody else while it is created,
and who takes it apart has said so; `Safe`, while the owner keeps coming back no
sweep is past its judgement, no deletion is under way, and directory, schema and
first table are there but for a replacement under way or a loss of the owner's
own making; `Alone` and `Done`, an undisturbed deletion is the only request past
the guard, has seen every table that it has to drop, and leaves nothing behind
that another step puts back. First come lemmas that classify the steps by what
they do to the marker, the stores and the program counters; then one lemma per
conjunct.

`KeyPoolProofs.tla` proves all properties of `key_pool`, for any number of
completions and keys, any chain, cap and delays: `KeyPoolTypeCorrect`,
`CapIsNearlyKept`, `NoKeyIsTriedTwice`, `RotationIsFair`, `SpentIsSpent`,
`CompletionsEnd`. The inductive invariant adds `Near` (how often a key has been
passed over, and its distance from the cursor, together stay below N; lemma
`Closer` is the step of the argument) and `Running` (a completion under way has
a model, an attempt and an error of the chain). `AllBenched` is the pigeonhole
behind `SpentIsSpent`: N attempts with N different keys that still rest have
benched them all.

`UndoProofs.tla` builds on `TransformProofs` (each of its steps has `IInv` and
`IInv'` at hand) and proves the rest of the transforms' safety, with one lemma
per group of actions:

* `EverySaveIsAnnounced` (`SavesAreAnnounced`) from `Announced`: the saves that
  have no bump, but for the one that is due at step "bump", are at most as many
  as the faults.
* `LiveStaysCurrent` (`LiveIsCurrent`) from `Whereabouts`, which holds as long
  as there was neither fault nor delete: the table is listed and nobody is
  deleting or uploading it; it is missing exactly between drop and rename or
  copy; once swapped it is the state that the holder of the lock is going to
  save; and at every other step it is the state that the saved history points at.
* `UndoStaysSafe` (`UndoIsSafe`) from `Undoable`, without faults: the entries
  with a snapshot are a prefix of the list, except while redo snapshots are
  dropped or the cap is enforced; everything up to the position has its snapshot,
  except the oldest during the cap; and all that a transform has in
  memory has one.
* `HistoryIsAnUndoList` (`ImplementsUndoHistory`), the refinement, from
  `Growing`: the history in memory is the saved one up to its position (or the
  fresh state), then that with one new state and without the oldest when they
  are too many. So a save after an apply is `First` or `Do` of `UndoHistory`
  (lemma `ExtendedIsKept` is about `KeepLast`), a save after a restore is `Move`,
  and every other step stutters.

`AskCacheProofs.tla` proves `AskTypeCorrect`, `DictionaryStaysCurrent`
(`DictionaryIsCurrent`), `AnswersRanOnCurrent` (`RanOnCurrent`) and `SchemasFit`
(`SchemaFits`), for any sessions, requests and writers and any kinds of
question. Its `IInv` adds `Counted` (a version is never ahead of the changes, and
one transform at a time is between its change and its bump, which is what keeps
a version that has started again from being raised twice for one change), `Calm`
(a session at rest has its table described as it is, and a change that has been
alone has read it so), `Stored` and `Noted` (what each stored answer that was not
purged promises about the versions it is stored under, and that it is under none
to come) and `Pending` (what an answer that is still being made has to promise so
that it may be stored). `Purge` is the only step that lowers a version, and it leaves
no answer of its session with a promise to keep.

`SchemaCacheProofs.tla` proves `SchemaTypeCorrect`, `AcknowledgedIsKept`
(`Acknowledged`), `CacheListsTheCatalog` (`ListsTheCatalog`) and
`RelationsStayHeld` (`RelationsHold`), for any tables, pairs, requests and number
of uploads. `Held` says what each transform under way has copied, and that no history names a
table that never was. `Kept` says that an acknowledged
table that is not lost is in the catalog as it was uploaded, or taken by a
transform; `Unmixed` what holds until requests that do not go together meet: what
each request has read still fits the stores, which requests can be under way
together, and from these what the cache lists, which table is the primary one,
and what relationships connect. One lemma per action.

`QueryWorkerProofs.tla` proves `WorkerTypeCorrect`, `EveryEndIsHeard`
(`EndIsHeard`) and `SocketsAreToldTheEnd` (`ToldTheEnd`), for any queries and
sockets, any limit and sizes. Its `IInv` adds `Subscribed` (subscribers are
kept only of jobs that are kept), `NotEarly` (no end in a queue before the job
has ended) and `Reported` (what a queue holds or a socket was told is how the
job ended).

`TableReadsProofs.tla` proves `TypeCorrect` (`TypeOK`), `EditsHit`
(`EditHitsItsRow`), `AnswersTrue` (`AnswersAreTrue`) and `FixesClear`
(`FixClears`), for any tables, columns and rows, any operations that the request
models admit, any windows, limits, bins, thresholds and numbers of transforms and
edits. Three groups of lemmas come first. *Tables*: what each operation of
`TableOps` yields is a table, all its outcomes have the same number of rows, and
those of `KeepsRows` leave every row in its place (`SelectedFacts`, from one lemma
per operation). *Sums*: the counts by a function's values add up to the number of
elements, whichever the function (`TotalOfFibres`, by a bijection, as the prover
cannot do induction over data). *Texts*: what rewriting twice does
(`TrimmedTwice`, `FoldedTwice`, `SweptTwice`).

The properties are not inductive: a histogram adds up because of what statements
before it have seen, and an edit is safe because of what was true when the window
was read. `IInv` adds `IsReader` (statements are met in their turn, each with a
table), `Progress` (which statements a request of each kind has met or will; a
histogram is only drawn of a column that was a number in the schema, that held
two different numbers when the bounds were computed, and that is a number when
the bins are counted; the keys of a chart are the first of those that its
statement saw) and `InPlace` (while `calm`, the rows are where they were when the
window was read). `AnswersTrue` follows state by state. `FixesClear` does not
depend on what a scan saw when: every finding offers certain operations
(`FixesOffered`), from which certain others are sent; of an undisturbed scan it
means something definite of the table (`FindingsMean`: a column with blanks
around a value, fewer values after folding than before, fewer distinct rows than
rows, ...), and what the operation leaves contradicts that. For the dialogs that
open empty the contradiction needs what `Addresses` says of the choice: trimming
or collapsing for whitespace; for hidden nulls, that the token and whatever else
was chosen make null of every placeholder that the column holds when the fix is
applied.

The assumptions are those of the modules, which TLC evaluates in the runs: the
transforms' cap is a natural number of at least 2; `NoTable` and `NoClient` are
no contents and no request; requests and sweeps are different things; 0 < Grace
< SessionTTL < OwnedTTL; there is a key, a caller (finitely many) and a model;
the kinds of question are some of the five, and at least one attempt is made;
the pairs that clients relate are pairs of tables; the dialog's letter cases are
those of the code;
the table that a session is created with is a table and `NoTable` is none; the
tables a user may start from are tables, the operations are those that the
request models admit, edits write what a cell can hold, the chart's limit, the
number of bins and that of top values are positive, and cores stay cores without
their special characters; and the bounds are natural numbers.

Model-checked only: `Answered`, `Reclaimed` and `EverySocketCloses` (liveness
under fairness, which is beyond this prover), and the four violations. Every other
property of every passing run is a theorem. Where a library operator is defined by
recursion (the sums of `IsOutlier`) nothing is proved of its value, and nothing
needs to be: whichever flag it yields, the result is a table.

## 3. Plan

Done, in this order: `Transform` with `UndoHistory` (and their proofs),
`SessionLifecycle`, `KeyPool`, `SchemaCache`, `AskCache`, `QueryWorker`, and the
requests that read (`TableReads`, `QualityScan`, `TableOps`). The proofs of the
plan are complete: every safety property of the passing runs, and the
refinement.

What was weighed and not written:

* `ClientSession`, answers in flight in the browser against switches of session,
  table and user. The server came first; the hazards in `useSession.ts` and
  `useAuth.ts` are listed without a property.
* The reset token and the rate counter: one row and one counter, each with a
  check followed by a write; the hazards are listed without a property.
* The validator: a walk over sqlglot's syntax trees, where what could be wrong
  is a fact about sqlglot and not about an order of steps.
* Compositions. The components share few variables, and each module has the
  steps of the others that matter to it (the writers of `AskCache`, the refresh
  after a transform in `SchemaCache`, delete and upload in `Transform`, the
  transforms between two statements in `TableReads`).

## 4. Not modelled

Parsing, rendering and wording: prompts and how the model's answers are parsed,
the SQL text that is generated (`TableOps` has what it yields), logging,
responses. The LLM is a choice of outcomes. The Vue components and the client's
state.

Of the requests that read tables: scatter and box plots, cross-filters,
heat-map ranges, distinct values, the search term and the export; aggregates
other than those of the modelled charts; `DESCRIBE` and the sample rows of the
dry run. Of the operations: find and replace, padding, quantile bins, regular
expressions, formulas beyond a copy or a comparison with zero, and cast targets
other than numbers and dates; the bins of a column with a single number are left
to DuckDB.

Of the components that are modelled: relationships that expire after seven days
without a change, the size of the thread pool, `alias_service.py`, the admin's
reports, and the in-memory Redis used outside production.

The rate limiter, the SQL validator, authentication, and `services/app_db.py`
with the dashboards, which are CRUD on single rows. `schedule.py` and the
admin's kill-query are stubs. Migrations, middleware other than the one that
touches the marker, build files and tests.
