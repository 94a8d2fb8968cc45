# Verification of postgres-mapepire-proxy

The proxy speaks the PostgreSQL wire protocol to its clients and runs their SQL
on IBM i through Mapepire `SQLJob` connections. Many logical PostgreSQL sessions
share few jobs: in the default `transaction` lease mode a session holds a job
while a statement or an explicit transaction runs, and no longer. That sharing
is the core of the program and what this project verifies first: that sessions
stay isolated, that transactions stay atomic and pinned to their job, and that
the pool never loses, leaks or shares a job, whatever fails and whenever a client
disconnects.

## 1. Inventory

| Component | Source (`src/src/`) | State | Operations | Interacts with |
|---|---|---|---|---|
| Job pool | `mapepire/session-pool.ts` | `idle`, `leased`, `all`, `waiters`, `creating`, `ending`, capability cache | `init`, `acquire`, `release`, `invalidate`, `prepareSchema`, `end` | sessions (calls), Mapepire (`connect`, `execute`, `close`), timers |
| Session | `proxy/session.ts` | `job`, `inTransaction`, `transactionFailed`, `closed`, current schema, prepared statements, portals, `extendedError`, `frontendBuffer`, DDL registries | `handleRaw` and a handler per message, `ensureBackendJob`, `executeSql`, `releaseBackendIfIdle`, `close` | the pool, the job, the socket, advisory locks |
| Schema capabilities | `mapepire/schema-capabilities.ts` | none (the pool caches) | three catalog queries | the job |
| Search path | `sql/search-path.ts` | none | parse and select a schema | the session |
| Advisory locks | `sql/advisory-lock.ts` | `heldLocks`, for the whole process | try, unlock, release all | sessions, `close` |
| Connection lifecycle | `server.ts` | `clients`, `sessions`, per socket `session`, `finalized` | connection, authentication, data, close | sessions, sockets |
| Shutdown | `index.ts` | `shuttingDown` | signals, `shutdown` | server, sessions, pool |
| Wire framing | `postgres/wire.ts` | none (the session keeps the buffer) | cut messages out of chunks, encode | session |
| Statement kinds | `sql/transactions.ts`, `sql/classifier.ts`, `sql/prepared-control.ts` | none | recognise commands | session |
| DDL registries | `sql/column-rename.ts`, `sql/ddl-foreign-key.ts` | tables and column types seen in the session, snapshots of a transaction | register, begin, commit, roll back | session |
| Translation, LOB index policy | `sql/translator.ts`, `sql/parser-sdk.ts`, `sql/lob-index.ts` | none | rewrite SQL | session |
| Catalog emulation | `sql/catalog.ts`, `sql/environment.ts`, `sql/pgadmin*.ts`, `sql/sqlalchemy-reflection.ts` | OID registries | answer catalog queries | session, the job |
| The rest | `config.ts`, `logger.ts`, `health.ts`, `mapepire/sdk.ts`, `mapepire/object-stabilization.ts`, `postgres/oids.ts`, `postgres/gateway-connection.ts` | settings | | |

What is hard. The program runs on one thread, so the steps that interleave are
the stretches between two `await`s. A session handles its messages one after
another, yet the socket's `close` event runs `close()` in the middle of any of
them. The pool's calls suspend while connections are made, cleaned and closed.
Jobs break; `acquire()` times out; `end()` comes in the middle of everything.

What makes each component correct:

* pool: one owner per job; the cap counts reservations; no caller waits while a
  job is idle; waiters in order; no state of a client reaches the next one;
  every waiter is served; nobody waits after `end()`;
* session: its SQL runs in its own schema; one session's requests on a job at a
  time; no partial commit; a transaction keeps its job and its outcome is what
  the client was told; jobs come back whatever fails; every command ends;
* advisory locks: one holder, reentrant counts, nothing held by a dead session;
* lifecycle: the client count is exact, every session that starts is closed;
* search path: `SET LOCAL` ends with the transaction; the capability cache is wrong
  only about what the proxy could not see;
* extended protocol: one ReadyForQuery per request, `Sync` always recovers, rows are
  those that were described, every handler that needs a job has one, no portal
  loses its statement;
* framing: the messages cut do not depend on how the bytes arrive;
* DDL registries: what is remembered of a table is what Db2 has, through
  transactions and savepoints; no decision on a table is taken from anything else;
* catalog emulation: a query reaches the answer it is for, an answer is about the
  schema that was asked for, an index is shown with its keys.

`PROJECT.json` lists the hazards of the code one by one, each at its line.

## 2. Modules

| Module | What it is |
|---|---|
| `JobLeases` | abstract specification: leases of jobs to callers, no queue and no `await` |
| `SessionJobPool` | the pool; implements `JobLeases` |
| `ProxySession` | sessions that share jobs, their transactions and failures; obeys `JobLeases` |
| `AdvisoryLocks` | the registry of advisory locks |
| `ServerLifecycle` | connections, their sessions and shutdown; composed with `AdvisoryLocks` |
| `WireFraming` | how a stream of bytes is cut into frames |
| `ExtendedProtocol` | the handlers of the simple and the extended protocol |
| `FrontendConnection` | the stream and the handlers of one client; composes the two above |
| `SchemaPath` | search_path and the shared cache of schema capabilities |
| `DdlRegistries` | what a session remembers of the tables it created |
| `CatalogBrowser` | the schema list and the OIDs clients were told; extends the two above |
| `CatalogRouting` | which adapter answers a catalog query |
| `CatalogReflection` | rows of several Db2 catalogs put together |
| `SessionState` | the commands of a client on all that; composes the five above |
| `SessionJobPoolProofs`, `JobLeasesProofs` | theorems about the pool and its contract |
| `ProxySessionProofs`, `ProxyTransactionProofs` | theorems about sessions: under every disconnect, and between commands |
| `FrontendConnectionProofs`, `FrontendStreamProofs` | theorems about a connection: its handlers, and its stream of frames |
| `ServerLifecycleProofs`, `SessionStateProofs` | theorems about the other two compositions |
| `MCSessionJobPool`, `MCProxySession`, `MCServerLifecycle`, `MCFrontendConnection`, `MCSessionState` | symmetry sets and frames for TLC |

A session is modelled from three sides. `ProxySession` has its awaits and what they
do to other sessions; `ExtendedProtocol` its messages, one step each, because
`handleRaw` chains them; `SessionState` its commands, one step each, with what
they leave in the session and in Db2. `closed` and the transaction status are in
all of them; a whole model of a session would multiply the awaits of the first by
the data of the others without a property that needs both.

`ProxySession` is not composed with the whole pool. It sees a pool that may hand
out any job that nobody holds and whose release is over, which `SessionJobPool`
refines, and sends itself the two statements of `release()`, because where they
stand in the job's queue decides what a disconnect does. `JobLeases` joins the
two: the pool implements it and the sessions, when clients disconnect between
commands, use it only as it allows (`ObeysLeases`).

In each module a definition that carries the name of a bug (`PeekIdle`,
`AlwaysAccepting`, `SchemaTrusted`, ...) stands just before the one it varies;
`Next` does not use it. `PROJECT.json` pairs it with the property it breaks.

### SessionJobPool

The variables `idle`, `leased`, `all`, `waiters`, `creating` and `ending` are
the fields of the class. `pc[c]` is the `await` at which caller `c` is suspended and
`job[c]` the `SQLJob` it refers to. `open` and `dirty` are the backend's side:
which jobs are connected and which carry state of a client. `closing` and `ended`
follow `end()`.

| Code | Actions |
|---|---|
| `acquire()` | `AcquireRefused`, `AcquireIdle`, `AcquireConnect`, `AcquireWait`, `WaitTimesOut` |
| `connectJob()` in `acquire` and `invalidate` | `Connected`, `Configured`, `Replaced`, `ConnectFails` |
| `release()` | `Release`, `ReleaseUnknown`, `Cleaned`, `Closed`, `CleaningFails` |
| `invalidate()` | `Invalidate`, `CleaningFails`, `Discarded`, `Replaced` |
| `end()` | `End`, `EndResolves` |
| SQL of the session | `Use` |

A job identity is reused when nothing refers to it any more, so `Jobs` bounds the
number of `SQLJob` objects alive at one time. `init()` is the initial state:
nothing else runs before it has resolved.

### ProxySession

`job`, `inTx`, `failed` and `closed` are the fields of each session; `pc` and
`cmd` say which command runs and where it is suspended. `queue[j]` is the requests
job `j` has not answered, `schema[j]` and `work[j]` its current schema and the
sessions with uncommitted work in it, `broken` the jobs that are gone. `Gone` stands in
`work[j]` for what was done for a client that had disconnected before: the CREATE SCHEMA
of a `prepareSchema` that goes on with the job it captured (`CreatesSchema`). `erred`,
`acked` and `kept` record what clients were told and what Db2 committed; only
properties read them.

| Code | Actions |
|---|---|
| `handleMessage`, `frontendMessageNeedsBackend` | `Handle`, `Checkout` |
| `ensureBackendJob` | `Acquired`, `AcquireFails`, `PrepareGoesOn`, `Prepared`, `Replayed`, `Settled`, `CheckoutFails` |
| `executeSql` up to its first `await` | `Dispatch` in `Handle` and `Settled` |
| `applySearchPath`, with its own `prepareSchema` | `PrepareGoesOn`, `PathPrepared`, `PathSet`, `Read`, `ReadFails` |
| catalog queries | `Read`, `ReadFails` |
| statement, autocommit, rollback | `Executed`, `ExecuteFails`, `Autocommitted`, `AutocommitFails`, `Undone` |
| COMMIT, ROLLBACK | `TransactionEnded`, `EndingFails` |
| savepoints | `Marked`, `MarkingFails` |
| `releaseBackendIfIdle`, `release()` | `Finish`, `RolledBack`, `SchemaReset`, `ReleaseFails` |
| `close()` | `Close` |
| environment | `Connect` (a new client), `Break` (a job is lost), `Replace` (the pool's new job) |

A command is one of twelve kinds, which are the branches `executeSql` tells apart;
each may come as a Query or through the extended protocol, which differ in
whether they take a job. Abstractions:

* lease mode `transaction` (the default) and `MAPEPIRE_RECONNECT_RETRIES=0` (the
  default);
* every session has one schema for its life: `SET search_path` has its awaits and
  statements here, and asks for that schema again; which schema is chosen, and the
  restore of a SET LOCAL at the end of a transaction, are in `SessionState`;
* the pages of a fetch, the attempts of the object stabilization retry, the
  several reads of a catalog query and the two statements of CREATE SCHEMA with its
  inspection count as one statement; `prepareSchema` as any number of them, any of
  which may be a CREATE SCHEMA outside a transaction;
* a Simple Query holds one statement; the batches pgAdmin sends are left out;
* a job answers its requests in the order they were sent. This is an assumption
  about Mapepire, which runs the requests of one connection on one IBM i job. A
  request to a lost job is answered by an error;
* ROLLBACK fails only on a lost connection, and a job that loses it has its work
  rolled back by Db2;
* after `close()` the identity of a session is taken by a new client when
  nothing of the old one is left in any queue.

### ServerLifecycle and AdvisoryLocks

`clients` and `sessions` are those of `createPgServer`; `bound`, `finalized` and
`startup` are the variables of one connection's closure and the progress of its
`onAuthenticated` callback, `cleaning` an `await` in `cleanup`. `session[c]` is
the `closed` flag of the session; leases are left to `ProxySession`. `phase`, `current`
and `visited` follow `shutdown()`. `held` is `heldLocks`; `believed` records the
answers the clients got and only a property reads it.

| Code | Actions |
|---|---|
| `createServer` callback | `Accept`, `TooManyClients` |
| authentication, `onAuthenticated` | `NeverStarts`, `Authenticated`, `Initialized`, `InitializedTooLate`, `Dropped`, `StartupFails` |
| socket events, `finalize`, `cleanup` | `Leave`, `SocketClosed`, `CleanedUp` |
| lock statements, Terminate | `LockCommand`, `Terminate` |
| CREATE SCHEMA batch with a lock statement | `BatchStarts`, `BatchGoesOn`, `BatchFails` |
| `shutdown` | `Signal`, `ShutdownCloses`, `ShutdownClosed`, `PoolEnding`, `Exit` |

A TLS connection has two sockets and may emit two `close` events (`half`). A batch
is the one kind of query in which a lock statement runs after an `await`; only
the clients in `Batchers` send it, so the other clients show what holds without.
A connection identity is reused when nothing of the old connection is left.

### FrontendConnection, ExtendedProtocol and WireFraming

`prepared`, `portals`, `extendedError` and `closed` are the fields of a session, `tx`
is `txStatus()`, `pinned` whether an open transaction holds a job; `last` and `out`
are the message handled last and the reply to it, which the properties are about.
`buffer` is `frontendBuffer`, `inbox` the frames of the chunk being handled, `wire`
the bytes under way, `sent` what the client wrote and nobody handled.

| Code | Actions and operators |
|---|---|
| `consumeFrontendMessages` | `Consume`, `Scan` |
| `handleRaw`, the chain of chunks and its loop | `Receive`, `Dispatch`, `HandleMessage`, `Quietly` |
| `handleMessage`, the catch of `handleRaw`, the lease around it | `Handle`, `Settle`, `Answer` |
| `frontendMessageNeedsBackend`, `queryNeedsBackend` | `PortalNeedsBackend`, `ExecuteNeedsBackend`, `QueryNeedsBackend` |
| `parse`, `bind`, `closePrepared`, Flush | `Parse`, `Bind`, `Close`, `Flush`, `Garbled`, `Unsupported` |
| `describe`, `materializeReadPortal` | `DescribeStatement`, `DescribePortal` |
| `executePortal` | `ExecutePortal`, `RunPortal`, `Replay` |
| `executeSql`: owner, savepoints, CREATE SCHEMA; the rest; DEALLOCATE | `ExecuteFirst`; `ExecuteSql`; `Deallocate`, `DeallocateAll` |
| the `catch` blocks of `executeSql`, and where there is none | `Failures`, `DbError` |
| `simpleQuery`, its batches | `SimpleQuery`, `ExecuteBatch` |
| Sync, Terminate, `close()` | `Sync`, `Shut` |

A handler is a set of outcomes: what it sends, what it leaves in the maps and the
transaction, whether it throws; `Settle` adds what `handleRaw` makes of that. The
text of a statement is its kind, one for every way in which the proxy treats text (the
head of the module lists them), the columns of a result are a shape. The kinds follow the
order of the tests: `ComesFirst` are those that `executeSql` handles before it looks at
a failed transaction, among them savepoints, and `ROLLBACK TO` is one of its own because
`queryNeedsBackend` takes it for a ROLLBACK. Abstractions: parameters and result formats
(`Bind` may refuse), the row limit of `Execute` (an unlimited fetch), TLS; whether a
savepoint exists is left to Db2, which may refuse; a batch has two statements, one of
which leases a job unless the batch is CREATE TABLE DDL in a failed transaction, and
`SQL_ALLOW_MULTI_STATEMENT` is off (the default); a batch whose second statement is the
first that is not a catalog query has the outcomes of `others`, its catalog reads
counting as the error they may end in.
A byte of the stream is a record that says what a parser would read at its place,
so that a stream cut at a wrong place yields frames nobody sent.

### SessionState, SchemaPath and DdlRegistries

`current`, `restore`, `cache`, `types`, `defs` and `snapshot` are `currentSchema`,
`localSchemaRestore`, `schemaCapabilityCache` and the fields of the registries;
`exists`, `db` and `base` are Db2, with the uncommitted work of the session (`mine`, `db`)
and without (`exists`, `base`). `intended`, `excused`, `outdated`, `drifted` and
`misjudged` are read by properties only: the schema the client asked for, and for
which schema or table something happened that no handler of the proxy looks at.

| Code | Actions and operators |
|---|---|
| `ensureBackendJob`, `prepareSchema`, `inspectSchema` | `Lease`, `Prepare`, `Leaves`, `CheckoutFails` |
| `applySearchPath`, RESET, set_config | `SetPath`, `SetRefused` (action `SetSearchPath`) |
| `restoreLocalSearchPath` | `RestorePath` in `Commit`, `Rollback` |
| `executeCreateSchema`, `invalidateSchemaCapabilities` | `CreateSchema`, `CreateSchemaFails` (`MakeSchema`) |
| `registerCreateTable`, `alignCreateTable` | `Creates`, `AlignedType` (`CreateTable`, `CreateChild`) |
| `registerAlterAddColumn`, ADD COLUMN NOT NULL | `AddsColumn` (`AddColumn`) |
| `registerAlterSetDataType`, `invalidateAlterSetDataType` | `SetsDataType` (`SetDataType`) |
| `planRename`, `commitRename`, `renameColumn`, `renameTable` | `RenamesColumn`, `RenamesTable` |
| `decideLobIndexCompatibility` | `TypeForIndex`, `IsLob` (`CreateIndex`) |
| `beginTransaction`, `commitTransaction`, `rollbackTransaction` | `BeginDdl`, `CommitDdl`, `RollbackDdl` |
| other sessions, other users | `OtherInspects`, `OtherFills`, `SchemaChanges`, `TableChanges`, `OtherBrowses` |

A command is one step; a failure of each of its Db2 statements is a case of it, and
what is committed up to there stays. An inspection by another session is two steps
(`OtherInspects`, `OtherFills`), so that its answer may be late. `ADD COLUMN NOT NULL`,
which the proxy does by CREATE OR REPLACE TABLE from the live definition, has the
effect of ADD COLUMN; constraints, keys and defaults of tables are left out, so a
definition is the types of its columns.

### CatalogBrowser, CatalogRouting and CatalogReflection

`listed` is the session's `schemaCache`, `registry` the tables and views with an entry in
the process's OID registries. `told` and `created`, the OIDs clients got and the
schemas the session made, and `misled` are for the property.

| Code | Actions and operators |
|---|---|
| `executeSql` from `parseSetConfigSearchPath` to the firewall | `Route` |
| `resolveSynthetic`, the order of the adapters | `Adapters`, `Synthetic`, `AfterAdapters` |
| `classifySqlAlchemyReflectionQuery`, `classifyPgAdmin...` | `SqlAlchemyRules`, `SchemaRules`, `ChildRules`, `ViewRules`, `TableRules` |
| `pgAdminCompatibilityQuery`, `syntheticCatalog`, `containsUnhandledPostgresSystemSql` | `GenericRules`, `TypeRules`, `Unhandled` (`LeftOver`) |
| the patterns of set_config for the search_path | `PathLiteral` (`pgadmin.ts:52`), `PathSchema` (`parseSetConfigSearchPath`) |
| `resolveSynthetic`, branch by branch | `BrowseSchemas`, `BrowseTables`, `BrowseViews`, `Children` (`BrowseCatalog`) |
| `resolveSqlAlchemyReflection` | `Reflect` |
| `fetchIbmiSchemas`, `fetchIbmiTables`, `fetchIbmiViews`, `registerIbmi...` | `Rows`, `TablesOf`, `ViewsOf`, `Registers` |
| `fetchIbmiIndexes`, `mapIbmiIndexRows`, `renderSqlAlchemyIndexes` | `Indexes`, `WithSysKeys`, `WithNative`, `Shown` |
| `fetchIbmiForeignKeys` | `ForeignKeys` |

A regular expression is a pattern that a text has or has not, so a query is a set of
patterns and an adapter a list of rules; the queries are those of pgAdmin and
SQLAlchemy that the tests hold. A set_config of the search_path has two patterns, the
second of which needs more than the first: it is the whole statement with a literal value
(`PathLiteral`), and that value names a schema or is empty (`PathSchema`). Only the second
is carried out; the first keeps `pgAdminCompatibilityQuery` from answering, safety
net included, and leaves the statement to the firewall of `executeSql` or to Db2. A
set_config with a parameter, with an expression, or in the middle of a text has neither,
and goes where any function of `pg_catalog` goes.
`environmentQuery` answers single scalars before any adapter is asked and is left
out of `Route`, as are the scalars and monitoring views among the generic answers that
name nothing in `PgOnly`. OIDs do not collide. Rendering the rows is layout.

## 3. Runs

| Run | Instance | Shows |
|---|---|---|
| `pool_safety` | 4 callers, 4 job identities, sizes 1 to 2 | the safety properties of the pool and the refinement of `JobLeases` |
| `pool_liveness` | 4 callers, 2 jobs, no failures | every queued `acquire()` is served |
| `session_safety` | 2 sessions, 2 jobs, all commands, disconnects between commands | isolation and atomicity |
| `session_disconnects` | 2 sessions, 1 job, three commands, disconnects at any await | no orphaned work, commands end |
| `server_safety` | 3 connections, limit 2, 1 key held up to twice, one client sends batches | client count, locks, nothing left behind, shutdown |
| `protocol` | 1 client, every kind of Query and batch, three kinds of prepared statement, 2 shapes, 1 statement name, 1 portal, 2 frames in flight cut at any byte | replies, portals, a job for every handler that uses one; framing: the frames in their order, none left whole in the buffer, a bad length found for good; every Sync is answered |
| `session_state` | 2 schemas, 2 tables and a view in each, 2 columns, 2 types, any 4 commands | search_path, caches, registries, catalog answers |

Bounds. Two of four callers can wait behind two leases, which the order of the
queue needs; the maximum of two over a starting size of one lets `invalidate()` both
replace and not replace; two spare identities let discarded jobs close while
new ones connect. Two sessions are what isolation is about, and one job makes
every session meet what the other left; the second job of `session_safety` lets
both hold one at a time and one break. Three connections exceed the limit of two,
so one is turned away or reuses the place of another; two holds tell counting
from a flag (`MaxHolds` bounds the count). No counter is unbounded: `creating` is
bounded by the callers and the queues of the jobs by the awaits of the sessions.

The handlers look at one statement and one portal at a time, and what they decide
depends on kind, portal and transaction state only; a second name adds statements that
nobody touches. A Query is of every kind, so that no lease decision is left out. The
prepared statements are of three kinds that Describe tells apart: one whose result is
fetched when it is described, one that the proxy answers by itself, and one that is
described as without rows and sends some; the theorems are about all kinds. Two shapes
tell the result that was described from the one a later execution has. Frames
are three to five bytes, so two of them can be cut in the middle of a header, of a
body, or one with the end of the other; the frame above `MaxFrame` and the one
whose length is too small take the two ways a stream gets stuck.

Four commands (`MaxCommands`) are what the longest story of `session_state` needs:
BEGIN, a statement, a savepoint's or transaction's end, and the command that shows
what is left. At most two of them work on tables (`MaxStatements`), which is a
registration and a decision by it. The two schemas let a name mean two tables, the
two types are one Db2 indexes and one it does not. `CatalogReadsAreRight` depends on
no state; it enumerates every nesting of five macros in the queries, every two patterns
of the firewall with each form of a literal set_config, every gap in three catalogs of two indexes, and three rows of foreign
keys.

With disconnects at any await two sessions and one job already make the longest run,
and liveness is checked without symmetry, so the commands of `session_disconnects` are
chosen by the awaits they come to: `begin`, `sql` and `searchPath` reach every await but
`marking` and `ending`, whose answer ends the command at once. `NoOrphanWork` is proved
for all twelve.

Fairness. `pool_liveness` assumes that connections and statements settle and
callers give jobs back, and excludes failures, timeouts and shutdown, under which
being served is not promised. `session_disconnects` assumes that every request is
answered or fails with its job, that the acquire timer (`acquireTimeoutMs`) fires,
and that `prepareSchema()` has finitely many statements, which is why answers
are strongly fair against the action that issues another one. `protocol` assumes
that Node delivers the bytes that arrived (`ReceiveSome`) and that a handler ends
(`Dispatch`), because every Db2 request is answered or fails; clients owe nothing.

Deadlock is checked in every run: the actions that refuse an `acquire()` of an ending
pool and that accept new clients keep the systems going. The exception is
`ServerLifecycle`, where the process exits, and `SessionState`, whose commands are
bounded.

### Where the code and its documents part

| Run | Says | Counterexample |
|---|---|---|
| `pool_waiters` | docs/DEPLOYMENT.md:280, `waiters > 0` means the pool is exceeded | a caller queues while another connects; the connection fails, its slot is free and nobody is woken |
| `session_concurrent` | docs/CONFIGURATION.md:97, a job is never used concurrently | the client leaves during the checkout; `close()` releases the job, the next session gets it, and the checkout goes on with SET CURRENT SCHEMA and COMMIT |
| `session_error_state` | docs/TECHNICAL_SPECIFICATION.md:119, an error in a transaction sets `E` | BEGIN, then a statement whose checkout fails |
| `session_rollback` | diagrams/transaction-state.mmd:9, ROLLBACK leads to Idle | ROLLBACK on a lost job throws before the state is reset |
| `server_locks` | docs/BUILD_FIX_0.1.20.md:20, closing the session releases its locks | the socket closes between the two statements of a CREATE SCHEMA batch; the second takes a lock for the closed session |

Because of `session_concurrent`, the other isolation properties are claimed under
`MidCommand = FALSE`: when clients may disconnect in the middle of a command,
`OwnSchema`, `NoPartialCommit`, `WorkIsPinned` and `ObeysLeases` fail for the same
reason, and `IdleHoldsNoJob` because `close()` during `acquire()` leaves a job
with a session that gives it back only when its command ends, or, in a
transaction, never.

### What else the models show

These follow from the code as modelled and are the reasons for the exceptions that
the properties name (`excused`, `outdated`, `drifted`, `Gone`, the cases of
`RowsMatchDescription`, `LeasesCoverHandlers` and `RequestsReachTheirAdapter`):

* released jobs: when the client leaves while `SET search_path` inspects the schema,
  `release()` sends its ROLLBACK and the CREATE SCHEMA of `prepareSchema` comes behind it;
  `currentJob()` throws next and nothing ends that work, so the next session of the job
  has it in its transaction, against CHANGELOG.md:10 (`Gone`; the cause is that of
  `session_concurrent`);
* batches: `BEGIN; UPDATE ...` is taken for BEGIN, acknowledged once, and the UPDATE is
  dropped (`TakenFor`), against the comment at `session.ts:593`;
* search_path: `SET` after `SET LOCAL` in one transaction is undone at its end;
  `currentSchema` changes before the last two statements of `applySearchPath`, so a
  failure there leaves the session in the schema it was refused;
* schema capabilities: CREATE SCHEMA in a transaction drops the cache entry before the
  COMMIT, DROP SCHEMA and ROLLBACK of a CREATE SCHEMA leave the entry, an inspection
  that races with a CREATE enters an answer that is out of date;
* registries: DROP TABLE, DROP COLUMN and ROLLBACK TO SAVEPOINT do not reach them; the
  rename of a column of a table that was created by an unqualified name replaces the
  table of that name in the schema that is current by then;
* portals: `call` and the like are described as without rows and Execute sends some; a
  statement name that was parsed again changes what older portals run, but a portal
  that was described keeps the old result; Describe runs reads even in a failed
  transaction; the Describe of a catalog statement works only inside a transaction;
* framing: when one frame of a chunk is bad, the good ones before it are not handled,
  the buffer is not trimmed, and the connection stays open and deaf;
* leases: a Query in a failed transaction without a job leases none, so CREATE SCHEMA or
  a catalog query in it fails for want of a job; `ROLLBACK TO` in a transaction without a
  job does too, and marks it failed, where there can be no such savepoint anyway;
* routing: `SELECT pg_catalog.set_config('search_path', $1, false)` is answered by the
  safety net of pgAdmin's adapter (`pgadmin.ts:249`) without being carried out, against the
  comment at `search-path.ts:145`; a literal one whose value names no schema
  (`'pg_catalog'`) is refused or sent to Db2; a nested `from pg_namespace` in a query on tables or views makes it a query
  on schemas, against the comment at `pgadmin-ibmi.ts:354`; the node of a single
  table is answered as a list of partitions;
* catalog answers: another session's list of schemas may lack a new schema for ten
  seconds, and requests for it are answered with the tables of the current one.

## 4. Proofs

`SessionJobPoolProofs` proves, for every set of callers and jobs and all sizes that
`SizesAssumption` and `SetsAssumption` allow, type correctness, `Exclusive`,
`Capacity`, `Accounting`, `NoIdleWhileWaiting`, `NoWaiterAfterEnd`, `IdleIsClean`
and the action property `LeaseIsClean`.

The inductive invariant is `IInv`. The properties are not inductive alone: that a
returned job is in no list needs to know what every suspended call refers to
(`CallsInv`: a job under construction or being discarded is not counted, one being
cleaned is counted until the end, nobody's job is in use elsewhere), `Capacity`
needs the reservations to be exactly the calls that are creating, and what `end()`
closes must not meet what is being created (`ShutdownInv`). The proof has one
lemma per group of actions and, under each, one step per conjunct it can disturb;
lemmas about `Without`, `Append` and `Tail` on sequences without duplicates
carry the queue, and the library's facts on `Cardinality` the cap.

It also proves `ServedInOrder` and that the pool implements `JobLeases`
(`ImplementsLeases`). The first needs only that the queue holds no caller twice: a
hand-over is the one step that takes a caller from the queue to a job, and it takes the
head. The second needs `HoldersInv` beside `IInv`: while the pool runs, every leased job
is counted, so `Capacity` bounds the leases; once `end()` has forgotten the jobs the
leases and the reservations together still keep to the cap, because what a connection
that ends late adds to the one it takes from the other. Each step of the pool is then
sorted by what it does to the leases: none changes (`QuietStep`), one ends
(`GiveBackStep`), SQL runs (`TouchStep`) or one begins (`GrantStep`), and a lease begins
only with a clean job that nobody holds while there is room (`RoomInAll`,
`RoomInReservation`).

`JobLeasesProofs` proves that any implementation of the contract is exclusive.

`ProxySessionProofs` proves, for any sessions and jobs and with disconnects at any
await, `OneOwner`, `TypeOK` and `NoOrphanWork`. `OneOwner` needs no strengthening beside the
type of `job`: a job is handed out only when nobody refers to it. `TypeOK` needs
`Busy`: a session suspended at an await has a command, which says where it goes on.
`NoOrphanWork` needs `WorkInv`, which follows the requests in the queues (`Tracked`): a
session has one request outstanding at most, only while it is suspended at the await
for it, and when its job was taken from it a ROLLBACK stands behind that request,
unless it is a request of `prepareSchema` or of the checkout. Those go on with a job that was
given back, and what they do there is nobody's work (`Gone`): the property is about the
work of clients and cannot be about more, because that work stays behind.

`ProxyTransactionProofs` proves the rest of `session_safety` for any sessions and jobs under
`~MidCommand`, the configuration of that run: `NeverConcurrent`, `OwnSchema`,
`NoPartialCommit`, `WorkIsPinned`, `IdleHoldsNoJob`, the action property
`TransactionOutcome`, and that sessions obey the contract of the pool (`ObeysLeases`). The
assumption is needed: with disconnects inside commands TLC refutes each of them
(`session_concurrent`). `CalmInv` says of a session that holds a job that the queue of the
job is its own request or empty, that after the checkout the job has the session's
schema and no work but the session's (`Content`), and that the work is there exactly
when it was acknowledged; and of a job nobody holds that it is clean, lost, or has the
one request of `release()` that is still to be answered (`Free`). A step concerns one
session and one job; `LocalCalm` reduces the invariant to those, because no job
has two owners.

`ServerLifecycleProofs` proves all safety properties of `server_safety` for any
connections, keys and limit. Its invariant adds what the variables of a
connection say of each other (`ConnInv`: a listed session is bound and its socket
has not closed, a visited one is closed) and that only a served session holds
locks or runs a batch (`OwnerInv`). Lemmas about the lock operations say how far
they move owners; the count follows from the library's facts on adding and
removing one element.

`FrontendConnectionProofs` proves the safety properties of `protocol` that are about
handlers, for any names, kinds, shapes and any stream of bytes. The set `Outcome` is
what a handler may leave: messages without ReadyForQuery (`Plain`), typed maps, and an
error that tells whether a job was missing. `OneReadyPerRequest` follows from that alone, because only
`Settle` adds ReadyForQuery; `LeasesCoverHandlers` from the lease decisions, which
make the outcomes of a handler `Calm` (no job was missing) but for those that the
property names (`Covered`), kind by kind and batch by batch. `RowsMatchDescription` needs an invariant,
`AllFit`: what a portal was told and what was kept for it fit the kind of its statement,
unless that was parsed again; without it a portal might hold a description and no
result. One lemma per message shows that its outcomes are `Good`, one that a good
outcome makes a step keep everything (`SettleGood`).

`FrontendStreamProofs` proves `FramesInOrder`, `OnlyPartOfAFrameWaits` and
`BadStreamStaysBad` for any frames and any cutting of the
stream into chunks, from `FramesAssumption`: a frame has the bytes its length declares,
unless that length is one no frame may have. The assumption is about what a frame is
rather than about clients: a stream of bytes up to the first such length can be read in
no other way. `StreamInv` adds only types to the property; the work is in the operators.
The scan of `consumeFrontendMessages` is a recursive function, so that there is one, and
what it finds, are proved by induction on the bytes left. The library's induction
theorems take a predicate, which the provers cannot instantiate; `NumberInduction` takes
a set instead and follows from the least element of a set of numbers. `ScanAccounts`
says what the scan finds: the next frames that were written, and that it leaves the
encoding of the rest. `ScanStops` says why it stops: before what is left there is a
bad length or less than one frame. That alone gives `OnlyPartOfAFrameWaits`, since a
chunk is handled to its end before the next; `BadStreamStaysBad` needs beside it that
bytes which arrive later do not change what the scan found before
(`BadStaysBad`).

`SessionStateProofs` proves all properties of `session_state`, for any schemas, tables,
columns, types and any number of commands, from the assumptions that the default schema is one of the schemas, that
`"none"` is no type and that every schema may have tables. Its invariant `StateInv`
has four parts, none of which is a property alone. `PathInv`: while a SET LOCAL is in
force, `restore` is the schema the client set, so that going back gives the right one.
`CacheInv`: what a transaction created is not among what is committed, and a savepoint
marked no more than that; a command may prepare two schemas before it commits one, so
the lemmas are about what a command has come to (`Right`) rather than about states.
`DdlInv`: a snapshot is there exactly in a transaction and is exact about the
committed tables, not about the current ones, which is what ROLLBACK needs; one lemma
per statement shows that its effect keeps the registries exact (`EffectOK`), whether
it is committed, uncommitted or lost. `BrowserInv`: a list of schemas, while it is
fresh, has all the schemas the session made, which are still there.

`CatalogReadsAreRight` depends on no state; what it says is four theorems about
operators. `IndexesAreListed`, for any index names and key columns: that the rows of
`SYSKEYS`, an unordered set, give the keys in their order is a count of the rows before
each (`RowsCounted`, `KeysFound`). `ForeignKeysPair`, for any columns and, as
`AllPairsWhole`, for any number of rows: the rows of a constraint have the places
1, 2, ... in the lists of both columns, because as many of them stand before each as its
place says, and no two have as many (`PlacesTaken`, by the library's fact that an
injection between sets of equal size is onto). Both rest on `ReflectionAssumption`: a
table has finitely many columns, each with a name. `RequestsReachTheirAdapter` has no
parameter; the proof shows why it holds. What a query lacks keeps each adapter
before the right one from answering (`ReflectionLeaves`, `SchemaLeaves`, `ChildLeaves`,
`ViewLeaves`), the rules of the right one are gone through up to the one that applies, and
`Routes` puts the adapters together. The lemmas hold for any set between the patterns of
a template and those with all that the macros bring in, so for more than the
macros whole. `FirewallHolds`, TLC's part of it, tries queries of few patterns;
`QueriesAreSafelyRouted` is about every query. Some rule answers it (`SomeAnswer`, with the
library's fact that the order of numbers is well-founded), only the last says `db2`
(`LastApplies`), and the firewall is before the last (`UnhandledStaysLocal`). A literal
set_config skips the generic answers and their safety net, and no other rule has one of
their kinds (`RulesAfterAdapters`, `SetConfigIsLeft`).

Only model-checked: liveness (`WaiterServed`, `CommandsEnd`, `SyncIsAnswered`), which is
beyond the provers, and the five properties that the code does not have.

## 5. Plan

1. `SessionJobPool`, `JobLeases`, proofs: done.
2. `ProxySession`, composed with `JobLeases`: done, with proofs.
3. `AdvisoryLocks` and `ServerLifecycle`: done, with proofs.
4. `SchemaPath`, `DdlRegistries`, `CatalogBrowser`, `CatalogRouting`, `CatalogReflection`,
   composed in `SessionState`: done, with proofs.
5. `ExtendedProtocol`, `WireFraming`, `FrontendConnection`: done, with proofs.
6. Proofs that the pool implements `JobLeases`, that frames arrive in order, that whole
   frames do not wait, and that catalog reads are right: done.

Not modelled, and why:

* rewriting of SQL text (`translator.ts`, `parser-sdk.ts`, the parsing in
  `ddl-foreign-key.ts` and `column-rename.ts`) and rendering of catalog results
  (`pgadmin*.ts`, `catalog.ts`, `environment.ts`): character work on one statement,
  without state; what they decide is in the models, how they find it is not;
* the type table (`oids.ts`), the encoding of messages and parameters: a table and
  layout;
* configuration, logging, health endpoints, loading of the SDK: no state of their own;
* `gateway-connection.ts`: it reorders the startup messages of an external library;
  that authentication suspends and may end late is in `ServerLifecycle`;
* the retry of reads after a transport failure (off by default) and the lease mode
  `session`.
