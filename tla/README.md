# GritShield in TLA+

GritShield is a web framework in Rust: an HTTP/1.1 server with middlewares and
a router, WebSockets, a repository layer with transactions over sea-orm, an
event bus, a background job queue, an administration interface and a server for
the Model Context Protocol (MCP). This directory holds specifications of the
parts of it that keep state, run concurrently or turn one message into
another, the model-checking runs of those specifications (TLC) and
machine-checked proofs about them (TLAPS).

Paths below are relative to the repository's crate, `src/`; `PROJECT.json` lists
for every definition the lines it models.

## The system

| component | state | operations | meets the others through |
|---|---|---|---|
| HTTP server (`http/server.rs`) | listener, connection counter, shutdown channel | accept, ctrl-c, drain | spawns a task per connection |
| connection (`http/connection.rs`, `request.rs`) | read buffer, current request | read, parse, pipeline, write, upgrade | router, middlewares, telemetry, WebSocket |
| messages (`http/request.rs`, `form.rs`, `response.rs`, `security/cookies.rs`) | the message | decode, split, merge headers, sign | connection, handlers |
| middlewares (`routing/engine/builder/middleware.rs`) | how many ran | on_request in order, on_response in reverse | the connection |
| router (`routing/engine`, `gritshield_macros/src/routing`) | trie of routes, role tree | add_route while booting; match, has_role | handlers with a `Context` |
| WebSocket (`routing/websocket.rs`) | three bounded queues, worker and writer task | read, handle, send, tear down | the application's collections of sinks, connection gauge |
| transactions (`database/repository/transaction.rs`) | task-local transaction, event and job buffers | run_in_transaction, emit, enqueue | connection pool, event bus, job queue |
| repositories (`database/repository`, `gritshield_macros/src/repository`) | a query under construction, schema registry | conditions, window, fetch, eager loading | the database |
| event bus (`core/event_bus.rs`) | one broadcast channel that every handler subscribes to | register, publish | handlers in tasks of their own |
| job queue (`core/job_queue.rs`) | channel, semaphore, clock | enqueue, fetch, retry, dead-letter, cron | tasks of the worker engine |
| MCP sessions (`mcp/session.rs`, `transport.rs`, `stdio.rs`) | table of sessions with a broadcast channel each | create, get, evict, prune, post, terminate | SSE pump (`http/sse.rs`), MCP engine |
| MCP engine (`mcp/engine.rs`, `registry.rs`, `audit.rs`, `schema.rs`) | tool slots with kill switch and counters, audit ring | dispatch a JSON-RPC call, validate, toggle, record | sessions, administration interface |
| security (`security/`, `middleware/`, `gritadmin/auth`) | session store, rate buckets, blacklist | log in and out, authenticate, reap, limit | runs as middlewares |
| container (`core/ioc.rs`) | factories and cached singletons | register, boot, resolve | everything that is injected |
| migrations (`database/db.rs`, `cli/src/migration_runner.rs`) | schema, ledger table | up, down, connect | start-up of each server, command line |
| administration interface (`gritadmin/dashboard`, `gritshield_macros/src/admin`) | the tables, audit table | list, search, edit, delete, import, export | connection pool, router, repositories |
| the rest | - | swagger, templates, logging, command line | build time or one request |

What is hard in it is mostly not a single function but what happens between two
`await`s: a request future dropped in the middle (shutdown, disconnect), a task
that unwinds, a queue that is full, a broadcast ring that overwrites what a slow
reader has not seen, two requests that check and then act on the same map or the
same row, a process that dies between a script and its ledger entry, a timeout
that fires while the thing it waits for is happening. And, second, long chains of
conversions, each of them right: a text that is encoded, decoded, decoded again,
split and joined on its way through a link. `PROJECT.json` lists these under
"hazards", each at its line, with the property that covers it or the reason none
does.

## The modules

| module | models | proofs |
|---|---|---|
| `JobQueue` | the in-memory queue, the engine loop, the tasks it spawns | `JobQueueProofs` |
| `JobLifecycle` | what the job system promises: the abstract life of a job | refined by `JobQueue` (proved) |
| `Cron` | the scheduler that enqueues jobs | `PartsProofs` |
| `Transaction` | scopes, their buffers, the pool, detached handles | `TransactionProofs` |
| `EventBus` | the broadcast ring and its subscriptions | `EventBusProofs` |
| `HttpServer` | accept loop, request pipeline, middlewares, gauge, drain | `HttpServerProofs` |
| `HttpWire` | one connection's bytes: framing, keep-alive, refusals | `HttpServerProofs` |
| `HttpMessages` | paths, forms, response headers, cookies | `WebSocketProofs` |
| `Routing` | registration, trie, matching, roles, error handlers | `HttpServerProofs` |
| `Gatekeeper` | sessions, log-in, form tokens, reaper, admin gate, restart | `PartsProofs` |
| `RateLimiter` | the fixed window per address | `PartsProofs` |
| `WebSocket` | one connection: reader, worker, writer, sink | `WebSocketProofs` |
| `McpSession` | session table, posts, SSE pumps | `McpSessionProofs` |
| `McpEngine` | dispatch of calls, tool registry, kill switches, audit ring | `McpEngineProofs` |
| `McpProtocol` | identity, JSON-RPC over five transports | `McpSessionProofs` |
| `McpSchema` | arguments of tools and prompts, the schema validator | - |
| `Container` | registration, boot and racing resolves | `PartsProofs` |
| `Migrations` | servers and command lines on one ledger | `PartsProofs` |
| `Repository` | queries, eager loading, schema registry | `TransactionProofs` |
| `AdminData` | edits, deletions, imports and scrolling on one table | `PartsProofs` |
| `AdminGrid` | filters, sorting, links, export, query explorer | `PartsProofs` |

`MC*.tla` and their `.cfg` files give the constants values for TLC. Five of them
check several modules in one run: `MCBackground` (what runs behind the handlers:
`JobQueue`, `EventBus`), `MCRequests` (`HttpServer`, `Transaction`), `MCGatekeeper`
(the way of a request to its handler: `Gatekeeper` with `RateLimiter`, `HttpWire`,
`Routing`), `MCParts` (smaller components with a state of their own, and
`McpEngine`) and `MCMessages` (what is a function of a message). Their variable
`part` says which module moves in a behaviour; the others keep still in a state of
their own, so that the state space is the sum of the parts and not their product.
Modules that share a run name their specifications apart: `JobsSpec`, `BusSpec`,
`TxnSpec`, `ServerSpec`, `EngineSpec` and so on. Where components do act on each other they share a module
(`Transaction` with pool, event and job buffers; `Gatekeeper` EXTENDS
`RateLimiter`; `JobQueue` with engine and workers).

An operator whose comment begins with "Mutation of" is no part of a
specification: it is the faulty version of the operator below it, with which the
property named in `PROJECT.json` fails.

### JobQueue, JobLifecycle

`queue` is the mpsc channel of `MemoryJobQueue`, `permits` the semaphore,
`engine`/`popped` the program counter and local of `JobWorkerEngine::start`,
`pc`/`held` those of each spawned task, `now` the clock in seconds. `fetch_next`
is two actions (`TryRecv`, then `Dispatch` or `PutBack`), because another thread
can send between `try_recv` and the send that puts a delayed job back. `Retry`
and `DeadLetter` stand for `Err`, a panic and an unregistered job type alike:
the code treats the three the same. `outcome`, `runs` and `due` are history
variables: no guard reads them except that an id is enqueued once.
The clock advances only while some envelope waits for its time; otherwise a tick
shifts all later times alike and would only make the state space infinite.

`JobLifecycle` knows no channel, permit or clock: a job is new, pending,
running, completed or dead, at most `MaxWorkers` run at a time and each job is
tried a bounded number of times. `ImplementsLifecycle` is the refinement.

### Transaction

A scope of `run_in_transaction` is a number in `Txns`; `stack[r]` are the scopes
request `r` is in, `events` and `jobs` the task-local buffers, `free` the pool's
idle connections. `StartCommit`/`Committed`/`CommitFails` split the commit at its
`await`; a failed commit may have happened in the database. `ReturnUncommitted`
is the `Arc::try_unwrap` that fails because the body handed a connection to
another task (`Detach`). `Abort` drops or unwinds the request's future at any
point. Jobs are enqueued after the scope by a spawned task, one per step
(`FlushJob`); an error of the queue is thrown away, as by the `let _ =` of
`transaction.rs` 70, and the next job follows. Nobody awaits that task: `ServerExit`
ends the process as soon as no request is left, and the jobs still to be sent go
with it. Both are in the history `lost`.

### EventBus

One bounded ring for the events of every type, one cursor per subscription. A receiver that is
more than `Capacity` behind gets `Lagged`, which ends `while let Ok(..)` and with
it the subscription, as does a panic of the handler (`Fragile` ones).

### HttpServer

`pc[c]` is where the task of connection `c` stands, `mw[c]` the middlewares
entered and not left, `trace[c]` a history of the current request. `Cancel` is
the shutdown arm of the `select!`, possible in every state of the pipeline;
`Unwind` a panic outside `catch_unwind`. An upgraded connection leaves a session
behind (`socket`) that releases the gauge itself.

### WebSocket

`reader` is `run()`, with the teardown as its last states; `worker` and `writer`
are the two spawned tasks; `incoming`, `data` and `ctrl` the three queues. A
timeout is a step that is possible as soon as it is armed; `abort()` only marks
a task, which stops at a later step. A peer may send, stop reading (a write that
never finishes) and go away whenever it likes.

### McpSession

`table` is the DashMap of sessions. `create()` is a walk over it entry by entry, and
between any two steps others act: `Prune`; `Count`, one entry of `len()` each, until
`Counted` compares; `Scan`, which reads the age of one entry each; `FoundOldest` and
`Evict`, or `FoundNone`; `Stamp`, where `McpSession::new` reads the clock; and
`Insert`. A walk may meet or miss what came or went after it began, but comes to
everything that was there all the time (`Complete`). So a session stamped early can
be inserted late, behind a scan that should have found it, and the session that is
evicted is then not the oldest: `OldestEvicted` says exactly what can still be
relied on. A session's frames go to the buffer of its pump's receiver, which exists
from `Subscribe` on; the client knows its session from `WriteInitial` on and may post
between the two, to nobody (`missed`). A session lives as long as the table or a request
owns it (`Owned`). Clients and posts are numbered in the order of their first step,
which loses no behaviour up to renaming.

### McpEngine

`slots` are the `ToolSlot`s ever made, `tools` the DashMap from names to slots:
`register_tool` makes a new slot while calls still hold the old one (`at`).
`pc[c]` walks through `call_tool` - fetched, switch passed, role passed, invoking,
recording - with other calls, toggles and registrations between any two steps.
`set_enabled` is two steps as well (`ToggleFetch`, `ToggleStore`). `due[c]` are
the outcomes a dispatch has still to record; `ring` is the audit log. An
application that panics, or a dispatch dropped at its await, is `Unwind`.
`trail` and `closed` are history: all outcomes of a call (the ring forgets), and
the tools that no call could reach when it came in. Prompts may carry a role like
resources (`Gated`), but `prompts/get` and `prompts/list` consult none, as in the code
(`mcp/engine.rs` 473-515): `OnlyPermitted` speaks of tools and resources, and
`RolesEnforced` of all three, which the run `MCPromptRoles` refutes.

### Cron

`time` advances by units finer than a second; `tick` is the interval's next tick,
which is served up to `MaxLate` late, and late ticks follow one another at once.
A pass of the loop for one rule reads the clock twice: `CronTick` for `now`
(`looked`), `Fire` for the next occurrence; `fired` are the occurrences enqueued.

### HttpWire, HttpMessages

In `HttpWire` a byte knows the request it belongs to and whether it is head,
blank line or body. The client sends, in any pieces; `Read` is one `read` into
the buffer with the loop's tests behind it; `SendResponse` the keep-alive decision.
What a read brought beyond the request is dropped with the buffer, as in the
code. `TooLarge`, `EndOfFile` and `ReadTimeout` are the ways to fail.

In `HttpMessages` a message goes through its conversions: a path through
`ParsePath` (percent decoding, then `sanitize_path`, in the order of the code), a
form through `ParseFormBody` for either content type, a response through `Build`,
`Merged` and `ResponseHead`, a cookie through `Signed`, `Incoming` (cut at the semicolon
and trimmed) and `GetSigned`. The
choice of the order in which a HashMap is walked is nondeterministic.

### Routing

`pending` are the phases of the boot, each a set of routes entered in any order,
as the linker and the file system give them. `AddRoute` walks and extends the
trie, whose node is the path that leads to it; `Twins` are two paths the trie holds
as one, because parameters share a branch whatever their names. `MatchRoute` is the
matcher; `Serve` answers a request with its `Outcome`: the target, a 403 or an error handler. `Controller`, `Standalone`, `PagePath`, `AdminTable`,
`McpRoutes` and the like are the routes the macros and the framework register.
`CheckInheritance` climbs the role tree as the code does, and overflows on a
cycle. `MatchIsPriority` states what the table promises without the trie.

### Gatekeeper, RateLimiter

`sessions` are the sessions ever made with their data, `store` the DashMap, `jar`
the browsers' cookies, `form` the tokens of pages they hold. `pc[r]` walks
through blacklist, limiter, the auth middleware's sections under the session's
lock, the admin middleware, the handler and the response. `Reap`, a log-in, a
log-out and `Restart` come between any two steps. `gone` is history: what was
logged out, reaped or lost before a request came in; `came` is when that was, against
which the expiry of its bearer token is held (`BearsValid`) while the clock goes on.

`RateLimiter` is `is_allowed` under its mutex (`Admit`, `Refuse`, `Elapse`);
`served` records when each client was let through.

### McpProtocol, McpSchema

`exchange` holds the sessions and what every post was owed and was sent;
`HandleSse`, `HandleMessage`, `HandleStreamable`, `HandleTerminate` and
`HandleLine` are the five endpoints, each with authentication, parsing, session
look-up, dispatch and the place of the answer. `argument` (`McpSchema`) is one call
on its way through `Compile` (the schema the macros write, or the compile error) and
`CallTool` or `GetPrompt`. `Check` is the validator, which fills defaults while it
checks; `Conforms` is JSON Schema's definition, against which it is compared: numbers
are equal if their values are, while the code's `const`, `enum` and `uniqueItems` tell 3
from 3.0. The run's schemas hold such numbers, an array with `uniqueItems` whose items
have defaults and a property whose default its own schema forbids; `Clear` names the
arguments and schemas (`DefaultsFit`) for which the validator does agree.

### Container, Migrations

A build in `Container` is a stack of frames per thread, one per type under
construction; `Ask`, `Resolve`, `Depend`, `Construct` and `Store` are the steps
between which another thread can act. `Boot`, `RunHook` and `BootOver` are the
boot, with the hooks in the order of the linker.

In `Migrations` every statement, script and ledger row is a step of one of
several processes, any of which may die (`Crash`) or meet a script that fails
half-way. `effect` is what is in the schema, `ledger` what is recorded. A file's
markers are whole, without a colon or absent (`marks`): an Up script of the command
line ends only at `-- Down:`, so that after a bare `-- Down` it undoes what it did
(`Undoes`), while a server reads both.

### Repository, AdminData, AdminGrid

`Repository` runs one builder: the query (`Core`), then one statement per
relation, with writes of other clients between them. The database returns any
order that ORDER BY leaves open; a join yields a row for every related record
(`RowsOf`), and a window cuts those. `RunCtor` runs the ctor functions that fill
`SCHEMA_REGISTRY`, in any order.

`AdminData` has three administrators with one request each. A request outside a
transaction takes a connection per statement, one inside holds it; `Fault` fails
a statement. `rows` knows who wrote each cell last, `journal` is the audit table.

`AdminGrid` keeps the query parameters of the page that is shown. A text counts
how deep each letter is escaped, so that decoding twice is visible. `Visit`,
`Apply` and `Follow` are what a user can do: open a bookmark, submit the filter
form, follow a link. `Parse` and `Compiled` are the query language: `Spoken` are the
operators it knows, any other is read as `=`, and a side of ON without a dot panics
(`Broken`).

## The runs

| run | result | states | what it answers |
|---|---|---|---|
| `MCBackground` | holds | 103 134 | no job lost, doubled, early or tried too often; no permit leaks; others settle although one worker hangs; implements `JobLifecycle`; events without gaps, a subscription ends for its own cause only, every event reached |
| `MCRequests` | holds | 537 654 | onion order; exact gauge; drain ends, and ends last; staged effects go out once, in order, only for scopes that returned Ok; pool conserved; decisions final; no waiting for ever |
| `MCTransactionDetached` | violated | - | effects dispatched for a transaction that is rolled back |
| `MCUpgradeRefusals` | violated | - | a refused upgrade is answered past every `on_response` |
| `MCWebSocket` | holds | 906 021 | wire order, control frames overtake, messages in order, teardown ends |
| `MCMcpSession` | holds | 187 695 | ceiling up to the overlap, whom a scan evicts, answers in order, streams end with their session |
| `MCEarlyAnswers` | violated | - | the answer to a post sent before the pump subscribed reaches nobody |
| `MCPromptRoles` | violated | - | a prompt behind a role is built for a call without it |
| `MCGatekeeper` | holds | 2 805 747 | gone sessions and expired tokens open nothing; forms are refused for cause; requests are cut out whole; the trie keeps what the route table and the role tree say |
| `MCParts` | holds | 1 681 171 | bursts, single builds, true ledgers, cron's excess, edits and their audit, imports and scrolls, queries and relations; closed tools not reached, roles of tools and resources, counters and trail |
| `MCMessages` | holds | 822 502 | paths, forms, headers, cookies; JSON-RPC answers; arguments against schemas; the grid and its query language |
| `MCAdminLinks` | violated | - | links of a grid lead to the table's name, routes are registered under the slug |

The violated runs each refute a sentence of a document or a comment, quoted under "findings" in
`PROJECT.json`, by what the code does. A property of a run is often a conjunction
of named parts (`JobsAccounted == JobsTypeOK /\ Places /\ AttemptBudget`); the parts are
stated and commented one by one in their module.

**Bounds.** Two workers and three jobs let one job be put back while another is
fetched and a third hangs; a third task identity would show a leaked permit.
Two connections of the pool, two requests and two scopes reach both kinds of
waiting (nested in one request, across two), with three effects to be
distributed over scopes. A ring of two slots and three events is the smallest in
which one receiver lags and its neighbour does not. Two middlewares distinguish
reverse from forward order; two requests per connection reach keep-alive. Queues
of one frame are full as soon as they are used; three frames suffice for a
control frame to find a backlog of two. Three clients on a table of one overlap
in `create()` while a third session is open; a clock of three instants separates
an expired session, an old one and a young one; where three clients contend for the
table nobody posts, and where messages are posted there are two clients.
Two calls, one with the role and one without, on
one name that is registered up to twice - once free but off, once gated and on -
reach every mix of an old and a new slot between the checks of both; an audit log
of one entry overflows at the second.

`MCGatekeeper`: three requests, two at a time, let one log out or be reaped while
another holds its session and a third comes after; the three set-ups are
sessions with the form guard, with and without a fixed secret, and JWT beside the
admin interface; a token that expires at the first of two instants is valid, expired on
arrival, or expires under way. A buffer of six pieces holds one request with a body, its
successor's beginning, and overflows on both. Tables of two routes against a late
third, over parameters, static segments and their mixtures, contain every way in
which two routes share or shadow a branch; three roles reach diamonds, chains and
cycles. `MCParts`: a clock of five instants and a window of two see a burst on
either side of a boundary; `a` needs `b` and `c`, `b` needs `c`: the smallest graph with
a shared dependency, over all kinds; two servers, a command line, two files, the
first of two statements and with markers of every kind, one crash; a second of three units, ticks up to two
late, three occurrences; three administrators on six rows with one failing
statement and pages of one row; three owners, three things, one write. `MCMessages`
enumerates its inputs: paths of four pieces among nine, forms of three pairs or two
parts, three headers in two casings, schemas with one keyword or the few that
interact, every envelope not broken in two ways at once, tables of three and seven
pages around the ellipsis, one row a page.

**Fairness.** The tokio runtime polls every task that is ready, so steps of the
code that wait for nothing are weakly fair. Timers fire. A commit ends, a
connection is granted or `connect_timeout` expires (`Acquired`). Strong fairness
is assumed once: a handler returns eventually although it may open scopes for as
long as it likes (`BodyEnds`). Nothing is assumed of clients, peers and
enqueuers, nor of hooks (`HookReturns`), HTTP handlers and event streams: these
may hang, and the liveness properties say what still ends. Nothing is assumed of
`FlushJob` either: nobody awaits the task that sends the staged jobs. The runs
`MCGatekeeper`, `MCParts` and `MCMessages` check safety only and need no fairness.

**Deadlock** is checked except where the modelled part may really come to rest:
all events handled, the server stopped, the connection or every stream closed,
every process, request or message of a small instance done.

## What is proved

`JobQueueProofs` proves for every number of jobs, tasks, workers, every retry
limit and every set of delays:

| theorem | statement |
|---|---|
| `TypeCorrect` | `JobsSpec => []JobsTypeOK` |
| `PermitsConserved` | `JobsSpec => []PermitConservation` |
| `EachJobInOnePlace` | `JobsSpec => []Places` |
| `AttemptsBounded` | `JobsSpec => []AttemptBudget` |
| `JobsAccountedFor` | `JobsSpec => []JobsAccounted`: types, places and budget together |
| `BackoffRespected` | `JobsSpec => NeverEarly` |
| `SettlementIsFinal` | `JobsSpec => SettledIsFinal` |
| `AttemptsAreInTime` | `JobsSpec => AttemptsInTime`: both of the above |
| `Refinement` | `JobsSpec => ImplementsLifecycle` |

The argument is one inductive invariant, the conjunction of

- `TypeInv`: the types, and that a task holds an envelope exactly while it runs
  and the engine exactly while it inspects one (`Ownership`);
- `PermitConservation`: free permits, the engine's and those of live tasks add
  up to `MaxWorkers`. With it there is always an idle task identity to spawn;
- `Places`: an id stands in at most one of channel, engine and tasks, and
  exactly in one while it is pending. None of the three invariants it contains
  is inductive alone: that `DeadLetter` leaves no copy behind needs that there was
  one copy;
- `Accounted`: the attempts an envelope counts are the attempts that were
  started, and its `run_at` is the time the history holds as due. This ties the
  code's data to the history variables the properties speak of;
- `AttemptBudget`.

One lemma per action and part shows that every step preserves them; the action
properties and the refinement then follow step by step. The assumptions are those
named in `JobQueue` (finitely many tasks, at least `MaxWorkers` of them, natural
retry limits, `None` no envelope, powers of two natural); TLC evaluates them in
`MCBackground`.

`McpEngineProofs` proves for every set of calls, tools, resources and
administrators, any number of registrations and any capacity:

| theorem | statement |
|---|---|
| `EngineTypeCorrect` | `EngineSpec => []EngineTypeOK`, with the audit log's bound |
| `KillSwitch` | `EngineSpec => []KillSwitchHolds` |
| `RolesRespected` | `EngineSpec => []OnlyPermitted`: tools and resources, not prompts |
| `RecordsSound` | `EngineSpec => []RecordsAgree` |

`KillSwitchHolds` is not inductive: an administrator may enable a slot that is no
longer registered but still held by a call. The invariant `IInv` therefore adds
that slots and the calls that hold them agree on the name (`SlotsNamed`,
`Switched`), so that whoever enables a slot a call holds has opened that very name;
that what is closed to a call is off under its name and in the slot it has
fetched (`Switched`); that a list, once its scan is over, holds only open tools
(`ListedOpen`); and that the role was checked on the slot still held
(`RoleChecked`). Most steps are covered by one lemma: a step that touches only
counters (`Counted`) changes nothing a decision depends on.
`McpEngineAssumption` says that names and URIs differ and that what clients and
applications supply has the right shape.

`RecordsAgree` has an invariant of its own, `RecordInv`. A call counts in one step
what it records in a later one, so that what it has recorded and what is still
`due` belong together (`Story`): recording moves the first outcome from the one to
the other and the story stays. `Told` says that nothing is in it before a dispatch is
concluded, and that it is then one of the `Stories` a call may have.

The other proof modules:

| module | theorem | statement |
|---|---|---|
| `TransactionProofs` | `PoolSound` | `TxnSpec => []PoolIsSound` |
| | `FlushSound` | `TxnSpec => []FlushedOnce` |
| | `Final` | `TxnSpec => DecisionIsFinal` |
| | `CommitFirst` | `TxnSpec /\ []Undetached => []OnlyAfterCommit` |
| | `RepositorySound` | `RecordsSpec(...) => []RecordsAreRight` for any tables, queries, writes and entities |
| `HttpServerProofs` | `CountsSound` | `ServerSpec => []CountsAreTrue` |
| | `OnionSound` | `ServerSpec => []OnionOrder` |
| | `WireSound` | `WireSpec(script, polite) => []WireIsSound` for any requests |
| | `RoutesSound` | `RoutingSpec(phases, inherits, declared, asked) => []RoutesAreRight` for any finite set of roles |
| `EventBusProofs` | `DeliverySound` | `BusSpec => []DeliveryIsExact` |
| `WebSocketProofs` | `InOrderSound` | `Spec => []InOrder` |
| | `ControlSound` | `Spec => []ControlNotStuck` |
| | `MessagesSound` | `MessagesInit(...) /\ [][MessagesNext]_message => []MessagesAreSound` for paths, forms, replies and cookies of any length |
| `McpSessionProofs` | `BoundsSound` | `Spec => []WithinBounds` |
| | `EvictsOldest` | `Spec => OldestEvicted` |
| | `AnswersSound` | `Spec => []AnswersArrive` |
| | `ExchangeSound` | `ExchangeInit(envs) /\ [][ExchangeNext(requests)]_exchange => []ExchangeIsSound` for any configurations and requests |
| `PartsProofs` | `BurstsBounded` | `LimiterSpec => []BurstBound` |
| | `GateSound` | `Spec => []GateHolds` |
| | `FormsSound` | `Spec => []OwnFormsOnly` |
| | `LedgerSound` | `MigrationsSpec(fs) => []LedgerHolds` for any files `fs` |
| | `ContainerSound` | `ContainerSpec(p) => []ContainerIsSound` for any linked `p` |
| | `CronSound` | `CronSpec(start) => []CronBounded` for any `start` |
| | `EditsSound` | `AdminSpec(present, commands) => []EditsAreAccounted` for any rows and commands |
| | `ViewsSound` | `AdminSpec(present, commands) => []ViewsAreWhole` for any rows and commands |
| | `GridSound` | `GridSpec(table, ..., forms, queries) => []GridIsFaithful` for a finite table, texts of letters and queries whose names are not keywords |

They hold for every value of the constants that satisfies the named assumptions of
the modules, which TLC evaluates on the runs. What the invariants add, and why:

- **Transaction.** `Shape` ties the program counters to the stack of scopes, the clones
  and the state of each transaction (`StateOK`, `Scopes`, `Undecided`, `Clones`,
  `Committing`), without which nobody knows that the connection a scope gives back is
  one it holds; `PoolConservation` follows step by step. `EffectsInv` numbers the effects:
  what an open scope staged is in its own buffers, in order, and nowhere else (`HeldBack`),
  and only a scope that returned Ok has jobs on their way (`Tagged`). `OnlyAfterCommit` is false
  of the code in general (see the run `MCTransactionDetached`); it is proved of the behaviours in
  which no body keeps a clone beyond its end (`Undetached`), where a scope
  that returned Ok is committed (`OkIsCommitted`).
- **HttpServer.** `Counters` gives for each of the two counters the set of connections
  it is the size of (`Counted`, `Gauged`); that a connection which became a
  WebSocket session is in it once needs `SessionsApart`, and that no connection ends early
  while the server serves `Untold`. `Layered` says what the trace of a request
  looks like at each place of the pipeline.
- **HttpWire.** Of what is on its way or in the buffer `WireInv` says that it comes in
  the order in which it was sent (`InLine`); that everything behind an answered or parsed
  request lies past that request's blank line (`Fresh`), so that none is answered twice;
  and, for a client that waits, that what was handled is what it sent (`WholeRequests`) and
  that the line holds the first pieces of the request whose turn it is and nothing else (`Waiting`).
  No bound on the buffer, the reads or the requests is used.
- **Routing.** `RoutesInv` describes the trie by the routes that have been entered: every
  node is the beginning of a route and no two nodes are twins, so that the walk of
  `AddRoute` is unique; at the node of a route stands the newest one of its method
  (`TargetsStand`). The matcher then finds what the table says because the trie is a tree. The
  climb through the roles is followed by depth (`Knows`): "yes" means the role is
  reached, "no" that it is not, and an overflow that more roles were met than
  there are, which only a cycle allows.
- **EventBus.** A receiver's position stands between its registration and the tail
  (`Ordered`), the ring holds what was published (`Truthful`, `Kept`), and what a handler was called with
  is its share up to the position (`Called`).
- **WebSocket.** The way in (`Inbound`: handled, in hand and queued messages are
  what was read, in order) and the way out (`Faithful`, `Ordered`, `Kept`) are
  independent. `ControlNotStuck` bounds the data frames written after a control frame was
  accepted: `Overtaken` says that before the writer looks at the control queue again
  there is at most the one frame in its hand.
- **HttpMessages.** `MessageInv` adds little to the property: a message is of its kind,
  and what was built of a reply is what constructor and handler set (`MadeIs`). The proof is about the
  conversions. Each is a loop of the code, stated as a function of how far it
  has come, and is followed piece by piece: the segments a path keeps
  (`CleanPath`), the fields that the first `k` parts of a form have added (`FieldsTo`), the
  lines of a head after some of the entries were merged, in any order (`Merging`: every line is the
  handler's or an entry's, and an entry that nobody else sets stands in one `Block`).
  A cookie is cut at its semicolon, trimmed and cut at its first ".", and what stands behind
  must be the signature of what stands before: only the value that was signed passes, and one
  that begins with a blank no longer does. What
  comes in is assumed to be what clients and handlers send (`IsForm`, `IsReply`,
  `IsCookie`): a part's line spells the field in one of the usual ways; `set-cookie` is set through the
  jar only; the values of middlewares are told apart from the handler's, so that a line tells
  who set it; and a signature is no piece of a value. All of that holds of the inputs of `MCMessages`.
- **McpSession.** A `len()` that counts a table under change can be let through although
  the table is full, but only by what others inserted behind it. `Room` says so for
  every set of calls that are walking: either the table with what is about to be inserted leaves
  a place to each, or what none of them needs to have seen (`New`) comes from other
  calls. It is kept because the walks are `Nested`: of two, the one that began later can
  miss less. `Scanned` bounds the age of every session a scan has come to
  by the one it remembers, up to the time since it began. `StreamInv` follows a
  response from its post (`Addressed`) to the push (`Recorded`, if to nobody) and through
  the channel (`Flowing`) to the stream.
- **McpProtocol.** `ExchangeInv` says of every answer that what was pushed on a stream
  or returned in the response is what that request was owed (`InStep`), and of every
  live session that a client was told its name, unless a body that does not parse lost it
  (`LiveAreNamed`), and that it speaks a version the server supports.
- **Repository.** `LookupInv` carries a lookup through its statements: `Filled` ties the
  entries of each relation to the records, `AsAsked` ties a record that was asked for by id to
  that id, and `Exact` says which relations are loaded already and are complete as long as
  nobody writes. `ReadsAgree` holds because rows have distinct ids: the order by
  id is the only one (`OneOrdering`), and the pages of one sequence in a row are that sequence
  (`PagesInARow`). Assumed are only that ids are integers of one row each, and that Null
  and an absent limit are no integers.
- **RateLimiter.** `BurstBound` speaks of times and the code keeps a count and an expiry.
  `Orderly` ties them: all requests but the last `count` came before the window opened,
  all but the last `count + PerWindow` a whole window earlier. `PerWindow` is
  the limit, or one if it is zero: an expired window lets its first request through
  without looking.
- **Gatekeeper.** `RowSound` says for each place of a request what it may rely on: that
  the session it found was not gone when it came in, or is a new one; that a token it
  compares is its session's; that a bearer token it passed on was valid when it
  came in. `Genuine` tokens were read from a session that had one, and
  a session never gets another. What every step does to the sessions is stated once
  (`Grows`), so that one lemma (`RowStays`) carries the other requests through a step.
- **Migrations.** `Progress` says how much of the file at the head of its list a process
  has applied, but for files of which a command line has undone something (`upset`), and that
  every file before that one is recorded. `LedgerSound` holds for all files, statements and processes that are
  a server or a command line and not both (`MigrationsAssumption`).
- **Container.** A thread's stack of builds is consistent (`StackSound`), and what it
  has built it finds again (`FoundAgain`). No acyclicity is assumed: types that
  wait for one another in a circle are never made, because instances are numbered
  and the one made first would need an earlier one (`NoneOfACircle`). `Linked` is what
  the macros submit to the inventory: a value needs nothing, and
  what is provided is a value or has a hook; `MCParts` evaluates it for its programs.
- **Cron.** Ticks are served late and in bunches, but they were due a second apart, so
  that two jobs with `k` others between them were due `k + 1` seconds apart (`Spread`);
  a job was served less than a second before its occurrence and at most `MaxLate` after
  it was due. The two bounds leave room for so many jobs of one occurrence and no more.
- **AdminData.** `Owed` says of a request under way which rows it has changed and which of them
  it has yet to record, `Worthy` that the row it is about to record was changed by itself
  or, when it found the row gone on deleting, by another. `Importing` ties the
  keys of an open import to the items it has done. `Scrolled` says that page `k` was read
  from the table as it was then, with the count before it: the rank of a row
  does not rise while rows only go nor fall while they only come, so that its page moves one way.
- **AdminGrid.** `GridInv` says that the filters and the keyword of the page that is shown
  select what was asked for (`SameView`), unless one of the texts is itself an escape; a
  link hands on the filters decoded once more, and those that select alike go on to do so
  (`CarriedOn`). The page bar and the text of a query are concatenations (`FlattenSeq`);
  both are followed piece by piece (`FlattenRun`): `BarShows` says what a bar of the first `n`
  pages looks like, `WhereText` where the words of the conditions are. The parser
  looks for the first of each keyword, so `ReadAsMeant` is a matter of positions: no
  name is a keyword (`Named`), which is also what `MCMessages` gives it.

**Only model-checked.** Liveness (`EventuallySettled`, `ScopesEnd`,
`EventuallyReached`, `DrainEnds`, `TeardownEnds`, `StreamEndsWithSession`): temporal
reasoning under fairness is beyond the prover used. `ArgumentsAreSound`: `McpSchema` uses
RECURSIVE operators (a schema is a tree), which keeps it with TLC; it is a statement about
the schemas and arguments of the run.

## What no property covers

Met while modelling; the models do what the code does, and no property of a
passing run promises otherwise.

- **Server and bus.** The shutdown arm of a connection's `select!`
  (`http/server.rs` 91) drops the request future wherever it stands (`Cancel`). Event
  handlers run outside the task-locals of the request (`core/event_bus.rs` 62).
  `auto_discover_handlers` registers handlers a second time when the constructor
  has done it (`builder.rs` 70).
- **Jobs.** A delay is cut to whole seconds (`job_queue.rs` 214), so that a start may be
  up to a second early by the caller's clock; the model's clock counts seconds. Ticks that are late
  by a second or more miss occurrences, though `docs_content/07_task_queue/index.md` 143 says
  a job "runs each 5 secs infinitely"; only their excess is bounded (`CronBounded`). That a
  staged job arrives is promised by nothing: its enqueue may fail or the server exit.
- **Wire and messages.** A keep-alive connection that was idle is answered 400
  (`http/request.rs` 155). An upload's file name keeps a trailing quote (`request.rs` 342).
  A signed cookie whose value begins with a blank cannot be read back.
- **Routing.** A catch-all page does not reach deeper paths (`matcher.rs`; compare
  `docs/docs_content`, dynamic routes). `#[catch]` handlers are called for 404
  and 405 only (`http/connection.rs` 329-369).
- **Container and migrations.** A second boot replaces the instances of the
  first. Two servers may run one script twice; `down` without a file rolls back
  everything (`migration_runner.rs` 138), where `cli/readme.md` 75 and
  `docs_content/10_database/migrations.md` 85 speak of the last migration. The command line
  runs past a `-- Down` without a colon (`migration_runner.rs` 225), a server stops at it
  (`db.rs` 230): `LedgerHolds` exempts the files of which a command line undid something that way.
- **Sessions.** The deletion of a stale cookie (`auth.rs` 287) can overtake a new
  one. The reaper looks at the last access, which a request that is under way
  refreshes late (`session.rs` 37).
- **WebSocket, MCP sessions.** `on_close` may overlap `on_message`; what it sends is
  overtaken by the close frame. The "hard ceiling" on sessions (`mcp/session.rs` 11) is exceeded by the
  overlap of `create()` calls; "evicting the oldest" (110) holds as far as `OldestEvicted`
  goes; "idle for longer than this" (8) is the age since creation, whatever the use.
- **Tool arguments.** `mcp/schema.rs` 202 says that defaults are injected "before validation so
  the rest of the schema sees the real value". `uniqueItems` (388) looks before the items are filled in
  (402), and what a missing property is filled in with (435) is not checked at all. `const` and
  `enum` (233-251) tell 3 from 3.0. `ArgumentsAreSound` exempts just these (`Clear`).
- **Administration interface.** A failed count or page looks like the end of the
  table; sorting has no tie-break; two concurrent deletions both report success;
  the transaction of a bulk deletion covers none of its statements
  (`crud_ops.rs` 369). A change whose audit entry failed stands without it, and is reported as
  a failure (`docs_content/06_admin_panel/index.md` 136 has every edit written there). A text that is
  itself an escape is decoded at every visit.
- **Query language.** Of several conditions only the first counts; `>=` and any operator but
  `=`, `LIKE`, `>` and `<` are read as `=` (`jql.rs` 108); a value is cut to its first word (125,
  177); a side of ON without a dot panics (161-167).
- **Repositories.** The limit of a query cuts joined rows; a relation to the
  parent is never loaded by the generated builder for one record. `find_one_by_` on a column
  that is no key reads one record without an order (`query_builders.rs` 440) and then the children of the
  first pair of a second query (450-451): they may be another owner's, and `ChildrenAreOwn` says
  only that they are one owner's, though `docs_content/05_macros_library/query_dsl_macros.md`
  121 has it load related data.

## What is not modelled

- Bytes: a path, a field, a header is a sequence of a few symbols; HTML, JSON text,
  CSV quoting, escaping for XSS and SHA-256 are left out or an injective function.
- HTML pages, the metrics and audit views, the create-table and alter-table forms,
  charts; swagger's document; the logger; AOP macros; `.env` look-ups; the test client;
  the command line's scaffolding and the website: no state that a property could
  be about, or text.
- tokio, DashMap, sea-orm and the database: modelled by how the code uses them
  (a channel is a sequence, a map operation is one step, a statement is atomic).
- Task-locals outside transactions; the metrics other than the gauge.

## Plan

1. Composition of `Transaction` with `EventBus` and `JobQueue`: from `emit` inside
   a scope to the handler and the worker.
2. The metrics and audit views, and the test client's own pipeline.
