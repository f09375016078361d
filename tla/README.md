# A TLA+ verification of DomainScript

DomainScript is a compiler (`dsc`) that translates a domain model, written in
`.ds` files, into a Go service. Two programs meet in this repository:

- the **compiler**: lexer, parser, resolver, semantic rules and the emitters
  under `codegen/`. It is sequential; given the same sources it must print the
  same program;
- the **runtime**: the Go templates (`codegen/*rt*/*.go.txt`) that are copied
  into every generated service, and the wrappers the emitters generate around
  them. This is where requests, transactions, relays, replicas and failures
  meet.

Everything below is translated from the code. Paths are relative to `src/`.
An emitter is modelled together with what it emits: its decisions (what is
refused, which variant is printed, what is connected to what) are operators,
and the program that results is the state machine that runs them.

## 1. Inventory

### 1.1 The generated service

| Component | State it keeps | Operations | What makes it correct | Module |
|---|---|---|---|---|
| Idempotent dispatch: `codegen/rtsrc/idempotency.go.txt`, `codegen/usecase_idempotency.go`, gate in `codegen/http.go` | a map key -> record (in flight with a `done` channel, or terminal with a result and an expiry) | `Begin`, `Wait`, `Complete`, `Release`, `Peek`, `Cleanup`; the generated wrapper | one run and one result per key and window; waiters are woken; a replay is the answer of that command | `Idempotency`, `OncePerKey` |
| SQL write side: `codegen/sqlrt/{uow,eventstore,dialect*,open_*}.go.txt` | tables `events` and `outbox`, the connection pool, one transaction per `Run` | `Run`, `Append`, `Load`, `EnqueueOutbox`, commit, rollback | streams without holes and with one owner; stream and outbox written together | `SqlUnitOfWork` |
| Durable outbox: `codegen/rtsrc/outbox.go.txt`, `codegen/sqlrt/outbox.go.txt`, `codegen/sql_wiring.go` | locks on the rows of the batch being relayed, attempts and delivered marks | `ProcessBatch`, `deliver`, `Cleanup`, by several replicas | at least once; order per stream; failing rows do not starve the others | `OutboxRelay`, `AtLeastOnce` |
| Query cache: `codegen/rtsrc/querycache.go.txt`, `codegen/redisrt/cache.go.txt`, `codegen/decl_query_cache.go` | entries by key (memory) or by generation and key (Redis), flights by key | `Get`, `Set`, `SetErr`, `InvalidateAll`, `Coalesce`; wrapper and subscription | one run per key at a time; a panic reaches nobody as a result; an entry written before an invalidation answers no call that begins after it | `QueryCache` |
| In-process `via: queue` channel: `codegen/rtsrc/channel.go.txt` | shards with a buffered Go channel each, the circuit breaker | `Publish`, `drain`, `deliver`; `Allow`, `Record` | order per key; a shard never dies; the breaker never sticks | `QueueChannel`, `CircuitBreaker`, `KeyedFifo` |
| RabbitMQ channel: `codegen/amqprt/rabbitmq.go.txt` | connection, consumers, the broker's queues | `Publish`, `consume`, `deliver`, `supervise`, `reconnectLoop`, `Close` | nothing lost between broker and handler, nothing doubled but by an Ack lost after the DLQ; order per key; no connection leaked | `AmqpChannel` |
| Rate limiter: `codegen/ratelimit.go`, `codegen/rtsrc/ratelimit.go.txt`, `codegen/redisrt/ratelimit.go.txt` | a bucket, a window or a list of hits per key; its Redis copy | the plan of a route, `Allow`, `CheckRateLimits`, the sweep, the local fallback | never more than the limit per window; `Retry-After` tells the truth; every dimension is asked | `RateLimit` |
| Saga: `codegen/decl_saga.go`, `codegen/rtsrc/saga.go.txt` | progress of the steps, status by saga id | the waiting and the asynchronous entry, `RunSaga`, the final `Put` | what succeeded is undone in reverse order; one run per id; a status that tells how it ended | `Saga` |
| Two-phase unit of work: `codegen/decl_usecase.go`, `codegen/sql_wiring.go`, `codegen/sqlrt/twophase.go.txt` | one transaction and one connection per database | the plan, `Run` | rollback everywhere until the first commit; no deadlock over pools of one connection | `TwoPhase` |
| Workers: `codegen/decl_worker.go`, `codegen/rtsrc/worker.go.txt` | semaphore, next slot, items, attempts | schedule loop, `Acquire`, `Wait`, `RetryPolicy.Run`, source, cancellation | concurrency and pace as declared; nothing taken from the source is lost; it stops | `Worker` |
| Routes: `codegen/http.go`, `codegen/versioning.go`, `codegen/grpc.go` | the request on its way, streams tagged with a tenant | version gate, overrides, tenant, limit, decoding, dispatch, gRPC | a version is served until its sunset, its bodies read and its Views answered in its shape; a tenant sees its streams; a replay is not charged | `Routes` |
| Wiring of the mains: `codegen/codegen.go`, `codegen/decl_policy.go`, `codegen/sql_wiring.go`, `codegen/channel*.go` | the resources a main has opened, who is subscribed to what | grouping by service, publishers, transports, opening in order, commits and deliveries | an event gets where it should and nowhere else; a main whose body fails closes what it opened before | `Wiring` |
| Events over releases: `codegen/decl_event.go`, `codegen/decl_event_version.go` | rows written by one release and read by another | `Marshal`/`UnmarshalJSON`, defaults, relay, hand-over | a field survives every hop; no event is dropped because a field was added | `EventVersions` |
| Queries: `codegen/decl_query.go`, `codegen/lower/{stmt,whereeq,join}.go`, `codegen/rtsrc/collection.go.txt`, `codegen/sqlrt/collection.go.txt` | rows in memory or in a table | what `load`, `list`, `count`, `join` compile to; `SelectSlice`, pushed equalities, paging, joins | an answer is the page that was asked for, from either backend | `Reads` |
| Unit of work, store and dispatcher in memory: `codegen/rtsrc/{uow,eventstore,dispatcher}.go.txt` | streams in a map, handlers by event type | `Run`, `Append`, `Publish`, `Subscribe` | publication only after success; the first failing handler stops the others | partly: `QueryCache`, `QueueChannel`, `Routes`, `Wiring` |
| File storage, telemetry, decimal arithmetic | - | blobs, spans, numbers | - | none, see section 7 |

How they interact: a route decodes a command and reads its headers; the gate
asks `IsReplay` and then the rate limiter; the wrapper asks the idempotency
store; the body runs inside `UnitOfWork.Run`, which loads, decides and appends.
After the commit `Run` publishes its events one by one to a `Publisher`, which
is the dispatcher (policies and cache invalidations, called in subscription
order until one fails), a queue channel or, for a durable producer, nothing at
all: its events were enqueued in the transaction and a relay publishes them to
the channel. Sagas and workers call use cases; queries read the store through
the cache.

### 1.2 The compiler

Lexer -> parser (panic-mode recovery) -> symbols, program graph -> resolver ->
types and semantic rules -> emitters -> writing of the tree, driven by `driver/`
and `cmd/dsc`. It keeps no state between runs and shares none between
goroutines. What is worth stating about it:

| Part | What makes it correct | Module |
|---|---|---|
| Parser: `parser/` | a well-formed file gives no diagnostic whatever follows what; a damaged token does not reach the other declarations; no bracket is lost in silence | `Parser` |
| Lowering of bodies: `codegen/lower/stmt.go`, with the flow rules of `sema/rules_flow.go` | what the front end accepts lowers, but for named gaps, to Go whose jumps and names resolve and that does what the body says | `Lowering` |
| Compilation of queries | what compiles answers the query; what cannot is refused | `Reads` |
| Plans of routes, limits, two-phase units, workers | the variant that runs is the one that was declared | `Routes`, `RateLimit`, `TwoPhase`, `Worker` |
| Grouping, transports and rules over the topology: `codegen/codegen.go`, `sema/rules_crossfile.go` | what the rules accept is connected | `Wiring` |
| Lexer, resolver, remaining rules, driver | - | none, see section 7 |

### 1.3 What is hard here

- **Concurrency**: handlers, relays, shards and replicas over locks that are
  given up while waiting (`Wait`), over statements at READ COMMITTED, over Redis
  commands that are atomic one by one; pools of one connection.
- **Failure**: panics between two store calls, crashes between publication and
  commit, a failing step among several, Redis or the broker being away, a main
  that cannot open its second database.
- **Ordering**: ids drawn before the commit, retries behind newer rows, late
  outcomes told to the breaker, invalidations against writes of the cache,
  rejections and requeues of a broker.
- **Time**: windows that lapse between a check and its use, timeouts against
  late answers, cooldowns, calendars.
- **Versions**: replicas of two releases over one table, clients of two versions
  over one route.
- **Combinations**: two declarations, two statements or two clauses that each
  work alone; the emitters treat most of them one by one.

`PROJECT.json` ("hazards") lists each of them at its line with the properties
that watch it, or with the reason why none does.

## 2. Plan

Done: the write path (`Idempotency`, `SqlUnitOfWork`, `OutboxRelay`), the read
path (`QueryCache`, `Reads`), the transports (`QueueChannel`, `AmqpChannel`,
`Wiring`), orchestration (`Saga`, `TwoPhase`, `Worker`), the edge (`RateLimit`,
`Routes`, `EventVersions`), and of the compiler `Parser` and `Lowering`, each
with its instance, its runs and its mutants; the proofs of `Idempotency`,
`SqlUnitOfWork`, `OutboxRelay`, `QueryCache`, `QueueChannel`, `AmqpChannel`,
`TwoPhase`, `Saga`, `Worker`, `RateLimit`, `Routes`, `EventVersions`, `Wiring` and
`Reads`.

Left, in this order:

1. The composition of `OutboxRelay` as the producer of `AmqpChannel`: what the
   relay promises (at least once, order per stream) is what the broker assumes.
2. Projections and their refresh; the asynchronous saga behind an idempotency
   key as one instance.
3. The front end between parser and emitters: the scopes and the resolver, the
   remaining rules over flows and types, and the driver's phases.

## 3. The modules and the code

The definitions named `...Mutant` are not part of any specification: each is a
definition as a plausible bug would leave it, and shows that a property notices.
A property of a part that has several things to promise is the conjunction of
named invariants (`DeliveriesAreSound == AmqpTypeOK /\ KeptUntilHandled /\ ...`);
every conjunct has a mutant of its own.

### 3.1 Requests and storage

**Idempotency.** A request walks through the labels of `pc`: `peek` and `gate`
(`emitUseCaseRoute`), `begin`, `wait`, `blocked`, `run`, `settle` (the wrapper of
`emitIdempotencyWrapper`). Every method of `memoryIdempotencyStore` holds the
mutex and is one action; `Wait` unlocks while it blocks, so it is two
(`EnterWait`, `Wake`), with everything else in between. A `done` channel is named
by the request whose `Begin` made it, `closed` are the closed ones. `Panic` is a
body that panics: the wrapper has no `defer`, so nothing settles the record.
Whether a use case requires a key, rejects concurrent retries or has a rate limit
is a property of the command (`Required`, `Rejecting`, `RateLimited`), because
use cases of one module share a store. Time is the moment a result's window
lapses (`Lapse`). **OncePerKey** is the promise: a key is free, held by one run,
or remembers one result. `Idempotency` implements it with `Holder` and
`Remembered`.

**SqlUnitOfWork.** A transaction is one `Run`; each SQL statement is one action.
A statement sees committed rows and its own (`Visible`). The `INSERT` waits while
another transaction holds an uncommitted row of its key and cannot happen on a
committed one: the program then gets an error and rolls back. `lastId` is the
identity column, which no rollback returns. `Rollback` is enabled in every active
state: an error of the body, of any statement, of the context, or a crash.

**OutboxRelay** extends it with relays: `Scan` (one transaction, rows locked,
`SKIP LOCKED`), `DeliverRow` in scan order, `CommitBatch`, `AbortBatch` for a
crash, a failing statement or a failing commit, and `PurgeDelivered`. `sent` and
`published` are what the channel was given. **AtLeastOnce** is the promise.

**TwoPhase.** `usecase2PCPlan` is the scan of a body that decides whether its use
case spans databases and which; `Begin` takes one connection of each database of
the plan in name order and waits for it, `Body` runs (and panics on an aggregate
whose database the scan did not find), `Commit` commits one database after the
other, `PublishAll` publishes if the wiring has a publisher.

**QueryCache.** A call walks through lookup, flight, run and store. The memory
backend's methods are one action each; the Redis ones are one action per command
(`GetGeneration` then `Hit` or `Miss`; `WriteGeneration` then `WriteEntry`), and any
command may fail. `backend` is chosen when a process starts and may differ
between replicas. `Land` is the deferred function of `Coalesce`. A writer appends
(durable at once in memory) and then `Invalidate`s through the dispatcher or, if
something before it failed, does not (`LoseInvalidation`). `emptied` and `arrived`
are history variables that only properties read.

**Reads.** A query is compiled first: the checks of its clauses, the split of the
filter into pushed equalities and the rest (`Pushable`, `WhereEq`), the projection
to a view, the hoisting of fallible operators. Its answer is then computed by the
code's two interpreters, `SelectSlice` over rows in memory and `Fetch` over a
table; a join reads two collections one after the other while writers append.
`Upgrade` is a release that adds a field: old rows have no key for it. The
interpreters are operators of a table of rows, so that an answer can be compared with
the rows it was computed from. A term's value, its parts and its conjuncts are
recursive functions over `Terms`, a finite set of expressions closed under operands,
with their `Depth`; a filter that passes its test of pushed equalities is a set of
them, and rows are selected as sets of positions that `Sorted` puts in order, one
`Insert` per row as `sort.SliceStable` would. `Lists` has `Only`, the loop that keeps
the elements of a set, which `RateLimit` and `Reads` share. The numbers of `skip` and
`take` are literals.

### 3.2 Transports

**CircuitBreaker** has `Allow` and `Record` as operators on the breaker's record;
`cooled` says that the cooldown elapsed. **QueueChannel** has producers (the loop
of `Run` over its events), shards (`Take`, `Skip`/`Admit`, handlers, `Record`) and
`Cool`. **KeyedFifo** is the promise about order: a line of events per key. `OfKey`
picks a key's line out of a shard's buffer, walking along it. An event is appended
by one run, once (`OwnEventsAssumption`), so it stands in one place of one line.

**AmqpChannel.** The broker is external and modelled by what the code relies on:
an exchange nothing is bound to drops, an unacknowledged delivery returns to the
head of its queue when the connection breaks (in any order where consumers compete
for one queue), the retry queue's TTL returns a rejected message to the exchange. `TakeDelivery`, `DeliverOk`, `DeliverFails`
and `Ack` are a consumer: after the last attempt it publishes the message to the final
DLQ and acknowledges it in a second broker operation; when the publication fails it
Nacks the message once more, and a connection lost between the two leaves the message
in the DLQ and in its queue (`doubled`). `LoseConnection`, `Redial`, `Install` the supervisor, whose fresh
connection exists before it is installed; `Close` may come between the two.
`orphans` are deliveries whose handler still runs after their connection broke.

**Wiring.** `CmdPlan` is what the main of a group of modules constructs, with the
refusals of the generator; `MainSteps` the order it opens things in, kind by kind and
within a kind in the alphabetical order of the modules (`InOrder`): the databases of a
two-phase module one by one, and within `Wire` a channel for each of its policies behind
a broker. `MainStep` runs it. `MainFails` is a step of the body that fails: a resource
that cannot be opened, an event store that cannot be prepared on a database just opened,
a server that cannot listen; with `run()` the deferred calls close what the body opened.
`MainDies` is a `log.Fatal` that runs no deferred call, of a channel in `Wire` or of the
gRPC server in its goroutine. `CommitEvent` lets a use case commit an event and gives it
to whatever publisher its unit of work was wired to; `ConsumeEvent` is a broker's
delivery to a subscribed policy. The generated program tells events apart by their
bare names, and the programs covered are those in which no two modules declare the
same one (`ProgramsAssumption`); the programs of `MCWiring` are such.

### 3.3 Orchestration and the edge

**Saga.** A declaration fixes the mode and the steps' `down` blocks; every mode but `async`
gets the entry that waits, and its caller may be cancelled with or without a declared
timeout. The
entry looks the id up and puts `Running` in two steps (`Look`, `StartAsync`); the
detached goroutine goes up, runs the infrastructure hook once and goes down;
`AwaitTimeout` answers the caller while it still runs; `SagaCrash` takes all of
the memory. A saga without steps settles at once.

**Worker.** The loop of a schedule reserves a slot (`ReserveFor`), waits for it
(`Paced`), takes a permit and starts a body; a body fails, backs off and tries
again while it keeps its permit; `Cancel` ends the context and `LoopStops` the
loop. Time is counted in ticks, and so are the interval of the limiter and the
delays.

**RateLimit.** `PlanOf` resolves the declarations of interface, route, module and
tier to the list of dimensions; `TokenAllow`, `SlidingAllow`, `FixedAllow` are the
algorithms as functions of an entry and the time; a request passes its dimensions
one action at a time, in memory with the sweep, or in Redis with the local
fallback.

**Routes.** What the generator refuses (`RoutesGenerate`), then a request's way:
version gate, override, tenant, the limit before or after decoding, the body in
the shape of its version, dispatch with the idempotency key, load and append on a
stream tagged with a tenant, the View in the shape of its version. A key keeps the
fingerprint of its Command with the end of its run (`keyed`), `Lapse` ends its window,
and the wrapper is the one of `concurrentRetry: reject`; `Idempotency` has all of it.
`Blank` is a header, a key or a tenant that is absent.

**EventVersions.** A release declares, for every field, whether it has it, its
default and its upcast; releases are rolled out and retired while the rows stay.
A row is written by one, relayed by a second, handed to a policy of a third.

### 3.4 The compiler

**Parser.** The functions of `parser/` as operators that take a parser to the
parser it leaves behind; of the tree only the extent of each declaration is kept.
A file is read one declaration per step. `Member` is the body of every loop and
every cycle of the grammar passes through it.

**Lowering.** A body grows by one statement per step, is checked by the flow
rules, lowered (`LowerBody`) and the Go that came out is run on an input
(`RunBody`, `GoRun`); the same body is run by its own meaning, in which an `and` stops
at a left side that is false and a loop sets the name it assigns where it was declared,
and the two are compared. `Regular` names the five forms left out of the comparison,
each because its Go differs from its meaning or does not compile; the instance has all
of them but the assignment in an arm, and no body assigns a parameter. A local that
nothing reads, which Go refuses, is run all the same. `HasGap` lists what the flow rules
accept and lowering has no Go for.
A dispatch fails in its Handle or, after it, in `tx.Append`.

### 3.5 Instances

`MCIdempotency`, `MCSqlUnitOfWork`, `MCOutboxRelay` stand alone. The other parts
share two: **MCServices** has the parts without fairness (`RateLimit`, `Routes`,
`Wiring`, `EventVersions`, `Reads`, `Lowering`, `Parser`), **MCServicesLive** those
with it (`Saga`, `TwoPhase`, `AmqpChannel`, `Worker`, `QueryCache`,
`QueueChannel`). A behaviour is a behaviour of one part, named by `part`; the
others stand still at one initial state (in `MCServicesLive` at one where no fair
action is enabled). They share no state, so nothing is lost by not interleaving
them, and one run answers for all of them.

## 4. The runs

| Run | Instance | Question |
|---|---|---|
| `idempotency` | 3 requests, 2 keys or none, a waiting use case and one that requires keys and rejects, panics, infra errors, lapses, cleanup | runs under a key are exclusive, one result per window, nobody waits for nothing, replays are honest, stable results, everybody answered, implements `OncePerKey` |
| `idempotency_foreign_replay` | 1 key, two payloads of a waiting use case | finds a replay of another payload |
| `sql_write_postgres` | 3 transactions of 2 tenants, 1 stream, 2 events each, carried and internal types | streams gap-free and owned, the outbox is what was committed |
| `sql_stale_decision` | the same | finds a decision recorded behind events it did not see |
| `outbox_postgres` | 2 writers, 2 relays, batches of 2, 1 crash, purge | no row taken twice, nothing lost or invented, implements `AtLeastOnce` |
| `outbox_order` | 2 streams, 1 relay, 1 crash, rows of a type nobody decodes any more | order per stream |
| `outbox_live` | batches of one row, rows that always fail | every event that can be published is |
| `services_safety` | `MCServices`, below | one property or two of each of its seven parts |
| `services_live` | `MCServicesLive`, below | safety and liveness of each of its six parts, `KeyedFifo` |
| `wiring_policies` | the topologies below, two commits | finds a policy that the rules accept and nothing reaches |
| `event_upcast` | one field, three releases, upcasts of any value | finds an old event that is read without its upcast |
| `lowered_break` | the bodies below | finds a `break` that leaves a Go `switch` and not the loop |

What each part asks in the two shared runs, and its bounds:

| Part | Instance | Properties |
|---|---|---|
| `RateLimit` | 3 requests of 2 addresses, 4 declarations over the three algorithms, tiers, Redis on and off, a clock of 3 ticks, a sweep every 2 calls | `LimitsHold`, `RetryAfterIsExact` |
| `Routes` | 2 requests, interfaces of each tenant and version strategy with 4 sets of routes, two payloads under one key, a UseCase that requires one, a day on which one version sunsets and another is deprecated, one admission | `TaggedStreamsAreOwned`, `VersionsAreHonoured`, `ReplaysAreFree` |
| `Wiring` | 3 modules in 2 services or none, combinations of policies, databases (0, 1, 2), workers, gRPC and 7 sets of channels that the generator accepts, a module alone, one commit | `ServicesAreWired` |
| `EventVersions` | one field that each of 3 releases has or has not, with every default, one written event | `EventsSurviveReleases` |
| `Reads` | 3 rows, or 2 and 1 joined row, of 2 fields of 2 values, 42 compiled and refused queries, both backends, a release in between | `ReadsAnswerTheQuery` |
| `Lowering` | bodies of up to 2 statements out of 53, 5 kinds of owner, 12 inputs | `AcceptedBodiesAreLowered`, `LoweredBodiesAgree` |
| `Parser` | every ordered pair of 26 kinds of declaration; between two others, each kind with any one token deleted, replaced or preceded by 6 kinds of noise | `DiagnosticsAreTrue`, `DamageStaysInItsDeclaration` |
| `Saga` | 2 calls of one key, 4 declarations (asynchronous with and without steps, waiting, a mode nobody knows), 1 crash | `SagasKeepTheirWord`, `SagasSettle` |
| `TwoPhase` | 5 runs whose bodies use 4 databases in different orders, nested loads among them, pools of one connection | `PartialCommitsAreBounded`, `EveryTwoPhaseRunEnds` |
| `AmqpChannel` | 3 messages of 2 keys, 2 partitions, 2 attempts, 1 lost connection or failed publication to the DLQ, closing at any time | `DeliveriesAreSound`, `MessagesSettle` |
| `Worker` | every, cron and continuous schedules, a clock of 3 ticks, sources of 3 to 5 items | `WorkersKeepTheirSettings`, `CancelledWorkerStops` |
| `QueryCache` | 3 calls of one key (one `no-cache`), 1 writer, either backend; the third call comes to a memory cache without a writer (`ThirdCallBound`) | `CachedAnswersAreSound`, `EveryCallReturns` |
| `QueueChannel` | 4 events of 3 keys, 2 shards of 2 places, threshold 2, one type without handlers | `BreakerIsSound`, `ChannelSettles`, `ImplementsKeyedFifo` |

**Why these bounds are enough.** Three requests are what the races on one key
need: one that runs, one that waits for it and one that takes the key between the
release and the wake-up; the second key is there for the store's methods that
walk the map. Three transactions give a loser between two winners of one stream.
Two relays with two rows exercise both skipping and contention, batches of one row
give starvation its best chance. Three calls are a leader, a waiter and a caller
that comes after the landing. Two shards with a shared shard distinguish order per
key from order per shard, and two places make the buffer full. Three messages of
two keys on two partitions put a rejected message behind a later one of its own
key and beside one of another. Two runs that name the same two databases in
opposite orders are what a deadlock over pools needs; a third database that the
body's scan misses is what a panic needs. Three ticks cover a window, its end and
the sweep after it, for limits of one and two. Three releases make a writer, a
relay and a reader that all differ. Three rows are what paging needs to tell skip
from take, and their order from insertion; `MaxRows` counts the rows of both
collections, and a join shows its order with two rows and one to join them with. Two statements are what a declaration
and its use, or a loop and a `break` in it, need; nesting comes from the
statements themselves. Two declarations are what an optional tail of the first
needs to reach into the second, and a damage needs one on either side. Counters
that could grow are bounded by name: `MaxEvents`, `MaxAttempts` (attempts saturate
there, and a publishable row then succeeds), `MaxCrashes`, `MaxSagaCrashes`,
`MaxLosses`, `MaxTime`, `WorkerMaxTime`, `MaxDay`, `RouteQuota`, `MaxCommits`,
`MaxReleases`, `MaxWritten`, `MaxRows`, `MaxOthers`, `MaxDepth`, `MaxStatements`; all other
counters are bounded by the number of calls. `HasPublisher` is `TRUE`: the unit of
work publishes when it is given a publisher, although the mains generated today
give it none.

**Fairness.** `Idempotency`: a handler's goroutine keeps running and
`concurrentTimeout` ends every wait, so each request is weakly fair; panics, lapses
and arrivals are not forced. `OutboxRelay`: the ticker of `Start` fires again and
an open transaction ends, so relays and transactions are weakly fair; crashes are
not, and `MaxAttempts` says a publish that can succeed does so in the end.
`QueryCache`: a call's goroutine runs on and its I/O ends. `QueueChannel`: shard
goroutines run on and handlers return (their context times out); producers and
the cooldown are not forced. `Saga`: the detached goroutine runs on and the caller
that waits for it takes its result; timeouts, arrivals and crashes are not forced.
`TwoPhase`: a run that has its connections, or can take the next one, goes on;
failures are not forced. `AmqpChannel`: the consumer starts, subscribes, redials and
works off its deliveries, and the TTL of the retry queue expires; publishing,
losing the connection and closing are not forced. `Worker`: loops see a cancelled
context, consumers take queued items, bodies return; the clock owes nothing, and
neither does the cancellation. Weak fairness is enough everywhere: every action it
is asked of stays enabled until it or an alternative of the same goroutine is
taken. What a call, a message or a run of a part owes is stated of all those that came so
far, `[]<>(\A ...)`: each of them comes once and what is settled stays settled, so this is
at least `\A ... ~> ...`, with one temporal formula to check instead of one for each.

`CHECK_DEADLOCK FALSE` everywhere: each instance has a finite number of calls,
messages, statements or tokens and stops when they are used up. Whether somebody
is left waiting is asked by the liveness properties instead.

## 5. What is proved

`IdempotencyProofs` proves, for any sets of requests, keys and commands:
`TypeCorrect`, `OwnershipHolds` (the running request owns its record, with an open
channel), `MutualExclusion`, and with them `ExclusiveRuns` (the `RunsAreExclusive`
of the runs); `OneResult`, `StableResults` and `Refinement` (`OncePerKey`).
`RunnerOwnsRecord` alone is not inductive: a second `Begin` could find a record
whose owner is not running. `IInv` adds that an in-flight record belongs to a
request that runs or panicked (`InFlightIsOwned`), that a terminal record holds the
cached outcome of a finished run (`TerminalIsCached`), that a cached outcome inside
its window is still the key's record (`CachedIsTerminal`), and who has run yet at
all (`NotRunYet`, `OverIsDone`). Mutual exclusion follows from ownership, since one
record names one owner; one result from `CachedIsTerminal`, since one record names
one run.

`SqlUnitOfWorkProofs` proves, for any number of transactions, streams, tenants
and connections: `WriterTypeCorrect`, `GapFreeStreams`, `OneOwner`,
`OutboxFollows`, `OutboxMatches`, and with them `SoundStreams` and `SoundOutbox`
(the `StreamsAreSound` and `OutboxIsSound` of the runs). `WriterInv` is needed
because a stream is gap free only together with what open transactions hold: their
rows continue the visible stream without a hole, no key is held twice, and
therefore at most one open transaction extends a stream at a time; what an `Append`
read stays right or its `INSERT` cannot happen. For the outbox, the ids drawn for
one stream follow its numbers inside and across transactions.

`LiveWaits` and `HonestReplays` (the `WaitersWatchALiveRun` and `ReplaysAreHonest` of
the runs) need more than ownership: `AnswersInv` says that whoever blocks took the
channel of the record in flight or one already closed, that a request let past the
limiter uncounted had seen an equal command's result, that a rejecting command never
waits, and that what a replay gives is the result of a finished run of the key.

`OutboxRelayProofs` EXTENDS those of the write side and proves, for any number of
relays: `OwnRows` (`TakenRowsAreOwn`), and `CommittedIsSent` (`SentMatchesCommitted`)
and `OutboxRefinement` (`AtLeastOnce`). `WriterInv` carries over because it speaks of
the rows' ids and events, which no relay changes (`RowsKeepTheirNames`). `RelayInv`
adds that a relay marks only rows it took and that the table holds only types the
channel carries; `DeliveryInv` that a row marked delivered was published. The last
two theorems assume `SameReleaseEverywhere` (every replica knows every type the
channel carries): without it an older replica marks a row it cannot decode, see
Observations.

`QueryCacheProofs` proves `SoundCache` (`CachedAnswersAreSound`) for any calls, keys
and replicas, and any finite set of writers. `CacheInv` ties a call to its flight (`RunsOnce`), a result to the
run it is the outcome of (`ResultsAreOutcomes`, `RunsAreOver`), and an entry to the
invalidations its store had seen when it was written: a generation of Redis counts
them (`GensCount`, `SeenGens`), a memory store holds nothing older than its last
emptying (`Epochs`). The theorem is about when an entry was written, not when its
data were read: a result read before an invalidation may be stored after it, or heard
of by a call that joins its flight (Observations).

`OutboxRelayProofs` also proves `OneRelayKeepsOrder`: `StreamOrderKept` of every
behaviour with one relay (`OneRelay`) in which no publication fails
(`[]NothingFails`), for any writers, batch sizes and crashes. Both hypotheses are
needed: a second relay may publish a later batch first, and a failed row is scanned
after the new ones. `OrderInv` says that what the relay left in the table comes after
what it took, stream by stream (`TakenComeFirst`), and that nothing was published
ahead of a row of its stream that is still to be (`NothingOvertakes`); a commit keeps
both because the ids of a stream follow its numbers, which is `WriterInv`'s part.

`ChannelProofs` is about the two transports. `SoundBreaker` (`BreakerIsSound`) needs the
stage of each shard (`StagesMatch`: past `Take` it has an event in hand, and calls of
handlers left while it handles), since a half-open breaker has a reporter only as
long as every admitted delivery gets to its `Record`. `ChannelIsKeyedFifo` is the
refinement of `KeyedFifo`, step by step: `FifoInv` says that a shard's buffer and hand
hold events of keys that hash to it (`ShardsHoldTheirs`) and that handlers only reached
what was published, so `Publish` puts an event at the end of its key's line, a handler
is reached by the first of its line, and `Record` or `Skip` takes it off. What `OfKey`
makes of a buffer with one event more or less is proved by induction along it.
`BrokerDeliveriesAreSound` proves `DeliveriesAreSound` for any messages, keys,
partitions, attempts and losses. `KeptOnce` names the one way a message is in two
places: it is in the DLQ and its Ack is outstanding or was lost. `Places` adds to `KeptUntilHandled` and
`KeptOnce` what each container holds and that nothing is in one before it was sent;
`LinkIsWatched` that an open connection has a supervisor that will close it;
`QuietPartitions` that without a rejection or a loss a partition is worked off in the
order of its messages: what was handled, what is in hand and what is queued, one after
the other.

`WorkerProofs` proves `SettingsHold` (`WorkersKeepTheirSettings`) for any declaration
whose settings are absent or integers, as `workerConfigInt` demands. `SlotsAhead` puts
the limiter's next slot an interval behind the last one used; `SourceIsTheRest` and
`ItemsAreKept` say where every item is that the source has handed out.

`OrchestrationProofs` proves `BoundedCommits` (`PartialCommitsAreBounded`) for any runs,
bodies, databases and pools. `UnitInv` says by a run's stage and place what it has committed
(`CommittedByStage`) and when its events may be out (`PublishedByStage`). It rests on
`PlansAssumption`, that a plan is a sequence of databases: `SetToSortSeq` returns what
`CHOOSE` gives it, which is out of the provers' reach; TLC evaluates it for the
instance. For sagas it proves `SagasAreSound` (`SagasKeepTheirWord`) for any
declarations, calls, keys and crashes: `RunsFit` gives, by the phase of a run and the
step it is at, which steps are completed and which of them are compensated,
`CallersFit` what a caller may have by then and `StatusFits` what the table of statuses
says. The same invariant gives `AnsweredKeysStartNothing`: as long as no process died, a
call that comes after one of its key was answered starts nothing
(`SequentialRetriesRunOnce`, the action property in the run's `SagasSettle`).

`ServicesProofs` is about five parts of `services_safety`. `HonouredVersions`,
`OwnedStreams` and `FreeReplays` are the three properties of `Routes`, for any
interfaces, calendars, requests, tenants and keys. `RoutesInv` says what a request has
been given at each place of its way (`ReadyToRead`: the version its header names, on a
route that version does not override), who may hold or have ended a key
(`KeysAreHeld`: only the holder ends it, and only the lapse of its window takes a
known end back), and
whose events a stream has (`StreamsAreWritten`: an append follows a load that saw the
tag). `SurvivingEvents` is that of `EventVersions`, for any number of releases, fields,
values and rows: `RowIsExplained` ties a row's bytes to the declarations of the releases
that wrote, relayed and read it, as the codecs composed. `WiredServices` is that of
`Wiring`, for any programs, commits and interleavings of mains, workers and brokers:
`MainsFit` ties the resources a main holds to the steps it has done, and those of a body
that failed to the one it failed at (`OneResource`: without `run()` there is one), and
`CommitsFit` ties what is queued or was heard to a commit of its module. That a main
wires every module of its group before it serves (`MainFacts`) is a fact about the
sequence `MainSteps` computes, proved by induction along `FlattenSeq`; it is what makes
a policy hear every event committed while the main serves. `HeldLimits` (`LimitsHold`)
and `ExactRetries` (`RetryAfterIsExact`) are those of `RateLimit`, for any declarations,
clients, replicas, times and intervals of the sweep. That admissions keep their distance
is not inductive: a limiter decides by its entry, and the history is not in it. `Books`
ties the two, algorithm by algorithm: a sliding window holds exactly the last admissions,
and all others are a period old (`SlidingBooks`); a fixed window has counted every
admission since its window began (`FixedBooks`); the tokens that are left and those
spent since an admission are no more than a full bucket and what the time since
refilled (`TokenBooks`). The books outlive the passing of time (`BooksLapse`) and the
sweep (`BooksForget`): an entry is swept when it is so old that nothing it says
matters any more. For the bucket that takes `staleAfter`, ten periods, to be enough to refill
it, hence the premise of `LimitsHold` on its burst. `Underway` says that every check of
a request is still before it or in the history of its key. What `Only` leaves of an
ascending list of hits is proved by induction along it (`CutHits`).

The fifth is `Reads`: `AnsweredReads` proves `ReadsAnswerTheQuery` for any fields,
terms, queries, views, rows and releases, over either backend. The invariant
(`ReadsInv`) is small: only the field of the second release can be missing from a row,
a join that is under way has seen no more of either collection than there is
(`ReadingOfJoin`), and the answer in sight is the compiled query's result over the rows
there are (`AnswerOfRows`). The weight is in what a result is. Along the depth of terms
it is proved that the recursive functions over them take their steps (`TermRecursion`,
`TermInduction`), that a filter holds where all its conjuncts do and fails where one of
them can (`ConjunctsHold`, `ConjunctsCover`), and that the operators of a query give
numbers unless one fails (`NumbersAreNaturals`). From this follow `PushedFilter` (on
rows with all their fields the pushed equalities select what the whole filter selects,
and nothing in such a filter fails), `InterpretersAgree` (both interpreters give the
page, the count or the failure of the same set of rows), and, by induction along the
table, that `Sorted` gives the order of the key and of insertion (`SortedInOrder`), in
which each row has its rank (`OrderedRanks`) and `paginate` cuts the page asked for
(`RankedPage`). `JoinPairs` is the same for joins: the nested loops meet every pair of
positions once (`PairsCover`), `Only` keeps each pair of a set once (`OnlyKeeps`), and
an equality of two bare fields cannot fail. `AssignedSpells` and `OfferedHasPath` are
the paths of a view's fields. The premise `OfOneShape` of the pages and counts is the
property's own: over rows of the older release the two backends disagree, see
Observations. What is assumed of the constants is what the code's own steps before
this one give: a term's operands are terms of less depth (`TermsAssumption`), clauses
have the expressions they were parsed with (`QueriesAssumption`), names are sequences
of words (`ShapesAssumption`).

The assumptions are the named `ASSUME`s of the modules (what the constants are,
that the distinguished values are different from the others, that writers are
finitely many, that an event is appended once and declared once, that plans are
sequences of databases, that a rate is a count and a unit of time, that terms are
trees), and the hypotheses a theorem names: `SameReleaseEverywhere`,
`OneRelay`, `NothingFails`. TLC evaluates the `ASSUME`s in the runs, and the instance of
the run that checks a theorem's property satisfies the theorem's hypotheses.

Only model-checked:

- liveness and every other temporal property but `StableResults` and the refinements
  of `OncePerKey`, `AtLeastOnce` and `KeyedFifo`, since the proof system covers neither
  fairness nor `ENABLED`;
- what `Lowering` and `Parser` compute (`AcceptedBodiesAreLowered`,
  `LoweredBodiesAgree`, `DiagnosticsAreTrue`, `DamageStaysInItsDeclaration`): these are
  `RECURSIVE` operators and folds over programs. The library's induction theorems take
  an operator as a parameter, which none of the installed provers can instantiate;
  induction over the naturals is proved here for sets instead (`Induction`, by the
  pigeonhole principle) and serves for recursive functions along a sequence or a depth,
  such as `OfKey`, `Only`, `FlattenSeq` and `Value`, but not for `RECURSIVE` operators.
  These two are not rewritten as recursive functions, as `Reads` is: a statement is
  lowered from a lowerer that carries the Go written so far, and a parser returns the
  tree and the diagnostics built so far, so that there is no finite set of arguments
  for such a function to be evaluated on.

## 6. Findings and observations

Five runs show the code doing other than a comment or a requirement of the
repository says (`PROJECT.json`, "findings"): a waiter can be given another
payload's result; a decision can be recorded behind events it never saw; a policy
that the rules accept as in-process is reached by nothing; no upcast of an event is
ever applied; a `break` in a match arm does not leave the loop.

Properties that state what a comment says, are violated, and stand in the modules
without a run of their own:

- `Idempotency.OwnersSettle`: a panicking body leaves its key in flight until the
  process restarts (the wrapper has no `defer`).
- `OutboxRelay.EverySubscribedEventHandled`: a local `AtLeastOnce` policy of a
  module with a real database hangs on an outbox nothing enqueues to.
- `QueueChannel.OneProbeAtATime`: the half-open breaker can have two probes out.
- `Saga.OneRunPerSagaKey`: two calls with one key that both look before either puts
  both start the saga. `Saga.CompensatedMeansUndone`: a `down` that fails counts as
  compensated.
- `AmqpChannel.KeysKeepOrder`: a rejected message comes back behind later ones of
  its key. `AmqpChannel.PublishedIsKept`: before the consumer has bound its queues
  the exchange drops what the broker confirms.
- `RateLimit.DeniedTellsWhenToRetry`: of two results with nothing left the first is
  kept, and that may be the one of a dimension that let the request through.
- `Reads.BackendsAgreeOnOldRows` (`MCReads`): a pushed equality with the zero value
  misses rows whose JSON has no such key; in memory they match.

Met while modelling:

- **Write path.** `codegen/sqlrt/eventstore.go.txt:257-259` speaks of first-in
  first-out by id; ids are drawn before the commit, so a relay can publish a higher
  id of another stream before a lower one commits; order per stream holds.
  `codegen/rtsrc/outbox.go.txt:296-297` describes the order of retries; the scan
  orders by attempts first, so a failed row goes behind all new rows.
  `codegen/rtsrc/outbox.go.txt:287-288` marks delivered a row whose type is unknown:
  during a roll-out an older replica does that to events only the newer one knows.
  `codegen/rtsrc/idempotency.go.txt:348-355` hashes the payload only, so equal
  payloads of two use cases that share a store count as the same command. A retry
  while the first request is in flight is charged by the rate limiter.
- **Two-phase.** The wiring of a use case over several databases has no publisher;
  its scan sees top-level statements only, so a load nested in a loop or a branch
  leads to a nil transaction and a panic; which database an aggregate belongs to is
  found by iterating over a map.
- **Cache and reads.** A `no-cache` call that finds a flight joins it, so its result
  can be older than the call (`codegen/decl_query_cache.go:514`). A result that was
  read before a write can be stored after its invalidation and is then served until
  its ttl (`:526`). `take 0` and `skip 0` mean absent; a fallible operator on the
  right of a pushed equality gives Go that does not compile; both operands of an
  `and` are hoisted, so the second fails even when the first is false; a view field
  that flattens in two ways takes the first; the sort key of a lone item is never
  evaluated; the collections a join reads in memory are filled by nothing.
- **Limiter.** The sliding sweep never drops a key that has hits; the token bucket
  forgets a key too early when its burst is more than ten times its count; `0/min`
  becomes one per minute; while Redis is away each replica counts alone; `FailOpen`
  cannot be reached.
- **Orchestration.** `decl_saga.go:78` and `:440` say a saga of a mode nobody knows is
  asynchronous; `:623` gives it the entry that waits. When an awaited saga times out, its metric never counts. A cron
  field looks four years ahead; the deferred `cancel()` calls of a worker's loop pile
  up; an error of a source makes the loop spin; a panicking body ends the process;
  the limiter paces pickups and not retries.
- **Wiring.** A `via: queue` channel in memory gives its producer and its consumer
  two channels that are not connected; the rules accept a channel in either
  direction while delivery needs origin to module; two policies of one module over
  one RabbitMQ channel compete for one queue; a single producer without a dispatcher
  publishes all of its events to the channel; the workers of a module start before
  later modules are wired; a policy's channel that cannot be opened ends the process in
  `Wire` without the deferred closes, and so does the gRPC server when it stops (the
  model has both, as `MainDies`, and `FailedBodyClosesTheRest` claims nothing of them); no
  deferred call closes the channels of `Wire`; the databases of a two-phase module count
  as one resource, so that alone they make no `run()`, and the second one that cannot be
  opened leaves the first open.
- **Routes.** The tenant of `127.0.0.1:8080` by subdomain is `127`; an override
  matches its path for every method; versions sort as text (`v10` before `v2`); an
  unknown version passes as the current one; an empty body skips the upcast; streams
  of gRPC, overridden and `tenancy: none` routes are untagged and open to every
  tenant; the concurrent first appends of two tenants mix; the store of idempotency
  keys knows no tenants. A window that ends between the limiter's peek and the run
  lets the run go uncharged (`ReplaysAreFree` says so). `Redact()` is generated and never called.
- **Lowering.** `count = count + 1` in a loop declares a new `count`; the right side of
  an `and` that may fail is evaluated even if the left is false; a name first
  bound in a match arm is set without a declaration; a loop's child drops the
  transaction, adapters and context of its parent; two arms that each dispatch do not
  compile; `match ... => Nop` fails to generate and a match of `_` alone is refused;
  duplicate members of an enum and unused locals become Go errors.
- **Parser.** An `Error` passes over unknown content in silence, so a missing `}`
  swallows the next declaration; an `Operator` takes any token for its symbol; only
  the default branch of `parseDecl` synchronizes (REQ-3.7 asks for it in blocks and
  lists too); one damaged token can cost up to 17 diagnostics where
  `parser/cascade_test.go:21-25` allows 3 for the damages it tries; a service of a
  topology without its block takes the topology's brace; `RateLimitTier` is missing
  from `topLevelKeywords`.

## 7. What is not modelled

- **Lexer.** A function from text to tokens without a state worth a property; the
  parser's instance starts at tokens.
- **Resolver, symbols, types and the remaining rules.** The rules that decide
  whether a program reaches the modelled parts are in those parts
  (`checkServiceChannels` in `Wiring`, the flow rules in `Lowering`, clauses in
  `Reads`); the others refuse programs and change nothing.
- **Driver, command line, diagnostics.** Phases in order and printing.
- **Projections, snapshots, generated tests, telemetry, file storage, decimal
  arithmetic.** File storage appears as an operation of a body that can fail;
  telemetry as the metric of a saga; the others keep no protocol with the modelled
  parts.
- **Text.** What the emitters print is modelled where it runs, not as text.
  Encodings (gob, protobuf) appear as "decodes or not"; JSON as the keys that are
  present. SQL is the two tables and their key; isolation levels other than the
  default and server failures other than a lost transaction are left out, as are one
  Redis shared by several services, clock skew between replicas and Go's memory
  model below the mutexes.
