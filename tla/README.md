# Formal model of boilerplate-api

TLA+ modules for the behaviour of boilerplate-api (a Node.js / TypeScript API with a
MongoDB store, a Redis cache, BullMQ jobs and a Pub/Sub pipeline) that tests reach least:
what several processes do to the same Redis keys, the same item, the same message or the
same job, when calls fail or processes die in between. TLC checks each model on a small
instance; the theorems in the `*Proofs` modules hold for every value of the constants.

Paths below are relative to the repository (`src/shared/...` is the file
`src/shared/...` of it). `PROJECT.json` lists runs, mutants, hazards, theorems and, for each
definition, the lines it stands for.

## 1. Inventory

| Component | State it keeps | Operations | Talks to | What makes it correct |
|---|---|---|---|---|
| Item use cases (`modules/items/usecases`) | none of their own; items in MongoDB | create, update, delete, show, list | repository, cache, event bus | a write takes effect once, on a live item; reads serve only what was stored; events match writes |
| Cache (`shared/cache`) | Redis: entries with a TTL, one namespace token; per process: the provider chosen at boot | remember, get, set, refreshNamespaceToken, getNamespaceToken | Redis | after a refresh no older entry is reachable; a Redis failure never fails a request |
| Item repository | MongoDB | create, findById, update, delete, paginate | MongoDB | update and delete are atomic and say whether they found the item |
| Redis lock (`infrastructure/redis/redis-lock.ts`) | one key with a TTL; the client of each process | initialize, acquireLock, releaseLock, getRaw, setRaw | Redis | at most one holder; never held for ever |
| Sync cron (`crons`, `modules/example-sync`) | the process: its Mongo connection, its exit code | start: connect, list, publish, disconnect, exit | external API, Pub/Sub, MongoDB | exits always, and not before its publishes are settled |
| Broker and consumer (`infrastructure/messaging`, `consumers`) | the subscription; `mongoConnected`; the handlers under way | publish, subscribe, handle, ack, nack | Pub/Sub, MongoDB | no message lost, no slot kept for good, no work before Mongo is there, every message processed |
| Background jobs (`modules/example-jobs`, `workers`, `infrastructure/jobs`) | Redis: a record per job; per worker: the runs under way | enqueue (immediate, delayed, retry demo), run, retry, recover, shut down, schedulers | Redis through BullMQ | attempts suffice, runs are bounded, outcomes final, clean shutdown, every job ends |
| Data source and HTTP client (`shared/datasources`, `shared/http`) | headers, params, retry, timeout of one shared `Request` | with..., get/post/..., retry loop | external API | a call sends its own headers and params; retries only what is safe |
| Rate limiter (`infrastructure/redis/rate-limiter.ts`, middleware) | Redis counters; per process: the limiters and their insurance counters | initialize, consume | Redis | one counter never lets more than its points pass; nobody is refused early; who is let through was counted |
| API lifecycle (`index.ts`, `instrumentation.ts`, `router/healthcheck.ts`) | phase, signal listeners, provider, connections (the job queue's too) | boot, probes, signals, drain, disconnect, the signal sent again | all of the above | healthy only when dependencies are up; connections closed after the drain; a shutdown is carried through to them |
| Event bus (`shared/events`) | handlers and their wrappers | publish, subscribe, unsubscribe | subscribers | a subscribed handler hears its events, an unsubscribed one does not; a failing handler hurts nobody |
| Request pipeline (`shared/config/app.ts`, adapters, middlewares) | per request; the audit log | parse, audit, route, error mapping | Express, use cases | mutations audited with the status they got; the status says what became of the request |
| JWT middleware | none | read the user of a token | rate limiter | a per-user limit never counts a request without a user |
| Stateless or offline: DTOs, env, loggers, OpenAPI, module generator | none that changes | - | - | unit tests |

### Interactions

API processes share one MongoDB collection and one Redis; nothing coordinates two requests
except those two. The cron and the consumer share only the subscription. The API and the
workers share only the queue in Redis. Inside a process, node runs one continuation at a
time, so an interleaving point is exactly an `await`.

### What is hard here

* a cache fill that straddles a write and its invalidation; intermittent Redis failures
  (token `fallback`, swallowed refresh); processes that disagree about the provider;
* a write whose acknowledgement is lost, a crash between a write and its refresh;
* a lock with a TTL but without an owner check;
* at-least-once delivery with leases, handlers racing for one connection;
* retries, stalls and shutdown of jobs that together decide how often a job runs;
* one mutable `Request` and its fields shared by all concurrent calls of a process;
* limiters that count in Redis, or, call by call, in the memory of each process;
* a shutdown with requests in flight, clients that leave, servers that go away under both, and
  two parties (terminus, telemetry) that listen for the same signals.

Every hazard, with its line and the properties that cover it, is in `PROJECT.json`.

## 2. The modules

| Module | What it is |
|---|---|
| `ItemsCache.tla` | five use cases, cache and repository over several processes |
| `ItemStore.tla` | abstract specification: what the items API promises with no cache in it |
| `MCItemsCache.tla` | bounds for TLC: the requests clients send, symmetry |
| `ItemsCacheProofs.tla` | type correctness, `StaleExplained`, `EventsMatchWrites`, `DeletedOnce` |
| `ItemStoreProofs.tla` | `ItemsCache` implements `ItemStore`, step by step |
| `RedisLock.tla`, `RedisLockProofs.tla` | the lock, with a clock |
| `SyncPipeline.tla`, `SyncPipelineProofs.tla` | cron, subscription and consumer |
| `JobQueue.tla`, `JobQueueProofs.tla` | service, queue and workers |
| `HttpClient.tla`, `HttpClientProofs.tla` | one data source and its `Request`, shared by concurrent calls, and an `Http` instance |
| `RateLimit.tla`, `MCRateLimit.tla`, `RateLimitProofs.tla` | the limiters, their counters and the middlewares, over several processes |
| `HttpRoutes.tla` | the routes and what the pipeline decides of a request without state: methods, statuses, audit fields, the first step of each handler |
| `EventBus.tla` | the domain event bus of one process |
| `ApiProcess.tla`, `MCApiProcess.tla`, `ApiProcessProofs.tla` | one API process from boot to its end: composes `EventBus` and `HttpRoutes` with requests, health, audit and shutdown |

### ItemsCache

State: `db` (MongoDB), `token` and `entries` (Redis), `provider` (per process, what
`CacheManager.initialize` settled on), and per request the local variables of the async
functions it is in: `pc` (its next remote call), `tok` (the token of `buildKey`), `cand`
(`newToken`), `val` (`freshValue`), `reply`. One action per remote call:

| Actions | Code |
|---|---|
| `TokenGet`, `TokenSetNx`, `TokenReget`, `TokenError` | `getNamespaceToken`, run twice by `remember` (in `get` and in `set`) |
| `EntryGet`, `Load`, `EntrySet`, `...Error` | the rest of `remember` |
| `Find`, `Write`, `Refresh`, `Publish`, `...Error` | update, delete and create |
| `MongoError`, `WriteUnacked`, `Unacked` | a rejected query; a write that happened and looked as if it had not |
| `Expire`, `LoseToken`, `Crash` | TTL, eviction, a process that dies and boots with either provider |

Abstractions: a version of an item is the name of the request that wrote it; an entry's value
is a function from the items its key covers to versions; one listing key stands for all;
`paginate` (a count and a find) reads one snapshot; an entry may expire at any moment, which
covers every TTL; `randomUUID` is a counter. Ghost variables (`hist`, `wrote`, `refreshed`,
`readTok`) appear in no guard.

`ItemStore` has five actions: `Submit`, `Apply` (the one point at which a write takes
effect), `NoteAbsent`, `Respond` (only with a value made of versions the items have really
had; "not found" only if it was or is so) and `Lose`. `ItemsCache!Promise` is the refinement
mapping: a request between its write and its answer has "wrote"; a fill that holds null has
noted the item absent. The promise leaves freshness out on purpose, because the code does not
keep it; what it does keep about freshness is `StaleExplained`.

### RedisLock

`owner`/`expiry` are the key, `ready` says which processes ran `initialize`, `now` is a clock.
No entrypoint of the repository calls `initialize` or takes a lock, so callers follow the
protocol of the methods: acquire, work, release. The SET and its answer are one step when it
succeeds (an answer that comes late is a longer "working"); a SET or DEL that errs may have
run or not. `strays` collects the callers that held on for a whole TTL or were let in without
a key.

### SyncPipeline

`cron` is the program counter of `BaseCron.start` around `DispatchExampleSyncUseCase`;
`publish` the state of each `topic.publishMessage`; `box` the subscription; `slot` one
handler per outstanding delivery; `connected` and `flag` are `MongoHelper.connection` and
`BaseConsumer.mongoConnected`. `OnMessage` is what the code runs: `BaseConsumer.onMessage`,
which throws, and the catch that nacks (see section 4). A stale handler's nack does not take
back a message that is already delivered to another slot.

### JobQueue

`job` is the BullMQ record (state, attempts, attempts made, stalls, lock), `runs` the runs
in worker processes. A run carries the token of its lock; an outcome counts only while the
run holds it. Stall detection and lock expiry are one step (`Recover`, `LoseLock`). Removal
of old finished jobs and the job schedulers are left out; BullMQ itself is modelled from how
the service and the worker use it and is marked external.

### HttpClient

`source` is `params` and `runtimeHeaders` of a `DataSource`, `request` the `_params` and
`_headers` of the `Request` it owns; both are shared by the calls of the process. Params and
headers are named by the call that set them, and each is optional (`Querying`, `Labelling`).
Per call: `pc`, `attempt`, `reply`, and `sent`, the fields of its last attempt.

| Actions | Code |
|---|---|
| `Begin` | the `with...` calls and `execute` up to the await of `before()` |
| `Send` | the copy of the fields into the `Request` and its first attempt |
| `Answer` | a response of any status, with whatever data; it ends the loop |
| `Refused`, `TimedOut`, then `Retry` | an attempt that fails, and the catch of `Request.execute`: the next attempt, with the fields the `Request` has by then (`SendAgain`), or the error (`GiveUp`) |
| `Finally` | the `finally` of `DataSource.execute` |

`http` is `params` and `headers` of an `Http` instance, which behaves the other way round:
`param` adds and nothing clears, `withHeaders` replaces, and every call builds a `Request` of its
own (`BeginHttp`). `executed`, `lost`, `overlap` and `earlier` are ghosts: how often the server
executed a call, how many of its attempts ended without an answer, which calls were in flight
with it, which came before it. A response is one value, whatever its status and whether its data
could be parsed (`null` otherwise); `Response.throw()` is a call its user may make on it. Left
out: the tokens (set once, never cleared), timeouts and TLS options.

### RateLimit

`limiter` says per process which branch of `initialize` it took, if any; `counter` and `window`
are the points of each counter and its number in the sequence of counters of its key (a new one
starts after `Expire`); a request carries the verdict on its way back (`over`, `judged`) and,
as a ghost, every counter that counted it (`counted`).

| Actions | Code |
|---|---|
| `Initialize`, `Restart` | `RateLimiter.initialize`, both branches; a process that dies with its memory |
| `Arrive` (`Unauthorized`, `KeyOf`) | the JWT middleware, `getIp` and the key of the limiter |
| `ConsumeRedis`, `Reply` | `consume`: the script in Redis, and its answer |
| `ConsumeMemory`, `RedisError` | the limiter in memory; the insurance after an error, whether or not Redis had counted |
| `FailOpen` | the middleware's catch, when the limiter is undefined |

No start calls `initialize` today, so `Initializing` is a constant: the processes in it show what
the limiter does once wired, the others what the code does now.

### EventBus, HttpRoutes, ApiProcess

`EventBus` keeps what `LocalEventBus` keeps: the map of recorded wrappers and the emitter, as a
count of wrappers per event and handler. `HttpRoutes` has no variables.

`ApiProcess` has `phase` (boot, cached, listening, draining, closing, closed, down), `exit`
(what ended the process: a failed start, a signal), `listeners` (who listens for SIGTERM and
SIGINT), `provider`, `conn` (its connections to MongoDB, to Redis and, of the job queue, to
Redis once more), `server` (are these really there), `audit`, and one record per request: `pc`,
route and body, `answer`, whether the audit middleware saw it (`audited`), whether its client
is `gone`, and what happened on its behalf (`wrote`, `heard`). `up` and `down` are history:
which servers a health check met, and which were away when a call failed.

| Actions | Code |
|---|---|
| `InitCache`, `Start`, `StartFails` | `index.ts`: `Cache.initialize`, connect, `registerItemEventHandlers`, terminus, listen; the catch |
| `Arrive`, `ParseBody`, `RejectBody` (`Dispatched`) | terminus' probes before Express; `express.json()`, then the audit middleware, router, controller and parse in one go |
| `Find`, `Read`, `Write`, `Publish`, `MongoError` | the item handlers, one action per kind of await; the refresh of the cache never fails and is part of `Publish` |
| `QueueReady`, `Enqueue`, `QueueError` | the connection the job queue makes on import, and the job handlers: before it was first connected a command waits without limit, afterwards it is given up while Redis is away |
| `EffectUnacked` | a server executes a mutation and goes away before it says so |
| `Ping` | the health checks: one after the other in `/healthcheck`, both at once in `/readyz` |
| `Finish` | `res.on('finish')`: the audit entry |
| `Signal`, `DrainDone`, `DrainTimeout`, `Disconnect`, `Resend` | terminus around `onSignal`; at the end it stops listening and sends the process the signal again |
| `BusCall` | `subscribe` and `unsubscribe` of other modules |
| `Outage`, `Recovery`, `ClientLeaves` | the outside |

What a query finds is left open (other processes write too); what the cache answers is the
subject of `ItemsCache`. The connections of a process are monotone: a MongoDB that was away
comes back under the same connection (the driver reconnects).

Signals: `instrumentation.ts` is imported first and listens for SIGTERM and SIGINT, only to shut
the telemetry down. Its listeners stay, so node's own answer to a signal is off from the start: a
signal before terminus listens changes nothing (`Signal` needs terminus), and the one terminus
sends at the end is taken by them too. The process then ends only once nothing holds its event
loop, and the connection of the job queue, which `index.ts` never closes, holds it: `Resend`
leads to "closed". That phase is not the end: handlers whose clients are gone still run in it. A
shutdown of the telemetry that rejects is left out, like a crash.

## 3. Runs, bounds, fairness

| Run | Question | Bounds | Distinct states |
|---|---|---|---|
| `items_cache` | causes of stale entries, one delete per item, events and writes; refinement of `ItemStore`; every request answered | 2 requests, 2 processes, 2 items (one seeded), all operations, 2 faults | about 1.13 M |
| `items_invalidation` | is invalidation complete? (no) | 3 requests (a list, writes of either item), 2 processes, no fault | violated |
| `redis_lock` | exclusion, the key comes free | 3 callers, TTL 2, clock to 6, 1 fault | about 380 000 |
| `redis_lock_fail_open` | does an unreachable Redis grant? (no) | 3 callers | violated |
| `sync_pipeline` | cron exits settled, no loss, no leak of slots | 2 resources, 2 slots, 2 faults | about 3 500 |
| `sync_consumption` | are messages processed? (no) | 2 resources, no fault | violated |
| `job_queue` | attempts, starts, shutdown, outcomes, termination | 2 jobs, 2 workers, 2 runs each, 2 signals, 2 faults | about 300 000 |
| `http_client` | whose params and headers a call sends, how often it is executed, every call ends | 2 calls on a data source, 2 on an `Http`, 1 retry, refusals without limit, 1 timeout | about 390 000 |
| `http_retry` | does only a refused connection lead to a retry? (no) | 2 calls, 1 retry, 1 timeout | violated |
| `rate_limit` | does the limit hold, who is refused, who passes uncounted | 3 requests, 3 processes (2 initialise), points 1 and 2, 1 fault | about 420 000 |
| `api_process` | what 5xx, health, audit and success may mean; a shutdown is carried through, requests end | 2 requests, 1 visiting handler with 2 wrappers, 1 fault beside servers down at boot | about 640 000 |
| `api_shutdown` | does a signal end the process? (no) | 1 request, no fault | violated |

Why these are enough: two requests are a reader and a writer or two writers, and each property
of the items relates two requests and an entry; a stale entry needs the two, a third request
could only read it or be one more writer. Two processes are enough to disagree about the
provider and to lose one of them, and two faults lose a token and fail a call after it. For
more requests and faults there are the theorems. Three lock callers are the stray, the one it
robs and the one it lets in. Two resources over two slots give every race for the Mongo flag
and a redelivery next to a running handler. Two workers with two runs each let one job run
twice at once, in one process or in two, while the other job keeps a worker busy. Two calls on
a data source, one that sets both kinds of fields and one that sets only headers, overlap or
follow each other; two on an `Http` instance do the same beside them; one retry lets a call be
retried and give up, or all four be retried next to each other; refusals have no limit, so that
only the count of the attempts ends the loop, and one timeout lets the server execute a call
twice. Three limited requests are two that spend the points and one too many, with one process
that sees the shared address directly and one that sees it through a proxy; one fault puts a
request into the insurance or restarts a process between two of them. Of the two requests of
the API process, one is of any shape (every kind of handler, body and health route) and the
other a read that holds the drain up; servers may be away from the start and come back, beside
one further outage or one client that leaves. The fault budget (`MaxFaults`) is one number for
every kind of failure, so each single failure (two, where the budget is two) occurs at every
point; failures do not accumulate beyond it. What the bounds leave out the theorems of section
5 cover.

`CHECK_DEADLOCK FALSE` is set everywhere: clients, clock and faults are finite, and a system
with nothing left to do stops.

Properties, by what would have to go wrong:

* `StaleExplained`: an entry the current token reaches disagrees with the database only if a
  write to its items has not refreshed the token, or the fill read before a refresh and
  built its key after it. Those are all the causes; a new one breaks the property.
* `DeletedOnce`: two deletes (or a delete and an update) of one item never both succeed and
  the deleted item never comes back.
* `EventsMatchWrites`: no event without its write, and not before the refresh; no success
  without its event.
* `ImplementsItemStore`: the refinement above. `EveryRequestAnswered`: no path hangs.
* `MutualExclusion`, `LockComesFree`: the lock excludes as long as nobody is a stray, and
  neither a crash nor a lost DEL nor a lost answer holds it for ever.
* `CronExitsSettled`, `CronExits`, `NoWorkWithoutMongo`, `NoMessageLost`,
  `EveryDeliverySettled`: the pipeline, each a line of the inventory.
* `RetriesSuffice`, `StartsBounded`, `CleanShutdown`, `FinishedForGood`, `EveryJobFinishes`:
  the jobs; `StartsBounded` ties attempts, stalls, double runs and crashes together.
* `NoLeftovers`, `AloneSendsItsOwn`: what a request carries comes from its own call or from one
  in flight at the same time, and for a call alone on its data source exactly from itself. The
  code promises no more: two calls that overlap do send each other's fields.
* `FacadeSendsAllSoFar`: every attempt of a call on an `Http` instance sends the params of all
  calls made on it so far and the headers of one of them: none of a later call, also in a retry.
* `ExecutedOncePerLoss`, `EveryCallEnds`: an answer ends the retry loop, so that only an attempt
  that was lost lets the server execute a call again; and the loop ends, since every attempt that
  fails is counted, however many do.
* `LimitHolds`, `RefusedOnlySpent`: one counter never lets more requests pass than its points, and
  refuses only when more than these were counted there, however the answers are delayed. The limit
  is per counter: with Redis away each process starts another one.
* `PassedCounted`: a request passes uncounted only where `initialize` never ran.
* `FailuresExplained`: a client that is still there gets a 5xx because a server was away or its
  item was deleted under it, and never because of a shutdown, although `onSignal` closes both
  connections at once. The drain makes it so: `DrainedAnyway` breaks it.
* `HealthTruthful`: 200 means every server was met; Redis need not be met by a process on the noop
  provider, which is what `/healthcheck` and `/readyz` really say then.
* `AuditComplete`: which requests have an entry, and that it carries the status they got.
* `AnswersFit`: a 2xx mutation took effect and its event reached the handlers of the boot; a 4xx
  changed nothing and was not heard of. A 5xx may be either.
* `ShutdownCompletes`, `GracefulEnd`: a signal to a listening process is carried through to the
  end of terminus' shutdown, whatever servers and clients do, and then nobody waits for an answer
  and MongoDB and the cache are disconnected (or were away). That the process exits is promised
  and not so: `ShutdownEnds`, section 4.
* `EveryRequestEnds`: requests under way end, except job requests whose queue has never found
  Redis: they wait as long as Redis is away (`StuckOnQueue`).
* `SubscribersHear`: who hears an event.

Every property of a passing run has a mutant: a plausible bug in a mapped definition, defined
next to it, under which TLC finds the property violated.

Fairness:

* `ItemsCache`: weak fairness of each request's next step. Remote calls settle (ioredis gives
  up after `maxRetriesPerRequest`, the Mongo driver after its timeouts) and node runs the
  continuation of a settled promise. None for the environment: nothing has to expire or fail.
* `RedisLock`: weak fairness of the clock only. Callers may stay inside for ever; the key
  comes free because of its expiry alone.
* `SyncPipeline`: weak fairness of the cron's steps and of each handler; strong fairness of
  the delivery of a message that keeps being deliverable, which is Pub/Sub's redelivery. Weak
  fairness would not do: the slots fill and empty all the time.
* `JobQueue`: weak fairness of BullMQ's promotion and stalled check, of fetching, of running,
  of the exit of a signalled worker that is idle, and of the restart of a worker that is down
  (the deployment's task). None for signals and faults.
* `HttpClient`: weak fairness of each call's `Step`, its failures included: `before()` resolves, and
  an attempt is answered, is refused or times out (`headersTimeout`, `bodyTimeout`); which of these
  is not assumed, so every attempt may fail. None for `Begin`.
* `ApiProcess`: weak fairness of what the process does by itself, as one action: it does not stop
  while something of its own is possible. Not assumed: that a server recovers, or that a certain
  request gets its turn. `ShutdownCompletes` therefore rests on the timer of the drain and
  on disconnects that settle; `EveryRequestEnds` on the MongoDB driver and the cache, which answer
  or time out, on a queue that was connected once, which gives a command up after its retries, and
  on sockets that are closed when no body comes (`requestTimeout`). Of a queue
  that was never connected nothing is assumed until Redis is there. Left out is a handler that
  awaits for ever with its server up.
* `RateLimit` has no liveness property and no fairness.

## 4. Where the code and its documents disagree

* `items_invalidation`: `RedisCacheProvider.remember` builds its key twice, before and after
  the resolver. Read, then commit and refresh by a writer, then set: the old value lies under
  the new token until its TTL. The documentation calls invalidation atomic.
* `redis_lock_fail_open`: with Redis unreachable an initialised lock answers `false`; the
  documentation says it grants.
* `sync_consumption`: `makeConsumer` hands `BaseConsumer` to `createConsumer`, so the
  subclass's `onMessage` is never called and every delivery is nacked.
* `http_retry`: `isNetworkError` is true of every error without a numeric `statusCode`, a
  timeout or a broken connection included, so a request the server may have executed is sent
  again. The documentation says only a refused connection or a DNS failure is retried.
* `api_shutdown`: with no failure at all a signalled process closes its server, MongoDB and the
  cache and stays. `index.ts:19` does not set `useExit0`, so terminus sends the signal again; the
  listeners of `instrumentation.ts:44-45` take it; the queue's connection keeps the process alive.
  `docs/architecture.md:275-279` ends the list of the graceful shutdown with "Exit cleanly".

Smaller ones, which the models follow and no run refutes:

* `docs/architecture.md:159` has the audit middleware record all mutations. A mutation with
  malformed JSON is answered before it (`app.ts`: the parser comes first), and one whose client
  has left never emits `finish`. `AuditComplete` states both exceptions.
* `docs/architecture.md:186` has every error answered with all problem fields, `instance` among
  them; domain errors (`domainErrorToResponse`) are sent without `instance` and as
  `application/json`.
* The audit entries of the scheduler routes name `schedulers` as the resource id, never the
  scheduler (`ResourceInfo`).
* `RateLimiter.initialize` and `RedisLock.initialize` have no caller, so today every limited
  request passes uncounted and every lock is granted.
* `docs/architecture.md:273` has `/healthcheck` answer 503 when any dependency is down, and line
  263 has `/readyz` ping Redis: on the noop provider, whose ping always resolves, both say Redis is
  up. `HealthTruthful` states the exception.

## 5. What is proved

All theorems are of the form `Spec => []Inv` (two are action properties, and one is the
refinement `Spec => Promise!Spec`) and hold for every value of the constants under the modules'
named assumptions: `NoX` values differ from the real ones, bounds are naturals, the TTL and the
configured attempts are positive, the set of resources is finite, a create names an item and a
list the listing key.

| Theorem | Argument |
|---|---|
| `ItemsCacheProofs!TypeCorrect`, `StaleEntriesExplained` | `StaleExplained` is not inductive: it says nothing of a fill that has read and not stored. The invariant adds: which local variables a request holds at each step; that every token in use is at most `minted`, so a refresh produces one that no fill has read under; and that a value in hand is fresh, unless its `readTok` is no longer the token or a write to its items is unrefreshed. A commit makes its own request unrefreshed; a refresh changes the token under every fill and entry. |
| `ItemsCacheProofs!EventsAreMatched`, `DeletesHappenOnce` | `HistInv` adds the history of each request to that invariant: it writes before it refreshes and refreshes before it publishes unless Redis or its process failed, and has no answer until it is done, so an event fixes all of its request. For deletes: an id is created by one request only, and until that create's write the item is absent and undeleted; a write other than that one needs the item present, so after a delete none is possible. |
| `ItemStoreProofs!StoreIsImplemented` | `Init` maps to `Promise!Init`, and every step of `ItemsCache` is a step of `ItemStore` or a stutter: a commit is `Apply`, a load that finds nothing and goes on to fill the cache is `NoteAbsent`, whatever ends a request is `Respond`, an arrival is `Submit`, a crash is `Lose`, and all that moves tokens and entries is invisible. That an answer is `Permitted` needs `StoreInv`, inductive together with the two invariants above: what is cached or in hand has been stored once, an item nobody has written yet has only been absent (so a create finds a free id), a value is held only between the load and the end of its fill, and a request is answered exactly when it is done. TLC checked `StoreInv` on a small instance before it was proved. |
| `RedisLockProofs!TypeCorrect`, `LockExcludes` | With no strays, whoever is inside owns the key and its expiry is its `since` plus the TTL; the clock step that would remove the key makes its owner a stray. |
| `RedisLockProofs!LeaseStaysBounded`, `LeaseStaysFixed` | A taken key is at most a TTL from its expiry, which no call changes while the key is taken: so with a clock that runs the key is gone a TTL after it was set, which is the safety half of `LockComesFree`. |
| `SyncPipelineProofs!TypeCorrect`, `CronSettles`, `MongoFirst`, `MessagesStay` | The pending publishes exist only in the step that awaits them and the count is taken after; `flag` and the steps after it imply `connected`, and nothing but a crash, which clears all of them, unsets it; a sent message is in the box and nothing acks it. |
| `JobQueueProofs!TypeCorrect`, `RetryDemoCompletes`, `StartsStayBounded`, `ShutdownIsClean`, `FinishedStaysFinished` | A budget per job: starts equal attempts made plus stalls, plus one once the job is active or completed; attempts made stay below the attempts until the job ends; a lock is held only by an active job and by the run that was given it; a job that neither a Redis error nor a stall has touched has not failed more often than `failUntil`. |
| `HttpClientProofs!TypeCorrect`, `NothingIsLeftOver`, `AloneIsClean`, `FacadeIsFaithful`, `ExecutionsBounded` | Calls in flight together know of each other; the data source holds only what calls in flight have set, and the `Request`, while a call waits, only what it or a call it overlapped has set; a call that overlapped none finds its own fields at every step; before its answer a call was executed no more often than its attempts were lost; a facade's `Request` is its call's own and never written again. |
| `RateLimitProofs!TypeCorrect`, `NobodySlipsThrough`, `LimitIsKept`, `RefusalIsEarned` | None of the three is inductive: they compare requests with points and say nothing of the counter between. The invariant (`CountInv`) ties them: the points a counter shows are the number of requests it has counted since it started, and counters to come have counted none. Counting then either stays within the points (`LimitInv` grows by one only below them) or says `over` with more than the points counted (`OverInv`). An error or a restart moves a request to another counter and leaves the first one's count. |
| `ApiProcessProofs!TypeCorrect`, `FailuresAreExplained`, `HealthIsTruthful`, `AuditIsComplete`, `AnswersAreFit`, `ShutdownIsSettled`, `SubscribersDoHear` | `Fits` says what the record of one request may look like at each step (which routes reach it, nothing written before the write, whom a failure blames, what a ping that is out still has to meet); most actions replace one record by another that fits, and `RequestStep` says that is enough. `PhaseInv` adds that no request precedes the boot and that while connections close every request in flight has lost its client, so no error then reaches anyone; `BusInv` that the logger stays on the emitter whatever other handlers do; `AuditInv` that entries and finished requests match. |

Model-checked only: liveness (`EveryRequestAnswered`, `LockComesFree`, `CronExits`,
`EveryDeliverySettled`, `EveryJobFinishes`, `EveryCallEnds`, `ShutdownCompletes`,
`EveryRequestEnds`),
which the prover does not reach under fairness. Every invariant, every action property and the
refinement that a passing run checks are also proved.

## 6. Not modelled, and the plan

All components with a state that changes under concurrency or failure now have a module. What
could follow:

1. An abstract per-call specification for `HttpClient` and the refinement it has for calls that
   do not overlap.

Left out, and why:

* The job schedulers and the scheduler process: each operation of the code is one call of BullMQ,
  done by one script in Redis; what repeats afterwards is BullMQ's. Their routes are in
  `ApiProcess`.
* A crash of the API process: in `ApiProcess` it is the behaviour that stops, which every safety
  property allows for; what it does to shared state is in `ItemsCache`.
* The order in which subscribers see the events of concurrent requests: the code promises none.
* DTO schemas, configuration, logging, OpenAPI: stateless, or read once. Of an input the models
  only know whether it is good, wrong or no JSON.
* CORS preflight, the bodies of answers, several requests on one keep-alive connection, the
  headers of the limiter.
* The module generator (a development script that writes files), and MongoDB, Redis, Pub/Sub and
  BullMQ beyond what the code relies on.

## 7. Running it

    tlc -workers 2 -config ItemsCache.cfg MCItemsCache
    tlc -workers 2 -config ApiProcess.cfg MCApiProcess
    tlc -workers 2 -config JobQueue.cfg JobQueue
    tlapm ApiProcessProofs.tla
