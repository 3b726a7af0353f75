# A verification project for the registry webhook scanner

The program receives webhooks from container registries, queues one scan request
per pushed image, scans the images with a pool of workers through the Sysdig CLI or
the Registry Scanner API, and shuts down in an orderly way.  This directory holds
TLA+ modules that model it, TLC configurations that check them on small instances, and
TLAPS proofs of every safety property that the passing runs check, for every instance.

All paths below are relative to `src/`.

## 1. The system

| Component | Code | State | Operations | What makes it correct |
|---|---|---|---|---|
| Scan queue | `pkg/queue/queue.go` | a buffered channel, `closed`, `depth` | `Enqueue`, `Dequeue`, `Close`, `Depth`, `IsFull`, `IsEmpty`, `Stats` | bounded FIFO; the answer of `Enqueue` is true; no lost wakeup; the counter does not drift; what was accepted is drained after `Close` |
| Worker pool | `pkg/queue/worker.go` | context, wait group, `stopOnce` | `Start`, `worker`, `processScan`, `Stop` | every accepted request is scanned once unless the pool is stopped; panics cost no worker; what `Stop` returns is true; everybody comes home |
| Retry manager | `pkg/queue/retry.go` | `RetryCount` of a request | `ShouldRetry`, `ScheduleRetry`, `calculateBackoff` | counted, bounded, capped, spaced; every job settles |
| Deduplication cache | `pkg/queue/dedup.go` | map of last marks, counters | `IsDuplicate`, cleanup loop, `Stop`, `Stats` | a duplicate has a reason; admissions are a window apart; entries leave |
| Shutdown manager | `pkg/shutdown/shutdown.go` 15-157 | handlers, flag, signal channel | `RegisterHandler`, `WaitForShutdown`, `TriggerShutdown`, `Shutdown` | one shutdown, all handlers run, it returns, "completed" is true |
| Shutdown coordinator | `pkg/shutdown/shutdown.go` 159-234 | four optional functions | `ExecuteShutdown` | the queue is closed behind its users; cleanup comes last; the sequence ends |
| Service process | `cmd/scanner-webhook/main.go` | all of the above | `main` | a clean exit cuts off nothing; the process exits |
| Webhook server | `pkg/webhook/server.go` | the readiness flag, requests under way | `Start`, `SetReady`, `Shutdown`, the handlers | nobody is told "ready" before the workers run; a shutdown in time leaves no request |
| Scan handler, factory | `cmd/scanner-webhook/main.go` 123-193, `pkg/scanner/factory.go` | none | `createScanHandler`, `NewScannerBackend`, validation at the start | nil means scanned; the call ends; what the start has validated suffices |
| CLI scanner backend | `pkg/scanner/cli_scanner.go` | a process, its output, two contexts | `Scan`, `executeWithTimeout` | success is a whole output; no process and no goroutine stays |
| Registry scanner backend | `pkg/scanner/registry_scanner.go` | a remote job | `Scan`, `initiateScan`, `pollScanStatus`, `getScanResult` | success is a completed job; metrics agree; it returns |
| API client | `pkg/scanner/registry_api.go` | attempt, body, response | `makeAPIRequest` | attempts bounded and spaced, bodies closed; a cancelled call returns |
| Scan results | `pkg/scanner/results.go` | metrics, a cache | `ProcessResult`, `GetCachedResult`, `GetMetrics` | metrics are those of the results; the cache serves only what is fresh and counted |
| Authentication | `pkg/auth` | the body of a request, a stream | `Middleware`, `VerifyHMAC`, `VerifyBearerToken` | the decision does not depend on the order of the registries; the body reaches the parser |
| Webhook parsers | `pkg/webhook/parsers` | none | `Parse` of each type, `GetParser`, normalisation | the reference that is scanned is the one of the payload |
| Configuration | `pkg/config/loader.go` | read once | `Load`, defaults, `Validate` | what is accepted can serve |
| Credentials | `pkg/scanner/credentials.go` | none | lookup and validation | the three lookups find the same, but for registries with half of the credentials |
| Metrics, logging, data types, mock server | `pkg/metrics`, `pkg/logging`, `internal/models`, `test/mocks` | output | | (not modelled) |

How they interact.  A request comes through the authentication to a parser, which makes
scan requests of its payload; the server's goroutines call `Enqueue`.  Workers loop:
look at the pool's context, `Dequeue`, `processScan`, which runs the handler of
`main.go` under a ten-minute context and recovers its panics; the handler picks a
backend by the configuration and calls `Scan`.  A failed scan may be given to the retry
manager, which sleeps and enqueues again.  `main` waits for a signal or for the server to fail, then calls
`Manager.Shutdown`, which runs its three handlers - stop the server, stop the pool,
close the queue - concurrently under 30 seconds; the coordinator is the ordered
alternative to that.

Hard behaviours: the channel and the counter of the queue are updated apart, the check
of `closed` and the send are apart, `select` chooses at random between a request and a
cancelled context, timeouts race with what they wait for at five places (pool,
shutdown, API poll, API wait, CLI), lookup and mark of the cache are two critical
sections, cleanup runs between them, the metrics and the cache of the results are two
more, the readiness flag is written by three without a lock, a body is read by several,
and the server may act on a request whose answer is lost.  `PROJECT.json` lists each
hazard at its line with the properties that cover it, or says why none that holds does.

## 2. The modules

| Module | Models | State and actions |
|---|---|---|
| `BoundedFifo` | the abstract promise of the queue | a log, how much of it was taken, who was refused, open or shut |
| `ScanQueue` | the queue | `enq`/`deq` say where each call is; `EnqueueCheck`, `EnqueueSend`, `EnqueueHandOff` (to a receiver that is parked), `EnqueuePanic`, `EnqueueCancelled`, `EnqueueFull`, `EnqueueCount`; the same for `Dequeue`; `Close`. `sent` and `received` are histories |
| `WorkerPool` | pool over the queue; EXTENDS `ScanQueue` | `worker`, `scanning`, `outcome`, `stopper`, `first` (who got `stopOnce`), `waited`; history `started`. The consumers of the queue are the workers, `done` holds the workers whose context is cancelled |
| `ShutdownManager` | `Manager` | `call` per goroutine that waits or shuts down, `run` per handler, `expired` for the timeout |
| `WebhookServer` | the HTTP server | `ready`, where `Start` and `Shutdown` are, `http` per request |
| `ScannerService` | `main` from the registration of the handlers to `os.Exit`; EXTENDS `WorkerPool`, `ShutdownManager`, `WebhookServer` | the handlers' bodies are calls of the pool, the queue and the server; `exited` stops every goroutine |
| `CoordinatedService` | `ShutdownCoordinator`; EXTENDS `WorkerPool` | `step` of the sequence; `accepting`, which the first step ends; `cleaned`; `configured` chosen in `Init`, so that every subset of functions is checked |
| `RetryManager` | retries around a bounded queue of its own | `state`, `retryCount`, `backoff` per job; the two halves of `Enqueue` are `EnqueueCheck` and `EnqueueSend`, between which the queue may be closed; `Contains`, `IsRetriableError`, `CalculateBackoff` with `Width`-bit durations |
| `DedupCache` | the cache | one action per critical section; the racing counters are a load and a store; the cleanup takes its tick (`TakeTick`) before it gets the lock (`Cleanup`) |
| `Config` | the configuration as operators: `Expand` and `ApplyDefaults` of the file, `Validate`, `DetermineScannerType`, `NewScannerBackend`, `GetTimeout` | none |
| `ScanContext` | the context a scan runs in | `ctx` of the handler, `timedOut` of the backend |
| `CLIScan` | one scan by CLI, with process and waiter; EXTENDS `ScanContext` | `cli`, `process`, `waiter`, what was captured |
| `RegistryScan` | one scan by API, with the server as environment; EXTENDS `ScanContext` | `api`, `job` at the server, `reply` under way, `tick` |
| `HandlerPromise` | the abstract promise of a handler to `processScan`: a call ends, once | `result` |
| `ScanHandler` | the start of the process and one call of the handler; EXTENDS `Config`, `CLIScan`, `RegistryScan` | `file`, `request`, `handler`, `backend`, `result`; the CLI scanner may disappear after the start |
| `APIClient` | one call of `makeAPIRequest` | `phase`, `attempt`, what is left of the body, open responses; histories of what arrived and of how long it has waited |
| `ResultProcessor` | `ProcessResult`, its readers and the clock | `step` per result, `metrics`, `cache`; histories `cachedAt` and `served` |
| `ImageReference` | the normalisation of references as operators on texts, sequences of `Tokens` | none |
| `WebhookIntake` | authentication, parsers, credentials; EXTENDS `Config`, `ImageReference` | `stage`, the next registry `index`, the `body` as a stream, the `requests` |
| `ScanQueueProofs`, `WorkerPoolProofs`, `DedupCacheProofs`, `RetryManagerProofs`, `ScanHandlerProofs`, `ResultProcessorProofs` | theorems about the module of that name, section 4 | |
| `ShutdownProofs` | theorems about `ShutdownManager`, `ScannerService` and `CoordinatedService` | |
| `IntakeProofs` | theorems about `WebhookIntake` and `APIClient`, the two ends of HTTP | |

Modules `MC...` give the constants of the runs; where these are plain sets the
configuration gives them itself.  A call is a model value: a request
stands for the one call of `Enqueue` about it, a consumer for a goroutine that calls
`Dequeue`.  Steps are as large as what the Go memory model makes atomic: one critical
section, one channel operation, one atomic addition.  Definitions that begin with
"Mutant of" are not part of the model; they are plausible bugs that show that a
property can fail.

Decisions that a reader should know:

- A send to a parked receiver hands the request over without touching the buffer, as
  the Go runtime does; close and cancellation wake parked receivers.  That matters for
  the lost-wakeup property and for `Depth`.
- Scans may hang where the code does not bound them: `CoordinatedService` and
  `ScannerService` assume nothing about them.  `WorkerPool` assumes that they end for
  its liveness properties; `ScanHandler` justifies that (`KeepsPromise`): whatever the
  scanner and the server do, the call ends.
- The pool's `Stop` has two minutes and the shutdown 30 seconds; the order in which
  the two timeouts pass is left open, which allows more than the clocks do.
- In `ScannerService` nobody enqueues through HTTP, because `handleWebhook` is a stub;
  the calls of `Enqueue` stand for whoever will.
- Nothing in the repository sets the functions of `ShutdownCoordinator`.  In
  `CoordinatedService` they do what the comments of its steps say and return at once, but
  for `Stop`, which has its timeout: `stopAcceptingRequests` lets no new call of `Enqueue`
  begin and does not wait for those that have begun.  A call that has found the queue open
  may therefore still panic under the coordinator.
- No production path calls `makeAPIRequest` or the retry manager.  `APIClient` leaves the
  caller open; `RetryManager` assumes the use that the interface asks for.
- The multiplier of the backoff is a float64 that nobody validates.  In `RetryManager` it
  is the quotient of `Numerator` and `Denominator`, fractions and factors below one
  included; products are exact, and `Truncated` cuts them off as the conversion does.
- `DecisionIsOrderFree` says what the middleware does: a request with the proof of any
  registry passes, and where every registry asks for a proof no other request does.
  Of a request without proof where some registry has auth "none" it says nothing: the code
  lets it in, the specification wants 401 (`UnprovenIsRejected`, section 5).
- `CredentialsAgree` has no precondition: nobody calls `ValidateCredentials`.  Of a
  registry with only a user or only a password it says which lookups find nothing.
- In `RegistryScan` a nonpositive poll interval panics in `NewTicker`; the panic is an
  outcome of the scan.  In `DedupCache` the assumption excludes a ttl below two units,
  for which the cleanup goroutine panics.
- In `APIClient` a body of which the transport read any part counts as consumed.
- In `WebhookIntake` a signature is the secret it was made with, and `SHA256 == ...`
  and the separators are tokens: cryptography and characters are abstracted, splitting
  and joining are not.  `Tokens` may be any set that has the separators and the words
  of the defaults in it.  What `IntakeAssumption` says of payloads is what
  `json.Unmarshal` into the structs of the parsers guarantees.  The parts are put together as the comment at `server.go:101`
  and `openspec/specs/webhook-receiver` say.
- `ReferenceAgrees` asks for names as registries allow them (`WellNamed`): a host with a
  domain and without port or path, no `:` or `@` in a repository, no `@` in a tag, and no
  domain at the front of a repository of Docker Hub.  For a port the code is wrong
  (`PortIsPartOfRegistry`).
- `APIClient` has at most 34 retries, the last whose backoff of 2^n seconds fits into a
  duration; the client is made with 3.
- The average duration of `ResultProcessor` is kept as the sum it is computed from.
- `main.go` does not compile against `pkg/shutdown` and `pkg/config` as they are
  (`LoadConfig`, `NewManager(logger)` with a `*logrus.Logger` for the `*logrus.Entry` that is
  wanted, `RegisterCleanup`, `Shutdown(ctx)`).
  `ScannerService` takes what it evidently means: `RegisterHandler`, and a shutdown
  under the timeout of `main.go`.

What three properties leave out, and why:

- `AnsweredByStartedPool` is about the readiness before the start, not after the shutdown:
  `Start` may set the flag again (`NotReadyAfterShutdown`, section 5).
- `CacheIsTrimmed` ends with `Stop`: nothing removes entries after it, so that the cache
  then grows with the images that are still asked about.
- `ResultInv` says nothing of the minimum once a duration of zero was counted, since the
  code then forgets it (`MinIsLeast`, section 5).

## 3. The runs

| Run | Instance | Shows |
|---|---|---|
| `ScanQueue` | 3 requests, 2 consumers, capacity 2, symmetry | The queue implements `BoundedFifo`; FIFO; `Enqueue` tells the truth; nobody sleeps through a request; "queue is closed" means drained; the counter is off by exactly the calls under way. |
| `ScanQueuePanic` | the same, expects a violation | `Enqueue` panics, see section 5 |
| `WorkerPool` | 2 requests, 1 worker, 2 callers of `Stop`, capacity 1 | No request vanishes between queue and outcome, one late scan per worker, exits have a reason, one `Stop` waits for all; accepted requests are scanned or the pool is stopped; workers and callers come home |
| `ShutdownManager` | 2 callers, 2 triggers, 2 handlers | One shutdown; all handlers start; it returns and tells the truth; a signal is not lost |
| `ScannerService` | 1 request, 1 worker, 1 HTTP request, capacity 1, main and its 3 handlers | The process exits; a clean exit is quiet and loses only what is queued; only a started pool answers |
| `CoordinatedService` | 1 request, 2 workers, all 16 configurations | The queue is closed behind its users, cleanup comes last, and the sequence ends |
| `RetryManager` | 2 jobs, 5 sorts of errors, queue of 1, 1 worker, 3 retries, a factor of 3/2, 16-bit durations | Counts are true, waits are capped and grow, every job settles |
| `DedupCache` | 3 calls about one image, window 2, clock to 5, symmetry | Duplicates have reasons, admitted calls are apart, entries leave, counters are not ahead |
| `ScanHandler` | every field of the configuration in turn good and bad for both types of scanner, 2 requests, 3 exit codes, 2 polls | nil means scanned, one backend runs, its own invariants hold, the start validates enough, the handler implements `HandlerPromise`, nothing stays behind |
| `APIClient` | 5 statuses, 4 values of Retry-After, 3 retries | Attempts are bounded and spaced, bodies are closed, a cancelled call returns |
| `ResultProcessor` | 3 results of 5 sorts, 2 images, TTL 1, clock to 3, symmetry | Metrics are those of the results in any order, the cache serves what is fresh and counted, a line counts once |
| `WebhookIntake` | 4 registries with every combination of authentication and of credentials; payloads with every field present and missing | The decision depends neither on the order nor on earlier reads; the body reaches the parser; references agree with their parts, their normal form and the form by digest; credentials agree wherever a registry has both halves or none |

Why the bounds are enough.  Two consumers and three producers on a queue of two
reach the full queue, the hand-off to a parked receiver, a parked receiver next to one
that is under way, and `Close` in each of these; the proofs of section 4 remove the
bound.  One worker and two requests let it be late with one and on time with the other;
two callers of `Stop` are one that stops the pool and one that blocks behind it; the
proofs lift the safety properties to any number.  Three
retries with a factor of 3/2 reach a product that is cut off and then the cap of the
backoff (7, 10, then 12), and 16 bits hold them without overflow.  A clock of two and a half windows is enough for an entry to be looked up, to
expire, to be cleaned up late, to be marked again and to be misjudged by a call that
looked it up before all that.  One request is enough for the exit of the process:
it is queued, in a worker's hands or scanned when the shutdown begins.  Two polls allow
an early and a late one, and the exit codes 0, 9 and 10 are the ends of the ranges that
`Scan` tells apart.  Three results are two that race for one entry of the cache and one
that a reader finds meanwhile; a TTL of 1 in a clock of 3 lets an entry be served, expire
and be replaced.  Three secured registries are the one that lets a request pass with one
tried before it and one after it.  The only bounds in guards are `MaxTime` (`ClockTicks`)
and `MaxPolls` (`SelectTick`); polling ends by its timeout and not by that bound.

`CHECK_DEADLOCK FALSE` stands where the modelled activity comes to an end and the
program stops or is idle.  What must not get stuck is said by the liveness properties and
by `ParkedHasNothingToDo`.

### Fairness

- `WorkerPool`: weak fairness of every worker, of `Stop`, of the end of the wait and of
  the half of `Enqueue` after the send.  The Go scheduler runs what can run; scans end
  because the handler keeps its promise.  No fairness for enqueueing, closing or calling
  `Stop`.
- `ShutdownManager`: the callers, the goroutines of the handlers up to their start, and
  the clock.  Handlers need not return.
- `ScannerService`: `main`, the manager and the clock only; neither the pool nor the
  server nor a handler needs to run for the process to exit.
- `CoordinatedService`: the coordinator, and `Stop` with its timeout.  Neither scans nor
  calls of `Enqueue` need to end.
- `RetryManager`: attempts end, sleeps end, a worker takes what waits.
- `APIClient`: the steps of the client itself, and that it leaves a wait or a connection
  once its context is done (the `select` and `httpClient.Do` see to that).  Neither the
  clock nor the server.
- `ScanHandler`: the goroutine of the worker (its HTTP requests have a timeout of 30
  seconds), the timeout of the configuration, and that the kernel ends a process that was
  killed and the goroutine that waits for it runs.  The scanner may hang, the server may be
  silent, and the context of the call need not be done.

## 4. What is proved

Every invariant that a passing run checks is proved, and so are its safety properties
over steps (`ImplementsFifo` and `BackoffGrows`): for
any finite sets of requests, workers, jobs, results and images, any capacity including 0,
any number of callers of `Stop`, `Shutdown` and `TriggerShutdown`, of handlers, of HTTP
requests and of calls of `IsDuplicate`, any configuration and payload, from the named
assumptions on the constants alone unless the table says otherwise.

| Theorem | Statement |
|---|---|
| `QueueInvariant` | `QueueSpec => []QueueInv`: types, FIFO order, sent exactly if accepted and once |
| `NoLostWakeup` | nobody is parked while there is something to receive, the queue is closed or its context is done |
| `DrainedBeforeClosed` | "queue is closed" means drained |
| `OneHolder` | no two consumers hold the same request |
| `CounterNeverDrifts` | `depth` is off by exactly the calls between channel and counter |
| `ReportsAreRightAtRest` | `Depth`, `IsEmpty`, `IsFull` are right when no call is between channel and counter |
| `QueueIsFifo` | the queue implements `BoundedFifo` |
| `PoolUsesQueue` | `PoolSpec => QueueSpec`: what is proved of the queue holds in the pool |
| `PoolInvariant` | `PoolSpec => []PoolInv`: a request is at one place between channel and outcome, exits have reasons, one `Stop` waits for all |
| `LateScans` | one late scan per worker |
| `ManagerInvariant` | one shutdown; "completed" is true |
| `ServiceUsesPool`, `ServiceKeepsManager` | the process is a pool, and a manager |
| `HandlersWork` | a handler that has ended has done its work |
| `ExitIsQuiet` | `ServiceSpec => []CleanExitIsQuiet` |
| `AnswersNeedThePool` | `ServiceSpec => []AnsweredByStartedPool` |
| `CoordinatorUsesPool`, `StepsAreInOrder` | under the coordinator the pool is a pool; its steps are taken in order |
| `NobodyMeetsTheClosedQueue` | no client that was let in is refused by the closed queue, no worker finds it closed unless `Stop` has given up |
| `CleanupComesLast` | at the cleanup the queue is closed, and a worker that is left is one that `Stop` has given up |
| `RetryTyping`, `CountsAreAttempts` | a job is queued once; its count is the truth about its scans, whatever the configuration |
| `RetriesAreSafe`, `RetriesAreSpaced` | `BackoffFits => (RetrySpec => []RetryInv)`, and for a multiplier of one or more the same for `BackoffGrows` |
| `DedupInvariant` | duplicates have reasons, counters are not ahead |
| `AdmissionsAreApart` | admitted calls that follow each other are a window apart |
| `EntriesAreTrimmed` | entries leave the cache |
| `HandlerInvariant` | both backends keep their invariants, one runs, what the start has validated suffices |
| `NilIsAScan` | a handler that returns nil has scanned |
| `HandlerKeepsPromise` | `HandlerSpec => PromisedOf!PromiseSpec`: called once, ended once |
| `MetricsAreSafe` | metrics are those of the results counted; a line counts once |
| `ServingIsFresh`, `ServingIsCounted` | what the cache serves is a fresh success of that image, and is counted |
| `CallsAreSafe`, `CallsBackOff` | attempts bounded, bodies closed; before the n-th retry 2^n - 1 seconds have passed |
| `BodiesReachParsers` | the parser reads the body as it was sent, however many have verified it |
| `DecisionsAreOrderFree` | a request with the proof of any registry passes; where every registry asks for one, no other does; in any order |
| `LookupsAreOne` | the three lookups of credentials find the same, but for a registry with half of them, where each finds all that is there or nothing |
| `ReferencesAgree` | the reference, its normal form and its form by digest lead to what the request says |

The queue.  The inductive invariant is the conjunction of the named parts; each
theorem adds one part to those proved before it, and cites them by their theorems.
Types come first, and they tie `held` to the state of the consumer, since a held request
must be one that was received.  `ParkedHasNothingToDo` is inductive with the types: the
only steps that could break it wake the parked (`WakeParked`).  It is what makes the
hand-off sound: a receiver is parked only while the buffer is empty, so that passing it
by does not overtake - `FirstInFirstOut` uses it.  `AcceptedOnce` needs that a request
is sent only from "checked", a state no later one returns to.  `OneHolder` is not
inductive by itself: a second consumer could receive what the first holds unless what is
buffered has not been received (`HeldWasReceived`, `HeadIsNew`, from the first two).
`CounterNeverDrifts` is a count of two finite sets, whose members each step moves by
one.  `QueueIsFifo` maps the buffer to the log and its taken prefix; `EnqueueCount` and
the end of `Dequeue` are stutters, a hand-off is `PassThrough`, everything else is one
step of the abstract queue.

The pool.  Every step of the pool is a step of the queue or leaves it alone, so the
queue's theorems carry over and the pool's own proofs look at its own variables only.
`ReceivedIsScanned` needs from the queue that what leaves the channel has not left it
before (`HeadIsNew`) and that no two workers hold one request.  `OneLateScan` is not
inductive: a worker that was late once must be on its way out, which `LateWorkersLeave`
says, because the check at the top of the loop sees the cancellation.  `ExitHasReason`
needs that what made `Dequeue` fail does not go away (`NothingComesBack`).
That a nil of the first `Stop` is true (the lemma `NilStopIsQuiet`) is read off
`OneStopRuns` and needs no run of its own; the shutdowns use it.

The manager.  That there is one shutdown needs the flag, which `ManagerTypeOK` ties to
the callers that have gone past it; that its wait is over (`DoneMeansEnded`) needs that
there is one, since a second would launch handlers again.

The process.  Its steps are steps of the pool and of the manager (`ServiceStepsPool`,
`ServiceStepsManager`).  `HandlersDoTheirWork` then connects the parts: "ok" of the
pool's handler is a nil of `Stop`, the end of the queue's handler is a closed queue, "ok"
of the server's is a server without requests.  `ExitIsQuiet` combines it with
`NilStopIsQuiet`, `ManagerInv` and the pool's invariant: an accepted request has left the channel or is in it; one that has left it
was started, since all workers have left `Dequeue`; and one that was started has ended,
since none is scanning.

The cache.  What a call is told depends on the cache as it was at the lookup.
`WindowInv` follows a mark from the call that made it through the cache (`EntriesAreMarks`, `MarksAreKept`) into
what another call has seen (`SeenIsMark`, `LookupsMiss`): an earlier mark was seen, or a
later one, or it was cleaned up beyond the window; the judgement then holds because time
only grows.  `CountInv` carries the racy counters: a load that is not stored yet counts
no call that has not answered.  `EntriesAreTrimmed` needs `TrimmedSinceTick`: between two
ticks nothing is older than the window was at the last one.

The coordinator.  Its steps are steps of the pool (`CoordinatorUsesPool`).  What it adds
is the order, `StepsInOrder`: what is closed, stopped and cleaned says how far `step` is.
A client is refused by a closed queue only if its call begins after the close, and by then
`accepting` is false (`ClientsStayServed`).  A worker finds the queue closed, or is there
at the cleanup, only after `Stop` has returned (`ClosedAfterStop`), and not if it returned
nil.  That a call does not panic is not claimed: one that has made its check is not waited
for.

The retries.  `Product` is the loop of `calculateBackoff` as a recursive function, whose
values are fractions.  That
it satisfies its own equation is induction, which is done here by least counterexamples:
a table of the products up to n exists for each n (`TablesExist`), two tables agree
(`TablesAgree`), and the function read off their diagonal is the one defined
(`ProductUnfolds`).  `RetryInv` is inductive only with `BackoffIsOfCount`: the wait of a
job is the one its count asks for.  Its cap then follows, if every product up to
`MaxRetries` is a duration (`BackoffFits`); so does its growth with a multiplier of one or
more, since what is cut off keeps the order (`QuotientGrows`).  The hypothesis is needed -
`RetryManagerOverflow` is a configuration without it that TLC refutes - and the
configuration the program starts with (1 s, factor 2, 3 retries) satisfies it; the count
of the scans needs no such thing.

The handler.  `HandlerSafe` conjoins what each backend keeps by itself (`CLISafe`,
`RegistrySafe`) with what the start has validated: until the CLI scanner disappears,
`ValidateScannerConfig` holds, and `ValidatedIsEnough` shows that the backend of any
request can then be created, because a registry's override was validated too and a name
finds one registry (`NamesAreUnique`).  `NilMeansScanned` needs of the backends that
success is claimed only in the states it names.

The results.  The metrics are sums over the set of the results that were counted;
`MetricsInv` is inductive, each step adds one to the set.  `Extremes` says which duration
the minimum and the maximum are.  `CacheInv` follows an entry from the result that put it
there: an entry is a success of its image that was counted before, since `ProcessResult`
updates the metrics first, and its time is the one of the insertion.

The API client.  `CallInv` adds to the properties where the call is in its loop: every
answer that has arrived so far left something to retry (`ArrivedSoFar`), one body is open
while an answer is at hand (`OpenSoFar`), the waits add up (`WaitedSoFar`).  That two
backoffs of 2^n are one of 2^(n+1) is proved by counting: 2^n is the number of subsets of
`1 .. n`, and a set with one element more has each of them twice (`PowerDoubles`).

The intake.  The loop of the middleware keeps `TriedSoFar`: it knows exactly what the
registries tried so far say by themselves (`AuthenticateRegistry`), and after an early end the rest cannot change
it.  That needs `BodyIsKept`, because a registry asked after another reads a body that
the other has put back.  `LookupsAgree` needs that a name finds one registry at most
(`OneIsNamed`, from `Validate`): the backend that skips registries without a user would
otherwise find another.  The cases are those of which half the registry that was found
has.  `ReferencesAgree` rests on two lemmas about texts - `Cut` finds
what was joined if the left part is without the separator, and nothing if the separator
is not there - and on `BuiltSoFar`: what a parser returns has a repository and a tag, the
reference that goes with them, and is one of the payload's resources (`NthIsThere`).

Left to TLC: liveness and the fairness it needs, which the prover does not reach
(`AcceptedIsScanned`, `WorkersGoHome`, `StopReturns`, `ShutdownReturns`,
`SignalShutsDown`, `ServiceExits`, `ShutdownEnds`, `JobsSettle`, `CancelledReturns`,
`NothingStaysBehind`, and the half of `KeepsPromise` that says that a call ends), and whatever is refuted.

## 5. Where code and text disagree

`ScanQueuePanic` is a finding.  `Enqueue` reads `closed` under the lock and gives the
lock back (`queue.go:42`); if `Close` runs before the send at line 45, the send panics,
although the comment at line 35 promises an error "if queue is full or closed".
Both ways to shut down may meet it: the concurrent handlers of `main.go`, and the
coordinator, which does not wait for calls that have begun.

The disagreements below were met while modelling as well.  They are not in the list of
`PROJECT.json`, but each has a configuration with that one property, which TLC refutes
within seconds (`tlc -config <configuration>.cfg <module>`):

| Configuration, module | Property | What the text says | What the run shows |
|---|---|---|---|
| `WorkerPoolDrain`, `WorkerPool` | `StopDrains` | "system attempts to process as many queued items as possible within the grace period" (`openspec/specs/event-processing/spec.md:101`) | `Stop` cancels before it waits (`worker.go:65`): the worker goes, `Stop` returns nil in time, the queued request is never scanned |
| `WorkerPoolSecondStop`, `WorkerPool` | `NilStopMeansQuiet` | "Waits for in-flight scans to complete with the given timeout" (`worker.go:57`) | after the first `Stop` has timed out, a second one returns nil at `worker.go:83` while the scan runs |
| `ScannerServiceOrder`, `ScannerService` | `StopsAcceptingFirst` | "system stops accepting new webhooks, completes in-flight scans, and exits cleanly" (`event-processing/spec.md:93`) | the three handlers run at once (`shutdown.go:107`): the pool may be cancelled while webhooks are accepted |
| `RetryManagerOverflow`, `MCRetryManager` | `CappedAlways` | "Cap at max backoff" (`retry.go:156`) | the product becomes a Duration before it is compared with the cap and wraps below it; with 16 bits after 14 retries, with 64 bits, a second and a factor of 2 after 35 |
| `DedupCacheOverlap`, `MCDedupCache` | `OneScanPerWindow` | "system skips the duplicate scan" (`event-processing/spec.md:61`) | two webhooks that arrive together are both admitted: lookup (`dedup.go:46`) and mark (`dedup.go:61`) are two critical sections |
| `ScanHandlerOverride`, `MCScanHandler` | `OverrideIsUsed` | "You can override the global scanner type for specific registries" (`docs/CONFIGURATION.md:194`) | the factory compares names, `main.go:163` passes a host: the override is found only if a registry is named as its host |
| `ScanHandlerSecretFile`, `MCScanHandler` | `SecretFilesWork` | "the service will read from `/app/secrets/sysdig-api-token`" (`docs/CONFIGURATION.md:302`) | `os.ExpandEnv` (`loader.go:19`) erases `${FILE:...}` first, and `InjectSecretsIntoConfig` is called by nobody |
| `APIClientBody`, `MCAPIClient` | `RetriesSendTheBody` | "system retries the request up to 3 times" (`openspec/changes/add-registry-scanner-option/specs/registry-scanner-client/spec.md:103`) | every attempt reads the same reader (`registry_api.go:77`): the retry sends nothing |
| `WebhookIntakeUnproven`, `MCWebhookIntake` | `UnprovenIsRejected` | "system responds with HTTP 401 Unauthorized" to an invalid signature and to a missing one (`openspec/specs/webhook-receiver/spec.md:33` and `41`) | one registry with auth "none" sets `authenticated` (`middleware.go:48`): a request with a wrong signature or none is accepted although the other registries ask for one |
| `WebhookIntakePort`, `MCWebhookIntake` | `PortIsPartOfRegistry` | "registry with port": `localhost:5000/myapp:v1` is of `localhost:5000` (`normalize_test.go:111`) | the first colon ends the repository (`normalize.go:48`) |
| `WebhookIntakeMissing`, `MCWebhookIntake` | `MissingFieldsAreRefused` | "HTTP 400 Bad Request" for missing fields (`webhook-receiver/spec.md:89`) | `payload.After[:12]` panics (`gitlab.go:80`) |
| `WebhookIntakeCredentials`, `MCWebhookIntake` | `CredentialsAreComplete` | "incomplete credentials (both username and password required)" (`credentials.go:98`) | `ValidateCredentials` is called by nobody: the CLI gets a user or a password alone (`cli_scanner.go:162`), the API a user alone |

The following do not hold either, and have no configuration, as what they quote is less
of a promise.  Named as an `INVARIANT` in a copy of the module's configuration, each is
refuted.

| Module | Property | What happens |
|---|---|---|
| `ScanQueue` | `DepthIsItemCount` | a consumer counts before the producer does: `Depth`, "the current number of items" (`queue.go:75`), is -1 |
| `ScannerService` | `NotReadyAfterShutdown` | `Start` sets the flag (`server.go:72`) after `Shutdown` has cleared it |
| `RetryManager` | `RetryWaitsForRoom` | `retry.go:137` says "30s timeout for enqueue"; `Enqueue` does not wait |
| `RetryManager` | `ContainsIgnoresCase` | `retry.go:173` says "case-insensitive"; a message as long as the pattern is compared as it is |
| `DedupCache` | `StatsCountEveryCall` | unsynchronised counters lose an increment (`dedup.go:51` and `66`) |
| `ScanHandler` | `TransientErrorsAreRetried` | `registry-scanner-client/spec.md:105` wants three retries; the backend sends each request once |
| `ScanHandler` | `OnTimeIsNormal` | the select may take the timeout although the process has ended (`cli_scanner.go:218`) |
| `ScanHandler` | `EveryScanIsCounted` | a scan that times out is not counted (`cli_scanner.go:77-88`; `scanner_metrics.go:62`) |
| `APIClient` | `RequestsCarryTheToken` | the header is built from the token that was masked "for logging" (`registry_api.go:83`, `190`) |
| `ResultProcessor` | `MinIsLeast` | a minimum of zero stands for none (`results.go:154`), so a result that took no time is forgotten |
| `WebhookIntake` | `NameIsConfigured` | `internal/models/scan.go:12` calls `RegistryName` the name from the configuration; the parsers put the type there |
| `WebhookIntake` | `RequestsAreOfOrigin` | `GetParserByType` takes the first of a type in the order of a map (`registry.go:53`): with two Harbors the request may name the other host |

## 6. What is not modelled

- `handleWebhook` is a stub that answers 200 and `WebhookServer` keeps it so; logging and
  the recovering middleware are left out.
- `env.go`, `InjectSecretsIntoConfig` and the writing of credentials into the environment
  of the command: called by nobody, or stateless output.
- Metrics, logging, the fields of JSON, request identifiers, timestamps: output and data.
- A shutdown handler that panics (it ends the process), `WaitWithContext`, which nobody
  calls, the data race on `m.handlers` between `RegisterHandler` and `Shutdown` together
  with handlers that are registered late, and the list of handlers' errors.
- Collisions of the truncated hash of the cache, and Retry-After beyond 292 years.
- `Start` of the pool called twice or after `Stop`: `main` does neither.
- The mock API server: test support.

## 7. Plan

1. Done: the queue, the pool, both shutdowns, the server and the process, retries, the
   cache, configuration, the handler with both backends, the API client, results, and the
   way of a webhook to scan requests.
2. Done: the proofs of section 4.
3. Compose: retries over `ScanQueue` and `WorkerPool` in place of the queue of its own
   that `RetryManager` has; `WebhookIntake` and `DedupCache` in front of `Enqueue`, once
   `handleWebhook` calls them.
4. Prove: that the calls of the handler in `WorkerPool` are those of `HandlerPromise`, and
   that the queue of `RetryManager` is one that `BoundedFifo` allows.
