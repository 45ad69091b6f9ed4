# rentfree in TLA+

TLA+ models of rentfree: the resilience patterns (`internal/resilience`), the
Redis layer and the Manager (`internal/cache`), the metrics tracker and the
background publisher (`internal/metrics`), and the way a configuration comes
about (`internal/config`). TLC checks them on small instances; the TLA+ proof
system proves their safety properties for every number of goroutines and every
configuration (see "What is proved").

The models follow the Go code statement by statement where goroutines can see
the difference (atomics, channels, mutexes, commands sent to Redis) and leave out
what they cannot (payloads, wording, latencies).

## The system

| component | source | state | operations | meets others through |
|---|---|---|---|---|
| circuit breaker | `resilience/circuit.go` | state (atomic), counters and `openedAt` (under `mu`), listener | `Allow`, `RecordSuccess`, `RecordFailure`, `Execute`, `Reset` | callers, listener callback |
| bulkhead | `resilience/bulkhead.go` | semaphore channel, four atomic counters | `acquire`, `release`, `Execute*` | callers |
| retry policy | `resilience/retry.go`, `errors.go` | three atomic totals; loop variables per call | `Execute*`, `IsRetryable` | wraps the breaker |
| policy | `resilience/policy.go` | the three above | `Execute`, `ExecuteWithResult`: bulkhead, then retry, then breaker | called by the Manager around Redis |
| Redis layer | `cache/redis.go` | `connected`, `errorCount`, write queue, `pendingWrites`, stop channels | `Get`, `Set`, `Delete`, `GetMany`, ..., `Close`; write worker; health checker | the Redis server; the Manager |
| memory layer | `cache/memory.go` | bigcache, counters, `closed` | `Get`, `Set`, `Delete`, `Clear`, ... | the Manager |
| Manager, data path | `cache/manager.go` | the two layers, `sfGroup` | `Get`, `Set`, `GetOrCreate`, `Delete`, `GetMany`, `SetMany`, `Clear*` | layers, policy, background goroutines, singleflight |
| Manager, shutdown | `cache/manager.go` | `closed`, `bgMu`, `bgWg` | `runBackground`, `Close`, `CloseWithTimeout` | background goroutines, layers |
| metrics | `metrics/*` | atomic counters, latency ring; publishing loop | `Record*`, `Snapshot`, `Reset`; `Start`, `Stop` | the Manager, the user |
| configuration, public API | `config/*`, `pkg/rentfree/*` | one `*Config`, which `NewManager` writes to | `Load`, `LoadWithEnv`, `Validate`, `New*`, options | everyone |
| types | `types/*` | none | key validation, levels, declarations | everyone |

A call of the Manager checks `closed`, goes to memory, then through the policy to
the Redis layer. A value found in Redis is copied to memory by a background
goroutine. A `FireAndForget` write goes into the Redis layer's queue. The policy
keeps a slot of the bulkhead for the whole retry loop, and every attempt asks
the breaker.

What is hard here, and what has to hold:

* **circuit breaker**: `Allow` loads the state before it takes the mutex, so it acts
  on a state that may be gone; outcomes arrive in a state other than the one that
  granted the request; callbacks run outside the mutex. The probes of the half-open
  state must not leak, the counters must fit the state, the listener must end up with
  the right state, and the breaker must get back to closed, or keep tripping.
* **bulkhead**: a load, a check and an increment without a lock, and three ways
  out of the queue. No token and no gauge may leak, the number of operations inside is
  bounded, and everybody gets out.
* **policy**: the nesting. No more than the bulkhead's slots reach Redis,
  retries included; a refusal ends the call.
* **Redis layer**: three kinds of goroutines write `connected`; a write is counted
  after it is queued; `Close` takes the goroutines down one by one.
* **Manager**: two layers and no lock around the pair; background copies with values
  read earlier; entries that Redis drops when their TTL is over and memory when it needs the
  room; one factory call for many callers; work that must not start once `Close` waits.
* **tracker**: counters that are added to, read and cleared one at a time. The ring must
  hold the latest latencies in order, and a snapshot must not be further apart than
  the order of its loads allows.
* **background publisher**: the last publish comes after the end of a context, while events
  are still recorded; a second `Start` changes the context that the first loop waits for.
* **operations on several keys**: loops over keys, shards and pages that can fail, or be
  overtaken by `Close`, at every turn. No layer may report success for a key it was never asked for,
  and where the two layers do not mean the same by a pattern it must be clear how far apart they are.
* **configuration**: defaults, file, environment and options override one another in a
  fixed order, are validated in between, and the options stay in the `*Config`.

`PROJECT.json` lists every hazard at its line, with the properties that watch it.

## The modules

An action is one operation, or one step of it between two points where another
goroutine can run; it carries the name of the function or of the statement it stands
for. `pc` (in `Bulkhead` `at`, in `RetryPolicy` `stage`) says where a goroutine is.
Definitions that stand in front of another one and that nothing uses
(`DropsTransition` before `Unlock`) are faulty forms of the one that follows: with the
fault in place TLC finds the property named for it in `PROJECT.json` violated, which
shows that the property can fail.

| module | models | notes |
|---|---|---|
| `CircuitBreaker` | `circuit.go` | `cb` is what the mutex guards, one action per critical section; the lock-free load is `LoadState`. `openElapsed` is `time.Since(openedAt) >= openDuration` and becomes true by `Elapse`. `pending` is the `*stateTransition` a goroutine still has to invoke; `seen` is what a listener can add up from its callbacks. |
| `ProbeQuota` | the same | counts the probes that a half-open period grants (`probes`) and the goroutines that had seen the breaker open when it began (`herd`) |
| `CircuitBreakerProofs` | | theorems of `CircuitBreaker` and `ProbeQuota` |
| `ConcurrencyLimit` | what a bulkhead promises | `Enter`, `Leave`, at most `Slots` inside |
| `Bulkhead` | `bulkhead.go` | one action per atomic or channel operation, deferred ones included; `started` counts calls from outside, to compare the code's totals with |
| `BulkheadProofs` | | theorems, refinement of `ConcurrencyLimit` |
| `RetryPolicy` | `retry.go`, `IsRetryable` | a loop without its body; errors are the classes `IsRetryable` tells apart |
| `Policy` | `policy.go` | composes the three modules: an attempt is `CB!LoadState` ... `CB!Record*` |
| `PolicyProofs` | | theorems: what those of the parts say of the whole |
| `RedisCache` | `redis.go` | clients, `"worker"`, `"health"` and `"closer"` as threads; values and keys are left out |
| `RedisCacheProofs` | | theorems |
| `Manager` | data path of `manager.go` | one key; a value is the number of the write that made it; each call of a layer is one step. Memory loses its entry by `Evict`, Redis by `Expire`, the end of the TTL it was given (README.md:50: `WithTTL` is for Redis only), each at any time |
| `ManagerRaces` | the same | remembers whether two writes overlapped, or one went to one layer only or overlapped a background copy (`raced`), whether memory gave up its entry or was passed by (`lost`), and the last value whose TTL in Redis ended (`expired`) |
| `ManagerProofs` | | theorems of `Manager` and `ManagerRaces` |
| `ManagerShutdown` | `runBackground`, `CloseWithTimeout` | `waited` is the closed channel `done` |
| `Tracker` | `tracker.go` | one action per `Add`, `Load`, `Store` and critical section; `log` is every latency since the ring was last emptied |
| `BackgroundPublisher` | `background.go` | a report is the number of events it tells; `on` is the context the select of a loop waits for, `due` what was recorded when a context ended |
| `MetricsProofs` | | theorems of `Tracker` and `BackgroundPublisher` |
| `Patterns` | `matchPattern`, and Redis's glob as its reference | keys and patterns are sequences of symbols; `Wild` says what `?` and classes such as `[12]` stand for; `Simple`, `Literal` and `Overlaps` say where the two readings agree |
| `Batch` | `GetMany`, `SetMany`, `DeleteMany`, `Clear`, `ClearByPattern`, with the loops of `memory.go`, `redis.go` and `disabled.go` | one call, key by key, while `Others` change everything between two steps; `seen` collects what each layer held, at some moment of the call, as the call wants it |
| `BatchProofs` | | theorems |
| `Config` | `config/*.go`, `NewManager`'s options, `rentfree.go` | settings that are treated alike share a member; a number is usual, another, or one that `Validate` refuses |
| `LifecycleProofs` | | theorems of `Config` and `ManagerShutdown`: how a Manager comes about and how it ends |
| `MCPolicy`, `MCManagerRaces` | | the symmetry sets for TLC |
| `MCBatch` | | the keys and patterns for TLC, among them patterns that the layers read differently; compares `matchPattern` with the glob on all words of up to four symbols |

Composition: `Policy` instantiates `Bulkhead`, `RetryPolicy` and `CircuitBreaker`
and uses their actions unchanged. `Bulkhead` implements `ConcurrencyLimit` with
`Slots <- totalSlots`, `inside <- Holding`. Since every step of `Policy` is a step of the
breaker and of the bulkhead or none of theirs, what is shown of each alone holds inside the policy;
what the composition itself can get wrong is what the run `Policy` checks. `Manager` uses the Redis layer by what it
promises (an operation is done, fails, or finds the layer unavailable), and
`RedisCache` has the inside of that layer. `Batch` is about one call on several keys and
leaves to `Manager` how calls on one key interleave.

## The runs

Passing runs:

| run | properties | shows |
|---|---|---|
| `CircuitBreaker` (module `ProbeQuota`) | `TypeOK`, `NoProbeLeak`, `CountersFitState`, `HerdIsLimited`, `NotificationsAddUp`, `Recovers`, `TripsWhenDown` | 3 goroutines, `Reset` at any time, thresholds 2 and 2, one left at its default |
| `Bulkhead` | `TypeOK`, `NothingLeaks`, `CallsAreCounted`, `EveryCallReturns`, `LimitsConcurrency` | 4 callers for 2 slots and a queue of 1: a queue that is overrun |
| `Policy` | `CallsNest`, `BackendLoad`, `RefusalIsFinal`, `QuietPolicyServes` | 3 callers, 2 slots, 2 attempts |
| `RedisCache` | `PendingIsAccounted`, `NoWriteAfterClose`, `CloseReturns`, `Reconnects`, `NoticesOutage` | a client and the worker sending commands, the health checker, `Close`, a queue of 2, disconnect after 2 errors |
| `Manager` | `FlightIsLed`, `EveryCallReturns` | 2 clients, `GetOrCreate`, `Set`, `Delete` and `GetMany` at levels `redis` and `both`, `FireAndForget` or not, every fault |
| `ManagerRaces` (module `MCManagerRaces`) | `OnlyRacesDivide`, `CreatedOnce` | 2 clients, every operation at every level, `FireAndForget` or not, eviction from memory and expiry in Redis, no faults |
| `ManagerShutdown` | `WorkIsCounted`, `LayersOutliveWork`, `LayersCloseOnce`, `NoAddAfterClose`, `CloseReturns` | 2 users, 2 closers, work that may never end |
| `Tracker` | `RingHoldsTheLatest`, `CountsAddUp`, `SnapshotFitsTogether` | 2 goroutines recording 3 events of 3 kinds, a reader, a `Reset` at any time, a ring of 2 |
| `BackgroundPublisher` | `FinalPublishTellsAll`, `StopAlwaysReturns` | 2 `Start`s, `Stop` and `PublishNow` at any time, 2 events, parents that end, a last publish that panics |
| `Batch` (module `MCBatch`) | `EachLayerIsServed`, `GetManyFindsAll`, `SparesTheRest` | every operation on every subset of 3 valid keys and an invalid one, 4 patterns, at every level, each layer enabled or not, any content, an error at every step, `Close` in between |
| `Config` | `BuiltFromValid`, `StrongestSourceCounts` | 15 settings and 2 variables of DataDog, any two of them given by file or environment, then any options for any number of managers |

One run ends in a counterexample, where the code does something else than the
documentation says: `Manager_default` checks `GetOrCreateDegrades`, after README.md:18
("Continues working when Redis fails, falling back to memory cache"). With Redis
disabled or unavailable, a memory miss in `GetOrCreate` goes to `getFromRedis`, whose
`ErrRedisUnavailable` is not a cache miss: `GetOrCreate` returns it and never calls
the factory.

### Observations

Met while modelling; where state is involved the models' actions reproduce it. None
has a run of its own.

Resilience:

* `circuit.go:122`: a goroutine that loaded `StateOpen` before another made the breaker
  half-open sets the count of probes back to 1, so that more than `HalfOpenMaxRequests`
  probes of one period can run at once; `circuit_test.go:229` expects the next one to be blocked.
  `CountersFitState` sees nothing of it, as the count itself stays in its quota; `HerdIsLimited` says how many
  probes there can be: `HalfOpenMaxRequests` for each goroutine that had loaded `StateOpen` by then.
* `circuit.go:132`: a goroutine that loaded `StateHalfOpen` is granted a probe even if the breaker has
  opened again in the meantime. `HerdIsLimited` counts it among the probes of the period.
* `circuit.go:98`: every error of an operation is a failure, a cache miss too. Misses
  alone open the breaker of a healthy Redis; README.md:39 speaks of Redis going down. No property
  watches this: `RefusalIsFinal` is about the breaker's refusals, not about what makes it refuse.
* `circuit.go:121`: a goroutine that loaded `StateOpen` before others took the
  breaker through half-open to closed moves it back to half-open; line 16 describes
  closed as the state of normal operation, left by failures.
* `circuit.go:278`: `Reset` changes the state without the callback that
  line 259 announces for state changes (`NotificationsAddUp` speaks of all other steps).
* `circuit.go:132`: `SuccessThreshold > HalfOpenMaxRequests` is accepted;
  the probes run out before the successes are reached and the breaker stays half-open.
  `TripsWhenDown` and `Recovers` are checked, and `HalfOpenIsNoTrap` proved, without it.
* `bulkhead.go:95`: the queue's limit is checked before, and apart from, the
  increment; more callers wait than `bulkhead_test.go:229` has in mind.
* `errors.go:65` retries a cache miss, which `types/errors.go:81` calls
  not retryable; `errors.go:49` answers for every `net.Error`, so the tests for refused and reset
  connections at 52-56 are not reached.

Cache:

* `manager.go:200`: the copy to memory that a `Get` starts holds the value it read; if it
  runs after a `Delete` the deleted value is back in memory
  (`redis_integration_test.go:580`: "deletes from both layers"). `OnlyRacesDivide` makes an
  exception for it.
* `memory.go:236`: `matchPattern` knows one star. In `*foo*` it takes the first, and in `a*b*c` all of
  them, literally, `?` and `[..]` too, and it matches `ab*ba` with the key `aba`; Redis's glob does none of
  this. `ClearByPattern` (`manager.go:573`) accepts every pattern and gives it to both layers.
  `EachLayerIsServed` and `SparesTheRest` hold memory to the glob as far as it goes: it takes all
  that the glob takes of a pattern with at most one star and no wildcard, and of a pattern without wildcards
  nothing else but the keys in which the two ends of the pattern overlap.
* `redis.go:161`: `WithTTL` and the default TTL are for Redis (README.md:50); `memory.Set` knows no TTL, and a
  value that `manager.go:200-201` copies from Redis starts a new lifetime in memory. `Set` with a TTL
  of a second, and a second later memory has the value and Redis does not, without any race.
  `OnlyRacesDivide` makes an exception for the last value whose TTL in Redis has ended.
* `manager.go:364`, `471`, `529`, `557`, `583`: `Delete`, `GetMany`, `SetMany`, `Clear` and `ClearByPattern` call the
  Redis layer without the policy. `BackendLoad` bounds the calls that go through the policy, which
  are those of `Get`, `Set` and `GetOrCreate`.
* `types.go:85`: the default options have a TTL of 5 minutes, so `options.TTL == 0` holds only after
  `WithTTL(0)`: `defaults.ttl` and `redis.defaultTTL` have no effect otherwise.
* `redis.go:187`: the write is counted after it is queued, so `pendingWrites`
  (line 447) can be -1 for a moment; `PendingIsAccounted` says by how much it is off.
* `redis.go:186`: a write accepted while `Close` runs can stay in the queue
  although `redis_integration_test.go:381` expects the queue to be drained.
* `redis.go:266`, `478`: a ping or a command that succeeds late sets `connected`
  again after `Close` has cleared it.
* `manager.go:476`: `GetMany` copies to memory at level `RedisOnly` too
  (README.md:46 says the level bypasses memory).
* `manager.go:671`: a second `Close` returns at once, while the first is still
  closing (657-658 promise that the layers are released).

Metrics:

* `background.go:70`: the loop reads `b.ctx` on every turn, without a lock; after two
  `Start`s `Stop` has to wait for the first loop's next tick, and an earlier context is never
  cancelled (`StopAlwaysReturns` holds because that loop turns to the latest context).
* `background.go:65`: an interval of zero or less makes `NewTicker` panic in the loop's
  goroutine; `Validate` does not look at `publishInterval`.
* `datadog/publisher.go:141`: `mergeTags` appends to the shared slice of base tags.

Configuration:

* README.md:126 and `examples/config.example.json` write durations as strings ("5m"); the
  fields are `time.Duration`, which `json.Unmarshal` reads from numbers only, so that
  `Load` refuses such a file.
* README.md:117 enables Redis with `New(WithRedisAddress(...))`; the option sets the
  address (`manager.go:70`) and Redis stays disabled, the default.
* `loader.go:34`: a file that the environment would put right is refused before the
  environment is looked at.
* `rentfree.go:15`: `NewFromConfig` validates nothing. `Config` starts from the configurations
  that the package itself makes; what a program assigns to the fields of a `*Config` is not modelled.
* `manager.go:71`: a second manager built from the same `*Config` inherits the options of the
  first. `StrongestSourceCounts` counts the options of all managers so far, so it does not object.

### Bounds

* Goroutines: two or three. The races above need two; three let one goroutine hold a
  stale value across a whole cycle made by the other two. `Bulkhead` takes four so that
  both slots are taken and two callers meet at a queue of one. In `RedisCache` a client and
  the write worker are two goroutines that send commands, next to the health checker and `Close`.
* `CounterSpan`: totals that only grow (`totalExecuted`, `rejectedCount`, the retry
  totals) wrap there instead of at 2^64; `CallsAreCounted` compares them modulo the
  same number. Where no property reads them it is 1.
* `seen` is kept modulo 3, the number of states: enough to tell which state a
  listener believes in.
* `errorCount` stays at `disconnectErrorThreshold`, beyond which the code does not
  tell values apart; the threshold is 2 instead of 5.
* `HerdIsLimited` reaches its bound: with three goroutines and a quota of 2, two that had seen the breaker open are
  granted four probes.
* `MaxValue`, `MaxBackfills`, `MaxPendingWrites` (Manager): how many values are ever
  written, how many background copies of one value run at a time, and the length of the queue. One
  value more than clients lets a third write follow two that raced.
* `MaxWork` (ManagerShutdown): background goroutines at a time.
* `MaxRecords`, `MaxResets` (Tracker): three events wrap a ring of two, and one `Reset`
  meets each of them at every step.
* `MaxStarts`, `MaxRecorded` (BackgroundPublisher): the second `Start` is what changes
  the context of a loop; the second event is one that comes after what is due.
* `Batch`: three keys and four patterns: a prefix; `us*su`, whose ends overlap in the key `usu`; `*s*`, whose second
  star memory reads as a prefix's and the first literally; `[us]1`, a class that memory reads literally, with
  a key of that very name. Two pages of SCAN and an empty one fit in. `Close` and `Others` need no bound: the call has finitely many steps.
* `MaxGiven` (Config): two settings show every pair that meets in a condition of
  `Validate` or `applyEnvOverrides`, or comes from two sources.
* The run `Manager`, which checks liveness, leaves out `Get` (the first half of
  `GetOrCreate`), `SetMany` (a `Set` that ignores `FireAndForget`) and the level `memory`;
  `ManagerRaces` has them.

Symmetry is used in `Policy` and `ManagerRaces`, whose properties are safety
properties; the goroutines are interchangeable there.

### Fairness

Weak fairness of a goroutine that is inside a call stands for Go's scheduler and for
operations that return; nobody has to make a new call. `Elapse` is fair because time
passes. In `Bulkhead` the timeout makes `GiveUp` always possible, so weak fairness of
`Proceed` is what the timer gives. In `RedisCache` a select with two ready cases picks at
random, hence strong fairness of seeing a closed stop channel; the server (`Flip`) and
the failing of commands are not fair, and the properties say what they assume of them. In
`ManagerShutdown` the lock is handed out fairly to `Close` (Go's mutex has no
starvation) and the background work is not fair at all: the timeout has to do. In
`Manager` a write that is retried is not retried for ever (`maxAttempts`).

In `BackgroundPublisher` a loop goes on (ticks come, publishers return), and the select
is strongly fair to an ended context, as in `RedisCache`; nobody has to call `Start` or
`Stop`. `Batch` and `Config` have no liveness: a call may fail anywhere, and they stop where it returns.

In `CircuitBreaker` the requests keep coming (`LoadState` is part of `Step`): `Recovers`
and `TripsWhenDown` speak of a breaker that is used.

## What is proved

`tlapm` checks these for any finite set of goroutines and any integer
configuration, from the assumptions named in the modules (`BreakerAssumption`,
`BulkheadAssumption`, `ShutdownAssumption` and the like: the sets are finite, numbers are
numbers; where one says more it is named below).

* **Circuit breaker.** `TypeCorrect`, `CountersAlwaysFit` and `ProbesAccountedFor`
  (`NoProbeLeak`). `CountersFitState` and `NoProbeLeak` are not inductive by themselves: the
  proof adds where goroutines can be while a transition is pending (a pending
  transition to half-open belongs to a request that is counted in flight), so that each
  step moves `halfOpenRequests`, `consecutiveSuccs` and the number in flight together.
  `HalfOpenIsNoTrap` draws the conclusion: if `successThreshold <=
  halfOpenMaxRequests`, a half-open breaker nobody is probing has a probe left. This
  is the safety half of `Recovers`; without the condition the breaker can stay half-open
  for ever (see Observations).
  `TheHerdIsLimited` (`HerdIsLimited`): the probes granted, those the quota still has and, while the breaker
  is half-open, a full quota for each goroutine that can still restart the count come to at most
  `halfOpenMaxRequests * herd`; a restart takes one goroutine out of the last of the three.
  `ListenerMissesNothing` (`NotificationsAddUp`): `seen` plus what the outstanding callbacks are worth
  moves by as much as the state, modulo 3. The sum over the goroutines is written as the sizes
  of two sets, those who owe 1 and those who owe 2, and a step moves one goroutine in or
  out of one of them. `ListenerKnowsTheState` adds that nobody calls `Reset`, which tells no
  one: then a listener is right whenever no callback is outstanding, in whatever order they came.
* **Bulkhead.** `TypeCorrect`, `SlotsAreReturned` (`NothingLeaks`) and
  `BulkheadLimits` (`LimitsConcurrency`). The invariant is that tokens and gauges equal the sizes
  of the sets of goroutines at the places that hold them; each action moves one goroutine
  and one counter. The refinement follows: a token is added only below `totalSlots`.
  `EveryCallIsCounted` (`CallsAreCounted`) has the same argument, except that the totals wrap
  at `CounterSpan`, any positive number: a few lemmas on remainders, which the provers do not find for a
  divisor that is not a numeral, come first.
* **Shutdown.** `WorkCounted`, `LayersAreClosedLast`, `LayersAreClosedOnce`,
  `AddsPrecedeClose`. The invariant says who can be between Lock and Unlock, that `closed`
  is false while a user is about to `Add`, that one closer only got past the swap, and
  that after `Wait` has returned the count stays zero.
* **Background publisher.** `FinalPublish` (`FinalPublishTellsAll`), from
  `PublisherAssumption`. From the moment a loop has seen its context ended the select is not
  evaluated again, so the context it waited for and what is due of it stay; the report of
  the last publish is made after that, and what is recorded only grows.
* **Tracker.** From `TrackerAssumption`. `LatestLatencies` (`RingHoldsTheLatest`): slot by slot, the invariant
  says which entry of the log is at which index, for any size of the ring, before and
  after it is full; the two parts that `Snapshot` copies are then put together as one sequence.
  `CountersAgree` (`CountsAddUp`) counts the goroutines that have added to a layer's counter and not
  yet to `getCount`. A `Reset` in progress stores zeroes in a fixed order, and the invariant says which counters
  are zero already and that no goroutine is recording, or else `raced` is set. `SnapshotsFit`
  (`SnapshotFitsTogether`): nothing that a reader has loaded exceeds what the counter holds now, the four
  layers' counters are loaded before `getCount`, and the latencies are copied before any counter is loaded. Each
  of these holds while the snapshot is being taken because the counters only grow as long as no `Reset` runs.
* **Configuration.** From `ConfigAssumption`. `OnlyValidIsBuilt` (`BuiltFromValid`): a configuration that is built from
  passed `Validate` when it was loaded, or is one of those the package starts from, which are valid; the options
  keep it valid, those that take an address included. `StrongestSource` (`StrongestSourceCounts`): the
  proof goes through the sources of each setting from the strongest to the weakest (options, DataDog's
  variables, ours, the file, the defaults) and shows for every way to start, to load and to add
  options that a stronger source is never overwritten by a weaker one.
* **Policy.** From `PolicyAssumption` (an error of the backend is any but the breaker's own
  `ErrCircuitOpen`). `CallsAreNested` (`CallsNest`) and `RefusalsAreFinal` (`RefusalIsFinal`): the
  invariant says where a goroutine can be in the breaker, the loop and the bulkhead at once,
  and that with a refusal on its hands it is on its way out of the loop.
  That the composition behaves as `CircuitBreaker` says is a lemma (each action of `Policy` is one of its
  actions or leaves its variables alone); it carries the theorems above into the policy.
  `BackendIsShielded` (`BackendLoad`) uses the same of the bulkhead: who is in
  the backend holds a slot (nesting), and there are as many tokens as holders
  (`SlotsAreReturned` of the instance). `PolicyListener` is `ListenerKnowsTheState` inside the
  policy, which never calls `Reset`. `QuietPolicyIsWhole` (`QuietPolicyServes`) puts the parts together: after any history of calls,
  when nobody is in the policy every slot is free, no gauge is left up, a listener is right, and a
  half-open breaker grants the next request (if `successThreshold <= halfOpenMaxRequests`).
* **Redis layer.** From `RedisAssumption`. `PendingAccounted` (`PendingIsAccounted`) is inductive with
  the types; `WritesPrecedeClose` (`NoWriteAfterClose`) needs that the closer reaches the client
  only once the worker has left.
* **Manager, one key.** From `ManagerAssumption`. `FlightHasALeader` (`FlightIsLed`), with any faults:
  the invariant ties each place of a goroutine to the operation it is in, so that none can be
  in the flight's function without being its leader. `RacesAloneDivide` (`OnlyRacesDivide`) adds
  `NothingFails` (Redis enabled, no fault of a layer, room for a queued write; entries may be evicted and expire). Without a race at most
  one write is under way, to both layers and with no copy in flight; the invariant says, for each
  place of that one write, what the layers hold, and that a copy in flight carries what Redis holds, or what it held until the TTL ended.
  `FactoryRunsOnce` (`CreatedOnce`) adds that the memory layer refuses nothing: once the factory has
  succeeded its value is in memory or about to be put there by the flight's
  leader, so that the second `Get` of every later flight finds it.
* **Manager, several keys.** From `KeysAssumption` and `SymbolsAssumption` (keys and patterns are sequences of
  symbols), for all patterns. `LayersAreServed` (`EachLayerIsServed`), `NothingIsOverlooked`
  (`GetManyFindsAll`), `RemovalsSpareTheRest` (`SparesTheRest`). The invariant defines, for each
  place of the call, the keys still pending in a layer, and says that every other key was
  seen there as the call wants it, unless that layer reported an error. Keys leave the pending set only by a
  step that does the work or records the error. How far `matchPattern` and the glob agree is proved for words of
  any length: `TakesAll` (of a `Simple` pattern memory takes all that the glob takes) and `TakesNoMore` (of a `Literal`
  one nothing else, but for overlaps). Where a proof goes along the pattern symbol by symbol, it takes the least place
  where the claim would fail (`WFMin`), as induction theorems with an operator as parameter cannot be used.

Every safety property of the passing runs is thus stated by a theorem. Only model-checked:

* liveness, which is out of the prover's reach: `Recovers`, `TripsWhenDown`, `EveryCallReturns` (of `Bulkhead` and
  of `Manager`), `CloseReturns` (of `RedisCache` and of `ManagerShutdown`), `Reconnects`, `NoticesOutage`,
  `StopAlwaysReturns`;
* `GetOrCreateDegrades`, which fails.

## What is left out, and why

* `Stats`, getters, `Contains`, `Health`: they read.
* `calculateBackoff`, `mergeTags`, the characters a key validator rejects: pure
  functions whose result no other state depends on. `Batch` has keys that are rejected.
* bigcache, go-redis and singleflight are modelled by how the code uses them
  (`Evict`, `CallSucceeds`/`CallFails`, `Join`, `Glob`). Of the glob, escapes (a backslash before a star) are left out.
* The lengths of TTLs and of memory's `LifeWindow`: an entry can go at any time.
* The length of timeouts: a timer can fire at any time.
* In `Manager` the breaker and the bulkhead appear as failures of Redis; that
  misses alone can open the breaker is reproduced in `Policy`. `connected` is what
  the Redis layer reports, whatever `RedisCache` says of how it got there.
* After `Close` has begun the Manager starts no operation; those under way go on, as in
  the code.
* Without the health check (`HealthCheckInterval <= 0`) a disconnected layer has no way
  back but a command still under way: `Reconnects` is not claimed of it.
* Percentiles and averages of the latencies, and the values of the latencies: the
  ring's entries are numbered instead.
* `Config` keeps one setting of each kind and takes durations for numbers; settings that the file alone
  can give come from the file or the defaults like the others.
* The serializer and the publishers' output: no shared state.

## Plan

Done, in this order: the patterns one by one and inside the policy; the Redis layer; the
Manager on one key, with its races; shutdown; the tracker; the background publisher;
operations on several keys; configuration. All their safety properties are proved as well as
checked.

What would be next:

* the safety halves of liveness, as `HalfOpenIsNoTrap` is one of `Recovers`: that whoever waits (for `mu`, for
  a goroutine's end, for a flight, for a slot) waits for somebody who is there and can go on, in
  `RedisCache`, `ManagerShutdown`, `Manager` and `Bulkhead`;
* an abstract specification of shutdown (work is admitted while open, the layers end after it) and a
  proof that `ManagerShutdown` implements it unless `Close` times out;
* `Manager` over `RedisCache`: the layer by its inside instead of its promise, for one
  `FireAndForget` write and `Close`. The product of their states is out of reach:
  the composition needs the proved invariants in the place of one of the two;
* the statistics of the layers, once something other than a log line reads them.
