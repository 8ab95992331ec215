# A TLA+ model of the KEDA HTTP add-on

The HTTP add-on scales an app by the HTTP requests that are waiting for it, down
to zero and back. Three processes do this together:

- the **interceptor** is the proxy: it routes each request by the
  `HTTPScaledObject`s of the cluster, counts it, holds it until the app has an
  endpoint, and forwards it;
- the **scaler** asks all interceptors for their counts at every tick and tells
  KEDA what it learned;
- the **operator** turns each `HTTPScaledObject` into the `ScaledObject` that has
  KEDA ask the scaler.

The modules here model the parts of these processes where goroutines, informers,
caches and failures meet. Lines below are lines of the repository.

## Inventory

| part | state | operations | what is hard | properties |
|---|---|---|---|---|
| counter `pkg/queue/queue.go` | in-flight count and buckets per host | Increase, Decrease, EnsureKey, UpdateBuckets, RemoveKey, Current | a key goes or comes back under a running request | `PendingNeverOverstated` `PendingExact` |
| buckets `pkg/queue/bucketing.go` | ring, first and last write, total | Record, WindowAverage | gaps, wrap-around, a clock set back, odd granularities | `WindowSumExact` `AverageWithinPeak` `ZeroOnlyWhenQuiet` |
| routing memory `pkg/routing/tablememory.go`, `key.go` | index and radix tree | Remember, Recall, Forget, Route | contested keys, any order of building | `RouteToOldestOfLongest` `StoreAgreesWithIndex` `ForgetSparesOthers` |
| routing table `pkg/routing/table.go` | map of objects, published memory, signal | OnAdd, OnUpdate, OnDelete, the refresher | lost wakeups, tombstones | `NoLostRefresh` `RoutesSettle` `CountersFollowObjects` `ImplementsRouteView` |
| middleware `interceptor/middleware` | a request and its goroutines | ServeHTTP, count, inc, dec | three goroutines per request in any order | `ReturnedIsUncounted` |
| wait `interceptor/forward_wait_func.go`, cache `pkg/k8s/endpoints_cache_informer.go` | store, broadcaster, watchers | Get, Watch, event handlers, the select | events between Get and select, watchers that block the broadcaster | `NoMissedWakeup` `OwnWorkloadWasReady` `EveryWaitEnds` `ReadyEndsWait` |
| process `interceptor/main.go`, `pkg/http/server.go`, `interceptor/handler/probe.go` | goroutines, servers, probes, open requests | start-up, Listen, Shutdown, check, exit | the context ends before a server listens; informers started too late | `StartsServing` `ExitsWhenDone` `ReadyMeansRouted` `RequestEnds` |
| dials `pkg/net/dial_context.go` | a backoff per call | the retry loop | state shared between calls, the last sleep | `GivesUpOnSchedule` |
| certificates `interceptor/main.go` | names to certificates | getTLSConfig, addCert | map order, files that replace each other | `CertHasName` |
| queue pinger `scaler/queue_pinger.go` | counts, status, the goroutines of a round | start, fetchCounts, fetchAndSaveCounts | partial failure, silent interceptors, channel close | `SavedIsSumOfRound` `PendingIsSaved` `StopsWhenCancelled` |
| scaler service `scaler/handlers.go`, `main.go` | calls, streams, health, the gRPC server | GetMetricSpec, GetMetrics, IsActive, StreamIsActive, health loop, GracefulStop | a lock held over the network, stale counts, streams that never end | `SlowRateIsActive` `ValueFitsTarget` `CallReturns` `ServingIsFresh` `AnsweredBeforeExit` `ExitsUnlessStreaming` |
| reconciler `operator/controllers/http` | two API objects, two caches, the work queue | each API call of Reconcile | stale caches, conflicts, crashes, self-made events | `AppliedWhenSettled` `Settles` `DeletedGoesAway` |

Not modelled, and why, is at the end. `PROJECT.json` lists every component with
its status, and the main hazards at their lines.

## Modules

```
QueueMemory ──┐
TableMemory ──┴─ RoutingTable ── Interceptor ── InterceptorProofs, MCInterceptor
     │                                │  implements RouteView
TableMemoryUse ── TableMemoryProofs, MCTableMemory
RequestsBuckets ── RequestsBucketsProofs
DialRetry ──┐
CertStore ──┴─ InterceptorProcess ── InterceptorProcessProofs, MCInterceptorProcess
ForwardWait ── ForwardWaitProofs, MCForwardWait
QueuePinger ─┬─ ScalerHealth ──┬─ MCScalerHealth
             │                 ├─ ScalerProofs
             └─ Scaler ────────┴─ MCScaler
Reconciler ── ReconcilerProofs
SetTheorems: lemmas for TableMemoryProofs, RequestsBucketsProofs, ScalerProofs
             and InterceptorProcessProofs
```

**QueueMemory** has the two maps of `Memory` as partial functions. Each
operation is one step, because the code holds the mutex throughout. Buckets are
represented by the window and granularity they were made with: that is what
`UpdateBuckets` compares.

**TableMemory** has keys, `Remember`, `Recall`, `Forget` and `Route` as operators
on immutable values. A key is the sequence of its `/`-closed parts, so prefixes
of bytes are prefixes of sequences. **TableMemoryUse** has objects remembered and
then forgotten in every order; `objs` is history: what is to be remembered now.

**RoutingTable** is the table with its informer and its refresher. A handler is
split where it takes or gives up the table's mutex, since requests and the
refresher run in between: `OnAdd` (EnsureKey), `OnAddStore` (the map),
`HandlerSignal` (the deferred Signal). The refresher builds a memory under the
read lock, sets it, and waits. A deletion may come as a tombstone. The memory that
the refresher builds is chosen among `OldestOwners`: the code ranges over a Go
map, and **TableMemoryProofs** shows that every order leads into that set.

**RouteView** is what the table promises to requests: the published routes are
always those of some complete state of the table, and change only by publishing
the present state.

**Interceptor** adds the requests. `RouteRequest` to `EndRequest` follow one
request through the routing middleware, the counting goroutine and the signaling
goroutine. `Panic` is the nil dereference of `Increase`; `Restart` is a new
process. `orphaned` and `disturbed` are history: the requests whose key was
removed under them, and the keys such a request has decremented.

**RequestsBuckets** is the ring with a wall clock that can be set both ways. Time
is in parts of a second (`PerSecond`); `Offset` is the distance between Go's zero
time, from which `Truncate` counts, and the epoch, from which `timeToIndex`
counts. `log` is history: what was recorded when.

**InterceptorProcess** is the interceptor from its start to its exit, seen from
main: each goroutine of the errgroup, each server with the goroutine that calls
its `Shutdown`, the probe of each proxy, and requests as far as they depend on
what has started or is about to end. The routing table is one bit here (has it
published a memory?), and the wait for endpoints one step: `Interceptor` and
`ForwardWait` have them in detail. `Listen` may come before or after `Shutdown`;
any port may be taken; an error of one goroutine cancels the context of the
others; a certificate that does not load is an `os.Exit`. **DialRetry** has the
calls of the function `DialContextWithRetry` returns, each with its copy of the
backoff. `slept` adds up the least durations of its sleeps: there is no clock.
**CertStore** has `getTLSConfig` as operators on a set of files: which files pair
up, which replace which in the order of `filepath.Walk`, and what `addCert` leaves
when the map is ranged over in any order. An order numbers the certificates.
`Shown` is what crypto/tls does with the result: it asks `GetCertificate`, unless the
client sends no name (`NoName`) and there are `Certificates` (`main.go:396`), of which
it then shows the first.

**QueuePinger**: for each endpoint of a round the two goroutines are one value of
`worker`. `pingMut` is held from `TakeTick` or `TakeEvent` to `Save` or a failure.
The status is written a step before the counts and the time (`RangeEnds`, `Save`),
for those who read without the lock. Any interceptor may fail at any time; those in
`Silent` never answer. `age` is the time since `lastPingTime`, up to `AgeLimit`, which
stands for all higher ages and for never.
**ScalerHealth** adds the health loop and the passing of time (`TimePasses`), each with
steps of their own. A check is three steps, with steps of the pinger in between: it
compares `lastPingTime` (`HealthTick`), then reads the status for each of the two
services (`SetLiveness`, `SetReadiness`). Two checks are at most `CheckPeriod` apart.
**Scaler** adds the calls and streams of KEDA, the scaling metric of the objects,
and main with the gRPC server: `Listen`, `GracefulStop`, `ServeReturns`, `Exit`.
The two are apart because the calls do not look at the health, nor the health
loop at the calls. `told` is history: the target KEDA was told last.

**ForwardWait** has the informer's store and its pending notices, the
broadcaster's queue and loop, the filter goroutine of each watcher, and the
requests. To add or remove a watcher is a function in the broadcaster's own
queue, whose caller holds the queue's lock until the loop has run it. `wasReady`
is history.

**Reconciler** has one step for each API call of `Reconcile`. Reads go to caches
that see the writes later and in order; writes of the HTTPScaledObject fail when
the copy is out of date. The predicates decide which cache events are queued.
`toggled` is history: the skip annotation was changed after the spec.

## Runs

| run | shows | bounds | states |
|---|---|---|---|
| `table_memory` | routing is by an oldest owner of the longest prefix, in whatever order objects are remembered; forgetting one spares the others | three names, with shared hosts, nested paths and equal ages | 14,108 |
| `interceptor` | the counter is never too high, and exact unless a removed key came back; no lost refresh; routes and counters follow the objects; the table implements `RouteView`; a returned request is uncounted | two requests, one name whose object has two versions, two changes of the cluster | 333,301 |
| `process` | the interceptor comes to serve, ends when it is told to, is ready only with routes, shows certificates with the name asked for (or with any, if none is), answers its requests, and retries dials on schedule | one request slot, three dials for each, configurations with TLS (a good and a bad store), metrics and profiling | 482,502 |
| `buckets` | the ring is exact over the window | window 5, granularity 2 (three buckets, the last one partial), five records at 16 times | 28,656 |
| `rounds` | a saved round is the sum over all its endpoints; serving means fresh, up to the next check | two interceptors, one host, `MaxAge` and `CheckPeriod` one unit of time each, `AgeLimit` three: one above what is fresh | 2,687,472 |
| `calls` | calls return, the loop stops when cancelled, pending requests and slow rates reach KEDA, values fit targets, calls are answered before the exit, which comes unless a stream is kept | one interceptor, one host, one call or stream at a time, objects with one metric or both | 225,888 |
| `wait` | no missed wakeup, and no request is let through by another workload | two requests for two services of one slice each, queue of the broadcaster of length 2 | 5,937,234 |
| `wait_ends` | nobody blocks the broadcaster for ever | two requests for one service, one that times out and fails over, one that never does; queue of length 1 | 113,372 |
| `reconcile` | at rest the ScaledObject is what the HTTPScaledObject asks for; reconciling ends; deleted objects go away | two incarnations, one valid and one invalid spec, two edits of either object, two failing calls or crashes, the skip annotation | 1,675,253 |

`IInv` in `interceptor` and `reconcile` is the inductive invariant of the module's
proofs, and has their `TypeOK` in it. The inductive invariants of the other modules
(`IInv`, `HealthInv`, `RingInv`), the `TypeOK` of `ForwardWait` and `ScalerHealth`
and `CountsReadable` of `Interceptor` are proved and not in the lists of the runs;
TLC finds that they hold with the configurations of the runs.

The bounds cap what the environment does (changes, edits, failures, clock), never
what the code does. Two is enough for the races here: each is between one request
and one handler, one copy and one writer, or two workers of a round. One call is
enough in `calls`, and one request in `process`: calls and requests share only
locks and flags that no other call or request writes, except for the backoff, of
which `GivesUpOnSchedule` sees one call after the other. What two of them could do
to the safety properties is proved. In `reconcile` users write two values into the
ScaledObject, so that theirs can differ from the one asked for; the same
properties also hold with specs `{1, 2, 99}`, a single value written by users and
one fault (2,708,750 states). The queue of the broadcaster is 25 long in
apimachinery (`incomingQueueLength`); 1 and 2 reach its limit sooner. Deadlock is
not checked where the system may come to rest: the process and the scaler exit,
and the reconciler rests when users have nothing left to do.

Three runs state what the repository says of the code, and TLC finds it violated:

| run | statement | what happens |
|---|---|---|
| `panic` | `pkg/queue/queue.go:25`, concurrency safe | a request is routed, its object deleted, then the request counted: `Increase` meets nil buckets |
| `reconcile_skip` | `docs/walkthrough.md:176`, the annotation removes the ScaledObject | the predicates drop the update, as annotations do not change the generation |
| `shutdown` | `CHANGELOG.md:184`, graceful shutdown of the HTTP servers | `ListenAndServe` returns when the listener is closed and nobody waits for `Shutdown`: after a signal main returns while requests are open |

### Where the properties stop

The model also shows behaviour that the passing properties except, in their
statement or by the constants of their run. Most are listed at their
lines under "hazards".

- A request counted before its object was deleted and created again is taken off
  the new count (`queue.go:76`). `PendingExact` excepts `disturbed` keys.
- A deletion that comes as a tombstone is skipped by `OnDelete` (`table.go:209`).
  `RoutesSettle` and `CountersFollowObjects` except `tombstoned` names.
- A granularity below one second divides by zero in `timeToIndex`
  (`bucketing.go:131`; `PerSecond` above `Granularity` reaches it), and one such as
  seven seconds, which does not divide the distance of Go's zero time from the
  epoch, misplaces buckets (`Offset` other than 0). The run has neither.
- After a pause the average is still divided by the buckets of the whole window
  (`bucketing.go:101`), unlike the comment on lines 84-87; no property says which is
  meant.
- `Get` looks at the first EndpointSlice of a service only
  (`endpoints_cache_informer.go:56`). `NoMissedWakeup` fails with two slices for
  one service, and is proved for one (`OneSlice`).
- The filter goroutine of a watcher that is stopped while it holds an event never
  ends (`endpoints_cache_informer.go:67`).
- With profiling on, neither the interceptor nor the scaler exits on a signal
  (`interceptor/main.go:226`, `scaler/main.go:122`). `ExitsWhenDone` excepts the
  configuration; the profiling server of the scaler is left out, so
  `ExitsUnlessStreaming` is about a scaler without it.
- A client that sends no server name may be shown any named certificate, and not the
  default, although `GetCertificate` would give it the default: crypto/tls takes the
  first of `Certificates`, which are in the order of a Go map
  (`interceptor/main.go:396`). Names are compared as they are (`main.go:388`):
  wildcards in a certificate are names like any other.
- `MinTotalBackoffDuration` (`pkg/net/backoff.go:9-18`) adds up 1, 2, 3, ... times the
  first duration, less than the doubling sleeps take in all (1, 2, 4, ...), which is
  what `GivesUpOnSchedule` is about. Its comment says "the minimum duration that backoff
  would wait"; its only callers are tests, which use it as a lower bound.
- One certificate that does not load ends the whole interceptor, plain proxy and
  open requests included (`interceptor/main.go:427`).
- An interceptor that never answers (`Silent`) keeps the lock: calls do not return
  and cancelling does not stop the loop (`queue_pinger.go:166`).
- A failed round leaves goroutines behind (`queue_pinger.go:178`); the model drops
  them.
- Between a change of an object's metric and KEDA's next `GetMetricSpec` the value
  is of another kind than the target (`handlers.go:201`). `ValueFitsTarget` excepts
  that time.
- A scaler that is told to stop waits for KEDA to end its streams (`main.go:192`).
- A field taken out of the HTTPScaledObject stays in the ScaledObject, by the merge
  patch (`scaled_object.go:70`), and one taken out of the ScaledObject is not put
  back, since the predicate ignores it (`predicate.go:51`). `AppliedWhenSettled`
  fails with `Unset` in `Replicas` or `Meddling`, and is checked and proved without
  (`NoUnset`).
- An annotation changed after the spec is not reconciled; `AppliedWhenSettled`
  excepts it (`toggled`).
- A ScaledObject that could not be deleted is logged and not tried again
  (`app.go:59`), which leads to the state that `reconcile_skip` shows. One that is
  deleted is deleted by name (`app.go:100`): no property protects one that a user
  has just created under it.
- SERVING can outlast twice the tick duration by the time to the next check
  (`scaler/main.go:174`): `ServingIsFresh` allows for `CheckPeriod`. It takes for
  granted that the loop is not held up between its tick and its last
  `SetServingStatus`. The loop reads the pinger's time without its lock; that it may
  read half of one is not modelled.
- The condition looked up as Ready is always the first, which stays Unknown
  (`condition_types.go:83`).

## Fairness

Weak fairness of a goroutine says that the Go scheduler runs it when it can run;
the specifications often assume less, that one of several goroutines runs. Strong
fairness is assumed where goroutines compete: for the mutex of the broadcaster's
queue (Go's mutex hands over to a waiter after a millisecond), for the read side of
`pingMut` (`Unlock` admits all waiting readers) and for a case of a `select`
(chosen at random). A ticker ticks, a timer fires, a dial connects or fails, a
container is restarted, an interceptor that is not in `Silent` answers or fails.
Nothing is assumed of clients, users, KEDA, signals, the cluster, how long a
request is served or when net/http cancels a context.

One assumption is about time instead, and a matter of safety: the health loop takes
its tick at most `CheckPeriod` after the one before, and a check takes no time. Of the
pinger nothing of the kind is assumed.

## Proofs

All theorems are for any values of the constants that satisfy the assumptions of
the modules. Safety properties are seldom inductive: what a goroutine is about to
do matters too. Each module has an invariant `IInv` that says so, which the proofs
show to be inductive, action by action. Every safety property that a run checks is
proved, those of the three runs that find a violation excepted; of
`ImplementsRouteView` it is the part without fairness.

| assumption | where | why |
|---|---|---|
| interceptors, hosts of apps and the files of a certificate store are finite sets | `PingerAssumption`, `ProcessAssumption` | they are lists and directories |
| `MaxAge + CheckPeriod < AgeLimit` | `HealthAssumption` | ages that are not fresh can be told from those that are |
| no name is `NoName` | `ProcessAssumption` | Go's empty server name means that none was sent |
| texts between `:` and `/` come from one set, which has the empty text | `MemoryAssumption` | it is all strings; the provers do not reason about those |
| `Aligned`: granularities are whole seconds, counted from a multiple of them | hypothesis of the theorems on the ring but its `TypeOK` | without it they are false, see "Where the properties stop" |
| at most 1000 buckets | hypothesis of `ZeroWhenQuiet` | the average has three digits |
| `OneSlice`, `NoUnset` | hypotheses in `ForwardWaitProofs`, `ReconcilerProofs` | without them the properties are false |

**InterceptorProofs**: `TypeOK`, `NoLostRefresh`, `RoutesSettle`,
`CountersFollowObjects`, `PendingNeverOverstated`, `PendingExact`,
`CountsReadable`, and that every step is a step of `RouteView` or leaves it alone.
`IInv` adds

- `RefreshInv`: also the memory that is built but not yet published is current,
  unless a signal is in the channel or a handler is about to send one. Without
  it, nothing is known of what `SetMemory` publishes.
- `InformerInv`: the table, the informer's store and the buckets agree, except for
  the name a handler is working on (`Busy`) and for skipped tombstones. It says
  what a half-done handler has still to do.
- `CountInv`: who may be orphaned, and that orphans are counted requests.

The lemmas on cardinality are for `Inc` and `Dec`, which add one request to `Live`
and take one away.

**ReconcilerProofs**: `TypeOK`, and `AppliedWhenSettled` for fields that stay set
(`NoUnset`). The idea is that every way in which the ScaledObject comes to differ
from what is asked for leaves a mark that will have it reconciled
(`AppliedOrPending`): a place in the queue, an event on its way to a cache that the
predicates let pass, a call of `Reconcile` that is about to apply the present spec,
or one that has failed and will return its error. At rest there is no mark. To
show that no step wipes out the last mark, `IInv` also says that the logs of the
caches end with what there is (`LogsEnd`), that a deletion stands between two objects
of one name (`Deletions`: the predicate compares generations only, which tell nothing
of two objects), that whatever a cache, a log or
`Reconcile` has is an older state or has the same spec (`Coherent`), and that
`Reconcile` works on what its cache has or is queued again (`CopyCurrent`). The
hypothesis is needed where a mark depends on a predicate: `DeepDerivative` lets a
change pass only if it is not to unset fields.

**ForwardWaitProofs**: `TypeOK`, which has the limits of the queues;
`OwnWorkloadWasReady`; and `NoMissedWakeup` for services with one slice
(`OneSlice`). The event that wakes a request is followed from the notice to the
queue, the offer and the hand of the filter. It is not lost on the way because a
request that waits has a watcher (`Watched`: the watcher was added before the cache
was read, and is removed after the wait), because the broadcaster passes over
stopped watchers only, and because the filter drops only other services. One slice
is used in one place: a request that begins to wait has seen the slice that is not
ready. For the other property, `Honest` says that no event tells of addresses that
were never there and that a filter holds events of its own service.

**TableMemoryProofs**: `RouteToOldestOfLongest`, `StoreAgreesWithIndex` and
`ForgetSparesOthers`, for any objects, hosts, paths and orders. `IInv` says that a
key in the store belongs to a remembered object that claims it, and that until one
is forgotten the store is one of `OldestOwners`: `Remember` leaves a key to its owner
only if that one is older, so the owner is an oldest claimant of those remembered so
far. After a `Forget` it need not be, since a younger object that had lost the key
does not get it; that is why the property stops there. Routing then takes two facts
about prefixes: two of the same length of one key are equal, and of finitely many one
is longest.

**RequestsBucketsProofs**: `TypeOK`, `WindowSumExact`, `AverageWithinPeak` and
`ZeroOnlyWhenQuiet`, for any window and granularity, records at any times and a clock
that is set both ways. `RingInv` says of each index between the last write and one
window before it that its slot holds what was recorded in its stretch of time
(`Kept`, `Recorded`), that nothing was recorded after the last write, that the total
is the sum of the slots and that the first write is not after any request that is
still there. A `Record` moves the last write by some number of buckets; the slots it
clears are those of the indexes that fall out of `Kept`, because indexes that are
less than `NB` apart have different slots. `WindowSum` leaves out the indexes before
the window of the time asked for, and these again have slots of their own.

**ScalerProofs** is about the pinger with the health loop and about the pinger with
the calls. Both need `PingerInv`: an answer that is on its way is there, the channel
closes behind the last one (`Collected`), the sum so far is that of the answers
received, and what was saved is the sum over a round. It is kept by every step of
the pinger, and both specifications use that. From it follow

- `SavedIsSumOfRound`: when the channel is closed, all have been received;
- `ServingIsFresh`: at a check the counts are at most `MaxAge` old, or the services
  are NOT_SERVING after it, and they grow older by no more than the time since
  (`HealthInv`). A status that is read too early or too late does no harm, because
  counts of that age are there from a round before, and their age can only fall by a
  `Save`;
- `SlowRateIsActive`: a sum of natural numbers is above zero just when one of them
  is, and rounding up keeps it there;
- `TypeOK` of `Scaler`, in which a value is a sum over hosts.

`AnsweredBeforeExit` and `ValueFitsTarget` need that no call is open before the
server serves nor after `Serve` has returned, and that what KEDA was told of an
object is what `GetMetricSpec` would say again, or was forgotten.

**InterceptorProcessProofs**: `TypeOK`, `CertHasName`, `ReadyMeansRouted` and
`GivesUpOnSchedule`. `IInv` says that the certificates are those to be shown, with and
without a name, from the moment the TLS proxy has loaded them, before it listens; that a probe is healthy only with a
memory, which is never taken back; and that the function's backoff is as it was made
and each call is at its place in its own (`DialInv`): after `k` steps the next sleep
is `2^k` and all before it add up to one less. The power is a recursive function
(`PowerOf2`), which the proofs first show to exist.

**SetTheorems** has what these need of sums over finite sets, and of greatest and
least numbers. The induction rules of the library have a formula as a parameter,
which the provers cannot instantiate. Each lemma instead takes a smallest set, or a
least number, for which it fails, and shows that there is a smaller one; that finite
sets and natural numbers are well-founded is a theorem of the library that has no
such parameter.

Only model-checked: liveness, which with fairness and ENABLED is beyond the prover.
These are `ReturnedIsUncounted`, `ExitsWhenDone`, `StartsServing`, `RequestEnds`,
`CallReturns`, `PendingIsSaved`, `StopsWhenCancelled`, `ExitsUnlessStreaming`,
`EveryWaitEnds`, `ReadyEndsWait`, `Settles`, `DeletedGoesAway` and the fairness of
`RouteView`. No module declares a RECURSIVE operator, which the prover cannot use.

## Not modelled

- Logging, the response writer, metrics and tracing: output that nothing reads
  back.
- Configuration: read once from the environment. Its values are constants of the
  modules.
- The operator's main program and `ping.go`: start-up of controller-runtime, and a
  request that the reconciler does not use.
- Generated clients, informers, listers, mocks and deep copies, and the fakes for
  tests. The informers appear as external actions.
- Within modelled parts: URLs, headers and JSON; the transport's settings and TLS
  towards workloads; counts above what two requests reach (Go's `int` does not
  overflow there); labels and annotations other than the skip annotation; several
  HTTPScaledObjects in the reconciler, which do not interact.
- A composition of interceptor and scaler. They meet in one atomic answer of counts
  (`Answer`), and each side is checked against any behaviour of the other.
