---------------------------- MODULE Interceptor ----------------------------
(***************************************************************************)
(* The interceptor process: requests that are routed, counted and served   *)
(* (interceptor/middleware/routing.go, counting.go) beside the routing     *)
(* table whose handlers create and remove the counter's keys.              *)
(*                                                                         *)
(* Each request has a handler goroutine (phase), a counting goroutine      *)
(* (counting), a signaling goroutine started when the handler returns      *)
(* (signal) and a context (ctxDone).  A slot is used again for a later     *)
(* request once all of them have ended.                                    *)
(*                                                                         *)
(* A panic in the counting goroutine is not recovered and ends the         *)
(* process; Restart is the new process, which lists the cluster again.     *)
(***************************************************************************)
EXTENDS RoutingTable, FiniteSets

CONSTANTS Requests,     \* slots for concurrent requests
          RequestKeys   \* the routing keys requests arrive with

ASSUME RequestsAssumption == IsFiniteSet(Requests)

VARIABLES
    phase,       \* where the request's handler stands
    app,         \* the name of the HTTPScaledObject it was routed to
    counting,    \* where the request's counting goroutine stands
    signal,      \* the goroutine that signals the end of the handler
    ctxDone,     \* the request's context is done
    crashed,     \* the process has panicked
    orphaned,    \* requests whose count was removed with its key (history)
    disturbed    \* keys an orphaned request has decremented (history)

requestVars == <<phase, app, counting, signal, ctxDone>>
historyVars == <<orphaned, disturbed>>
vars == <<queueVars, tableVars, requestVars, crashed, historyVars>>

TypeOK ==
    /\ QueueTypeOK
    /\ TableTypeOK
    /\ phase \in [Requests -> {"idle", "routed", "serving", "returned"}]
    /\ app \in [Requests -> Names \cup {None}]
    /\ counting \in [Requests -> {"off", "spawned", "counted"}]
    /\ signal \in [Requests -> {"none", "spawned", "sent"}]
    /\ ctxDone \in [Requests -> BOOLEAN]
    /\ crashed \in BOOLEAN
    /\ orphaned \subseteq Requests
    /\ disturbed \subseteq Names

NoRequests ==
    /\ phase = [r \in Requests |-> "idle"]
    /\ app = [r \in Requests |-> None]
    /\ counting = [r \in Requests |-> "off"]
    /\ signal = [r \in Requests |-> "none"]
    /\ ctxDone = [r \in Requests |-> FALSE]
    /\ orphaned = {}
    /\ disturbed = {}

Init == TableInit /\ NoRequests /\ crashed = FALSE

Live(n) == {r \in Requests \ orphaned : counting[r] = "counted" /\ app[r] = n}
-----------------------------------------------------------------------------
(* Routing.ServeHTTP when the table has a route.                           *)
RouteRequest(r) ==
    /\ phase[r] = "idle"
    /\ \E key \in RequestKeys : \E o \in TableRoute(key) :
         app' = [app EXCEPT ![r] = o.name]
    /\ phase' = [phase EXCEPT ![r] = "routed"]
    /\ UNCHANGED <<counting, signal, ctxDone, queueVars, historyVars>>

(* Routing.ServeHTTP without a route (404, or the answer to a probe).      *)
NoRoute(r) ==
    /\ phase[r] = "idle"
    /\ \E key \in RequestKeys : TableRoute(key) = {}
    /\ phase' = [phase EXCEPT ![r] = "returned"]
    /\ UNCHANGED <<app, counting, signal, ctxDone, queueVars, historyVars>>

(* The port is known, after a lookup of the Service if it has a name only: *)
(* Counting.ServeHTTP starts the counting goroutine and the upstream       *)
(* handler.                                                                *)
ServeRequest(r) ==
    /\ phase[r] = "routed"
    /\ phase' = [phase EXCEPT ![r] = "serving"]
    /\ counting' = [counting EXCEPT ![r] = "spawned"]
    /\ UNCHANGED <<app, signal, ctxDone, queueVars, historyVars>>

(* The port lookup fails: 500, and nothing is counted.                     *)
NoStream(r) ==
    /\ phase[r] = "routed"
    /\ phase' = [phase EXCEPT ![r] = "returned"]
    /\ UNCHANGED <<app, counting, signal, ctxDone, queueVars, historyVars>>

(* The upstream handler returns; the deferred function starts a goroutine  *)
(* that signals.                                                           *)
ReturnRequest(r) ==
    /\ phase[r] = "serving"
    /\ phase' = [phase EXCEPT ![r] = "returned"]
    /\ signal' = [signal EXCEPT ![r] = "spawned"]
    /\ UNCHANGED <<app, counting, ctxDone, queueVars, historyVars>>

(* Faulty variant: the channel has no buffer.                              *)
SendSignalUnbuffered(r) ==
    /\ signal[r] = "spawned"
    /\ signal' = [signal EXCEPT ![r] = IF counting[r] = "counted" THEN "sent" ELSE "none"]
    /\ UNCHANGED <<phase, app, counting, ctxDone, queueVars, historyVars>>

SendSignal(r) ==
    /\ signal[r] = "spawned"
    /\ signal' = [signal EXCEPT ![r] = "sent"]
    /\ UNCHANGED <<phase, app, counting, ctxDone, queueVars, historyVars>>

(* net/http cancels the context when the client goes away and when the     *)
(* handler has returned.                                                   *)
CancelContext(r) ==
    /\ phase[r] # "idle" /\ ~ctxDone[r]
    /\ ctxDone' = [ctxDone EXCEPT ![r] = TRUE]
    /\ UNCHANGED <<phase, app, counting, signal, queueVars, historyVars>>

(* The first half of count.                                                *)
Inc(r) ==
    /\ counting[r] = "spawned"
    /\ ~IncreasePanics(app[r])
    /\ Increase(app[r])
    /\ counting' = [counting EXCEPT ![r] = "counted"]
    /\ UNCHANGED <<phase, app, signal, ctxDone, historyVars>>

(* The second half of count: Wait returns when the signal is there or the  *)
(* context is done, then dec.                                              *)
Dec(r) ==
    /\ counting[r] = "counted"
    /\ signal[r] = "sent" \/ ctxDone[r]
    /\ Decrease(app[r])
    /\ counting' = [counting EXCEPT ![r] = "off"]
    /\ orphaned' = orphaned \ {r}
    /\ disturbed' = IF r \in orphaned /\ concurrentMap' # concurrentMap
                    THEN disturbed \cup {app[r]} ELSE disturbed
    /\ UNCHANGED <<phase, app, signal, ctxDone>>

(* All goroutines of the request have ended; its slot is free.             *)
EndRequest(r) ==
    /\ phase[r] = "returned" /\ counting[r] = "off" /\ signal[r] # "spawned"
    /\ phase' = [phase EXCEPT ![r] = "idle"]
    /\ app' = [app EXCEPT ![r] = None]
    /\ signal' = [signal EXCEPT ![r] = "none"]
    /\ ctxDone' = [ctxDone EXCEPT ![r] = FALSE]
    /\ UNCHANGED <<counting, queueVars, historyVars>>

(* A step A of a request leaves the table alone.                           *)
OfRequest(A) == ~crashed /\ A /\ UNCHANGED <<tableVars, crashed>>

RequestStep(r) ==
    OfRequest(\/ RouteRequest(r) \/ NoRoute(r) \/ ServeRequest(r) \/ NoStream(r)
              \/ ReturnRequest(r) \/ SendSignal(r) \/ CancelContext(r)
              \/ Inc(r) \/ Dec(r) \/ EndRequest(r))
-----------------------------------------------------------------------------
(* A step A of the table: a key that leaves the counter takes the counts   *)
(* of its requests along.                                                  *)
OfTable(A) ==
    /\ ~crashed
    /\ A
    /\ LET removed == DOMAIN concurrentMap \ DOMAIN concurrentMap'
       IN  /\ orphaned' = orphaned \cup
                            {r \in Requests : counting[r] = "counted" /\ app[r] \in removed}
           /\ disturbed' = disturbed \ removed
    /\ UNCHANGED <<requestVars, crashed>>

TableStep == OfTable(TableNext)

(* Increase on a host without buckets: a nil pointer dereference, and the  *)
(* process is gone.                                                        *)
Panic(r) ==
    /\ ~crashed
    /\ counting[r] = "spawned"
    /\ IncreasePanics(app[r])
    /\ Increase(app[r])
    /\ crashed' = TRUE
    /\ UNCHANGED <<tableVars, requestVars, historyVars>>

(* The container is restarted: the process begins with nothing in memory.  *)
Restart ==
    /\ crashed
    /\ crashed' = FALSE
    /\ concurrentMap' = <<>> /\ rpsMap' = <<>>
    /\ seen' = <<>> /\ unsynced' = DOMAIN cluster
    /\ handler' = "idle" /\ event' = NoEvent /\ httpScaledObjects' = <<>>
    /\ tombstoned' = {} /\ memorySignal' = FALSE
    /\ refresher' = "syncing" /\ built' = {} /\ memory' = {}
    /\ phase' = [r \in Requests |-> "idle"] /\ app' = [r \in Requests |-> None]
    /\ counting' = [r \in Requests |-> "off"]
    /\ signal' = [r \in Requests |-> "none"]
    /\ ctxDone' = [r \in Requests |-> FALSE]
    /\ orphaned' = {} /\ disturbed' = {}
    /\ UNCHANGED <<cluster, changes>>

Next ==
    \/ TableStep
    \/ \E r \in Requests : RequestStep(r) \/ Panic(r)
    \/ Restart

Spec == Init /\ [][Next]_vars

(* The Go scheduler runs every goroutine that can run, and a crashed       *)
(* container is restarted.  Less than that is enough: of the informer and  *)
(* the refresher, one runs; of the counting and the signaling goroutine of *)
(* a request, one runs.  Nothing is assumed of the clients, of the         *)
(* cluster, of how long a request is served, or of when net/http cancels a *)
(* context.                                                                *)
Fairness ==
    /\ WF_vars(OfTable(InformerStep \/ RefresherStep) \/ Restart)
    /\ \A r \in Requests :
         WF_vars(OfRequest(SendSignal(r) \/ Inc(r) \/ Dec(r)) \/ Panic(r))

FairSpec == Spec /\ Fairness
-----------------------------------------------------------------------------
(* No wakeup is lost: when the refresher sleeps, no signal is waiting and  *)
(* no handler is between its unlock and its Signal, the published memory   *)
(* was built from the table as it is now.  (Handlers signal after they     *)
(* unlock, the channel holds one signal and drops the rest.)               *)
NoLostRefresh ==
    refresher = "waiting" /\ ~memorySignal /\ handler # "stored"
      => {m.index : m \in memory} = {httpScaledObjects}

(* The informer has delivered everything and the refresher sleeps.         *)
Settled ==
    /\ ~crashed
    /\ seen = cluster /\ handler = "idle"
    /\ refresher = "waiting" /\ ~memorySignal

(* When the informer has delivered everything and the refresher sleeps,    *)
(* requests are routed by the objects that exist, for every name whose     *)
(* deletion did not come as a tombstone.                                   *)
RoutesSettle ==
    Settled =>
      \A m \in memory : \A n \in Names \ tombstoned :
        /\ n \in DOMAIN m.index <=> n \in DOMAIN cluster
        /\ n \in DOMAIN cluster => m.index[n] = cluster[n]

(* Between two handlers, exactly the listed objects have counters, and the *)
(* buckets of each have the window and granularity its object asks for     *)
(* (EnsureKey, UpdateBuckets and RemoveKey follow OnAdd, OnUpdate and      *)
(* OnDelete), again unless a tombstone was skipped.                        *)
CountersFollowObjects ==
    ~crashed /\ handler = "idle" =>
      /\ DOMAIN rpsMap = DOMAIN httpScaledObjects
      /\ \A n \in DOMAIN rpsMap \ tombstoned :
           rpsMap[n] = SettingsOf(httpScaledObjects[n])

(* Current, which the scaler polls, never fails: the two maps have the     *)
(* same keys whatever Increase, Decrease and the handlers do.              *)
CountsReadable == ~crashed => DOMAIN concurrentMap = DOMAIN rpsMap

(* The count of an app is never more than its requests that are counted    *)
(* and not yet uncounted: no request leaves a count behind that would keep *)
(* an idle app from scaling to zero.                                       *)
PendingNeverOverstated ==
    ~crashed =>
      \A n \in DOMAIN concurrentMap : concurrentMap[n] <= Cardinality(Live(n))

(* The count is exact, as long as no request counted under an earlier,     *)
(* removed key of the same name has decremented the new one.               *)
PendingExact ==
    ~crashed =>
      \A n \in DOMAIN concurrentMap \ disturbed :
         concurrentMap[n] = Cardinality(Live(n))

(* The wait in count always ends: a request whose handler has returned is  *)
(* uncounted sooner or later, also when the handler returns before the     *)
(* counting goroutine has started (the signaler buffers the signal).       *)
ReturnedIsUncounted ==
    \A r \in Requests : phase[r] = "returned" ~> counting[r] = "off"

(* The table with its refresher implements RouteView; a memory counts as   *)
(* published when the refresher has built it under the read lock.          *)
Routes == INSTANCE RouteView WITH
    objects <- httpScaledObjects,
    view <- {m.index : m \in IF refresher = "built" THEN built ELSE memory}

ImplementsRouteView == Routes!Spec
-----------------------------------------------------------------------------
(* The parts of the inductive invariant behind the properties above.       *)

(* The memory built or published last is current unless a signal is on its *)
(* way.                                                                    *)
RefreshInv ==
    ~memorySignal /\ handler # "stored" =>
      /\ refresher = "built" => {m.index : m \in built} = {httpScaledObjects}
      /\ refresher = "waiting" => {m.index : m \in memory} = {httpScaledObjects}

(* The name an add or update handler is working on.                        *)
Busy == IF handler \in {"added", "updated", "replaced"} THEN {event.new.name} ELSE {}

(* Apart from that name and from skipped tombstones, the table, the        *)
(* informer's store and the buckets agree.                                 *)
InformerInv ==
    /\ DOMAIN rpsMap = DOMAIN httpScaledObjects \cup Busy
    /\ DOMAIN seen \subseteq DOMAIN rpsMap
    /\ \A n \in Names \ (tombstoned \cup Busy) :
         /\ n \in DOMAIN httpScaledObjects <=> n \in DOMAIN seen
         /\ n \in DOMAIN seen => /\ httpScaledObjects[n] = seen[n]
                                 /\ rpsMap[n] = SettingsOf(seen[n])
    /\ \A n \in Busy :
         /\ n \in DOMAIN seen /\ seen[n] = event.new
         /\ handler # "added" => event.old.name = n /\ n \in DOMAIN httpScaledObjects
         /\ handler # "updated" /\ n \notin tombstoned
              => rpsMap[n] = SettingsOf(event.new)

(* Only keys the counter holds have live requests, and requests that count *)
(* or are counted were routed to an app.                                   *)
CountInv ==
    /\ \A r \in Requests : phase[r] = "routed" \/ counting[r] # "off" => app[r] \in Names
    /\ \A r \in Requests : counting[r] # "off" => phase[r] \in {"serving", "returned"}
    /\ \A r \in orphaned : counting[r] = "counted"
    /\ ~crashed => \A n \in Names \ DOMAIN concurrentMap : Live(n) = {}

IInv ==
    /\ TypeOK /\ RefreshInv /\ InformerInv /\ CountInv
    /\ CountsReadable /\ PendingNeverOverstated /\ PendingExact
-----------------------------------------------------------------------------
(* queue.go:25 says of the counter that its "mutation and read             *)
(* functionality is concurrency safe": no interleaving of requests and     *)
(* table handlers ends the process.                                        *)
NoPanic == ~crashed
=============================================================================
