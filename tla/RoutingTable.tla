---------------------------- MODULE RoutingTable ----------------------------
(***************************************************************************)
(* The interceptor's routing table (pkg/routing/table.go): the informer's  *)
(* event handlers keep a map of HTTPScaledObjects and the keys of the      *)
(* request counter in step with the cluster, and a second goroutine        *)
(* rebuilds the routing memory whenever it is signalled.                   *)
(*                                                                         *)
(* The informer calls OnAdd, OnUpdate and OnDelete one after the other.  A *)
(* handler is split where it gives up a lock, because other goroutines may *)
(* run there.  The refresher (refreshMemory) builds a memory from the map, *)
(* publishes it, and waits for the signaler, a channel with room for one   *)
(* signal.                                                                 *)
(*                                                                         *)
(* The cluster and the informer are external.  "cluster" is what the       *)
(* informer's list and watch have reported; "seen" is the informer's own   *)
(* store.  The informer compares the two and calls the handler that fits.  *)
(* A deletion that a broken watch missed reaches OnDelete as a tombstone   *)
(* (cache.DeletedFinalStateUnknown) instead of the object.                 *)
(***************************************************************************)
EXTENDS QueueMemory, TableMemory

CONSTANTS HTTPSOs,          \* the HTTPScaledObjects that may exist
          DefaultSettings,  \* one minute in buckets of a second
          None,             \* a nil pointer
          MaxChanges        \* bound on the changes of the cluster

ASSUME RoutingAssumption ==
    /\ DefaultSettings \in Settings
    /\ \A o \in HTTPSOs : o.name \in Names /\ o.rate \in Settings \cup {None}
    /\ MaxChanges \in Nat

(* A memory that may be missing is a set: empty, or with the memory in it. *)
VARIABLES
    cluster,            \* the HTTPScaledObjects that exist, by name
    changes,            \* changes of the cluster so far
    seen,               \* the informer's store
    unsynced,           \* names of the initial list not handled yet
    handler,            \* where the running event handler stands
    event,              \* the objects it was called with
    httpScaledObjects,  \* the table's map
    memorySignal,       \* the signaler's channel holds a signal
    refresher,          \* where the refresher stands
    built,              \* the memory the refresher has built, not yet set
    memory,             \* memoryHolder
    tombstoned          \* names whose deletion came as a tombstone (history)

informerVars == <<seen, unsynced, handler, event, httpScaledObjects, tombstoned>>
refreshVars == <<refresher, built, memory>>
tableVars == <<cluster, changes, informerVars, memorySignal, refreshVars>>

IsObjectMap(f) ==
    /\ DOMAIN f \subseteq Names
    /\ f \in [DOMAIN f -> HTTPSOs]
    /\ \A n \in DOMAIN f : f[n].name = n

IsMemory(m) ==
    /\ m = [index |-> m.index, store |-> m.store]
    /\ IsObjectMap(m.index)
    /\ m.store \in [DOMAIN m.store -> HTTPSOs]

TableTypeOK ==
    /\ IsObjectMap(cluster) /\ IsObjectMap(seen) /\ IsObjectMap(httpScaledObjects)
    /\ changes \in 0..MaxChanges
    /\ unsynced \subseteq Names
    /\ handler \in {"idle", "added", "updated", "replaced", "stored"}
    /\ event \in [old : HTTPSOs \cup {None}, new : HTTPSOs \cup {None}]
    /\ handler \in {"added", "updated", "replaced"}
         => event.old \in HTTPSOs /\ event.new \in HTTPSOs
    /\ memorySignal \in BOOLEAN
    /\ refresher \in {"syncing", "building", "built", "waiting"}
    /\ \A m \in built \cup memory : IsMemory(m)
    /\ built = {} \/ \E m \in built : built = {m}
    /\ built # {} <=> refresher = "built"
    /\ memory = {} \/ \E m \in memory : memory = {m}
    /\ refresher = "waiting" => memory # {}
    /\ tombstoned \subseteq Names
-----------------------------------------------------------------------------
NoEvent == [old |-> None, new |-> None]

(* NewTable, and the start of the two goroutines.                          *)
StartTable ==
    /\ seen = <<>>
    /\ handler = "idle"
    /\ event = NoEvent
    /\ httpScaledObjects = <<>>
    /\ tombstoned = {}
    /\ memorySignal = FALSE
    /\ refresher = "syncing"
    /\ built = {}
    /\ memory = {}

TableInit ==
    /\ NewMemory
    /\ \E S \in SUBSET HTTPSOs :
         /\ \A o, p \in S : o.name = p.name => o = p
         /\ cluster = [n \in {o.name : o \in S} |-> CHOOSE o \in S : o.name = n]
    /\ changes = 0
    /\ unsynced = DOMAIN cluster
    /\ StartTable

(* Somebody creates or changes an HTTPScaledObject.                        *)
ApplyHTTPSO(o) ==
    /\ changes < MaxChanges
    /\ o.name \in DOMAIN cluster => cluster[o.name] # o
    /\ cluster' = Put(cluster, o.name, o)
    /\ changes' = changes + 1
    /\ UNCHANGED <<queueVars, informerVars, memorySignal, refreshVars>>

(* Somebody deletes one.  The initial list is delivered before any later   *)
(* deletion is.                                                            *)
DeleteHTTPSO(n) ==
    /\ changes < MaxChanges
    /\ n \in DOMAIN cluster \ unsynced
    /\ cluster' = Drop(cluster, n)
    /\ changes' = changes + 1
    /\ UNCHANGED <<queueVars, informerVars, memorySignal, refreshVars>>
-----------------------------------------------------------------------------
(* The window and granularity the rate metric asks for, or the default.    *)
SettingsOf(o) == IF o.rate = None THEN DefaultSettings ELSE o.rate

(* OnAdd, up to the lock: the counter learns of the key.                   *)
OnAdd(n) ==
    /\ handler = "idle"
    /\ n \in DOMAIN cluster \ DOMAIN seen
    /\ event' = [old |-> cluster[n], new |-> cluster[n]]
    /\ seen' = Put(seen, n, cluster[n])
    /\ EnsureKey(n, SettingsOf(cluster[n]))
    /\ handler' = "added"
    /\ UNCHANGED <<cluster, changes, unsynced, httpScaledObjects, tombstoned,
                   memorySignal, refreshVars>>

(* OnUpdate, up to the end of the first critical section of UpdateBuckets. *)
OnUpdate(n) ==
    /\ handler = "idle"
    /\ n \in DOMAIN cluster \cap DOMAIN seen
    /\ cluster[n] # seen[n]
    /\ event' = [old |-> seen[n], new |-> cluster[n]]
    /\ seen' = Put(seen, n, cluster[n])
    /\ EnsureKey(n, SettingsOf(cluster[n]))
    /\ handler' = "updated"
    /\ UNCHANGED <<cluster, changes, unsynced, httpScaledObjects, tombstoned,
                   memorySignal, refreshVars>>

(* The second critical section of UpdateBuckets.                           *)
OnUpdateReplace ==
    /\ handler = "updated"
    /\ ReplaceBuckets(event.new.name, SettingsOf(event.new))
    /\ handler' = "replaced"
    /\ UNCHANGED <<cluster, changes, seen, unsynced, event, httpScaledObjects,
                   tombstoned, memorySignal, refreshVars>>

(* The locked part of OnAdd.                                               *)
OnAddStore ==
    /\ handler = "added"
    /\ httpScaledObjects' = Put(httpScaledObjects, event.new.name, event.new)
    /\ handler' = "stored"
    /\ UNCHANGED <<queueVars, cluster, changes, seen, unsynced, event, tombstoned,
                   memorySignal, refreshVars>>

(* Faulty variant: the object is stored as it was before the update.       *)
OnUpdateStoreOld ==
    /\ handler = "replaced"
    /\ httpScaledObjects' = Put(httpScaledObjects, event.new.name, event.old)
    /\ handler' = "stored"
    /\ UNCHANGED <<queueVars, cluster, changes, seen, unsynced, event, tombstoned,
                   memorySignal, refreshVars>>

(* The locked part of OnUpdate.  An object that changed its name would     *)
(* also leave the map and the counter under the old one.                   *)
OnUpdateStore ==
    /\ handler = "replaced"
    /\ LET put == Put(httpScaledObjects, event.new.name, event.new)
       IN  IF event.old.name # event.new.name
           THEN /\ httpScaledObjects' = Drop(put, event.old.name)
                /\ RemoveKey(event.old.name)
           ELSE /\ httpScaledObjects' = put
                /\ UNCHANGED queueVars
    /\ handler' = "stored"
    /\ UNCHANGED <<cluster, changes, seen, unsynced, event, tombstoned,
                   memorySignal, refreshVars>>

(* Faulty variant: the counter's key is not removed.                       *)
OnDeleteKeepsKey(n) ==
    /\ handler = "idle"
    /\ n \in DOMAIN seen \ DOMAIN cluster
    /\ seen' = Drop(seen, n)
    /\ httpScaledObjects' = Drop(httpScaledObjects, n)
    /\ handler' = "stored"
    /\ tombstoned' = tombstoned \ {n}
    /\ UNCHANGED <<queueVars, cluster, changes, unsynced, event, memorySignal, refreshVars>>

(* OnDelete with the object: map and counter forget it under the lock.     *)
OnDelete(n) ==
    /\ handler = "idle"
    /\ n \in DOMAIN seen \ DOMAIN cluster
    /\ seen' = Drop(seen, n)
    /\ httpScaledObjects' = Drop(httpScaledObjects, n)
    /\ RemoveKey(n)
    /\ handler' = "stored"
    /\ tombstoned' = tombstoned \ {n}
    /\ UNCHANGED <<cluster, changes, unsynced, event, memorySignal, refreshVars>>

(* OnDelete with a tombstone, which is not an HTTPScaledObject: the early  *)
(* return.                                                                 *)
OnDeleteTombstone(n) ==
    /\ handler = "idle"
    /\ n \in DOMAIN seen \ DOMAIN cluster
    /\ seen' = Drop(seen, n)
    /\ tombstoned' = tombstoned \cup {n}
    /\ UNCHANGED <<queueVars, cluster, changes, unsynced, handler, event,
                   httpScaledObjects, memorySignal, refreshVars>>

(* Faulty variant: the channel has no buffer.                              *)
HandlerSignalUnbuffered ==
    /\ handler = "stored"
    /\ memorySignal' = (refresher = "waiting")
    /\ handler' = "idle"
    /\ unsynced' = unsynced \ DOMAIN httpScaledObjects
    /\ event' = NoEvent
    /\ UNCHANGED <<queueVars, cluster, changes, seen, httpScaledObjects, tombstoned,
                   refreshVars>>

(* The deferred Signal, after the unlock; then the handler is done.  A     *)
(* signal the channel has no room for is dropped.                          *)
HandlerSignal ==
    /\ handler = "stored"
    /\ memorySignal' = TRUE
    /\ handler' = "idle"
    /\ unsynced' = unsynced \ DOMAIN httpScaledObjects
    /\ event' = NoEvent
    /\ UNCHANGED <<queueVars, cluster, changes, seen, httpScaledObjects, tombstoned,
                   refreshVars>>
-----------------------------------------------------------------------------
(* newMemoryFromHTTPSOs, under the read lock, at the start and after each  *)
(* signal; the first time only when the initial list has been handled.     *)
NewMemoryFromHTTPSOs ==
    /\ \/ refresher = "building"
       \/ refresher = "syncing" /\ unsynced = {}
    /\ \E st \in OldestOwners(httpScaledObjects) :
         built' = {[index |-> httpScaledObjects, store |-> st]}
    /\ refresher' = "built"
    /\ UNCHANGED <<queueVars, cluster, changes, informerVars, memorySignal, memory>>

(* Faulty variant: a memory that is set is not set again.                  *)
SetMemoryOnce ==
    /\ refresher = "built"
    /\ memory' = IF memory = {} THEN built ELSE memory
    /\ built' = {}
    /\ refresher' = "waiting"
    /\ UNCHANGED <<queueVars, cluster, changes, informerVars, memorySignal>>

SetMemory ==
    /\ refresher = "built"
    /\ memory' = built
    /\ built' = {}
    /\ refresher' = "waiting"
    /\ UNCHANGED <<queueVars, cluster, changes, informerVars, memorySignal>>

(* Wait takes the signal out of the channel.                               *)
WaitSignal ==
    /\ refresher = "waiting"
    /\ memorySignal
    /\ memorySignal' = FALSE
    /\ refresher' = "building"
    /\ UNCHANGED <<queueVars, cluster, changes, informerVars, built, memory>>

(* table.Route: what a request with this key is routed to, if anything.    *)
TableRoute(key) == UNION {Route(m.store, key) : m \in memory}
-----------------------------------------------------------------------------
HandlerStep == OnUpdateReplace \/ OnAddStore \/ OnUpdateStore \/ HandlerSignal

InformerStep ==
    \/ HandlerStep
    \/ \E n \in Names : OnAdd(n) \/ OnUpdate(n) \/ OnDelete(n) \/ OnDeleteTombstone(n)

RefresherStep == NewMemoryFromHTTPSOs \/ SetMemory \/ WaitSignal

ClusterStep ==
    \/ \E o \in HTTPSOs : ApplyHTTPSO(o)
    \/ \E n \in Names : DeleteHTTPSO(n)

TableNext == InformerStep \/ RefresherStep \/ ClusterStep
=============================================================================
