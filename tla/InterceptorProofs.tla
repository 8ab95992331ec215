------------------------- MODULE InterceptorProofs -------------------------
(***************************************************************************)
(* Proofs about the interceptor, for any number of apps and requests.      *)
(* A leaf that only one of the provers finds, or that takes it long, names *)
(* the prover.                                                             *)
(***************************************************************************)
EXTENDS Interceptor, FiniteSetTheorems, TLAPS
-----------------------------------------------------------------------------
(* The empty map is the empty sequence to TLA+.                            *)
LEMMA EmptyMap ==
    DOMAIN <<>> = {} /\ (\A S : <<>> \in [{} -> S]) /\ IsObjectMap(<<>>)
  <1>1. DOMAIN <<>> = {}
    OBVIOUS
  <1>2. ASSUME NEW S PROVE <<>> \in [{} -> S]
    OBVIOUS
  <1> QED BY <1>1, <1>2 DEF IsObjectMap

(* Storing an object under its name, or dropping a name, leaves a map from *)
(* names to the objects of that name.                                      *)
LEMMA ObjectMaps ==
    ASSUME NEW f, IsObjectMap(f), NEW o \in HTTPSOs, NEW n
    PROVE  IsObjectMap(Put(f, o.name, o)) /\ IsObjectMap(Drop(f, n))
  BY RoutingAssumption DEF IsObjectMap, Put, Drop, Restrict

(* SettingsOf yields settings.                                             *)
LEMMA SettingsType == ASSUME NEW o \in HTTPSOs PROVE SettingsOf(o) \in Settings
  BY RoutingAssumption DEF SettingsOf

(* A store built from a table holds objects.                               *)
LEMMA OwnersType ==
    ASSUME NEW objs, IsObjectMap(objs), NEW st \in OldestOwners(objs)
    PROVE  st \in [DOMAIN st -> HTTPSOs]
  BY DEF OldestOwners, IsObjectMap, Range

(* A route leads to an object.                                             *)
LEMMA RouteType ==
    ASSUME NEW m, IsMemory(m), NEW key, NEW o \in Route(m.store, key)
    PROVE  o \in HTTPSOs
  BY DEF IsMemory, Route

(* The operations of the counter keep its type.                            *)
LEMMA QueueTypes ==
    ASSUME QueueTypeOK, NEW h \in Names, NEW s \in Settings
    PROVE  /\ Increase(h) => QueueTypeOK'
           /\ Decrease(h) => QueueTypeOK'
           /\ EnsureKey(h, s) => QueueTypeOK'
           /\ ReplaceBuckets(h, s) => QueueTypeOK'
           /\ RemoveKey(h) => QueueTypeOK'
  <1>1. Increase(h) => QueueTypeOK'
    BY DEF QueueTypeOK, Increase, Put
  <1>2. Decrease(h) => QueueTypeOK'
    BY DEF QueueTypeOK, Decrease
  <1>3. EnsureKey(h, s) => QueueTypeOK'
    BY DEF QueueTypeOK, EnsureKey, Put
  <1>4. ReplaceBuckets(h, s) => QueueTypeOK'
    BY DEF QueueTypeOK, ReplaceBuckets, Put
  <1>5. RemoveKey(h) => QueueTypeOK'
    BY DEF QueueTypeOK, RemoveKey, Drop, Restrict
  <1> QED BY <1>1, <1>2, <1>3, <1>4, <1>5

(* All a step of the table can do to the counter.                          *)
LEMMA TableEffect ==
    ASSUME TableTypeOK, TableNext
    PROVE  \/ UNCHANGED queueVars
           \/ \E h \in Names, s \in Settings : EnsureKey(h, s) \/ ReplaceBuckets(h, s)
           \/ \E h \in Names : RemoveKey(h)
  <1>1. CASE ClusterStep \/ RefresherStep
    BY <1>1 DEF ClusterStep, ApplyHTTPSO, DeleteHTTPSO, RefresherStep,
         NewMemoryFromHTTPSOs, SetMemory, WaitSignal
  <1>2. ASSUME NEW n \in Names, OnAdd(n) \/ OnUpdate(n)
        PROVE  \E h \in Names, s \in Settings : EnsureKey(h, s)
    BY <1>2, SettingsType DEF OnAdd, OnUpdate, TableTypeOK, IsObjectMap
  <1>3. ASSUME NEW n \in Names, OnDelete(n) \/ OnDeleteTombstone(n)
        PROVE  UNCHANGED queueVars \/ \E h \in Names : RemoveKey(h)
    BY <1>3 DEF OnDelete, OnDeleteTombstone
  <1>4. CASE OnUpdateReplace
    <2>1. event.new \in HTTPSOs
      BY <1>4 DEF OnUpdateReplace, TableTypeOK
    <2>2. event.new.name \in Names /\ SettingsOf(event.new) \in Settings
      BY <2>1, SettingsType, RoutingAssumption
    <2> QED BY <1>4, <2>2 DEF OnUpdateReplace
  <1>5. CASE OnUpdateStore
    <2>1. event.old \in HTTPSOs
      BY <1>5 DEF OnUpdateStore, TableTypeOK
    <2>2. event.old.name \in Names
      BY <2>1, RoutingAssumption
    <2> QED BY <1>5, <2>2 DEF OnUpdateStore
  <1>6. CASE OnAddStore \/ HandlerSignal
    BY SMTT(30), <1>6 DEF OnAddStore, HandlerSignal
  <1> QED BY <1>1, <1>2, <1>3, <1>4, <1>5, <1>6
        DEF TableNext, InformerStep, HandlerStep
-----------------------------------------------------------------------------
(* The table's own variables keep their types.                             *)
LEMMA TableTypes == ASSUME TableTypeOK, TableNext PROVE TableTypeOK'
  <1> USE DEF TableTypeOK, informerVars, refreshVars, queueVars
  <1>1. ASSUME NEW o \in HTTPSOs, ApplyHTTPSO(o) PROVE TableTypeOK'
    <2>1. IsObjectMap(cluster')
      BY <1>1, ObjectMaps DEF ApplyHTTPSO
    <2> QED BY <1>1, <2>1, RoutingAssumption DEF ApplyHTTPSO
  <1>2. ASSUME NEW n \in Names, DeleteHTTPSO(n) PROVE TableTypeOK'
    <2>1. IsObjectMap(cluster')
      BY <1>2 DEF DeleteHTTPSO, IsObjectMap, Drop, Restrict
    <2> QED BY <1>2, <2>1, RoutingAssumption DEF DeleteHTTPSO
  <1>3. ASSUME NEW n \in Names, OnAdd(n) \/ OnUpdate(n) PROVE TableTypeOK'
    <2>1. cluster[n] \in HTTPSOs /\ cluster[n].name = n
      BY <1>3 DEF OnAdd, OnUpdate, IsObjectMap
    <2>2. IsObjectMap(seen')
      BY <1>3, <2>1, ObjectMaps DEF OnAdd, OnUpdate
    <2>3. OnUpdate(n) => seen[n] \in HTTPSOs
      BY DEF OnUpdate, IsObjectMap
    <2>4. CASE OnAdd(n)
      BY <2>1, <2>2, <2>4 DEF OnAdd
    <2>5. CASE OnUpdate(n)
      BY <2>1, <2>2, <2>3, <2>5 DEF OnUpdate
    <2> QED BY <1>3, <2>4, <2>5
  <1>4. CASE OnUpdateReplace
    BY <1>4 DEF OnUpdateReplace
  <1>5. CASE OnAddStore
    <2>1. IsObjectMap(httpScaledObjects')
      BY <1>5, ObjectMaps DEF OnAddStore
    <2> QED BY <1>5, <2>1 DEF OnAddStore
  <1>6. CASE OnUpdateStore
    <2>1. IsObjectMap(Put(httpScaledObjects, event.new.name, event.new))
      BY <1>6, ObjectMaps DEF OnUpdateStore
    <2>2. IsObjectMap(httpScaledObjects')
      <3> DEFINE put == Put(httpScaledObjects, event.new.name, event.new)
      <3>1. IsObjectMap(put)
        BY <2>1
      <3>2. httpScaledObjects' = put \/ httpScaledObjects' = Drop(put, event.old.name)
        BY <1>6 DEF OnUpdateStore
      <3> HIDE DEF put
      <3>3. IsObjectMap(Drop(put, event.old.name))
        BY <3>1 DEF IsObjectMap, Drop, Restrict
      <3> QED BY <3>1, <3>2, <3>3
    <2> QED BY <1>6, <2>2 DEF OnUpdateStore
  <1>7. ASSUME NEW n \in Names, OnDelete(n) \/ OnDeleteTombstone(n) PROVE TableTypeOK'
    <2>1. IsObjectMap(seen')
      BY <1>7 DEF OnDelete, OnDeleteTombstone, IsObjectMap, Drop, Restrict
    <2>2. IsObjectMap(httpScaledObjects')
      BY <1>7 DEF OnDelete, OnDeleteTombstone, IsObjectMap, Drop, Restrict
    <2> QED BY <1>7, <2>1, <2>2 DEF OnDelete, OnDeleteTombstone
  <1>8. CASE HandlerSignal
    BY <1>8 DEF HandlerSignal, NoEvent
  <1>9. CASE NewMemoryFromHTTPSOs
    <2>1. PICK st \in OldestOwners(httpScaledObjects) :
            built' = {[index |-> httpScaledObjects, store |-> st]}
      BY <1>9 DEF NewMemoryFromHTTPSOs
    <2>2. IsMemory([index |-> httpScaledObjects, store |-> st])
      BY OwnersType DEF IsMemory
    <2> QED BY <1>9, <2>1, <2>2 DEF NewMemoryFromHTTPSOs
  <1>10. CASE SetMemory
    BY <1>10 DEF SetMemory
  <1>11. CASE WaitSignal
    BY ZenonT(40), <1>11 DEF WaitSignal
  <1> QED BY SMTT(30), <1>1, <1>2, <1>3, <1>4, <1>5, <1>6, <1>7, <1>8, <1>9, <1>10, <1>11
        DEF TableNext, InformerStep, HandlerStep, RefresherStep, ClusterStep

(* Init establishes the types of the table.                                *)
LEMMA TableInitTypes == TableInit => TableTypeOK
  <1> SUFFICES ASSUME TableInit PROVE TableTypeOK
    OBVIOUS
  <1>1. IsObjectMap(cluster)
    <2>1. PICK S \in SUBSET HTTPSOs :
            cluster = [n \in {o.name : o \in S} |-> CHOOSE o \in S : o.name = n]
      BY DEF TableInit
    <2>2. ASSUME NEW n \in DOMAIN cluster
          PROVE  n \in Names /\ cluster[n] \in HTTPSOs /\ cluster[n].name = n
      BY <2>1, RoutingAssumption
    <2> QED BY ZenonT(40), <2>1, <2>2 DEF IsObjectMap
  <1>2. DOMAIN cluster \subseteq Names
    BY <1>1 DEF IsObjectMap
  <1>3. changes = 0 /\ unsynced = DOMAIN cluster /\ StartTable
    BY DEF TableInit
  <1>4. IsObjectMap(seen) /\ IsObjectMap(httpScaledObjects)
    BY <1>3, EmptyMap DEF StartTable
  <1>5. changes \in 0..MaxChanges /\ unsynced \subseteq Names
    BY <1>2, <1>3, RoutingAssumption
  <1>6. event \in [old : HTTPSOs \cup {None}, new : HTTPSOs \cup {None}]
    BY <1>3 DEF StartTable, NoEvent
  <1> QED BY ZenonT(40), <1>1, <1>3, <1>4, <1>5, <1>6 DEF StartTable, TableTypeOK

(* The requests and the counter keep their types.                          *)
LEMMA TypeStep == ASSUME IInv, Next PROVE TypeOK'
  <1> USE DEF IInv
  <1>1. CASE TableStep
    <2>1. TableTypeOK'
      BY <1>1, TableTypes DEF TableStep, OfTable, TypeOK
    <2>2. QueueTypeOK'
      <3>1. QueueTypeOK /\ TableTypeOK /\ TableNext
        BY <1>1 DEF TableStep, OfTable, TypeOK
      <3>2. CASE UNCHANGED queueVars
        BY <3>1, <3>2 DEF QueueTypeOK, queueVars
      <3>3. ASSUME NEW h \in Names, NEW s \in Settings,
                   EnsureKey(h, s) \/ ReplaceBuckets(h, s) \/ RemoveKey(h)
            PROVE  QueueTypeOK'
        BY <3>1, <3>3, QueueTypes
      <3> QED BY <3>1, <3>2, <3>3, TableEffect, RoutingAssumption
    <2> QED BY <1>1, <2>1, <2>2 DEF TableStep, OfTable, TypeOK, requestVars
  <1>2. ASSUME NEW r \in Requests, RequestStep(r) PROVE TypeOK'
    <2> USE DEF TypeOK
    <2>0. TableTypeOK'
      BY <1>2 DEF RequestStep, OfRequest, tableVars, informerVars, refreshVars, TableTypeOK
    <2>1. CASE RouteRequest(r)
      <3>1. PICK key \in RequestKeys : \E o \in TableRoute(key) : app' = [app EXCEPT ![r] = o.name]
        BY ZenonT(40), <2>1 DEF RouteRequest
      <3>2. PICK o \in TableRoute(key) : app' = [app EXCEPT ![r] = o.name]
        BY ZenonT(40), <3>1
      <3>3. o \in HTTPSOs
        BY <3>2, RouteType DEF TableRoute, TableTypeOK
      <3>4. o.name \in Names
        BY <3>3, RoutingAssumption
      <3> QED BY <1>2, <2>0, <2>1, <3>2, <3>4
            DEF RouteRequest, RequestStep, OfRequest, queueVars, historyVars, QueueTypeOK
    <2>2. CASE NoRoute(r) \/ ServeRequest(r) \/ NoStream(r) \/ ReturnRequest(r)
               \/ SendSignal(r) \/ CancelContext(r) \/ EndRequest(r)
      BY ZenonT(40), <1>2, <2>0, <2>2 DEF NoRoute, ServeRequest, NoStream, ReturnRequest,
           SendSignal, CancelContext, EndRequest, RequestStep, OfRequest, queueVars,
           historyVars, QueueTypeOK
    <2>3. CASE Inc(r) \/ Dec(r)
      <3>1. app[r] \in Names
        BY <2>3 DEF Inc, Dec, CountInv
      <3>2. QueueTypeOK'
        BY <2>3, <3>1, QueueTypes, RoutingAssumption DEF Inc, Dec
      <3> QED BY <1>2, <2>0, <2>3, <3>1, <3>2 DEF Inc, Dec, RequestStep, OfRequest, historyVars
    <2> QED BY <1>2, <2>1, <2>2, <2>3 DEF RequestStep, OfRequest
  <1>3. ASSUME NEW r \in Requests, Panic(r) PROVE TypeOK'
    <2>1. app[r] \in Names
      BY <1>3 DEF Panic, CountInv
    <2>2. QueueTypeOK'
      BY <1>3, <2>1, QueueTypes, RoutingAssumption DEF Panic, TypeOK
    <2>3. TableTypeOK'
      BY <1>3 DEF Panic, tableVars, informerVars, refreshVars, TableTypeOK, TypeOK
    <2> QED BY <1>3, <2>2, <2>3 DEF Panic, TypeOK, requestVars, historyVars
  <1>4. CASE Restart
    <2>1. TableTypeOK'
      <3>1. TableTypeOK /\ DOMAIN cluster \subseteq Names
        BY DEF TypeOK, TableTypeOK, IsObjectMap
      <3> QED BY ZenonT(40), <1>4, <3>1, EmptyMap DEF Restart, TableTypeOK, NoEvent
    <2>2. QueueTypeOK'
      BY <1>4, EmptyMap DEF Restart, QueueTypeOK
    <2> QED BY ZenonT(40), <1>4, <2>1, <2>2 DEF Restart, TypeOK
  <1> QED BY SMTT(30), <1>1, <1>2, <1>3, <1>4 DEF Next
-----------------------------------------------------------------------------
(* The memory built or published last stays current unless a signal is on  *)
(* its way: each action that changes the table is followed by a Signal.    *)
LEMMA RefreshStep == ASSUME IInv, Next PROVE RefreshInv'
  <1> USE DEF RefreshInv, informerVars, refreshVars
  <1>0. RefreshInv /\ TypeOK
    BY DEF IInv
  <1>1. ASSUME UNCHANGED tableVars PROVE RefreshInv'
    BY <1>0, <1>1 DEF tableVars
  <1>2. ASSUME InformerStep PROVE RefreshInv'
    BY ZenonT(40), <1>0, <1>2 DEF InformerStep, HandlerStep, OnAdd, OnUpdate, OnUpdateReplace,
         OnAddStore, OnUpdateStore, OnDelete, OnDeleteTombstone, HandlerSignal
  <1>3. CASE NewMemoryFromHTTPSOs
    <2>1. PICK st \in OldestOwners(httpScaledObjects) :
            built' = {[index |-> httpScaledObjects, store |-> st]}
      BY <1>3 DEF NewMemoryFromHTTPSOs
    <2>2. {m.index : m \in built'} = {httpScaledObjects}
      BY <2>1
    <2> QED BY <1>3, <2>2 DEF NewMemoryFromHTTPSOs
  <1>4. CASE SetMemory
    BY <1>0, <1>4 DEF SetMemory
  <1>5. CASE WaitSignal
    BY <1>5 DEF WaitSignal
  <1>6. ASSUME ClusterStep PROVE RefreshInv'
    BY <1>0, <1>6 DEF ClusterStep, ApplyHTTPSO, DeleteHTTPSO
  <1>7. CASE Restart
    BY SMTT(40), <1>7 DEF Restart
  <1> QED BY ZenonT(40), <1>1, <1>2, <1>3, <1>4, <1>5, <1>6, <1>7
        DEF Next, TableStep, OfTable, TableNext, RefresherStep, RequestStep, OfRequest, Panic

(* The table, the informer's store and the buckets stay in step.           *)
LEMMA InformerInvStep == ASSUME IInv, Next PROVE InformerInv'
  <1> USE DEF InformerInv, Busy
  <1>0. InformerInv /\ TableTypeOK /\ QueueTypeOK
    BY SMTT(30) DEF IInv, TypeOK
  <1>1. ASSUME UNCHANGED <<seen, handler, event, httpScaledObjects, tombstoned, rpsMap>>
        PROVE  InformerInv'
    BY <1>0, <1>1
  <1>2. ASSUME NEW n \in Names, OnAdd(n) PROVE InformerInv'
    <2>1. cluster[n] \in HTTPSOs /\ cluster[n].name = n
      BY SMTT(30), <1>0, <1>2 DEF OnAdd, TableTypeOK, IsObjectMap
    <2>2. /\ event' = [old |-> cluster[n], new |-> cluster[n]]
          /\ seen' = Put(seen, n, cluster[n])
          /\ rpsMap' = IF n \in DOMAIN rpsMap THEN rpsMap
                       ELSE Put(rpsMap, n, SettingsOf(cluster[n]))
          /\ handler = "idle" /\ handler' = "added" /\ n \notin DOMAIN seen
          /\ UNCHANGED <<httpScaledObjects, tombstoned>>
      BY <1>2 DEF OnAdd, EnsureKey
    <2>3. Busy' = {n} /\ Busy = {}
      BY SMTT(30), <2>1, <2>2
    <2>4. n \notin tombstoned => n \notin DOMAIN rpsMap
      BY SMTT(30), <1>0, <2>2, <2>3
    <2> QED BY <1>0, <2>1, <2>2, <2>3, <2>4 DEF Put
  <1>3. ASSUME NEW n \in Names, OnUpdate(n) PROVE InformerInv'
    <2>1. /\ cluster[n] \in HTTPSOs /\ cluster[n].name = n
          /\ seen[n] \in HTTPSOs /\ seen[n].name = n
      BY <1>0, <1>3 DEF OnUpdate, TableTypeOK, IsObjectMap
    <2>2. /\ event' = [old |-> seen[n], new |-> cluster[n]]
          /\ seen' = Put(seen, n, cluster[n])
          /\ rpsMap' = IF n \in DOMAIN rpsMap THEN rpsMap
                       ELSE Put(rpsMap, n, SettingsOf(cluster[n]))
          /\ handler = "idle" /\ handler' = "updated" /\ n \in DOMAIN seen
          /\ UNCHANGED <<httpScaledObjects, tombstoned>>
      BY <1>3 DEF OnUpdate, EnsureKey
    <2>3. Busy' = {n} /\ Busy = {}
      BY <2>1, <2>2
    <2>4. n \in DOMAIN rpsMap /\ n \in DOMAIN httpScaledObjects
      BY SMTT(30), <1>0, <2>2, <2>3
    <2> QED BY SMTT(40), <1>0, <2>1, <2>2, <2>3, <2>4 DEF Put
  <1>4. CASE OnUpdateReplace
    <2>1. /\ handler = "updated" /\ handler' = "replaced"
          /\ rpsMap' = IF event.new.name \in DOMAIN rpsMap
                          /\ rpsMap[event.new.name] # SettingsOf(event.new)
                       THEN Put(rpsMap, event.new.name, SettingsOf(event.new))
                       ELSE rpsMap
          /\ UNCHANGED <<seen, event, httpScaledObjects, tombstoned>>
      BY SMTT(30), <1>4 DEF OnUpdateReplace, ReplaceBuckets
    <2> QED BY <1>0, <2>1 DEF Put
  <1>5. CASE OnAddStore
    BY SMTT(30), <1>0, <1>5 DEF OnAddStore, Put, queueVars
  <1>6. CASE OnUpdateStore
    <2>1. event.old.name = event.new.name
      BY <1>0, <1>6 DEF OnUpdateStore
    <2>2. /\ handler = "replaced" /\ handler' = "stored"
          /\ httpScaledObjects' = Put(httpScaledObjects, event.new.name, event.new)
          /\ UNCHANGED <<rpsMap, seen, event, tombstoned>>
      BY SMTT(30), <1>6, <2>1 DEF OnUpdateStore, queueVars
    <2> QED BY SMTT(30), <1>0, <2>2 DEF Put
  <1>7. ASSUME NEW n \in Names, OnDelete(n) PROVE InformerInv'
    BY SMTT(30), <1>0, <1>7 DEF OnDelete, RemoveKey, Drop, Restrict
  <1>8. ASSUME NEW n \in Names, OnDeleteTombstone(n) PROVE InformerInv'
    BY <1>0, <1>8 DEF OnDeleteTombstone, Drop, Restrict, queueVars
  <1>9. CASE HandlerSignal
    BY <1>0, <1>9 DEF HandlerSignal, queueVars
  <1>10. CASE Restart
    BY SMTT(30), <1>10, EmptyMap DEF Restart
  <1>11. ASSUME RefresherStep \/ ClusterStep PROVE InformerInv'
    BY SMTT(40), <1>1, <1>11 DEF RefresherStep, NewMemoryFromHTTPSOs, SetMemory, WaitSignal,
         ClusterStep, ApplyHTTPSO, DeleteHTTPSO, informerVars, queueVars
  <1>12. ASSUME NEW r \in Requests, RequestStep(r) \/ Panic(r) PROVE InformerInv'
    <2>1. UNCHANGED tableVars
      BY SMTT(30), <1>12 DEF RequestStep, OfRequest, Panic
    <2>2. UNCHANGED rpsMap
      BY <1>12 DEF RequestStep, OfRequest, Panic, RouteRequest, NoRoute, ServeRequest, NoStream,
           ReturnRequest, SendSignal, CancelContext, Inc, Dec, EndRequest, Increase,
           Decrease, queueVars
    <2> QED BY SMTT(30), <1>1, <2>1, <2>2 DEF tableVars, informerVars
  <1> QED BY ZenonT(40), <1>2, <1>3, <1>4, <1>5, <1>6, <1>7, <1>8, <1>9, <1>10, <1>11, <1>12
        DEF Next, TableStep, OfTable, TableNext, InformerStep, HandlerStep
-----------------------------------------------------------------------------
(* The counting part of the invariant.                                     *)
Counts == CountInv /\ CountsReadable /\ PendingNeverOverstated /\ PendingExact

(* Live requests are requests, and finite sets have natural cardinalities. *)
LEMMA LiveFinite ==
    ASSUME NEW n
    PROVE  IsFiniteSet(Live(n)) /\ Cardinality(Live(n)) \in Nat
  <1>1. Live(n) \subseteq Requests
    BY DEF Live
  <1>2. IsFiniteSet(Live(n))
    BY SMTT(30), <1>1, RequestsAssumption, FS_Subset
  <1> QED BY <1>2, FS_CardinalityType

(* A step that changes neither the live requests nor the counter.          *)
LEMMA CountsQuiet ==
    ASSUME Counts, UNCHANGED <<queueVars, disturbed, crashed>>, \A n : Live(n)' = Live(n),
           \A r \in Requests : phase'[r] = "routed" \/ counting'[r] # "off" => app'[r] \in Names,
           \A r \in Requests : counting'[r] # "off" => phase'[r] \in {"serving", "returned"},
           \A r \in orphaned' : counting'[r] = "counted"
    PROVE  Counts'
  BY SMTT(40) DEF Counts, CountInv, CountsReadable, PendingNeverOverstated, PendingExact, queueVars

(* A step of the table: a new key starts at zero with no live request, and *)
(* a removed key takes its live requests along.                            *)
LEMMA TableCounts == ASSUME IInv, TableStep PROVE Counts'
  <1> USE DEF Counts, CountInv, CountsReadable, PendingNeverOverstated, PendingExact
  <1>0. TypeOK /\ Counts /\ ~crashed /\ TableNext /\ UNCHANGED <<requestVars, crashed>>
    BY ZenonT(40) DEF IInv, TableStep, OfTable
  <1> DEFINE removed == DOMAIN concurrentMap \ DOMAIN concurrentMap'
  <1>1. /\ orphaned' = orphaned \cup
                         {r \in Requests : counting[r] = "counted" /\ app[r] \in removed}
        /\ disturbed' = disturbed \ removed
    BY ZenonT(40) DEF TableStep, OfTable
  <1>2. \A n : Live(n)' = IF n \in removed THEN {} ELSE Live(n)
    BY <1>0, <1>1 DEF Live, requestVars
  <1>3. /\ \A r \in Requests : phase'[r] = "routed" \/ counting'[r] # "off" => app'[r] \in Names
        /\ \A r \in Requests : counting'[r] # "off" => phase'[r] \in {"serving", "returned"}
        /\ \A r \in orphaned' : counting'[r] = "counted"
    BY SMTT(30), <1>0, <1>1 DEF requestVars
  <1>4. CASE UNCHANGED queueVars
    BY SMTT(30), <1>0, <1>1, <1>2, <1>3, <1>4 DEF queueVars
  <1>5. ASSUME NEW h \in Names, NEW s \in Settings, EnsureKey(h, s) PROVE Counts'
    <2>1. removed = {} /\ disturbed' = disturbed /\ \A n : Live(n)' = Live(n)
      BY <1>1, <1>2, <1>5 DEF EnsureKey, Put
    <2>2. /\ DOMAIN concurrentMap' = DOMAIN concurrentMap \cup {h}
          /\ DOMAIN rpsMap' = DOMAIN rpsMap \cup {h}
          /\ \A n \in DOMAIN concurrentMap : concurrentMap'[n] = concurrentMap[n]
          /\ h \notin DOMAIN concurrentMap => concurrentMap'[h] = 0
      BY <1>5 DEF EnsureKey, Put
    <2>3. h \notin DOMAIN concurrentMap => Cardinality(Live(h)) = 0
      BY ZenonT(40), <1>0, FS_EmptySet
    <2> HIDE DEF removed
    <2> QED BY <1>0, <1>3, <2>1, <2>2, <2>3
  <1>6. ASSUME NEW h \in Names, NEW s \in Settings, ReplaceBuckets(h, s) PROVE Counts'
    <2>1. removed = {} /\ disturbed' = disturbed /\ \A n : Live(n)' = Live(n)
      BY <1>1, <1>2, <1>6 DEF ReplaceBuckets
    <2>2. concurrentMap' = concurrentMap /\ DOMAIN rpsMap' = DOMAIN rpsMap
      BY SMTT(30), <1>6 DEF ReplaceBuckets, Put
    <2> HIDE DEF removed
    <2> QED BY SMTT(30), <1>0, <1>3, <2>1, <2>2
  <1>7. ASSUME NEW h \in Names, RemoveKey(h) PROVE Counts'
    <2>1. /\ DOMAIN concurrentMap' = DOMAIN concurrentMap \ {h}
          /\ DOMAIN rpsMap' = DOMAIN rpsMap \ {h}
          /\ \A n \in DOMAIN concurrentMap' : concurrentMap'[n] = concurrentMap[n]
          /\ removed \subseteq {h}
      BY <1>7 DEF RemoveKey, Drop, Restrict
    <2>2. \A n : n \notin removed => Live(n)' = Live(n)
      BY <1>2
    <2>3. \A n \in removed : Live(n)' = {}
      BY <1>2
    <2>4. \A n \in DOMAIN concurrentMap' : n \notin removed
      OBVIOUS
    <2>5. disturbed' = disturbed \ removed
      BY <1>1
    <2>6. \A n \in Names \ DOMAIN concurrentMap' : Live(n)' = {}
      BY <1>0, <2>2, <2>3
    <2> HIDE DEF removed
    <2> QED BY <1>0, <1>3, <2>1, <2>2, <2>4, <2>5, <2>6
  <1> QED BY ZenonT(40), <1>0, <1>4, <1>5, <1>6, <1>7, TableEffect DEF TypeOK

(* The steps of a request: Inc adds it to the live ones and to the count,  *)
(* Dec takes it from both, and Dec of an orphaned request can only lower a *)
(* count.                                                                  *)
LEMMA RequestCounts ==
    ASSUME IInv, NEW r \in Requests, RequestStep(r)
    PROVE  Counts'
  <1>0. TypeOK /\ Counts /\ ~crashed /\ crashed' = crashed
    BY SMTT(40) DEF IInv, Counts, RequestStep, OfRequest
  <1>1. CASE RouteRequest(r)
    <2>1. PICK key \in RequestKeys : \E o \in TableRoute(key) : app' = [app EXCEPT ![r] = o.name]
      BY ZenonT(40), <1>1 DEF RouteRequest
    <2>2. PICK o \in TableRoute(key) : app' = [app EXCEPT ![r] = o.name]
      BY ZenonT(40), <2>1
    <2>3. o \in HTTPSOs
      BY <1>0, <2>2, RouteType DEF TableRoute, TableTypeOK, TypeOK
    <2>4. o.name \in Names
      BY SMTT(40), <2>3, RoutingAssumption
    <2>5. counting[r] = "off" /\ counting' = counting /\ orphaned' = orphaned
      BY ZenonT(40), <1>0, <1>1 DEF RouteRequest, historyVars, Counts, CountInv, TypeOK
    <2>6. \A n : Live(n)' = Live(n)
      BY SMTT(40), <1>0, <2>2, <2>5 DEF Live, TypeOK
    <2> QED BY <1>0, <1>1, <2>2, <2>4, <2>5, <2>6, CountsQuiet
          DEF RouteRequest, historyVars, Counts, CountInv, TypeOK
  <1>2. CASE NoRoute(r) \/ ServeRequest(r) \/ NoStream(r) \/ ReturnRequest(r)
             \/ SendSignal(r) \/ CancelContext(r) \/ EndRequest(r)
    <2>1. /\ UNCHANGED <<queueVars, historyVars>>
          /\ \A q \in Requests : counting[q] = "counted" <=> counting'[q] = "counted"
          /\ \A q \in Requests : counting'[q] # "off" => app'[q] = app[q]
      BY <1>0, <1>2 DEF NoRoute, ServeRequest, NoStream, ReturnRequest, SendSignal,
           CancelContext, EndRequest, TypeOK, Counts, CountInv
    <2>2. \A n : Live(n)' = Live(n)
      <3> SUFFICES ASSUME NEW n PROVE Live(n)' = Live(n)
        OBVIOUS
      <3>1. orphaned' = orphaned
        BY <2>1 DEF historyVars
      <3>2. ASSUME NEW q \in Requests
            PROVE  (counting'[q] = "counted" /\ app'[q] = n)
                     <=> (counting[q] = "counted" /\ app[q] = n)
        BY SMTT(30), <2>1
      <3> QED BY ZenonT(40), <3>1, <3>2 DEF Live
    <2>3. /\ \A q \in Requests : phase'[q] = "routed" \/ counting'[q] # "off" => app'[q] \in Names
          /\ \A q \in Requests : counting'[q] # "off" => phase'[q] \in {"serving", "returned"}
      BY SMTT(40), <1>0, <1>2 DEF NoRoute, ServeRequest, NoStream, ReturnRequest, SendSignal,
           CancelContext, EndRequest, TypeOK, Counts, CountInv
    <2>4. \A q \in orphaned' : counting'[q] = "counted"
      BY <1>0, <2>1 DEF historyVars, Counts, CountInv, TypeOK
    <2> QED BY ZenonT(40), <1>0, <2>1, <2>2, <2>3, <2>4, CountsQuiet DEF historyVars
  <1>3. CASE Inc(r)
    <2> PICK h : h = app[r]
      BY ZenonT(40)
    <2>1. /\ h \in Names /\ h \in DOMAIN concurrentMap
          /\ r \notin orphaned /\ r \notin Live(h)
      BY <1>0, <1>3 DEF Inc, IncreasePanics, Counts, CountInv, CountsReadable, Live
    <2>2. /\ counting' = [counting EXCEPT ![r] = "counted"]
          /\ UNCHANGED <<phase, app, orphaned, disturbed, rpsMap>>
          /\ concurrentMap' = Put(concurrentMap, h, concurrentMap[h] + 1)
      BY <1>3, <2>1 DEF Inc, Increase, historyVars
    <2>3. /\ Live(h)' = Live(h) \cup {r}
          /\ \A n : n # h => Live(n)' = Live(n)
      BY <1>0, <2>1, <2>2 DEF Live, TypeOK
    <2>4. Cardinality(Live(h)') = Cardinality(Live(h)) + 1
      BY ZenonT(40), <2>1, <2>3, LiveFinite, FS_AddElement
    <2>5. /\ DOMAIN concurrentMap' = DOMAIN concurrentMap
          /\ concurrentMap'[h] = concurrentMap[h] + 1
          /\ \A n \in DOMAIN concurrentMap : n # h => concurrentMap'[n] = concurrentMap[n]
      BY SMTT(30), <2>1, <2>2 DEF Put
    <2>6. CountInv'
      BY SMTT(30), <1>0, <1>3, <2>1, <2>2, <2>3, <2>5 DEF Inc, Counts, CountInv, TypeOK
    <2>7. concurrentMap[h] \in Nat /\ Cardinality(Live(h)) \in Nat
      BY SMTT(40), <1>0, <2>1, LiveFinite DEF TypeOK, QueueTypeOK
    <2>8. CountsReadable'
      BY ZenonT(40), <1>0, <2>2, <2>5 DEF Counts, CountsReadable
    <2>9. PendingNeverOverstated'
      <3> SUFFICES ASSUME NEW n \in DOMAIN concurrentMap'
                   PROVE  concurrentMap'[n] <= Cardinality(Live(n)')
        BY DEF PendingNeverOverstated
      <3>1. concurrentMap[n] <= Cardinality(Live(n))
        BY SMTT(30), <1>0, <2>5 DEF Counts, PendingNeverOverstated
      <3>2. CASE n = h
        BY SMTT(40), <2>4, <2>5, <2>7, <3>1, <3>2
      <3> QED BY <2>3, <2>5, <3>1, <3>2
    <2>10. PendingExact'
      BY <1>0, <2>1, <2>2, <2>3, <2>4, <2>5, <2>7 DEF Counts, PendingExact
    <2> QED BY <2>6, <2>8, <2>9, <2>10 DEF Counts
  <1>4. CASE Dec(r)
    <2> PICK h : h = app[r]
      BY Zenon
    <2>1. /\ counting[r] = "counted" /\ h \in Names
          /\ counting' = [counting EXCEPT ![r] = "off"]
          /\ orphaned' = orphaned \ {r}
          /\ UNCHANGED <<phase, app, rpsMap>>
          /\ concurrentMap' = [k \in DOMAIN concurrentMap |->
               IF k = h /\ concurrentMap[k] > 0 THEN concurrentMap[k] - 1
                                               ELSE concurrentMap[k]]
          /\ disturbed' = IF r \in orphaned /\ concurrentMap' # concurrentMap
                          THEN disturbed \cup {h} ELSE disturbed
      BY <1>0, <1>4 DEF Dec, Decrease, Counts, CountInv
    <2>2. /\ Live(h)' = Live(h) \ {r}
          /\ \A n : n # h => Live(n)' = Live(n)
      BY SMTT(30), <1>0, <2>1 DEF Live, TypeOK
    <2>3. CountInv'
      BY <1>0, <2>1, <2>2 DEF Counts, CountInv, TypeOK
    <2>4. CountsReadable'
      BY <1>0, <2>1 DEF Counts, CountsReadable
    <2>5. \A n \in DOMAIN concurrentMap : concurrentMap[n] \in Nat /\ Cardinality(Live(n)) \in Nat
      BY SMTT(30), <1>0, LiveFinite DEF TypeOK, QueueTypeOK
    <2>6. CASE r \in orphaned
      <3>1. \A n : Live(n)' = Live(n)
        BY <2>2, <2>6 DEF Live
      <3>2. \A n \in DOMAIN concurrentMap' : concurrentMap'[n] <= concurrentMap[n]
        BY <2>1, <2>5
      <3>3. \A n \in DOMAIN concurrentMap' \ disturbed' :
               n \notin disturbed /\ concurrentMap'[n] = concurrentMap[n]
        BY <2>1, <2>6
      <3>4. DOMAIN concurrentMap' = DOMAIN concurrentMap
        BY <2>1
      <3>5. concurrentMap' \in [DOMAIN concurrentMap -> Nat]
        BY <2>1, <2>5
      <3>6. PendingNeverOverstated'
        <4> SUFFICES ASSUME NEW n \in DOMAIN concurrentMap'
                     PROVE  concurrentMap'[n] <= Cardinality(Live(n)')
          BY DEF PendingNeverOverstated
        <4>1. concurrentMap[n] <= Cardinality(Live(n))
          BY <1>0, <3>4 DEF Counts, PendingNeverOverstated
        <4> QED BY <2>5, <3>1, <3>2, <3>4, <3>5, <4>1
      <3>7. PendingExact'
        BY <1>0, <3>1, <3>3, <3>4 DEF Counts, PendingExact
      <3> QED BY <2>3, <2>4, <3>6, <3>7 DEF Counts
    <2>7. CASE r \notin orphaned
      <3>1. r \in Live(h)
        BY <2>1, <2>7 DEF Live
      <3>2. h \in DOMAIN concurrentMap
        BY SMTT(30), <1>0, <2>1, <3>1 DEF Counts, CountInv
      <3>3. Cardinality(Live(h)') = Cardinality(Live(h)) - 1
        BY SMTT(30), <2>2, <3>1, LiveFinite, FS_RemoveElement
      <3>4. Cardinality(Live(h)') \in Nat
        <4>1. IsFiniteSet(Live(h) \ {r})
          BY LiveFinite, FS_Subset
        <4> QED BY <2>2, <4>1, FS_CardinalityType
      <3>5. DOMAIN concurrentMap' = DOMAIN concurrentMap /\ disturbed' = disturbed
        BY <2>1, <2>7
      <3>6. /\ \A n \in DOMAIN concurrentMap : n # h => concurrentMap'[n] = concurrentMap[n]
            /\ concurrentMap'[h] = IF concurrentMap[h] > 0 THEN concurrentMap[h] - 1
                                                          ELSE concurrentMap[h]
        BY <2>1, <3>2
      <3>7. PendingNeverOverstated'
        <4> SUFFICES ASSUME NEW n \in DOMAIN concurrentMap'
                     PROVE  concurrentMap'[n] <= Cardinality(Live(n)')
          BY DEF PendingNeverOverstated
        <4>1. concurrentMap[n] <= Cardinality(Live(n))
          BY <1>0, <3>5 DEF Counts, PendingNeverOverstated
        <4>2. CASE n = h
          BY SMTT(40), <2>5, <3>2, <3>3, <3>4, <3>6, <4>1, <4>2
        <4> QED BY <2>2, <3>5, <3>6, <4>1, <4>2
      <3>8. PendingExact'
        BY SMTT(40), <1>0, <2>2, <2>5, <3>2, <3>3, <3>4, <3>5, <3>6 DEF Counts, PendingExact
      <3> QED BY <2>3, <2>4, <3>7, <3>8 DEF Counts
    <2> QED BY SMTT(30), <2>6, <2>7
  <1> QED BY <1>1, <1>2, <1>3, <1>4 DEF RequestStep, OfRequest

(* The panic and the restart, after which no request is live.              *)
LEMMA CountsStep == ASSUME IInv, Next PROVE Counts'
  <1> USE DEF Counts, CountInv, CountsReadable, PendingNeverOverstated, PendingExact
  <1>1. ASSUME NEW r \in Requests, Panic(r) PROVE Counts'
    BY <1>1 DEF IInv, Panic, requestVars, historyVars
  <1>2. CASE Restart
    <2>1. \A n : Live(n)' = {}
      BY <1>2 DEF Live, Restart
    <2> QED BY <1>2, <2>1, EmptyMap DEF Restart
  <1> QED BY ZenonT(40), <1>1, <1>2, TableCounts, RequestCounts DEF Next
-----------------------------------------------------------------------------
(* The inductive invariant holds when an interceptor starts: NewMemory and *)
(* NewTable leave every map empty.                                         *)
LEMMA InitIInv == Init => IInv
  <1> SUFFICES ASSUME Init PROVE IInv
    OBVIOUS
  <1>1. TableInit /\ NoRequests /\ crashed = FALSE
    BY DEF Init
  <1>2. concurrentMap = <<>> /\ rpsMap = <<>> /\ StartTable
    BY <1>1 DEF TableInit, NewMemory
  <1>3. TypeOK
    BY ZenonT(40), <1>1, <1>2, TableInitTypes, EmptyMap DEF TypeOK, QueueTypeOK, NoRequests
  <1>4. RefreshInv
    BY SMTT(30), <1>2 DEF StartTable, RefreshInv
  <1>5. InformerInv
    BY <1>2, EmptyMap DEF StartTable, InformerInv, Busy
  <1>6. \A n : Live(n) = {}
    BY <1>1 DEF NoRequests, Live
  <1>7. Counts
    BY <1>1, <1>2, <1>6, EmptyMap DEF NoRequests, Counts, CountInv, CountsReadable,
         PendingNeverOverstated, PendingExact
  <1> QED BY <1>3, <1>4, <1>5, <1>7 DEF IInv, Counts

(* Every step of the handlers, the refresher, the requests and the cluster *)
(* preserves the inductive invariant.                                      *)
LEMMA NextIInv == IInv /\ [Next]_vars => IInv'
  <1> SUFFICES ASSUME IInv, [Next]_vars PROVE IInv'
    OBVIOUS
  <1>1. CASE Next
    BY SMTT(30), <1>1, TypeStep, RefreshStep, InformerInvStep, CountsStep DEF IInv, Counts
  <1>2. CASE UNCHANGED vars
    <2> USE <1>2 DEF vars, queueVars, tableVars, informerVars, refreshVars, requestVars,
              historyVars
    <2>1. TypeOK'
      BY SMTT(40) DEF IInv, TypeOK, QueueTypeOK, TableTypeOK
    <2>2. RefreshInv' /\ InformerInv'
      BY SMTT(30) DEF IInv, RefreshInv, InformerInv, Busy
    <2>3. \A n : Live(n)' = Live(n)
      BY SMTT(40) DEF Live
    <2>4. CountInv' /\ CountsReadable' /\ PendingNeverOverstated' /\ PendingExact'
      BY <2>3 DEF IInv, CountInv, CountsReadable, PendingNeverOverstated, PendingExact
    <2> QED BY SMTT(40), <2>1, <2>2, <2>4 DEF IInv
  <1> QED BY <1>1, <1>2

(* The inductive invariant holds in every state of the interceptor.        *)
THEOREM Invariance == Spec => []IInv
  BY InitIInv, NextIInv, PTL DEF Spec

(* The types are kept by every step, for any number of apps and requests.  *)
THEOREM TypeCorrect == Spec => []TypeOK
  <1>1. IInv => TypeOK
    BY DEF IInv
  <1> QED BY <1>1, Invariance, PTL

(* No wakeup of the refresher is ever lost, however the handlers' late     *)
(* Signal and the dropped signals of a full channel interleave with it.    *)
THEOREM NeverLosesRefresh == Spec => []NoLostRefresh
  <1>1. IInv => NoLostRefresh
    BY SMTT(40) DEF IInv, RefreshInv, NoLostRefresh
  <1> QED BY <1>1, Invariance, PTL

(* When everything is delivered and the refresher sleeps, the routes are   *)
(* those of the cluster.                                                   *)
THEOREM RoutesAreSettled == Spec => []RoutesSettle
  <1>1. IInv => RoutesSettle
    <2> SUFFICES ASSUME IInv, Settled, NEW m \in memory, NEW n \in Names \ tombstoned
                 PROVE  /\ n \in DOMAIN m.index <=> n \in DOMAIN cluster
                        /\ n \in DOMAIN cluster => m.index[n] = cluster[n]
      BY SMTT(40) DEF RoutesSettle
    <2>1. m.index = httpScaledObjects
      BY DEF IInv, RefreshInv, Settled
    <2>2. Busy = {} /\ seen = cluster
      BY SMTT(30) DEF Settled, Busy
    <2> QED BY SMTT(40), <2>1, <2>2 DEF IInv, InformerInv
  <1> QED BY <1>1, Invariance, PTL

(* Counters and buckets exist exactly for the listed objects.              *)
THEOREM CountersAlwaysFollow == Spec => []CountersFollowObjects
  <1>1. IInv => CountersFollowObjects
    <2> SUFFICES ASSUME IInv, handler = "idle"
                 PROVE  /\ DOMAIN rpsMap = DOMAIN httpScaledObjects
                        /\ \A n \in DOMAIN rpsMap \ tombstoned :
                             rpsMap[n] = SettingsOf(httpScaledObjects[n])
      BY DEF CountersFollowObjects
    <2>1. Busy = {} /\ DOMAIN rpsMap \subseteq Names
      BY DEF Busy, IInv, TypeOK, QueueTypeOK
    <2> QED BY SMTT(30), <2>1 DEF IInv, InformerInv
  <1> QED BY <1>1, Invariance, PTL

(* The count of an app never exceeds its live requests, however requests,  *)
(* cancellations, deletions and crashes interleave.                        *)
THEOREM NeverOverstates == Spec => []PendingNeverOverstated
  <1>1. IInv => PendingNeverOverstated
    BY DEF IInv
  <1> QED BY <1>1, Invariance, PTL

(* The count of an app is exact until a request of a deleted and created   *)
(* app of the same name comes to an end (Memory.Decrease).                 *)
THEOREM StaysExact == Spec => []PendingExact
  <1>1. IInv => PendingExact
    BY SMTT(40) DEF IInv
  <1> QED BY <1>1, Invariance, PTL

(* Current finds buckets for every host that has a count, whatever was     *)
(* removed meanwhile (Memory.Current).                                     *)
THEOREM AlwaysReadable == Spec => []CountsReadable
  <1>1. IInv => CountsReadable
    BY SMTT(40) DEF IInv
  <1> QED BY <1>1, Invariance, PTL
-----------------------------------------------------------------------------
(* What a request can be routed by, in the terms of RouteView.             *)
View == {m.index : m \in IF refresher = "built" THEN built ELSE memory}

(* Every step of the interceptor is a step of RouteView, or none: building *)
(* a memory publishes the table as it is, storing in the table changes it, *)
(* and setting the memory holder shows nothing new.                        *)
LEMMA ViewStep ==
    ASSUME [Next]_vars
    PROVE  [Routes!Next]_<<httpScaledObjects, View>>
  <1> USE DEF informerVars, refreshVars
  <1>1. ASSUME UNCHANGED <<refresher, built, memory>>
        PROVE  [Routes!Next]_<<httpScaledObjects, View>>
    BY SMTT(40), <1>1 DEF View, Routes!Next, Routes!Change
  <1>2. CASE NewMemoryFromHTTPSOs
    <2>1. PICK st \in OldestOwners(httpScaledObjects) :
            built' = {[index |-> httpScaledObjects, store |-> st]}
      BY <1>2 DEF NewMemoryFromHTTPSOs
    <2>2. View' = {httpScaledObjects} /\ UNCHANGED httpScaledObjects
      BY SMTT(30), <1>2, <2>1 DEF NewMemoryFromHTTPSOs, View
    <2> QED BY SMTT(30), <2>2 DEF Routes!Next, Routes!Publish, View
  <1>3. CASE SetMemory \/ WaitSignal
    BY SMTT(30), <1>3 DEF SetMemory, WaitSignal, View
  <1>4. CASE Restart
    BY SMTT(40), <1>4 DEF Restart, View, Routes!Next, Routes!Reset
  <1>5. ASSUME InformerStep \/ ClusterStep PROVE UNCHANGED <<refresher, built, memory>>
    BY ZenonT(40), <1>5 DEF InformerStep, HandlerStep, OnAdd, OnUpdate, OnUpdateReplace, OnAddStore,
         OnUpdateStore, OnDelete, OnDeleteTombstone, HandlerSignal, ClusterStep,
         ApplyHTTPSO, DeleteHTTPSO
  <1>6. ASSUME UNCHANGED tableVars PROVE UNCHANGED <<refresher, built, memory>>
    BY <1>6 DEF tableVars
  <1> QED BY SMTT(30), <1>1, <1>2, <1>3, <1>4, <1>5, <1>6
        DEF Next, TableStep, OfTable, TableNext, RefresherStep, RequestStep, OfRequest, Panic, vars

(* The interceptor implements the safety part of RouteView: at every       *)
(* moment requests are routed by one state of the table, never by an older *)
(* one than before.                                                        *)
THEOREM RoutesRefine == Spec => Routes!Init /\ [][Routes!Next]_<<httpScaledObjects, View>>
  <1>1. Init => Routes!Init
    BY DEF Init, TableInit, StartTable, Routes!Init
  <1> QED BY <1>1, ViewStep, PTL DEF Spec
=============================================================================
