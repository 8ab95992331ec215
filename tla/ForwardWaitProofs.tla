------------------------- MODULE ForwardWaitProofs -------------------------
(***************************************************************************)
(* No request sleeps through the event that makes its workload ready, and  *)
(* none is let through by another workload, for any number of requests,    *)
(* services and queued events.                                             *)
(***************************************************************************)
EXTENDS ForwardWait, TLAPS

USE DEF cacheVars, queueVars

(* Putting an event at the end of a queue.                                 *)
LEMMA AppendRange ==
    ASSUME NEW S, NEW q \in Seq(S), NEW x \in S
    PROVE  /\ Append(q, x) \in Seq(S) /\ Len(Append(q, x)) = Len(q) + 1 /\ Len(q) \in Nat
           /\ Range(Append(q, x)) = Range(q) \cup {x}
<1>1. Append(q, x) \in Seq(S) /\ Len(Append(q, x)) = Len(q) + 1 /\ Len(q) \in Nat
  OBVIOUS
<1>2. /\ DOMAIN q = 1..Len(q) /\ DOMAIN Append(q, x) = 1..(Len(q) + 1)
      /\ \A i \in 1..Len(q) : Append(q, x)[i] = q[i]
      /\ Append(q, x)[Len(q) + 1] = x
  OBVIOUS
<1>3. Range(Append(q, x)) = Range(q) \cup {x}
  <2>1. ASSUME NEW e \in Range(Append(q, x)) PROVE e \in Range(q) \cup {x}
    BY <1>1, <1>2 DEF Range
  <2>2. ASSUME NEW e \in Range(q) PROVE e \in Range(Append(q, x))
    <3>1. PICK i \in 1..Len(q) : e = q[i]
      BY <1>2 DEF Range
    <3>2. i \in 1..(Len(q) + 1) /\ e = Append(q, x)[i]
      BY <1>1, <1>2, <3>1
    <3> QED
      BY <1>2, <3>2 DEF Range
  <2>3. x \in Range(Append(q, x))
    BY <1>1, <1>2 DEF Range
  <2> QED
    BY <2>1, <2>2, <2>3
<1> QED
  BY <1>1, <1>3

(* Taking the first event from a queue.                                    *)
LEMMA TailRange ==
    ASSUME NEW S, NEW q \in Seq(S), q # <<>>
    PROVE  /\ Head(q) \in S /\ Tail(q) \in Seq(S) /\ Len(q) \in Nat /\ Len(Tail(q)) = Len(q) - 1
           /\ Range(q) = Range(Tail(q)) \cup {Head(q)}
<1>1. /\ Head(q) \in S /\ Tail(q) \in Seq(S) /\ Len(q) \in Nat \ {0} /\ Len(Tail(q)) = Len(q) - 1
      /\ Head(q) = q[1]
  OBVIOUS
<1>2. /\ DOMAIN q = 1..Len(q) /\ DOMAIN Tail(q) = 1..(Len(q) - 1)
      /\ \A i \in 1..(Len(q) - 1) : Tail(q)[i] = q[i + 1]
  OBVIOUS
<1>3. ASSUME NEW e \in Range(q) PROVE e \in Range(Tail(q)) \cup {Head(q)}
  <2>1. PICK i \in 1..Len(q) : e = q[i]
    BY <1>2 DEF Range
  <2>2. CASE i # 1
    <3>1. i - 1 \in 1..(Len(q) - 1) /\ (i - 1) + 1 = i
      BY <1>1, <2>2
    <3>2. Tail(q)[i - 1] = e
      BY <1>2, <2>1, <3>1
    <3> QED
      BY <1>2, <3>1, <3>2 DEF Range
  <2> QED
    BY <1>1, <2>1, <2>2
<1>4. ASSUME NEW e \in Range(Tail(q)) PROVE e \in Range(q)
  <2>1. PICK i \in 1..(Len(q) - 1) : e = Tail(q)[i]
    BY <1>2 DEF Range
  <2>2. i + 1 \in 1..Len(q) /\ e = q[i + 1]
    BY <1>1, <1>2, <2>1
  <2> QED
    BY <1>2, <2>2 DEF Range
<1>5. Head(q) \in Range(q)
  BY <1>1, <1>2 DEF Range
<1> QED
  BY <1>1, <1>3, <1>4, <1>5

(* The elements of a queue are of its type.                                *)
LEMMA RangeType == ASSUME NEW S, NEW q \in Seq(S) PROVE Range(q) \subseteq S
BY DEF Range

(* What is left of an offer when r was served.                             *)
LEMMA OfferedLeaves ==
    ASSUME TypeOK, NEW b \in sending, NEW r \in b.to, Offered(b, r)
    PROVE  /\ sending = {b}
           /\ \A c \in sending' : c.event = b.event /\ c.to = b.to \ {r}
           /\ b.to \ {r} # {} => sending' # {}
           /\ AtMostOne(sending')
           /\ sending' \subseteq [event : Events, to : (SUBSET Requests) \ {{}}]
<1>1. sending = {b} /\ b \in [event : Events, to : (SUBSET Requests) \ {{}}]
  BY DEF TypeOK, AtMostOne
<1>2. CASE b.to = {r}
  BY <1>1, <1>2 DEF Offered, AtMostOne
<1>3. CASE b.to # {r}
  <2>1. b.to \ {r} # {} /\ b.to \ {r} \in SUBSET Requests
    BY <1>1, <1>3
  <2>2. sending' = {[b EXCEPT !.to = @ \ {r}]}
    BY <1>3 DEF Offered
  <2>3. /\ [b EXCEPT !.to = @ \ {r}] \in [event : Events, to : (SUBSET Requests) \ {{}}]
        /\ [b EXCEPT !.to = @ \ {r}].event = b.event /\ [b EXCEPT !.to = @ \ {r}].to = b.to \ {r}
    BY <1>1, <2>1
  <2> QED
    BY <1>1, <2>1, <2>2, <2>3 DEF AtMostOne
<1> QED
  BY <1>2, <1>3

(* Initially nobody waits and nothing is under way.                        *)
LEMMA InitHolds == Init => IInv
<1> SUFFICES ASSUME Init PROVE IInv
  OBVIOUS
<1>1. DOMAIN store \subseteq Slices /\ store \in [DOMAIN store -> BOOLEAN]
  BY DEF Init
<1>2. Range(notices) = {} /\ Range(incoming) = {}
  BY DEF Init, Range
<1>3. TypeOK
  <2>1. notices \in Seq(Events) /\ incoming \in Seq(Events) /\ Len(notices) = 0 /\ Len(incoming) = 0
    BY DEF Init
  <2>2. hand \in [Requests -> SUBSET Events] /\ \A r \in Requests : AtMostOne(hand[r])
    BY DEF Init, AtMostOne
  <2>3. /\ phase \in [Requests -> Phases]
        /\ result \in [Requests -> {"none", "warm", "cold", "error"}]
    BY DEF Init, Phases
  <2>4. /\ function = {} /\ sending = {} /\ watchers = {} /\ wasReady \subseteq Services
    BY DEF Init
  <2>5. Len(notices) <= MaxNotices /\ Len(incoming) <= QueueLength
    BY <2>1, ForwardAssumption
  <2> QED
    BY <1>1, <2>1, <2>2, <2>3, <2>4, <2>5 DEF TypeOK, AtMostOne
<1>4. Watched /\ NoMissedWakeup /\ OwnWorkloadWasReady
  BY DEF Init, Watched, NoMissedWakeup, OwnWorkloadWasReady
<1>5. Honest
  <2>1. \A s \in DOMAIN store : store[s] => ServiceOf[s] \in wasReady
    BY <1>1, ForwardAssumption DEF Init, ReadyFor, SlicesFor
  <2> QED
    BY <1>2, <2>1 DEF Init, Honest
<1> QED
  BY <1>3, <1>4, <1>5 DEF IInv

-----------------------------------------------------------------------------
(* A notice of the informer is an event.                                   *)
LEMMA NotifyTypes ==
    ASSUME TypeOK, NEW s \in Slices, NEW ready \in BOOLEAN, Notify(s, ready)
    PROVE  /\ notices' \in Seq(Events) /\ Len(notices') <= MaxNotices
           /\ Range(notices') = Range(notices) \cup {[slice |-> s, ready |-> ready]}
<1>1. [slice |-> s, ready |-> ready] \in Events
  BY DEF Events
<1>2. notices \in Seq(Events)
  BY DEF TypeOK
<1> QED
  BY <1>1, <1>2, AppendRange, ForwardAssumption DEF Notify

(* The steps of the informer and of the cache keep the types.              *)
LEMMA CacheTypes == TypeOK /\ (Informer \/ EvtHandler) => TypeOK'
<1> SUFFICES ASSUME TypeOK, Informer \/ EvtHandler PROVE TypeOK'
  OBVIOUS
<1>1. ASSUME NEW s \in Slices, NEW ready \in BOOLEAN, SetSlice(s, ready) PROVE TypeOK'
  <2>1. notices' \in Seq(Events) /\ Len(notices') <= MaxNotices
    BY <1>1, NotifyTypes DEF SetSlice
  <2>2. DOMAIN store' \subseteq Slices /\ store' \in [DOMAIN store' -> BOOLEAN]
    BY <1>1 DEF SetSlice, TypeOK
  <2>3. wasReady' \subseteq Services
    BY <1>1, ForwardAssumption DEF SetSlice, TypeOK
  <2> QED
    BY <1>1, <2>1, <2>2, <2>3 DEF SetSlice, Notify, TypeOK, AtMostOne
<1>2. ASSUME NEW s \in Slices, DeleteSlice(s) PROVE TypeOK'
  <2>1. notices' \in Seq(Events) /\ Len(notices') <= MaxNotices
    BY <1>2, NotifyTypes DEF DeleteSlice, TypeOK
  <2>2. DOMAIN store' \subseteq Slices /\ store' \in [DOMAIN store' -> BOOLEAN]
    BY <1>2 DEF DeleteSlice, TypeOK
  <2> QED
    BY <1>2, <2>1, <2>2 DEF DeleteSlice, Notify, TypeOK, AtMostOne
<1>3. ASSUME NEW s \in Slices, Resync(s) PROVE TypeOK'
  <2>1. notices' \in Seq(Events) /\ Len(notices') <= MaxNotices
    BY <1>3, NotifyTypes DEF Resync, TypeOK
  <2> QED
    BY <1>3, <2>1 DEF Resync, Notify, TypeOK, AtMostOne
<1>4. CASE EvtHandler
  <2>1. /\ notices \in Seq(Events) /\ notices # <<>> /\ incoming \in Seq(Events)
        /\ Len(notices) <= MaxNotices /\ Len(incoming) < QueueLength
    BY <1>4 DEF EvtHandler, TypeOK
  <2>2. notices' \in Seq(Events) /\ Len(notices') <= MaxNotices /\ Head(notices) \in Events
    BY <1>4, <2>1, TailRange, ForwardAssumption DEF EvtHandler
  <2>3. incoming' \in Seq(Events) /\ Len(incoming') <= QueueLength
    BY <1>4, <2>1, <2>2, AppendRange, ForwardAssumption DEF EvtHandler
  <2> QED
    BY <1>4, <2>2, <2>3 DEF EvtHandler, TypeOK, AtMostOne
<1> QED
  BY <1>1, <1>2, <1>3, <1>4 DEF Informer

(* What Filter leaves of an event.                                         *)
LEMMA FilterTypes ==
    ASSUME NEW r, NEW e \in Events
    PROVE  Filter(r, e) \subseteq Events /\ AtMostOne(Filter(r, e))
BY DEF Filter, AtMostOne

(* The steps of the broadcaster keep the types.                            *)
LEMMA BroadcasterTypes == TypeOK /\ Broadcaster => TypeOK'
<1> SUFFICES ASSUME TypeOK, Broadcaster PROVE TypeOK'
  OBVIOUS
<1>1. CASE Distribute
  <2>1. /\ incoming \in Seq(Events) /\ incoming # <<>> /\ Len(incoming) <= QueueLength
    BY <1>1 DEF Distribute, TypeOK
  <2>2. incoming' \in Seq(Events) /\ Len(incoming') <= QueueLength /\ Head(incoming) \in Events
    BY <1>1, <2>1, TailRange, ForwardAssumption DEF Distribute
  <2>3. sending' \subseteq [event : Events, to : (SUBSET Requests) \ {{}}] /\ AtMostOne(sending')
    <3>1. CASE watchers = {}
      BY <1>1, <3>1 DEF Distribute, AtMostOne
    <3>2. CASE watchers # {}
      <4>1. watchers \in (SUBSET Requests) \ {{}}
        BY <3>2 DEF TypeOK
      <4>2. sending' = {[event |-> Head(incoming), to |-> watchers]}
        BY <1>1, <3>2 DEF Distribute
      <4> QED
        BY <2>2, <4>1, <4>2 DEF AtMostOne
    <3> QED
      BY <3>1, <3>2
  <2> QED
    BY <1>1, <2>2, <2>3 DEF Distribute, TypeOK, AtMostOne
<1>2. ASSUME NEW r \in Requests, Deliver(r) PROVE TypeOK'
  <2>1. PICK b \in sending : /\ r \in b.to /\ Offered(b, r)
                             /\ hand' = [hand EXCEPT ![r] = Filter(r, b.event)]
    BY <1>2 DEF Deliver
  <2>2. sending' \subseteq [event : Events, to : (SUBSET Requests) \ {{}}] /\ AtMostOne(sending')
    BY <2>1, OfferedLeaves
  <2>3. b.event \in Events
    BY DEF TypeOK
  <2>4. hand' \in [Requests -> SUBSET Events] /\ \A q \in Requests : AtMostOne(hand'[q])
    <3>1. Filter(r, b.event) \subseteq Events /\ AtMostOne(Filter(r, b.event))
      BY <2>3, FilterTypes
    <3>2. hand \in [Requests -> SUBSET Events] /\ \A q \in Requests : AtMostOne(hand[q])
      BY DEF TypeOK
    <3> HIDE DEF AtMostOne, Filter
    <3> QED
      BY <2>1, <3>1, <3>2
  <2> QED
    BY <1>2, <2>2, <2>4 DEF Deliver, TypeOK, AtMostOne
<1>3. ASSUME NEW r \in Requests, PassOver(r) PROVE TypeOK'
  <2>1. PICK b \in sending : r \in b.to /\ Offered(b, r)
    BY <1>3 DEF PassOver
  <2>2. sending' \subseteq [event : Events, to : (SUBSET Requests) \ {{}}] /\ AtMostOne(sending')
    BY <2>1, OfferedLeaves
  <2> QED
    BY <1>3, <2>2 DEF PassOver, TypeOK, AtMostOne
<1>4. CASE RunFunction
  <2>1. PICK f \in function :
          /\ watchers' = IF f.add THEN watchers \cup {f.watcher} ELSE watchers \ {f.watcher}
          /\ phase' = [phase EXCEPT ![f.watcher] =
                         IF f.add THEN "get"
                         ELSE IF result[f.watcher] = "error" /\ f.watcher \notin Failover
                         THEN "answered" ELSE "forward"]
    BY <1>4 DEF RunFunction
  <2>2. f.watcher \in Requests
    BY DEF TypeOK, Changes
  <2>3. watchers' \subseteq Requests /\ phase' \in [Requests -> Phases]
    BY <2>1, <2>2 DEF TypeOK, Phases
  <2> QED
    BY <1>4, <2>3 DEF RunFunction, TypeOK, AtMostOne
<1> QED
  BY <1>1, <1>2, <1>3, <1>4 DEF Broadcaster

(* The steps of a request keep the types.                                  *)
LEMMA RequestTypes == ASSUME TypeOK, NEW r \in Requests, RequestStep(r) PROVE TypeOK'
<1>1. ASSUME NEW res \in {"none", "warm", "cold", "error"}, Return(r, res)
      PROVE  phase' \in [Requests -> Phases] /\ result' \in [Requests -> {"none", "warm", "cold", "error"}]
  BY <1>1 DEF Return, TypeOK, Phases
<1>2. CASE Watch(r) \/ Stop(r)
  <2>1. phase' \in [Requests -> Phases]
    BY <1>2 DEF Watch, Stop, TypeOK, Phases
  <2>2. function' \subseteq Changes /\ AtMostOne(function')
    <3>1. \E a \in BOOLEAN : function' = {[add |-> a, watcher |-> r]}
      BY <1>2 DEF Watch, Stop
    <3> QED
      BY <3>1 DEF Changes, AtMostOne
  <2> QED
    BY <1>2, <2>1, <2>2 DEF Watch, Stop, TypeOK, AtMostOne
<1>3. CASE Get(r)
  <2>1. phase' \in [Requests -> Phases] /\ result' \in [Requests -> {"none", "warm", "cold", "error"}]
    <3>1. CASE Return(r, "error") \/ Return(r, "warm")
      BY <1>1, <3>1
    <3>2. CASE phase' = [phase EXCEPT ![r] = "wait"] /\ UNCHANGED result
      BY <3>2 DEF TypeOK, Phases
    <3> QED
      BY <1>3, <3>1, <3>2 DEF Get
  <2> QED
    BY <1>3, <2>1 DEF Get, TypeOK, AtMostOne
<1>4. CASE Receive(r)
  <2>1. phase' \in [Requests -> Phases] /\ result' \in [Requests -> {"none", "warm", "cold", "error"}]
    BY <1>1, <1>4 DEF Receive, TypeOK
  <2>2. hand' \in [Requests -> SUBSET Events] /\ \A q \in Requests : AtMostOne(hand'[q])
    BY <1>4 DEF Receive, TypeOK, AtMostOne
  <2> QED
    BY <1>4, <2>1, <2>2 DEF Receive, TypeOK, AtMostOne
<1>5. CASE Timeout(r)
  <2>1. phase' \in [Requests -> Phases] /\ result' \in [Requests -> {"none", "warm", "cold", "error"}]
    BY <1>1, <1>5 DEF Timeout
  <2> QED
    BY <1>5, <2>1 DEF Timeout, TypeOK, AtMostOne
<1>6. CASE Forward(r)
  <2>1. phase' \in [Requests -> Phases]
    BY <1>6 DEF Forward, TypeOK, Phases
  <2> QED
    BY <1>6, <2>1 DEF Forward, TypeOK, AtMostOne
<1> QED
  BY <1>2, <1>3, <1>4, <1>5, <1>6 DEF RequestStep

(* Every step keeps the types.                                             *)
LEMMA TypeStep == TypeOK /\ [Next]_vars => TypeOK'
<1>1. TypeOK /\ UNCHANGED vars => TypeOK'
  BY DEF vars, TypeOK, AtMostOne
<1> QED
  BY <1>1, CacheTypes, BroadcasterTypes, RequestTypes DEF Next

(* TypeOK: queues, offers and watchers are what the cache and the          *)
(* broadcaster can hold, and no queue grows past its limit.                *)
THEOREM TypeCorrect == Spec => []TypeOK
<1>1. Init => TypeOK
  BY InitHolds DEF IInv
<1> QED
  BY <1>1, TypeStep, PTL DEF Spec

-----------------------------------------------------------------------------
(* A watcher is there from the call of Watch to that of Stop.              *)
LEMMA WatchedStep == TypeOK /\ Watched /\ [Next]_vars => Watched'
<1> SUFFICES ASSUME TypeOK, Watched, [Next]_vars PROVE Watched'
  OBVIOUS
<1>1. CASE UNCHANGED <<phase, function, watchers>>
  BY <1>1 DEF Watched
<1>2. CASE RunFunction
  <2>1. PICK f \in function :
          /\ watchers' = IF f.add THEN watchers \cup {f.watcher} ELSE watchers \ {f.watcher}
          /\ phase' = [phase EXCEPT ![f.watcher] =
                         IF f.add THEN "get"
                         ELSE IF result[f.watcher] = "error" /\ f.watcher \notin Failover
                         THEN "answered" ELSE "forward"]
    BY <1>2 DEF RunFunction
  <2>2. ASSUME NEW r \in Requests, phase'[r] \in {"get", "wait", "stop", "remove"}
        PROVE  r \in watchers'
    <3>1. CASE r = f.watcher
      BY <2>1, <2>2, <3>1 DEF TypeOK
    <3>2. CASE r # f.watcher
      BY <2>1, <2>2, <3>2 DEF TypeOK, Watched
    <3> QED
      BY <3>1, <3>2
  <2>3. function' = {}
    BY <1>2 DEF RunFunction
  <2> QED
    BY <2>2, <2>3 DEF Watched
<1>3. ASSUME NEW r \in Requests, RequestStep(r) PROVE Watched'
  <2>1. CASE Watch(r)
    <3>1. \A q \in Requests : phase'[q] \in {"get", "wait", "stop", "remove"} => q \in watchers'
      BY <2>1 DEF Watch, TypeOK, Watched
    <3>2. \A f \in function' : f.add /\ phase'[f.watcher] = "watch"
      BY <2>1 DEF Watch, TypeOK
    <3> QED
      BY <3>1, <3>2 DEF Watched
  <2>2. CASE Stop(r)
    <3>1. \A q \in Requests : phase'[q] \in {"get", "wait", "stop", "remove"} => q \in watchers'
      BY <2>2 DEF Stop, TypeOK, Watched
    <3>2. \A f \in function' : ~f.add /\ phase'[f.watcher] = "remove"
      BY <2>2 DEF Stop, TypeOK
    <3> QED
      BY <3>1, <3>2 DEF Watched
  <2>3. CASE Get(r) \/ Receive(r) \/ Timeout(r) \/ Forward(r)
    <3>1. /\ phase[r] \in {"get", "wait", "forward"} /\ UNCHANGED <<function, watchers>>
      BY <2>3 DEF Get, Receive, Timeout, Forward
    <3>2. \A q \in Requests : q # r => phase'[q] = phase[q]
      BY <2>3 DEF Get, Receive, Timeout, Forward, Return, TypeOK
    <3>3. phase[r] = "forward" => phase'[r] = "answered"
      BY <2>3 DEF Get, Receive, Timeout, Forward, TypeOK
    <3>4. \A f \in function : f.watcher \in Requests /\ f.watcher # r
      BY <3>1 DEF Watched, TypeOK, Changes
    <3>5. \A q \in Requests : phase'[q] \in {"get", "wait", "stop", "remove"} => q \in watchers
      BY <3>1, <3>2, <3>3 DEF Watched
    <3>6. \A f \in function : phase'[f.watcher] = phase[f.watcher]
      BY <3>2, <3>4
    <3> QED
      BY <3>1, <3>5, <3>6 DEF Watched
  <2> QED
    BY <1>3, <2>1, <2>2, <2>3 DEF RequestStep
<1>4. Informer \/ EvtHandler \/ Distribute \/ (\E r \in Requests : Deliver(r) \/ PassOver(r))
        => UNCHANGED <<phase, function, watchers>>
  BY DEF Informer, SetSlice, DeleteSlice, Resync, Notify, EvtHandler, Distribute, Deliver, PassOver
<1>5. UNCHANGED vars => UNCHANGED <<phase, function, watchers>>
  BY DEF vars
<1> QED
  BY <1>1, <1>2, <1>3, <1>4, <1>5 DEF Next, Broadcaster

(* A step that keeps or extends wasReady and lets no new event in.         *)
LEMMA HonestKept ==
    ASSUME TypeOK, Honest, wasReady \subseteq wasReady',
           \A s \in DOMAIN store' : store'[s] => ServiceOf[s] \in wasReady',
           \A e \in Range(notices') \cup Range(incoming') \cup {b.event : b \in sending'} :
             \/ e \in Range(notices) \cup Range(incoming) \cup {b.event : b \in sending}
             \/ e.ready => ServiceOf[e.slice] \in wasReady',
           \A r \in Requests : \A e \in hand'[r] :
             \/ e \in hand[r]
             \/ ServiceOf[e.slice] = Target[r] /\ (e.ready => Target[r] \in wasReady')
    PROVE  Honest'
<1>1. ASSUME NEW e \in Range(notices') \cup Range(incoming') \cup {b.event : b \in sending'}, e.ready
      PROVE  ServiceOf[e.slice] \in wasReady'
  BY <1>1 DEF Honest
<1>2. ASSUME NEW r \in Requests, NEW e \in hand'[r]
      PROVE  ServiceOf[e.slice] = Target[r] /\ (e.ready => Target[r] \in wasReady')
  BY <1>2 DEF Honest
<1> QED
  BY <1>1, <1>2 DEF Honest

(* No step makes up an event.                                              *)
LEMMA HonestStep == TypeOK /\ Honest /\ [Next]_vars => Honest'
<1> SUFFICES ASSUME TypeOK, Honest, [Next]_vars PROVE Honest'
  OBVIOUS
<1>1. ASSUME NEW s \in Slices, NEW ready \in BOOLEAN, SetSlice(s, ready) PROVE Honest'
  <2>1. Range(notices') = Range(notices) \cup {[slice |-> s, ready |-> ready]}
    BY <1>1, NotifyTypes DEF SetSlice
  <2>2. UNCHANGED <<incoming, sending, hand>> /\ wasReady \subseteq wasReady'
    BY <1>1 DEF SetSlice, Notify
  <2>3. ready => ServiceOf[s] \in wasReady'
    BY <1>1 DEF SetSlice
  <2>4. \A t \in DOMAIN store' : store'[t] => ServiceOf[t] \in wasReady'
    BY <1>1, <2>2, <2>3 DEF SetSlice, Honest
  <2> QED
    BY <2>1, <2>2, <2>3, <2>4, HonestKept
<1>2. ASSUME NEW s \in Slices, DeleteSlice(s) \/ Resync(s) PROVE Honest'
  <2>1. /\ \A t \in DOMAIN store' : t \in DOMAIN store /\ store'[t] = store[t]
        /\ UNCHANGED <<wasReady, incoming, sending, hand>>
        /\ s \in DOMAIN store /\ store[s] \in BOOLEAN
        /\ Notify(s, store[s]) \/ UNCHANGED notices
    BY <1>2 DEF DeleteSlice, Resync, Notify, TypeOK
  <2>2. Range(notices') \subseteq Range(notices) \cup {[slice |-> s, ready |-> store[s]]}
    BY <2>1, NotifyTypes
  <2>3. store[s] => ServiceOf[s] \in wasReady
    BY <2>1 DEF Honest
  <2>4. \A t \in DOMAIN store' : store'[t] => ServiceOf[t] \in wasReady
    BY <2>1 DEF Honest
  <2> QED
    BY <2>1, <2>2, <2>3, <2>4, HonestKept
<1>3. CASE EvtHandler
  <2>1. /\ notices \in Seq(Events) /\ notices # <<>> /\ incoming \in Seq(Events)
    BY <1>3 DEF EvtHandler, TypeOK
  <2>2. /\ Range(notices') \cup {Head(notices)} = Range(notices)
        /\ Range(incoming') = Range(incoming) \cup {Head(notices)}
    BY <1>3, <2>1, TailRange, AppendRange DEF EvtHandler
  <2>3. UNCHANGED <<store, wasReady, sending, hand>>
    BY <1>3 DEF EvtHandler
  <2>4. \A s \in DOMAIN store : store[s] => ServiceOf[s] \in wasReady
    BY DEF Honest
  <2> QED
    BY <2>2, <2>3, <2>4, HonestKept
<1>4. CASE Distribute
  <2>1. /\ incoming \in Seq(Events) /\ incoming # <<>>
    BY <1>4 DEF Distribute, TypeOK
  <2>2. Range(incoming') \cup {Head(incoming)} = Range(incoming)
    BY <1>4, <2>1, TailRange DEF Distribute
  <2>3. UNCHANGED <<store, wasReady, notices, hand>>
    BY <1>4 DEF Distribute
  <2>4. \A b \in sending' : b.event = Head(incoming)
    BY <1>4 DEF Distribute
  <2>5. \A s \in DOMAIN store : store[s] => ServiceOf[s] \in wasReady
    BY DEF Honest
  <2> QED
    BY <2>2, <2>3, <2>4, <2>5, HonestKept
<1>5. ASSUME NEW r \in Requests, Deliver(r) \/ PassOver(r) PROVE Honest'
  <2>1. PICK b \in sending : /\ r \in b.to /\ Offered(b, r)
                             /\ hand' = [hand EXCEPT ![r] = Filter(r, b.event)] \/ UNCHANGED hand
    BY <1>5 DEF Deliver, PassOver
  <2>2. \A c \in sending' : c.event = b.event
    BY <2>1, OfferedLeaves
  <2>3. UNCHANGED <<store, wasReady, notices, incoming>>
    BY <1>5 DEF Deliver, PassOver
  <2>4. \A s \in DOMAIN store : store[s] => ServiceOf[s] \in wasReady
    BY DEF Honest
  <2>5. b.event.ready => ServiceOf[b.event.slice] \in wasReady
    BY DEF Honest
  <2>6. ASSUME NEW q \in Requests, NEW e \in hand'[q]
        PROVE  \/ e \in hand[q]
               \/ ServiceOf[e.slice] = Target[q] /\ (e.ready => Target[q] \in wasReady)
    BY <2>1, <2>5, <2>6 DEF TypeOK, Filter
  <2> QED
    BY <2>2, <2>3, <2>4, <2>6, HonestKept
<1>6. CASE UNCHANGED <<store, wasReady, notices, incoming, sending>>
             /\ \A r \in Requests : hand'[r] \subseteq hand[r]
  <2>1. \A s \in DOMAIN store : store[s] => ServiceOf[s] \in wasReady
    BY DEF Honest
  <2> QED
    BY <1>6, <2>1, HonestKept
<1>7. RunFunction \/ (\E r \in Requests : RequestStep(r)) \/ UNCHANGED vars
        => UNCHANGED <<store, wasReady, notices, incoming, sending>>
             /\ \A r \in Requests : hand'[r] \subseteq hand[r]
  <2>1. RunFunction \/ UNCHANGED vars => UNCHANGED <<store, wasReady, notices, incoming, sending, hand>>
    BY DEF RunFunction, vars
  <2>2. ASSUME NEW r \in Requests, RequestStep(r)
        PROVE  /\ UNCHANGED <<store, wasReady, notices, incoming, sending>>
               /\ UNCHANGED hand \/ hand' = [hand EXCEPT ![r] = {}]
    BY <2>2 DEF RequestStep, Watch, Get, Receive, Timeout, Stop, Forward
  <2> QED
    BY <2>1, <2>2 DEF TypeOK
<1> QED
  BY <1>1, <1>2, <1>3, <1>4, <1>5, <1>6, <1>7 DEF Next, Broadcaster, Informer

(* Only an event of the request's own service, or a ready slice of it, has *)
(* the wait function return without an error.                              *)
LEMMA OwnStep == TypeOK /\ Honest /\ OwnWorkloadWasReady /\ [Next]_vars => OwnWorkloadWasReady'
<1> SUFFICES ASSUME TypeOK, Honest, OwnWorkloadWasReady, [Next]_vars PROVE OwnWorkloadWasReady'
  OBVIOUS
<1>1. wasReady \subseteq wasReady'
  BY DEF Next, Informer, SetSlice, DeleteSlice, Resync, EvtHandler, Broadcaster, Distribute,
         RunFunction, Deliver, PassOver, RequestStep, Watch, Get, Receive, Timeout, Stop, Forward, vars
<1>2. CASE UNCHANGED result
  BY <1>1, <1>2 DEF OwnWorkloadWasReady
<1>3. ASSUME NEW r \in Requests, NEW res, Return(r, res),
             res \in {"warm", "cold"} => Target[r] \in wasReady
      PROVE  OwnWorkloadWasReady'
  BY <1>1, <1>3 DEF Return, OwnWorkloadWasReady, TypeOK
<1>4. ASSUME NEW r \in Requests, Get(r) PROVE OwnWorkloadWasReady'
  <2>1. CASE Return(r, "error")
    BY <1>3, <2>1
  <2>2. ASSUME NEW s \in SlicesFor(Target[r]), store[s], Return(r, "warm")
        PROVE  OwnWorkloadWasReady'
    <3>1. Target[r] \in wasReady
      BY <2>2 DEF Honest, SlicesFor
    <3> QED
      BY <1>3, <2>2, <3>1
  <2> QED
    BY <1>2, <1>4, <2>1, <2>2 DEF Get
<1>5. ASSUME NEW r \in Requests, Receive(r) PROVE OwnWorkloadWasReady'
  <2>1. ASSUME NEW e \in hand[r], e.ready, Return(r, "cold") PROVE OwnWorkloadWasReady'
    <3>1. Target[r] \in wasReady
      BY <2>1 DEF Honest
    <3> QED
      BY <1>3, <2>1, <3>1
  <2> QED
    BY <1>2, <1>5, <2>1 DEF Receive
<1>6. ASSUME NEW r \in Requests, Timeout(r) PROVE OwnWorkloadWasReady'
  BY <1>3, <1>6 DEF Timeout
<1>7. Informer \/ EvtHandler \/ Broadcaster \/ UNCHANGED vars => UNCHANGED result
  BY DEF Informer, SetSlice, DeleteSlice, Resync, Notify, EvtHandler, Broadcaster, Distribute,
         RunFunction, Deliver, PassOver, vars
<1>8. ASSUME NEW r \in Requests, Watch(r) \/ Stop(r) \/ Forward(r) PROVE UNCHANGED result
  BY <1>8 DEF Watch, Stop, Forward
<1> QED
  BY <1>2, <1>4, <1>5, <1>6, <1>7, <1>8 DEF Next, RequestStep

-----------------------------------------------------------------------------
(* GetEndpointSlice looks at one slice of a service, whichever comes       *)
(* first.  The theorems below are about services with one.                 *)
OneSlice == \A s, t \in Slices : ServiceOf[s] = ServiceOf[t] => s = t

(* The event that wakes r.                                                 *)
Wakes(r, e) == e.ready /\ ServiceOf[e.slice] = Target[r]

(* A step that leaves the events that wake r on their way to r.            *)
LEMMA StillComing ==
    ASSUME NEW r \in Requests, NoMissedWakeup,
           phase[r] = "wait", ReadyFor(Target[r]) # {},
           \A e \in OnTheWay(r) : Wakes(r, e) => e \in OnTheWay(r)'
    PROVE  \E e \in OnTheWay(r)' : Wakes(r, e)
BY DEF NoMissedWakeup, Wakes

(* The informer tells of every slice that becomes ready.                   *)
LEMMA InformerWakes == TypeOK /\ NoMissedWakeup /\ Informer => NoMissedWakeup'
<1> SUFFICES ASSUME TypeOK, NoMissedWakeup, Informer,
                    NEW r \in Requests, phase'[r] = "wait", ReadyFor(Target[r])' # {}
             PROVE  \E e \in OnTheWay(r)' : Wakes(r, e)
  BY DEF NoMissedWakeup, Wakes
<1>1. UNCHANGED <<phase, incoming, sending, hand>>
  BY DEF Informer, SetSlice, DeleteSlice, Resync, Notify
<1>2. ASSUME Range(notices) \subseteq Range(notices') PROVE OnTheWay(r) \subseteq OnTheWay(r)'
  BY <1>1, <1>2 DEF OnTheWay
<1>3. ASSUME NEW s \in Slices, NEW ready \in BOOLEAN, SetSlice(s, ready)
      PROVE  \E e \in OnTheWay(r)' : Wakes(r, e)
  <2>1. Range(notices') = Range(notices) \cup {[slice |-> s, ready |-> ready]}
    BY <1>3, NotifyTypes DEF SetSlice
  <2>2. CASE ready /\ ServiceOf[s] = Target[r]
    <3>1. [slice |-> s, ready |-> ready] \in OnTheWay(r)'
      BY <2>1 DEF OnTheWay
    <3>2. Wakes(r, [slice |-> s, ready |-> ready])
      BY <2>2 DEF Wakes
    <3> QED
      BY <3>1, <3>2
  <2>3. CASE ~(ready /\ ServiceOf[s] = Target[r])
    <3>1. ReadyFor(Target[r]) # {}
      <4>1. PICK t \in DOMAIN store' : ServiceOf[t] = Target[r] /\ store'[t]
        BY DEF ReadyFor, SlicesFor
      <4>2. t # s /\ t \in DOMAIN store /\ store[t]
        BY <1>3, <2>3, <4>1 DEF SetSlice
      <4> QED
        BY <4>1, <4>2 DEF ReadyFor, SlicesFor
    <3> QED
      BY <1>1, <1>2, <2>1, <3>1, StillComing
  <2> QED
    BY <2>2, <2>3
<1>4. ASSUME NEW s \in Slices, DeleteSlice(s) \/ Resync(s)
      PROVE  \E e \in OnTheWay(r)' : Wakes(r, e)
  <2>1. Range(notices) \subseteq Range(notices')
    <3>1. s \in DOMAIN store /\ store[s] \in BOOLEAN /\ (Notify(s, store[s]) \/ UNCHANGED notices)
      BY <1>4 DEF DeleteSlice, Resync, TypeOK
    <3> QED
      BY <3>1, NotifyTypes
  <2>2. \A t \in DOMAIN store' : t \in DOMAIN store /\ store'[t] = store[t]
    BY <1>4 DEF DeleteSlice, Resync
  <2>3. ReadyFor(Target[r]) # {}
    BY <2>2 DEF ReadyFor, SlicesFor
  <2> QED
    BY <1>1, <1>2, <2>1, <2>3, StillComing
<1> QED
  BY <1>3, <1>4 DEF Informer

(* The cache and the broadcaster leave no event out, nor any watcher.      *)
LEMMA BroadcasterWakes ==
    TypeOK /\ Watched /\ NoMissedWakeup /\ (EvtHandler \/ Broadcaster) => NoMissedWakeup'
<1> SUFFICES ASSUME TypeOK, Watched, NoMissedWakeup, EvtHandler \/ Broadcaster,
                    NEW r \in Requests, phase'[r] = "wait", ReadyFor(Target[r])' # {}
             PROVE  \E e \in OnTheWay(r)' : Wakes(r, e)
  BY DEF NoMissedWakeup, Wakes
<1>1. UNCHANGED store
  BY DEF EvtHandler, Broadcaster, Distribute, RunFunction, Deliver, PassOver
<1>2. phase[r] = "wait"
  <2>1. CASE RunFunction
    <3>1. PICK f \in function :
            phase' = [phase EXCEPT ![f.watcher] =
                        IF f.add THEN "get"
                        ELSE IF result[f.watcher] = "error" /\ f.watcher \notin Failover
                        THEN "answered" ELSE "forward"]
      BY <2>1 DEF RunFunction
    <3> QED
      BY <3>1 DEF TypeOK
  <2>2. ~RunFunction => UNCHANGED phase
    BY DEF EvtHandler, Broadcaster, Distribute, Deliver, PassOver
  <2> QED
    BY <2>1, <2>2
<1>3. r \in watchers
  BY <1>2 DEF Watched
<1>4. ReadyFor(Target[r]) # {}
  BY <1>1 DEF ReadyFor, SlicesFor
<1>5. SUFFICES ASSUME NEW e \in OnTheWay(r), Wakes(r, e) PROVE e \in OnTheWay(r)'
  BY <1>2, <1>4, StillComing
<1>6. CASE EvtHandler
  <2>1. /\ notices \in Seq(Events) /\ notices # <<>> /\ incoming \in Seq(Events)
    BY <1>6 DEF EvtHandler, TypeOK
  <2>2. /\ Range(notices') \cup {Head(notices)} = Range(notices)
        /\ Range(incoming') = Range(incoming) \cup {Head(notices)}
    BY <1>6, <2>1, TailRange, AppendRange DEF EvtHandler
  <2>3. UNCHANGED <<sending, hand>>
    BY <1>6 DEF EvtHandler
  <2> QED
    BY <1>5, <2>2, <2>3 DEF OnTheWay
<1>7. CASE Distribute
  <2>1. /\ incoming \in Seq(Events) /\ incoming # <<>>
    BY <1>7 DEF Distribute, TypeOK
  <2>2. Range(incoming') \cup {Head(incoming)} = Range(incoming)
    BY <1>7, <2>1, TailRange DEF Distribute
  <2>3. sending = {} /\ sending' = {[event |-> Head(incoming), to |-> watchers]}
    BY <1>3, <1>7 DEF Distribute
  <2>4. UNCHANGED <<notices, hand>>
    BY <1>7 DEF Distribute
  <2>5. Head(incoming) \in {b.event : b \in {b \in sending' : r \in b.to}}
    <3> DEFINE b == [event |-> Head(incoming), to |-> watchers]
    <3>1. b.event = Head(incoming) /\ r \in b.to /\ b \in sending'
      BY <1>3, <2>3
    <3> HIDE DEF b
    <3> QED
      BY <3>1
  <2> QED
    BY <1>5, <2>2, <2>3, <2>4, <2>5 DEF OnTheWay
<1>8. ASSUME NEW q \in Requests, Deliver(q) \/ PassOver(q) PROVE e \in OnTheWay(r)'
  <2>1. PICK b \in sending : /\ q \in b.to /\ Offered(b, q)
                             /\ \/ hand[q] = {} /\ hand' = [hand EXCEPT ![q] = Filter(q, b.event)]
                                \/ Stopped(q) /\ UNCHANGED hand
    BY SMTT(30), <1>8 DEF Deliver, PassOver
  <2>2. /\ sending = {b} /\ \A c \in sending' : c.event = b.event /\ c.to = b.to \ {q}
        /\ b.to \ {q} # {} => sending' # {}
    BY SMTT(30), <2>1, OfferedLeaves
  <2>3. UNCHANGED <<notices, incoming>>
    BY <1>8 DEF Deliver, PassOver
  <2>4. CASE e \in hand[r]
    <3>1. e \in hand'[r]
      BY <2>1, <2>4 DEF TypeOK
    <3> QED
      BY <3>1 DEF OnTheWay
  <2>5. CASE r \in b.to /\ e = b.event
    <3>1. CASE r = q
      <4>1. hand' = [hand EXCEPT ![q] = Filter(q, b.event)]
        BY <1>2, <2>1, <3>1 DEF Stopped
      <4>2. e \in hand'[r]
        BY <1>5, <2>5, <3>1, <4>1 DEF TypeOK, Filter, Wakes
      <4> QED
        BY <4>2 DEF OnTheWay
    <3>2. CASE r # q
      <4>1. PICK c \in sending' : TRUE
        BY <2>2, <2>5, <3>2
      <4>2. c.event = e /\ r \in c.to
        BY <2>2, <2>5, <3>2, <4>1
      <4> QED
        BY <4>1, <4>2 DEF OnTheWay
    <3> QED
      BY <3>1, <3>2
  <2> QED
    BY <1>5, <2>2, <2>3, <2>4, <2>5 DEF OnTheWay
<1>9. CASE RunFunction
  BY <1>5, <1>9 DEF RunFunction, OnTheWay
<1> QED
  BY SMTT(30), <1>6, <1>7, <1>8, <1>9 DEF Broadcaster

(* A request begins to wait only when its slice is not ready, and stops    *)
(* waiting when it receives the event that tells it is.                    *)
LEMMA RequestWakes ==
    ASSUME OneSlice, TypeOK, NoMissedWakeup, NEW q \in Requests, RequestStep(q)
    PROVE  NoMissedWakeup'
<1> SUFFICES ASSUME NEW r \in Requests, phase'[r] = "wait", ReadyFor(Target[r])' # {}
             PROVE  \E e \in OnTheWay(r)' : Wakes(r, e)
  BY SMTT(30) DEF NoMissedWakeup, Wakes
<1>1. UNCHANGED <<store, notices, incoming, sending>>
  BY DEF RequestStep, Watch, Get, Receive, Timeout, Stop, Forward
<1>2. ReadyFor(Target[r]) # {}
  BY SMTT(30), <1>1 DEF ReadyFor, SlicesFor
<1>3. CASE r # q \/ Receive(q)
  <2>1. phase[r] = "wait"
    <3>1. CASE Receive(q)
      BY <3>1 DEF Receive, Return, TypeOK
    <3>2. CASE r # q
      BY <3>2 DEF RequestStep, Watch, Get, Receive, Timeout, Stop, Forward, Return, TypeOK
    <3> QED
      BY <1>3, <3>1, <3>2
  <2>2. ASSUME NEW e \in hand[r], Wakes(r, e) PROVE e \in hand'[r]
    <3>1. CASE r = q
      <4>1. PICK d \in hand[r] : IF d.ready THEN Return(r, "cold") ELSE UNCHANGED <<phase, result>>
        BY <1>3, <3>1 DEF Receive
      <4>2. d = e
        BY <2>2, <4>1 DEF TypeOK, AtMostOne
      <4>3. phase' = [phase EXCEPT ![r] = "stop"]
        BY <2>2, <4>1, <4>2 DEF Wakes, Return
      <4> QED
        BY SMTT(30), <4>3 DEF TypeOK
    <3>2. CASE r # q
      <4>1. UNCHANGED hand \/ hand' = [hand EXCEPT ![q] = {}]
        BY SMTT(30) DEF RequestStep, Watch, Get, Receive, Timeout, Stop, Forward
      <4> QED
        BY SMTT(30), <2>2, <3>2, <4>1 DEF TypeOK
    <3> QED
      BY <3>1, <3>2
  <2>3. \A e \in OnTheWay(r) : Wakes(r, e) => e \in OnTheWay(r)'
    BY SMTT(30), <1>1, <2>2 DEF OnTheWay
  <2> QED
    BY <1>2, <2>1, <2>3, StillComing
<1>4. CASE r = q /\ Get(q)
  <2>1. PICK s \in SlicesFor(Target[r]) : ~store[s]
    BY <1>2, <1>4 DEF Get, Return, TypeOK, ReadyFor
  <2>2. PICK t \in SlicesFor(Target[r]) : store[t]
    BY <1>2 DEF ReadyFor
  <2>3. s = t
    BY DEF OneSlice, SlicesFor, TypeOK
  <2> QED
    BY <2>1, <2>2, <2>3
<1>5. CASE r = q /\ ~Get(q) /\ ~Receive(q)
  BY <1>5 DEF RequestStep, Watch, Timeout, Stop, Forward, Return, TypeOK
<1> QED
  BY <1>3, <1>4, <1>5

(* Every step keeps the invariant, when a service has one slice.           *)
LEMMA InductiveStep == ASSUME OneSlice PROVE IInv /\ [Next]_vars => IInv'
<1> SUFFICES ASSUME IInv, [Next]_vars PROVE IInv'
  OBVIOUS
<1>1. TypeOK /\ Watched /\ Honest /\ NoMissedWakeup /\ OwnWorkloadWasReady
  BY SMTT(30) DEF IInv
<1>2. UNCHANGED vars => NoMissedWakeup'
  BY <1>1 DEF vars, NoMissedWakeup, OnTheWay, ReadyFor, SlicesFor
<1>3. NoMissedWakeup'
  BY <1>1, <1>2, InformerWakes, BroadcasterWakes, RequestWakes DEF Next
<1> QED
  BY <1>1, <1>3, TypeStep, WatchedStep, HonestStep, OwnStep DEF IInv

(* IInv: from the moment it looks at the cache to its Stop a request has a *)
(* watcher, which the broadcaster offers every event.                      *)
THEOREM Invariance == ASSUME OneSlice PROVE Spec => []IInv
<1>1. IInv /\ [Next]_vars => IInv'
  BY InductiveStep
<1> QED
  BY <1>1, InitHolds, PTL DEF Spec

(* NoMissedWakeup: no order of informer, broadcaster, filter and wait      *)
(* function has a request sleep on once its workload is ready and the      *)
(* event that told so has been spent.                                      *)
THEOREM NeverSleepsThrough == ASSUME OneSlice PROVE Spec => []NoMissedWakeup
<1>1. IInv => NoMissedWakeup
  BY DEF IInv
<1> QED
  BY <1>1, Invariance, PTL

(* OwnWorkloadWasReady, for services of any number of slices: the filter   *)
(* of Watch keeps the events of other workloads from a request.            *)
THEOREM OnlyOwnWorkload == Spec => []OwnWorkloadWasReady
<1>1. Init => Honest /\ OwnWorkloadWasReady
  BY InitHolds DEF IInv
<1>2. TypeOK /\ Honest /\ OwnWorkloadWasReady /\ [Next]_vars => (Honest /\ OwnWorkloadWasReady)'
  BY HonestStep, OwnStep
<1> QED
  BY <1>1, <1>2, TypeCorrect, PTL DEF Spec
=============================================================================
