----------------------------- MODULE ForwardWait -----------------------------
(***************************************************************************)
(* How the interceptor holds a request until its workload has endpoints:   *)
(* the cache of EndpointSlices (pkg/k8s/endpoints_cache_informer.go), the  *)
(* function that waits (interceptor/forward_wait_func.go) and the handler  *)
(* that calls it (interceptor/proxy_handlers.go).                          *)
(*                                                                         *)
(* The informer and the broadcaster are external.  The informer changes    *)
(* its store first and calls the event handlers later, one notice at a     *)
(* time.  The broadcaster's loop takes events from a bounded queue and     *)
(* offers each to every watcher until that one takes it or has stopped.    *)
(* To add or remove a watcher is a function at the end of the same queue:  *)
(* its caller holds the lock of the queue until the loop has run it.  Each *)
(* watcher has a filter goroutine that takes an event, drops those of      *)
(* other services, and holds the rest until the waiting function receives. *)
(***************************************************************************)
EXTENDS Naturals, Sequences, Functions

CONSTANTS Requests, Slices, Services,
          Target,       \* the service of a request's HTTPScaledObject
          ServiceOf,    \* the service of a slice
          Failover,     \* requests with a coldStartTimeoutFailoverRef
          Patient,      \* requests whose wait does not time out
          QueueLength,  \* of the broadcaster
          MaxNotices    \* bound on the notices the informer has ready

ASSUME ForwardAssumption ==
    /\ Target \in [Requests -> Services] /\ ServiceOf \in [Slices -> Services]
    /\ Failover \subseteq Requests /\ Patient \subseteq Requests
    /\ QueueLength \in Nat \ {0} /\ MaxNotices \in Nat

VARIABLES
    store,      \* the informer's slices: has one a ready address?
    notices,    \* events for the handlers of the cache
    incoming,   \* the broadcaster's queue
    function,   \* the function at its end, whose caller has the lock
    sending,    \* the event offered and the watchers still to take it
    watchers,   \* the watchers of the broadcaster
    hand,       \* what the filter goroutine of a watcher holds
    phase,      \* where a request is
    result,     \* what the wait function returns
    wasReady    \* services that had a ready address (history)

cacheVars == <<store, notices, wasReady>>
queueVars == <<incoming, function>>
vars == <<cacheVars, queueVars, sending, watchers, hand, phase, result>>

Events == [slice : Slices, ready : BOOLEAN]

Changes == [add : BOOLEAN, watcher : Requests]

AtMostOne(S) == \A x, y \in S : x = y

Phases == {"new", "watch", "get", "wait", "stop", "remove", "forward", "answered"}

(* The slices of a service in the store, and those with a ready address.   *)
SlicesFor(n) == {s \in DOMAIN store : ServiceOf[s] = n}
ReadyFor(n) == {s \in SlicesFor(n) : store[s]}

TypeOK ==
    /\ DOMAIN store \subseteq Slices /\ store \in [DOMAIN store -> BOOLEAN]
    /\ notices \in Seq(Events) /\ incoming \in Seq(Events)
    /\ Len(notices) <= MaxNotices /\ Len(incoming) <= QueueLength
    /\ function \subseteq Changes /\ AtMostOne(function)
    /\ sending \subseteq [event : Events, to : (SUBSET Requests) \ {{}}] /\ AtMostOne(sending)
    /\ watchers \subseteq Requests
    /\ hand \in [Requests -> SUBSET Events]
    /\ \A r \in Requests : AtMostOne(hand[r])
    /\ phase \in [Requests -> Phases]
    /\ result \in [Requests -> {"none", "warm", "cold", "error"}]
    /\ wasReady \subseteq Services

Init ==
    /\ \E D \in SUBSET Slices : store \in [D -> BOOLEAN]
    /\ wasReady = {n \in Services : ReadyFor(n) # {}}
    /\ notices = <<>> /\ incoming = <<>>
    /\ function = {} /\ sending = {} /\ watchers = {}
    /\ hand = [r \in Requests |-> {}]
    /\ phase = [r \in Requests |-> "new"] /\ result = [r \in Requests |-> "none"]
-----------------------------------------------------------------------------
(* The informer: a slice is added or changed, is deleted (the event has    *)
(* its last state, or is a tombstone, which deleteEvtHandler does not      *)
(* forward), or is sent again by a resync.                                 *)
Notify(s, ready) ==
    /\ Len(notices) < MaxNotices
    /\ notices' = Append(notices, [slice |-> s, ready |-> ready])
    /\ UNCHANGED <<queueVars, sending, watchers, hand, phase, result>>

SetSlice(s, ready) ==
    /\ s \in DOMAIN store => store[s] # ready
    /\ store' = [t \in DOMAIN store \cup {s} |-> IF t = s THEN ready ELSE store[t]]
    /\ wasReady' = IF ready THEN wasReady \cup {ServiceOf[s]} ELSE wasReady
    /\ Notify(s, ready)

DeleteSlice(s) ==
    /\ s \in DOMAIN store
    /\ store' = [t \in DOMAIN store \ {s} |-> store[t]]
    /\ \/ Notify(s, store[s])
       \/ UNCHANGED <<notices, queueVars, sending, watchers, hand, phase, result>>
    /\ UNCHANGED wasReady

Resync(s) ==
    /\ s \in DOMAIN store
    /\ Notify(s, store[s])
    /\ UNCHANGED <<store, wasReady>>

(* addEvtHandler, updateEvtHandler and deleteEvtHandler pass the event on  *)
(* to the broadcaster, behind the lock, when there is room.                *)
EvtHandler ==
    /\ notices # <<>> /\ function = {} /\ Len(incoming) < QueueLength
    /\ notices' = Tail(notices) /\ incoming' = Append(incoming, Head(notices))
    /\ UNCHANGED <<store, wasReady, function, sending, watchers, hand, phase, result>>
-----------------------------------------------------------------------------
(* The broadcaster's loop takes an event...                                *)
Distribute ==
    /\ sending = {} /\ incoming # <<>>
    /\ incoming' = Tail(incoming)
    /\ sending' = IF watchers = {} THEN {}
                  ELSE {[event |-> Head(incoming), to |-> watchers]}
    /\ UNCHANGED <<cacheVars, function, watchers, hand, phase, result>>

(* A watcher whose request is at its deferred Stop.                        *)
Stopped(r) == phase[r] \in {"stop", "remove"}

Offered(b, r) == sending' = IF b.to = {r} THEN {} ELSE {[b EXCEPT !.to = @ \ {r}]}

(* Faulty variant: all events are let through.                             *)
FilterNothing(r, e) == {e}

(* The filter of Watch: only the slices of the request's service.          *)
Filter(r, e) == IF ServiceOf[e.slice] = Target[r] THEN {e} ELSE {}

(* Faulty variant: a watcher that is busy misses the event.                *)
DeliverOrDrop(r) ==
    \E b \in sending :
      /\ r \in b.to
      /\ hand' = IF hand[r] = {} THEN [hand EXCEPT ![r] = Filter(r, b.event)] ELSE hand
      /\ Offered(b, r)
      /\ UNCHANGED <<cacheVars, queueVars, watchers, phase, result>>

(* ...and waits for each watcher: its filter goroutine takes the event...  *)
Deliver(r) ==
    \E b \in sending :
      /\ r \in b.to /\ hand[r] = {}
      /\ hand' = [hand EXCEPT ![r] = Filter(r, b.event)]
      /\ Offered(b, r)
      /\ UNCHANGED <<cacheVars, queueVars, watchers, phase, result>>

(* ...or the watcher has stopped.                                          *)
PassOver(r) ==
    \E b \in sending :
      /\ r \in b.to /\ Stopped(r)
      /\ Offered(b, r)
      /\ UNCHANGED <<cacheVars, queueVars, watchers, hand, phase, result>>

(* The function at the end of the queue runs, and its caller goes on.      *)
RunFunction ==
    /\ sending = {} /\ incoming = <<>>
    /\ \E f \in function :
         /\ watchers' = IF f.add THEN watchers \cup {f.watcher} ELSE watchers \ {f.watcher}
         /\ phase' = [phase EXCEPT ![f.watcher] =
                        IF f.add THEN "get"
                        ELSE IF result[f.watcher] = "error" /\ f.watcher \notin Failover
                        THEN "answered" ELSE "forward"]
    /\ function' = {}
    /\ UNCHANGED <<cacheVars, incoming, sending, hand, result>>
-----------------------------------------------------------------------------
(* The handler calls the wait function, which watches first...             *)
Watch(r) ==
    /\ phase[r] = "new" /\ function = {}
    /\ function' = {[add |-> TRUE, watcher |-> r]}
    /\ phase' = [phase EXCEPT ![r] = "watch"]
    /\ UNCHANGED <<cacheVars, incoming, sending, watchers, hand, result>>

Return(r, res) ==
    /\ result' = [result EXCEPT ![r] = res]
    /\ phase' = [phase EXCEPT ![r] = "stop"]

(* ...then looks at one of the slices of its service, whichever the store  *)
(* lists first.  Without any, it fails.                                    *)
Get(r) ==
    /\ phase[r] = "get"
    /\ \/ /\ SlicesFor(Target[r]) = {}
          /\ Return(r, "error")
       \/ \E s \in SlicesFor(Target[r]) :
            IF store[s] THEN Return(r, "warm")
            ELSE phase' = [phase EXCEPT ![r] = "wait"] /\ UNCHANGED result
    /\ UNCHANGED <<cacheVars, queueVars, sending, watchers, hand>>

(* The select: an event with a ready address ends the wait.                *)
Receive(r) ==
    /\ phase[r] = "wait"
    /\ \E e \in hand[r] :
         IF e.ready THEN Return(r, "cold") ELSE UNCHANGED <<phase, result>>
    /\ hand' = [hand EXCEPT ![r] = {}]
    /\ UNCHANGED <<cacheVars, queueVars, sending, watchers>>

(* Faulty variant: with a failover, the wait has no timeout.               *)
TimeoutNoFailover(r) ==
    /\ phase[r] = "wait" /\ r \notin Patient /\ r \notin Failover
    /\ Return(r, "error")
    /\ UNCHANGED <<cacheVars, queueVars, sending, watchers, hand>>

(* So does the end of the context: the timeout of the handler, of the      *)
(* object or of its failover, or a client that leaves.                     *)
Timeout(r) ==
    /\ phase[r] = "wait" /\ r \notin Patient
    /\ Return(r, "error")
    /\ UNCHANGED <<cacheVars, queueVars, sending, watchers, hand>>

(* The deferred Stop marks the watcher as stopped at once, then removes it. *)
Stop(r) ==
    /\ phase[r] = "stop" /\ function = {}
    /\ function' = {[add |-> FALSE, watcher |-> r]}
    /\ phase' = [phase EXCEPT ![r] = "remove"]
    /\ UNCHANGED <<cacheVars, incoming, sending, watchers, hand, result>>

(* The request goes to the workload, or to the failover after an error,    *)
(* and is answered by it, or with 502 when all dials fail.                 *)
Forward(r) ==
    /\ phase[r] = "forward"
    /\ phase' = [phase EXCEPT ![r] = "answered"]
    /\ UNCHANGED <<cacheVars, queueVars, sending, watchers, hand, result>>
-----------------------------------------------------------------------------
RequestStep(r) == Watch(r) \/ Get(r) \/ Receive(r) \/ Timeout(r) \/ Stop(r) \/ Forward(r)

Broadcaster == Distribute \/ RunFunction \/ \E r \in Requests : Deliver(r) \/ PassOver(r)

Informer ==
    \E s \in Slices : (\E ready \in BOOLEAN : SetSlice(s, ready)) \/ DeleteSlice(s) \/ Resync(s)

Next ==
    \/ Informer \/ EvtHandler \/ Broadcaster
    \/ \E r \in Requests : RequestStep(r)

Spec == Init /\ [][Next]_vars

(* The goroutines of the broadcaster, of the cache and of the requests     *)
(* run, and timers go off.  The lock of the queue is a mutex that lets in  *)
(* whoever has waited long enough.  Nothing is assumed of the informer.    *)
Fairness ==
    /\ WF_vars(Broadcaster) /\ SF_vars(EvtHandler)
    /\ \A r \in Requests :
         /\ SF_vars(Watch(r)) /\ SF_vars(Stop(r))
         /\ WF_vars(Get(r)) /\ WF_vars(Receive(r)) /\ WF_vars(Timeout(r)) /\ WF_vars(Forward(r))

FairSpec == Spec /\ Fairness
-----------------------------------------------------------------------------
(* The events that r is still going to receive.                            *)
OnTheWay(r) ==
    Range(notices) \cup Range(incoming) \cup hand[r]
      \cup {b.event : b \in {b \in sending : r \in b.to}}

(* forward_wait_func.go:34-35, "to ensure we don't miss events": a request *)
(* waits for a workload that is ready only as long as the event that will  *)
(* wake it is on its way.                                                  *)
NoMissedWakeup ==
    \A r \in Requests :
      phase[r] = "wait" /\ ReadyFor(Target[r]) # {}
        => \E e \in OnTheWay(r) : e.ready /\ ServiceOf[e.slice] = Target[r]

(* A request is let through only after its own workload was ready, however *)
(* many other workloads come up (the filter of Watch).                     *)
OwnWorkloadWasReady ==
    \A r \in Requests : result[r] \in {"warm", "cold"} => Target[r] \in wasReady

(* A request that looks at the cache, waits or stops has its watcher, and  *)
(* the caller of a function waits for it.                                  *)
Watched ==
    /\ \A r \in Requests : phase[r] \in {"get", "wait", "stop", "remove"} => r \in watchers
    /\ \A f \in function : phase[f.watcher] = (IF f.add THEN "watch" ELSE "remove")

(* No event tells of addresses that were never there, and watchers hold    *)
(* their own.                                                              *)
Honest ==
    /\ \A s \in DOMAIN store : store[s] => ServiceOf[s] \in wasReady
    /\ \A e \in Range(notices) \cup Range(incoming) \cup {b.event : b \in sending} :
         e.ready => ServiceOf[e.slice] \in wasReady
    /\ \A r \in Requests : \A e \in hand[r] :
         ServiceOf[e.slice] = Target[r] /\ (e.ready => Target[r] \in wasReady)

(* The inductive invariant behind NoMissedWakeup and OwnWorkloadWasReady:  *)
(* the watcher is there before the cache is looked at, so that the         *)
(* broadcaster offers it every event from then on, and leaves none out     *)
(* (newWorkloadReplicasForwardWaitFunc, Watch).                            *)
IInv == TypeOK /\ Watched /\ Honest /\ NoMissedWakeup /\ OwnWorkloadWasReady

(* Every request with a timeout is answered: no watcher, busy, stopped or  *)
(* gone, keeps the broadcaster or another request waiting for ever.        *)
EveryWaitEnds ==
    \A r \in Requests \ Patient : phase[r] = "watch" ~> phase[r] = "answered"

(* A request whose workload becomes ready, and stays so, is answered also  *)
(* when no timer ends its wait.                                            *)
ReadyEndsWait ==
    \A r \in Requests :
      <>[](ReadyFor(Target[r]) # {}) => (phase[r] = "watch" ~> phase[r] = "answered")
=============================================================================
