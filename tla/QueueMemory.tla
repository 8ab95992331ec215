---------------------------- MODULE QueueMemory ----------------------------
(***************************************************************************)
(* The in-memory request counter of the interceptor (pkg/queue/queue.go).  *)
(*                                                                         *)
(* Memory keeps two maps under one mutex: the number of requests in flight *)
(* per host and the rate buckets per host.  A "host" is the namespaced     *)
(* name of an HTTPScaledObject.  Every method holds the write lock from    *)
(* its first access to its last, so each is one atomic update here, except *)
(* UpdateBuckets, which takes the lock twice.                              *)
(*                                                                         *)
(* A map is a function whose domain is the set of keys it holds.  The      *)
(* buckets of a host are represented by the window and granularity they    *)
(* were made with; what they record is the subject of RequestsBuckets.     *)
(***************************************************************************)
EXTENDS Naturals, Functions

CONSTANTS Names,      \* namespaced names of HTTPScaledObjects
          Settings    \* (window, granularity) pairs of rate buckets

VARIABLES concurrentMap, rpsMap

queueVars == <<concurrentMap, rpsMap>>

QueueTypeOK ==
    /\ DOMAIN concurrentMap \subseteq Names
    /\ concurrentMap \in [DOMAIN concurrentMap -> Nat]
    /\ DOMAIN rpsMap \subseteq Names
    /\ rpsMap \in [DOMAIN rpsMap -> Settings]

NewMemory ==
    /\ concurrentMap = <<>>
    /\ rpsMap = <<>>

Put(map, key, value) ==
    [k \in DOMAIN map \cup {key} |-> IF k = key THEN value ELSE map[k]]

Drop(map, key) == Restrict(map, DOMAIN map \ {key})
-----------------------------------------------------------------------------
(* Recording into the buckets dereferences r.rpsMap[host], which is nil    *)
(* when the host has no buckets: the call panics.                          *)
IncreasePanics(host) == host \notin DOMAIN rpsMap

(* A host the map lacks reads as 0 and is created.                         *)
Increase(host) ==
    /\ concurrentMap' =
         Put(concurrentMap, host,
             (IF host \in DOMAIN concurrentMap THEN concurrentMap[host] ELSE 0) + 1)
    /\ UNCHANGED rpsMap

(* Faulty variant: the check for zero is off by one.                       *)
DecreaseAboveOne(host) ==
    /\ concurrentMap' = [h \in DOMAIN concurrentMap |->
                           concurrentMap[h]
                             - (IF h = host /\ concurrentMap[h] > 1 THEN 1 ELSE 0)]
    /\ UNCHANGED rpsMap

(* An unknown host is left alone, and a count never goes below zero.       *)
Decrease(host) ==
    /\ concurrentMap' =
         [h \in DOMAIN concurrentMap |->
            IF h = host /\ concurrentMap[h] > 0 THEN concurrentMap[h] - 1
                                                ELSE concurrentMap[h]]
    /\ UNCHANGED rpsMap

(* Faulty variant: the count starts over.                                  *)
EnsureKeyResets(host, settings) ==
    /\ concurrentMap' = Put(concurrentMap, host, 0)
    /\ rpsMap' = IF host \in DOMAIN rpsMap
                 THEN rpsMap ELSE Put(rpsMap, host, settings)

(* Neither a count nor a set of buckets that already exists is touched.    *)
EnsureKey(host, settings) ==
    /\ concurrentMap' = IF host \in DOMAIN concurrentMap
                        THEN concurrentMap ELSE Put(concurrentMap, host, 0)
    /\ rpsMap' = IF host \in DOMAIN rpsMap
                 THEN rpsMap ELSE Put(rpsMap, host, settings)

(* Faulty variant: the buckets stay as they are.                           *)
ReplaceBucketsNever(host, settings) == UNCHANGED queueVars

(* The second critical section of UpdateBuckets: fresh, empty buckets when *)
(* the settings changed.  The first one is EnsureKey.                      *)
ReplaceBuckets(host, settings) ==
    /\ rpsMap' = IF host \in DOMAIN rpsMap /\ rpsMap[host] # settings
                 THEN Put(rpsMap, host, settings) ELSE rpsMap
    /\ UNCHANGED concurrentMap

RemoveKey(host) ==
    /\ concurrentMap' = Drop(concurrentMap, host)
    /\ rpsMap' = Drop(rpsMap, host)
=============================================================================
