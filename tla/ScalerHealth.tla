---------------------------- MODULE ScalerHealth ----------------------------
(***************************************************************************)
(* The queue pinger and the health loop of the external scaler             *)
(* (scaler/main.go), which tells Kubernetes every second whether the       *)
(* counts of the pinger can be relied on.                                  *)
(***************************************************************************)
EXTENDS QueuePinger

CONSTANTS MaxAge,       \* twice QueueTickDuration
          CheckPeriod   \* the most time between two checks: a second, and
                        \* what the loop is late

ASSUME HealthAssumption ==
    MaxAge \in Nat /\ CheckPeriod \in Nat /\ MaxAge + CheckPeriod < AgeLimit

VARIABLES
    healthLoop,  \* where the health loop stands: in its select, before it
                 \* sets one of the services from the pinger's status, or
                 \* at its end
    sinceCheck,  \* time since it has last compared lastPingTime
    health       \* the serving status of the health services

healthVars == <<healthLoop, sinceCheck, health>>
pingerHealthVars == <<pingerVars, healthVars>>

Services == {"liveness", "readiness"}
ServingStatuses == {"UNKNOWN", "SERVING", "NOT_SERVING"}

HealthTypeOK ==
    /\ PingerTypeOK
    /\ healthLoop \in {"select", "stopped"} \cup Services
    /\ sinceCheck \in 0..CheckPeriod
    /\ health \in [Services -> ServingStatuses]

HealthInit ==
    /\ PingerInit
    /\ healthLoop = "select" /\ sinceCheck = 0
    /\ health = [s \in Services |-> "UNKNOWN"]
-----------------------------------------------------------------------------
NotServing == [s \in Services |-> "NOT_SERVING"]

(* Faulty variant: the age of the counts is not looked at.                 *)
HealthTickNoAge ==
    /\ healthLoop = "select"
    /\ sinceCheck' = 0
    /\ healthLoop' = "liveness" /\ UNCHANGED health
    /\ UNCHANGED pingerVars

(* The health loop takes its tick and compares lastPingTime.               *)
HealthTick ==
    /\ healthLoop = "select"
    /\ sinceCheck' = 0
    /\ \/ age > MaxAge /\ health' = NotServing /\ UNCHANGED healthLoop
       \/ age <= MaxAge /\ healthLoop' = "liveness" /\ UNCHANGED health
    /\ UNCHANGED pingerVars

(* The status, by its number, as the serving status.                       *)
ServingStatus == CASE status = "UNKNOWN" -> "UNKNOWN"
                   [] status = "ACTIVE"  -> "SERVING"
                   [] status = "ERROR"   -> "NOT_SERVING"

(* It reads the pinger's status once for each service, without the lock.   *)
SetLiveness ==
    /\ healthLoop = "liveness"
    /\ health' = [health EXCEPT !["liveness"] = ServingStatus]
    /\ healthLoop' = "readiness"
    /\ UNCHANGED <<pingerVars, sinceCheck>>

SetReadiness ==
    /\ healthLoop = "readiness"
    /\ health' = [health EXCEPT !["readiness"] = ServingStatus]
    /\ healthLoop' = "select"
    /\ UNCHANGED <<pingerVars, sinceCheck>>

(* The health loop ends with the context.                                  *)
HealthStop ==
    /\ healthLoop = "select" /\ ctxDone
    /\ healthLoop' = "stopped" /\ health' = NotServing
    /\ UNCHANGED <<pingerVars, sinceCheck>>

(* Time passes, whatever the pinger does.  The health loop takes its tick  *)
(* in time, and a check that has begun ends before more time passes.       *)
TimePasses ==
    /\ \/ healthLoop = "select" /\ sinceCheck < CheckPeriod /\ sinceCheck' = sinceCheck + 1
       \/ healthLoop = "stopped" /\ UNCHANGED sinceCheck
    /\ age' = IF age < AgeLimit THEN age + 1 ELSE AgeLimit
    /\ UNCHANGED <<worldVars, loop, inputVars, roundVars, savedVars, healthLoop, health>>
-----------------------------------------------------------------------------
HealthStep == HealthTick \/ SetLiveness \/ SetReadiness \/ HealthStop

HealthNext == (PingerStep /\ UNCHANGED healthVars) \/ HealthStep \/ TimePasses

HealthSpec == HealthInit /\ [][HealthNext]_pingerHealthVars
-----------------------------------------------------------------------------
(* The step that ends a round with its counts.                             *)
SavesSum ==
    loop = "saving" /\ loop' = "select" =>
      /\ DOMAIN answer = DOMAIN worker
      /\ allCounts' = SumOf(answer, DOMAIN answer)

(* What a round saves is the sum of exactly one answer of every            *)
(* interceptor it has listed, in whatever order they came in: the channel  *)
(* is not closed while an answer is on its way (fetchCounts).              *)
SavedIsSumOfRound == [][SavesSum]_pingerHealthVars

Serving == \E s \in Services : health[s] = "SERVING"

(* While one of the health services says SERVING, the counts are of a      *)
(* round that was complete and ended at most two tick durations and the    *)
(* time between two checks ago: also when a round hangs and the pinger's   *)
(* status stays ACTIVE, and although the loop reads the time and then the  *)
(* status while the pinger writes the status and then the time (the health *)
(* loop in scaler/main.go, fetchAndSaveCounts).                            *)
ServingIsFresh == Serving => age <= MaxAge + CheckPeriod /\ DOMAIN basis # {}

(* The inductive invariant behind ServingIsFresh.  The counts are no older *)
(* than they were at the last check and the time since; a loop that is to  *)
(* set a service has found them new enough; and counts that were never     *)
(* saved have the highest age.                                             *)
HealthInv ==
    /\ HealthTypeOK /\ PingerInv /\ ServingIsFresh
    /\ healthLoop = "select" /\ Serving => age <= MaxAge + sinceCheck
    /\ healthLoop \in Services => age <= MaxAge
    /\ healthLoop = "stopped" => health = NotServing
    /\ DOMAIN basis = {} => age = AgeLimit
=============================================================================
