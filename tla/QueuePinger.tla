---------------------------- MODULE QueuePinger ----------------------------
(***************************************************************************)
(* The scaler's queue pinger (scaler/queue_pinger.go): one goroutine that, *)
(* at every tick and at every change of the interceptors' endpoints, asks  *)
(* all interceptors for their counts and adds the answers up.              *)
(*                                                                         *)
(* A round of fetchCounts runs two goroutines per endpoint: one asks the   *)
(* interceptor and hands the answer over on a channel of its own, the      *)
(* other takes it from there and sends it on to countsCh.  "worker" is     *)
(* where the two of an endpoint stand:                                     *)
(*    get     the request to the interceptor is under way                  *)
(*    got     it is answered, the answer is not handed over                *)
(*    held    it is handed over, and offered on countsCh                   *)
(*    done    it was received from countsCh                                *)
(*    failed  the request failed; nothing will ever be handed over         *)
(* A third goroutine closes countsCh when all answers are received.        *)
(*                                                                         *)
(* pingMut is held from the start of a round to its end (Locked).          *)
(*                                                                         *)
(* The API server and the interceptors are external: both may fail at any  *)
(* time, and interceptors in Silent never answer, which the client of      *)
(* GetCounts does not notice because it has no timeout.  A count is a pair *)
(* of the requests in flight and the rate in thousandths; a host that an   *)
(* interceptor does not know counts nothing.                               *)
(***************************************************************************)
EXTENDS Integers, FiniteSetsExt, Functions

CONSTANTS Interceptors, Hosts,
          Silent,          \* interceptors that never answer
          Readings,        \* the counts an interceptor may have for a host
          AgeLimit         \* where the age of the counts is cut off

NoCount == [concurrency |-> 0, rps |-> 0]

ASSUME PingerAssumption ==
    /\ IsFiniteSet(Interceptors) /\ IsFiniteSet(Hosts)
    /\ Readings \subseteq [concurrency : Nat, rps : Nat] /\ NoCount \in Readings
    /\ Silent \subseteq Interceptors
    /\ AgeLimit \in Nat

VARIABLES
    ready,        \* interceptors with a ready address
    pending,      \* the counts of the interceptors
    loop,         \* where start stands
    ticked,       \* the ticker's channel holds a tick
    endpEvent,    \* an endpoints event is offered
    ctxDone,      \* the context is cancelled
    worker,       \* the workers of the round, by endpoint
    answer,       \* what they were answered
    closed,       \* countsCh is closed
    totalCounts,  \* the sum so far
    allCounts,    \* the counts saved last
    status,       \* the pinger's status
    age,          \* time since lastPingTime, cut off at AgeLimit
    basis         \* the answers behind allCounts, by endpoint (history)

worldVars == <<ready, pending>>
inputVars == <<ticked, endpEvent, ctxDone>>
roundVars == <<worker, answer, closed, totalCounts>>
savedVars == <<allCounts, status, basis>>
pingerVars == <<worldVars, loop, inputVars, roundVars, savedVars, age>>

AllCounts == [Hosts -> [concurrency : Nat, rps : Nat]]
Nothing == [h \in Hosts |-> NoCount]

PingerTypeOK ==
    /\ ready \subseteq Interceptors
    /\ {ticked, endpEvent, ctxDone, closed} \subseteq BOOLEAN
    /\ pending \in [Interceptors -> [Hosts -> Readings]]
    /\ loop \in {"select", "listing", "fetching", "ranging", "saving", "stopped"}
    /\ DOMAIN worker \subseteq Interceptors
    /\ worker \in [DOMAIN worker -> {"get", "got", "held", "done", "failed"}]
    /\ DOMAIN answer \subseteq DOMAIN worker
    /\ answer \in [DOMAIN answer -> [Hosts -> Readings]]
    /\ DOMAIN basis \subseteq Interceptors
    /\ basis \in [DOMAIN basis -> [Hosts -> Readings]]
    /\ totalCounts \in AllCounts /\ allCounts \in AllCounts
    /\ status \in {"UNKNOWN", "ACTIVE", "ERROR"}
    /\ age \in 0..AgeLimit

Locked == loop \in {"listing", "fetching", "ranging", "saving"}

(* newQueuePinger, and start up to its loop.                               *)
PingerInit ==
    /\ ready \in SUBSET Interceptors
    /\ pending = [i \in Interceptors |-> Nothing]
    /\ loop = "select"
    /\ ticked = FALSE /\ endpEvent = FALSE /\ ctxDone = FALSE
    /\ worker = <<>> /\ answer = <<>> /\ closed = FALSE /\ totalCounts = Nothing
    /\ allCounts = Nothing /\ status = "UNKNOWN" /\ basis = <<>>
    /\ age = AgeLimit
-----------------------------------------------------------------------------
(* The select takes a tick or an event, and fetchAndSaveCounts locks.      *)
TakeTick ==
    /\ loop = "select" /\ ticked
    /\ ticked' = FALSE /\ loop' = "listing"
    /\ UNCHANGED <<worldVars, endpEvent, ctxDone, roundVars, savedVars, age>>

TakeEvent ==
    /\ loop = "select" /\ endpEvent
    /\ endpEvent' = FALSE /\ loop' = "listing"
    /\ UNCHANGED <<worldVars, ticked, ctxDone, roundVars, savedVars, age>>

(* The context is done: the loop returns.                                  *)
Stop ==
    /\ loop = "select" /\ ctxDone
    /\ loop' = "stopped" /\ status' = "ERROR"
    /\ UNCHANGED <<worldVars, inputVars, roundVars, allCounts, basis, age>>

(* The round ends with an error: status, and nothing else, is saved.       *)
FetchFails ==
    /\ status' = "ERROR" /\ loop' = "select"
    /\ UNCHANGED <<worldVars, inputVars, allCounts, basis, age>>

(* The list of endpoints cannot be had, or it is empty.                    *)
ListFails ==
    /\ loop = "listing"
    /\ FetchFails
    /\ UNCHANGED roundVars

(* The goroutines of the round start, with new channels and an empty sum.  *)
(* (What a round leaves is cleared at its end.)                            *)
List ==
    /\ loop = "listing"
    /\ ~ctxDone /\ ready # {}
    /\ worker' = [i \in ready |-> "get"]
    /\ loop' = "fetching"
    /\ UNCHANGED <<worldVars, inputVars, answer, closed, totalCounts, savedVars, age>>

(* GetCounts is answered: the counter's Current at that moment.            *)
Answer(i) ==
    /\ i \in DOMAIN worker \ Silent /\ worker[i] = "get"
    /\ worker' = [worker EXCEPT ![i] = "got"]
    /\ answer' = [j \in DOMAIN answer \cup {i} |-> IF j = i THEN pending[i] ELSE answer[j]]
    /\ UNCHANGED <<worldVars, loop, inputVars, closed, totalCounts, savedVars, age>>

AnswerFails(i) ==
    /\ i \in DOMAIN worker \ Silent /\ worker[i] = "get"
    /\ worker' = [worker EXCEPT ![i] = "failed"]
    /\ UNCHANGED <<worldVars, loop, inputVars, answer, closed, totalCounts, savedVars, age>>

HandOver(i) ==
    /\ i \in DOMAIN worker /\ worker[i] = "got"
    /\ worker' = [worker EXCEPT ![i] = "held"]
    /\ UNCHANGED <<worldVars, loop, inputVars, answer, closed, totalCounts, savedVars, age>>

(* The endpoints whose first goroutine has returned to the group.          *)
Returned == {i \in DOMAIN worker : worker[i] \in {"held", "failed"}}

(* fetchGrp.Wait returns when all requests have, without an error...       *)
GroupDone ==
    /\ loop = "fetching"
    /\ \A i \in DOMAIN worker : worker[i] = "held"
    /\ loop' = "ranging"
    /\ UNCHANGED <<worldVars, inputVars, roundVars, savedVars, age>>

(* Faulty variant: the answers are collected before the error is looked at. *)
GroupFailsLate ==
    /\ loop = "fetching"
    /\ Returned = DOMAIN worker /\ \E i \in DOMAIN worker : worker[i] = "failed"
    /\ loop' = "ranging"
    /\ UNCHANGED <<worldVars, inputVars, roundVars, savedVars, age>>

(* ...or with one.  Nobody receives from countsCh any more: the second     *)
(* goroutine of every endpoint and the closing one block for ever, and are *)
(* left out from here on.                                                  *)
GroupFails ==
    /\ loop = "fetching"
    /\ Returned = DOMAIN worker /\ \E i \in DOMAIN worker : worker[i] = "failed"
    /\ FetchFails
    /\ worker' = <<>> /\ answer' = <<>> /\ closed' = FALSE /\ totalCounts' = Nothing

(* Faulty variant: the last answer wins.                                   *)
AddOverwrites(total, counts) == [h \in Hosts |-> counts[h]]

Add(total, counts) ==
    [h \in Hosts |-> [concurrency |-> total[h].concurrency + counts[h].concurrency,
                      rps |-> total[h].rps + counts[h].rps]]

(* The range loop receives from whichever goroutine comes first.           *)
Receive(i) ==
    /\ loop = "ranging"
    /\ i \in DOMAIN worker /\ worker[i] = "held"
    /\ worker' = [worker EXCEPT ![i] = "done"]
    /\ totalCounts' = Add(totalCounts, answer[i])
    /\ UNCHANGED <<worldVars, loop, inputVars, answer, closed, savedVars, age>>

CloseCounts ==
    /\ DOMAIN worker # {} /\ ~closed
    /\ \A i \in DOMAIN worker : worker[i] = "done"
    /\ closed' = TRUE
    /\ UNCHANGED <<worldVars, loop, inputVars, worker, answer, totalCounts, savedVars, age>>

(* The range loop ends, and fetchAndSaveCounts saves: first the status,    *)
(* which the health loop reads without the lock...                         *)
RangeEnds ==
    /\ loop = "ranging" /\ closed
    /\ status' = "ACTIVE" /\ loop' = "saving"
    /\ UNCHANGED <<worldVars, inputVars, roundVars, allCounts, basis, age>>

(* Faulty variant: the counts are not stored.                              *)
SaveTimeOnly ==
    /\ loop = "saving"
    /\ age' = 0
    /\ worker' = <<>> /\ answer' = <<>> /\ closed' = FALSE /\ totalCounts' = Nothing
    /\ loop' = "select"
    /\ UNCHANGED <<worldVars, inputVars, savedVars>>

(* ...then the counts and the time.                                        *)
Save ==
    /\ loop = "saving"
    /\ allCounts' = totalCounts /\ basis' = answer /\ age' = 0
    /\ worker' = <<>> /\ answer' = <<>> /\ closed' = FALSE /\ totalCounts' = Nothing
    /\ loop' = "select"
    /\ UNCHANGED <<worldVars, inputVars, status>>
-----------------------------------------------------------------------------
(* The world around the pinger.                                            *)
Ticker ==
    /\ ~ticked /\ ticked' = TRUE
    /\ UNCHANGED <<worldVars, loop, endpEvent, ctxDone, roundVars, savedVars, age>>

(* Interceptor pods come and go, or the informer sends their slices again; *)
(* the broadcaster offers an event and waits until the loop takes it.      *)
ChangeEndpoints ==
    /\ ready' \in SUBSET Interceptors
    /\ endpEvent' = TRUE
    /\ UNCHANGED <<pending, loop, ticked, ctxDone, roundVars, savedVars, age>>

ChangePending(i) ==
    /\ \E h \in Hosts : \E c \in Readings \ {pending[i][h]} :
         pending' = [pending EXCEPT ![i][h] = c]
    /\ UNCHANGED <<ready, loop, inputVars, roundVars, savedVars, age>>

CancelPinger ==
    /\ ~ctxDone /\ ctxDone' = TRUE
    /\ UNCHANGED <<worldVars, loop, ticked, endpEvent, roundVars, savedVars, age>>
-----------------------------------------------------------------------------
LoopStep ==
    \/ TakeTick \/ TakeEvent \/ Stop
    \/ ListFails \/ List \/ GroupDone \/ GroupFails \/ RangeEnds \/ Save
    \/ \E i \in Interceptors : Receive(i)

WorldStep ==
    \/ Ticker \/ ChangeEndpoints \/ CancelPinger
    \/ \E i \in Interceptors : ChangePending(i)

PingerStep ==
    \/ LoopStep \/ CloseCounts \/ WorldStep
    \/ \E i \in Interceptors : Answer(i) \/ AnswerFails(i) \/ HandOver(i)
-----------------------------------------------------------------------------
(* The sum of the answers of some endpoints.                               *)
SumOf(answers, endpoints) ==
    [h \in Hosts |-> [concurrency |-> SumFunction([i \in endpoints |-> answers[i][h].concurrency]),
                      rps |-> SumFunction([i \in endpoints |-> answers[i][h].rps])]]

Received == {i \in DOMAIN worker : worker[i] = "done"}

(* Workers leave nothing behind between rounds, an answer that is on its   *)
(* way is there, and the channel closes behind the last one.               *)
Collected ==
    /\ loop \notin {"fetching", "ranging", "saving"} => DOMAIN worker = {}
    /\ loop = "saving" => closed
    /\ \A i \in DOMAIN worker : worker[i] \in {"got", "held", "done"} => i \in DOMAIN answer
    /\ closed => DOMAIN worker # {} /\ \A i \in DOMAIN worker : worker[i] = "done"

(* The inductive invariant of the pinger: what is summed up so far is the  *)
(* answers received, and what was saved is a whole round's.                *)
PingerInv ==
    /\ PingerTypeOK /\ Collected
    /\ totalCounts = SumOf(answer, Received)
    /\ allCounts = SumOf(basis, DOMAIN basis)
=============================================================================
