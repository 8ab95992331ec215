------------------------------- MODULE Scaler -------------------------------
(***************************************************************************)
(* The external scaler from its start to its exit: the queue pinger, the   *)
(* gRPC calls KEDA makes (scaler/handlers.go), and main with the gRPC      *)
(* server (scaler/main.go).                                                *)
(*                                                                         *)
(* GetMetrics, which IsActive and each tick of StreamIsActive also call,   *)
(* looks the HTTPScaledObject up in an informer's store, then reads the    *)
(* pinger's counts under its lock, then answers.  A reference without an   *)
(* HTTPScaledObject asks for the requests of all apps together, to scale   *)
(* the interceptors themselves.                                            *)
(*                                                                         *)
(* The gRPC library is external.  GracefulStop takes no more calls and     *)
(* waits for the open ones, streams included, and only then Serve returns. *)
(* The informers, which return as soon as the context is done, are not in  *)
(* the way of the exit and are left out.                                   *)
(***************************************************************************)
EXTENDS QueuePinger

CONSTANTS Calls,     \* slots for concurrent calls
          Metrics,   \* the metrics an HTTPScaledObject may ask for: sets of Kinds
          None       \* no HTTPScaledObject

Kinds == {"concurrency", "rate"}

ASSUME ScalerAssumption == Metrics \subseteq SUBSET Kinds

VARIABLES
    call,        \* the calls
    metric,      \* the scaling metrics of the HTTPScaledObjects in the store
    told,        \* what the target KEDA was told is for; {} after a change (history)
    grpc,        \* the gRPC server
    process      \* the process

objectVars == <<metric, told>>
serverVars == <<grpc, process>>
vars == <<pingerVars, call, objectVars, serverVars>>

Refs == Hosts \cup {None}

IdleCall == [phase |-> "idle"]

StreamCalls == [phase : {"stream"}, ref : Refs]
LookedCalls == [phase : {"looked"}, ref : Refs, rate : BOOLEAN, stream : BOOLEAN]
ReadCalls == [phase : {"read"}, ref : Refs, value : Nat, stream : BOOLEAN]

TypeOK ==
    /\ PingerTypeOK
    /\ call \in [Calls -> {IdleCall} \cup StreamCalls \cup LookedCalls \cup ReadCalls]
    /\ metric \in [Hosts -> Metrics] /\ told \in [Hosts -> SUBSET Kinds]
    /\ grpc \in {"opening", "serving", "stopping", "stopped"}
    /\ process \in {"running", "exited"}

Init ==
    /\ PingerInit
    /\ call = [c \in Calls |-> IdleCall]
    /\ metric \in [Hosts -> Metrics] /\ told = [h \in Hosts |-> {}]
    /\ grpc = "opening" /\ process = "running"
-----------------------------------------------------------------------------
(* startGrpcServer: the port cannot be had, which cancels the context of   *)
(* the other goroutines, or the server serves.                             *)
Listen ==
    /\ grpc = "opening"
    /\ \/ grpc' = "serving" /\ UNCHANGED ctxDone
       \/ grpc' = "stopped" /\ ctxDone' = TRUE
    /\ UNCHANGED <<worldVars, loop, ticked, endpEvent, roundVars, savedVars, age, call,
                   objectVars, process>>

(* Faulty variant: nothing stops the server, as nothing stops that of the  *)
(* profiles.                                                               *)
GracefulStopNever ==
    /\ grpc = "serving" /\ ctxDone
    /\ UNCHANGED vars

(* The context is done: GracefulStop.                                      *)
GracefulStop ==
    /\ grpc = "serving" /\ ctxDone
    /\ grpc' = "stopping"
    /\ UNCHANGED <<pingerVars, call, objectVars, process>>

(* Faulty variant: Stop, which waits for no call.                          *)
ServeReturnsAtOnce ==
    /\ grpc = "stopping"
    /\ grpc' = "stopped"
    /\ UNCHANGED <<pingerVars, call, objectVars, process>>

(* Serve returns when no call is open.                                     *)
ServeReturns ==
    /\ grpc = "stopping" /\ \A c \in Calls : call[c] = IdleCall
    /\ grpc' = "stopped"
    /\ UNCHANGED <<pingerVars, call, objectVars, process>>

(* All goroutines of the group have returned, and so does main.            *)
Exit ==
    /\ process = "running" /\ grpc = "stopped" /\ loop = "stopped"
    /\ process' = "exited"
    /\ UNCHANGED <<pingerVars, call, objectVars, grpc>>

ServerStep == Listen \/ GracefulStop \/ ServeReturns \/ Exit
-----------------------------------------------------------------------------
(* Somebody changes the scaling metric of an HTTPScaledObject.             *)
ChangeMetric(h) ==
    /\ metric' \in {[metric EXCEPT ![h] = m] : m \in Metrics \ {metric[h]}}
    /\ told' = [told EXCEPT ![h] = {}]
    /\ UNCHANGED <<pingerVars, call, serverVars>>

(* Faulty variant: the target for the concurrency comes last.              *)
TargetConcurrencyLast(h) ==
    IF "concurrency" \in metric[h] \/ "rate" \notin metric[h] THEN {"concurrency"} ELSE {"rate"}

(* What the target of GetMetricSpec is for: pending requests by default    *)
(* and with a concurrency, but a rate, if there is one, comes last.        *)
Target(h) == IF "rate" \in metric[h] THEN {"rate"} ELSE {"concurrency"}

(* GetMetricSpec looks the object up and answers.                          *)
GetMetricSpec(h) ==
    /\ grpc = "serving"
    /\ told' = [told EXCEPT ![h] = Target(h)]
    /\ UNCHANGED <<pingerVars, call, metric, serverVars>>

(* GetMetrics up to the lookup, which finds the object scaled on its rate  *)
(* or on its requests in flight.  An object that is not found is an error  *)
(* and ends the call at once.                                              *)
Lookup(c, ref, stream) ==
    /\ call' = [call EXCEPT ![c] = [phase |-> "looked", ref |-> ref, stream |-> stream,
                                    rate |-> ref \in Hosts /\ "rate" \in metric[ref]]]
    /\ UNCHANGED <<pingerVars, objectVars, serverVars>>

GetMetrics(c) ==
    /\ grpc = "serving" /\ call[c] = IdleCall
    /\ \E ref \in Refs : Lookup(c, ref, FALSE)

(* Faulty variant: the rate is cut off instead of rounded up.              *)
MetricRoundedDown(ref, rate) ==
    IF ref \notin Hosts
    THEN SumFunction([h \in Hosts |-> allCounts[h].concurrency])
    ELSE IF rate THEN allCounts[ref].rps \div 1000
    ELSE allCounts[ref].concurrency

(* Faulty variant: rounding up is off by one.                              *)
MetricOffByOne(ref, rate) ==
    IF ref \notin Hosts
    THEN SumFunction([h \in Hosts |-> allCounts[h].concurrency])
    ELSE IF rate THEN (allCounts[ref].rps - 1) \div 1000
    ELSE allCounts[ref].concurrency

(* The value of the metric: a rate is rounded up.                          *)
Metric(ref, rate) ==
    IF ref \notin Hosts
    THEN SumFunction([h \in Hosts |-> allCounts[h].concurrency])
    ELSE IF rate THEN (allCounts[ref].rps + 999) \div 1000
    ELSE allCounts[ref].concurrency

(* counts, which waits for the lock, and the value taken from it.          *)
ReadCounts(c) ==
    /\ call[c].phase = "looked"
    /\ ~Locked
    /\ call' = [call EXCEPT ![c] = [phase |-> "read", ref |-> call[c].ref,
                                    stream |-> call[c].stream,
                                    value |-> Metric(call[c].ref, call[c].rate)]]
    /\ UNCHANGED <<pingerVars, objectVars, serverVars>>

(* The answer reaches KEDA; a stream goes on.                              *)
Reply(c) ==
    /\ call[c].phase = "read"
    /\ call' = [call EXCEPT ![c] = IF call[c].stream THEN [phase |-> "stream", ref |-> call[c].ref]
                                   ELSE IdleCall]
    /\ UNCHANGED <<pingerVars, objectVars, serverVars>>

(* StreamIsActive: KEDA opens a stream...                                  *)
OpenStream(c) ==
    /\ grpc = "serving" /\ call[c] = IdleCall
    /\ \E ref \in Refs : call' = [call EXCEPT ![c] = [phase |-> "stream", ref |-> ref]]
    /\ UNCHANGED <<pingerVars, objectVars, serverVars>>

(* ...every tick of which asks IsActive...                                 *)
StreamTick(c) ==
    /\ call[c].phase = "stream"
    /\ Lookup(c, call[c].ref, TRUE)

(* ...until KEDA leaves, the object is gone, or the answer cannot be sent. *)
StreamEnds(c) ==
    /\ call[c].phase = "stream"
    /\ call' = [call EXCEPT ![c] = IdleCall]
    /\ UNCHANGED <<pingerVars, objectVars, serverVars>>

CallStep(c) ==
    \/ GetMetrics(c) \/ ReadCounts(c) \/ Reply(c)
    \/ OpenStream(c) \/ StreamTick(c) \/ StreamEnds(c)
-----------------------------------------------------------------------------
Pinger(A) == process = "running" /\ A /\ UNCHANGED <<call, objectVars, serverVars>>

Next ==
    \/ Pinger(PingerStep) \/ ServerStep
    \/ \E c \in Calls : CallStep(c)
    \/ \E h \in Hosts : ChangeMetric(h) \/ GetMetricSpec(h)

Spec == Init /\ [][Next]_vars

(* The goroutines of the scaler run, the ticker ticks, and interceptors    *)
(* that are not silent answer or fail.  The select and the lock are not    *)
(* unfair for ever: the select chooses at random, and Unlock lets all      *)
(* waiting readers in.  Nothing is assumed of KEDA, which may keep its     *)
(* streams.                                                                *)
Fairness ==
    /\ WF_vars(Pinger(LoopStep \/ CloseCounts \/ \E i \in Interceptors : Answer(i) \/ AnswerFails(i) \/ HandOver(i)))
    /\ SF_vars(Pinger(Stop)) /\ WF_vars(Pinger(Ticker))
    /\ \A c \in Calls : SF_vars(ReadCounts(c)) /\ WF_vars(Reply(c))
    /\ WF_vars(ServerStep)

FairSpec == Spec /\ Fairness
-----------------------------------------------------------------------------
(* A value read is above zero just when some answer of the saved round is. *)
ReadsActivity ==
    \A c \in Calls :
      call[c].phase = "looked" /\ call'[c].phase = "read" /\ call[c].ref \in Hosts
        => (call'[c].value > 0 <=>
              \E i \in DOMAIN basis :
                 LET count == basis[i][call[c].ref]
                 IN  IF call[c].rate THEN count.rps > 0 ELSE count.concurrency > 0)

(* An app with any request in its saved rate is told to be active: a rate  *)
(* below one request in a second is not rounded to nothing (GetMetrics,    *)
(* IsActive).                                                              *)
SlowRateIsActive == [][ReadsActivity]_vars

(* A lookup takes the value of the kind that KEDA has a target for.        *)
LookupFitsTarget ==
    \A c \in Calls :
      call[c].phase \in {"idle", "stream"} /\ call'[c].phase = "looked"
        => \A h \in Hosts : call'[c].ref = h /\ told[h] # {}
             => told[h] = (IF call'[c].rate THEN {"rate"} ELSE {"concurrency"})

(* The value GetMetrics returns is of the kind that the target KEDA was    *)
(* told last is for, unless the object has changed in between: the two     *)
(* handlers read an object with both metrics alike (GetMetricSpec).        *)
ValueFitsTarget == [][LookupFitsTarget]_vars

(* A call of KEDA returns, though every round holds the lock from its list *)
(* of endpoints to its last answer.                                        *)
CallReturns ==
    \A c \in Calls : call[c].phase = "looked" ~> call[c].phase \in {"idle", "stream"}

(* Requests that stay pending at a ready interceptor are in the saved      *)
(* counts sooner or later, and stay there, unless rounds keep failing.     *)
PendingIsSaved ==
    \A i \in Interceptors, h \in Hosts :
      <>[](i \in ready /\ pending[i][h].concurrency > 0 /\ status # "ERROR")
        => <>[](allCounts[h].concurrency > 0)

(* queue_pinger.go:41-42, "you can shut this loop down by using a          *)
(* cancellable context": the loop stops, whatever ticks and events compete *)
(* with the cancellation and whatever round is under way, as long as every *)
(* interceptor answers or fails (start; no Silent interceptor).            *)
StopsWhenCancelled == ctxDone ~> loop = "stopped"

Streaming == \E c \in Calls : call[c].phase = "stream" \/ (call[c] # IdleCall /\ call[c].stream)

(* A process whose context is done, by a signal or because it cannot       *)
(* listen, exits, unless KEDA keeps a stream open (main, GracefulStop).    *)
(* This is a process without profiling: main also waits for that server,   *)
(* which nothing stops (scaler/main.go:119-124), and which is left out.    *)
ExitsUnlessStreaming == <>[]~Streaming => (ctxDone ~> process = "exited")

(* CHANGELOG.md:186, "Provide graceful shutdown for grpc server on SIGINT  *)
(* and SIGTERM": every call was answered when the process exits.           *)
AnsweredBeforeExit == process = "exited" => \A c \in Calls : call[c] = IdleCall

(* The inductive invariant behind these: the counts saved are a round's,   *)
(* there is no call before the server serves nor after Serve has returned, *)
(* and what KEDA was told of an object is what GetMetricSpec would say.    *)
IInv ==
    /\ TypeOK /\ PingerInv
    /\ grpc \in {"opening", "stopped"} => \A c \in Calls : call[c] = IdleCall
    /\ process = "exited" => grpc = "stopped"
    /\ \A h \in Hosts : told[h] \in {{}, Target(h)}
=============================================================================
