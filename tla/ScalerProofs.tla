---------------------------- MODULE ScalerProofs ----------------------------
(***************************************************************************)
(* Proofs about the external scaler, for any number of interceptors, hosts *)
(* and calls and any tick duration: the queue pinger (QueuePinger), what   *)
(* the health services say of it (ScalerHealth), and the calls of KEDA     *)
(* (Scaler).                                                               *)
(***************************************************************************)
EXTENDS Scaler, ScalerHealth, SetTheorems

USE DEF worldVars, inputVars, roundVars, savedVars

(* A count that nobody has answered.                                       *)
LEMMA NothingType == Nothing \in AllCounts /\ Nothing \in [Hosts -> Readings]
BY PingerAssumption DEF Nothing, AllCounts, NoCount

(* No endpoint, no worker and no answer.                                   *)
LEMMA NobodyType == ASSUME NEW S PROVE DOMAIN <<>> = {} /\ <<>> \in [DOMAIN <<>> -> S]
OBVIOUS

(* The sum of counts is one.                                               *)
LEMMA AddType ==
    ASSUME NEW total \in AllCounts, NEW counts \in [Hosts -> Readings]
    PROVE  Add(total, counts) \in AllCounts
<1>1. \A h \in Hosts : /\ total[h].concurrency \in Nat /\ total[h].rps \in Nat
                       /\ counts[h].concurrency \in Nat /\ counts[h].rps \in Nat
  BY PingerAssumption DEF AllCounts
<1> QED
  BY <1>1 DEF Add, AllCounts

-----------------------------------------------------------------------------
(* f is g on S and has x besides.                                          *)
OneMore(f, x, g, S) ==
    /\ x \notin S /\ DOMAIN f = S \cup {x} /\ DOMAIN g = S
    /\ \A i \in S : g[i] = f[i] /\ f[i] \in Int
    /\ f[x] \in Int

(* A sum over endpoints, with one more.                                    *)
LEMMA SumOver ==
    ASSUME NEW S, IsFiniteSet(S), NEW x, NEW f, NEW g, OneMore(f, x, g, S)
    PROVE  SumFunction(f) = SumFunction(g) + f[x]
<1> USE DEF OneMore
<1>1. SumFunctionOnSet(f, S \cup {x}) = SumFunctionOnSet(f, S) + f[x]
  <2>1. x \notin S /\ \A i \in S \cup {x} : f[i] \in Int
    OBVIOUS
  <2> QED
    BY <2>1, SumAdd
<1>2. SumFunctionOnSet(f, S) = SumFunctionOnSet(g, S)
  BY SumEqual
<1> QED
  BY <1>1, <1>2 DEF SumFunction

(* The answers of no endpoint are no counts.                               *)
LEMMA SumOfNone == ASSUME NEW a PROVE SumOf(a, {}) = Nothing
<1>1. ASSUME NEW f, DOMAIN f = {} PROVE SumFunction(f) = 0
  BY <1>1, SumEmpty DEF SumFunction
<1>2. ASSUME NEW h \in Hosts
      PROVE  /\ SumFunction([i \in {} |-> a[i][h].concurrency]) = 0
             /\ SumFunction([i \in {} |-> a[i][h].rps]) = 0
  <2> DEFINE f == [i \in {} |-> a[i][h].concurrency]
             g == [i \in {} |-> a[i][h].rps]
  <2>1. DOMAIN f = {} /\ DOMAIN g = {}
    OBVIOUS
  <2> HIDE DEF f, g
  <2>2. SumFunction(f) = 0 /\ SumFunction(g) = 0
    BY <1>1, <2>1
  <2> QED
    BY <2>2 DEF f, g
<1> QED
  BY <1>2, Zenon DEF SumOf, Nothing, NoCount

(* The sum is one of the answers it is taken of.                           *)
LEMMA SumOfEqual ==
    ASSUME NEW S, NEW a, NEW b, \A i \in S : a[i] = b[i]
    PROVE  SumOf(a, S) = SumOf(b, S)
<1>1. ASSUME NEW h \in Hosts
      PROVE  /\ [i \in S |-> a[i][h].concurrency] = [i \in S |-> b[i][h].concurrency]
             /\ [i \in S |-> a[i][h].rps] = [i \in S |-> b[i][h].rps]
  OBVIOUS
<1> QED
  BY <1>1, Zenon DEF SumOf

(* One more answer is added as the range loop does.                        *)
LEMMA SumOfAdd ==
    ASSUME NEW S \in SUBSET Interceptors, NEW x \in Interceptors, x \notin S,
           NEW a, \A i \in S \cup {x} : a[i] \in [Hosts -> Readings]
    PROVE  SumOf(a, S \cup {x}) = Add(SumOf(a, S), a[x])
<1>1. IsFiniteSet(S)
  BY PingerAssumption, FS_Subset
<1>2. ASSUME NEW h \in Hosts
      PROVE  /\ SumFunction([i \in S \cup {x} |-> a[i][h].concurrency])
                   = SumFunction([i \in S |-> a[i][h].concurrency]) + a[x][h].concurrency
             /\ SumFunction([i \in S \cup {x} |-> a[i][h].rps])
                   = SumFunction([i \in S |-> a[i][h].rps]) + a[x][h].rps
  <2>1. \A i \in S \cup {x} : a[i][h].concurrency \in Int /\ a[i][h].rps \in Int
    BY PingerAssumption
  <2> DEFINE f == [i \in S \cup {x} |-> a[i][h].concurrency]
             g == [i \in S |-> a[i][h].concurrency]
             k == [i \in S \cup {x} |-> a[i][h].rps]
             l == [i \in S |-> a[i][h].rps]
  <2>2. OneMore(f, x, g, S) /\ f[x] = a[x][h].concurrency
    BY <2>1 DEF OneMore
  <2>3. OneMore(k, x, l, S) /\ k[x] = a[x][h].rps
    BY <2>1 DEF OneMore
  <2> HIDE DEF f, g, k, l
  <2>4. SumFunction(f) = SumFunction(g) + f[x]
    BY <1>1, <2>2, SumOver
  <2>5. SumFunction(k) = SumFunction(l) + k[x]
    BY <1>1, <2>3, SumOver
  <2> QED
    BY <2>2, <2>3, <2>4, <2>5 DEF f, g, k, l
<1>3. ASSUME NEW h \in Hosts
      PROVE  /\ SumOf(a, S)[h].concurrency = SumFunction([i \in S |-> a[i][h].concurrency])
             /\ SumOf(a, S)[h].rps = SumFunction([i \in S |-> a[i][h].rps])
  BY DEF SumOf
<1>4. ASSUME NEW h \in Hosts
      PROVE  [concurrency |-> SumFunction([i \in S \cup {x} |-> a[i][h].concurrency]),
              rps |-> SumFunction([i \in S \cup {x} |-> a[i][h].rps])]
             = [concurrency |-> SumOf(a, S)[h].concurrency + a[x][h].concurrency,
                rps |-> SumOf(a, S)[h].rps + a[x][h].rps]
  BY <1>2, <1>3, Zenon
<1>5. SumOf(a, S \cup {x}) =
        [h \in Hosts |-> [concurrency |-> SumFunction([i \in S \cup {x} |-> a[i][h].concurrency]),
                          rps |-> SumFunction([i \in S \cup {x} |-> a[i][h].rps])]]
  BY DEF SumOf
<1>6. Add(SumOf(a, S), a[x]) =
        [h \in Hosts |-> [concurrency |-> SumOf(a, S)[h].concurrency + a[x][h].concurrency,
                          rps |-> SumOf(a, S)[h].rps + a[x][h].rps]]
  BY DEF Add
<1> QED
  BY <1>4, <1>5, <1>6, Zenon

(* A sum of counts has none just when no answer has.                       *)
LEMMA SumOfPositive ==
    ASSUME NEW S \in SUBSET Interceptors, NEW a, \A i \in S : a[i] \in [Hosts -> Readings],
           NEW h \in Hosts
    PROVE  /\ SumOf(a, S)[h].concurrency > 0 <=> \E i \in S : a[i][h].concurrency > 0
           /\ SumOf(a, S)[h].rps > 0 <=> \E i \in S : a[i][h].rps > 0
<1> DEFINE f == [i \in S |-> a[i][h].concurrency]
           g == [i \in S |-> a[i][h].rps]
<1>1. IsFiniteSet(S)
  BY PingerAssumption, FS_Subset
<1>2. \A i \in S : /\ a[i][h].concurrency \in Nat /\ f[i] = a[i][h].concurrency
                   /\ a[i][h].rps \in Nat /\ g[i] = a[i][h].rps
  BY PingerAssumption
<1>3. SumOf(a, S)[h].concurrency = SumFunctionOnSet(f, S) /\ SumOf(a, S)[h].rps = SumFunctionOnSet(g, S)
  BY DEF SumOf, SumFunction
<1> HIDE DEF f, g
<1>4. /\ SumFunctionOnSet(f, S) \in Nat
      /\ \A i \in S : f[i] <= SumFunctionOnSet(f, S)
      /\ (\A i \in S : f[i] = 0) => SumFunctionOnSet(f, S) = 0
  BY <1>1, <1>2, SumNat
<1>5. /\ SumFunctionOnSet(g, S) \in Nat
      /\ \A i \in S : g[i] <= SumFunctionOnSet(g, S)
      /\ (\A i \in S : g[i] = 0) => SumFunctionOnSet(g, S) = 0
  BY <1>1, <1>2, SumNat
<1>6. SumFunctionOnSet(f, S) > 0 <=> \E i \in S : f[i] > 0
  BY <1>2, <1>4
<1>7. SumFunctionOnSet(g, S) > 0 <=> \E i \in S : g[i] > 0
  BY <1>2, <1>5
<1> QED
  BY <1>2, <1>3, <1>6, <1>7
-----------------------------------------------------------------------------
(* newQueuePinger: there is no round and no count yet.                     *)
LEMMA PingerStarts == ASSUME PingerInit PROVE PingerInv
<1>1. DOMAIN worker = {} /\ DOMAIN answer = {} /\ DOMAIN basis = {}
  BY NobodyType DEF PingerInit
<1>2. PingerTypeOK
  <2>1. worker \in [DOMAIN worker -> {"get", "got", "held", "done", "failed"}]
    BY NobodyType DEF PingerInit
  <2>2. answer \in [DOMAIN answer -> [Hosts -> Readings]] /\ basis \in [DOMAIN basis -> [Hosts -> Readings]]
    BY NobodyType DEF PingerInit
  <2>3. age \in 0..AgeLimit
    BY PingerAssumption DEF PingerInit
  <2>4. pending \in [Interceptors -> [Hosts -> Readings]]
    BY NothingType DEF PingerInit
  <2> QED
    BY <1>1, <2>1, <2>2, <2>3, <2>4, NothingType DEF PingerInit, PingerTypeOK
<1>3. Collected
  BY <1>1 DEF PingerInit, Collected
<1>4. Received = {} /\ totalCounts = Nothing /\ allCounts = Nothing
  BY <1>1 DEF Received, PingerInit
<1>5. totalCounts = SumOf(answer, Received) /\ allCounts = SumOf(basis, DOMAIN basis)
  BY <1>1, <1>4, SumOfNone
<1> QED
  BY <1>2, <1>3, <1>5 DEF PingerInv

(* The steps of the loop keep the types.                                   *)
LEMMA LoopTypes == ASSUME PingerInv, LoopStep PROVE PingerTypeOK'
<1>1. PingerTypeOK /\ Collected
  BY DEF PingerInv
<1>2. CASE TakeTick \/ TakeEvent \/ Stop \/ ListFails
  BY <1>1, <1>2 DEF TakeTick, TakeEvent, Stop, ListFails, FetchFails, PingerTypeOK
<1>3. CASE GroupDone \/ RangeEnds
  BY <1>1, <1>3 DEF GroupDone, RangeEnds, PingerTypeOK
<1>4. CASE List
  <2>1. DOMAIN worker' = ready /\ worker' \in [ready -> {"get", "got", "held", "done", "failed"}]
    BY <1>4 DEF List
  <2>2. DOMAIN answer = {}
    BY <1>1, <1>4 DEF List, Collected, PingerTypeOK
  <2> QED
    BY <1>1, <1>4, <2>1, <2>2 DEF List, PingerTypeOK
<1>5. CASE GroupFails \/ Save
  <2>1. /\ worker' = <<>> /\ answer' = <<>> /\ closed' = FALSE /\ totalCounts' = Nothing
        /\ loop' = "select" /\ status' \in {"ERROR", status} /\ age' \in {age, 0}
        /\ allCounts' \in {allCounts, totalCounts} /\ basis' \in {basis, answer}
        /\ UNCHANGED <<worldVars, inputVars>>
    BY <1>5 DEF GroupFails, FetchFails, Save
  <2>2. /\ DOMAIN worker' = {} /\ worker' \in [DOMAIN worker' -> {"get", "got", "held", "done", "failed"}]
        /\ DOMAIN answer' = {} /\ answer' \in [DOMAIN answer' -> [Hosts -> Readings]]
    BY <2>1, NobodyType
  <2>3. age' \in 0..AgeLimit
    BY <1>1, <2>1, PingerAssumption DEF PingerTypeOK
  <2> QED
    BY <1>1, <2>1, <2>2, <2>3, NothingType DEF PingerTypeOK
<1>6. ASSUME NEW i \in Interceptors, Receive(i) PROVE PingerTypeOK'
  <2>1. answer[i] \in [Hosts -> Readings]
    BY <1>1, <1>6 DEF Receive, Collected, PingerTypeOK
  <2>2. totalCounts' \in AllCounts
    BY <1>1, <1>6, <2>1, AddType DEF Receive, PingerTypeOK
  <2>3. /\ DOMAIN worker' = DOMAIN worker
        /\ worker' \in [DOMAIN worker' -> {"get", "got", "held", "done", "failed"}]
    BY <1>1, <1>6 DEF Receive, PingerTypeOK
  <2> QED
    BY <1>1, <1>6, <2>2, <2>3 DEF Receive, PingerTypeOK
<1> QED
  BY <1>2, <1>3, <1>4, <1>5, <1>6 DEF LoopStep

(* So do those of the goroutines that ask the interceptors...              *)
LEMMA WorkerTypes ==
    ASSUME PingerTypeOK, NEW i \in Interceptors, Answer(i) \/ AnswerFails(i) \/ HandOver(i)
    PROVE  PingerTypeOK'
<1>1. /\ DOMAIN worker' = DOMAIN worker
      /\ worker' \in [DOMAIN worker' -> {"get", "got", "held", "done", "failed"}]
  BY DEF Answer, AnswerFails, HandOver, PingerTypeOK
<1>2. DOMAIN answer' \subseteq DOMAIN worker /\ answer' \in [DOMAIN answer' -> [Hosts -> Readings]]
  <2>1. CASE Answer(i)
    <3>1. pending[i] \in [Hosts -> Readings]
      BY DEF PingerTypeOK
    <3> QED
      BY <2>1, <3>1 DEF Answer, PingerTypeOK
  <2> QED
    BY <2>1 DEF AnswerFails, HandOver, PingerTypeOK
<1> QED
  BY <1>1, <1>2 DEF Answer, AnswerFails, HandOver, PingerTypeOK

(* ...those of the world, and the one that closes the channel.             *)
LEMMA WorldTypes == ASSUME PingerTypeOK, WorldStep \/ CloseCounts PROVE PingerTypeOK'
<1>1. ASSUME NEW i \in Interceptors, ChangePending(i) PROVE PingerTypeOK'
  <2>1. PICK h \in Hosts, c \in Readings : pending' = [pending EXCEPT ![i][h] = c]
    BY <1>1 DEF ChangePending
  <2>2. pending' \in [Interceptors -> [Hosts -> Readings]]
    BY <2>1 DEF PingerTypeOK
  <2> QED
    BY <1>1, <2>2 DEF ChangePending, PingerTypeOK
<1>2. CASE Ticker \/ ChangeEndpoints \/ CancelPinger \/ CloseCounts
  BY <1>2 DEF Ticker, ChangeEndpoints, CancelPinger, CloseCounts, PingerTypeOK
<1> QED
  BY <1>1, <1>2 DEF WorldStep

(* A round begins and ends with nothing left over, and collects one answer *)
(* of each worker.                                                         *)
LEMMA CollectedStep == ASSUME PingerTypeOK, Collected, PingerStep PROVE Collected'
<1>1. CASE UNCHANGED <<worker, answer, closed>>
             /\ (loop' \notin {"fetching", "ranging", "saving"} =>
                   loop \notin {"fetching", "ranging", "saving"})
             /\ (loop' = "saving" => closed)
  BY <1>1 DEF Collected
<1>2. CASE TakeTick \/ TakeEvent \/ Stop \/ ListFails \/ GroupDone \/ RangeEnds \/ WorldStep
  <2>1. /\ UNCHANGED <<worker, answer, closed>>
        /\ loop' \notin {"fetching", "ranging", "saving"} =>
             loop \notin {"fetching", "ranging", "saving"}
        /\ loop' = "saving" => closed
    BY <1>2 DEF TakeTick, TakeEvent, Stop, ListFails, FetchFails, GroupDone, RangeEnds, WorldStep,
                Ticker, ChangeEndpoints, CancelPinger, ChangePending, Collected
  <2> QED
    BY <1>1, <2>1
<1>3. CASE List
  <2>1. ~closed
    BY <1>3 DEF List, Collected
  <2>2. DOMAIN worker' = ready /\ \A i \in ready : worker'[i] = "get"
    BY <1>3 DEF List
  <2> QED
    BY <1>3, <2>1, <2>2 DEF List, Collected
<1>4. CASE GroupFails \/ Save
  <2>1. DOMAIN worker' = {} /\ ~closed' /\ loop' = "select"
    BY <1>4, NobodyType DEF GroupFails, FetchFails, Save
  <2> QED
    BY <2>1 DEF Collected
<1>5. ASSUME NEW i \in Interceptors, Receive(i) \/ HandOver(i) PROVE Collected'
  <2>1. /\ DOMAIN worker' = DOMAIN worker /\ i \in DOMAIN worker /\ worker[i] \in {"got", "held"}
        /\ \A j \in DOMAIN worker : j # i => worker'[j] = worker[j]
        /\ UNCHANGED <<answer, closed, loop>>
    BY <1>5 DEF Receive, HandOver, PingerTypeOK
  <2>2. ~closed
    BY <2>1 DEF Collected
  <2> QED
    BY <2>1, <2>2 DEF Collected
<1>6. ASSUME NEW i \in Interceptors, Answer(i) \/ AnswerFails(i) PROVE Collected'
  <2>1. /\ DOMAIN worker' = DOMAIN worker /\ i \in DOMAIN worker /\ worker[i] = "get"
        /\ \A j \in DOMAIN worker : j # i => worker'[j] = worker[j]
        /\ worker'[i] = "failed" \/ i \in DOMAIN answer'
        /\ DOMAIN answer \subseteq DOMAIN answer'
        /\ UNCHANGED <<closed, loop>>
    BY <1>6 DEF Answer, AnswerFails, PingerTypeOK
  <2>2. ~closed
    BY <2>1 DEF Collected
  <2>3. \A j \in DOMAIN worker' : worker'[j] \in {"got", "held", "done"} => j \in DOMAIN answer'
    BY <2>1 DEF Collected
  <2> QED
    BY <2>1, <2>2, <2>3 DEF Collected
<1>7. CASE CloseCounts
  BY <1>7 DEF CloseCounts, Collected
<1> QED
  BY <1>2, <1>3, <1>4, <1>5, <1>6, <1>7 DEF PingerStep, LoopStep

(* What is summed up changes with an answer received and with the end of a *)
(* round only: an answer that comes in is not among those received.        *)
LEMMA TotalStep ==
    ASSUME PingerInv, PingerStep
    PROVE  totalCounts' = SumOf(answer', Received')
<1>0. PingerTypeOK /\ Collected /\ totalCounts = SumOf(answer, Received)
  BY DEF PingerInv
<1>1. CASE TakeTick \/ TakeEvent \/ Stop \/ ListFails \/ GroupDone \/ RangeEnds \/ WorldStep
             \/ CloseCounts
  <2>1. UNCHANGED <<worker, answer, totalCounts>>
    BY <1>1 DEF TakeTick, TakeEvent, Stop, ListFails, FetchFails, GroupDone, RangeEnds, WorldStep,
                Ticker, ChangeEndpoints, CancelPinger, ChangePending, CloseCounts
  <2>2. Received' = Received
    BY <2>1 DEF Received
  <2> QED
    BY <1>0, <2>1, <2>2
<1>2. CASE List
  <2>1. Received = {}
    BY <1>0, <1>2 DEF List, Collected, Received
  <2>2. Received' = {} /\ UNCHANGED totalCounts
    BY <1>2 DEF List, Received
  <2> QED
    BY <1>0, <2>1, <2>2, SumOfNone
<1>3. CASE GroupFails \/ Save
  <2>1. worker' = <<>> /\ totalCounts' = Nothing
    BY <1>3 DEF GroupFails, Save
  <2>2. Received' = {}
    BY <2>1, NobodyType DEF Received
  <2> QED
    BY <2>1, <2>2, SumOfNone
<1>4. ASSUME NEW i \in Interceptors, Receive(i) PROVE totalCounts' = SumOf(answer', Received')
  <2>1. /\ i \in DOMAIN worker /\ worker[i] = "held" /\ worker' = [worker EXCEPT ![i] = "done"]
        /\ totalCounts' = Add(totalCounts, answer[i]) /\ UNCHANGED answer
    BY <1>4 DEF Receive
  <2>2. Received' = Received \cup {i} /\ i \notin Received
    BY <1>0, <2>1 DEF Received, PingerTypeOK
  <2>3. Received \in SUBSET Interceptors /\ \A j \in Received \cup {i} : answer[j] \in [Hosts -> Readings]
    BY <1>0, <2>1 DEF Received, PingerTypeOK, Collected
  <2>4. SumOf(answer, Received \cup {i}) = Add(SumOf(answer, Received), answer[i])
    BY <2>2, <2>3, SumOfAdd
  <2> QED
    BY <1>0, <2>1, <2>2, <2>4
<1>5. ASSUME NEW i \in Interceptors, Answer(i) \/ AnswerFails(i) \/ HandOver(i)
      PROVE  totalCounts' = SumOf(answer', Received')
  <2>1. /\ i \in DOMAIN worker /\ worker[i] \in {"get", "got"}
        /\ \E v \in {"got", "failed", "held"} : worker' = [worker EXCEPT ![i] = v]
        /\ UNCHANGED totalCounts
    BY <1>5 DEF Answer, AnswerFails, HandOver
  <2>2. Received' = Received /\ i \notin Received
    BY <1>0, <2>1 DEF Received, PingerTypeOK
  <2>3. \A j \in Received : answer'[j] = answer[j]
    <3>1. \A j \in Received : j \in DOMAIN answer
      BY <1>0 DEF Received, Collected
    <3>2. CASE Answer(i)
      BY <2>2, <3>1, <3>2 DEF Answer
    <3>3. CASE AnswerFails(i) \/ HandOver(i)
      BY <3>3 DEF AnswerFails, HandOver
    <3> QED
      BY <1>5, <3>2, <3>3
  <2>4. SumOf(answer', Received) = SumOf(answer, Received)
    BY <2>3, SumOfEqual
  <2> QED
    BY <1>0, <2>1, <2>2, <2>4
<1> QED
  BY <1>1, <1>2, <1>3, <1>4, <1>5 DEF PingerStep, LoopStep

(* When a round ends, every worker it had was answered and received.       *)
LEMMA RoundComplete ==
    ASSUME PingerInv, Save
    PROVE  /\ DOMAIN answer = DOMAIN worker /\ DOMAIN answer # {} /\ Received = DOMAIN answer
           /\ allCounts' = SumOf(answer, DOMAIN answer) /\ basis' = answer
<1>1. DOMAIN worker # {} /\ \A i \in DOMAIN worker : worker[i] = "done"
  BY DEF Save, PingerInv, Collected
<1>2. DOMAIN answer = DOMAIN worker
  BY <1>1 DEF PingerInv, Collected, PingerTypeOK
<1>3. Received = DOMAIN worker
  BY <1>1 DEF Received
<1> QED
  BY <1>1, <1>2, <1>3 DEF Save, PingerInv

(* What a step other than Save leaves of the counts saved.                 *)
LEMMA SavedStep ==
    ASSUME PingerStep, ~Save
    PROVE  UNCHANGED <<allCounts, basis, age>>
BY DEF PingerStep, LoopStep, TakeTick, TakeEvent, Stop, ListFails, FetchFails, List, GroupDone,
       GroupFails, RangeEnds, Receive, CloseCounts, WorldStep, Ticker, ChangeEndpoints, CancelPinger,
       ChangePending, Answer, AnswerFails, HandOver

(* Every step of the pinger keeps its invariant.                           *)
LEMMA PingerKeeps == ASSUME PingerInv, PingerStep PROVE PingerInv'
<1>1. PingerTypeOK /\ Collected /\ allCounts = SumOf(basis, DOMAIN basis)
  BY DEF PingerInv
<1>2. PingerTypeOK'
  BY <1>1, LoopTypes, WorkerTypes, WorldTypes DEF PingerStep
<1>3. Collected'
  BY <1>1, CollectedStep
<1>4. totalCounts' = SumOf(answer', Received')
  BY TotalStep
<1>5. allCounts' = SumOf(basis', DOMAIN basis')
  BY <1>1, RoundComplete, SavedStep
<1> QED
  BY <1>2, <1>3, <1>4, <1>5 DEF PingerInv, SumOf

(* The pinger's invariant is not about the context nor about the age.      *)
LEMMA PingerRests ==
    ASSUME PingerInv, UNCHANGED <<worldVars, loop, ticked, endpEvent, roundVars, savedVars>>,
           ctxDone' \in BOOLEAN, age' \in 0..AgeLimit
    PROVE  PingerInv'
<1>1. PingerTypeOK' /\ Collected'
  BY DEF PingerInv, PingerTypeOK, Collected
<1>2. Received' = Received
  BY DEF Received
<1> QED
  BY <1>1, <1>2 DEF PingerInv, SumOf

(* A step that leaves the pinger alone.                                    *)
LEMMA PingerSame == ASSUME PingerInv, UNCHANGED pingerVars PROVE PingerInv'
<1>1. ctxDone \in BOOLEAN /\ age \in 0..AgeLimit
  BY DEF PingerInv, PingerTypeOK
<1> QED
  BY <1>1, PingerRests DEF pingerVars
-----------------------------------------------------------------------------
(* Initially there is no round and no count, and health is unknown.        *)
LEMMA HealthStarts == HealthInit => HealthInv
<1> SUFFICES ASSUME HealthInit PROVE HealthInv
  OBVIOUS
<1>1. PingerInv /\ age = AgeLimit
  BY PingerStarts DEF HealthInit, PingerInit
<1>2. HealthTypeOK /\ ~Serving /\ healthLoop = "select"
  BY <1>1, HealthAssumption DEF HealthInit, PingerInv, HealthTypeOK, ServingStatuses, Serving
<1> QED
  BY <1>1, <1>2 DEF HealthInv, ServingIsFresh, Services

(* Only a complete round makes the counts new.                             *)
LEMMA BasisStep ==
    ASSUME HealthInv, PingerStep
    PROVE  /\ DOMAIN basis # {} => DOMAIN basis' # {}
           /\ age' = age \/ (age' = 0 /\ DOMAIN basis' # {})
           /\ DOMAIN basis' = {} => age' = AgeLimit
<1>1. CASE Save
  <2>1. DOMAIN answer # {} /\ basis' = answer
    BY <1>1, RoundComplete DEF HealthInv
  <2> QED
    BY <1>1, <2>1 DEF Save
<1>2. CASE ~Save
  BY <1>2, SavedStep DEF HealthInv
<1> QED
  BY <1>1, <1>2

(* A service is set from the status while the counts are new enough.       *)
LEMMA SetKeeps == ASSUME HealthInv, SetLiveness \/ SetReadiness PROVE HealthInv'
<1>1. /\ age \in Nat /\ AgeLimit \in Nat /\ MaxAge \in Nat /\ CheckPeriod \in Nat
      /\ sinceCheck \in 0..CheckPeriod /\ MaxAge + CheckPeriod < AgeLimit
  BY PingerAssumption, HealthAssumption DEF HealthInv, HealthTypeOK, PingerTypeOK
<1>2. UNCHANGED <<pingerVars, sinceCheck>> /\ healthLoop' \in {"select", "readiness"}
  BY DEF SetLiveness, SetReadiness
<1>3. PingerInv' /\ PingerTypeOK'
  BY <1>2, PingerSame DEF HealthInv, PingerInv
<1>4. healthLoop \in Services /\ age <= MaxAge
  BY DEF SetLiveness, SetReadiness, HealthInv, Services
<1>5. age' = age /\ basis' = basis /\ DOMAIN basis # {} /\ age <= MaxAge + sinceCheck
      /\ age <= MaxAge + CheckPeriod
  BY <1>1, <1>2, <1>4 DEF pingerVars, HealthInv
<1>6. ServingStatus \in ServingStatuses
  BY DEF ServingStatus, ServingStatuses, HealthInv, HealthTypeOK, PingerTypeOK
<1>7. health' \in [Services -> ServingStatuses]
  BY <1>6 DEF SetLiveness, SetReadiness, HealthInv, HealthTypeOK
<1>8. HealthTypeOK'
  BY <1>2, <1>3, <1>7 DEF HealthInv, HealthTypeOK, Services
<1> QED
  BY <1>2, <1>3, <1>4, <1>5, <1>8 DEF HealthInv, ServingIsFresh

(* The time is compared, or the loop ends.                                 *)
LEMMA CheckKeeps == ASSUME HealthInv, HealthTick \/ HealthStop PROVE HealthInv'
<1>1. /\ age \in Nat /\ AgeLimit \in Nat /\ MaxAge \in Nat /\ CheckPeriod \in Nat
      /\ sinceCheck \in 0..CheckPeriod /\ MaxAge + CheckPeriod < AgeLimit
  BY PingerAssumption, HealthAssumption DEF HealthInv, HealthTypeOK, PingerTypeOK
<1>2. /\ UNCHANGED pingerVars /\ sinceCheck' \in {0, sinceCheck}
      /\ \/ health' = NotServing /\ healthLoop' \in {"select", "stopped"}
         \/ UNCHANGED health /\ healthLoop' = "liveness" /\ age <= MaxAge
  BY DEF HealthTick, HealthStop
<1>3. PingerInv' /\ PingerTypeOK' /\ age' = age /\ basis' = basis
  BY <1>2, PingerSame DEF HealthInv, PingerInv, pingerVars
<1>4. HealthTypeOK'
  BY <1>1, <1>2, <1>3 DEF HealthInv, HealthTypeOK, NotServing, ServingStatuses, Services
<1>5. CASE health' = NotServing /\ healthLoop' \in {"select", "stopped"}
  <2>1. ~Serving' /\ healthLoop' \notin Services
    BY <1>5 DEF Serving, NotServing, Services
  <2> QED
    BY <1>3, <1>4, <1>5, <2>1 DEF HealthInv, ServingIsFresh
<1>6. CASE UNCHANGED health /\ healthLoop' = "liveness" /\ age <= MaxAge
  BY <1>1, <1>3, <1>4, <1>6 DEF HealthInv, ServingIsFresh, Serving
<1> QED
  BY <1>2, <1>5, <1>6

(* Time passes while no check is under way, and no longer than to the next *)
(* one.                                                                    *)
LEMMA TimeKeeps == ASSUME HealthInv, TimePasses PROVE HealthInv'
<1>1. /\ age \in 0..AgeLimit /\ AgeLimit \in Nat /\ MaxAge \in Nat /\ CheckPeriod \in Nat
      /\ sinceCheck \in 0..CheckPeriod /\ MaxAge + CheckPeriod < AgeLimit
  BY PingerAssumption, HealthAssumption DEF HealthInv, HealthTypeOK, PingerTypeOK
<1>2. /\ UNCHANGED <<worldVars, loop, inputVars, roundVars, savedVars, healthLoop, health>>
      /\ age' = IF age < AgeLimit THEN age + 1 ELSE AgeLimit
      /\ \/ healthLoop = "select" /\ sinceCheck < CheckPeriod /\ sinceCheck' = sinceCheck + 1
         \/ healthLoop = "stopped" /\ UNCHANGED sinceCheck
  BY DEF TimePasses
<1>3. age' \in 0..AgeLimit /\ (age = AgeLimit => age' = AgeLimit) /\ age' <= age + 1
      /\ sinceCheck' \in 0..CheckPeriod
  BY <1>1, <1>2
<1>4. PingerInv' /\ PingerTypeOK'
  <2>1. ctxDone' \in BOOLEAN
    BY <1>2 DEF HealthInv, HealthTypeOK, PingerTypeOK
  <2> QED
    BY <1>2, <1>3, <2>1, PingerRests DEF HealthInv, PingerInv
<1>5. HealthTypeOK'
  BY <1>2, <1>3, <1>4 DEF HealthInv, HealthTypeOK
<1>6. Serving' <=> Serving
  BY <1>2 DEF Serving
<1>7. ASSUME Serving PROVE healthLoop = "select" /\ age' <= MaxAge + sinceCheck' /\ DOMAIN basis # {}
  <2>1. healthLoop # "stopped"
    BY <1>7 DEF HealthInv, Serving, NotServing
  <2>2. age <= MaxAge + sinceCheck /\ DOMAIN basis # {} /\ sinceCheck' = sinceCheck + 1
    BY <1>2, <1>7, <2>1 DEF HealthInv, ServingIsFresh
  <2> QED
    BY <1>1, <1>2, <1>3, <2>1, <2>2
<1>8. ServingIsFresh'
  BY <1>1, <1>2, <1>3, <1>6, <1>7 DEF ServingIsFresh
<1>9. healthLoop' \notin Services
  BY <1>2 DEF Services
<1> QED
  BY <1>2, <1>3, <1>4, <1>5, <1>6, <1>7, <1>8, <1>9 DEF HealthInv

(* Every step keeps the invariant.                                         *)
LEMMA HealthKeeps == HealthInv /\ [HealthNext]_pingerHealthVars => HealthInv'
<1> SUFFICES ASSUME HealthInv, [HealthNext]_pingerHealthVars PROVE HealthInv'
  OBVIOUS
<1>1. PingerInv /\ age \in Nat /\ MaxAge \in Nat /\ CheckPeriod \in Nat /\ sinceCheck \in Nat
  BY PingerAssumption, HealthAssumption DEF HealthInv, HealthTypeOK, PingerTypeOK
<1>2. CASE PingerStep /\ UNCHANGED healthVars
  <2>1. PingerInv' /\ PingerTypeOK'
    BY <1>1, <1>2, PingerKeeps DEF PingerInv
  <2>2. /\ DOMAIN basis # {} => DOMAIN basis' # {}
        /\ age' = age \/ (age' = 0 /\ DOMAIN basis' # {})
        /\ DOMAIN basis' = {} => age' = AgeLimit
    BY <1>2, BasisStep
  <2>3. (Serving' <=> Serving) /\ UNCHANGED <<healthLoop, sinceCheck, health>>
    BY <1>2 DEF healthVars, Serving
  <2>4. ServingIsFresh'
    BY <1>1, <2>2, <2>3 DEF ServingIsFresh, HealthInv
  <2>5. HealthTypeOK'
    BY <2>1, <2>3 DEF HealthInv, HealthTypeOK
  <2> QED
    BY <1>1, <2>1, <2>2, <2>3, <2>4, <2>5 DEF HealthInv
<1>3. CASE UNCHANGED pingerHealthVars
  <2>1. PingerInv' /\ PingerTypeOK'
    BY <1>1, <1>3, PingerSame DEF pingerHealthVars, PingerInv
  <2> QED
    BY <1>3, <2>1 DEF pingerHealthVars, pingerVars, healthVars, HealthInv, HealthTypeOK, ServingIsFresh,
       Serving
<1> QED
  BY <1>2, <1>3, SetKeeps, CheckKeeps, TimeKeeps DEF HealthNext, HealthStep

(* HealthInv: every round collects all its answers before its channel      *)
(* closes (fetchCounts), and what a health service says rests on a check   *)
(* of lastPingTime that was made no longer ago than sinceCheck.            *)
THEOREM HealthInvariance == HealthSpec => []HealthInv
BY HealthStarts, HealthKeeps, PTL DEF HealthSpec

(* ServingIsFresh: the health services never say SERVING on counts that    *)
(* are older than two ticks and the time between two checks, or of no      *)
(* round at all, whatever fails or hangs and however the unlocked reads of *)
(* the health loop fall between the pinger's writes (startGrpcServer).     *)
THEOREM ServesFreshCounts == HealthSpec => []ServingIsFresh
<1>1. HealthInv => ServingIsFresh
  BY DEF HealthInv
<1> QED
  BY <1>1, HealthInvariance, PTL

(* The step from saving to the next select  is the one that saves.         *)
LEMMA SavesStep ==
    HealthInv /\ [HealthNext]_pingerHealthVars => [SavesSum]_pingerHealthVars
<1> SUFFICES ASSUME HealthInv, HealthNext, loop = "saving", loop' = "select"
             PROVE  DOMAIN answer = DOMAIN worker /\ allCounts' = SumOf(answer, DOMAIN answer)
  BY DEF SavesSum
<1>1. PingerStep
  BY DEF HealthNext, HealthStep, HealthTick, SetLiveness, SetReadiness, HealthStop, TimePasses, pingerVars
<1>2. Save
  BY <1>1 DEF PingerStep, LoopStep, TakeTick, TakeEvent, Stop, ListFails, FetchFails, List, GroupDone,
              GroupFails, RangeEnds, Receive, CloseCounts, WorldStep, Ticker, ChangeEndpoints, CancelPinger,
              ChangePending, Answer, AnswerFails, HandOver
<1> QED
  BY <1>2, RoundComplete DEF HealthInv

(* SavedIsSumOfRound: what a round saves is the sum of one answer of each  *)
(* interceptor it has listed, in whatever order the goroutines of          *)
(* fetchCounts hand the answers over.                                      *)
THEOREM SavesSumOfRound == HealthSpec => SavedIsSumOfRound
BY SavesStep, HealthInvariance, PTL DEF HealthSpec, SavedIsSumOfRound
-----------------------------------------------------------------------------
(* Before it serves the scaler has no call, and has told KEDA nothing.     *)
LEMMA InitHolds == Init => IInv
<1> SUFFICES ASSUME Init PROVE IInv
  OBVIOUS
<1>1. PingerInv /\ PingerTypeOK
  BY PingerStarts DEF Init, PingerInv
<1> QED
  BY <1>1 DEF Init, IInv, TypeOK

(* The value of a metric is a natural number.                              *)
LEMMA MetricType ==
    ASSUME PingerTypeOK, NEW ref, NEW rate \in BOOLEAN
    PROVE  Metric(ref, rate) \in Nat
<1>1. \A h \in Hosts : allCounts[h].concurrency \in Nat /\ allCounts[h].rps \in Nat
  BY DEF PingerTypeOK, AllCounts
<1>2. CASE ref \notin Hosts
  <2> DEFINE f == [h \in Hosts |-> allCounts[h].concurrency]
  <2>1. DOMAIN f = Hosts /\ \A h \in Hosts : f[h] \in Nat
    BY <1>1
  <2>2. Metric(ref, rate) = SumFunction(f)
    BY <1>2 DEF Metric
  <2> HIDE DEF f
  <2>3. SumFunctionOnSet(f, Hosts) \in Nat
    BY <2>1, PingerAssumption, SumNat
  <2> QED
    BY <2>1, <2>2, <2>3 DEF SumFunction
<1>3. CASE ref \in Hosts
  BY <1>1, <1>3 DEF Metric
<1> QED
  BY <1>2, <1>3

(* A call goes from one of its states to another.                          *)
LEMMA CallType ==
    ASSUME TypeOK, NEW c \in Calls, CallStep(c)
    PROVE  call' \in [Calls -> {IdleCall} \cup StreamCalls \cup LookedCalls \cup ReadCalls]
<1> DEFINE T == {IdleCall} \cup StreamCalls \cup LookedCalls \cup ReadCalls
<1>0. call \in [Calls -> T] /\ call[c] \in T
  BY DEF TypeOK
<1>1. ASSUME NEW v \in T, call' = [call EXCEPT ![c] = v] PROVE call' \in [Calls -> T]
  BY <1>0, <1>1
<1>2. /\ call[c].phase = "looked" => call[c] \in LookedCalls
      /\ call[c].phase = "read" => call[c] \in ReadCalls
      /\ call[c].phase = "stream" => call[c] \in StreamCalls
  BY <1>0 DEF IdleCall, StreamCalls, LookedCalls, ReadCalls
<1>3. ASSUME NEW ref \in Refs, NEW stream \in BOOLEAN, Lookup(c, ref, stream)
      PROVE  call' \in [Calls -> T]
  <2> DEFINE v == [phase |-> "looked", ref |-> ref, stream |-> stream,
                   rate |-> ref \in Hosts /\ "rate" \in metric[ref]]
  <2>1. v \in LookedCalls
    BY DEF LookedCalls
  <2>2. call' = [call EXCEPT ![c] = v]
    BY <1>3, Zenon DEF Lookup
  <2> HIDE DEF v
  <2> QED
    BY <1>1, <2>1, <2>2
<1>4. CASE GetMetrics(c)
  BY <1>3, <1>4 DEF GetMetrics
<1>5. CASE StreamTick(c)
  <2>1. call[c].ref \in Refs
    BY <1>2, <1>5 DEF StreamTick, StreamCalls
  <2> QED
    BY <1>3, <1>5, <2>1 DEF StreamTick
<1>6. CASE ReadCounts(c)
  <2> DEFINE v == [phase |-> "read", ref |-> call[c].ref, stream |-> call[c].stream,
                   value |-> Metric(call[c].ref, call[c].rate)]
  <2>1. call[c].ref \in Refs /\ call[c].stream \in BOOLEAN /\ call[c].rate \in BOOLEAN
    BY <1>2, <1>6 DEF ReadCounts, LookedCalls
  <2>2. Metric(call[c].ref, call[c].rate) \in Nat
    BY <2>1, MetricType DEF TypeOK
  <2>3. v \in ReadCalls
    BY <2>1, <2>2 DEF ReadCalls
  <2>4. call' = [call EXCEPT ![c] = v]
    BY <1>6, Zenon DEF ReadCounts
  <2> HIDE DEF v
  <2> QED
    BY <1>1, <2>3, <2>4
<1>7. CASE Reply(c)
  <2> DEFINE v == IF call[c].stream THEN [phase |-> "stream", ref |-> call[c].ref] ELSE IdleCall
  <2>1. call[c].ref \in Refs
    BY <1>2, <1>7 DEF Reply, ReadCalls
  <2>2. v \in T
    BY <2>1 DEF StreamCalls
  <2>3. call' = [call EXCEPT ![c] = v]
    BY <1>7, Zenon DEF Reply
  <2> HIDE DEF v
  <2> QED
    BY <1>1, <2>2, <2>3
<1>8. CASE OpenStream(c)
  <2>1. PICK ref \in Refs : call' = [call EXCEPT ![c] = [phase |-> "stream", ref |-> ref]]
    BY <1>8 DEF OpenStream
  <2>2. [phase |-> "stream", ref |-> ref] \in StreamCalls
    BY DEF StreamCalls
  <2> QED
    BY <1>1, <2>1, <2>2
<1>9. CASE StreamEnds(c)
  BY <1>1, <1>9 DEF StreamEnds
<1> QED
  BY <1>4, <1>5, <1>6, <1>7, <1>8, <1>9 DEF CallStep

(* The steps of one call leave the others alone, and find no call to go on *)
(* with where there is none.                                               *)
LEMMA CallKeeps == ASSUME IInv, NEW c \in Calls, CallStep(c) PROVE IInv'
<1>1. UNCHANGED <<pingerVars, objectVars, serverVars>>
  BY DEF CallStep, GetMetrics, ReadCounts, Reply, OpenStream, StreamTick, StreamEnds, Lookup
<1>2. grpc \notin {"opening", "stopped"}
  <2>1. grpc = "serving" \/ call[c].phase \in {"looked", "read", "stream"}
    BY DEF CallStep, GetMetrics, ReadCounts, Reply, OpenStream, StreamTick, StreamEnds
  <2> QED
    BY <2>1 DEF IInv, IdleCall
<1>3. call' \in [Calls -> {IdleCall} \cup StreamCalls \cup LookedCalls \cup ReadCalls]
  BY CallType DEF IInv
<1>4. PingerInv' /\ PingerTypeOK'
  BY <1>1, PingerSame DEF IInv, PingerInv
<1>5. TypeOK'
  BY <1>1, <1>3, <1>4 DEF objectVars, serverVars, IInv, TypeOK
<1> QED
  BY <1>1, <1>2, <1>4, <1>5 DEF objectVars, serverVars, IInv, Target

(* The server opens and closes with no call under way.                     *)
LEMMA ServerKeeps == ASSUME IInv, ServerStep PROVE IInv'
<1>1. UNCHANGED <<call, objectVars>>
  BY DEF ServerStep, Listen, GracefulStop, ServeReturns, Exit
<1>2. grpc' \in {"opening", "stopped"} => \A c \in Calls : call[c] = IdleCall
  BY DEF ServerStep, Listen, GracefulStop, ServeReturns, Exit, IInv
<1>3. process' = "exited" => grpc' = "stopped"
  BY DEF ServerStep, Listen, GracefulStop, ServeReturns, Exit, IInv
<1>4. grpc' \in {"opening", "serving", "stopping", "stopped"} /\ process' \in {"running", "exited"}
  BY DEF ServerStep, Listen, GracefulStop, ServeReturns, Exit, IInv, TypeOK
<1>5. PingerInv' /\ PingerTypeOK'
  <2>1. CASE Listen
    <3>1. /\ UNCHANGED <<worldVars, loop, ticked, endpEvent, roundVars, savedVars, age>>
          /\ ctxDone' \in BOOLEAN
      BY <2>1 DEF Listen, IInv, TypeOK, PingerTypeOK
    <3>2. age' \in 0..AgeLimit
      BY <3>1 DEF IInv, TypeOK, PingerTypeOK
    <3> QED
      BY <3>1, <3>2, PingerRests DEF IInv, PingerInv
  <2>2. CASE GracefulStop \/ ServeReturns \/ Exit
    BY <2>2, PingerSame DEF GracefulStop, ServeReturns, Exit, IInv, PingerInv
  <2> QED
    BY <2>1, <2>2 DEF ServerStep
<1>6. TypeOK'
  BY <1>1, <1>4, <1>5 DEF objectVars, IInv, TypeOK
<1> QED
  BY <1>1, <1>2, <1>3, <1>5, <1>6 DEF objectVars, IInv, Target

(* What KEDA was told of an object is forgotten when the object changes.   *)
LEMMA ObjectKeeps ==
    ASSUME IInv, NEW h \in Hosts, ChangeMetric(h) \/ GetMetricSpec(h)
    PROVE  IInv'
<1>0. metric \in [Hosts -> Metrics] /\ told \in [Hosts -> SUBSET Kinds]
  BY DEF IInv, TypeOK
<1>1. UNCHANGED <<pingerVars, call, serverVars>>
  BY DEF ChangeMetric, GetMetricSpec
<1>2. Target(h) \in SUBSET Kinds
  BY DEF Target, Kinds
<1>3. metric' \in [Hosts -> Metrics] /\ told' \in [Hosts -> SUBSET Kinds]
  BY <1>0, <1>2 DEF ChangeMetric, GetMetricSpec, objectVars
<1>4. ASSUME NEW g \in Hosts PROVE told'[g] \in {{}, Target(g)'}
  <2>1. CASE ChangeMetric(h)
    BY <1>0, <2>1 DEF ChangeMetric, IInv, Target
  <2>2. CASE GetMetricSpec(h)
    BY <1>0, <2>2 DEF GetMetricSpec, IInv, Target
  <2> QED
    BY <2>1, <2>2
<1>5. PingerInv' /\ PingerTypeOK'
  BY <1>1, PingerSame DEF IInv, PingerInv
<1>6. TypeOK'
  BY <1>1, <1>3, <1>5 DEF serverVars, IInv, TypeOK
<1> QED
  BY <1>1, <1>4, <1>5, <1>6 DEF serverVars, IInv

(* Every step keeps the invariant.                                         *)
LEMMA InductiveStep == IInv /\ [Next]_vars => IInv'
<1>1. ASSUME IInv, PingerInv', UNCHANGED <<call, objectVars, serverVars>> PROVE IInv'
  <2>1. TypeOK'
    BY <1>1 DEF PingerInv, objectVars, serverVars, IInv, TypeOK
  <2> QED
    BY <1>1, <2>1 DEF objectVars, serverVars, IInv, Target
<1>2. ASSUME IInv, Pinger(PingerStep) PROVE IInv'
  BY <1>1, <1>2, PingerKeeps DEF Pinger, IInv
<1>3. ASSUME IInv, UNCHANGED vars PROVE IInv'
  BY <1>1, <1>3, PingerSame DEF vars, IInv
<1> QED
  BY <1>2, <1>3, CallKeeps, ServerKeeps, ObjectKeeps DEF Next

(* IInv: no call is open while the server does not serve (startGrpcServer). *)
THEOREM Invariance == Spec => []IInv
BY InitHolds, InductiveStep, PTL DEF Spec

(* TypeOK: counts, workers and statuses are what the pinger can hold, and  *)
(* the value of every call's metric is a natural number, also the one over *)
(* all apps (GetMetrics).                                                  *)
THEOREM TypeCorrect == Spec => []TypeOK
<1>1. IInv => TypeOK
  BY DEF IInv
<1> QED
  BY <1>1, Invariance, PTL

(* AnsweredBeforeExit: GracefulStop has answered every call when main      *)
(* returns.                                                                *)
THEOREM AnswersBeforeExit == Spec => []AnsweredBeforeExit
<1>1. IInv => AnsweredBeforeExit
  BY DEF IInv, AnsweredBeforeExit
<1> QED
  BY <1>1, Invariance, PTL

(* A call looks up the metric that Target says, and only a call that does  *)
(* gets to "looked".                                                       *)
LEMMA LookupFits == IInv /\ [Next]_vars => [LookupFitsTarget]_vars
<1> SUFFICES ASSUME IInv, Next, NEW c \in Calls,
                    call[c].phase \in {"idle", "stream"}, call'[c].phase = "looked",
                    NEW h \in Hosts, call'[c].ref = h, told[h] # {}
             PROVE  told[h] = (IF call'[c].rate THEN {"rate"} ELSE {"concurrency"})
  BY DEF LookupFitsTarget
<1>0. DOMAIN call = Calls
  BY DEF IInv, TypeOK
<1>1. UNCHANGED call \/ \E d \in Calls : CallStep(d)
  BY DEF Next, Pinger, ServerStep, Listen, GracefulStop, ServeReturns, Exit, ChangeMetric, GetMetricSpec
<1>2. PICK d \in Calls : CallStep(d)
  BY <1>1
<1>3. c = d
  <2>1. \E v : call' = [call EXCEPT ![d] = v]
    BY <1>2 DEF CallStep, GetMetrics, ReadCounts, Reply, OpenStream, StreamTick, StreamEnds, Lookup
  <2> QED
    BY <1>0, <2>1
<1>4. \E ref, stream : Lookup(c, ref, stream)
  <2>1. CASE GetMetrics(c)
    BY <2>1 DEF GetMetrics
  <2>2. CASE StreamTick(c)
    BY <2>2 DEF StreamTick
  <2>3. CASE ReadCounts(c) \/ Reply(c)
    BY <1>0, <2>3 DEF ReadCounts, Reply
  <2>4. CASE OpenStream(c) \/ StreamEnds(c)
    BY <1>0, <2>4 DEF OpenStream, StreamEnds, IdleCall
  <2> QED
    BY <1>2, <1>3, <2>1, <2>2, <2>3, <2>4 DEF CallStep
<1>5. call'[c].rate = (h \in Hosts /\ "rate" \in metric[h])
  BY <1>0, <1>4 DEF Lookup
<1> QED
  BY <1>5 DEF IInv, Target

(* ValueFitsTarget: GetMetrics and GetMetricSpec agree on the metric of an *)
(* object, also of one with both.                                          *)
THEOREM ValuesFitTargets == Spec => ValueFitsTarget
BY LookupFits, Invariance, PTL DEF Spec, ValueFitsTarget

(* A value read is the metric of the counts saved, which are the sum of    *)
(* the answers of a round; rounding a rate up keeps it above zero.         *)
LEMMA ReadFits == IInv /\ [Next]_vars => [ReadsActivity]_vars
<1> SUFFICES ASSUME IInv, Next, NEW c \in Calls,
                    call[c].phase = "looked", call'[c].phase = "read", call[c].ref \in Hosts
             PROVE  call'[c].value > 0 <=>
                      \E i \in DOMAIN basis :
                         LET count == basis[i][call[c].ref]
                         IN  IF call[c].rate THEN count.rps > 0 ELSE count.concurrency > 0
  BY DEF ReadsActivity
<1>0. DOMAIN call = Calls
  BY DEF IInv, TypeOK
<1>1. UNCHANGED call \/ \E d \in Calls : CallStep(d)
  BY DEF Next, Pinger, ServerStep, Listen, GracefulStop, ServeReturns, Exit, ChangeMetric, GetMetricSpec
<1>2. PICK d \in Calls : CallStep(d)
  BY <1>1
<1>3. c = d
  <2>1. \E v : call' = [call EXCEPT ![d] = v]
    BY <1>2 DEF CallStep, GetMetrics, ReadCounts, Reply, OpenStream, StreamTick, StreamEnds, Lookup
  <2> QED
    BY <1>0, <2>1
<1>4. ReadCounts(c)
  <2>1. CASE GetMetrics(c) \/ OpenStream(c) \/ StreamTick(c) \/ StreamEnds(c) \/ Reply(c)
    <3>1. call[c] = IdleCall \/ call[c].phase = "stream" \/ call[c].phase = "read"
      BY Zenon, <2>1 DEF GetMetrics, OpenStream, StreamTick, StreamEnds, Reply
    <3> QED
      BY <3>1 DEF IdleCall
  <2> QED
    BY <1>2, <1>3, <2>1 DEF CallStep
<1> DEFINE h == call[c].ref
<1>5. call'[c].value = Metric(h, call[c].rate)
  BY <1>0, <1>4 DEF ReadCounts
<1>6. /\ DOMAIN basis \in SUBSET Interceptors /\ \A i \in DOMAIN basis : basis[i] \in [Hosts -> Readings]
      /\ allCounts = SumOf(basis, DOMAIN basis)
      /\ allCounts[h].concurrency \in Nat /\ allCounts[h].rps \in Nat
  BY DEF IInv, PingerInv, PingerTypeOK, AllCounts
<1> HIDE DEF h
<1>7. /\ allCounts[h].concurrency > 0 <=> \E i \in DOMAIN basis : basis[i][h].concurrency > 0
      /\ allCounts[h].rps > 0 <=> \E i \in DOMAIN basis : basis[i][h].rps > 0
  BY <1>6, SumOfPositive DEF h
<1>8. CASE call[c].rate
  <2>1. call'[c].value = (allCounts[h].rps + 999) \div 1000
    BY <1>5, <1>8 DEF Metric, h
  <2>2. (allCounts[h].rps + 999) \div 1000 > 0 <=> allCounts[h].rps > 0
    BY <1>6
  <2> QED
    BY <1>7, <1>8, <2>1, <2>2 DEF h
<1>9. CASE ~call[c].rate
  <2>1. call'[c].value = allCounts[h].concurrency
    BY <1>5, <1>9 DEF Metric, h
  <2> QED
    BY <1>7, <1>9, <2>1 DEF h
<1> QED
  BY <1>8, <1>9

(* SlowRateIsActive: an app is told to be active just when an interceptor  *)
(* has answered with a request of it, however low its rate, whatever the   *)
(* others have answered (GetMetrics, IsActive).                            *)
THEOREM SlowRatesAreActive == Spec => SlowRateIsActive
BY ReadFits, Invariance, PTL DEF Spec, SlowRateIsActive
=============================================================================
