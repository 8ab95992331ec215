-------------------------- MODULE RequestsBuckets --------------------------
(***************************************************************************)
(* The ring of buckets behind an app's request rate                        *)
(* (pkg/queue/bucketing.go).                                               *)
(*                                                                         *)
(* Record is called for every request with the wall clock's time, which    *)
(* moves forward by any amount and may be set back.  Times and durations   *)
(* are in ticks, PerSecond to a second.  time.Truncate counts from the     *)
(* year 1 and Unix from 1970: Offset is the distance between the two,      *)
(* modulo the granularity (0 for every granularity that divides a day).    *)
(*                                                                         *)
(* log is the history the ring is compared with: the requests recorded,    *)
(* by the truncated time of each.                                          *)
(***************************************************************************)
EXTENDS Integers, FiniteSetsExt, Functions

CONSTANTS Window, Granularity, PerSecond, Offset,
          MaxTime,      \* bound on the clock
          MaxRecords    \* bound on the requests recorded

ASSUME BucketsAssumption ==
    /\ Window \in Nat \ {0} /\ Granularity \in Nat \ {0} /\ PerSecond \in Nat \ {0}
    /\ Offset \in 0..Granularity-1
    /\ MaxTime \in Nat /\ MaxRecords \in Nat

VARIABLES now, buckets, firstWrite, lastWrite, windowTotal,
          panicked,     \* the integer division in timeToIndex failed
          log

ring == <<buckets, firstWrite, lastWrite, windowTotal>>
vars == <<now, ring, panicked, log>>

(* The number of buckets, rounded up.                                      *)
NB == (Window + Granularity - 1) \div Granularity

(* The zero time.Time: further back than any window.                       *)
ZeroTime == -(Window + Granularity)

Truncate(t) == t - ((t + Offset) % Granularity)

(* The granularity in whole seconds, the divisor of timeToIndex.           *)
WholeSeconds == Granularity \div PerSecond

TimeToIndex(t) == (t \div PerSecond) \div WholeSeconds

Times == Granularity..MaxTime

TypeOK ==
    /\ now \in Times
    /\ buckets \in [0..NB-1 -> Nat]
    /\ {firstWrite, lastWrite} \subseteq {ZeroTime} \cup {Truncate(t) : t \in Times}
    /\ windowTotal \in Nat
    /\ panicked \in BOOLEAN
    /\ log \in [{Truncate(t) : t \in Times} -> 0..MaxRecords]

(* NewRequestsBuckets.                                                     *)
NewRequestsBuckets ==
    /\ buckets = [k \in 0..NB-1 |-> 0]
    /\ firstWrite = ZeroTime /\ lastWrite = ZeroTime
    /\ windowTotal = 0

Init ==
    /\ now \in Times
    /\ NewRequestsBuckets
    /\ panicked = FALSE
    /\ log = [t \in {Truncate(u) : u \in Times} |-> 0]
-----------------------------------------------------------------------------
(* Faulty variant: the slot written next is not counted as passed.         *)
SlotsTooFew(from, to) == {i % NB : i \in from+1..to-1}

(* The slots passed on the way from one index to a later one.              *)
Slots(from, to) == {i % NB : i \in from+1..to}

(* The ring after the time has moved on to bucketTime: everything is reset *)
(* after a window without writes, otherwise the slots passed are cleared.  *)
Advance(bucketTime, writeIdx) ==
    IF bucketTime - lastWrite >= Window
    THEN [buckets |-> [k \in 0..NB-1 |-> 0], total |-> 0]
    ELSE LET passed == Slots(TimeToIndex(lastWrite), writeIdx)
         IN  [buckets |-> [k \in 0..NB-1 |-> IF k \in passed THEN 0 ELSE buckets[k]],
              total |-> windowTotal - SumFunctionOnSet(buckets, passed)]

(* Faulty variant: an earlier write does not become the first.             *)
FirstWriteNeverBack(bucketTime) ==
    IF firstWrite = ZeroTime \/ bucketTime - lastWrite >= Window
    THEN bucketTime ELSE firstWrite

(* Faulty variant: the time is not truncated.                              *)
FirstWriteUntruncated(bucketTime) ==
    IF \/ firstWrite = ZeroTime
       \/ firstWrite > bucketTime
       \/ bucketTime - lastWrite >= Window
    THEN now ELSE firstWrite

(* The first write: of all, of those after a window without any, or the    *)
(* earliest when the clock was set back.                                   *)
FirstWrite(bucketTime) ==
    IF \/ firstWrite = ZeroTime
       \/ firstWrite > bucketTime
       \/ bucketTime - lastWrite >= Window
    THEN bucketTime ELSE firstWrite

(* Record.  A time a window or more before the last write is ignored; one  *)
(* before the last write goes to its bucket.                               *)
Record ==
    /\ ~panicked
    /\ SumFunction(log) < MaxRecords
    /\ log' = [log EXCEPT ![Truncate(now)] = @ + 1]
    /\ UNCHANGED now
    /\ IF WholeSeconds = 0
       THEN panicked' = TRUE /\ UNCHANGED ring
       ELSE LET bucketTime == Truncate(now)
                writeIdx == TimeToIndex(now)
                ignored == bucketTime # lastWrite /\ bucketTime + Window <= lastWrite
                ahead == bucketTime > lastWrite
                moved == IF ahead THEN Advance(bucketTime, writeIdx)
                         ELSE [buckets |-> buckets, total |-> windowTotal]
            IN  /\ UNCHANGED panicked
                /\ IF ignored THEN UNCHANGED ring
                   ELSE /\ buckets' = [moved.buckets EXCEPT ![writeIdx % NB] = @ + 1]
                        /\ windowTotal' = moved.total + 1
                        /\ firstWrite' = IF bucketTime = lastWrite THEN firstWrite
                                         ELSE FirstWrite(bucketTime)
                        /\ lastWrite' = IF ahead THEN bucketTime ELSE lastWrite

(* The wall clock moves on, or is set back.                                *)
SetClock ==
    /\ now' \in Times \ {now}
    /\ UNCHANGED <<ring, panicked, log>>

Next == Record \/ SetClock

Spec == Init /\ [][Next]_vars
-----------------------------------------------------------------------------
(* Faulty variant: the bucket of the last write is taken off too.          *)
WindowSumEarly(t) ==
    LET d == Truncate(t) - lastWrite
    IN  IF d <= 0 THEN windowTotal
        ELSE IF d >= Window THEN 0
        ELSE windowTotal - SumFunction([i \in TimeToIndex(lastWrite)..TimeToIndex(Truncate(t))
                                           |-> buckets[i % NB]])

(* The requests WindowAverage(t) averages.                                 *)
WindowSum(t) ==
    LET d == Truncate(t) - lastWrite
    IN  IF d <= 0 THEN windowTotal
        ELSE IF d >= Window THEN 0
        ELSE windowTotal - SumFunction([i \in TimeToIndex(lastWrite)+1..TimeToIndex(Truncate(t))
                                           |-> buckets[i % NB]])

(* The number of buckets it divides by.                                    *)
NumB == Min({(lastWrite - firstWrite) \div Granularity + 1, NB})

(* WindowAverage, in thousandths: roundToNDigits cuts the rest off.        *)
WindowAverage(t) == (WindowSum(t) * 1000) \div NumB
-----------------------------------------------------------------------------
(* The buckets of the window that ends with the time asked for, or with    *)
(* the last write when the clock lags behind it.                           *)
InWindow(t) ==
    LET end == Max({Truncate(t), lastWrite})
    IN  {b \in DOMAIN log : end - NB * Granularity < b /\ b <= end}

(* Whenever it is asked for, the average is taken of exactly the requests  *)
(* recorded in the window, however the clock jumped between the writes     *)
(* (Record, WindowAverage).                                                *)
WindowSumExact ==
    ~panicked => \A t \in Times :
      WindowSum(t) = SumFunctionOnSet(log, InWindow(t))

(* The average is never above the busiest bucket of the window: the number *)
(* of buckets it is divided by covers all of them (firstWrite).            *)
AverageWithinPeak ==
    ~panicked => \A t \in Times :
      WindowAverage(t) <= 1000 * Max({0} \cup {log[b] : b \in InWindow(t)})

(* A window without a write has average zero, also when old buckets still  *)
(* hold counts, and a window with one never has.                           *)
ZeroOnlyWhenQuiet ==
    ~panicked => \A t \in Times :
      WindowAverage(t) = 0 <=> \A b \in InWindow(t) : log[b] = 0
-----------------------------------------------------------------------------
(* The granularity is a number of whole seconds, and the seconds are       *)
(* counted from a multiple of it, as is so for the default of one second.  *)
Aligned == Offset = 0 /\ Granularity % PerSecond = 0

(* When the bucket with an index begins, and the requests recorded in it.  *)
BucketStart(j) == j * Granularity

Recorded == [j \in Int |-> IF BucketStart(j) \in DOMAIN log THEN log[BucketStart(j)] ELSE 0]

(* The indexes that have a slot of their own.                              *)
Kept == TimeToIndex(lastWrite)-NB+1..TimeToIndex(lastWrite)

(* The inductive invariant behind the three: the slots hold what was       *)
(* recorded in the window that ends with the last write, whatever stood in *)
(* them before; nothing was recorded later; and the first write is not     *)
(* after any request in the window.                                        *)
RingInv ==
    /\ TypeOK /\ windowTotal = SumFunction(buckets)
    /\ lastWrite = ZeroTime => firstWrite = ZeroTime /\ \A b \in DOMAIN log : log[b] = 0
    /\ lastWrite # ZeroTime =>
         /\ firstWrite # ZeroTime /\ firstWrite <= lastWrite
         /\ \A b \in DOMAIN log : b > lastWrite => log[b] = 0
         /\ \A j \in Kept : buckets[j % NB] = Recorded[j] /\ (Recorded[j] > 0 => firstWrite <= BucketStart(j))
=============================================================================
