----------------------- MODULE RequestsBucketsProofs -----------------------
(***************************************************************************)
(* Proofs about the ring of buckets: RequestsBuckets, for every window,    *)
(* granularity, clock and number of requests.                              *)
(***************************************************************************)
EXTENDS RequestsBuckets, SetTheorems

(* Euclid's division, of any integer by a positive one.                    *)
LEMMA DivMod ==
    ASSUME NEW t \in Int, NEW n \in Nat \ {0}
    PROVE  /\ t \div n \in Int /\ t % n \in 0..n-1
           /\ t = n * (t \div n) + (t % n)
OBVIOUS

(* A product with a positive factor is no smaller than that factor.        *)
LEMMA Multiple ==
    ASSUME NEW n \in Nat \ {0}, NEW a \in Int
    PROVE  /\ n * a \in Int
           /\ a >= 1 => n * a >= n
           /\ a <= -1 => n * a <= -n
OBVIOUS

(* Multiplication with a positive factor keeps the order.                  *)
LEMMA Scaled ==
    ASSUME NEW n \in Nat \ {0}, NEW a \in Int, NEW b \in Int
    PROVE  /\ n * a \in Int /\ n * b \in Int
           /\ n * a - n * b = n * (a - b)
           /\ n * a <= n * b <=> a <= b
           /\ n * a = n * b <=> a = b
<1>1. n * a - n * b = n * (a - b) /\ n * a \in Int /\ n * b \in Int
  OBVIOUS
<1>2. /\ a - b \in Int /\ n * (a - b) \in Int
      /\ a - b >= 1 => n * (a - b) >= n
      /\ a - b <= -1 => n * (a - b) <= -n
  BY Multiple
<1>3. a - b = 0 => n * (a - b) = 0
  OBVIOUS
<1> QED
  BY <1>1, <1>2, <1>3

(* Quotient and remainder are the only ones.                               *)
LEMMA DivUnique ==
    ASSUME NEW n \in Nat \ {0}, NEW q \in Int, NEW r \in 0..n-1
    PROVE  (n * q + r) \div n = q /\ (n * q + r) % n = r
<1> DEFINE t == n * q + r
           p == t \div n
<1>1. t \in Int /\ p \in Int /\ t % n \in 0..n-1 /\ t = n * p + (t % n)
  <2>1. t \in Int
    OBVIOUS
  <2> HIDE DEF t
  <2> QED
    BY <2>1, DivMod
<1>2. n * q - n * p = n * (q - p) /\ n * p \in Int /\ n * q \in Int
  BY <1>1, Scaled
<1>3. /\ q - p \in Int /\ n * (q - p) \in Int
      /\ q - p >= 1 => n * (q - p) >= n
      /\ q - p <= -1 => n * (q - p) <= -n
  BY <1>1, Multiple
<1>4. n * (q - p) = (t % n) - r
  BY <1>1, <1>2
<1>5. q - p = 0
  BY <1>1, <1>3, <1>4
<1>6. q = p
  BY <1>1, <1>5
<1> QED
  BY <1>1, <1>6

(* The indexes that share a slot of the ring are a multiple of its size    *)
(* apart, so none of the size's many consecutive ones do.                  *)
LEMMA Slot ==
    ASSUME NEW n \in Nat \ {0}, NEW i \in Int, NEW j \in Int
    PROVE  /\ (j - n) % n = j % n
           /\ i % n = j % n /\ i - j < n /\ j - i < n => i = j
<1> DEFINE p == i \div n
           q == j \div n
<1>1. /\ p \in Int /\ i % n \in 0..n-1 /\ i = n * p + (i % n)
      /\ q \in Int /\ j % n \in 0..n-1 /\ j = n * q + (j % n)
  BY DivMod
<1>2. (j - n) % n = j % n
  <2>1. j - n = n * (q - 1) + (j % n)
    BY <1>1
  <2>2. q - 1 \in Int
    BY <1>1
  <2> HIDE DEF q
  <2>3. (n * (q - 1) + (j % n)) % n = j % n
    BY <1>1, <2>2, DivUnique
  <2> QED
    BY <2>1, <2>3
<1>3. n * p - n * q = n * (p - q) /\ n * p \in Int /\ n * q \in Int
  BY <1>1, Scaled
<1>4. /\ p - q \in Int /\ n * (p - q) \in Int
      /\ p - q >= 1 => n * (p - q) >= n
      /\ p - q <= -1 => n * (p - q) <= -n
  BY <1>1, Multiple
<1>5. i % n = j % n /\ i - j < n /\ j - i < n => p - q = 0
  BY <1>1, <1>3, <1>4
<1>6. p - q = 0 => p = q
  BY <1>1
<1> QED
  BY <1>1, <1>2, <1>5, <1>6
-----------------------------------------------------------------------------
(* The ring has at least one bucket, and its slots are the remainders.     *)
LEMMA NBPositive ==
    /\ NB \in Nat \ {0}
    /\ Granularity * NB >= Window
    /\ Granularity * NB <= Window + Granularity - 1
    /\ \A i \in Int : i % NB \in 0..NB-1
<1>1. /\ NB \in Int
      /\ (Window + Granularity - 1) % Granularity \in 0..Granularity-1
      /\ Window + Granularity - 1 = Granularity * NB + ((Window + Granularity - 1) % Granularity)
  <2> DEFINE t == Window + Granularity - 1
  <2>1. t \in Int
    BY BucketsAssumption
  <2>2. /\ t \div Granularity \in Int /\ t % Granularity \in 0..Granularity-1
        /\ t = Granularity * (t \div Granularity) + (t % Granularity)
    <3> HIDE DEF t
    <3> QED
      BY <2>1, BucketsAssumption, DivMod
  <2>3. NB = t \div Granularity
    BY DEF NB
  <2> QED
    BY <2>2, <2>3
<1>2. Granularity * NB \in Int
  BY <1>1, BucketsAssumption
<1> DEFINE rest == (Window + Granularity - 1) % Granularity
           whole == Granularity * NB
<1>3. whole >= Window /\ whole <= Window + Granularity - 1
  <2> HIDE DEF rest, whole
  <2> QED
    BY <1>1, <1>2, BucketsAssumption DEF rest, whole
<1>4. NB >= 1
  <2>1. NB <= 0 => Granularity * NB <= 0
    <3> HIDE DEF NB
    <3>1. NB = 0 => Granularity * NB = 0
      BY BucketsAssumption
    <3> QED
      BY <3>1, <1>1, Multiple, BucketsAssumption
  <2> QED
    BY <1>1, <1>3, <2>1, BucketsAssumption
<1>5. NB \in Nat \ {0}
  BY <1>1, <1>4
<1>6. \A i \in Int : i % NB \in 0..NB-1
  BY <1>5, DivMod
<1> QED
  BY <1>3, <1>5, <1>6

(* The buckets of the ring and the buckets of time are finite sets.        *)
LEMMA Finite ==
    /\ IsFiniteSet(0..NB-1)
    /\ IsFiniteSet(Times) /\ IsFiniteSet({Truncate(t) : t \in Times})
<1>1. IsFiniteSet(0..NB-1) /\ IsFiniteSet(Times)
  BY NBPositive, BucketsAssumption, FS_Interval DEF Times
<1> DEFINE b == [t \in Times |-> Truncate(t)]
<1>2. {b[t] : t \in Times} = {Truncate(t) : t \in Times}
  OBVIOUS
<1>3. IsFiniteSet({b[t] : t \in Times})
  BY <1>1, ImageFinite
<1> QED
  BY <1>1, <1>2, <1>3

(* What Record reckons with: the bucket's time and index, an integer each. *)
LEMMA Reckoned ==
    ASSUME NEW t \in Times
    PROVE  /\ t \in Nat /\ t >= Granularity
           /\ Truncate(t) \in Int /\ Truncate(t) > 0 /\ Truncate(t) <= t
<1>1. t \in Nat /\ t >= Granularity
  BY BucketsAssumption DEF Times
<1>2. (t + Offset) % Granularity \in 0..Granularity-1
  BY <1>1, BucketsAssumption, DivMod
<1> QED
  BY <1>1, <1>2, BucketsAssumption DEF Truncate

(* An index is an integer, whether it is of a time or of the zero time.    *)
LEMMA IndexInt ==
    ASSUME WholeSeconds # 0, NEW t \in Int
    PROVE  TimeToIndex(t) \in Int
<1>1. t \div PerSecond \in Int
  BY BucketsAssumption, DivMod
<1>2. WholeSeconds \in Nat \ {0}
  <2>1. /\ WholeSeconds \in Int /\ Granularity % PerSecond \in 0..PerSecond-1
        /\ Granularity = PerSecond * WholeSeconds + (Granularity % PerSecond)
    BY BucketsAssumption, DivMod DEF WholeSeconds
  <2>2. WholeSeconds <= -1 => PerSecond * WholeSeconds <= -PerSecond
    BY <2>1, BucketsAssumption, Multiple
  <2>3. PerSecond * WholeSeconds \in Int
    BY <2>1, BucketsAssumption
  <2> DEFINE x == PerSecond * WholeSeconds
             y == Granularity % PerSecond
  <2> HIDE DEF x, y
  <2> QED
    BY <2>1, <2>2, <2>3, BucketsAssumption DEF x, y
<1> QED
  BY <1>1, <1>2, DivMod DEF TimeToIndex

(* The times kept in the ring are integers.                                *)
LEMMA WritesInt ==
    ASSUME TypeOK
    PROVE  firstWrite \in Int /\ lastWrite \in Int
<1>1. ZeroTime \in Int
  BY BucketsAssumption DEF ZeroTime
<1>2. \A t \in Times : Truncate(t) \in Int
  BY Reckoned
<1> QED
  BY <1>1, <1>2 DEF TypeOK

(* The slots passed are slots of the ring.                                 *)
LEMMA SlotsInRing ==
    ASSUME NEW i \in Int, NEW j \in Int
    PROVE  Slots(i, j) \subseteq 0..NB-1
<1>1. \A k \in i+1..j : k \in Int
  OBVIOUS
<1> QED
  BY <1>1, NBPositive DEF Slots

(* Moving on keeps the total of the buckets: what is taken off it is what  *)
(* the cleared buckets held (Record).                                      *)
LEMMA AdvanceSum ==
    ASSUME TypeOK, windowTotal = SumFunction(buckets), WholeSeconds # 0,
           NEW bucketTime \in Int, NEW writeIdx \in Int
    PROVE  /\ Advance(bucketTime, writeIdx).buckets \in [0..NB-1 -> Nat]
           /\ Advance(bucketTime, writeIdx).total
                = SumFunction(Advance(bucketTime, writeIdx).buckets)
<1> DEFINE S == 0..NB-1
<1>1. IsFiniteSet(S) /\ buckets \in [S -> Nat] /\ windowTotal = SumFunctionOnSet(buckets, S)
  BY Finite DEF TypeOK, SumFunction
<1>2. CASE bucketTime - lastWrite >= Window
  <2> DEFINE g == [k \in S |-> 0]
  <2>1. g \in [S -> Nat] /\ DOMAIN g = S /\ \A k \in S : g[k] = 0
    OBVIOUS
  <2>2. Advance(bucketTime, writeIdx).buckets = g /\ Advance(bucketTime, writeIdx).total = 0
    BY <1>2 DEF Advance
  <2>3. SumFunctionOnSet(g, S) = 0
    <3> HIDE DEF g, S
    <3> QED
      BY <1>1, <2>1, SumNat
  <2> QED
    BY <2>1, <2>2, <2>3 DEF SumFunction
<1>3. CASE ~(bucketTime - lastWrite >= Window)
  <2> DEFINE A == Slots(TimeToIndex(lastWrite), writeIdx)
             g == [k \in S |-> IF k \in A THEN 0 ELSE buckets[k]]
  <2>1. A \in SUBSET S
    BY WritesInt, IndexInt, SlotsInRing
  <2>2. /\ g \in [S -> Nat] /\ DOMAIN g = S
        /\ \A k \in A : k \in S => g[k] = 0
        /\ \A k \in S \ A : g[k] = buckets[k]
    BY <1>1
  <2>3. /\ Advance(bucketTime, writeIdx).buckets = g
        /\ Advance(bucketTime, writeIdx).total = windowTotal - SumFunctionOnSet(buckets, A)
    BY <1>3 DEF Advance
  <2> HIDE DEF g, A, S
  <2>4. IsFiniteSet(A) /\ IsFiniteSet(S \ A)
    BY <1>1, <2>1, FS_Subset
  <2>5. SumFunctionOnSet(g, S) = SumFunctionOnSet(g, A) + SumFunctionOnSet(g, S \ A)
    BY <1>1, <2>1, <2>2, SumDisjoint
  <2>6. SumFunctionOnSet(buckets, S)
          = SumFunctionOnSet(buckets, A) + SumFunctionOnSet(buckets, S \ A)
    BY <1>1, <2>1, SumDisjoint
  <2>7. SumFunctionOnSet(g, A) = 0
    BY <2>1, <2>2, <2>4, SumNat
  <2>8. SumFunctionOnSet(g, S \ A) = SumFunctionOnSet(buckets, S \ A)
    BY <2>2, <2>4, SumEqual
  <2>9. SumFunctionOnSet(buckets, A) \in Int /\ SumFunctionOnSet(buckets, S \ A) \in Int
    BY <1>1, <2>1, <2>4, SumInt
  <2>10. windowTotal - SumFunctionOnSet(buckets, A) = SumFunctionOnSet(g, S)
    BY <1>1, <2>5, <2>6, <2>7, <2>8, <2>9
  <2> QED
    BY <2>2, <2>3, <2>10 DEF SumFunction, S
<1> QED
  BY <1>2, <1>3

(* The buckets Record counts the request in, and their total: those of the *)
(* ring, or what moving on leaves of them.                                 *)
MovedBuckets(bucketTime, writeIdx) ==
    IF bucketTime > lastWrite THEN Advance(bucketTime, writeIdx).buckets ELSE buckets

MovedTotal(bucketTime, writeIdx) ==
    IF bucketTime > lastWrite THEN Advance(bucketTime, writeIdx).total ELSE windowTotal

Ignored(bucketTime) == bucketTime # lastWrite /\ bucketTime + Window <= lastWrite

(* Record, taken apart.                                                    *)
LEMMA RecordParts ==
    ASSUME Record, WholeSeconds # 0
    PROVE  LET bucketTime == Truncate(now)
               writeIdx == TimeToIndex(now)
           IN  /\ UNCHANGED panicked
               /\ Ignored(bucketTime) => UNCHANGED ring
               /\ ~Ignored(bucketTime) =>
                    /\ buckets' = [MovedBuckets(bucketTime, writeIdx)
                                     EXCEPT ![writeIdx % NB] = @ + 1]
                    /\ windowTotal' = MovedTotal(bucketTime, writeIdx) + 1
                    /\ firstWrite' = IF bucketTime = lastWrite THEN firstWrite
                                     ELSE FirstWrite(bucketTime)
                    /\ lastWrite' = IF bucketTime > lastWrite THEN bucketTime ELSE lastWrite
<1> USE DEF Record, MovedBuckets, MovedTotal, Ignored
<1>1. CASE Truncate(now) > lastWrite
  BY <1>1, Zenon
<1>2. CASE ~(Truncate(now) > lastWrite)
  BY <1>2, Zenon
<1> QED
  BY <1>1, <1>2

(* What a request adds to the log.                                         *)
LEMMA RecordLog ==
    ASSUME TypeOK, Record
    PROVE  /\ log' \in [{Truncate(t) : t \in Times} -> 0..MaxRecords]
           /\ DOMAIN log' = DOMAIN log
           /\ Truncate(now) \in DOMAIN log
           /\ log'[Truncate(now)] = log[Truncate(now)] + 1
           /\ \A b \in DOMAIN log : b # Truncate(now) => log'[b] = log[b]
<1> DEFINE T == {Truncate(t) : t \in Times}
           b == Truncate(now)
<1>1. log \in [T -> 0..MaxRecords] /\ b \in T
  BY DEF TypeOK
<1>2. IsFiniteSet(T)
  BY Finite
<1>3. SumFunctionOnSet(log, T) < MaxRecords /\ log' = [log EXCEPT ![b] = @ + 1]
  BY <1>1 DEF Record, SumFunction
<1> HIDE DEF T, b
<1>4. log[b] <= SumFunctionOnSet(log, T) /\ SumFunctionOnSet(log, T) \in Nat
  BY <1>1, <1>2, SumNat, BucketsAssumption
<1>5. log[b] + 1 \in 0..MaxRecords
  BY <1>1, <1>3, <1>4, BucketsAssumption
<1> QED
  BY <1>1, <1>3, <1>5 DEF T, b

(* With the total of the buckets the type invariant is inductive.          *)
TotalInv == TypeOK /\ windowTotal = SumFunction(buckets)

(* NewRequestsBuckets makes a ring with nothing in it.                     *)
LEMMA TotalInit == ASSUME Init PROVE TotalInv
<1>1. BucketsAssumption
  BY BucketsAssumption
<1>2. /\ log \in [{Truncate(t) : t \in Times} -> 0..MaxRecords]
      /\ buckets \in [0..NB-1 -> Nat] /\ \A k \in 0..NB-1 : buckets[k] = 0
  BY BucketsAssumption DEF Init, NewRequestsBuckets
<1>3. SumFunctionOnSet(buckets, 0..NB-1) = 0
  BY <1>2, Finite, SumNat
<1> QED
  BY <1>2, <1>3 DEF Init, NewRequestsBuckets, TotalInv, TypeOK, SumFunction

(* What Record counts the request in has its total with it.                *)
LEMMA MovedSum ==
    ASSUME TotalInv, WholeSeconds # 0, NEW b \in Int, NEW w \in Int
    PROVE  /\ MovedBuckets(b, w) \in [0..NB-1 -> Nat]
           /\ MovedTotal(b, w) = SumFunction(MovedBuckets(b, w))
<1>1. CASE b > lastWrite
  BY <1>1, AdvanceSum DEF MovedBuckets, MovedTotal, TotalInv
<1>2. CASE ~(b > lastWrite)
  BY <1>2 DEF MovedBuckets, MovedTotal, TotalInv, TypeOK
<1> QED
  BY <1>1, <1>2

(* A request adds one to a bucket and to the total.                        *)
LEMMA TotalRecord == ASSUME TotalInv, Record PROVE TotalInv'
<1> DEFINE S == 0..NB-1
           b == Truncate(now)
           w == TimeToIndex(now)
<1>0. TypeOK /\ windowTotal = SumFunction(buckets)
  BY DEF TotalInv
<1>1. now' \in Times /\ log' \in [{Truncate(t) : t \in Times} -> 0..MaxRecords]
  BY <1>0, RecordLog DEF Record, TypeOK
<1>2. CASE WholeSeconds = 0
  BY <1>0, <1>1, <1>2 DEF Record, ring, TotalInv, TypeOK
<1>3. CASE WholeSeconds # 0
  <2>1. /\ UNCHANGED panicked
        /\ Ignored(b) => UNCHANGED ring
        /\ ~Ignored(b) =>
             /\ buckets' = [MovedBuckets(b, w) EXCEPT ![w % NB] = @ + 1]
             /\ windowTotal' = MovedTotal(b, w) + 1
             /\ firstWrite' \in {b, firstWrite}
             /\ lastWrite' \in {b, lastWrite}
    BY <1>3, RecordParts DEF FirstWrite
  <2>2. CASE Ignored(b)
    BY <1>0, <1>1, <2>1, <2>2 DEF ring, TotalInv, TypeOK
  <2>3. CASE ~Ignored(b)
    <3>1. now \in Times /\ b \in Int /\ w \in Int /\ w % NB \in S
      <4>1. now \in Times /\ now \in Int /\ b \in Int
        BY <1>0, Reckoned DEF TypeOK
      <4>2. w \in Int
        BY <1>3, <4>1, IndexInt
      <4> HIDE DEF w
      <4> QED
        BY <4>1, <4>2, NBPositive
    <3>2. MovedBuckets(b, w) \in [S -> Nat] /\ MovedTotal(b, w) = SumFunction(MovedBuckets(b, w))
      BY <1>3, <3>1, MovedSum
    <3> DEFINE g == MovedBuckets(b, w)
               k == w % NB
    <3>3. /\ g \in [S -> Nat] /\ k \in S /\ IsFiniteSet(S)
          /\ buckets' = [g EXCEPT ![k] = @ + 1]
          /\ windowTotal' = SumFunctionOnSet(g, S) + 1
      BY <2>1, <2>3, <3>1, <3>2, Finite DEF SumFunction
    <3> HIDE DEF g, k, S
    <3>4. buckets' \in [S -> Nat] /\ SumFunctionOnSet(g, S) \in Nat
      BY <3>3, SumNat
    <3>5. windowTotal' = SumFunctionOnSet(buckets', S)
      <4>1. S \subseteq DOMAIN g /\ \A y \in S : g[y] \in Int
        BY <3>3
      <4> QED
        BY <4>1, <3>3, SumUpdated
    <3>6. windowTotal' \in Nat /\ windowTotal' = SumFunction(buckets')
      BY <3>3, <3>4, <3>5 DEF SumFunction
    <3>7. {firstWrite', lastWrite'} \subseteq {ZeroTime} \cup {Truncate(t) : t \in Times}
      BY <1>0, <2>1, <2>3, <3>1 DEF TypeOK
    <3> QED
      BY <1>0, <1>1, <2>1, <3>4, <3>6, <3>7 DEF TotalInv, TypeOK, S
  <2> QED
    BY <2>2, <2>3
<1> QED
  BY <1>2, <1>3

(* So does every step, the clock's included, keep the invariant.           *)
LEMMA TotalNext == ASSUME TotalInv, [Next]_vars PROVE TotalInv'
<1>1. CASE Record
  BY <1>1, TotalRecord
<1>2. CASE SetClock
  BY <1>2 DEF SetClock, ring, TotalInv, TypeOK
<1>3. CASE UNCHANGED vars
  BY <1>3 DEF vars, ring, TotalInv, TypeOK
<1> QED
  BY <1>1, <1>2, <1>3 DEF Next

(* Whatever the clock does, the counts stay natural numbers, the window's  *)
(* total is never taken below zero, and every index is one of the ring     *)
(* (Record).                                                               *)
THEOREM TypeCorrect == Spec => []TypeOK
<1>1. TotalInv => TypeOK
  BY DEF TotalInv
<1> QED
  BY <1>1, TotalInit, TotalNext, PTL DEF Spec
-----------------------------------------------------------------------------
(* With an aligned granularity, time is reckoned in buckets: the index     *)
(* timeToIndex gives a time is that of the bucket Truncate takes it to.    *)
LEMMA IndexOf ==
    ASSUME Aligned, NEW j \in Int, NEW r \in 0..Granularity-1
    PROVE  /\ WholeSeconds # 0
           /\ BucketStart(j) \in Int
           /\ TimeToIndex(BucketStart(j) + r) = j
           /\ Truncate(BucketStart(j) + r) = BucketStart(j)
<1> DEFINE G == Granularity
           P == PerSecond
           W == WholeSeconds
           t == G * j + r
           u == W * j + (r \div P)
<1>0. G \in Nat \ {0} /\ P \in Nat \ {0} /\ Offset = 0
  BY BucketsAssumption DEF Aligned
<1>1. BucketStart(j) = G * j /\ BucketStart(j) \in Int /\ BucketStart(j) + r = t /\ t \in Int
  BY <1>0 DEF BucketStart
<1>2. W \in Int /\ G = P * W
  BY <1>0, DivMod DEF WholeSeconds, Aligned
<1>3. W \in Nat \ {0}
  <2>1. W <= -1 => P * W <= -P
    BY <1>0, <1>2, Multiple
  <2>2. W = 0 => P * W = 0
    BY <1>0
  <2> HIDE DEF W
  <2> QED
    BY <1>0, <1>2, <2>1, <2>2
<1>4. r \div P \in Int /\ r % P \in 0..P-1 /\ r = P * (r \div P) + (r % P)
  BY <1>0, DivMod
<1>5. r \div P \in 0..W-1
  <2> DEFINE q == r \div P
             m == r % P
  <2>1. q <= -1 => P * q <= -P
    BY <1>0, <1>4, Multiple
  <2>2. q >= W => P * q >= P * W
    BY <1>0, <1>3, <1>4, Scaled
  <2>3. P * q \in Int
    BY <1>0, <1>4
  <2>4. P * q + m <= P * W - 1 /\ P * q + m >= 0
    BY <1>0, <1>2, <1>4
  <2> HIDE DEF q, m, W, G, P
  <2> QED
    BY <1>0, <1>2, <1>3, <1>4, <2>1, <2>2, <2>3, <2>4 DEF q, m
<1>6. t \div P = u
  <2>1. t = P * u + (r % P) /\ u \in Int
    <3> DEFINE q == r \div P
               m == r % P
    <3>0. q \in Int /\ m \in Int /\ r = P * q + m /\ G = P * W /\ P \in Int /\ W \in Int /\ u = W * j + q
      BY <1>0, <1>2, <1>4
    <3> HIDE DEF q, m, W, P, G, u
    <3>1. u \in Int /\ P * u = (P * W) * j + P * q /\ P * q \in Int /\ G * j = (P * W) * j /\ G * j \in Int
      BY <3>0
    <3>2. t = P * u + m
      BY <3>0, <3>1
    <3> QED
      BY <3>1, <3>2 DEF m
  <2> HIDE DEF u, t
  <2> QED
    BY <1>0, <1>4, <2>1, DivUnique
<1>7. u \div W = j
  <2> HIDE DEF W
  <2> QED
    BY <1>3, <1>5, DivUnique
<1>8. TimeToIndex(t) = j
  BY <1>6, <1>7 DEF TimeToIndex
<1>9. Truncate(t) = G * j
  <2>1. t % G = r
    BY <1>0, DivUnique
  <2> HIDE DEF t
  <2>2. Truncate(t) = t - r
    BY <1>0, <1>1, <2>1 DEF Truncate
  <2> QED
    BY <1>0, <1>1, <2>2 DEF t
<1> QED
  BY <1>1, <1>3, <1>8, <1>9

(* A time, its bucket and its index.                                       *)
LEMMA TimeIndex ==
    ASSUME Aligned, NEW t \in Times
    PROVE  /\ TimeToIndex(t) \in Int
           /\ Truncate(t) = BucketStart(TimeToIndex(t))
           /\ TimeToIndex(Truncate(t)) = TimeToIndex(t)
<1> DEFINE j == t \div Granularity
           r == t % Granularity
<1>1. t \in Int /\ Granularity \in Nat \ {0}
  BY Reckoned, BucketsAssumption
<1>2. j \in Int /\ r \in 0..Granularity-1 /\ t = Granularity * j + r
  BY <1>1, DivMod
<1> HIDE DEF j, r
<1>3. BucketStart(j) + r = t /\ BucketStart(j) + 0 = BucketStart(j) /\ 0 \in 0..Granularity-1
  BY <1>1, <1>2 DEF BucketStart
<1>4. TimeToIndex(t) = j /\ Truncate(t) = BucketStart(j)
  BY <1>2, <1>3, IndexOf
<1>5. TimeToIndex(BucketStart(j)) = j
  BY <1>2, <1>3, IndexOf
<1> QED
  BY <1>2, <1>4, <1>5

(* The buckets' times are ordered as their indexes, and are a window apart *)
(* when the indexes are a ring apart.                                      *)
LEMMA InBuckets ==
    ASSUME NEW i \in Int, NEW j \in Int
    PROVE  /\ BucketStart(i) \in Int /\ BucketStart(j) \in Int
           /\ BucketStart(i) <= BucketStart(j) <=> i <= j
           /\ BucketStart(i) = BucketStart(j) <=> i = j
           /\ BucketStart(i) - BucketStart(j) >= Window <=> i - j >= NB
           /\ (BucketStart(i) - BucketStart(j)) \div Granularity = i - j
           /\ BucketStart(i) - NB * Granularity = BucketStart(i - NB)
<1> DEFINE G == Granularity
           n == i - j
<1>0. G \in Nat \ {0} /\ NB \in Nat \ {0} /\ n \in Int /\ Window \in Nat \ {0}
  BY BucketsAssumption, NBPositive
<1>1. BucketStart(i) = G * i /\ BucketStart(j) = G * j
  BY <1>0 DEF BucketStart
<1>2. /\ G * i \in Int /\ G * j \in Int
      /\ G * i - G * j = G * n
      /\ G * i <= G * j <=> i <= j
      /\ G * i = G * j <=> i = j
  BY <1>0, Scaled
<1>3. G * n >= Window <=> n >= NB
  <2>1. n >= NB => G * n >= G * NB
    BY <1>0, Scaled
  <2>2. G * NB >= Window /\ G * NB <= Window + G - 1
    BY NBPositive
  <2>3. n <= NB - 1 => G * n <= G * (NB - 1)
    <3>1. NB - 1 \in Int
      BY <1>0
    <3> DEFINE m == NB - 1
    <3> HIDE DEF m, n, G
    <3>2. n <= m => G * n <= G * m
      BY <1>0, <3>1, Scaled DEF m
    <3> QED
      BY <3>2 DEF m
  <2>4. G * (NB - 1) = G * NB - G /\ G * NB \in Int /\ G * n \in Int
    <3> HIDE DEF NB, n, G
    <3> QED
      BY <1>0
  <2> DEFINE x == G * NB
             y == G * n
  <2>5. x \in Int /\ y \in Int /\ (n >= NB => y >= x) /\ (n <= NB - 1 => y <= x - G)
    BY <2>1, <2>3, <2>4
  <2>6. x >= Window /\ x <= Window + G - 1
    BY <2>2
  <2> HIDE DEF x, y, n, G, NB
  <2>7. y >= Window <=> n >= NB
    BY <1>0, <2>5, <2>6
  <2> QED
    BY <2>7 DEF y
<1>4. (G * n) \div G = n
  <2>1. G * n + 0 = G * n /\ 0 \in 0..G-1
    BY <1>0
  <2> HIDE DEF n, G
  <2> QED
    BY <1>0, <2>1, DivUnique
<1>5. G * i - NB * G = (i - NB) * G
  <2> HIDE DEF NB
  <2> QED
    BY <1>0
<1> QED
  BY <1>1, <1>2, <1>3, <1>4, <1>5 DEF BucketStart
-----------------------------------------------------------------------------
(* Slots that hold the counts of the ring's many indexes up to end.        *)
Holds(slots, count, end) == \A j \in end-NB+1..end : slots[j % NB] = count[j]

(* Two of these indexes have different slots.                              *)
LEMMA OwnSlot ==
    ASSUME NEW end \in Int, NEW i \in end-NB+1..end, NEW j \in end-NB+1..end, i % NB = j % NB
    PROVE  i = j
<1>1. i \in Int /\ j \in Int /\ NB \in Nat \ {0} /\ i - j < NB /\ j - i < NB
  BY NBPositive
<1> HIDE DEF NB
<1> QED
  BY <1>1, Slot

(* Counting one more request in a slot.                                    *)
LEMMA HoldsCounted ==
    ASSUME NEW g \in [0..NB-1 -> Nat], NEW r, NEW s, NEW end \in Int, NEW i \in end-NB+1..end,
           Holds(g, r, end), s[i] = r[i] + 1, \A j \in Int : j # i => s[j] = r[j]
    PROVE  Holds([g EXCEPT ![i % NB] = @ + 1], s, end)
<1>0. \A j \in end-NB+1..end : j \in Int
  BY NBPositive
<1>1. \A j \in end-NB+1..end : j \in Int /\ j % NB \in 0..NB-1 /\ g[j % NB] = r[j]
  <2> HIDE DEF NB
  <2> QED
    BY <1>0, NBPositive DEF Holds
<1>2. \A j \in end-NB+1..end : j % NB = i % NB => j = i
  BY OwnSlot
<1> HIDE DEF NB
<1>3. SUFFICES ASSUME NEW j \in end-NB+1..end
               PROVE  [g EXCEPT ![i % NB] = @ + 1][j % NB] = s[j]
  BY DEF Holds
<1>4. CASE j = i
  BY <1>1, <1>4
<1>5. CASE j # i
  BY <1>1, <1>2, <1>5
<1> QED
  BY <1>4, <1>5

(* What was recorded in a bucket is a number, and only the bucket of the   *)
(* clock's time gets more.                                                 *)
LEMMA RecordedNat ==
    ASSUME TypeOK
    PROVE  \A j \in Int : Recorded[j] \in Nat /\ (BucketStart(j) \notin DOMAIN log => Recorded[j] = 0)
BY BucketsAssumption DEF TypeOK, Recorded

(* A request adds one to what was recorded at the clock's index.           *)
LEMMA RecordedStep ==
    ASSUME Aligned, TypeOK, Record
    PROVE  /\ TimeToIndex(now) \in Int
           /\ Recorded'[TimeToIndex(now)] = Recorded[TimeToIndex(now)] + 1
           /\ \A j \in Int : j # TimeToIndex(now) => Recorded'[j] = Recorded[j]
<1> DEFINE i == TimeToIndex(now)
<1>1. i \in Int /\ Truncate(now) = BucketStart(i)
  BY TimeIndex DEF TypeOK
<1>2. /\ DOMAIN log' = DOMAIN log /\ BucketStart(i) \in DOMAIN log
      /\ log'[BucketStart(i)] = log[BucketStart(i)] + 1
      /\ \A b \in DOMAIN log : b # BucketStart(i) => log'[b] = log[b]
  BY <1>1, RecordLog
<1>3. \A j \in Int : BucketStart(j) = BucketStart(i) => j = i
  BY <1>1, InBuckets
<1>4. \A j \in Int : Recorded[j] = IF BucketStart(j) \in DOMAIN log THEN log[BucketStart(j)] ELSE 0
  BY DEF Recorded
<1>5. \A j \in Int : Recorded'[j] = IF BucketStart(j) \in DOMAIN log THEN log'[BucketStart(j)] ELSE 0
  BY <1>2 DEF Recorded, BucketStart
<1> HIDE DEF i
<1>6. Recorded'[i] = Recorded[i] + 1
  BY <1>1, <1>2, <1>4, <1>5
<1>7. \A j \in Int : j # i => Recorded'[j] = Recorded[j]
  BY <1>2, <1>3, <1>4, <1>5
<1> QED
  BY <1>1, <1>6, <1>7 DEF i

(* The time of a write and its index.                                      *)
LEMMA WriteIndex ==
    ASSUME Aligned, NEW b \in {Truncate(t) : t \in Times}
    PROVE  /\ TimeToIndex(b) \in Int /\ b \in Int /\ b > 0
           /\ b = BucketStart(TimeToIndex(b))
<1>1. PICK t \in Times : b = Truncate(t)
  OBVIOUS
<1> QED
  BY <1>1, TimeIndex, Reckoned

(* The ring, once it was written to.                                       *)
LEMMA Written ==
    ASSUME Aligned, RingInv, lastWrite # ZeroTime
    PROVE  /\ TimeToIndex(lastWrite) \in Int /\ lastWrite = BucketStart(TimeToIndex(lastWrite))
           /\ TimeToIndex(firstWrite) \in Int /\ firstWrite = BucketStart(TimeToIndex(firstWrite))
           /\ TimeToIndex(firstWrite) <= TimeToIndex(lastWrite)
           /\ Holds(buckets, Recorded, TimeToIndex(lastWrite))
           /\ \A j \in Int : j > TimeToIndex(lastWrite) => Recorded[j] = 0
           /\ \A j \in Kept : Recorded[j] > 0 => TimeToIndex(firstWrite) <= j
<1> DEFINE T == {Truncate(t) : t \in Times}
           L == TimeToIndex(lastWrite)
           F == TimeToIndex(firstWrite)
<1>1. /\ firstWrite \in T /\ lastWrite \in T /\ firstWrite <= lastWrite
      /\ \A b \in DOMAIN log : b > lastWrite => log[b] = 0
      /\ \A j \in Kept : buckets[j % NB] = Recorded[j] /\ (Recorded[j] > 0 => firstWrite <= BucketStart(j))
  BY DEF RingInv, TypeOK
<1>2. L \in Int /\ lastWrite = BucketStart(L) /\ F \in Int /\ firstWrite = BucketStart(F)
  BY <1>1, WriteIndex
<1>3. Holds(buckets, Recorded, L)
  BY <1>1 DEF Holds, Kept
<1>4. \A j \in Kept : j \in Int
  BY <1>2, NBPositive DEF Kept
<1> HIDE DEF L, F, T
<1>5. F <= L
  BY <1>1, <1>2, InBuckets
<1>6. \A j \in Kept : Recorded[j] > 0 => F <= j
  BY <1>1, <1>2, <1>4, InBuckets
<1>7. ASSUME NEW j \in Int, j > L PROVE Recorded[j] = 0
  <2>1. BucketStart(j) > lastWrite
    <3>1. /\ BucketStart(j) \in Int /\ BucketStart(L) \in Int
          /\ BucketStart(j) <= BucketStart(L) <=> j <= L
      BY <1>2, InBuckets
    <3> QED
      BY <1>2, <1>7, <3>1
  <2> QED
    BY <1>1, <2>1 DEF Recorded
<1> QED
  BY <1>2, <1>3, <1>5, <1>6, <1>7 DEF L, F

(* The index the ring ends with once it has moved on to a bucket.          *)
EndIndex(j) == IF BucketStart(j) > lastWrite THEN j ELSE TimeToIndex(lastWrite)

(* Before the first write the zero time is a window and more ago.          *)
LEMMA Unwritten ==
    ASSUME Aligned, RingInv, lastWrite = ZeroTime, NEW i \in Int, BucketStart(i) > 0
    PROVE  /\ BucketStart(i) > lastWrite /\ BucketStart(i) - lastWrite >= Window
           /\ ~Ignored(BucketStart(i))
           /\ \A j \in Int : Recorded[j] = 0
<1>1. BucketStart(i) \in Int
  BY InBuckets
<1>2. ZeroTime \in Int /\ ZeroTime < 0 /\ ZeroTime + Window < 0
  BY BucketsAssumption DEF ZeroTime
<1> DEFINE b == BucketStart(i)
           z == ZeroTime
<1>3. b > z /\ b - z >= Window /\ ~(b + Window <= z)
  <2> HIDE DEF b, z
  <2> QED
    BY <1>1, <1>2, BucketsAssumption DEF b, z
<1>4. \A j \in Int : Recorded[j] = 0
  BY DEF RingInv, Recorded
<1> QED
  BY <1>3, <1>4 DEF Ignored

(* Moving on leaves the slots with the counts of the window that ends with *)
(* the bucket moved to: those passed, which held the counts of indexes a   *)
(* ring earlier, are empty like the buckets they now stand for.            *)
LEMMA MovedHolds ==
    ASSUME Aligned, RingInv, NEW i \in Int, BucketStart(i) > 0, ~Ignored(BucketStart(i))
    PROVE  /\ EndIndex(i) \in Int /\ i \in EndIndex(i)-NB+1..EndIndex(i)
           /\ Holds(MovedBuckets(BucketStart(i), i), Recorded, EndIndex(i))
<1> DEFINE b == BucketStart(i)
           L == TimeToIndex(lastWrite)
           g == MovedBuckets(b, i)
<1>0. NB \in Nat \ {0} /\ \A j \in Int : j % NB \in 0..NB-1
  BY NBPositive
<1>1. ASSUME b > lastWrite, b - lastWrite >= Window, \A j \in i-NB+1..i : Recorded[j] = 0
      PROVE  Holds(g, Recorded, i)
  <2>1. g = [k \in 0..NB-1 |-> 0]
    BY <1>1 DEF MovedBuckets, Advance
  <2>2. \A j \in i-NB+1..i : j % NB \in 0..NB-1
    <3>1. \A j \in i-NB+1..i : j \in Int
      BY <1>0
    <3> QED
      BY <1>0, <3>1
  <2> HIDE DEF g, NB
  <2> QED
    BY <1>1, <2>1, <2>2 DEF Holds
<1>2. ASSUME b > lastWrite PROVE EndIndex(i) = i /\ i \in i-NB+1..i
  BY <1>0, <1>2 DEF EndIndex
<1>3. CASE lastWrite = ZeroTime
  <2>1. b > lastWrite /\ b - lastWrite >= Window /\ \A j \in Int : Recorded[j] = 0
    BY <1>3, Unwritten
  <2>2. \A j \in i-NB+1..i : j \in Int
    BY <1>0
  <2> QED
    BY <1>1, <1>2, <2>1, <2>2
<1>4. CASE lastWrite # ZeroTime
  <2>1. /\ L \in Int /\ lastWrite = BucketStart(L)
        /\ Holds(buckets, Recorded, L)
        /\ \A j \in Int : j > L => Recorded[j] = 0
    BY <1>4, Written
  <2>2. /\ b \in Int /\ lastWrite \in Int
        /\ b <= lastWrite <=> i <= L
        /\ lastWrite <= b <=> L <= i
        /\ b = lastWrite <=> i = L
        /\ b - lastWrite >= Window <=> i - L >= NB
        /\ lastWrite - b >= Window <=> L - i >= NB
    BY <2>1, InBuckets
  <2>3. b > lastWrite <=> i > L
    BY <2>1, <2>2
  <2>4. L - i < NB
    <3>1. ~(lastWrite - b >= Window)
      BY <2>2, BucketsAssumption DEF Ignored
    <3> QED
      BY <2>1, <2>2, <3>1, <1>0
  <2>5. CASE i - L >= NB
    <3>1. b > lastWrite /\ b - lastWrite >= Window
      BY <1>0, <2>1, <2>2, <2>3, <2>5
    <3>2. \A j \in i-NB+1..i : j \in Int /\ j > L
      BY <1>0, <2>1, <2>5
    <3> QED
      BY <1>1, <1>2, <2>1, <3>1, <3>2
  <2>6. CASE i > L /\ i - L < NB
    <3>1. b > lastWrite /\ ~(b - lastWrite >= Window)
      BY <1>0, <2>1, <2>2, <2>3, <2>6
    <3>2. g = [k \in 0..NB-1 |-> IF k \in Slots(L, i) THEN 0 ELSE buckets[k]]
      BY <3>1 DEF MovedBuckets, Advance
    <3>3. ASSUME NEW j \in i-NB+1..i PROVE g[j % NB] = Recorded[j]
      <4>1. j \in Int /\ j % NB \in 0..NB-1
        <5>1. j \in Int
          BY <1>0
        <5> QED
          BY <1>0, <5>1
      <4>2. CASE j > L
        <5>1. j \in L+1..i
          BY <2>1, <4>1, <4>2
        <5>2. j % NB \in Slots(L, i)
          BY <5>1 DEF Slots
        <5>3. g[j % NB] = 0
          <6> HIDE DEF g, NB
          <6> QED
            BY <3>2, <4>1, <5>2
        <5> QED
          BY <2>1, <4>1, <4>2, <5>3
      <4>3. CASE j <= L
        <5>1. j \in L-NB+1..L
          BY <1>0, <2>1, <2>6, <4>1, <4>3
        <5>2. j % NB \notin Slots(L, i)
          <6>1. SUFFICES ASSUME NEW k \in L+1..i, j % NB = k % NB
                         PROVE  FALSE
            BY DEF Slots
          <6>2. k \in i-NB+1..i
            BY <1>0, <2>1, <2>6
          <6>3. j = k
            BY <6>1, <6>2, OwnSlot
          <6> QED
            BY <2>1, <4>3, <6>3
        <5>3. g[j % NB] = buckets[j % NB]
          <6> HIDE DEF g, NB
          <6> QED
            BY <3>2, <4>1, <5>2
        <5> QED
          BY <2>1, <5>1, <5>3 DEF Holds
      <4> QED
        BY <2>1, <4>1, <4>2, <4>3
    <3>4. Holds(g, Recorded, i)
      BY <3>3 DEF Holds
    <3> QED
      BY <1>2, <3>1, <3>4
  <2>7. CASE i <= L
    <3>1. ~(b > lastWrite)
      BY <2>1, <2>3, <2>7
    <3>2. g = buckets /\ EndIndex(i) = L
      BY <3>1 DEF MovedBuckets, EndIndex
    <3>3. i \in L-NB+1..L
      BY <1>0, <2>1, <2>4, <2>7
    <3> QED
      BY <2>1, <3>2, <3>3
  <2> QED
    BY <1>0, <2>1, <2>5, <2>6, <2>7
<1> QED
  BY <1>3, <1>4

(* The new ring has nothing to hold.                                       *)
LEMMA RingInit == ASSUME Init PROVE RingInv
<1>1. TotalInv
  BY TotalInit
<1>2. \A b \in DOMAIN log : log[b] = 0
  BY DEF Init
<1> QED
  BY <1>1, <1>2 DEF Init, NewRequestsBuckets, TotalInv, RingInv

(* A request that is ignored is of a time before the window.               *)
LEMMA RingIgnored ==
    ASSUME Aligned, RingInv, Record, Ignored(Truncate(now)) PROVE RingInv'
<1> DEFINE i == TimeToIndex(now)
           b == BucketStart(i)
           L == TimeToIndex(lastWrite)
<1>0. TypeOK /\ TotalInv /\ TotalInv'
  BY TotalRecord DEF RingInv, TotalInv
<1>1. i \in Int /\ Truncate(now) = b /\ b > 0 /\ b \in Int
  BY <1>0, TimeIndex, Reckoned DEF TypeOK
<1>2. WholeSeconds # 0
  <2>1. 0 \in 0..Granularity-1
    BY BucketsAssumption
  <2> QED
    BY <1>1, <2>1, IndexOf
<1>3. UNCHANGED ring
  BY <1>2, RecordParts
<1>4. lastWrite # ZeroTime
  BY <1>1, Unwritten
<1>5. /\ L \in Int /\ lastWrite = BucketStart(L)
      /\ firstWrite # ZeroTime /\ firstWrite <= lastWrite
      /\ \A c \in DOMAIN log : c > lastWrite => log[c] = 0
      /\ \A j \in Kept : buckets[j % NB] = Recorded[j] /\ (Recorded[j] > 0 => firstWrite <= BucketStart(j))
  BY <1>4, Written DEF RingInv
<1>6. b + Window <= lastWrite /\ lastWrite \in Int
  <2>1. lastWrite \in Int
    BY <1>0, WritesInt
  <2> QED
    BY <1>1, <2>1 DEF Ignored
<1>7. L - i >= NB
  <2>1. lastWrite - b >= Window
    BY <1>1, <1>6, BucketsAssumption
  <2> QED
    BY <1>1, <1>5, <2>1, InBuckets
<1>8. \A j \in Kept : j \in Int /\ j # i
  BY <1>1, <1>5, <1>7, NBPositive DEF Kept
<1>9. \A j \in Kept : Recorded'[j] = Recorded[j]
  BY <1>0, <1>8, RecordedStep
<1>10. /\ DOMAIN log' = DOMAIN log
       /\ \A c \in DOMAIN log : c # b => log'[c] = log[c]
  BY <1>0, <1>1, RecordLog
<1>11. \A c \in DOMAIN log : c > lastWrite => log'[c] = 0
  <2>1. ~(b > lastWrite)
    BY <1>1, <1>6, BucketsAssumption
  <2> QED
    BY <1>5, <1>10, <2>1
<1>12. Kept' = Kept /\ lastWrite' = lastWrite /\ firstWrite' = firstWrite /\ buckets' = buckets
  BY <1>3 DEF ring, Kept, TimeToIndex
<1> HIDE DEF i, b, L
<1>13. (\A j \in Kept : buckets[j % NB] = Recorded[j] /\ (Recorded[j] > 0 => firstWrite <= BucketStart(j)))'
  <2>1. \A j \in Kept : /\ buckets'[j % NB] = Recorded'[j]
                        /\ Recorded'[j] > 0 => firstWrite' <= BucketStart(j)
    BY <1>5, <1>9, <1>12
  <2> QED
    BY <1>12, <2>1 DEF BucketStart, NB
<1>14. /\ (lastWrite # ZeroTime)' /\ (firstWrite # ZeroTime /\ firstWrite <= lastWrite)'
       /\ (\A c \in DOMAIN log : c > lastWrite => log[c] = 0)'
  BY <1>4, <1>5, <1>10, <1>11, <1>12 DEF ZeroTime
<1> QED
  BY <1>0, <1>13, <1>14, Zenon DEF RingInv, TotalInv

(* The first write after a request is counted: not after the last one, nor *)
(* after any request in the window that then ends the ring.                *)
LEMMA FirstIndex ==
    ASSUME Aligned, RingInv, NEW i \in Int, BucketStart(i) > 0, ~Ignored(BucketStart(i)),
           NEW r, \A j \in Int : j # i => r[j] = Recorded[j]
    PROVE  LET b == BucketStart(i)
               first == IF b = lastWrite THEN firstWrite ELSE FirstWrite(b)
           IN  \E f \in Int : /\ first = BucketStart(f)
                              /\ first # ZeroTime
                              /\ f <= EndIndex(i)
                              /\ \A j \in EndIndex(i)-NB+1..EndIndex(i) : r[j] > 0 => f <= j
<1> DEFINE b == BucketStart(i)
           L == TimeToIndex(lastWrite)
           F == TimeToIndex(firstWrite)
           first == IF b = lastWrite THEN firstWrite ELSE FirstWrite(b)
           E == EndIndex(i)
<1>0. NB \in Nat \ {0} /\ Window \in Nat \ {0} /\ ZeroTime \in Int /\ ZeroTime < 0 /\ b \in Int /\ b # ZeroTime
  <2>1. ZeroTime \in Int /\ ZeroTime < 0
    BY BucketsAssumption DEF ZeroTime
  <2>2. NB \in Nat \ {0} /\ Window \in Nat \ {0}
    BY NBPositive, BucketsAssumption
  <2>3. b \in Int
    BY InBuckets
  <2> HIDE DEF b
  <2> QED
    BY <2>1, <2>2, <2>3 DEF b
<1>1. CASE lastWrite = ZeroTime
  <2>1. b > lastWrite /\ \A j \in Int : Recorded[j] = 0
    BY <1>1, Unwritten
  <2>2. E = i
    BY <2>1 DEF EndIndex
  <2>3. firstWrite = ZeroTime
    BY <1>1 DEF RingInv
  <2>4. first = b
    BY <1>0, <1>1, <2>3 DEF FirstWrite
  <2>5. \A j \in i-NB+1..i : j \in Int /\ (r[j] > 0 => i <= j)
    BY <1>0, <2>1
  <2> HIDE DEF b, first, E
  <2> QED
    BY <1>0, <2>2, <2>4, <2>5 DEF b, first, E
<1>2. CASE lastWrite # ZeroTime
  <2>1. /\ L \in Int /\ lastWrite = BucketStart(L)
        /\ F \in Int /\ firstWrite = BucketStart(F) /\ F <= L
        /\ \A j \in Int : j > L => Recorded[j] = 0
        /\ \A j \in L-NB+1..L : Recorded[j] > 0 => F <= j
        /\ firstWrite # ZeroTime
    BY <1>2, Written DEF Kept, RingInv
  <2>2. /\ lastWrite \in Int /\ firstWrite \in Int
        /\ b <= lastWrite <=> i <= L
        /\ b = lastWrite <=> i = L
        /\ b - lastWrite >= Window <=> i - L >= NB
        /\ firstWrite <= b <=> F <= i
    <3> HIDE DEF L, F
    <3>1. /\ BucketStart(L) \in Int
          /\ b <= BucketStart(L) <=> i <= L
          /\ b = BucketStart(L) <=> i = L
          /\ b - BucketStart(L) >= Window <=> i - L >= NB
      BY <2>1, InBuckets
    <3>2. BucketStart(F) \in Int /\ (BucketStart(F) <= b <=> F <= i)
      BY <2>1, InBuckets
    <3> QED
      BY <2>1, <3>1, <3>2
  <2>3. E = IF i > L THEN i ELSE L
    BY <2>1, <2>2, <1>0 DEF EndIndex
  <2> DEFINE f == IF i = L THEN F ELSE IF F > i \/ i - L >= NB THEN i ELSE F
  <2>4. first = BucketStart(f)
    <3>1. firstWrite > b <=> F > i
      BY <1>0, <2>1, <2>2
    <3> QED
      BY <2>1, <2>2, <3>1 DEF FirstWrite
  <2>5. f \in Int /\ f <= E
    BY <2>1, <2>3
  <2>6. first # ZeroTime
    BY <1>0, <2>1 DEF FirstWrite
  <2> HIDE DEF first, b, L, F, E
  <2>7. ASSUME NEW j \in E-NB+1..E, r[j] > 0 PROVE f <= j
    <3>1. j \in Int /\ E \in Int
      BY <1>0, <2>1, <2>3
    <3>2. CASE j = i
      BY <2>1, <3>1, <3>2
    <3>3. CASE j # i
      <4>1. Recorded[j] > 0
        BY <2>7, <3>1, <3>3
      <4>2. j <= L
        BY <2>1, <3>1, <4>1
      <4>3. j \in L-NB+1..L /\ ~(i - L >= NB)
        BY <1>0, <2>1, <2>3, <3>1, <4>2
      <4>4. F <= j
        BY <2>1, <4>1, <4>3
      <4> QED
        BY <2>1, <3>1, <4>3, <4>4
    <3> QED
      BY <3>2, <3>3
  <2> HIDE DEF f
  <2> QED
    BY <2>4, <2>5, <2>6, <2>7 DEF first, b, E
<1> QED
  BY <1>1, <1>2

(* A request that is counted.                                              *)
LEMMA RingCounted ==
    ASSUME Aligned, RingInv, Record, ~Ignored(Truncate(now)) PROVE RingInv'
<1> DEFINE i == TimeToIndex(now)
           b == BucketStart(i)
           E == EndIndex(i)
           g == MovedBuckets(b, i)
<1>0. TypeOK /\ TotalInv /\ TotalInv'
  BY TotalRecord DEF RingInv, TotalInv
<1>1. i \in Int /\ Truncate(now) = b /\ b > 0 /\ b \in Int /\ TimeToIndex(b) = i
  BY <1>0, TimeIndex, Reckoned DEF TypeOK
<1>2. WholeSeconds # 0
  <2>1. 0 \in 0..Granularity-1
    BY BucketsAssumption
  <2> QED
    BY <1>1, <2>1, IndexOf
<1>3. /\ buckets' = [g EXCEPT ![i % NB] = @ + 1]
      /\ firstWrite' = IF b = lastWrite THEN firstWrite ELSE FirstWrite(b)
      /\ lastWrite' = IF b > lastWrite THEN b ELSE lastWrite
  BY <1>1, <1>2, RecordParts
<1>4. E \in Int /\ i \in E-NB+1..E /\ Holds(g, Recorded, E)
  BY <1>1, MovedHolds
<1>5. /\ Recorded'[i] = Recorded[i] + 1
      /\ \A j \in Int : j # i => Recorded'[j] = Recorded[j]
  BY <1>0, RecordedStep
<1>6. Holds(buckets', Recorded', E)
  <2>1. g \in [0..NB-1 -> Nat]
    BY <1>0, <1>1, <1>2, MovedSum
  <2> HIDE DEF g, E, i
  <2> QED
    BY <1>1, <1>3, <1>4, <1>5, <2>1, HoldsCounted
<1>7. lastWrite \in Int /\ lastWrite' >= b /\ lastWrite' >= lastWrite
  <2>1. lastWrite \in Int
    BY <1>0, WritesInt
  <2> HIDE DEF b
  <2> QED
    BY <1>1, <1>3, <2>1
<1>8. lastWrite' = BucketStart(E) /\ TimeToIndex(lastWrite') = E /\ lastWrite' # ZeroTime
  <2>1. CASE b > lastWrite
    <3>1. lastWrite' = b /\ E = i
      BY <1>3, <2>1 DEF EndIndex
    <3>2. b # ZeroTime
      BY <1>1, BucketsAssumption DEF ZeroTime
    <3> QED
      BY <1>1, <3>1, <3>2
  <2>2. CASE ~(b > lastWrite)
    <3>1. lastWrite' = lastWrite /\ E = TimeToIndex(lastWrite)
      BY <1>3, <2>2 DEF EndIndex
    <3>2. lastWrite # ZeroTime
      BY <1>1, <2>2, Unwritten
    <3>3. lastWrite = BucketStart(TimeToIndex(lastWrite))
      BY <3>2, Written
    <3> QED
      BY <3>1, <3>2, <3>3
  <2> QED
    BY <2>1, <2>2
<1>9. PICK f \in Int : /\ firstWrite' = BucketStart(f) /\ firstWrite' # ZeroTime
                       /\ f <= E
                       /\ \A j \in E-NB+1..E : Recorded'[j] > 0 => f <= j
  <2> DEFINE r == Recorded'
  <2> HIDE DEF r, i
  <2>1. \A j \in Int : j # i => r[j] = Recorded[j]
    BY <1>5 DEF r
  <2> QED
    BY <1>1, <1>3, <2>1, FirstIndex DEF r
<1>10. Kept' = E-NB+1..E
  BY <1>8 DEF Kept, TimeToIndex, NB, WholeSeconds
<1> HIDE DEF i, b, E, g
<1>11. (\A j \in Kept : buckets[j % NB] = Recorded[j] /\ (Recorded[j] > 0 => firstWrite <= BucketStart(j)))'
  <2>1. ASSUME NEW j \in E-NB+1..E
        PROVE  /\ buckets'[j % NB] = Recorded'[j]
               /\ Recorded'[j] > 0 => firstWrite' <= BucketStart(j)
    <3>1. j \in Int
      BY <1>4, NBPositive
    <3>2. f <= j => BucketStart(f) <= BucketStart(j)
      BY <3>1, InBuckets
    <3> QED
      BY <1>6, <1>9, <3>2 DEF Holds
  <2> QED
    BY <1>10, <2>1 DEF BucketStart, NB
<1>12. (\A c \in DOMAIN log : c > lastWrite => log[c] = 0)'
  <2>1. /\ DOMAIN log' = DOMAIN log
        /\ \A c \in DOMAIN log : c \in Int /\ (c # b => log'[c] = log[c])
    <3>1. \A c \in DOMAIN log : c \in Int
      BY <1>0, Reckoned DEF TypeOK
    <3> QED
      BY <1>0, <1>1, <3>1, RecordLog
  <2>2. \A c \in DOMAIN log : c > lastWrite => log[c] = 0
    BY DEF RingInv
  <2>3. lastWrite' \in Int
    BY <1>1, <1>3, <1>7
  <2> QED
    BY <1>1, <1>7, <2>1, <2>2, <2>3
<1>13. (lastWrite # ZeroTime)' /\ (firstWrite # ZeroTime /\ firstWrite <= lastWrite)'
  <2>1. BucketStart(f) <= BucketStart(E)
    BY <1>4, <1>9, InBuckets
  <2> QED
    BY <1>8, <1>9, <2>1 DEF ZeroTime
<1> QED
  BY <1>0, <1>11, <1>12, <1>13, Zenon DEF RingInv, TotalInv

(* Every step keeps the ring's invariant; the clock does not touch it.     *)
LEMMA RingNext == ASSUME Aligned, RingInv, [Next]_vars PROVE RingInv'
<1>1. CASE Record
  BY <1>1, RingIgnored, RingCounted
<1>2. ASSUME UNCHANGED <<ring, log>>, TypeOK' PROVE RingInv'
  <2>1. /\ Kept' = Kept /\ Recorded' = Recorded /\ log' = log
        /\ buckets' = buckets /\ windowTotal' = windowTotal
        /\ lastWrite' = lastWrite /\ firstWrite' = firstWrite
    BY <1>2 DEF ring, Kept, Recorded, TimeToIndex, WholeSeconds, BucketStart, NB
  <2> QED
    BY <1>2, <2>1 DEF RingInv, BucketStart, NB, ZeroTime
<1>3. CASE SetClock
  <2>1. TypeOK'
    BY <1>3 DEF RingInv, SetClock, ring, TypeOK
  <2> QED
    BY <1>2, <1>3, <2>1 DEF SetClock
<1>4. CASE UNCHANGED vars
  <2>1. TypeOK'
    BY <1>4 DEF RingInv, vars, ring, TypeOK
  <2> QED
    BY <1>2, <1>4, <2>1 DEF vars
<1> QED
  BY <1>1, <1>3, <1>4 DEF Next

(* The ring holds the counts of the window that ends with the last write.  *)
THEOREM RingInvariance == ASSUME Aligned PROVE Spec => []RingInv
<1>1. Init => RingInv
  BY RingInit
<1>2. RingInv /\ [Next]_vars => RingInv'
  BY RingNext
<1> QED
  BY <1>1, <1>2, PTL DEF Spec
-----------------------------------------------------------------------------
(* The ring's many indexes up to one are finitely many, as many as there   *)
(* are slots.                                                              *)
LEMMA IndexesFinite ==
    ASSUME NEW i \in Int, NEW j \in Int
    PROVE  IsFiniteSet(i..j) /\ Cardinality(i..j) = (IF i > j THEN 0 ELSE j - i + 1)
           /\ \A k \in i..j : k \in Int
BY FS_Interval

(* Every slot is that of one of these indexes.                             *)
LEMMA EverySlot ==
    ASSUME NEW end \in Int
    PROVE  {j % NB : j \in end-NB+1..end} = 0..NB-1
<1>0. NB \in Nat \ {0} /\ end % NB \in 0..NB-1 /\ end = NB * (end \div NB) + (end % NB) /\ end \div NB \in Int
  BY NBPositive, DivMod
<1>1. ASSUME NEW k \in 0..NB-1 PROVE \E j \in end-NB+1..end : k = j % NB
  <2> DEFINE m == end % NB
             q == end \div NB
  <2>1. CASE k <= m
    <3>1. NB * q + k \in end-NB+1..end
      <4> DEFINE x == NB * q
      <4>1. x \in Int
        BY <1>0
      <4> HIDE DEF x, m, NB
      <4> QED
        BY <1>0, <2>1, <4>1 DEF x, m
    <3>2. (NB * q + k) % NB = k
      <4> HIDE DEF NB, q
      <4> QED
        BY <1>0, DivUnique DEF q
    <3> QED
      BY <3>1, <3>2
  <2>2. CASE k > m
    <3>1. NB * (q - 1) + k \in end-NB+1..end
      <4> DEFINE x == NB * q
      <4>1. x \in Int /\ NB * (q - 1) = x - NB
        <5> HIDE DEF NB, q
        <5> QED
          BY <1>0 DEF q
      <4> HIDE DEF x, m, NB
      <4> QED
        BY <1>0, <2>2, <4>1 DEF x, m
    <3>2. (NB * (q - 1) + k) % NB = k
      <4>1. q - 1 \in Int
        BY <1>0
      <4> DEFINE p == q - 1
      <4> HIDE DEF NB, p
      <4>2. (NB * p + k) % NB = k
        BY <1>0, <4>1, DivUnique DEF p
      <4> QED
        BY <4>2 DEF p
    <3> QED
      BY <3>1, <3>2
  <2> QED
    BY <1>0, <2>1, <2>2
<1>2. \A j \in end-NB+1..end : j \in Int
  BY <1>0
<1>3. \A j \in end-NB+1..end : j % NB \in 0..NB-1
  BY <1>2, NBPositive
<1> QED
  BY <1>1, <1>3

(* The sum of the slots is the sum of the counts they hold.                *)
LEMMA HoldsSum ==
    ASSUME NEW g \in [0..NB-1 -> Nat], NEW r, NEW end \in Int, Holds(g, r, end)
    PROVE  SumFunctionOnSet(g, 0..NB-1) = SumFunctionOnSet(r, end-NB+1..end)
<1> DEFINE S == end-NB+1..end
           b == [j \in S |-> j % NB]
<1>0. NB \in Nat \ {0} /\ end-NB+1 \in Int
  BY NBPositive
<1>1. IsFiniteSet(S) /\ \A j \in S : j \in Int
  <2> DEFINE lo == end-NB+1
  <2> HIDE DEF lo
  <2>1. IsFiniteSet(lo..end) /\ \A j \in lo..end : j \in Int
    BY <1>0, IndexesFinite DEF lo
  <2> QED
    BY <2>1 DEF lo
<1>2. \A j \in S : b[j] = j % NB /\ b[j] \in 0..NB-1 /\ g[b[j]] = r[j]
  <2> HIDE DEF NB
  <2> QED
    BY <1>1, NBPositive DEF Holds
<1>3. \A j \in S : r[j] \in Int /\ g[b[j]] = r[j]
  BY <1>2
<1>4. \A i, j \in S : b[i] = b[j] => i = j
  BY <1>2, OwnSlot
<1> DEFINE R == 0..NB-1
<1>5. \A k \in R : \E j \in S : k = b[j]
  <2>1. \A k \in R : \E j \in S : k = j % NB
    BY EverySlot
  <2> HIDE DEF b, S, R
  <2> QED
    BY <1>2, <2>1
<1>6. \A j \in S : b[j] \in R
  BY <1>2
<1> HIDE DEF S, b, R
<1>7. SumFunctionOnSet(g, R) = SumFunctionOnSet(r, S)
  <2>1. Renames(b, r, S, g, R)
    BY <1>3, <1>4, <1>5, <1>6 DEF Renames
  <2> QED
    BY <1>1, <2>1, SumRenamed
<1> QED
  BY <1>7 DEF S, R

(* What was recorded at some indexes, as a sum.                            *)
LEMMA RecordedSum ==
    ASSUME TypeOK, NEW lo \in Int, NEW hi \in Int
    PROVE  /\ IsFiniteSet(lo..hi)
           /\ SumFunctionOnSet(Recorded, lo..hi) \in Nat
           /\ \A j \in lo..hi : Recorded[j] \in Nat /\ Recorded[j] <= SumFunctionOnSet(Recorded, lo..hi)
           /\ (\A j \in lo..hi : Recorded[j] = 0) => SumFunctionOnSet(Recorded, lo..hi) = 0
<1> DEFINE S == lo..hi
<1>1. IsFiniteSet(S) /\ \A j \in S : Recorded[j] \in Nat
  BY IndexesFinite, RecordedNat
<1> HIDE DEF S
<1>2. /\ SumFunctionOnSet(Recorded, S) \in Nat
      /\ \A j \in S : Recorded[j] <= SumFunctionOnSet(Recorded, S)
      /\ (\A j \in S : Recorded[j] = 0) => SumFunctionOnSet(Recorded, S) = 0
  BY <1>1, SumNat
<1> QED
  BY <1>1, <1>2 DEF S

(* A sum over indexes is that of the ones up to a point and of those       *)
(* beyond it.                                                              *)
LEMMA RecordedSplit ==
    ASSUME TypeOK, NEW lo \in Int, NEW mid \in Int, NEW hi \in Int, lo - 1 <= mid, mid <= hi
    PROVE  SumFunctionOnSet(Recorded, lo..hi)
             = SumFunctionOnSet(Recorded, lo..mid) + SumFunctionOnSet(Recorded, mid+1..hi)
<1> DEFINE S == lo..hi
           A == lo..mid
<1>1. IsFiniteSet(S) /\ \A j \in S : Recorded[j] \in Int
  <2>1. IsFiniteSet(S) /\ \A j \in S : j \in Int
    BY IndexesFinite
  <2> QED
    BY <2>1, RecordedNat
<1>2. A \in SUBSET S /\ S \ A = mid+1..hi
  OBVIOUS
<1> HIDE DEF S, A
<1>3. SumFunctionOnSet(Recorded, S) = SumFunctionOnSet(Recorded, A) + SumFunctionOnSet(Recorded, S \ A)
  BY <1>1, <1>2, SumDisjoint
<1> QED
  BY <1>2, <1>3 DEF S, A

(* What WindowAverage takes off the total.                                 *)
Passed(last, i) == SumFunction([k \in last+1..i |-> buckets[k % NB]])

(* The slots passed since the last write hold what was recorded a ring of  *)
(* indexes earlier.                                                        *)
LEMMA PassedSum ==
    ASSUME TypeOK, NEW last \in Int, NEW i \in Int, i - last < NB, Holds(buckets, Recorded, last)
    PROVE  Passed(last, i) = SumFunctionOnSet(Recorded, last-NB+1..i-NB)
<1> DEFINE S == last+1..i
           R == last-NB+1..i-NB
           h == [k \in S |-> buckets[k % NB]]
           b == [k \in S |-> k - NB]
<1>0. NB \in Nat \ {0}
  BY NBPositive
<1>1. IsFiniteSet(S) /\ \A k \in S : k \in Int
  BY IndexesFinite
<1>2. ASSUME NEW k \in S
      PROVE  b[k] \in R /\ h[k] \in Int /\ Recorded[b[k]] = h[k]
  <2>1. k \in Int /\ b[k] = k - NB /\ k - NB \in R /\ k - NB \in last-NB+1..last
    BY <1>0
  <2>2. (k - NB) % NB = k % NB
    <3> HIDE DEF NB
    <3> QED
      BY <1>0, <2>1, Slot
  <2>3. buckets[(k - NB) % NB] = Recorded[k - NB]
    BY <2>1 DEF Holds
  <2>4. h[k] = Recorded[k - NB]
    BY <2>2, <2>3
  <2>5. k - NB \in Int /\ Recorded[k - NB] \in Int
    <3>1. k - NB \in Int
      BY <1>0, <2>1
    <3> QED
      BY <3>1, RecordedNat
  <2> QED
    BY <2>1, <2>4, <2>5
<1>3. \A x, y \in S : b[x] = b[y] => x = y
  BY <1>0, <1>1
<1>4. \A y \in R : \E x \in S : y = b[x]
  <2>1. ASSUME NEW y \in R PROVE y + NB \in S /\ y = b[y + NB]
    BY <1>0
  <2> QED
    BY <2>1
<1> HIDE DEF S, R, h, b
<1>5. Renames(b, h, S, Recorded, R)
  BY <1>2, <1>3, <1>4 DEF Renames
<1>6. SumFunctionOnSet(Recorded, R) = SumFunctionOnSet(h, S)
  BY <1>1, <1>5, SumRenamed
<1>7. DOMAIN h = S
  BY DEF h
<1> QED
  BY <1>6, <1>7 DEF Passed, SumFunction, S, R, h

(* The sum WindowAverage takes is that of the counts recorded in the       *)
(* window that ends with the time asked for or with the last write.        *)
LEMMA WindowSumIs ==
    ASSUME Aligned, RingInv, NEW t \in Times
    PROVE  LET end == EndIndex(TimeToIndex(t))
           IN  /\ end \in Int
               /\ WindowSum(t) = SumFunctionOnSet(Recorded, end-NB+1..end)
<1> DEFINE i == TimeToIndex(t)
           b == BucketStart(i)
           L == TimeToIndex(lastWrite)
           sum(lo, hi) == SumFunctionOnSet(Recorded, lo..hi)
<1>0. NB \in Nat \ {0} /\ Window \in Nat \ {0} /\ TypeOK
  BY NBPositive, BucketsAssumption DEF RingInv
<1>1. i \in Int /\ Truncate(t) = b /\ b > 0 /\ b \in Int /\ TimeToIndex(b) = i
  BY TimeIndex, Reckoned
<1>2. i-NB+1 \in Int
  BY <1>0, <1>1
<1>3. CASE lastWrite = ZeroTime
  <2>1. b > lastWrite /\ b - lastWrite >= Window /\ \A j \in Int : Recorded[j] = 0
    BY <1>1, <1>3, Unwritten
  <2>2. lastWrite \in Int
    BY <1>0, WritesInt
  <2>3. WindowSum(t) = 0
    <3>1. ~(b - lastWrite <= 0)
      <4> HIDE DEF b
      <4> QED
        BY <1>1, <2>1, <2>2
    <3> QED
      BY <1>1, <2>1, <3>1 DEF WindowSum
  <2>4. sum(i-NB+1, i) = 0
    BY <1>0, <1>1, <1>2, <2>1, RecordedSum, IndexesFinite
  <2> QED
    BY <1>1, <2>1, <2>3, <2>4 DEF EndIndex
<1>4. CASE lastWrite # ZeroTime
  <2>1. /\ L \in Int /\ lastWrite = BucketStart(L)
        /\ Holds(buckets, Recorded, L)
        /\ \A j \in Int : j > L => Recorded[j] = 0
    BY <1>4, Written
  <2>2. /\ lastWrite \in Int
        /\ b <= lastWrite <=> i <= L
        /\ b - lastWrite >= Window <=> i - L >= NB
    <3> HIDE DEF L, i
    <3> QED
      BY <1>1, <2>1, InBuckets
  <2>3. windowTotal = sum(L-NB+1, L)
    <3>1. buckets \in [0..NB-1 -> Nat] /\ windowTotal = SumFunctionOnSet(buckets, 0..NB-1)
      BY DEF RingInv, TypeOK, SumFunction
    <3> QED
      BY <2>1, <3>1, HoldsSum
  <2> HIDE DEF i, b, L
  <2>4. CASE i <= L
    <3>1. b - lastWrite <= 0 /\ ~(b > lastWrite)
      BY <1>1, <2>2, <2>4
    <3>2. WindowSum(t) = windowTotal
      BY <1>1, <3>1 DEF WindowSum
    <3>3. EndIndex(i) = L
      BY <1>1, <3>1 DEF EndIndex, b, L
    <3> QED
      BY <2>1, <2>3, <3>2, <3>3 DEF i
  <2>5. CASE i > L
    <3>1. b > lastWrite /\ ~(b - lastWrite <= 0)
      BY <1>1, <2>1, <2>2, <2>5
    <3>2. EndIndex(i) = i
      BY <3>1 DEF EndIndex, b
    <3>3. CASE i - L >= NB
      <4>1. WindowSum(t) = 0
        BY <1>1, <2>2, <3>1, <3>3 DEF WindowSum
      <4>2. \A j \in i-NB+1..i : j \in Int /\ j > L
        BY <1>0, <1>1, <2>1, <3>3
      <4>3. sum(i-NB+1, i) = 0
        BY <1>0, <1>1, <1>2, <2>1, <4>2, RecordedSum
      <4> QED
        BY <1>1, <3>2, <4>1, <4>3 DEF i
    <3>4. CASE ~(i - L >= NB)
      <4>1. WindowSum(t) = windowTotal - Passed(L, i)
        BY <1>1, <2>2, <3>1, <3>4 DEF WindowSum, Passed, L
      <4>2. Passed(L, i) = sum(L-NB+1, i-NB)
        <5>1. i - L < NB
          BY <1>0, <1>1, <2>1, <3>4
        <5> QED
          BY <1>0, <1>1, <2>1, <5>1, PassedSum
      <4>3. /\ L-NB+1 \in Int /\ i-NB \in Int /\ L-NB+1-1 <= i-NB /\ i-NB <= L
            /\ i-NB+1-1 <= L /\ L <= i
        BY <1>0, <1>1, <2>1, <2>5, <3>4
      <4>4. sum(L-NB+1, L) = sum(L-NB+1, i-NB) + sum(i-NB+1, L)
        BY <1>0, <2>1, <4>3, RecordedSplit
      <4>5. sum(i-NB+1, i) = sum(i-NB+1, L) + sum(L+1, i)
        BY <1>0, <1>1, <1>2, <2>1, <4>3, RecordedSplit
      <4>6. sum(L+1, i) = 0
        <5>1. L+1 \in Int /\ \A j \in L+1..i : j \in Int /\ j > L
          BY <1>1, <2>1
        <5> QED
          BY <1>0, <1>1, <2>1, <5>1, RecordedSum
      <4>7. sum(L-NB+1, i-NB) \in Int /\ sum(i-NB+1, L) \in Int
        <5>1. sum(L-NB+1, i-NB) \in Nat
          BY <1>0, <4>3, RecordedSum
        <5>2. sum(i-NB+1, L) \in Nat
          BY <1>0, <1>2, <2>1, RecordedSum
        <5> QED
          BY <5>1, <5>2
      <4> HIDE DEF sum
      <4>8. WindowSum(t) = sum(i-NB+1, i)
        BY <2>3, <4>1, <4>2, <4>4, <4>5, <4>6, <4>7
      <4> QED
        BY <1>1, <3>2, <4>8 DEF i, sum
    <3> QED
      BY <3>3, <3>4
  <2> QED
    BY <1>1, <2>1, <2>4, <2>5
<1> QED
  BY <1>3, <1>4

(* The larger and the smaller of two numbers.                              *)
LEMMA OfTwo ==
    ASSUME NEW a \in Int, NEW b \in Int
    PROVE  /\ Max({a, b}) = IF a > b THEN a ELSE b
           /\ Min({a, b}) = IF a < b THEN a ELSE b
<1> DEFINE S == {a, b}
<1>1. IsFiniteSet(S) /\ S # {} /\ S \subseteq Int /\ a \in S /\ b \in S
  <2>1. S = {a} \cup {b}
    OBVIOUS
  <2>2. IsFiniteSet({a}) /\ IsFiniteSet({a} \cup {b})
    BY FS_Singleton, FS_AddElement
  <2> QED
    BY <2>1, <2>2
<1>2. \A x \in S : x = a \/ x = b
  OBVIOUS
<1> HIDE DEF S
<1>3. Max(S) \in S /\ \A x \in S : x <= Max(S)
  BY <1>1, MaxOf
<1>4. Min(S) \in S /\ \A x \in S : Min(S) <= x
  BY <1>1, MinOf
<1> DEFINE m == Max(S)
           n == Min(S)
<1>5. (m = a \/ m = b) /\ a <= m /\ b <= m /\ (n = a \/ n = b) /\ n <= a /\ n <= b
  BY <1>1, <1>2, <1>3, <1>4
<1> HIDE DEF m, n
<1>6. m = (IF a > b THEN a ELSE b) /\ n = (IF a < b THEN a ELSE b)
  BY <1>5
<1> QED
  BY <1>6 DEF m, n, S

(* The window's buckets are those of the ring's many indexes up to its end.*)
LEMMA WindowIndexes ==
    ASSUME Aligned, RingInv, NEW t \in Times
    PROVE  LET end == EndIndex(TimeToIndex(t))
           IN  /\ end \in Int
               /\ \A j \in Int : BucketStart(j) \in InWindow(t) <=>
                    BucketStart(j) \in DOMAIN log /\ j \in end-NB+1..end
               /\ \A b \in InWindow(t) : b \in DOMAIN log /\ \E j \in Int : b = BucketStart(j)
<1> DEFINE i == TimeToIndex(t)
           b == BucketStart(i)
           E == EndIndex(i)
<1>0. NB \in Nat \ {0} /\ TypeOK /\ lastWrite \in Int
  BY NBPositive, WritesInt DEF RingInv
<1>1. i \in Int /\ Truncate(t) = b /\ b > 0 /\ b \in Int
  BY TimeIndex, Reckoned
<1>2. E \in Int
  BY WindowSumIs
<1>3. Max({b, lastWrite}) = BucketStart(E)
  <2>1. CASE b > lastWrite
    BY <1>0, <1>1, <2>1, OfTwo DEF EndIndex
  <2>2. CASE ~(b > lastWrite)
    <3>1. lastWrite # ZeroTime
      BY <1>1, <2>2, Unwritten
    <3>2. lastWrite = BucketStart(TimeToIndex(lastWrite))
      BY <3>1, Written
    <3> QED
      BY <1>0, <1>1, <2>2, <3>2, OfTwo DEF EndIndex
  <2> QED
    BY <2>1, <2>2
<1>4. InWindow(t) = {c \in DOMAIN log : BucketStart(E-NB) < c /\ c <= BucketStart(E)}
  <2>1. BucketStart(E) - NB * Granularity = BucketStart(E-NB)
    BY <1>2, InBuckets
  <2> QED
    BY <1>1, <1>3, <2>1 DEF InWindow
<1> HIDE DEF i, b, E
<1>5. ASSUME NEW j \in Int
      PROVE  BucketStart(j) \in InWindow(t) <=> BucketStart(j) \in DOMAIN log /\ j \in E-NB+1..E
  <2>1. E-NB \in Int
    BY <1>0, <1>2
  <2>2. BucketStart(j) <= BucketStart(E) <=> j <= E
    BY <1>2, InBuckets
  <2>3. /\ BucketStart(j) \in Int /\ BucketStart(E-NB) \in Int
        /\ BucketStart(j) <= BucketStart(E-NB) <=> j <= E-NB
    BY <2>1, InBuckets
  <2>4. BucketStart(E-NB) < BucketStart(j) <=> j > E-NB
    BY <1>0, <1>2, <2>1, <2>3
  <2>5. j \in E-NB+1..E <=> j > E-NB /\ j <= E
    BY <1>0, <1>2
  <2> QED
    BY <1>4, <2>2, <2>4, <2>5
<1>6. ASSUME NEW c \in InWindow(t) PROVE c \in DOMAIN log /\ \E j \in Int : c = BucketStart(j)
  <2>1. c \in DOMAIN log /\ c \in {Truncate(u) : u \in Times}
    BY <1>0, <1>4 DEF TypeOK
  <2> QED
    BY <2>1, WriteIndex
<1> QED
  BY <1>2, <1>5, <1>6 DEF i, E

(* So their counts add up to what was recorded at these indexes.           *)
LEMMA WindowLog ==
    ASSUME Aligned, RingInv, NEW t \in Times
    PROVE  LET end == EndIndex(TimeToIndex(t))
           IN  SumFunctionOnSet(log, InWindow(t)) = SumFunctionOnSet(Recorded, end-NB+1..end)
<1> DEFINE E == EndIndex(TimeToIndex(t))
           S == E-NB+1..E
           A == {j \in S : BucketStart(j) \in DOMAIN log}
           b == [j \in A |-> BucketStart(j)]
           R == InWindow(t)
<1>0. NB \in Nat \ {0} /\ TypeOK
  BY NBPositive DEF RingInv
<1>1. /\ E \in Int
      /\ \A j \in Int : BucketStart(j) \in R <=> BucketStart(j) \in DOMAIN log /\ j \in S
      /\ \A c \in R : c \in DOMAIN log /\ \E j \in Int : c = BucketStart(j)
  BY WindowIndexes
<1>2. IsFiniteSet(S) /\ \A j \in S : j \in Int
  <2> HIDE DEF E
  <2>1. E-NB+1 \in Int
    BY <1>0, <1>1
  <2> QED
    BY <1>1, <2>1, IndexesFinite
<1>3. A \in SUBSET S /\ IsFiniteSet(A) /\ IsFiniteSet(S \ A)
  BY <1>2, FS_Subset
<1>4. \A j \in S : Recorded[j] \in Int
  BY <1>0, <1>2, RecordedNat
<1> HIDE DEF E, S, R
<1>5. Renames(b, Recorded, A, log, R)
  <2>1. ASSUME NEW x \in A PROVE b[x] \in R /\ Recorded[x] \in Int /\ log[b[x]] = Recorded[x]
    <3>1. x \in Int /\ x \in S /\ b[x] = BucketStart(x) /\ BucketStart(x) \in DOMAIN log
      BY <1>2
    <3> QED
      BY <1>1, <1>4, <3>1 DEF Recorded
  <2>2. ASSUME NEW x \in A, NEW y \in A, b[x] = b[y] PROVE x = y
    <3>1. x \in Int /\ y \in Int /\ BucketStart(x) = BucketStart(y)
      BY <1>2, <2>2
    <3> QED
      BY <3>1, InBuckets
  <2>3. ASSUME NEW y \in R PROVE \E x \in A : y = b[x]
    <3>1. PICK j \in Int : y = BucketStart(j)
      BY <1>1
    <3>2. j \in A
      BY <1>1, <3>1
    <3> QED
      BY <3>1, <3>2
  <2> HIDE DEF A, b
  <2> QED
    BY <2>1, <2>2, <2>3 DEF Renames
<1>6. \A j \in S \ A : Recorded[j] = 0
  BY <1>2 DEF Recorded
<1> HIDE DEF A, b
<1>7. SumFunctionOnSet(log, R) = SumFunctionOnSet(Recorded, A)
  BY <1>3, <1>5, SumRenamed
<1>8. SumFunctionOnSet(Recorded, S) = SumFunctionOnSet(Recorded, A) + SumFunctionOnSet(Recorded, S \ A)
  BY <1>2, <1>3, <1>4, SumDisjoint
<1>9. SumFunctionOnSet(Recorded, S \ A) = 0
  BY <1>3, <1>6, SumNat
<1>10. SumFunctionOnSet(Recorded, A) \in Int
  BY <1>3, <1>4, SumInt
<1> QED
  BY <1>7, <1>8, <1>9, <1>10 DEF S, R, E

(* However the clock jumps, the sum the average is taken of is exactly the *)
(* number of requests recorded in the window (Record, WindowAverage), for  *)
(* every window and every granularity of whole seconds.                    *)
THEOREM SumsExactly == ASSUME Aligned PROVE Spec => []WindowSumExact
<1>1. RingInv => WindowSumExact
  BY WindowSumIs, WindowLog DEF WindowSumExact
<1> QED
  BY <1>1, RingInvariance, PTL
-----------------------------------------------------------------------------
(* A quotient against a bound and against zero.                            *)
LEMMA Quotient ==
    ASSUME NEW x \in Nat, NEW n \in Nat \ {0}
    PROVE  /\ x \div n \in Nat
           /\ \A y \in Nat : x <= n * y => x \div n <= y
           /\ x \div n = 0 <=> x < n
<1> DEFINE q == x \div n
           m == x % n
<1>1. q \in Int /\ m \in 0..n-1 /\ x = n * q + m /\ n * q \in Int
  BY DivMod
<1>2. q \in Nat
  <2>1. q <= -1 => n * q <= -n
    BY <1>1, Multiple
  <2> HIDE DEF q, m
  <2> DEFINE z == n * q
  <2> HIDE DEF z
  <2> QED
    BY <1>1, <2>1 DEF z
<1>3. ASSUME NEW y \in Nat, x <= n * y PROVE q <= y
  <2>1. n * (q - y) >= n => n * q - n * y >= n
    BY <1>1, Scaled
  <2>2. q - y >= 1 => n * (q - y) >= n
    BY <1>1, Multiple
  <2>3. n * y \in Int
    OBVIOUS
  <2> DEFINE u == n * q
             v == n * y
  <2>4. q - y >= 1 => u - v >= n
    BY <2>1, <2>2
  <2> HIDE DEF q, m, u, v
  <2> QED
    BY <1>1, <1>3, <2>3, <2>4 DEF u, v
<1>4. q = 0 <=> x < n
  <2>1. q = 0 => n * q = 0
    OBVIOUS
  <2>2. q >= 1 => n * q >= n
    BY <1>1, Multiple
  <2> DEFINE u == n * q
  <2> HIDE DEF q, m, u
  <2> QED
    BY <1>1, <1>2, <2>1, <2>2 DEF u
<1> QED
  BY <1>2, <1>3, <1>4

(* The number of buckets the average is divided by: from the first write   *)
(* to the last, a ring of them at most.                                    *)
LEMMA NumBIs ==
    ASSUME Aligned, RingInv
    PROVE  /\ NumB \in Nat \ {0} /\ NumB <= NB
           /\ lastWrite # ZeroTime =>
                LET n == TimeToIndex(lastWrite) - TimeToIndex(firstWrite) + 1
                IN  NumB = IF n < NB THEN n ELSE NB
<1>0. NB \in Nat \ {0} /\ Granularity \in Nat \ {0}
  BY NBPositive, BucketsAssumption
<1>1. CASE lastWrite = ZeroTime
  <2>1. firstWrite = lastWrite /\ lastWrite \in Int
    BY <1>1, BucketsAssumption DEF RingInv, ZeroTime
  <2>2. 0 \div Granularity = 0
    <3>1. Granularity * 0 + 0 = 0 /\ 0 \in 0..Granularity-1
      BY <1>0
    <3> QED
      BY <1>0, <3>1, DivUnique
  <2>3. NumB = Min({1, NB})
    BY <2>1, <2>2 DEF NumB
  <2> HIDE DEF NB
  <2>4. NumB = IF 1 < NB THEN 1 ELSE NB
    BY <1>0, <2>3, OfTwo
  <2> QED
    BY <1>0, <1>1, <2>4
<1>2. CASE lastWrite # ZeroTime
  <2> DEFINE L == TimeToIndex(lastWrite)
             F == TimeToIndex(firstWrite)
             n == L - F + 1
  <2>1. /\ L \in Int /\ lastWrite = BucketStart(L)
        /\ F \in Int /\ firstWrite = BucketStart(F) /\ F <= L
    BY <1>2, Written
  <2> HIDE DEF L, F
  <2>2. (lastWrite - firstWrite) \div Granularity = L - F
    BY <2>1, InBuckets
  <2>3. NumB = Min({n, NB}) /\ n \in Int /\ n >= 1
    <3>1. (lastWrite - firstWrite) \div Granularity + 1 = n
      BY <2>2
    <3>2. n \in Int /\ n >= 1
      BY <2>1
    <3> HIDE DEF n
    <3> QED
      BY <3>1, <3>2, Zenon DEF NumB
  <2> HIDE DEF n, NB
  <2>4. NumB = IF n < NB THEN n ELSE NB
    BY <1>0, <2>3, OfTwo
  <2> QED
    BY <1>0, <2>3, <2>4 DEF n, L, F
<1> QED
  BY <1>1, <1>2

(* The buckets with requests are among those counted, so the sum is at     *)
(* most their number times what any of them holds.                         *)
LEMMA SumWithin ==
    ASSUME Aligned, RingInv, NEW t \in Times, NEW m \in Nat,
           \A b \in InWindow(t) : log[b] <= m
    PROVE  WindowSum(t) \in Nat /\ WindowSum(t) <= NumB * m
<1> DEFINE E == EndIndex(TimeToIndex(t))
           L == TimeToIndex(lastWrite)
           F == TimeToIndex(firstWrite)
           S == E-NB+1..E
<1>0. NB \in Nat \ {0} /\ TypeOK /\ NumB \in Nat \ {0}
  BY NBPositive, NumBIs DEF RingInv
<1>1. /\ E \in Int /\ WindowSum(t) = SumFunctionOnSet(Recorded, S)
      /\ \A j \in Int : BucketStart(j) \in InWindow(t) <=>
           BucketStart(j) \in DOMAIN log /\ j \in S
  BY WindowSumIs, WindowIndexes
<1>2. E-NB+1 \in Int
  BY <1>0, <1>1
<1>3. /\ IsFiniteSet(S) /\ \A j \in S : j \in Int /\ Recorded[j] \in Nat
  <2> HIDE DEF E
  <2>1. IsFiniteSet(S) /\ \A j \in S : j \in Int
    BY <1>1, <1>2, IndexesFinite
  <2> QED
    BY <1>0, <2>1, RecordedNat
<1>4. \A j \in S : Recorded[j] <= m
  <2> HIDE DEF S, E
  <2> QED
    BY <1>1, <1>3 DEF Recorded
<1>5. WindowSum(t) \in Nat /\ ((\A j \in S : Recorded[j] = 0) => WindowSum(t) = 0)
  <2> HIDE DEF S, E
  <2> QED
    BY <1>1, <1>3, SumNat
<1>6. NumB * m \in Nat
  BY <1>0
<1>7. CASE lastWrite = ZeroTime
  <2>1. \A b \in DOMAIN log : log[b] = 0
    BY <1>7 DEF RingInv
  <2>2. \A j \in S : Recorded[j] = 0
    <3> HIDE DEF S
    <3> QED
      BY <1>3, <2>1 DEF Recorded
  <2> QED
    BY <1>5, <1>6, <2>2
<1>8. CASE lastWrite # ZeroTime
  <2>1. /\ L \in Int /\ lastWrite = BucketStart(L) /\ F \in Int /\ F <= L
        /\ \A j \in Int : j > L => Recorded[j] = 0
        /\ \A j \in L-NB+1..L : Recorded[j] > 0 => F <= j
    BY <1>8, Written DEF Kept
  <2>2. NumB = IF L - F + 1 < NB THEN L - F + 1 ELSE NB
    BY <1>8, NumBIs
  <2>3. L <= E
    <3>1. TimeToIndex(t) \in Int /\ BucketStart(TimeToIndex(t)) \in Int
      BY TimeIndex, InBuckets
    <3>2. BucketStart(TimeToIndex(t)) > lastWrite => L <= TimeToIndex(t)
      <4> DEFINE i == TimeToIndex(t)
      <4> HIDE DEF i, L
      <4>1. /\ BucketStart(L) \in Int
            /\ BucketStart(L) <= BucketStart(i) <=> L <= i
        BY <2>1, <3>1, InBuckets DEF i
      <4>2. BucketStart(i) > lastWrite => L <= i
        BY <2>1, <3>1, <4>1 DEF i
      <4> QED
        BY <4>2 DEF i
    <3> QED
      BY <2>1, <3>1, <3>2 DEF EndIndex
  <2> HIDE DEF E, L, F
  <2> DEFINE lo == IF F > E-NB+1 THEN F ELSE E-NB+1
             A == lo..L
             c == Cardinality(A)
  <2>4. lo \in Int /\ A \in SUBSET S
    BY <1>0, <1>1, <1>2, <2>1, <2>3
  <2>5. c \in Nat /\ c <= NumB
    <3>1. c = IF lo > L THEN 0 ELSE L - lo + 1
      <4> HIDE DEF lo
      <4> QED
        BY <2>1, <2>4, IndexesFinite
    <3> HIDE DEF c
    <3> QED
      BY <1>0, <1>1, <2>1, <2>2, <2>3, <3>1
  <2>6. \A j \in S \ A : Recorded[j] = 0
    <3>1. SUFFICES ASSUME NEW j \in S \ A, Recorded[j] # 0 PROVE FALSE
      OBVIOUS
    <3>2. j \in Int /\ Recorded[j] > 0
      BY <1>3, <3>1
    <3>3. j <= L
      BY <2>1, <3>2
    <3>4. j \in L-NB+1..L
      BY <1>0, <1>1, <2>1, <2>3, <3>2, <3>3
    <3>5. F <= j
      BY <2>1, <3>2, <3>4
    <3> QED
      BY <1>0, <1>1, <2>1, <3>2, <3>3, <3>5
  <2> HIDE DEF S, A
  <2>7. IsFiniteSet(A) /\ IsFiniteSet(S \ A)
    BY <1>3, <2>4, FS_Subset
  <2>8. SumFunctionOnSet(Recorded, S) = SumFunctionOnSet(Recorded, A) + SumFunctionOnSet(Recorded, S \ A)
    BY <1>3, <2>4, SumDisjoint
  <2>9. SumFunctionOnSet(Recorded, S \ A) = 0
    BY <2>6, <2>7, SumNat
  <2>10. SumFunctionOnSet(Recorded, A) <= c * m
    <3>1. \A j \in A : Recorded[j] \in Nat /\ Recorded[j] <= m
      BY <1>3, <1>4, <2>4
    <3> QED
      BY <2>7, <3>1, SumAtMost
  <2>11. SumFunctionOnSet(Recorded, A) \in Nat
    BY <1>3, <2>4, <2>7, SumNat
  <2> HIDE DEF c
  <2>12. c * m <= NumB * m /\ c * m \in Nat
    <3>1. NumB - c \in Nat
      BY <1>0, <2>5
    <3>2. (NumB - c) * m \in Nat
      BY <3>1
    <3>3. (NumB - c) * m = NumB * m - c * m /\ c * m \in Nat
      BY <1>0, <2>5
    <3> QED
      BY <1>6, <3>2, <3>3
  <2> QED
    BY <1>1, <1>6, <2>8, <2>9, <2>10, <2>11, <2>12
<1> QED
  BY <1>7, <1>8

(* The busiest bucket of the window.                                       *)
Peak(t) == Max({0} \cup {log[b] : b \in InWindow(t)})

(* It is a natural number and no bucket of the window holds more.          *)
LEMMA PeakIs ==
    ASSUME TypeOK, NEW t \in Times
    PROVE  Peak(t) \in Nat /\ \A b \in InWindow(t) : log[b] \in Nat /\ log[b] <= Peak(t)
<1> DEFINE R == InWindow(t)
           P == {log[b] : b \in R}
           S == {0} \cup P
<1>1. IsFiniteSet(R) /\ \A b \in R : log[b] \in Nat
  <2>1. R \in SUBSET {Truncate(u) : u \in Times}
    BY DEF InWindow, TypeOK
  <2>2. IsFiniteSet(R)
    BY <2>1, Finite, FS_Subset
  <2> HIDE DEF R
  <2> QED
    BY <2>1, <2>2, BucketsAssumption DEF TypeOK
<1> HIDE DEF R
<1>2. IsFiniteSet(P)
  BY <1>1, ImageFinite
<1>3. IsFiniteSet(S) /\ S # {} /\ S \subseteq Nat /\ \A b \in R : log[b] \in S
  <2>1. IsFiniteSet({0})
    BY FS_Singleton
  <2>2. IsFiniteSet({0} \cup P)
    <3> HIDE DEF P
    <3> QED
      BY <1>2, <2>1, FS_Union
  <2> QED
    BY <1>1, <2>2
<1> HIDE DEF S
<1>4. Max(S) \in S /\ \A x \in S : x <= Max(S)
  <2>1. S \subseteq Int
    BY <1>3
  <2> QED
    BY <1>3, <2>1, MaxOf
<1>5. Peak(t) = Max(S)
  BY DEF Peak, S, R
<1> QED
  BY <1>1, <1>3, <1>4, <1>5 DEF R

(* The average never exceeds the busiest bucket of the window, since it is *)
(* divided by every bucket from the first write on (firstWrite), for every *)
(* window and every granularity of whole seconds.                          *)
THEOREM AverageBelowPeak == ASSUME Aligned PROVE Spec => []AverageWithinPeak
<1>1. ASSUME RingInv PROVE AverageWithinPeak
  <2>1. SUFFICES ASSUME NEW t \in Times PROVE WindowAverage(t) <= 1000 * Peak(t)
    BY DEF AverageWithinPeak, Peak
  <2>2. Peak(t) \in Nat /\ \A b \in InWindow(t) : log[b] <= Peak(t)
    BY <1>1, PeakIs DEF RingInv
  <2>3. WindowSum(t) \in Nat /\ WindowSum(t) <= NumB * Peak(t)
    BY <1>1, <2>2, SumWithin
  <2>4. NumB \in Nat \ {0}
    BY <1>1, NumBIs
  <2> DEFINE x == WindowSum(t) * 1000
             y == 1000 * Peak(t)
  <2>5. x \in Nat /\ y \in Nat /\ x <= NumB * y
    <3>1. NumB * (1000 * Peak(t)) = 1000 * (NumB * Peak(t)) /\ NumB * Peak(t) \in Nat
      BY <2>2, <2>4
    <3> QED
      BY <2>2, <2>3, <3>1
  <2> HIDE DEF x, y
  <2>6. x \div NumB <= y
    BY <2>4, <2>5, Quotient
  <2> QED
    BY <2>6 DEF WindowAverage, x, y
<1> QED
  BY <1>1, RingInvariance, PTL

(* The average is zero exactly when nothing was recorded in the window, as *)
(* long as a single request among all the buckets is not cut off by the    *)
(* rounding to thousandths (roundToNDigits).                               *)
THEOREM ZeroWhenQuiet ==
    ASSUME Aligned, NB <= 1000
    PROVE  Spec => []ZeroOnlyWhenQuiet
<1>1. ASSUME RingInv PROVE ZeroOnlyWhenQuiet
  <2>1. SUFFICES ASSUME NEW t \in Times
                 PROVE  WindowAverage(t) = 0 <=> \A b \in InWindow(t) : log[b] = 0
    BY DEF ZeroOnlyWhenQuiet
  <2> DEFINE R == InWindow(t)
             sum == WindowSum(t)
             x == sum * 1000
  <2>2. \A b \in R : log[b] \in Nat
    BY <1>1, PeakIs DEF RingInv
  <2>3. IsFiniteSet(R)
    <3>1. R \in SUBSET {Truncate(u) : u \in Times}
      BY <1>1 DEF InWindow, RingInv, TypeOK
    <3> QED
      BY <3>1, Finite, FS_Subset
  <2>4. sum = SumFunctionOnSet(log, R)
    BY <1>1, WindowSumIs, WindowLog
  <2> HIDE DEF R, sum
  <2>5. sum \in Nat /\ (sum = 0 <=> \A b \in R : log[b] = 0)
    BY <2>2, <2>3, <2>4, SumNat
  <2>6. NumB \in Nat \ {0} /\ NumB <= 1000
    BY <1>1, NumBIs, NBPositive
  <2>7. x \in Nat /\ (x < NumB <=> sum = 0)
    BY <2>5, <2>6
  <2> HIDE DEF x
  <2>8. x \div NumB = 0 <=> x < NumB
    BY <2>6, <2>7, Quotient
  <2> QED
    BY <2>5, <2>7, <2>8 DEF WindowAverage, x, sum, R
<1> QED
  BY <1>1, RingInvariance, PTL
=============================================================================
