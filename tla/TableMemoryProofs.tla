------------------------- MODULE TableMemoryProofs -------------------------
(***************************************************************************)
(* The routing memory routes to an oldest claimant of the longest prefix,  *)
(* and forgets nothing it should keep, for any number of HTTPScaledObjects *)
(* with any hosts and path prefixes.                                       *)
(***************************************************************************)
EXTENDS TableMemoryUse, SetTheorems, SequenceTheorems

(* What a part of a key may be: the host comes first.                      *)
Part == Seq(Texts) \cup Texts

(* The assumption on the constants, without the empty text.                *)
LEMMA Constants ==
    /\ CreationTimes \subseteq Nat
    /\ \A list \in Hosts \cup PathPrefixes : list \subseteq Seq(Texts)
    /\ RequestHosts \cup RequestPaths \subseteq Seq(Texts)
BY Zenon, MemoryAssumption

(* A sequence of one element.                                              *)
LEMMA Singleton == ASSUME NEW S, NEW x \in S PROVE <<x>> \in Seq(S)
OBVIOUS

(* Trimming a path leaves a path.                                          *)
LEMMA TrimType == ASSUME NEW path \in Seq(Texts) PROVE TrimSlashes(path) \in Seq(Texts)
<1> DEFINE solid == {i \in DOMAIN path : path[i] # ""}
<1>1. TrimSlashes(path) = IF solid = {} THEN <<>> ELSE SubSeq(path, Min(solid), Max(solid))
  BY Zenon DEF TrimSlashes
<1>2. solid \subseteq DOMAIN path
  BY Zenon
<1> HIDE DEF solid
<1>3. solid \subseteq 1..Len(path) /\ solid \subseteq Int /\ Len(path) \in Nat
  BY <1>2, LenProperties
<1>4. CASE solid # {}
  <2>1. IsFiniteSet(1..Len(path))
    BY <1>3, FS_Interval
  <2>2. IsFiniteSet(solid)
    BY <1>3, <2>1, FS_Subset
  <2>3. Min(solid) \in 1..Len(path) /\ Max(solid) \in 1..Len(path)
    BY <1>3, <1>4, <2>2, MinOf, MaxOf
  <2>4. SubSeq(path, Min(solid), Max(solid)) \in Seq(Texts)
    BY <2>3
  <2> QED
    BY <1>1, <1>4, <2>4
<1>5. CASE solid = {}
  <2>1. TrimSlashes(path) = <<>>
    BY Zenon, <1>1, <1>5
  <2> QED
    BY <2>1
<1> QED
  BY <1>4, <1>5

(* A key is a sequence.                                                    *)
LEMMA KeyType ==
    ASSUME NEW host \in Seq(Texts), NEW path \in Seq(Texts)
    PROVE  NewKey(host, path) \in Seq(Part)
<1> DEFINE h == IF Len(host) > 1 THEN SubSeq(host, 1, Len(host) - 1) ELSE host
<1>1. h \in Seq(Texts)
  <2>1. CASE Len(host) > 1
    <3>1. SubSeq(host, 1, Len(host) - 1) \in Seq(Texts)
      BY <2>1
    <3> QED
      BY <2>1, <3>1
  <2> QED
    BY <2>1
<1> HIDE DEF h
<1>2. <<h>> \in Seq(Part)
  BY <1>1, Singleton DEF Part
<1>3. TrimSlashes(path) \in Seq(Part)
  <2>1. Texts \subseteq Part
    BY DEF Part
  <2> QED
    BY <2>1, TrimType, SeqMonotonic
<1>4. <<h>> \o TrimSlashes(path) \in Seq(Part)
  BY <1>2, <1>3, ConcatProperties
<1> QED
  BY <1>4 DEF NewKey, h

(* So are the keys of an object...                                         *)
LEMMA ObjectKeyType ==
    ASSUME NEW n, NEW o \in Pool(n) PROVE NewKeysFromHTTPSO(o) \subseteq Seq(Part)
<1>1. o.hosts \subseteq Seq(Texts) /\ o.pathPrefixes \subseteq Seq(Texts)
  BY Constants DEF Pool
<1>2. OrEmpty(o.hosts) \subseteq Seq(Texts) /\ OrEmpty(o.pathPrefixes) \subseteq Seq(Texts)
  <2>1. <<"">> \in Seq(Texts)
    BY Zenon, Singleton, MemoryAssumption
  <2> QED
    BY Zenon, <1>1, <2>1 DEF OrEmpty
<1> QED
  BY <1>2, KeyType DEF NewKeysFromHTTPSO

(* ...and of a request.                                                    *)
LEMMA RequestKeyType == RequestKeys \subseteq Seq(Part)
BY KeyType, Constants DEF RequestKeys

(* Of the prefixes of a key some is longest...                             *)
LEMMA LongestPrefix ==
    ASSUME NEW key \in Seq(Part), NEW P \in SUBSET Seq(Part), P # {},
           \A p \in P : IsPrefix(p, key)
    PROVE  \E p \in P : \A q \in P : Len(q) <= Len(p)
<1> DEFINE lengths == {Len(p) : p \in P}
<1>1. ASSUME NEW p \in P PROVE Len(p) \in 0..Len(key)
  <2>1. Len(p) \in Nat /\ Len(key) \in Nat
    BY LenProperties
  <2> QED
    BY <2>1 DEF IsPrefix
<1>2. lengths # {} /\ lengths \subseteq 0..Len(key)
  BY <1>1
<1> HIDE DEF lengths
<1>3. IsFiniteSet(0..Len(key)) /\ 0..Len(key) \subseteq Int
  BY LenProperties, FS_Interval
<1>4. IsFiniteSet(lengths) /\ lengths \subseteq Int
  BY <1>2, <1>3, FS_Subset
<1>5. Max(lengths) \in lengths /\ \A l \in lengths : l <= Max(lengths)
  BY <1>2, <1>4, MaxOf
<1>6. PICK p \in P : Len(p) = Max(lengths)
  BY <1>5 DEF lengths
<1>7. \A q \in P : Len(q) \in lengths
  BY DEF lengths
<1> QED
  BY <1>5, <1>6, <1>7

(* ...and no other is as long.                                             *)
LEMMA SamePrefix ==
    ASSUME NEW key, NEW p, NEW q, IsPrefix(p, key), IsPrefix(q, key), Len(p) = Len(q)
    PROVE  p = q
BY Zenon DEF IsPrefix
-----------------------------------------------------------------------------
(* Nothing is remembered at first.                                         *)
LEMMA InitHolds == Init => IInv
<1> SUFFICES ASSUME Init PROVE IInv
  OBVIOUS
<1>1. DOMAIN objs = {} /\ DOMAIN tm.store = {} /\ objs = <<>> /\ tm.index = <<>> /\ tm.store = <<>>
  BY DEF Init, NewTableMemory
<1>2. objs = [n \in DOMAIN objs |-> objs[n]]
  BY <1>1
<1>3. tm = [index |-> objs, store |-> tm.store]
  BY <1>1 DEF Init, NewTableMemory
<1>4. tm.store \in OldestOwners(objs)
  <2>1. Range(objs) = {}
    BY <1>1 DEF Range
  <2>2. UNION {NewKeysFromHTTPSO(o) : o \in Range(objs)} = {}
    BY <2>1
  <2> QED
    BY <1>1, <2>1, <2>2 DEF OldestOwners
<1> QED
  BY <1>1, <1>2, <1>3, <1>4 DEF IInv

(* Until one is forgotten, each key belongs to an oldest claimant, also    *)
(* after an object with a new name has claimed its keys.                   *)
LEMMA OldestKept ==
    ASSUME NEW O, NEW name, name \notin DOMAIN O, NEW o, o.created \in Nat,
           \A n \in DOMAIN O : O[n].created \in Nat,
           NEW st \in OldestOwners(O), NEW taken,
           taken = {key \in NewKeysFromHTTPSO(o) :
                      ~(key \in DOMAIN st /\ o.created > st[key].created)}
    PROVE  Insert(st, taken, o) \in OldestOwners(Insert(O, {name}, o))
<1> DEFINE P == Insert(O, {name}, o)
           nst == Insert(st, taken, o)
           keys == UNION {NewKeysFromHTTPSO(p) : p \in Range(O)}
           nkeys == UNION {NewKeysFromHTTPSO(p) : p \in Range(P)}
<1>1. Range(P) = Range(O) \cup {o}
  <2>1. DOMAIN P = DOMAIN O \cup {name} /\ P[name] = o /\ \A n \in DOMAIN O : P[n] = O[n]
    BY DEF Insert
  <2> HIDE DEF P
  <2> QED
    BY <2>1 DEF Range
<1>2. /\ st \in [keys -> Range(O)]
      /\ \A key \in keys : /\ st[key] \in Range(O) /\ key \in NewKeysFromHTTPSO(st[key])
                          /\ \A p \in Range(O) : key \in NewKeysFromHTTPSO(p)
                                                 => st[key].created <= p.created
  BY DEF OldestOwners
<1>3. \A p \in Range(O) : p.created \in Nat
  BY DEF Range
<1> HIDE DEF P
<1>4. nkeys = keys \cup NewKeysFromHTTPSO(o)
  BY <1>1
<1>5. DOMAIN st = keys
  BY <1>2
<1>6. taken \subseteq NewKeysFromHTTPSO(o) /\ keys \cup taken = keys \cup NewKeysFromHTTPSO(o)
  BY <1>5
<1>7. \A key \in NewKeysFromHTTPSO(o) \ taken : key \in keys /\ st[key].created < o.created
  BY <1>2, <1>3, <1>5
<1>8. \A key \in taken \cap keys : o.created <= st[key].created
  BY <1>2, <1>3, <1>5
<1>9. \A key \in keys, p \in Range(O) : key \in NewKeysFromHTTPSO(p) => st[key].created <= p.created
  BY <1>2
<1>10. \A p \in Range(O) : NewKeysFromHTTPSO(p) \subseteq keys
  OBVIOUS
<1> HIDE DEF keys, nkeys
<1>11. /\ nst = [key \in nkeys |-> nst[key]]
       /\ \A key \in taken : nst[key] = o
       /\ \A key \in keys \ taken : nst[key] = st[key]
  <2>1. nst = [key \in keys \cup taken |-> IF key \in taken THEN o ELSE st[key]]
    BY Zenon, <1>5 DEF Insert
  <2>2. nkeys = keys \cup taken
    BY <1>4, <1>6
  <2> HIDE DEF nst
  <2> QED
    BY <2>1, <2>2
<1> HIDE DEF nst
<1>12. \A key \in nkeys : nst[key] \in Range(P) /\ key \in NewKeysFromHTTPSO(nst[key])
  BY <1>1, <1>2, <1>4, <1>6, <1>11
<1>13. ASSUME NEW key \in nkeys, NEW p \in Range(P), key \in NewKeysFromHTTPSO(p)
       PROVE  nst[key].created <= p.created
  <2>1. CASE key \in taken
    <3>1. CASE p \in Range(O)
      <4>1. key \in keys /\ st[key].created <= p.created /\ o.created <= st[key].created
        <5>1. key \in keys
          BY <1>10, <1>13, <3>1
        <5> QED
          BY <1>8, <1>9, <1>13, <2>1, <3>1, <5>1
      <4>2. st[key].created \in Nat /\ p.created \in Nat
        BY <1>2, <1>3, <3>1, <4>1
      <4> QED
        BY <1>11, <2>1, <4>1, <4>2
    <3> QED
      BY <1>1, <1>11, <2>1, <3>1
  <2>2. CASE key \notin taken
    <3>1. key \in keys /\ nst[key] = st[key] /\ st[key].created \in Nat
      BY <1>2, <1>3, <1>4, <1>6, <1>11, <2>2
    <3>2. CASE p \in Range(O)
      BY <1>9, <1>13, <3>1, <3>2
    <3>3. CASE p = o
      BY <1>7, <1>13, <2>2, <3>1, <3>3
    <3> QED
      BY <1>1, <3>2, <3>3
  <2> QED
    BY <2>1, <2>2
<1>14. nst \in [nkeys -> Range(P)]
  BY <1>11, <1>12
<1> QED
  BY <1>12, <1>13, <1>14 DEF OldestOwners, nkeys, P, nst

(* Remembering an object keeps the invariant.                              *)
LEMMA RememberKeeps == ASSUME IInv, RememberOne PROVE IInv'
<1>0. PICK name \in Names \ DOMAIN objs : \E o \in Pool(name) :
         ~forgot /\ tm' = Remember(tm, o) /\ objs' = Insert(objs, {name}, o) /\ UNCHANGED forgot
  BY DEF RememberOne
<1>1. PICK o \in Pool(name) :
         ~forgot /\ tm' = Remember(tm, o) /\ objs' = Insert(objs, {name}, o) /\ UNCHANGED forgot
  BY <1>0
<1> DEFINE taken == {key \in NewKeysFromHTTPSO(o) :
                       ~(key \in DOMAIN tm.store /\ o.created > tm.store[key].created)}
           nst == Insert(tm.store, taken, o)
<1>2. o.name = name /\ o.created \in Nat /\ tm.index = objs
  BY Constants DEF Pool, IInv
<1>3. tm' = [index |-> objs', store |-> nst]
  BY Zenon, <1>1, <1>2 DEF Remember
<1>4. tm'.store = nst /\ tm' = [index |-> objs', store |-> tm'.store]
  BY <1>3
<1>5. /\ DOMAIN objs' = DOMAIN objs \cup {name} /\ objs'[name] = o
      /\ \A n \in DOMAIN objs : objs'[n] = objs[n]
      /\ objs' = [n \in DOMAIN objs' |-> objs'[n]]
  BY <1>1 DEF Insert
<1>6. /\ DOMAIN nst = DOMAIN tm.store \cup taken
      /\ \A key \in taken : nst[key] = o
      /\ \A key \in DOMAIN tm.store \ taken : nst[key] = tm.store[key]
  <2> HIDE DEF taken
  <2> QED
    BY DEF Insert
<1>7. nst \in OldestOwners(objs')
  <2>1. \A n \in DOMAIN objs : objs[n].created \in Nat
    BY Constants DEF IInv, Pool
  <2>2. tm.store \in OldestOwners(objs)
    BY <1>1 DEF IInv
  <2> HIDE DEF taken
  <2> QED
    BY <1>1, <1>2, <2>1, <2>2, OldestKept DEF taken
<1>8. taken \subseteq NewKeysFromHTTPSO(o)
  OBVIOUS
<1> HIDE DEF taken, nst
<1>9. ASSUME NEW key \in DOMAIN nst
      PROVE  \E n \in DOMAIN objs' : nst[key] = objs'[n] /\ key \in NewKeysFromHTTPSO(objs'[n])
  <2>1. CASE key \in taken
    BY <1>5, <1>6, <1>8, <2>1
  <2>2. CASE key \notin taken
    <3>1. key \in DOMAIN tm.store /\ nst[key] = tm.store[key]
      BY <1>6, <1>9, <2>2
    <3>2. PICK n \in DOMAIN objs : tm.store[key] = objs[n] /\ key \in NewKeysFromHTTPSO(objs[n])
      BY <3>1 DEF IInv
    <3> QED
      BY <1>5, <3>1, <3>2
  <2> QED
    BY <2>1, <2>2
<1>10. DOMAIN objs' \subseteq Names /\ \A n \in DOMAIN objs' : objs'[n] \in Pool(n)
  BY <1>1, <1>5 DEF IInv
<1> QED
  BY <1>4, <1>5, <1>7, <1>9, <1>10 DEF IInv, Pool, OldestOwners

(* The objects after one of them has gone.                                 *)
LEMMA ForgetEffect ==
    ASSUME IInv, NEW name \in DOMAIN objs, tm' = Forget(tm, name),
           objs' = Restrict(objs, DOMAIN objs \ {name})
    PROVE  /\ DOMAIN objs' = DOMAIN objs \ {name} /\ \A n \in DOMAIN objs' : objs'[n] = objs[n]
           /\ objs' = [n \in DOMAIN objs' |-> objs'[n]]
           /\ tm' = [index |-> objs', store |-> tm'.store]
           /\ DOMAIN tm'.store = {key \in DOMAIN tm.store : tm.store[key].name # name}
           /\ \A key \in DOMAIN tm'.store : tm'.store[key] = tm.store[key]
<1> DEFINE own == {key \in DOMAIN tm.store :
                     key \in NewKeysFromHTTPSO(tm.index[name]) /\ tm.store[key].name = name}
           nst == Restrict(tm.store, DOMAIN tm.store \ own)
<1>1. tm.index = objs
  BY DEF IInv
<1>2. tm' = [index |-> objs', store |-> nst]
  BY Zenon, <1>1 DEF Forget
<1>3. tm'.store = nst /\ tm' = [index |-> objs', store |-> tm'.store]
  BY <1>2
<1>4. ASSUME NEW key \in DOMAIN tm.store, tm.store[key].name = name PROVE key \in own
  <2>1. PICK n \in DOMAIN objs : tm.store[key] = objs[n] /\ key \in NewKeysFromHTTPSO(objs[n])
    BY DEF IInv
  <2>2. objs[n].name = n
    BY DEF IInv, Pool
  <2> QED
    BY <1>1, <1>4, <2>1, <2>2
<1>5. own = {key \in DOMAIN tm.store : tm.store[key].name = name}
  BY <1>4
<1> HIDE DEF own
<1>6. DOMAIN nst = DOMAIN tm.store \ own /\ \A key \in DOMAIN nst : nst[key] = tm.store[key]
  BY DEF Restrict
<1> HIDE DEF nst
<1>7. DOMAIN nst = {key \in DOMAIN tm.store : tm.store[key].name # name}
  BY <1>5, <1>6
<1>8. /\ DOMAIN objs' = DOMAIN objs \ {name} /\ \A n \in DOMAIN objs' : objs'[n] = objs[n]
      /\ objs' = [n \in DOMAIN objs' |-> objs'[n]]
  BY DEF Restrict
<1> QED
  BY <1>3, <1>6, <1>7, <1>8

(* Forgetting an object keeps the invariant.                               *)
LEMMA ForgetKeeps == ASSUME IInv, ForgetOne PROVE IInv'
<1>1. PICK name \in DOMAIN objs :
         /\ tm' = Forget(tm, name) /\ objs' = Restrict(objs, DOMAIN objs \ {name})
         /\ forgot' = TRUE
  BY DEF ForgetOne
<1>2. /\ DOMAIN objs' = DOMAIN objs \ {name} /\ \A n \in DOMAIN objs' : objs'[n] = objs[n]
      /\ objs' = [n \in DOMAIN objs' |-> objs'[n]]
      /\ tm' = [index |-> objs', store |-> tm'.store]
      /\ DOMAIN tm'.store = {key \in DOMAIN tm.store : tm.store[key].name # name}
      /\ \A key \in DOMAIN tm'.store : tm'.store[key] = tm.store[key]
  BY <1>1, ForgetEffect
<1>3. ASSUME NEW key \in DOMAIN tm'.store
      PROVE  \E n \in DOMAIN objs' : tm'.store[key] = objs'[n] /\ key \in NewKeysFromHTTPSO(objs'[n])
  <2>1. key \in DOMAIN tm.store /\ tm'.store[key] = tm.store[key] /\ tm.store[key].name # name
    BY <1>2, <1>3
  <2>2. PICK n \in DOMAIN objs : tm.store[key] = objs[n] /\ key \in NewKeysFromHTTPSO(objs[n])
    BY <2>1 DEF IInv
  <2>3. objs[n].name = n
    BY DEF IInv, Pool
  <2> QED
    BY <1>2, <2>1, <2>2, <2>3
<1>4. DOMAIN objs' \subseteq Names /\ \A n \in DOMAIN objs' : objs'[n] \in Pool(n)
  BY <1>2 DEF IInv
<1> QED
  BY <1>1, <1>2, <1>3, <1>4 DEF IInv, Pool

(* IInv: the index has the objects, and a key in the store belongs to one  *)
(* that claims it, an oldest one unless something was forgotten.           *)
THEOREM Invariance == Spec => []IInv
<1>1. IInv /\ UNCHANGED vars => IInv'
  BY DEF vars, IInv, Pool, OldestOwners
<1>2. IInv /\ [Next]_vars => IInv'
  BY <1>1, RememberKeeps, ForgetKeeps DEF Next
<1> QED
  BY <1>2, InitHolds, PTL DEF Spec

(* StoreAgreesWithIndex: what requests are routed to is what Recall finds. *)
THEOREM StoreAgrees == Spec => []StoreAgreesWithIndex
<1>1. IInv => StoreAgreesWithIndex
  <2> SUFFICES ASSUME IInv, NEW key \in DOMAIN tm.store
               PROVE  tm.store[key] \in Recall(tm, tm.store[key].name)
    BY DEF StoreAgreesWithIndex
  <2>1. PICK n \in DOMAIN objs : tm.store[key] = objs[n] /\ key \in NewKeysFromHTTPSO(objs[n])
    BY DEF IInv
  <2>2. objs[n].name = n /\ tm.index = objs
    BY DEF IInv, Pool
  <2> QED
    BY <2>1, <2>2 DEF Recall
<1> QED
  BY <1>1, Invariance, PTL

(* The owners of a key in a store of oldest owners, once more.             *)
LEMMA OwnersAre ==
    ASSUME IInv, ~forgot
    PROVE  /\ DOMAIN tm.store = UNION {NewKeysFromHTTPSO(o) : o \in Range(objs)}
           /\ DOMAIN tm.store \subseteq Seq(Part)
           /\ \A key \in DOMAIN tm.store :
                /\ tm.store[key] \in Range(objs) /\ key \in NewKeysFromHTTPSO(tm.store[key])
                /\ \A o \in Range(objs) : key \in NewKeysFromHTTPSO(o)
                                          => tm.store[key].created <= o.created
<1>1. tm.store \in OldestOwners(objs)
  BY DEF IInv
<1>2. \A o \in Range(objs) : NewKeysFromHTTPSO(o) \subseteq Seq(Part)
  BY ObjectKeyType DEF IInv, Range
<1> QED
  BY <1>1, <1>2 DEF OldestOwners

(* RouteToOldestOfLongest: a request goes to an oldest of the objects that *)
(* claim the longest prefix of its key (LongestPrefix of the radix tree).  *)
THEOREM RoutesToOldestOfLongest == Spec => []RouteToOldestOfLongest
<1>1. IInv => RouteToOldestOfLongest
  <2> SUFFICES ASSUME IInv, ~forgot, NEW key \in RequestKeys
               PROVE  /\ \A o \in Route(tm.store, key) : \E c \in LongestClaims(key) :
                           o = c[1] /\ \A d \in LongestClaims(key) : o.created <= d[1].created
                      /\ Route(tm.store, key) = {} <=> Claims(key) = {}
                      /\ tm.store \in OldestOwners(objs)
    BY DEF RouteToOldestOfLongest
  <2> DEFINE st == tm.store
             matches == {p \in DOMAIN st : IsPrefix(p, key)}
             best == {q \in matches : \A o \in matches : Len(o) <= Len(q)}
  <2>1. /\ DOMAIN st = UNION {NewKeysFromHTTPSO(o) : o \in Range(objs)}
        /\ DOMAIN st \subseteq Seq(Part)
        /\ \A p \in DOMAIN st :
             /\ st[p] \in Range(objs) /\ p \in NewKeysFromHTTPSO(st[p])
             /\ \A o \in Range(objs) : p \in NewKeysFromHTTPSO(o) => st[p].created <= o.created
    BY OwnersAre
  <2>2. Route(tm.store, key) = {st[p] : p \in best}
    BY Zenon DEF Route
  <2>3. ASSUME NEW c \in Claims(key)
        PROVE  /\ c[1] \in Range(objs) /\ c[2] \in NewKeysFromHTTPSO(c[1])
               /\ c[2] \in matches
    <3>1. c[1] \in Range(objs) /\ c[2] \in NewKeysFromHTTPSO(c[1]) /\ IsPrefix(c[2], key)
      BY DEF Claims
    <3>2. c[2] \in DOMAIN st
      BY <2>1, <3>1
    <3> QED
      BY <3>1, <3>2
  <2>4. ASSUME NEW p \in matches PROVE <<st[p], p>> \in Claims(key)
    <3>1. st[p] \in Range(objs) /\ p \in NewKeysFromHTTPSO(st[p]) /\ IsPrefix(p, key)
      BY <2>1
    <3> QED
      BY <3>1 DEF Claims
  <2>5. matches \in SUBSET Seq(Part) /\ \A p \in matches : IsPrefix(p, key)
    BY <2>1
  <2>6. \A p \in matches : p \in DOMAIN st
    OBVIOUS
  <2>7. best \subseteq matches /\ \A p \in best, q \in matches : Len(q) <= Len(p)
    OBVIOUS
  <2>8. matches # {} => best # {}
    <3>1. key \in Seq(Part)
      BY RequestKeyType
    <3>2. matches # {} => \E p \in matches : \A q \in matches : Len(q) <= Len(p)
      <4> HIDE DEF matches
      <4> QED
        BY <2>5, <3>1, LongestPrefix
    <3> QED
      BY <3>2
  <2> HIDE DEF matches, best
  <2>9. ASSUME NEW o \in Route(tm.store, key)
        PROVE  \E c \in LongestClaims(key) :
                 o = c[1] /\ \A d \in LongestClaims(key) : o.created <= d[1].created
    <3>1. PICK p \in best : o = st[p]
      BY <2>2, <2>9
    <3> DEFINE c == <<st[p], p>>
    <3>2. c \in LongestClaims(key)
      BY <2>3, <2>4, <2>7 DEF LongestClaims
    <3>3. ASSUME NEW d \in LongestClaims(key) PROVE o.created <= d[1].created
      <4>1. d \in Claims(key) /\ d[2] \in matches /\ d[1] \in Range(objs)
              /\ d[2] \in NewKeysFromHTTPSO(d[1])
        BY <2>3 DEF LongestClaims
      <4>2. Len(p) <= Len(d[2]) /\ Len(d[2]) <= Len(p)
        BY <2>4, <2>7, <4>1 DEF LongestClaims
      <4>3. Len(p) \in Nat /\ Len(d[2]) \in Nat
        BY <2>5, <2>7, <4>1, LenProperties
      <4>4. p = d[2]
        BY <2>5, <2>7, <4>1, <4>2, <4>3, SamePrefix
      <4> QED
        BY <2>1, <2>6, <2>7, <3>1, <4>1, <4>4
    <3> QED
      BY <3>1, <3>2, <3>3
  <2>10. Route(tm.store, key) = {} <=> Claims(key) = {}
    BY <2>2, <2>3, <2>4, <2>7, <2>8
  <2>11. tm.store \in OldestOwners(objs)
    BY DEF IInv
  <2> QED
    BY <2>9, <2>10, <2>11
<1> QED
  BY <1>1, Invariance, PTL

(* A step takes no key from an object that stays.                          *)
LEMMA SparesOthers == IInv /\ [Next]_vars => [OthersSpared]_vars
<1> SUFFICES ASSUME IInv, Next, NEW key \in DOMAIN tm.store,
                    tm.store[key].name \in DOMAIN tm'.index
             PROVE  key \in DOMAIN tm'.store /\ tm'.store[key].created <= tm.store[key].created
  BY DEF OthersSpared
<1>1. tm.store[key].created \in Nat
  <2>1. PICK n \in DOMAIN objs : tm.store[key] = objs[n]
    BY DEF IInv
  <2> QED
    BY <2>1, Constants DEF IInv, Pool
<1>2. ASSUME NEW name \in Names \ DOMAIN objs, NEW o \in Pool(name), tm' = Remember(tm, o)
      PROVE  key \in DOMAIN tm'.store /\ tm'.store[key].created <= tm.store[key].created
  <2> DEFINE taken == {k \in NewKeysFromHTTPSO(o) :
                         ~(k \in DOMAIN tm.store /\ o.created > tm.store[k].created)}
  <2>1. tm'.store = Insert(tm.store, taken, o)
    <3>1. tm' = [index |-> Insert(tm.index, {o.name}, o), store |-> Insert(tm.store, taken, o)]
      BY Zenon, <1>2 DEF Remember
    <3> QED
      BY <3>1
  <2>2. key \in taken => o.created <= tm.store[key].created
    <3>1. o.created \in Nat
      BY Constants DEF Pool
    <3>2. key \in taken => ~(o.created > tm.store[key].created)
      OBVIOUS
    <3> QED
      BY <1>1, <3>1, <3>2
  <2> HIDE DEF taken
  <2> QED
    BY <1>1, <2>1, <2>2 DEF Insert
<1>3. ASSUME NEW name \in DOMAIN objs, tm' = Forget(tm, name),
             objs' = Restrict(objs, DOMAIN objs \ {name})
      PROVE  key \in DOMAIN tm'.store /\ tm'.store[key].created <= tm.store[key].created
  <2>1. /\ DOMAIN objs' = DOMAIN objs \ {name} /\ tm' = [index |-> objs', store |-> tm'.store]
        /\ DOMAIN tm'.store = {k \in DOMAIN tm.store : tm.store[k].name # name}
        /\ \A k \in DOMAIN tm'.store : tm'.store[k] = tm.store[k]
    BY <1>3, ForgetEffect
  <2>2. tm.store[key].name # name
    BY <2>1
  <2> QED
    BY <1>1, <2>1, <2>2
<1> QED
  BY <1>2, <1>3 DEF Next, RememberOne, ForgetOne

(* ForgetSparesOthers: Forget removes the keys the object owns, and leaves *)
(* those it merely claims to their owners; Remember takes over only from   *)
(* younger ones.                                                           *)
THEOREM ForgettingSparesOthers == Spec => ForgetSparesOthers
BY SparesOthers, Invariance, PTL DEF Spec, ForgetSparesOthers
=============================================================================
