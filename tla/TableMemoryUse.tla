--------------------------- MODULE TableMemoryUse ---------------------------
(***************************************************************************)
(* The routing memory in use: HTTPScaledObjects are remembered in every    *)
(* order, as newMemoryFromHTTPSOs (pkg/routing/table.go) does when it      *)
(* ranges over a Go map, and forgotten in every order.                     *)
(***************************************************************************)
EXTENDS TableMemory

CONSTANTS Names, CreationTimes,
          Texts,                      \* what stands between ":" or "/"
          Hosts, PathPrefixes,        \* the lists an object may have
          RequestHosts, RequestPaths  \* what requests ask for

ASSUME MemoryAssumption ==
    /\ CreationTimes \subseteq Nat /\ "" \in Texts
    /\ \A list \in Hosts \cup PathPrefixes : list \subseteq Seq(Texts)
    /\ RequestHosts \cup RequestPaths \subseteq Seq(Texts)

VARIABLES tm, objs, forgot

vars == <<tm, objs, forgot>>

Pool(name) == [name : {name}, created : CreationTimes,
               hosts : Hosts, pathPrefixes : PathPrefixes]

RequestKeys == {NewKey(h, p) : h \in RequestHosts, p \in RequestPaths}

Init == tm = NewTableMemory /\ objs = <<>> /\ forgot = FALSE

(* newMemoryFromHTTPSOs remembers each name once.                          *)
RememberOne ==
    \E name \in Names \ DOMAIN objs : \E o \in Pool(name) :
        /\ ~forgot
        /\ tm' = Remember(tm, o)
        /\ objs' = Insert(objs, {name}, o)
        /\ UNCHANGED forgot

ForgetOne ==
    \E name \in DOMAIN objs :
        /\ tm' = Forget(tm, name)
        /\ objs' = Restrict(objs, DOMAIN objs \ {name})
        /\ forgot' = TRUE

Next == RememberOne \/ ForgetOne

Spec == Init /\ [][Next]_vars
-----------------------------------------------------------------------------
(* Who claims which prefix of a key, and who the longest of these.         *)
Claims(key) ==
    {c \in Range(objs) \X UNION {NewKeysFromHTTPSO(o) : o \in Range(objs)} :
       c[2] \in NewKeysFromHTTPSO(c[1]) /\ IsPrefix(c[2], key)}

LongestClaims(key) == {c \in Claims(key) : \A d \in Claims(key) : Len(d[2]) <= Len(c[2])}

(* Whatever the order in which the objects were remembered, a request goes *)
(* to an object that claims the longest prefix of its key anyone claims,   *)
(* and to an oldest one of those (Remember, Route).                        *)
RouteToOldestOfLongest ==
    ~forgot =>
      \A key \in RequestKeys :
        /\ \A o \in Route(tm.store, key) : \E c \in LongestClaims(key) :
             o = c[1] /\ \A d \in LongestClaims(key) : o.created <= d[1].created
        /\ Route(tm.store, key) = {} <=> Claims(key) = {}
        /\ tm.store \in OldestOwners(objs)

(* What the store routes to is always the object the index recalls under   *)
(* that name (Remember, Forget, Recall).                                   *)
StoreAgreesWithIndex ==
    \A key \in DOMAIN tm.store : tm.store[key] \in Recall(tm, tm.store[key].name)

(* A step leaves every key with its owner, as long as the index has that   *)
(* one, or hands it to one that is not younger.                            *)
OthersSpared ==
    \A key \in DOMAIN tm.store :
      tm.store[key].name \in DOMAIN tm'.index
        => key \in DOMAIN tm'.store /\ tm'.store[key].created <= tm.store[key].created

(* Forgetting an object never takes a key away from another object that is *)
(* still remembered (Forget).                                              *)
ForgetSparesOthers == [][OthersSpared]_vars

(* The inductive invariant behind them: the index has the objects under    *)
(* their names, a key in the store belongs to one of the objects that      *)
(* claim it, and, until one is forgotten, to an oldest of these.           *)
IInv ==
    /\ DOMAIN objs \subseteq Names /\ objs = [n \in DOMAIN objs |-> objs[n]]
    /\ \A n \in DOMAIN objs : objs[n] \in Pool(n)
    /\ tm = [index |-> objs, store |-> tm.store]
    /\ \A key \in DOMAIN tm.store : \E n \in DOMAIN objs :
         tm.store[key] = objs[n] /\ key \in NewKeysFromHTTPSO(objs[n])
    /\ ~forgot => tm.store \in OldestOwners(objs)
=============================================================================
