---------------------------- MODULE TableMemory ----------------------------
(***************************************************************************)
(* The interceptor's immutable routing memory (pkg/routing/tablememory.go  *)
(* and key.go), as operators.                                              *)
(*                                                                         *)
(* A memory is a record with two maps: index, from the name of each        *)
(* HTTPScaledObject to the object, and store, from each routing key to the *)
(* object that owns it.                                                    *)
(*                                                                         *)
(* Text is split at the characters the code looks at.  A host is the       *)
(* sequence of its ":"-separated parts, a path the sequence of its         *)
(* "/"-separated parts (so "/a/" is <<"", "a", "">>).  The key             *)
(* "//host/a/b/" is the sequence <<host, "a", "b">>.  Each part of a       *)
(* printed key is closed by "/", so the byte prefixes of a key that are    *)
(* keys themselves are its sequence prefixes.                              *)
(***************************************************************************)
EXTENDS Naturals, Sequences, FiniteSetsExt

(* strings.Trim(path, "/"): the empty parts at both ends go.               *)
TrimSlashes(path) ==
    LET solid == {i \in DOMAIN path : path[i] # ""}
    IN  IF solid = {} THEN <<>> ELSE SubSeq(path, Min(solid), Max(solid))

(* Everything from the last ":" of the host on is cut off.                 *)
NewKey(host, path) ==
    <<IF Len(host) > 1 THEN SubSeq(host, 1, Len(host) - 1) ELSE host>> \o TrimSlashes(path)

(* A nil list of hosts or path prefixes, as opposed to an empty one.  No   *)
(* real host or path has zero parts.                                       *)
Nil == {<<>>}

(* A nil list counts as one empty entry.                                   *)
OrEmpty(list) == IF list = Nil THEN {<<"">>} ELSE list

NewKeysFromHTTPSO(httpso) ==
    {NewKey(h, p) : h \in OrEmpty(httpso.hosts), p \in OrEmpty(httpso.pathPrefixes)}
-----------------------------------------------------------------------------
NewTableMemory == [index |-> <<>>, store |-> <<>>]

(* Insert of the radix trees, for each of some keys.                       *)
Insert(tree, keys, httpso) ==
    [key \in DOMAIN tree \cup keys |-> IF key \in keys THEN httpso ELSE tree[key]]

(* Faulty variant: the last object remembered takes all of its keys.       *)
RememberLatest(tm, httpso) ==
    [index |-> Insert(tm.index, {httpso.name}, httpso),
     store |-> Insert(tm.store, NewKeysFromHTTPSO(httpso), httpso)]

(* The object enters the index, and takes each of its keys unless it is    *)
(* strictly younger than the present owner.                                *)
Remember(tm, httpso) ==
    LET Younger(key) == /\ key \in DOMAIN tm.store
                        /\ httpso.created > tm.store[key].created
    IN  [index |-> Insert(tm.index, {httpso.name}, httpso),
         store |-> Insert(tm.store, {key \in NewKeysFromHTTPSO(httpso) : ~Younger(key)}, httpso)]

Recall(tm, name) ==
    {tm.index[n] : n \in {name} \cap DOMAIN tm.index}

(* Faulty variant: a key goes whoever owns it.                             *)
ForgetAllKeys(tm, name) ==
    IF name \notin DOMAIN tm.index
    THEN tm
    ELSE [index |-> Restrict(tm.index, DOMAIN tm.index \ {name}),
          store |-> Restrict(tm.store, DOMAIN tm.store
                                         \ NewKeysFromHTTPSO(tm.index[name]))]

(* Faulty variant: the keys stay.                                          *)
ForgetIndexOnly(tm, name) ==
    [tm EXCEPT !.index = Restrict(@, DOMAIN @ \ {name})]

(* The object leaves the index, and those of its keys that it owns go.     *)
Forget(tm, name) ==
    LET own(n) == {key \in DOMAIN tm.store :
                     /\ key \in NewKeysFromHTTPSO(tm.index[n])
                     /\ tm.store[key].name = n}
    IN  IF name \notin DOMAIN tm.index
        THEN tm
        ELSE [index |-> Restrict(tm.index, DOMAIN tm.index \ {name}),
              store |-> Restrict(tm.store, DOMAIN tm.store \ own(name))]

(* As in SequencesExt, which is not extended because the proofs get slow  *)
(* with all that comes with it.                                            *)
IsPrefix(s, t) == Len(s) <= Len(t) /\ SubSeq(t, 1, Len(s)) = s

(* LongestPrefix of the radix tree: the owner of the longest stored prefix *)
(* of the key.  The result is a set, empty when there is none.             *)
Route(store, key) ==
    LET matches == {p \in DOMAIN store : IsPrefix(p, key)}
    IN  {store[p] : p \in {q \in matches : \A o \in matches : Len(o) <= Len(q)}}

(* The stores in which every claimed key belongs to an oldest claimant.    *)
(* Objects of the same age leave a choice, because the code ranges over a  *)
(* Go map; TableMemoryProofs shows that remembering the objects in any     *)
(* order leads to one of these stores.                                     *)
OldestOwners(objs) ==
    LET claimants(key) == {o \in Range(objs) : key \in NewKeysFromHTTPSO(o)}
        keys == UNION {NewKeysFromHTTPSO(o) : o \in Range(objs)}
    IN  {st \in [keys -> Range(objs)] :
           \A key \in keys :
              /\ st[key] \in claimants(key)
              /\ \A o \in claimants(key) : st[key].created <= o.created}
=============================================================================
