----------------------------- MODULE Reconciler -----------------------------
(***************************************************************************)
(* The operator's reconciler for one HTTPScaledObject and its ScaledObject *)
(* (operator/controllers/http), with the parts of Kubernetes it relies on: *)
(* the API server with its optimistic locking, the informer caches that    *)
(* reads go to, the predicates that decide which changes are reconciled,   *)
(* the work queue, and the garbage collector.  These are external; so are  *)
(* users, who change both objects at any time.                             *)
(*                                                                         *)
(* An object is a set of at most one record.  All optional fields of the   *)
(* spec that the ScaledObject takes over (replica counts, cooldowns) are   *)
(* one field, "replicas"; Unset is its absence.  An HTTPScaledObject with  *)
(* two scaling metrics is one whose replicas are Invalid.                  *)
(*                                                                         *)
(* Resource versions are not counted.  A copy of the HTTPScaledObject is   *)
(* fresh until somebody else writes the object: only then its Update       *)
(* fails with a conflict.                                                  *)
(***************************************************************************)
EXTENDS Naturals, Sequences

CONSTANTS Replicas,     \* values that users give the field of an HTTPScaledObject
          Meddling,     \* values that users give the field of the ScaledObject
          Skips,        \* values users give the skip annotation, with FALSE
          MaxUid,       \* bound on how often the HTTPScaledObject is created
          MaxEdits,     \* bound on the edits of users
          MaxFaults     \* bound on the calls that fail and on crashes

Unset == 0
Invalid == 99

ASSUME ReconcilerAssumption ==
    /\ Replicas \subseteq Nat /\ Meddling \subseteq Nat /\ Invalid \notin Meddling
    /\ FALSE \in Skips /\ Skips \subseteq BOOLEAN
    /\ {MaxUid, MaxEdits, MaxFaults} \subseteq Nat

VARIABLES
    httpso,        \* the HTTPScaledObject
    scaledObject,  \* the ScaledObject of that name
    httpsoCache,   \* the operator's cache of the first...
    httpsoLog,     \* ...and the writes it has not seen
    soCache,       \* the same of the second
    soLog,
    queued,        \* the work queue holds the name
    step,          \* the call that Reconcile makes next
    copy,          \* its copy of the HTTPScaledObject
    copyFresh,     \* which is that of the API server
    failed,        \* the error createOrUpdateApplicationResources returns
    uid, edits, faults,     \* created, edited and failed so far
    toggled        \* the annotation was changed after the spec (history)

api == <<httpso, scaledObject>>
caches == <<httpsoCache, httpsoLog, soCache, soLog>>
local == <<copy, copyFresh, failed>>
counts == <<uid, edits, faults>>
vars == <<api, caches, queued, step, local, counts, toggled>>

(* The conditions of a status, in the order in which they were added, by   *)
(* their reasons: each reason comes with one status only.                  *)
Reasons == {"PendingCreation", "ErrorCreatingAppScaledObject", "AppScaledObjectCreated",
            "HTTPScaledObjectIsReady"}

TrueReasons == {"AppScaledObjectCreated", "HTTPScaledObjectIsReady"}

HTTPScaledObjects ==
    [uid : 1..MaxUid, generation : Nat, replicas : Replicas, skip : BOOLEAN,
     deleting : BOOLEAN, finalizer : BOOLEAN, conditions : Seq(Reasons)]

(* A ScaledObject has the HTTPScaledObject of that uid as its owner; with  *)
(* owner 0, it is a user's own.                                            *)
ScaledObjects == [owner : 0..MaxUid, replicas : Nat \ {Invalid}]

Optional(v, S) == v \subseteq S /\ \A x, y \in v : x = y

TypeOK ==
    /\ Optional(httpso, HTTPScaledObjects) /\ Optional(scaledObject, ScaledObjects)
    /\ Optional(httpsoCache, HTTPScaledObjects) /\ Optional(soCache, ScaledObjects)
    /\ Optional(copy, HTTPScaledObjects)
    /\ httpsoLog \in Seq(SUBSET HTTPScaledObjects) /\ soLog \in Seq(SUBSET ScaledObjects)
    /\ \A i \in 1..Len(httpsoLog) : Optional(httpsoLog[i], HTTPScaledObjects)
    /\ \A i \in 1..Len(soLog) : Optional(soLog[i], ScaledObjects)
    /\ queued \in BOOLEAN /\ copyFresh \in BOOLEAN /\ failed \in BOOLEAN /\ toggled \in BOOLEAN
    /\ step \in {"idle", "finalize", "ensure", "create", "fetch", "patch", "delete", "save", "ready"}
    /\ step # "idle" => copy # {}
    /\ uid \in 0..MaxUid /\ edits \in 0..MaxEdits /\ faults \in 0..MaxFaults

Init ==
    /\ httpso = {} /\ scaledObject = {}
    /\ httpsoCache = {} /\ httpsoLog = <<>> /\ soCache = {} /\ soLog = <<>>
    /\ queued = FALSE /\ step = "idle"
    /\ copy = {} /\ copyFresh = FALSE /\ failed = FALSE
    /\ uid = 0 /\ edits = 0 /\ faults = 0 /\ toggled = FALSE
-----------------------------------------------------------------------------
(* Writes at the API server.                                               *)
PutHTTPSO(new) ==
    /\ httpso' = new /\ httpsoLog' = Append(httpsoLog, new)
    /\ UNCHANGED <<scaledObject, httpsoCache, soCache, soLog>>

PutSO(new) ==
    /\ scaledObject' = new
    /\ soLog' = IF new = scaledObject THEN soLog ELSE Append(soLog, new)
    /\ UNCHANGED <<httpso, httpsoCache, httpsoLog, soCache>>
-----------------------------------------------------------------------------
(* Users, who write the objects of the operator.                           *)
WriteHTTPSO(new) ==
    /\ PutHTTPSO(new) /\ copyFresh' = FALSE
    /\ UNCHANGED <<queued, step, copy, failed, faults>>

CreateHTTPSO ==
    /\ httpso = {} /\ uid < MaxUid /\ uid' = uid + 1
    /\ \E n \in Replicas, skip \in Skips :
         WriteHTTPSO({[uid |-> uid + 1, generation |-> 1, replicas |-> n, skip |-> skip,
                       deleting |-> FALSE, finalizer |-> FALSE, conditions |-> <<>>]})
    /\ UNCHANGED edits

EditSpec ==
    /\ edits < MaxEdits /\ edits' = edits + 1
    /\ \E h \in httpso, n \in Replicas :
         /\ n # h.replicas /\ ~h.deleting
         /\ WriteHTTPSO({[h EXCEPT !.replicas = n, !.generation = @ + 1]})
    /\ UNCHANGED uid

(* Metadata is not part of the generation.                                 *)
EditAnnotation ==
    /\ edits < MaxEdits /\ edits' = edits + 1
    /\ \E h \in httpso, skip \in Skips :
         /\ skip # h.skip /\ ~h.deleting
         /\ WriteHTTPSO({[h EXCEPT !.skip = skip]})
    /\ UNCHANGED uid

DeleteHTTPSO ==
    /\ \E h \in httpso :
         /\ ~h.deleting
         /\ WriteHTTPSO(IF h.finalizer
                        THEN {[h EXCEPT !.deleting = TRUE, !.generation = @ + 1]} ELSE {})
    /\ UNCHANGED <<uid, edits>>

WriteSO(new) ==
    /\ PutSO(new)
    /\ UNCHANGED <<queued, step, local, uid, faults>>

Meddle ==
    /\ edits < MaxEdits /\ edits' = edits + 1
    /\ \E o \in scaledObject, n \in Meddling :
         n # o.replicas /\ WriteSO({[o EXCEPT !.replicas = n]})

(* A user creates a ScaledObject of their own in place of the operator's.  *)
CreateOwnSO ==
    /\ edits < MaxEdits /\ edits' = edits + 1
    /\ scaledObject = {} /\ \E h \in httpso : h.skip
    /\ \E n \in Meddling : WriteSO({[owner |-> 0, replicas |-> n]})

(* The garbage collector.                                                  *)
Owned(o) == o.owner = 0 \/ \E h \in httpso : h.uid = o.owner

CollectGarbage ==
    /\ \E o \in scaledObject : ~Owned(o)
    /\ WriteSO({})
    /\ UNCHANGED edits
-----------------------------------------------------------------------------
(* The first condition of type Ready, which all are of.                    *)
IsReady(h) == h.conditions # <<>> /\ Head(h.conditions) \in TrueReasons

(* Faulty variant: every update passes.                                    *)
HTTPSOUpdateAny(old, new) == TRUE

(* GenerationChangedPredicate or HTTPScaledObjectReadyConditionPredicate.  *)
HTTPSOUpdate(old, new) ==
    \/ old.generation # new.generation
    \/ ~IsReady(old) /\ IsReady(new)

(* Creations and deletions pass.                                           *)
HTTPSOPasses(old, new) ==
    \/ (old = {}) # (new = {})
    \/ \E o \in old, n \in new : HTTPSOUpdate(o, n)

(* A write of the HTTPScaledObject reaches the cache.                      *)
SeeHTTPSO ==
    /\ httpsoLog # <<>>
    /\ httpsoCache' = Head(httpsoLog) /\ httpsoLog' = Tail(httpsoLog)
    /\ queued' = (queued \/ HTTPSOPasses(httpsoCache, httpsoCache'))
    /\ UNCHANGED <<api, soCache, soLog, step, local, counts>>

(* ScaledObjectSpecChangedPredicate: unset fields of the new spec are not  *)
(* compared.                                                               *)
SOUpdate(old, new) == new.replicas # Unset /\ new.replicas # old.replicas

(* It is the owner of the ScaledObject that is queued.  (Labels and        *)
(* annotations, whose changes pass too, are not modelled.)                 *)
SOPasses(old, new) ==
    /\ \E o \in old \cup new : o.owner # 0
    /\ \/ (old = {}) # (new = {})
       \/ \E o \in old, n \in new : SOUpdate(o, n)

(* A write of the ScaledObject reaches the cache.                          *)
SeeSO ==
    /\ soLog # <<>>
    /\ soCache' = Head(soLog) /\ soLog' = Tail(soLog)
    /\ queued' = (queued \/ SOPasses(soCache, soCache'))
    /\ UNCHANGED <<api, httpsoCache, httpsoLog, step, local, counts>>

(* The operator crashes.  The next one fills its caches before it starts,  *)
(* and reconciles everything once.                                         *)
Restart ==
    /\ faults < MaxFaults /\ faults' = faults + 1
    /\ step # "idle"
    /\ step' = "idle" /\ copy' = {} /\ copyFresh' = FALSE /\ failed' = FALSE
    /\ httpsoCache' = httpso /\ httpsoLog' = <<>> /\ soCache' = scaledObject /\ soLog' = <<>>
    /\ queued' = (httpso \cup {o \in scaledObject : o.owner # 0} # {})
    /\ UNCHANGED <<api, uid, edits>>
-----------------------------------------------------------------------------
(* Reconcile.                                                              *)

Cond(h, reason) ==
    IF \E i \in 1..Len(h.conditions) : h.conditions[i] = reason THEN h
    ELSE [h EXCEPT !.conditions = Append(@, reason)]

(* A call fails, which the bound allows only so often.                     *)
Fault == faults < MaxFaults /\ faults' = faults + 1

(* Reconcile returns; with an error it is queued again.                    *)
Return(again) ==
    /\ step' = "idle" /\ copy' = {} /\ copyFresh' = FALSE /\ failed' = FALSE
    /\ queued' = (queued \/ again)

(* Reconcile takes the name and reads the cache; an HTTPScaledObject that  *)
(* is gone needs nothing.                                                  *)
Reconcile ==
    /\ step = "idle" /\ queued
    /\ queued' = FALSE
    /\ copy' = httpsoCache /\ copyFresh' = (httpsoLog = <<>> /\ httpsoCache # {})
    /\ step' = IF httpsoCache = {} THEN "idle"
               ELSE IF \E h \in httpsoCache : h.deleting THEN "finalize" ELSE "ensure"
    /\ UNCHANGED <<api, caches, failed, counts>>

(* Faulty variant: an error is not returned.                               *)
FinalizeOnce ==
    /\ step = "finalize"
    /\ \/ /\ \E h \in copy : ~h.finalizer
          /\ Return(FALSE)
          /\ UNCHANGED <<api, caches, counts>>
       \/ /\ \E h \in copy : h.finalizer
          /\ copyFresh
          /\ PutHTTPSO({}) /\ Return(FALSE)
          /\ UNCHANGED counts
       \/ /\ \E h \in copy : h.finalizer
          /\ IF copyFresh THEN Fault ELSE UNCHANGED faults
          /\ Return(FALSE)
          /\ UNCHANGED <<api, caches, uid, edits>>

(* finalizeScaledObject.  The last finalizer gone, the object is too.      *)
Finalize ==
    /\ step = "finalize"
    /\ \/ /\ \E h \in copy : ~h.finalizer
          /\ Return(FALSE)
          /\ UNCHANGED <<api, caches, counts>>
       \/ /\ \E h \in copy : h.finalizer
          /\ copyFresh
          /\ PutHTTPSO({}) /\ Return(FALSE)
          /\ UNCHANGED counts
       \/ /\ \E h \in copy : h.finalizer
          /\ IF copyFresh THEN Fault ELSE UNCHANGED faults
          /\ Return(TRUE)
          /\ UNCHANGED <<api, caches, uid, edits>>

(* After the finalizer: the metric is checked, the first condition is set, *)
(* and a ScaledObject is to be made or, with the annotation, removed.      *)
Resources(h) ==
    IF h.replicas = Invalid THEN Return(TRUE)
    ELSE /\ step' = IF h.skip THEN "delete" ELSE "create"
         /\ copy' = {Cond(h, "PendingCreation")}
         /\ UNCHANGED <<queued, copyFresh, failed>>

(* ensureFinalizer, and Reconcile up to its next call.                     *)
Ensure ==
    /\ step = "ensure"
    /\ \E h \in copy :
         \/ /\ h.finalizer
            /\ Resources(h)
            /\ UNCHANGED <<api, caches, counts>>
         \/ /\ ~h.finalizer /\ copyFresh
            /\ LET new == [h EXCEPT !.finalizer = TRUE]
               IN  PutHTTPSO({new}) /\ Resources(new)
            /\ UNCHANGED counts
         \/ /\ ~h.finalizer
            /\ IF copyFresh THEN Fault ELSE UNCHANGED faults
            /\ Return(TRUE)
            /\ UNCHANGED <<api, caches, uid, edits>>

(* createOrUpdateApplicationResources comes to its deferred SaveStatus.    *)
ToSave(h, error) ==
    /\ step' = "save" /\ copy' = {h} /\ failed' = error
    /\ UNCHANGED <<copyFresh, queued>>

(* deleteScaledObject removes the ScaledObject if the cache has one with   *)
(* an HTTPScaledObject of this name as its owner.  No error is returned.   *)
DeleteSO ==
    /\ step = "delete"
    /\ \E h \in copy : ToSave(h, FALSE)
    /\ \/ (\E o \in soCache : o.owner # 0) /\ PutSO({}) /\ UNCHANGED faults
       \/ (\E o \in soCache : o.owner # 0) /\ Fault /\ UNCHANGED <<api, caches>>
       \/ (\A o \in soCache : o.owner = 0) /\ UNCHANGED <<api, caches, faults>>
    /\ UNCHANGED <<uid, edits>>

Created(h) == ToSave(Cond(h, "AppScaledObjectCreated"), FALSE)

(* createOrUpdateScaledObject: Create...                                   *)
CreateSO ==
    /\ step = "create"
    /\ \E h \in copy :
         \/ /\ scaledObject = {}
            /\ PutSO({[owner |-> h.uid, replicas |-> h.replicas]})
            /\ Created(h) /\ UNCHANGED faults
         \/ /\ scaledObject # {}
            /\ step' = "fetch"
            /\ UNCHANGED <<api, caches, queued, local, faults>>
         \/ /\ Fault
            /\ ToSave(Cond(h, "ErrorCreatingAppScaledObject"), TRUE)
            /\ UNCHANGED <<api, caches>>
    /\ UNCHANGED <<uid, edits>>

(* Faulty variant: an object that the cache does not have is no error.     *)
FetchSOQuiet ==
    /\ step = "fetch"
    /\ IF soCache = {} THEN \E h \in copy : ToSave(h, FALSE)
       ELSE step' = "patch" /\ UNCHANGED <<queued, local>>
    /\ UNCHANGED <<api, caches, counts>>

(* ...if it exists already, Get, which the cache answers...                *)
FetchSO ==
    /\ step = "fetch"
    /\ IF soCache = {} THEN \E h \in copy : ToSave(h, TRUE)
       ELSE step' = "patch" /\ UNCHANGED <<queued, local>>
    /\ UNCHANGED <<api, caches, counts>>

(* A merge patch: the owner is replaced, fields not set stay as they are.  *)
Merge(o, h) ==
    [owner |-> h.uid, replicas |-> IF h.replicas = Unset THEN o.replicas ELSE h.replicas]

(* ...and Patch.                                                           *)
PatchSO ==
    /\ step = "patch"
    /\ \E h \in copy :
         \/ \E o \in scaledObject : PutSO({Merge(o, h)}) /\ Created(h) /\ UNCHANGED faults
         \/ /\ IF scaledObject = {} THEN UNCHANGED faults ELSE Fault
            /\ ToSave(h, TRUE) /\ UNCHANGED <<api, caches>>
    /\ UNCHANGED <<uid, edits>>

(* SaveStatus writes the conditions only; an error is logged.              *)
SaveStatus(h) ==
    \/ /\ copyFresh
       /\ PutHTTPSO({h}) /\ UNCHANGED faults
    \/ /\ IF copyFresh THEN Fault ELSE UNCHANGED faults
       /\ UNCHANGED <<api, caches>>

(* Faulty variant: the error is lost.                                      *)
DeferredSaveForgets ==
    /\ step = "save"
    /\ \E h \in copy : SaveStatus(h)
    /\ step' = "ready" /\ UNCHANGED <<queued, local>>
    /\ UNCHANGED <<uid, edits>>

(* The deferred SaveStatus, and the end of Reconcile after an error.       *)
DeferredSave ==
    /\ step = "save"
    /\ \E h \in copy : SaveStatus(h)
    /\ IF failed THEN Return(TRUE) ELSE step' = "ready" /\ UNCHANGED <<queued, local>>
    /\ UNCHANGED <<uid, edits>>

(* The end of Reconcile.                                                   *)
Ready ==
    /\ step = "ready"
    /\ \E h \in copy : SaveStatus(Cond(h, "HTTPScaledObjectIsReady"))
    /\ Return(FALSE)
    /\ UNCHANGED <<uid, edits>>
-----------------------------------------------------------------------------
UserStep ==
    \/ (CreateHTTPSO \/ EditSpec) /\ toggled' = FALSE
    \/ EditAnnotation /\ toggled' = TRUE
    \/ (DeleteHTTPSO \/ Meddle \/ CreateOwnSO) /\ UNCHANGED toggled

OperatorStep ==
    /\ \/ Reconcile \/ Finalize \/ Ensure \/ DeleteSO \/ CreateSO \/ FetchSO \/ PatchSO
       \/ DeferredSave \/ Ready
    /\ UNCHANGED toggled

Untoggled(A) == A /\ UNCHANGED toggled

Next ==
    \/ UserStep \/ OperatorStep
    \/ Untoggled(SeeHTTPSO) \/ Untoggled(SeeSO) \/ Untoggled(CollectGarbage)
    \/ Untoggled(Restart)

Spec == Init /\ [][Next]_vars

(* The operator's worker and its informers run, failed items come back     *)
(* from the rate limited queue, and garbage is collected.                  *)
FairSpec ==
    /\ Spec
    /\ WF_vars(OperatorStep) /\ WF_vars(Untoggled(SeeHTTPSO)) /\ WF_vars(Untoggled(SeeSO))
    /\ WF_vars(Untoggled(CollectGarbage))
-----------------------------------------------------------------------------
(* Nothing is left to do until somebody changes something.                 *)
Settled ==
    /\ step = "idle" /\ ~queued
    /\ httpsoLog = <<>> /\ soLog = <<>>
    /\ \A o \in scaledObject : Owned(o)

(* The HTTPScaledObject is in force.                                       *)
InForce(h) == ~h.deleting /\ h.replicas # Invalid

Want(h) == {[owner |-> h.uid, replicas |-> h.replicas]}

(* When all is settled, an HTTPScaledObject in force without the skip      *)
(* annotation has its ScaledObject, which is its own and says what it      *)
(* says: whatever calls failed, whoever changed the ScaledObject, whenever *)
(* the operator crashed, and however old its caches were (Reconcile).      *)
(* There are two exceptions: an annotation changed after the spec, and     *)
(* fields that are unset.  A field taken out of either object is not       *)
(* patched or not noticed, so this holds for Replicas and Meddling without *)
(* Unset only.                                                             *)
AppliedWhenSettled ==
    Settled /\ ~toggled => \A h \in httpso : InForce(h) /\ ~h.skip => scaledObject = Want(h)

-----------------------------------------------------------------------------
(* Two optional objects are of the same version, which the predicates go   *)
(* by.                                                                     *)
Same(v, w) ==
    /\ (v = {}) = (w = {})
    /\ \A x \in v, y \in w : x.uid = y.uid /\ x.generation = y.generation

(* The caches lag behind, but what they have still to see ends with what   *)
(* there is.                                                               *)
LogsEnd ==
    /\ httpso = IF httpsoLog = <<>> THEN httpsoCache ELSE httpsoLog[Len(httpsoLog)]
    /\ scaledObject = IF soLog = <<>> THEN soCache ELSE soLog[Len(soLog)]

(* Between two HTTPScaledObjects of the name the cache sees a deletion.    *)
Deletions ==
    \A i \in 1..Len(httpsoLog) :
      \A x \in (IF i = 1 THEN httpsoCache ELSE httpsoLog[i-1]), y \in httpsoLog[i] : x.uid = y.uid

(* x is an older state of h or has the same spec.                          *)
Older(x, h) ==
    x.uid = h.uid =>
      /\ x.generation <= h.generation
      /\ x.generation = h.generation =>
           /\ x.replicas = h.replicas /\ x.deleting = h.deleting
           /\ ~toggled => x.skip = h.skip

Known(v) == \A x \in v : x.uid <= uid /\ \A h \in httpso : Older(x, h)

(* All that caches, logs and Reconcile have is of the past or present.     *)
Coherent ==
    /\ Known(httpso) /\ Known(httpsoCache) /\ Known(copy)
    /\ \A i \in 1..Len(httpsoLog) : Known(httpsoLog[i])

(* Equal but for the finalizer and the conditions, which Reconcile writes. *)
Alike(x, y) ==
    /\ x.uid = y.uid /\ x.generation = y.generation /\ x.replicas = y.replicas
    /\ x.skip = y.skip /\ x.deleting = y.deleting

(* What Reconcile works on is what the cache has, or it runs again; it is  *)
(* what there is if nobody has written since; and the calls go with it.    *)
CopyCurrent ==
    /\ step # "idle" => queued \/ Same(copy, httpsoCache)
    /\ copyFresh => \E c \in copy, h \in httpso : Alike(c, h)
    /\ step \in {"create", "fetch", "patch"} => \A c \in copy : c.replicas # Invalid
    /\ step = "delete" => \A c \in copy : c.skip

(* A write of the ScaledObject that passes is on its way to the cache.     *)
SOPassing ==
    \E i \in 1..Len(soLog) : SOPasses(IF i = 1 THEN soCache ELSE soLog[i-1], soLog[i])

(* Reconcile is about to apply v.                                          *)
Applying(v) == step \in {"ensure", "create", "fetch", "patch"} /\ Same(copy, v)

(* What h asks for is there, or it will be reconciled.                     *)
AppliedOrMarked(h) ==
    \/ scaledObject = Want(h)
    \/ queued \/ (step = "save" /\ failed) \/ Applying(httpso)
    \/ ~Same(httpsoCache, httpso) \/ SOPassing

Asks(h) == InForce(h) /\ ~h.skip /\ ~toggled

AppliedOrPending == \A h \in httpso : Asks(h) => AppliedOrMarked(h)

(* The inductive invariant behind AppliedWhenSettled: every way in which   *)
(* the ScaledObject comes to differ from what is asked for leaves a mark   *)
(* that has the object reconciled, and Reconcile removes the mark only     *)
(* after it has read what is asked for (Reconcile, the predicates).        *)
IInv == TypeOK /\ LogsEnd /\ Deletions /\ Coherent /\ CopyCurrent /\ AppliedOrPending
-----------------------------------------------------------------------------
(* walkthrough.md:176, "This will remove the originally created            *)
(* ScaledObject": when all is settled, an HTTPScaledObject with the skip   *)
(* annotation has no ScaledObject of the operator.                         *)
SkippedWhenSettled ==
    Settled => \A h \in httpso : InForce(h) /\ h.skip => \A o \in scaledObject : o.owner = 0

(* Reconciling comes to an end after the last edit: no write of the        *)
(* operator has it reconcile again for ever (the predicates of             *)
(* SetupWithManager), unless the HTTPScaledObject is invalid.              *)
Settles == <>[](\A h \in httpso : InForce(h)) => <>[]Settled

(* A deleted HTTPScaledObject goes away, with its ScaledObject, also when  *)
(* the removal of the finalizer meets a conflict or the operator crashes,  *)
(* and nothing makes that ScaledObject again (finalizeScaledObject).       *)
DeletedGoesAway ==
    /\ []<>(\A h \in httpso : ~h.deleting)
    /\ <>[](httpso = {}) => <>[](\A o \in scaledObject : o.owner = 0)
=============================================================================
