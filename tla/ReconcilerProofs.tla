-------------------------- MODULE ReconcilerProofs --------------------------
(***************************************************************************)
(* The invariant behind AppliedWhenSettled is inductive, for every value   *)
(* of the constants of Reconciler.  One section per conjunct of IInv:      *)
(* types, ends of logs, coherence of what is cached, the copy of           *)
(* Reconcile, and what is applied or pending.                              *)
(***************************************************************************)
EXTENDS Reconciler, TLAPS

(* The bounds of users, faults and recreations are numbers.                *)
LEMMA BoundsAreNat == MaxUid \in Nat /\ MaxEdits \in Nat /\ MaxFaults \in Nat
BY ReconcilerAssumption

(* AddCondition changes nothing of an HTTPScaledObject but its conditions. *)
LEMMA CondKeeps ==
    ASSUME NEW h \in HTTPScaledObjects, NEW reason \in Reasons
    PROVE  /\ Cond(h, reason) \in HTTPScaledObjects
           /\ Cond(h, reason).uid = h.uid /\ Cond(h, reason).generation = h.generation
           /\ Cond(h, reason).replicas = h.replicas /\ Cond(h, reason).skip = h.skip
           /\ Cond(h, reason).deleting = h.deleting
BY DEF Cond, HTTPScaledObjects

(* The fields of an HTTPScaledObject that a ScaledObject takes over, and   *)
(* that versions are told apart by.                                        *)
LEMMA FieldTypes ==
    ASSUME NEW h \in HTTPScaledObjects
    PROVE  h.uid \in 0..MaxUid /\ h.uid # 0 /\ h.replicas \in Nat /\ h.generation \in Nat
<1>1. h.uid \in 1..MaxUid /\ h.replicas \in Replicas /\ h.generation \in Nat
  BY DEF HTTPScaledObjects
<1>2. Replicas \subseteq Nat
  BY ReconcilerAssumption
<1>3. h.uid \in 0..MaxUid /\ h.uid # 0
  BY <1>1, BoundsAreNat
<1> QED
  BY Zenon, <1>1, <1>2, <1>3

(* What users and ensureFinalizer write is an HTTPScaledObject again.      *)
LEMMA EditKeeps ==
    ASSUME NEW h \in HTTPScaledObjects
    PROVE  /\ \A n \in Replicas :
                [h EXCEPT !.replicas = n, !.generation = @ + 1] \in HTTPScaledObjects
           /\ \A b \in BOOLEAN : [h EXCEPT !.skip = b] \in HTTPScaledObjects
           /\ [h EXCEPT !.deleting = TRUE, !.generation = @ + 1] \in HTTPScaledObjects
           /\ [h EXCEPT !.finalizer = TRUE] \in HTTPScaledObjects
<1>1. h.generation + 1 \in Nat
  BY DEF HTTPScaledObjects
<1>2. \A n \in Replicas :
        [h EXCEPT !.replicas = n, !.generation = @ + 1] \in HTTPScaledObjects
  BY Zenon, <1>1 DEF HTTPScaledObjects
<1>3. \A b \in BOOLEAN : [h EXCEPT !.skip = b] \in HTTPScaledObjects
  BY DEF HTTPScaledObjects
<1>4. [h EXCEPT !.deleting = TRUE, !.generation = @ + 1] \in HTTPScaledObjects
  BY Zenon, <1>1 DEF HTTPScaledObjects
<1>5. [h EXCEPT !.finalizer = TRUE] \in HTTPScaledObjects
  BY Zenon DEF HTTPScaledObjects
<1> QED
  BY Zenon, <1>2, <1>3, <1>4, <1>5

(* An operator that has just started, with nothing created yet, satisfies  *)
(* the invariant.                                                          *)
LEMMA InitHolds == Init => IInv
<1> SUFFICES ASSUME Init PROVE IInv
  OBVIOUS
<1>1. TypeOK
  <2>1. httpsoLog \in Seq(SUBSET HTTPScaledObjects) /\ soLog \in Seq(SUBSET ScaledObjects)
    BY DEF Init
  <2>2. uid \in 0..MaxUid /\ edits \in 0..MaxEdits /\ faults \in 0..MaxFaults
    BY BoundsAreNat DEF Init
  <2>3. /\ \A i \in 1..Len(httpsoLog) : Optional(httpsoLog[i], HTTPScaledObjects)
        /\ \A i \in 1..Len(soLog) : Optional(soLog[i], ScaledObjects)
    BY DEF Init
  <2>4. /\ Optional({}, HTTPScaledObjects) /\ Optional({}, ScaledObjects)
    BY DEF Optional
  <2>5. /\ queued \in BOOLEAN /\ copyFresh \in BOOLEAN /\ failed \in BOOLEAN /\ toggled \in BOOLEAN
        /\ step = "idle"
    BY Zenon DEF Init
  <2> QED
    BY <2>1, <2>2, <2>3, <2>4, <2>5 DEF Init, TypeOK
<1>2. LogsEnd /\ Deletions /\ Coherent /\ CopyCurrent /\ AppliedOrPending
  BY DEF Init, LogsEnd, Deletions, Coherent, Known, CopyCurrent, AppliedOrPending
<1> QED
  BY <1>1, <1>2 DEF IInv

(* With nothing queued, nothing running and caches up to date, none of the *)
(* marks of the invariant is left: what remains is that the ScaledObject   *)
(* is what Reconcile was asked for.                                        *)
LEMMA SettledApplies == IInv => AppliedWhenSettled
BY DEF IInv, TypeOK, Optional, LogsEnd, AppliedOrPending, AppliedOrMarked, Asks, Settled,
       AppliedWhenSettled, Applying, Same, SOPassing
-----------------------------------------------------------------------------
USE DEF api, caches, local, counts

(* Type correctness of the API server and the caches...                    *)
StoresOK ==
    /\ Optional(httpso, HTTPScaledObjects) /\ Optional(scaledObject, ScaledObjects)
    /\ Optional(httpsoCache, HTTPScaledObjects) /\ Optional(soCache, ScaledObjects)
    /\ httpsoLog \in Seq(SUBSET HTTPScaledObjects) /\ soLog \in Seq(SUBSET ScaledObjects)
    /\ \A i \in 1..Len(httpsoLog) : Optional(httpsoLog[i], HTTPScaledObjects)
    /\ \A i \in 1..Len(soLog) : Optional(soLog[i], ScaledObjects)

(* ...and of the work queue, the running Reconcile and the counters.       *)
WorkerOK ==
    /\ Optional(copy, HTTPScaledObjects)
    /\ queued \in BOOLEAN /\ copyFresh \in BOOLEAN /\ failed \in BOOLEAN /\ toggled \in BOOLEAN
    /\ step \in {"idle", "finalize", "ensure", "create", "fetch", "patch", "delete", "save", "ready"}
    /\ step # "idle" => copy # {}
    /\ uid \in 0..MaxUid /\ edits \in 0..MaxEdits /\ faults \in 0..MaxFaults

(* The two halves of the type invariant.                                   *)
LEMMA TypeParts == TypeOK <=> StoresOK /\ WorkerOK
BY DEF TypeOK, StoresOK, WorkerOK

(* A write of an HTTPScaledObject keeps the stores well typed.             *)
LEMMA PutTypes ==
    ASSUME StoresOK, NEW new, Optional(new, HTTPScaledObjects), PutHTTPSO(new)
    PROVE  StoresOK'
BY DEF StoresOK, PutHTTPSO, Optional

(* A write of a ScaledObject keeps the stores well typed.                  *)
LEMMA PutSOTypes ==
    ASSUME StoresOK, NEW new, Optional(new, ScaledObjects), PutSO(new)
    PROVE  StoresOK'
BY DEF StoresOK, PutSO, Optional

(* One object, and none, are optional objects.                             *)
LEMMA OneIsOptional ==
    ASSUME NEW S, NEW x \in S
    PROVE  Optional({x}, S) /\ Optional({}, S)
BY DEF Optional

(* A user's write of an HTTPScaledObject keeps the types.                  *)
LEMMA WriteTypes ==
    ASSUME StoresOK, WorkerOK, NEW new, Optional(new, HTTPScaledObjects), WriteHTTPSO(new),
           toggled' \in BOOLEAN, uid' \in 0..MaxUid, edits' \in 0..MaxEdits
    PROVE  StoresOK' /\ WorkerOK'
<1>1. StoresOK'
  BY PutTypes DEF WriteHTTPSO
<1>2. copyFresh' \in BOOLEAN
  BY Zenon DEF WriteHTTPSO
<1>3. UNCHANGED <<queued, step, copy, failed, faults>>
  BY DEF WriteHTTPSO
<1>4. WorkerOK'
  BY <1>2, <1>3 DEF WorkerOK
<1> QED
  BY <1>1, <1>4

(* A user's write of a ScaledObject keeps the types.                       *)
LEMMA WriteSOTypes ==
    ASSUME StoresOK, WorkerOK, NEW new, Optional(new, ScaledObjects), WriteSO(new),
           UNCHANGED toggled, edits' \in 0..MaxEdits
    PROVE  StoresOK' /\ WorkerOK'
<1>1. StoresOK'
  BY PutSOTypes DEF WriteSO
<1>2. WorkerOK'
  BY DEF WriteSO, WorkerOK
<1> QED
  BY <1>1, <1>2

(* Whatever users do keeps the types.                                      *)
LEMMA UserTypes == TypeOK /\ UserStep => TypeOK'
<1> SUFFICES ASSUME StoresOK, WorkerOK, UserStep PROVE StoresOK' /\ WorkerOK'
  BY DEF TypeOK, StoresOK, WorkerOK
<1>1. CASE CreateHTTPSO /\ toggled' = FALSE
  <2>1. PICK n \in Replicas, skip \in Skips :
          WriteHTTPSO({[uid |-> uid + 1, generation |-> 1, replicas |-> n, skip |-> skip,
                        deleting |-> FALSE, finalizer |-> FALSE, conditions |-> <<>>]})
    BY Zenon, <1>1 DEF CreateHTTPSO
  <2> DEFINE new == [uid |-> uid + 1, generation |-> 1, replicas |-> n, skip |-> skip,
                     deleting |-> FALSE, finalizer |-> FALSE, conditions |-> <<>>]
  <2>2. uid' \in 0..MaxUid /\ edits' \in 0..MaxEdits /\ uid + 1 \in 1..MaxUid
    BY <1>1, BoundsAreNat DEF CreateHTTPSO, WorkerOK
  <2>3. skip \in BOOLEAN /\ toggled' \in BOOLEAN
    BY Zenon, <1>1, ReconcilerAssumption
  <2>4. new \in HTTPScaledObjects
    BY <2>2, <2>3 DEF HTTPScaledObjects
  <2> QED
    BY Zenon, <2>1, <2>2, <2>3, <2>4, OneIsOptional, WriteTypes
<1>2. CASE EditSpec /\ toggled' = FALSE
  <2>1. PICK h \in httpso, n \in Replicas :
          WriteHTTPSO({[h EXCEPT !.replicas = n, !.generation = @ + 1]})
    BY <1>2 DEF EditSpec
  <2>2. [h EXCEPT !.replicas = n, !.generation = @ + 1] \in HTTPScaledObjects
    <3>1. h \in HTTPScaledObjects
      BY DEF Optional, StoresOK
    <3> QED
      BY Zenon, <3>1, EditKeeps
  <2>3. uid' \in 0..MaxUid /\ edits' \in 0..MaxEdits
    BY <1>2, BoundsAreNat DEF EditSpec, WorkerOK
  <2>4. toggled' \in BOOLEAN
    BY Zenon, <1>2
  <2> QED
    BY <2>1, <2>2, <2>3, <2>4, OneIsOptional, WriteTypes
<1>3. CASE EditAnnotation /\ toggled' = TRUE
  <2>1. PICK h \in httpso, skip \in Skips : WriteHTTPSO({[h EXCEPT !.skip = skip]})
    BY Zenon, <1>3 DEF EditAnnotation
  <2>2. [h EXCEPT !.skip = skip] \in HTTPScaledObjects
    <3>1. h \in HTTPScaledObjects
      BY DEF Optional, StoresOK
    <3> QED
      BY Zenon, <3>1, ReconcilerAssumption, EditKeeps
  <2>3. uid' \in 0..MaxUid /\ edits' \in 0..MaxEdits
    BY <1>3, BoundsAreNat DEF EditAnnotation, WorkerOK
  <2>4. toggled' \in BOOLEAN
    BY <1>3
  <2> QED
    BY <2>1, <2>2, <2>3, <2>4, OneIsOptional, WriteTypes
<1>4. CASE DeleteHTTPSO /\ UNCHANGED toggled
  <2>1. PICK h \in httpso :
          WriteHTTPSO(IF h.finalizer
                      THEN {[h EXCEPT !.deleting = TRUE, !.generation = @ + 1]} ELSE {})
    BY <1>4 DEF DeleteHTTPSO
  <2>2. [h EXCEPT !.deleting = TRUE, !.generation = @ + 1] \in HTTPScaledObjects
    <3>1. h \in HTTPScaledObjects
      BY DEF Optional, StoresOK
    <3> QED
      BY Zenon, <3>1, EditKeeps
  <2>3. uid' \in 0..MaxUid /\ edits' \in 0..MaxEdits /\ toggled' \in BOOLEAN
    BY <1>4 DEF DeleteHTTPSO, WorkerOK
  <2> QED
    BY <2>1, <2>2, <2>3, OneIsOptional, WriteTypes
<1>5. CASE Meddle /\ UNCHANGED toggled
  <2>1. PICK o \in scaledObject, n \in Meddling : WriteSO({[o EXCEPT !.replicas = n]})
    BY <1>5 DEF Meddle
  <2>2. [o EXCEPT !.replicas = n] \in ScaledObjects
    BY ReconcilerAssumption DEF Optional, ScaledObjects, StoresOK
  <2>3. edits' \in 0..MaxEdits
    BY <1>5, BoundsAreNat DEF Meddle, WorkerOK
  <2> QED
    BY <1>5, <2>1, <2>2, <2>3, OneIsOptional, WriteSOTypes
<1>6. CASE CreateOwnSO /\ UNCHANGED toggled
  <2>1. PICK n \in Meddling : WriteSO({[owner |-> 0, replicas |-> n]})
    BY Zenon, <1>6 DEF CreateOwnSO
  <2>2. [owner |-> 0, replicas |-> n] \in ScaledObjects
    BY BoundsAreNat, ReconcilerAssumption DEF ScaledObjects
  <2>3. edits' \in 0..MaxEdits
    BY <1>6, BoundsAreNat DEF CreateOwnSO, WorkerOK
  <2> QED
    BY <1>6, <2>1, <2>2, <2>3, OneIsOptional, WriteSOTypes
<1> QED
  BY Zenon, <1>1, <1>2, <1>3, <1>4, <1>5, <1>6 DEF UserStep

(* A call that may fail keeps to the bound on faults.                      *)
LEMMA FaultTypes ==
    ASSUME WorkerOK, NEW c \in BOOLEAN, IF c THEN Fault ELSE UNCHANGED faults
    PROVE  faults' \in 0..MaxFaults
BY BoundsAreNat DEF WorkerOK, Fault

(* The end of Reconcile keeps the types.                                   *)
LEMMA ReturnTypes ==
    ASSUME WorkerOK, NEW again \in BOOLEAN, Return(again), UNCHANGED <<toggled, uid, edits>>,
           faults' \in 0..MaxFaults
    PROVE  WorkerOK'
<1>1. copyFresh' \in BOOLEAN /\ failed' \in BOOLEAN /\ queued' \in BOOLEAN
  BY Zenon DEF Return, WorkerOK
<1>2. step' = "idle" /\ copy' = {}
  BY DEF Return
<1> QED
  BY <1>1, <1>2 DEF WorkerOK, Optional

(* So does the way to the deferred SaveStatus of                           *)
(* createOrUpdateApplicationResources...                                   *)
LEMMA ToSaveTypes ==
    ASSUME WorkerOK, NEW h \in HTTPScaledObjects, NEW error \in BOOLEAN, ToSave(h, error),
           UNCHANGED <<toggled, uid, edits>>, faults' \in 0..MaxFaults
    PROVE  WorkerOK'
<1>1. Optional(copy', HTTPScaledObjects) /\ copy' # {} /\ failed' \in BOOLEAN /\ step' = "save"
  BY OneIsOptional DEF ToSave
<1>2. UNCHANGED <<copyFresh, queued>>
  BY DEF ToSave
<1> QED
  BY <1>1, <1>2 DEF WorkerOK

(* ...and the part of Reconcile after the finalizer.                       *)
LEMMA ResourcesTypes ==
    ASSUME WorkerOK, NEW h \in HTTPScaledObjects, Resources(h),
           UNCHANGED <<toggled, uid, edits, faults>>
    PROVE  WorkerOK'
<1>1. CASE h.replicas = Invalid
  <2>1. Return(TRUE) /\ faults' \in 0..MaxFaults
    BY Zenon, <1>1 DEF Resources, WorkerOK
  <2> QED
    BY Zenon, <2>1, ReturnTypes
<1>2. CASE h.replicas # Invalid
  <2>1. Cond(h, "PendingCreation") \in HTTPScaledObjects
    BY CondKeeps DEF Reasons
  <2>2. Optional(copy', HTTPScaledObjects) /\ copy' # {} /\ step' \in {"delete", "create"}
    BY <1>2, <2>1, OneIsOptional DEF Resources
  <2>3. UNCHANGED <<queued, copyFresh, failed>>
    BY <1>2 DEF Resources
  <2> QED
    BY <2>2, <2>3 DEF WorkerOK
<1> QED
  BY <1>1, <1>2

(* SaveStatus writes an HTTPScaledObject or nothing.                       *)
LEMMA SaveStatusTypes ==
    ASSUME StoresOK, WorkerOK, NEW h \in HTTPScaledObjects, SaveStatus(h)
    PROVE  StoresOK' /\ faults' \in 0..MaxFaults
<1>1. CASE copyFresh /\ PutHTTPSO({h}) /\ UNCHANGED faults
  BY <1>1, OneIsOptional, PutTypes DEF WorkerOK
<1>2. CASE (IF copyFresh THEN Fault ELSE UNCHANGED faults) /\ UNCHANGED <<api, caches>>
  <2>1. faults' \in 0..MaxFaults
    BY <1>2, FaultTypes DEF WorkerOK
  <2>2. StoresOK'
    BY <1>2 DEF StoresOK
  <2> QED
    BY <2>1, <2>2
<1> QED
  BY <1>1, <1>2 DEF SaveStatus

(* Every call of Reconcile keeps the types.  It needs to know that an      *)
(* invalid HTTPScaledObject never comes as far as its ScaledObject.        *)
LEMMA OperatorTypes == TypeOK /\ CopyCurrent /\ OperatorStep => TypeOK'
<1> SUFFICES ASSUME StoresOK, WorkerOK, CopyCurrent, OperatorStep PROVE StoresOK' /\ WorkerOK'
  BY DEF TypeOK, StoresOK, WorkerOK
<1> UNCHANGED toggled
  BY DEF OperatorStep
<1>0. faults \in 0..MaxFaults /\ \A h \in copy : h \in HTTPScaledObjects
  BY DEF WorkerOK, Optional
<1>1. CASE Reconcile
  <2>1. StoresOK'
    BY <1>1 DEF Reconcile, StoresOK
  <2>2. queued' \in BOOLEAN /\ copyFresh' \in BOOLEAN
    BY Zenon, <1>1 DEF Reconcile
  <2>3. Optional(copy', HTTPScaledObjects) /\ step' \in {"idle", "finalize", "ensure"}
        /\ (step' # "idle" => copy' # {})
    BY <1>1 DEF Reconcile, StoresOK
  <2>4. UNCHANGED <<failed, uid, edits, faults>>
    BY <1>1 DEF Reconcile
  <2>5. WorkerOK'
    BY <2>2, <2>3, <2>4 DEF WorkerOK
  <2> QED
    BY <2>1, <2>5
<1>2. CASE Finalize
  <2>1. CASE Return(FALSE) /\ UNCHANGED <<api, caches, counts>>
    BY Zenon, <1>0, <2>1, ReturnTypes DEF StoresOK
  <2>2. CASE PutHTTPSO({}) /\ Return(FALSE) /\ UNCHANGED counts
    <3>1. Optional({}, HTTPScaledObjects)
      BY DEF Optional
    <3> QED
      BY Zenon, <1>0, <2>2, <3>1, PutTypes, ReturnTypes
  <2>3. CASE /\ IF copyFresh THEN Fault ELSE UNCHANGED faults
             /\ Return(TRUE) /\ UNCHANGED <<api, caches, uid, edits>>
    <3>1. faults' \in 0..MaxFaults
      BY <2>3, FaultTypes DEF WorkerOK
    <3>2. StoresOK'
      BY <2>3 DEF StoresOK
    <3> QED
      BY Zenon, <2>3, <3>1, <3>2, ReturnTypes
  <2> QED
    BY Zenon, <1>2, <2>1, <2>2, <2>3 DEF Finalize
<1>3. CASE Ensure
  <2>1. PICK h \in copy :
         \/ h.finalizer /\ Resources(h) /\ UNCHANGED <<api, caches, counts>>
         \/ /\ copyFresh
            /\ PutHTTPSO({[h EXCEPT !.finalizer = TRUE]}) /\ Resources([h EXCEPT !.finalizer = TRUE])
            /\ UNCHANGED counts
         \/ /\ IF copyFresh THEN Fault ELSE UNCHANGED faults
            /\ Return(TRUE) /\ UNCHANGED <<api, caches, uid, edits>>
    BY Zenon, <1>3 DEF Ensure
  <2>2. h \in HTTPScaledObjects /\ [h EXCEPT !.finalizer = TRUE] \in HTTPScaledObjects
    BY Zenon, <1>0, EditKeeps
  <2>3. CASE h.finalizer /\ Resources(h) /\ UNCHANGED <<api, caches, counts>>
    <3>1. StoresOK'
      BY <2>3 DEF StoresOK
    <3> QED
      BY <2>2, <2>3, <3>1, ResourcesTypes
  <2>4. CASE /\ copyFresh
             /\ PutHTTPSO({[h EXCEPT !.finalizer = TRUE]}) /\ Resources([h EXCEPT !.finalizer = TRUE])
             /\ UNCHANGED counts
    BY Zenon, <2>2, <2>4, OneIsOptional, PutTypes, ResourcesTypes
  <2>5. CASE /\ IF copyFresh THEN Fault ELSE UNCHANGED faults
             /\ Return(TRUE) /\ UNCHANGED <<api, caches, uid, edits>>
    <3>1. faults' \in 0..MaxFaults
      BY <2>5, FaultTypes DEF WorkerOK
    <3>2. StoresOK'
      BY <2>5 DEF StoresOK
    <3> QED
      BY Zenon, <2>5, <3>1, <3>2, ReturnTypes
  <2> QED
    BY Zenon, <2>1, <2>3, <2>4, <2>5
<1>4. CASE DeleteSO
  <2>1. PICK h \in copy : ToSave(h, FALSE)
    BY Zenon, <1>4 DEF DeleteSO
  <2>2. StoresOK' /\ faults' \in 0..MaxFaults
    <3>1. CASE PutSO({}) /\ UNCHANGED faults
      <4>1. Optional({}, ScaledObjects)
        BY DEF Optional
      <4> QED
        BY <1>0, <3>1, <4>1, PutSOTypes
    <3>2. CASE Fault /\ UNCHANGED <<api, caches>>
      BY <3>2, BoundsAreNat DEF Fault, WorkerOK, StoresOK
    <3>3. CASE UNCHANGED <<api, caches, faults>>
      BY <1>0, <3>3 DEF StoresOK
    <3> QED
      BY <1>4, <3>1, <3>2, <3>3 DEF DeleteSO
  <2> QED
    BY Zenon, <1>0, <1>4, <2>1, <2>2, ToSaveTypes DEF DeleteSO
<1>5. CASE CreateSO
  <2>1. PICK h \in copy :
         \/ /\ PutSO({[owner |-> h.uid, replicas |-> h.replicas]})
            /\ Created(h) /\ UNCHANGED faults
         \/ step' = "fetch" /\ UNCHANGED <<api, caches, queued, local, faults>>
         \/ /\ Fault /\ ToSave(Cond(h, "ErrorCreatingAppScaledObject"), TRUE)
            /\ UNCHANGED <<api, caches>>
    BY Zenon, <1>5 DEF CreateSO
  <2>2. /\ Cond(h, "ErrorCreatingAppScaledObject") \in HTTPScaledObjects
        /\ Cond(h, "AppScaledObjectCreated") \in HTTPScaledObjects
    BY <1>0, CondKeeps DEF Reasons
  <2>3. [owner |-> h.uid, replicas |-> h.replicas] \in ScaledObjects
    <3>1. h \in HTTPScaledObjects /\ h.replicas # Invalid
      BY <1>0, <1>5 DEF CreateSO, CopyCurrent
    <3>2. h.uid \in 0..MaxUid /\ h.replicas \in Nat
      BY <3>1, FieldTypes
    <3> QED
      BY <3>1, <3>2 DEF ScaledObjects
  <2>4. UNCHANGED <<uid, edits>>
    BY <1>5 DEF CreateSO
  <2>5. CASE /\ PutSO({[owner |-> h.uid, replicas |-> h.replicas]})
             /\ Created(h) /\ UNCHANGED faults
    BY Zenon, <1>0, <2>2, <2>3, <2>4, <2>5, OneIsOptional, PutSOTypes, ToSaveTypes DEF Created
  <2>6. CASE step' = "fetch" /\ UNCHANGED <<api, caches, queued, local, faults>>
    BY <1>5, <2>4, <2>6 DEF StoresOK, WorkerOK, CreateSO
  <2>7. CASE /\ Fault /\ ToSave(Cond(h, "ErrorCreatingAppScaledObject"), TRUE)
             /\ UNCHANGED <<api, caches>>
    <3>1. faults' \in 0..MaxFaults
      BY <2>7, BoundsAreNat DEF Fault, WorkerOK
    <3>2. StoresOK'
      BY <2>7 DEF StoresOK
    <3> QED
      BY Zenon, <2>2, <2>4, <2>7, <3>1, <3>2, ToSaveTypes
  <2> QED
    BY Zenon, <2>1, <2>5, <2>6, <2>7
<1>6. CASE FetchSO
  <2>1. StoresOK' /\ UNCHANGED <<uid, edits, faults>>
    BY <1>6 DEF FetchSO, StoresOK
  <2>2. CASE soCache = {}
    BY Zenon, <1>0, <1>6, <2>1, <2>2, ToSaveTypes DEF FetchSO
  <2>3. CASE soCache # {}
    BY Zenon, <1>6, <2>1, <2>3 DEF FetchSO, WorkerOK
  <2> QED
    BY <2>2, <2>3
<1>7. CASE PatchSO
  <2>1. PICK h \in copy :
         \/ \E o \in scaledObject : PutSO({Merge(o, h)}) /\ Created(h) /\ UNCHANGED faults
         \/ /\ IF scaledObject = {} THEN UNCHANGED faults ELSE Fault
            /\ ToSave(h, TRUE) /\ UNCHANGED <<api, caches>>
    BY Zenon, <1>7 DEF PatchSO
  <2>2. Cond(h, "AppScaledObjectCreated") \in HTTPScaledObjects /\ UNCHANGED <<uid, edits>>
    BY <1>0, <1>7, CondKeeps DEF Reasons, PatchSO
  <2>3. CASE \E o \in scaledObject : PutSO({Merge(o, h)}) /\ Created(h) /\ UNCHANGED faults
    <3>1. PICK o \in scaledObject : PutSO({Merge(o, h)}) /\ Created(h) /\ UNCHANGED faults
      BY <2>3
    <3>2. o \in ScaledObjects
      BY DEF StoresOK, Optional
    <3>3. Merge(o, h) \in ScaledObjects
      <4>1. h \in HTTPScaledObjects /\ h.replicas # Invalid
        BY <1>0, <1>7 DEF PatchSO, CopyCurrent
      <4>2. h.uid \in 0..MaxUid /\ h.replicas \in Nat
        BY <4>1, FieldTypes
      <4> QED
        BY <3>2, <4>1, <4>2 DEF ScaledObjects, Merge
    <3> QED
      BY Zenon, <1>0, <2>2, <3>1, <3>3, OneIsOptional, PutSOTypes, ToSaveTypes DEF Created
  <2>4. CASE /\ IF scaledObject = {} THEN UNCHANGED faults ELSE Fault
             /\ ToSave(h, TRUE) /\ UNCHANGED <<api, caches>>
    <3>1. faults' \in 0..MaxFaults
      BY <2>4, BoundsAreNat DEF Fault, WorkerOK
    <3>2. StoresOK'
      BY <2>4 DEF StoresOK
    <3> QED
      BY Zenon, <1>0, <2>2, <2>4, <3>1, <3>2, ToSaveTypes
  <2> QED
    BY Zenon, <2>1, <2>3, <2>4
<1>8. CASE DeferredSave
  <2>1. StoresOK' /\ faults' \in 0..MaxFaults /\ UNCHANGED <<uid, edits>>
    BY <1>0, <1>8, SaveStatusTypes DEF DeferredSave
  <2>2. CASE failed
    BY Zenon, <1>8, <2>1, <2>2, ReturnTypes DEF DeferredSave
  <2>3. CASE ~failed
    BY <1>8, <2>1, <2>3 DEF DeferredSave, WorkerOK
  <2> QED
    BY <2>1, <2>2, <2>3
<1>9. CASE Ready
  <2>1. \A h \in copy : Cond(h, "HTTPScaledObjectIsReady") \in HTTPScaledObjects
    BY <1>0, CondKeeps DEF Reasons
  <2>2. StoresOK' /\ faults' \in 0..MaxFaults /\ UNCHANGED <<uid, edits>>
    BY <1>9, <2>1, SaveStatusTypes DEF Ready
  <2> QED
    BY Zenon, <1>9, <2>2, ReturnTypes DEF Ready
<1> QED
  BY <1>1, <1>2, <1>3, <1>4, <1>5, <1>6, <1>7, <1>8, <1>9 DEF OperatorStep

(* Informers, the garbage collector and a restart keep the types.          *)
LEMMA WorldTypes ==
    ASSUME TypeOK, UNCHANGED toggled, SeeHTTPSO \/ SeeSO \/ CollectGarbage \/ Restart
    PROVE  TypeOK'
<1> SUFFICES StoresOK' /\ WorkerOK'
  BY DEF TypeOK, StoresOK, WorkerOK
<1> StoresOK /\ WorkerOK
  BY TypeParts
<1>1. CASE SeeHTTPSO
  <2>1. /\ Optional(httpsoCache', HTTPScaledObjects)
        /\ httpsoLog' \in Seq(SUBSET HTTPScaledObjects)
        /\ \A i \in 1..Len(httpsoLog') : Optional(httpsoLog'[i], HTTPScaledObjects)
    BY <1>1 DEF SeeHTTPSO, StoresOK
  <2>2. StoresOK'
    BY <1>1, <2>1 DEF SeeHTTPSO, StoresOK
  <2>3. queued' \in BOOLEAN
    BY <1>1 DEF SeeHTTPSO
  <2>4. WorkerOK'
    BY <1>1, <2>3 DEF SeeHTTPSO, WorkerOK
  <2> QED
    BY <2>2, <2>4
<1>2. CASE SeeSO
  <2>1. /\ Optional(soCache', ScaledObjects)
        /\ soLog' \in Seq(SUBSET ScaledObjects)
        /\ \A i \in 1..Len(soLog') : Optional(soLog'[i], ScaledObjects)
    BY <1>2 DEF SeeSO, StoresOK
  <2>2. StoresOK'
    BY <1>2, <2>1 DEF SeeSO, StoresOK
  <2>3. queued' \in BOOLEAN
    BY <1>2 DEF SeeSO
  <2>4. WorkerOK'
    BY <1>2, <2>3 DEF SeeSO, WorkerOK
  <2> QED
    BY <2>2, <2>4
<1>3. CASE CollectGarbage
  <2>1. Optional({}, ScaledObjects)
    BY DEF Optional
  <2>2. edits' \in 0..MaxEdits /\ WriteSO({})
    BY <1>3 DEF CollectGarbage, WorkerOK
  <2> QED
    BY <2>1, <2>2, WriteSOTypes
<1>4. CASE Restart
  <2>1. /\ httpsoLog' \in Seq(SUBSET HTTPScaledObjects) /\ soLog' \in Seq(SUBSET ScaledObjects)
        /\ Len(httpsoLog') = 0 /\ Len(soLog') = 0
    BY <1>4 DEF Restart
  <2>2. StoresOK'
    BY <1>4, <2>1 DEF Restart, StoresOK
  <2>3. copyFresh' \in BOOLEAN /\ failed' \in BOOLEAN /\ queued' \in BOOLEAN
    BY Zenon, <1>4 DEF Restart
  <2>4. faults' \in 0..MaxFaults
    BY <1>4, BoundsAreNat DEF Restart, WorkerOK
  <2>5. step' = "idle" /\ Optional(copy', HTTPScaledObjects)
    BY <1>4 DEF Restart, Optional
  <2>6. UNCHANGED <<uid, edits>>
    BY <1>4 DEF Restart
  <2>7. WorkerOK'
    BY <2>3, <2>4, <2>5, <2>6 DEF WorkerOK
  <2> QED
    BY <2>2, <2>7
<1> QED
  BY <1>1, <1>2, <1>3, <1>4
-----------------------------------------------------------------------------
(* Every step keeps the types.                                             *)
LEMMA NextTypes == TypeOK /\ CopyCurrent /\ [Next]_vars => TypeOK'
<1> SUFFICES ASSUME TypeOK, CopyCurrent, [Next]_vars PROVE TypeOK'
  OBVIOUS
<1>1. CASE UNCHANGED vars
  BY <1>1 DEF vars, TypeOK
<1>2. CASE Next
  BY <1>2, UserTypes, OperatorTypes, WorldTypes DEF Next, Untoggled
<1> QED
  BY <1>1, <1>2

(* Adding a condition makes no new version.                                *)
LEMMA CondAlike ==
    ASSUME NEW h \in HTTPScaledObjects, NEW reason \in Reasons
    PROVE  Alike(Cond(h, reason), h) /\ Cond(h, reason) \in HTTPScaledObjects
BY CondKeeps DEF Alike

(* Neither does adding the finalizer (ensureFinalizer).                    *)
LEMMA FinalizerAlike ==
    ASSUME NEW h \in HTTPScaledObjects
    PROVE  Alike([h EXCEPT !.finalizer = TRUE], h)
BY DEF Alike, HTTPScaledObjects

(* Being alike is an equivalence.                                          *)
LEMMA AlikeTransitive ==
    ASSUME NEW x, NEW y, NEW z
    PROVE  /\ Alike(x, x) /\ (Alike(x, y) => Alike(y, x))
           /\ Alike(x, y) /\ Alike(y, z) => Alike(x, z)
BY DEF Alike

(* What SaveStatus writes is alike what was there: its copy was fresh, or  *)
(* the API server had refused it.                                          *)
LEMMA SaveStatusWrites ==
    ASSUME CopyCurrent, TypeOK, NEW c \in copy, NEW x \in HTTPScaledObjects, Alike(x, c), SaveStatus(x)
    PROVE  \/ UNCHANGED <<api, caches>>
           \/ PutHTTPSO({x}) /\ \E h \in httpso : Alike(x, h)
<1>1. \A d \in copy : d = c
  BY DEF TypeOK, Optional
<1>2. CASE copyFresh /\ PutHTTPSO({x})
  BY <1>1, <1>2, AlikeTransitive DEF CopyCurrent
<1> QED
  BY <1>2 DEF SaveStatus

(* The operator writes a new state of the HTTPScaledObject there is.       *)
Rewritten == \E x \in HTTPScaledObjects, h \in httpso : Alike(x, h) /\ PutHTTPSO({x})

(* Reconcile goes on with the version it has.                              *)
CopyAlike == \A x \in copy' : \E c \in copy : Alike(x, c)

(* What a call of Reconcile does to the stores: nothing; or it removes the *)
(* HTTPScaledObject with its last finalizer; or it writes finalizer or     *)
(* conditions; or it writes the ScaledObject.  After its first read        *)
(* Reconcile goes on with one version.                                     *)
LEMMA OperatorEffects ==
    ASSUME TypeOK, CopyCurrent, OperatorStep
    PROVE  /\ UNCHANGED <<toggled, uid>>
           /\ Reconcile \/ CopyAlike
           /\ UNCHANGED <<api, caches>> \/ PutHTTPSO({}) \/ Rewritten \/ PutSO(scaledObject')
<1>0. UNCHANGED toggled /\ \A h \in copy : h \in HTTPScaledObjects
  BY DEF OperatorStep, TypeOK, Optional
<1>1. ASSUME NEW reason \in Reasons, NEW h \in copy
      PROVE  Alike(Cond(h, reason), h) /\ Cond(h, reason) \in HTTPScaledObjects
  BY <1>0, CondAlike
<1>2. ASSUME NEW h, \E c \in copy : Alike(h, c), h \in HTTPScaledObjects, Resources(h) PROVE CopyAlike
  BY <1>2, CondAlike, AlikeTransitive DEF Resources, Return, CopyAlike, Reasons
<1>3. ASSUME NEW h, \E c \in copy : Alike(h, c), NEW e, ToSave(h, e) PROVE CopyAlike
  BY <1>3 DEF ToSave, CopyAlike
<1>4. CASE Reconcile
  BY <1>0, <1>4 DEF Reconcile
<1>5. CASE Finalize
  BY <1>0, <1>5 DEF Finalize, Return, CopyAlike
<1>6. CASE Ensure
  <2>1. PICK h \in copy :
         \/ Resources(h) /\ UNCHANGED <<api, caches, counts>>
         \/ /\ copyFresh
            /\ PutHTTPSO({[h EXCEPT !.finalizer = TRUE]}) /\ Resources([h EXCEPT !.finalizer = TRUE])
            /\ UNCHANGED counts
         \/ Return(TRUE) /\ UNCHANGED <<api, caches, uid, edits>>
    BY Zenon, <1>6 DEF Ensure
  <2> DEFINE new == [h EXCEPT !.finalizer = TRUE]
  <2>2. new \in HTTPScaledObjects /\ Alike(new, h) /\ Alike(h, h)
    BY Zenon, <1>0, EditKeeps, FinalizerAlike, AlikeTransitive
  <2> HIDE DEF new
  <2>3. CASE Resources(h) /\ UNCHANGED <<api, caches, counts>>
    BY <1>0, <1>2, <2>2, <2>3
  <2>4. CASE copyFresh /\ PutHTTPSO({new}) /\ Resources(new) /\ UNCHANGED counts
    <3>1. CopyAlike
      BY <1>2, <2>2, <2>4
    <3>2. \E x \in httpso : Alike(h, x)
      BY <2>4 DEF CopyCurrent, TypeOK, Optional
    <3>3. Rewritten
      BY <2>2, <2>4, <3>2, AlikeTransitive DEF Rewritten
    <3> QED
      BY <1>0, <2>4, <3>1, <3>3
  <2>5. CASE Return(TRUE) /\ UNCHANGED <<api, caches, uid, edits>>
    BY <1>0, <2>5 DEF Return, CopyAlike
  <2> QED
    BY Zenon, <2>1, <2>3, <2>4, <2>5 DEF new
<1>7. CASE DeleteSO
  <2>1. CopyAlike
    BY Zenon, <1>3, <1>7, AlikeTransitive DEF DeleteSO
  <2>2. UNCHANGED <<api, caches>> \/ PutSO(scaledObject')
    BY Zenon, <1>7 DEF DeleteSO, PutSO
  <2> QED
    BY <1>0, <1>7, <2>1, <2>2 DEF DeleteSO
<1>8. CASE CreateSO
  <2>1. CopyAlike
    BY Zenon, <1>1, <1>3, <1>8, AlikeTransitive DEF CreateSO, Created, Reasons, CopyAlike
  <2>2. UNCHANGED <<api, caches>> \/ PutSO(scaledObject')
    BY Zenon, <1>8 DEF CreateSO, PutSO
  <2> QED
    BY <1>0, <1>8, <2>1, <2>2 DEF CreateSO
<1>9. CASE FetchSO
  BY Zenon, <1>0, <1>3, <1>9, AlikeTransitive DEF FetchSO, CopyAlike
<1>10. CASE PatchSO
  <2>1. CopyAlike
    BY Zenon, <1>1, <1>3, <1>10, AlikeTransitive DEF PatchSO, Created, Reasons
  <2>2. UNCHANGED <<api, caches>> \/ PutSO(scaledObject')
    BY Zenon, <1>10 DEF PatchSO, PutSO
  <2> QED
    BY <1>0, <1>10, <2>1, <2>2 DEF PatchSO
<1>11. CASE DeferredSave
  <2>1. CopyAlike
    BY <1>11, AlikeTransitive DEF DeferredSave, Return, CopyAlike
  <2>2. UNCHANGED <<api, caches>> \/ Rewritten
    BY <1>0, <1>11, SaveStatusWrites, AlikeTransitive DEF DeferredSave, Rewritten
  <2> QED
    BY <1>0, <1>11, <2>1, <2>2 DEF DeferredSave
<1>12. CASE Ready
  <2>1. CopyAlike
    BY <1>12 DEF Ready, Return, CopyAlike
  <2>2. UNCHANGED <<api, caches>> \/ Rewritten
    BY <1>1, <1>12, SaveStatusWrites DEF Ready, Rewritten, Reasons
  <2> QED
    BY <1>0, <1>12, <2>1, <2>2 DEF Ready
<1> QED
  BY <1>4, <1>5, <1>6, <1>7, <1>8, <1>9, <1>10, <1>11, <1>12 DEF OperatorStep

(* A log with one more write.                                              *)
LEMMA AppendEnds ==
    ASSUME NEW S, NEW log \in Seq(S), NEW x \in S
    PROVE  /\ Append(log, x) # <<>> /\ Len(Append(log, x)) = Len(log) + 1
           /\ Append(log, x)[Len(log) + 1] = x
           /\ \A i \in 1..Len(log) : Append(log, x)[i] = log[i]
OBVIOUS

(* A log with one write less.                                              *)
LEMMA TailParts ==
    ASSUME NEW S, NEW log \in Seq(S), log # <<>>
    PROVE  /\ 1 \in 1..Len(log) /\ Head(log) = log[1] /\ Tail(log) \in Seq(S)
           /\ Len(Tail(log)) = Len(log) - 1
           /\ \A i \in 1..Len(Tail(log)) : i + 1 \in 1..Len(log) /\ Tail(log)[i] = log[i + 1]
OBVIOUS

(* Taking the first write out of a log leaves its end as it is.            *)
LEMMA TailEnds ==
    ASSUME NEW S, NEW log \in Seq(S), log # <<>>
    PROVE  /\ Tail(log) = <<>> => Head(log) = log[Len(log)]
           /\ Tail(log) # <<>> => Tail(log)[Len(Tail(log))] = log[Len(log)]
<1>1. /\ Len(log) \in Nat \ {0} /\ Len(Tail(log)) = Len(log) - 1 /\ Head(log) = log[1]
      /\ Tail(log) \in Seq(S)
  OBVIOUS
<1>2. \A i \in 1..Len(Tail(log)) : Tail(log)[i] = log[i + 1]
  OBVIOUS
<1>3. Tail(log) = <<>> => Len(Tail(log)) = 0
  <2>1. Len(<<>>) = 0
    OBVIOUS
  <2> QED
    BY <2>1, Zenon
<1>4. Tail(log) # <<>> => Len(Tail(log)) # 0
  <2>1. ASSUME NEW t \in Seq(S), Len(t) = 0 PROVE t = <<>>
    BY <2>1
  <2> QED
    BY <1>1, <2>1
<1>5. ASSUME Tail(log) # <<>> PROVE Tail(log)[Len(Tail(log))] = log[Len(log)]
  <2>1. Len(Tail(log)) \in 1..Len(Tail(log)) /\ Len(Tail(log)) + 1 = Len(log)
    BY <1>1, <1>4, <1>5
  <2> QED
    BY <1>2, <2>1
<1> QED
  BY <1>1, <1>3, <1>5

(* A write is the end of its log.                                          *)
LEMMA PutEnds ==
    ASSUME TypeOK, TypeOK', LogsEnd, PutHTTPSO(httpso') \/ PutSO(scaledObject')
    PROVE  LogsEnd'
<1> StoresOK /\ httpso' \in SUBSET HTTPScaledObjects /\ scaledObject' \in SUBSET ScaledObjects
  BY DEF TypeOK, StoresOK, Optional
<1>1. CASE PutHTTPSO(httpso')
  BY <1>1, AppendEnds DEF PutHTTPSO, LogsEnd, StoresOK
<1>2. CASE PutSO(scaledObject')
  <2>1. CASE scaledObject' = scaledObject
    BY <1>2, <2>1 DEF PutSO, LogsEnd
  <2>2. CASE scaledObject' # scaledObject
    <3>1. soLog' = Append(soLog, scaledObject') /\ UNCHANGED <<httpso, httpsoCache, httpsoLog>>
      BY <1>2, <2>2 DEF PutSO
    <3> QED
      BY <3>1, AppendEnds DEF LogsEnd, StoresOK
  <2> QED
    BY <2>1, <2>2
<1> QED
  BY <1>1, <1>2

(* Every step keeps it that a cache, after what it has still to see, has   *)
(* what there is (the informers).                                          *)
LEMMA LogsStep == TypeOK /\ LogsEnd /\ CopyCurrent /\ [Next]_vars => LogsEnd'
<1> SUFFICES ASSUME TypeOK, LogsEnd, CopyCurrent, [Next]_vars PROVE LogsEnd'
  OBVIOUS
<1>0. TypeOK'
  BY NextTypes
<1>1. CASE UserStep
  BY Zenon, <1>0, <1>1, PutEnds DEF UserStep, CreateHTTPSO, EditSpec, EditAnnotation, DeleteHTTPSO, Meddle,
       CreateOwnSO, WriteHTTPSO, WriteSO, PutHTTPSO, PutSO
<1>2. CASE OperatorStep
  <2>1. UNCHANGED <<api, caches>> \/ PutHTTPSO(httpso') \/ PutSO(scaledObject')
    BY Zenon, <1>2, OperatorEffects DEF Rewritten, PutHTTPSO
  <2> QED
    BY <1>0, <2>1, PutEnds DEF LogsEnd
<1>3. CASE SeeHTTPSO
  <2>1. httpsoLog \in Seq(SUBSET HTTPScaledObjects)
    BY DEF TypeOK
  <2> QED
    BY <1>3, <2>1, TailEnds DEF SeeHTTPSO, LogsEnd
<1>4. CASE SeeSO
  <2>1. soLog \in Seq(SUBSET ScaledObjects)
    BY DEF TypeOK
  <2> QED
    BY <1>4, <2>1, TailEnds DEF SeeSO, LogsEnd
<1>5. CASE CollectGarbage
  BY <1>0, <1>5, PutEnds DEF CollectGarbage, WriteSO, PutSO
<1>6. CASE Restart
  BY <1>6 DEF Restart, LogsEnd
<1>7. CASE UNCHANGED vars
  BY <1>7 DEF vars, LogsEnd
<1> QED
  BY <1>1, <1>2, <1>3, <1>4, <1>5, <1>6, <1>7 DEF Next, Untoggled

(* A write of the HTTPScaledObject that there is, or of none, comes behind *)
(* it in the log.                                                          *)
LEMMA PutDeletions ==
    ASSUME TypeOK, TypeOK', LogsEnd, Deletions, PutHTTPSO(httpso'),
           \A x \in httpso, y \in httpso' : x.uid = y.uid
    PROVE  Deletions'
<1>1. /\ httpsoLog \in Seq(SUBSET HTTPScaledObjects) /\ httpso' \in SUBSET HTTPScaledObjects
      /\ httpsoLog' = Append(httpsoLog, httpso') /\ httpsoCache' = httpsoCache /\ Len(httpsoLog) \in Nat
  BY DEF TypeOK, Optional, PutHTTPSO
<1>2. /\ Len(httpsoLog') = Len(httpsoLog) + 1 /\ httpsoLog'[Len(httpsoLog) + 1] = httpso'
      /\ \A i \in 1..Len(httpsoLog) : httpsoLog'[i] = httpsoLog[i]
  BY <1>1, AppendEnds
<1> DEFINE Before(i) == IF i = 1 THEN httpsoCache ELSE httpsoLog[i-1]
<1>3. ASSUME NEW i \in 1..Len(httpsoLog)
      PROVE  \A x \in (IF i = 1 THEN httpsoCache' ELSE httpsoLog'[i-1]), y \in httpsoLog'[i] : x.uid = y.uid
  <2>1. (IF i = 1 THEN httpsoCache' ELSE httpsoLog'[i-1]) = Before(i) /\ httpsoLog'[i] = httpsoLog[i]
    BY <1>1, <1>2
  <2>2. \A x \in Before(i), y \in httpsoLog[i] : x.uid = y.uid
    BY DEF Deletions
  <2> QED
    BY <2>1, <2>2
<1>4. LET i == Len(httpsoLog) + 1
      IN  \A x \in (IF i = 1 THEN httpsoCache' ELSE httpsoLog'[i-1]), y \in httpsoLog'[i] : x.uid = y.uid
  <2>1. (IF Len(httpsoLog) + 1 = 1 THEN httpsoCache' ELSE httpsoLog'[Len(httpsoLog) + 1 - 1]) = httpso
    <3>1. CASE Len(httpsoLog) = 0
      BY <1>1, <3>1 DEF LogsEnd
    <3>2. CASE Len(httpsoLog) # 0
      <4>1. httpsoLog # <<>> /\ Len(httpsoLog) \in 1..Len(httpsoLog) /\ Len(httpsoLog) + 1 - 1 = Len(httpsoLog)
        BY <1>1, <3>2
      <4> QED
        BY <1>1, <1>2, <3>2, <4>1 DEF LogsEnd
    <3> QED
      BY <3>1, <3>2
  <2> QED
    BY <1>2, <2>1
<1>5. \A i \in 1..Len(httpsoLog') : i \in 1..Len(httpsoLog) \/ i = Len(httpsoLog) + 1
  BY <1>1, <1>2
<1> QED
  BY <1>3, <1>4, <1>5 DEF Deletions

(* Users and the operator write the HTTPScaledObject that there is, or     *)
(* none in its place; only where there is none they create one.            *)
LEMMA WritesOne ==
    ASSUME TypeOK, CopyCurrent, UserStep \/ OperatorStep
    PROVE  \/ UNCHANGED <<httpsoCache, httpsoLog>>
           \/ PutHTTPSO(httpso') /\ \A x \in httpso, y \in httpso' : x.uid = y.uid
<1>0. \A h \in httpso : h \in HTTPScaledObjects /\ \A g \in httpso : g = h
  BY DEF TypeOK, Optional
<1>1. CASE CreateHTTPSO
  <2>1. httpso = {}
    BY <1>1 DEF CreateHTTPSO
  <2>2. PutHTTPSO(httpso')
    BY Zenon, <1>1 DEF CreateHTTPSO, WriteHTTPSO, PutHTTPSO
  <2> QED
    BY <2>1, <2>2
<1>2. ASSUME NEW h \in httpso, NEW new, WriteHTTPSO({}) \/ (WriteHTTPSO({new}) /\ new.uid = h.uid)
      PROVE  PutHTTPSO(httpso') /\ \A x \in httpso, y \in httpso' : x.uid = y.uid
  BY <1>0, <1>2 DEF WriteHTTPSO, PutHTTPSO
<1>3. CASE EditSpec
  <2>1. PICK h \in httpso, n \in Replicas : WriteHTTPSO({[h EXCEPT !.replicas = n, !.generation = @ + 1]})
    BY <1>3 DEF EditSpec
  <2>2. [h EXCEPT !.replicas = n, !.generation = @ + 1].uid = h.uid
    BY <1>0 DEF HTTPScaledObjects
  <2> QED
    BY Zenon, <1>2, <2>1, <2>2
<1>4. CASE EditAnnotation
  <2>1. PICK h \in httpso, skip \in Skips : WriteHTTPSO({[h EXCEPT !.skip = skip]})
    BY Zenon, <1>4 DEF EditAnnotation
  <2>2. [h EXCEPT !.skip = skip].uid = h.uid
    BY <1>0 DEF HTTPScaledObjects
  <2> QED
    BY Zenon, <1>2, <2>1, <2>2
<1>5. CASE DeleteHTTPSO
  <2>1. PICK h \in httpso :
          WriteHTTPSO(IF h.finalizer
                      THEN {[h EXCEPT !.deleting = TRUE, !.generation = @ + 1]} ELSE {})
    BY <1>5 DEF DeleteHTTPSO
  <2>2. [h EXCEPT !.deleting = TRUE, !.generation = @ + 1].uid = h.uid
    BY <1>0 DEF HTTPScaledObjects
  <2> QED
    BY Zenon, <1>2, <2>1, <2>2
<1>6. CASE Meddle \/ CreateOwnSO
  BY <1>6 DEF Meddle, CreateOwnSO, WriteSO, PutSO
<1>7. CASE OperatorStep
  <2>1. CASE Rewritten
    <3>1. PICK x \in HTTPScaledObjects, h \in httpso : Alike(x, h) /\ PutHTTPSO({x})
      BY <2>1 DEF Rewritten
    <3> QED
      BY <1>0, <3>1 DEF Alike, PutHTTPSO
  <2>2. UNCHANGED <<api, caches>> \/ PutHTTPSO({}) \/ Rewritten \/ PutSO(scaledObject')
    BY <1>7, OperatorEffects
  <2> QED
    BY <2>1, <2>2 DEF PutHTTPSO, PutSO
<1> QED
  BY Zenon, <1>1, <1>3, <1>4, <1>5, <1>6, <1>7 DEF UserStep

(* Every step keeps the deletions in the log.                              *)
LEMMA DeletionsStep ==
    ASSUME TypeOK, TypeOK', LogsEnd, Deletions, CopyCurrent, [Next]_vars
    PROVE  Deletions'
<1>1. CASE UNCHANGED <<httpsoCache, httpsoLog>>
  BY <1>1 DEF Deletions
<1>2. CASE UserStep \/ OperatorStep
  BY Zenon, <1>1, <1>2, WritesOne, PutDeletions
<1>3. CASE SeeHTTPSO
  <2>1. /\ httpsoLog \in Seq(SUBSET HTTPScaledObjects) /\ httpsoLog # <<>> /\ Len(httpsoLog) \in Nat
        /\ httpsoCache' = Head(httpsoLog) /\ httpsoLog' = Tail(httpsoLog)
    BY <1>3 DEF SeeHTTPSO, TypeOK
  <2>2. /\ httpsoCache' = httpsoLog[1] /\ Len(httpsoLog') = Len(httpsoLog) - 1
        /\ \A i \in 1..Len(httpsoLog') : i + 1 \in 1..Len(httpsoLog) /\ httpsoLog'[i] = httpsoLog[i + 1]
    BY <2>1, TailParts
  <2>3. ASSUME NEW i \in 1..Len(httpsoLog'),
               NEW x \in (IF i = 1 THEN httpsoCache' ELSE httpsoLog'[i-1]), NEW y \in httpsoLog'[i]
        PROVE  x.uid = y.uid
    <3>1. (IF i = 1 THEN httpsoCache' ELSE httpsoLog'[i-1]) = httpsoLog[i]
      BY <2>1, <2>2
    <3>2. i + 1 \in 1..Len(httpsoLog) /\ i + 1 # 1 /\ (i + 1) - 1 = i /\ y \in httpsoLog[i + 1]
      BY <2>1, <2>2
    <3> QED
      BY <3>1, <3>2 DEF Deletions
  <2> QED
    BY <2>3 DEF Deletions
<1>4. CASE SeeSO \/ CollectGarbage \/ UNCHANGED vars
  BY <1>1, <1>4 DEF SeeSO, CollectGarbage, WriteSO, PutSO, vars
<1>5. CASE Restart
  BY <1>5 DEF Restart, Deletions
<1> QED
  BY <1>2, <1>3, <1>4, <1>5 DEF Next, Untoggled

(* A new version that the cache sees passes a predicate.                   *)
LEMMA SeenPasses ==
    ASSUME TypeOK, Deletions, SeeHTTPSO
    PROVE  HTTPSOPasses(httpsoCache, httpsoCache') \/ Same(httpsoCache, httpsoCache')
<1>1. 1 \in 1..Len(httpsoLog) /\ httpsoCache' = httpsoLog[1]
  BY TailParts DEF SeeHTTPSO, TypeOK
<1>2. \A x \in httpsoCache, y \in httpsoCache' : x.uid = y.uid
  BY <1>1 DEF Deletions
<1> QED
  BY <1>2 DEF HTTPSOPasses, HTTPSOUpdate, Same
-----------------------------------------------------------------------------
(* What is known of a version is known of all that are alike.              *)
LEMMA KnownAlike ==
    ASSUME NEW x, NEW y, Alike(x, y), Known({y})
    PROVE  Known({x})
BY DEF Known, Older, Alike

(* A step leaves all that is known as old as it was or older.              *)
Kept == \A x \in HTTPScaledObjects : Known({x}) => Known({x})'

(* Such a step, if it adds at most the state that it writes, keeps caches, *)
(* logs and copy coherent.                                                 *)
LEMMA CoherentKept ==
    ASSUME TypeOK, TypeOK', Coherent, Kept, Known(httpso)', UNCHANGED httpsoCache,
           UNCHANGED httpsoLog \/ httpsoLog' = Append(httpsoLog, httpso'),
           UNCHANGED copy \/ CopyAlike
    PROVE  Coherent'
<1>1. ASSUME NEW v, v \subseteq HTTPScaledObjects, Known(v) PROVE \A x \in v : Known({x})'
  BY <1>1 DEF Known, Kept
<1>2. Known(httpsoCache)'
  <2>1. \A x \in httpsoCache : Known({x})'
    BY Zenon, <1>1 DEF Coherent, TypeOK, Optional
  <2> QED
    BY <2>1 DEF Known
<1>3. Known(copy)'
  <2>1. \A c \in copy : c \in HTTPScaledObjects /\ Known({c})
    BY DEF Coherent, Known, TypeOK, Optional
  <2>2. \A x \in copy' : x \in HTTPScaledObjects
    BY DEF TypeOK, Optional
  <2>3. \A x \in copy' : Known({x})
    BY <2>1, KnownAlike DEF CopyAlike
  <2>4. \A x \in copy' : Known({x})'
    BY Zenon, <2>2, <2>3 DEF Kept
  <2> QED
    BY <2>4 DEF Known
<1>4. ASSUME NEW i \in 1..Len(httpsoLog) PROVE \A x \in httpsoLog[i] : Known({x})'
  <2>1. httpsoLog[i] \subseteq HTTPScaledObjects /\ Known(httpsoLog[i])
    BY DEF Coherent, TypeOK, Optional
  <2> QED
    BY Zenon, <1>1, <2>1
<1>5. ASSUME NEW i \in 1..Len(httpsoLog') PROVE \A x \in httpsoLog'[i] : Known({x})'
  <2>1. CASE UNCHANGED httpsoLog
    BY Zenon, <1>4, <2>1
  <2>2. CASE httpsoLog' = Append(httpsoLog, httpso')
    <3>1. httpsoLog \in Seq(SUBSET HTTPScaledObjects) /\ httpso' \in SUBSET HTTPScaledObjects
      BY DEF TypeOK, Optional
    <3>2. (i \in 1..Len(httpsoLog) /\ httpsoLog'[i] = httpsoLog[i]) \/ httpsoLog'[i] = httpso'
      BY <2>2, <3>1, AppendEnds
    <3>3. \A x \in httpso' : Known({x})'
      BY DEF Known
    <3> QED
      BY Zenon, <1>4, <3>2, <3>3
  <2> QED
    BY Zenon, <2>1, <2>2
<1>6. \A i \in 1..Len(httpsoLog') : Known(httpsoLog[i])'
  BY <1>5 DEF Known
<1> QED
  BY <1>2, <1>3, <1>6 DEF Coherent

(* What users write is newer than all the operator has seen: a new uid or  *)
(* a new generation.  Only the annotation changes without one, and is      *)
(* toggled then.                                                           *)
LEMMA UserCoherent ==
    ASSUME TypeOK, TypeOK', Coherent, UserStep
    PROVE  Coherent'
<1>0. /\ uid \in Nat /\ UNCHANGED httpsoCache /\ UNCHANGED copy
      /\ \A h \in httpso : h \in HTTPScaledObjects /\ \A g \in httpso : g = h
  <2>1. uid \in Nat /\ \A h \in httpso : h \in HTTPScaledObjects /\ \A g \in httpso : g = h
    BY BoundsAreNat DEF TypeOK, Optional
  <2>2. (\E new : WriteHTTPSO(new) \/ WriteSO(new))
    BY Zenon DEF UserStep, CreateHTTPSO, EditSpec, EditAnnotation, DeleteHTTPSO, Meddle, CreateOwnSO
  <2> QED
    BY <2>1, <2>2 DEF WriteHTTPSO, WriteSO, PutHTTPSO, PutSO
<1>00. \A x \in HTTPScaledObjects : x.uid \in Nat /\ x.generation \in Nat
  BY FieldTypes, BoundsAreNat
<1>1. CASE CreateHTTPSO
  <2>1. PICK n \in Replicas, skip \in Skips :
          WriteHTTPSO({[uid |-> uid + 1, generation |-> 1, replicas |-> n, skip |-> skip,
                        deleting |-> FALSE, finalizer |-> FALSE, conditions |-> <<>>]})
    BY Zenon, <1>1 DEF CreateHTTPSO
  <2>2. /\ uid' = uid + 1 /\ httpsoLog' = Append(httpsoLog, httpso')
        /\ \A h \in httpso' : h.uid = uid + 1 /\ \A g \in httpso' : g = h
    BY <1>1, <2>1 DEF CreateHTTPSO, WriteHTTPSO, PutHTTPSO
  <2>3. Kept
    BY SMTT(30), <1>0, <1>00, <2>2 DEF Kept, Known, Older
  <2>4. Known(httpso)'
    BY <1>0, <2>2 DEF Known, Older, TypeOK, Optional, HTTPScaledObjects
  <2> QED
    BY <1>0, <2>2, <2>3, <2>4, CoherentKept
<1>2. CASE EditSpec
  <2>1. PICK h \in httpso, n \in Replicas :
          UNCHANGED uid /\ WriteHTTPSO({[h EXCEPT !.replicas = n, !.generation = @ + 1]})
    BY <1>2 DEF EditSpec
  <2> DEFINE new == [h EXCEPT !.replicas = n, !.generation = @ + 1]
  <2>2. new.uid = h.uid /\ new.generation = h.generation + 1
    BY <1>0 DEF HTTPScaledObjects
  <2>3. httpso' = {new} /\ httpsoLog' = Append(httpsoLog, httpso')
    BY <2>1 DEF WriteHTTPSO, PutHTTPSO
  <2> HIDE DEF new
  <2>4. Kept
    BY <1>0, <1>00, <2>1, <2>2, <2>3 DEF Kept, Known, Older
  <2>5. Known(httpso)'
    BY <1>0, <1>00, <2>1, <2>2, <2>3 DEF Known, Older, Coherent
  <2> QED
    BY <1>0, <2>3, <2>4, <2>5, CoherentKept
<1>3. CASE EditAnnotation /\ toggled' = TRUE
  <2>1. PICK h \in httpso, skip \in Skips :
          UNCHANGED uid /\ WriteHTTPSO({[h EXCEPT !.skip = skip]})
    BY Zenon, <1>3 DEF EditAnnotation
  <2> DEFINE new == [h EXCEPT !.skip = skip]
  <2>2. /\ new.uid = h.uid /\ new.generation = h.generation
        /\ new.replicas = h.replicas /\ new.deleting = h.deleting
    BY <1>0 DEF HTTPScaledObjects
  <2>3. httpso' = {new} /\ httpsoLog' = Append(httpsoLog, httpso')
    BY <2>1 DEF WriteHTTPSO, PutHTTPSO
  <2> HIDE DEF new
  <2>4. Kept
    BY <1>0, <1>00, <1>3, <2>1, <2>2, <2>3 DEF Kept, Known, Older
  <2>5. Known(httpso)'
    BY <1>0, <1>00, <1>3, <2>1, <2>2, <2>3 DEF Known, Older, Coherent
  <2> QED
    BY <1>0, <2>3, <2>4, <2>5, CoherentKept
<1>4. CASE DeleteHTTPSO
  <2>1. PICK h \in httpso :
          /\ UNCHANGED uid
          /\ WriteHTTPSO(IF h.finalizer
                         THEN {[h EXCEPT !.deleting = TRUE, !.generation = @ + 1]} ELSE {})
    BY <1>4 DEF DeleteHTTPSO
  <2> DEFINE new == [h EXCEPT !.deleting = TRUE, !.generation = @ + 1]
  <2>2. new.uid = h.uid /\ new.generation = h.generation + 1
    BY <1>0 DEF HTTPScaledObjects
  <2>3. (httpso' = {new} \/ httpso' = {}) /\ httpsoLog' = Append(httpsoLog, httpso')
    BY <2>1 DEF WriteHTTPSO, PutHTTPSO
  <2> HIDE DEF new
  <2>4. Kept
    BY <1>0, <1>00, <2>1, <2>2, <2>3 DEF Kept, Known, Older
  <2>5. Known(httpso)'
    BY <1>0, <1>00, <2>1, <2>2, <2>3 DEF Known, Older, Coherent
  <2> QED
    BY <1>0, <2>3, <2>4, <2>5, CoherentKept
<1>5. CASE (Meddle \/ CreateOwnSO) /\ UNCHANGED toggled
  <2>1. UNCHANGED <<httpso, httpsoLog, httpsoCache, copy, uid, toggled>>
    BY <1>5 DEF Meddle, CreateOwnSO, WriteSO, PutSO
  <2> QED
    BY <2>1 DEF Coherent, Known, Older
<1> QED
  BY Zenon, <1>1, <1>2, <1>3, <1>4, <1>5 DEF UserStep

(* Every step keeps caches, logs and the copy of Reconcile coherent.       *)
LEMMA CoherentStep ==
    ASSUME TypeOK, TypeOK', LogsEnd, Coherent, CopyCurrent, [Next]_vars
    PROVE  Coherent'
<1>1. CASE UserStep
  BY <1>1, UserCoherent
<1>2. CASE OperatorStep
  <2>1. CASE Reconcile
    <3>1. UNCHANGED <<httpso, httpsoLog, httpsoCache, uid, toggled>> /\ copy' = httpsoCache
      BY <1>2, <2>1 DEF Reconcile, OperatorStep
    <3> QED
      BY <3>1 DEF Coherent, Known, Older
  <2>2. CASE CopyAlike
    <3>1. UNCHANGED <<httpsoCache, uid, toggled>>
      BY <1>2, OperatorEffects DEF Rewritten, PutHTTPSO, PutSO
    <3>2. CASE UNCHANGED <<httpso, httpsoLog>>
      <4>1. Kept /\ Known(httpso)'
        BY <3>1, <3>2 DEF Kept, Known, Older, Coherent
      <4> QED
        BY <2>2, <3>1, <3>2, <4>1, CoherentKept
    <3>3. CASE httpso' = {} /\ httpsoLog' = Append(httpsoLog, httpso')
      <4>1. Kept /\ Known(httpso)'
        BY <3>1, <3>3 DEF Kept, Known
      <4> QED
        BY <2>2, <3>1, <3>3, <4>1, CoherentKept
    <3>4. CASE Rewritten
      <4>1. PICK x \in HTTPScaledObjects, h \in httpso : Alike(x, h) /\ PutHTTPSO({x})
        BY <3>4 DEF Rewritten
      <4>2. httpso' = {x} /\ httpsoLog' = Append(httpsoLog, httpso')
        BY <4>1 DEF PutHTTPSO
      <4>3. Kept /\ Known(httpso)'
        BY <3>1, <4>1, <4>2 DEF Kept, Known, Older, Alike, Coherent
      <4> QED
        BY <2>2, <3>1, <4>2, <4>3, CoherentKept
    <3> QED
      BY SMTT(30), <1>2, <3>2, <3>3, <3>4, OperatorEffects DEF PutHTTPSO, PutSO
  <2> QED
    BY <1>2, <2>1, <2>2, OperatorEffects
<1>3. CASE SeeHTTPSO /\ UNCHANGED toggled
  <2>1. UNCHANGED <<httpso, copy, uid, toggled>>
    BY SMTT(30), <1>3 DEF SeeHTTPSO
  <2>2. httpsoLog \in Seq(SUBSET HTTPScaledObjects) /\ httpsoLog # <<>>
    BY <1>3 DEF SeeHTTPSO, TypeOK
  <2>3. /\ 1 \in 1..Len(httpsoLog) /\ httpsoCache' = httpsoLog[1]
        /\ \A i \in 1..Len(httpsoLog') : i + 1 \in 1..Len(httpsoLog) /\ httpsoLog'[i] = httpsoLog[i + 1]
    BY <1>3, <2>2, TailParts DEF SeeHTTPSO
  <2>4. Known(httpso)' /\ Known(copy)'
    BY <2>1 DEF Coherent, Known, Older
  <2>5. Known(httpsoLog[1]) /\ Known(httpsoCache)'
    BY SMTT(30), <2>1, <2>3 DEF Coherent, Known, Older
  <2>6. ASSUME NEW i \in 1..Len(httpsoLog') PROVE Known(httpsoLog[i])'
    <3>1. Known(httpsoLog[i + 1])
      BY <2>3 DEF Coherent
    <3> QED
      BY <2>1, <2>3, <3>1 DEF Known, Older
  <2> QED
    BY <2>4, <2>5, <2>6 DEF Coherent
<1>4. CASE (SeeSO \/ CollectGarbage) /\ UNCHANGED toggled
  <2>1. UNCHANGED <<httpso, httpsoCache, httpsoLog, copy, uid, toggled>>
    BY <1>4 DEF SeeSO, CollectGarbage, WriteSO, PutSO
  <2> QED
    BY <2>1 DEF Coherent, Known, Older
<1>5. CASE Restart /\ UNCHANGED toggled
  <2>1. UNCHANGED <<httpso, uid, toggled>> /\ httpsoCache' = httpso /\ httpsoLog' = <<>> /\ copy' = {}
    BY <1>5 DEF Restart
  <2> QED
    BY <2>1 DEF Coherent, Known, Older
<1>6. CASE UNCHANGED vars
  BY <1>6 DEF vars, Coherent, Known, Older
<1> QED
  BY <1>1, <1>2, <1>3, <1>4, <1>5, <1>6 DEF Next, Untoggled
-----------------------------------------------------------------------------
(* Being of the same version is symmetric and transitive.                  *)
LEMMA SameTransitive ==
    ASSUME NEW u, NEW v, NEW w
    PROVE  (Same(u, v) => Same(v, u)) /\ (Same(u, v) /\ Same(v, w) => Same(u, w))
BY DEF Same

(* Reconcile going on with its version...                                  *)
LEMMA SameCopy ==
    ASSUME TypeOK, TypeOK', CopyAlike, copy # {}, copy' # {}, NEW v
    PROVE  Same(copy, v) <=> Same(copy', v)
BY DEF Same, CopyAlike, Alike, TypeOK, Optional

(* ...and the operator writing finalizer or conditions leave versions as   *)
(* they are.                                                               *)
LEMMA SameRewritten ==
    ASSUME TypeOK, Rewritten
    PROVE  \A v : Same(v, httpso) <=> Same(v, httpso')
BY DEF Same, Rewritten, PutHTTPSO, Alike, TypeOK, Optional

(* Reconcile has checked what it works on: validateMetrics and the         *)
(* annotation.                                                             *)
StepChecked ==
    /\ step \in {"create", "fetch", "patch"} => \A c \in copy : c.replicas # Invalid
    /\ step = "delete" => \A c \in copy : c.skip

(* After Reconcile nothing is said of its copy.                            *)
LEMMA ReturnCurrent == ASSUME NEW again, Return(again) PROVE CopyCurrent'
BY DEF Return, CopyCurrent

(* Going on with the same version keeps the copy current.                  *)
LEMMA AlikeCurrent ==
    ASSUME TypeOK, TypeOK', CopyCurrent, CopyAlike, step # "idle", step' # "idle",
           UNCHANGED <<queued, copyFresh, httpsoCache>>, UNCHANGED httpso \/ Rewritten, StepChecked'
    PROVE  CopyCurrent'
<1>1. copy # {} /\ copy' # {} /\ copyFresh \in BOOLEAN
  BY DEF TypeOK
<1>2. queued' \/ Same(copy', httpsoCache')
  BY <1>1, SameCopy DEF CopyCurrent
<1>3. ASSUME copyFresh' PROVE \E c \in copy', h \in httpso' : Alike(c, h)
  <2>1. PICK c \in copy, h \in httpso : Alike(c, h)
    BY <1>3 DEF CopyCurrent
  <2>2. PICK x \in copy' : Alike(x, c)
    BY <1>1 DEF CopyAlike, TypeOK, Optional
  <2>3. CASE UNCHANGED httpso
    BY <2>1, <2>2, <2>3, AlikeTransitive
  <2>4. CASE Rewritten
    <3>1. PICK y \in httpso' : Alike(y, h)
      BY <2>4 DEF Rewritten, PutHTTPSO, TypeOK, Optional
    <3> QED
      BY <2>1, <2>2, <3>1, AlikeTransitive
  <2> QED
    BY <2>3, <2>4
<1> QED
  BY <1>2, <1>3 DEF CopyCurrent, StepChecked

(* Every call of Reconcile keeps the copy current: it is read from the     *)
(* cache, and fresh if the cache was up to date.                           *)
LEMMA OperatorCurrent ==
    ASSUME TypeOK, TypeOK', LogsEnd, CopyCurrent, OperatorStep
    PROVE  CopyCurrent'
<1>0. /\ Reconcile \/ CopyAlike
      /\ UNCHANGED <<api, caches>> \/ PutHTTPSO({}) \/ Rewritten \/ PutSO(scaledObject')
  BY OperatorEffects
<1>1. CASE Reconcile
  <2>1. /\ copy' = httpsoCache /\ UNCHANGED <<httpso, httpsoCache>>
        /\ step' \in {"idle", "finalize", "ensure"} /\ (step' # "idle" => httpsoCache # {})
        /\ copyFresh' = (httpsoLog = <<>> /\ httpsoCache # {})
    BY <1>1 DEF Reconcile
  <2>2. Same(copy', httpsoCache')
    BY <2>1 DEF Same, TypeOK, Optional
  <2>3. copyFresh' => \E c \in copy', h \in httpso' : Alike(c, h)
    BY Zenon, <2>1, AlikeTransitive DEF LogsEnd
  <2> QED
    BY <2>1, <2>2, <2>3 DEF CopyCurrent
<1>2. CASE Finalize
  BY Zenon, <1>2, ReturnCurrent DEF Finalize
<1>3. CASE Ensure
  <2>1. PICK h \in HTTPScaledObjects :
          Resources(h) \/ Return(TRUE)
    BY Zenon, <1>3, EditKeeps DEF Ensure, TypeOK, Optional
  <2>2. CASE Resources(h) /\ h.replicas # Invalid
    <3>1. /\ step' = (IF h.skip THEN "delete" ELSE "create") /\ copy' = {Cond(h, "PendingCreation")}
          /\ UNCHANGED <<queued, copyFresh>>
      BY <2>2 DEF Resources
    <3>2. StepChecked'
      BY <2>2, <3>1, CondAlike DEF StepChecked, Alike, Reasons
    <3>3. UNCHANGED httpsoCache /\ (UNCHANGED httpso \/ Rewritten)
      BY <1>0, <1>3, <3>1 DEF Ensure, Return, Rewritten, PutHTTPSO, PutSO
    <3>4. CopyAlike /\ step # "idle" /\ step' # "idle"
      BY <1>0, <1>3, <3>1 DEF Ensure, Reconcile
    <3> QED
      BY <3>1, <3>2, <3>3, <3>4, AlikeCurrent
  <2> QED
    BY Zenon, <2>1, <2>2, ReturnCurrent DEF Resources
<1>4. CASE DeleteSO \/ CreateSO \/ PatchSO
  <2>1. /\ UNCHANGED <<httpso, httpsoCache, queued, copyFresh>> /\ step # "idle"
        /\ step' = "save" \/ (step' = "fetch" /\ step = "create" /\ UNCHANGED copy)
    BY <1>4 DEF DeleteSO, CreateSO, PatchSO, PutSO, ToSave, Created
  <2>2. StepChecked'
    BY <2>1 DEF StepChecked, CopyCurrent
  <2>3. CopyAlike
    BY <1>0, <2>1 DEF Reconcile
  <2> QED
    BY SMTT(30), <2>1, <2>2, <2>3, AlikeCurrent
<1>5. CASE FetchSO
  <2>1. /\ UNCHANGED <<httpso, httpsoCache, queued, copyFresh>> /\ step # "idle"
        /\ step' = "save" \/ (step' = "patch" /\ step = "fetch" /\ UNCHANGED copy)
    BY <1>5 DEF FetchSO, ToSave
  <2>2. StepChecked'
    BY <2>1 DEF StepChecked, CopyCurrent
  <2>3. CopyAlike
    BY <1>0, <2>1 DEF Reconcile
  <2> QED
    BY <2>1, <2>2, <2>3, AlikeCurrent
<1>6. CASE DeferredSave /\ ~failed
  <2>1. /\ UNCHANGED <<httpsoCache, queued, copyFresh>> /\ step = "save" /\ step' = "ready"
        /\ httpso' # {} \/ UNCHANGED httpso
    BY <1>6 DEF DeferredSave, SaveStatus, PutHTTPSO
  <2>2. StepChecked' /\ CopyAlike
    BY <1>0, <2>1 DEF StepChecked, Reconcile
  <2>3. UNCHANGED httpso \/ Rewritten
    BY <1>0, <2>1 DEF PutHTTPSO, PutSO
  <2> QED
    BY <2>1, <2>2, <2>3, AlikeCurrent
<1>7. CASE (DeferredSave /\ failed) \/ Ready
  BY Zenon, <1>7, ReturnCurrent DEF DeferredSave, Ready
<1> QED
  BY <1>1, <1>2, <1>3, <1>4, <1>5, <1>6, <1>7 DEF OperatorStep

(* Every step keeps the copy of Reconcile current.  A new version in the   *)
(* cache passes a predicate (GenerationChangedPredicate), so the name is   *)
(* queued again.                                                           *)
LEMMA CurrentStep ==
    ASSUME TypeOK, TypeOK', LogsEnd, Deletions, CopyCurrent, [Next]_vars
    PROVE  CopyCurrent'
<1>1. ASSUME NEW new, WriteHTTPSO(new) PROVE CopyCurrent'
  BY <1>1 DEF WriteHTTPSO, PutHTTPSO, CopyCurrent
<1>2. ASSUME NEW new, WriteSO(new) PROVE CopyCurrent'
  BY <1>2 DEF WriteSO, PutSO, CopyCurrent
<1>3. CASE UserStep
  BY Zenon, <1>1, <1>2, <1>3 DEF UserStep, CreateHTTPSO, EditSpec, EditAnnotation, DeleteHTTPSO, Meddle,
       CreateOwnSO
<1>4. CASE OperatorStep
  BY <1>4, OperatorCurrent
<1>5. CASE SeeHTTPSO
  <2>1. /\ UNCHANGED <<httpso, step, copy, copyFresh>>
        /\ queued' = (queued \/ HTTPSOPasses(httpsoCache, httpsoCache'))
    BY <1>5 DEF SeeHTTPSO
  <2>2. HTTPSOPasses(httpsoCache, httpsoCache') \/ Same(httpsoCache, httpsoCache')
    BY <1>5, SeenPasses
  <2>3. step' # "idle" => queued' \/ Same(copy', httpsoCache')
    BY Zenon, <2>1, <2>2, SameTransitive DEF CopyCurrent
  <2> QED
    BY <2>1, <2>3 DEF CopyCurrent
<1>6. CASE SeeSO
  BY Zenon, <1>6 DEF SeeSO, CopyCurrent
<1>7. CASE CollectGarbage
  BY <1>2, <1>7 DEF CollectGarbage
<1>8. CASE Restart
  BY <1>8 DEF Restart, CopyCurrent
<1>9. CASE UNCHANGED vars
  BY <1>9 DEF vars, CopyCurrent
<1> QED
  BY <1>3, <1>4, <1>5, <1>6, <1>7, <1>8, <1>9 DEF Next, Untoggled
-----------------------------------------------------------------------------
(* A write of the ScaledObject leaves those that will pass in the log, and *)
(* one that passes (ScaledObjectSpecChangedPredicate) is added to them.    *)
LEMMA PassingPut ==
    ASSUME TypeOK, TypeOK', LogsEnd, PutSO(scaledObject'),
           SOPassing \/ (scaledObject' # scaledObject /\ SOPasses(scaledObject, scaledObject'))
    PROVE  SOPassing'
<1>0. soLog \in Seq(SUBSET ScaledObjects) /\ scaledObject' \in SUBSET ScaledObjects /\ UNCHANGED soCache
  BY DEF TypeOK, Optional, PutSO
<1>1. CASE scaledObject' = scaledObject
  BY <1>1 DEF PutSO, SOPassing, SOPasses
<1>2. CASE scaledObject' # scaledObject
  <2>1. soLog' = Append(soLog, scaledObject')
    BY <1>2 DEF PutSO
  <2>2. /\ Len(soLog') = Len(soLog) + 1 /\ soLog'[Len(soLog) + 1] = scaledObject'
        /\ \A i \in 1..Len(soLog) : soLog'[i] = soLog[i]
        /\ Len(soLog) \in Nat
    BY <1>0, <2>1, AppendEnds
  <2>3. CASE SOPassing
    <3>1. PICK i \in 1..Len(soLog) : SOPasses(IF i = 1 THEN soCache ELSE soLog[i-1], soLog[i])
      BY <2>3 DEF SOPassing
    <3>2. i \in 1..Len(soLog') /\ soLog'[i] = soLog[i] /\ (i # 1 => soLog'[i-1] = soLog[i-1])
      BY <2>2
    <3>3. SOPasses(IF i = 1 THEN soCache' ELSE soLog'[i-1], soLog'[i])
      BY <1>0, <3>1, <3>2
    <3> QED
      BY <3>2, <3>3 DEF SOPassing, SOPasses, SOUpdate
  <2>4. CASE SOPasses(scaledObject, scaledObject')
    <3> DEFINE i == Len(soLog) + 1
    <3>1. i \in 1..Len(soLog')
      BY <2>2
    <3>2. (IF i = 1 THEN soCache' ELSE soLog'[i-1]) = scaledObject
      <4>1. CASE soLog = <<>>
        <5>1. Len(soLog) = 0
          BY <4>1
        <5> QED
          BY <1>0, <4>1, <5>1 DEF LogsEnd
      <4>2. CASE soLog # <<>>
        <5>1. 1 \in 1..Len(soLog)
          BY <1>0, <4>2, TailParts
        <5>2. Len(soLog) \in 1..Len(soLog) /\ i # 1 /\ i - 1 = Len(soLog)
          BY <2>2, <5>1
        <5> QED
          BY <2>2, <4>2, <5>2 DEF LogsEnd
      <4> QED
        BY <4>1, <4>2
    <3>3. SOPasses(IF i = 1 THEN soCache' ELSE soLog'[i-1], soLog'[i])
      BY <2>2, <2>4, <3>2
    <3> HIDE DEF i
    <3> QED
      BY <3>1, <3>3 DEF SOPassing, SOPasses, SOUpdate
  <2> QED
    BY <1>2, <2>3, <2>4
<1> QED
  BY <1>1, <1>2

(* When a write that passes reaches the cache, the name is queued.         *)
LEMMA PassingSeen ==
    ASSUME TypeOK, SeeSO, SOPassing
    PROVE  SOPassing' \/ queued'
<1>1. /\ soLog \in Seq(SUBSET ScaledObjects) /\ soLog # <<>>
      /\ soCache' = Head(soLog) /\ soLog' = Tail(soLog)
      /\ queued' = (queued \/ SOPasses(soCache, soCache'))
  BY DEF SeeSO, TypeOK
<1>2. PICK i \in 1..Len(soLog) : SOPasses(IF i = 1 THEN soCache ELSE soLog[i-1], soLog[i])
  BY DEF SOPassing
<1>3. Head(soLog) = soLog[1]
  BY <1>1, TailParts
<1>4. CASE i = 1
  BY Zenon, <1>1, <1>2, <1>3, <1>4
<1>5. CASE i # 1
  <2> DEFINE j == i - 1
  <2>1. /\ j \in 1..Len(soLog') /\ soLog'[j] = soLog[i]
        /\ (IF j = 1 THEN soCache' ELSE soLog'[j-1]) = soLog[i-1]
    <3>1. Len(soLog) \in Nat /\ Len(soLog') = Len(soLog) - 1
      BY <1>1, TailParts
    <3>2. j \in 1..Len(soLog') /\ j + 1 = i
      BY <1>5, <3>1
    <3>3. soLog'[j] = soLog[i]
      BY <1>1, <3>2, TailParts
    <3>4. CASE j = 1
      BY <1>1, <1>3, <3>4
    <3>5. CASE j # 1
      <4>1. j - 1 \in 1..Len(soLog') /\ (j - 1) + 1 = i - 1
        BY <3>1, <3>2, <3>5
      <4>2. soLog'[j - 1] = soLog[(j - 1) + 1]
        BY <1>1, <4>1, TailParts
      <4> QED
        BY <3>2, <3>3, <3>5, <4>1, <4>2
    <3> QED
      BY <3>2, <3>3, <3>4, <3>5
  <2> HIDE DEF j
  <2>2. SOPasses(IF j = 1 THEN soCache' ELSE soLog'[j-1], soLog'[j])
    BY <1>2, <1>5, <2>1
  <2> QED
    BY SMTT(30), <2>1, <2>2 DEF SOPassing, SOPasses, SOUpdate
<1> QED
  BY <1>4, <1>5

(* Users set the fields they write: ScaledObjectSpecChangedPredicate and   *)
(* the merge patch both skip a field that is not set.                      *)
NoUnset == Unset \notin Replicas \cup Meddling

(* Whatever users do, what is asked for is there or marked: a new version  *)
(* is not in the cache yet, and a change of the ScaledObject passes the    *)
(* predicate.                                                              *)
LEMMA UserPending ==
    ASSUME NoUnset, TypeOK, TypeOK', LogsEnd, Coherent, AppliedOrPending, UserStep
    PROVE  AppliedOrPending'
<1> SUFFICES ASSUME NEW g \in httpso', Asks(g)' PROVE AppliedOrMarked(g)'
  BY DEF AppliedOrPending
<1>0. \A h \in httpso : h \in HTTPScaledObjects /\ \A k \in httpso : k = h
  BY DEF TypeOK, Optional
<1>1. CASE CreateHTTPSO
  <2>1. g.uid = uid + 1 /\ UNCHANGED httpsoCache
    BY SMTT(30), <1>1 DEF CreateHTTPSO, WriteHTTPSO, PutHTTPSO
  <2>2. \A c \in httpsoCache : c.uid # g.uid
    BY SMTT(30), <2>1, FieldTypes, BoundsAreNat DEF Coherent, Known, TypeOK, Optional
  <2>3. ~Same(httpsoCache, httpso)'
    BY <2>1, <2>2 DEF Same
  <2> QED
    BY <2>3 DEF AppliedOrMarked
<1>2. CASE EditSpec
  <2>1. PICK h \in httpso, n \in Replicas : g = [h EXCEPT !.replicas = n, !.generation = @ + 1]
    BY Zenon, <1>2 DEF EditSpec, WriteHTTPSO, PutHTTPSO
  <2>2. g.uid = h.uid /\ g.generation = h.generation + 1 /\ UNCHANGED httpsoCache
    BY <1>0, <1>2, <2>1 DEF HTTPScaledObjects, EditSpec, WriteHTTPSO, PutHTTPSO
  <2>3. \A c \in httpsoCache : c.uid = g.uid => c.generation # g.generation
    <3>1. \A c \in httpsoCache : c.uid = h.uid => c.generation <= h.generation
      BY SMTT(30) DEF Coherent, Known, Older
    <3>2. h.generation \in Nat /\ \A c \in httpsoCache : c.generation \in Nat
      BY <1>0, FieldTypes DEF TypeOK, Optional
    <3> QED
      BY <2>2, <3>1, <3>2
  <2>4. ~Same(httpsoCache, httpso)'
    BY <2>2, <2>3 DEF Same
  <2> QED
    BY <2>4 DEF AppliedOrMarked
<1>3. CASE EditAnnotation /\ toggled' = TRUE
  BY <1>3 DEF Asks
<1>4. CASE DeleteHTTPSO
  <2>1. g.deleting
    <3>1. PICK h \in httpso : g = [h EXCEPT !.deleting = TRUE, !.generation = @ + 1]
      BY <1>4 DEF DeleteHTTPSO, WriteHTTPSO, PutHTTPSO
    <3> QED
      BY <1>0, <3>1 DEF HTTPScaledObjects
  <2> QED
    BY <2>1 DEF Asks, InForce
<1>5. CASE Meddle /\ UNCHANGED toggled
  <2>1. PICK o \in scaledObject, n \in Meddling : n # o.replicas /\ WriteSO({[o EXCEPT !.replicas = n]})
    BY <1>5 DEF Meddle
  <2>2. /\ UNCHANGED <<httpso, httpsoCache, queued, step, copy, failed>> /\ PutSO(scaledObject')
        /\ scaledObject' = {[o EXCEPT !.replicas = n]}
    BY <2>1 DEF WriteSO, PutSO
  <2>3. g \in httpso /\ AppliedOrMarked(g)
    BY <1>5, <2>2 DEF AppliedOrPending, Asks
  <2>4. CASE scaledObject = Want(g)
    <3>1. g.uid # 0 /\ n # Unset
      BY <1>0, <2>3, FieldTypes DEF NoUnset
    <3>2. o = [owner |-> g.uid, replicas |-> g.replicas]
      BY <2>4 DEF Want
    <3>3. scaledObject' = {[owner |-> g.uid, replicas |-> n]}
      BY <2>2, <3>2
    <3>4. scaledObject' # scaledObject /\ SOPasses(scaledObject, scaledObject')
      BY <2>1, <2>4, <3>1, <3>2, <3>3 DEF SOPasses, SOUpdate, Want
    <3> QED
      BY <2>2, <3>4, PassingPut DEF AppliedOrMarked
  <2>5. CASE SOPassing
    BY <2>2, <2>5, PassingPut DEF AppliedOrMarked
  <2> QED
    BY <2>2, <2>3, <2>4, <2>5 DEF AppliedOrMarked, Applying, Same
<1>6. CASE CreateOwnSO
  BY <1>0, <1>6 DEF CreateOwnSO, WriteSO, PutSO, Asks
<1> QED
  BY Zenon, <1>1, <1>2, <1>3, <1>4, <1>5, <1>6 DEF UserStep

(* A mark that the informers take away leaves the name queued, no          *)
(* ScaledObject that is asked for is garbage, and a restart queues         *)
(* everything.                                                             *)
LEMMA WorldPending ==
    ASSUME TypeOK, TypeOK', LogsEnd, Deletions, AppliedOrPending, UNCHANGED toggled,
           SeeHTTPSO \/ SeeSO \/ CollectGarbage \/ Restart
    PROVE  AppliedOrPending'
<1> SUFFICES ASSUME NEW g \in httpso', Asks(g)' PROVE AppliedOrMarked(g)'
  BY DEF AppliedOrPending
<1>0. UNCHANGED httpso /\ g \in httpso /\ AppliedOrMarked(g)
  BY DEF SeeHTTPSO, SeeSO, CollectGarbage, Restart, WriteSO, PutSO, AppliedOrPending, Asks
<1>1. CASE SeeHTTPSO
  <2>1. /\ UNCHANGED <<httpso, scaledObject, step, copy, failed, soCache, soLog>>
        /\ queued' = (queued \/ HTTPSOPasses(httpsoCache, httpsoCache'))
    BY <1>1 DEF SeeHTTPSO
  <2>2. HTTPSOPasses(httpsoCache, httpsoCache') \/ Same(httpsoCache, httpsoCache')
    BY <1>1, SeenPasses
  <2>3. CASE Same(httpsoCache, httpsoCache') /\ ~Same(httpsoCache, httpso)
    <3>1. ~Same(httpsoCache', httpso')
      BY <2>1, <2>3, SameTransitive
    <3> QED
      BY <3>1 DEF AppliedOrMarked
  <2>4. CASE SOPassing
    BY SMTT(30), <2>1, <2>4 DEF AppliedOrMarked, SOPassing
  <2> QED
    BY Zenon, <1>0, <2>1, <2>2, <2>3, <2>4 DEF AppliedOrMarked, Applying, Same
<1>2. CASE SeeSO
  <2>1. /\ UNCHANGED <<httpso, scaledObject, step, copy, failed, httpsoCache>>
        /\ queued => queued'
    BY Zenon, <1>2 DEF SeeSO
  <2>2. CASE SOPassing
    BY SMTT(30), <1>2, <2>2, PassingSeen DEF AppliedOrMarked
  <2> QED
    BY <1>0, <2>1, <2>2 DEF AppliedOrMarked, Applying, Same
<1>3. CASE CollectGarbage
  <2>1. UNCHANGED <<httpso, httpsoCache, queued, step, copy, failed>> /\ PutSO(scaledObject')
    BY <1>3 DEF CollectGarbage, WriteSO, PutSO
  <2>2. scaledObject # Want(g)
    BY <1>0, <1>3 DEF CollectGarbage, Owned, Want
  <2>3. CASE SOPassing
    BY <2>1, <2>3, PassingPut DEF AppliedOrMarked
  <2> QED
    BY <1>0, <2>1, <2>2, <2>3 DEF AppliedOrMarked, Applying, Same
<1>4. CASE Restart
  BY Zenon, <1>0, <1>4 DEF Restart, AppliedOrMarked
<1> QED
  BY <1>1, <1>2, <1>3, <1>4

(* Versions that are alike ask for the same ScaledObject.                  *)
LEMMA AlikeAsks ==
    ASSUME NEW g, NEW h, Alike(g, h)
    PROVE  (Asks(g) <=> Asks(h)) /\ Want(g) = Want(h)
BY SMTT(30) DEF Alike, Asks, InForce, Want

(* A cached state of the version there is asks for the same, unless the    *)
(* annotation was changed after the spec.                                  *)
LEMMA CopyAsks ==
    ASSUME TypeOK, Coherent, NEW h \in httpso, Asks(h), NEW v, Known(v), Same(v, httpso)
    PROVE  v # {} /\ \A c \in v : Alike(c, h)
<1>1. v # {} /\ \A c \in v : c.uid = h.uid /\ c.generation = h.generation /\ Older(c, h)
  BY DEF Same, Known
<1> QED
  BY SMTT(30), <1>1 DEF Older, Alike, Asks

(* Every call of Reconcile keeps what is asked for there or marked: a call *)
(* that fails has Reconcile return an error, a stale copy is never the     *)
(* last one, and removing the ScaledObject passes the predicate.           *)
LEMMA OperatorPending ==
    ASSUME NoUnset, TypeOK, TypeOK', LogsEnd, Coherent, CopyCurrent, AppliedOrPending, OperatorStep
    PROVE  AppliedOrPending'
<1> SUFFICES ASSUME NEW g \in httpso', Asks(g)' PROVE AppliedOrMarked(g)'
  BY DEF AppliedOrPending
<1>0. /\ UNCHANGED toggled /\ (Reconcile \/ CopyAlike)
      /\ UNCHANGED <<api, caches>> \/ Rewritten \/ PutSO(scaledObject')
  BY OperatorEffects DEF PutHTTPSO
<1>1. PICK h \in httpso : Alike(g, h)
  BY <1>0, AlikeTransitive DEF Rewritten, PutHTTPSO, PutSO
<1>2. Asks(h) /\ AppliedOrMarked(h) /\ Want(g) = Want(h)
  <2>1. Asks(g)
    BY <1>0 DEF Asks, InForce
  <2> QED
    BY <1>1, <2>1, AlikeAsks DEF AppliedOrPending
<1>3. UNCHANGED <<httpsoCache, soCache>> /\ \A v : Same(v, httpso) <=> Same(v, httpso')
  BY <1>0, SameRewritten DEF Rewritten, PutHTTPSO, PutSO
<1>4. SOPassing => SOPassing'
  <2>1. CASE UNCHANGED <<soCache, soLog>>
    BY <2>1 DEF SOPassing
  <2>2. CASE PutSO(scaledObject')
    BY <2>2, PassingPut
  <2> QED
    BY <1>0, <2>1, <2>2 DEF Rewritten, PutHTTPSO
<1>5. ~Same(httpsoCache, httpso) \/ SOPassing => AppliedOrMarked(g)'
  BY SMTT(30), <1>3, <1>4 DEF AppliedOrMarked
<1>6. ASSUME Same(copy, httpso) PROVE copy # {} /\ \A c \in copy : Alike(c, h)
  BY <1>2, <1>6, CopyAsks DEF Coherent
<1>7. CASE Reconcile
  <2>1. CASE Same(httpsoCache, httpso)
    <3>1. httpsoCache # {} /\ \A c \in httpsoCache : Alike(c, h)
      BY SMTT(30), <1>2, <2>1, CopyAsks DEF Coherent
    <3>2. step' = "ensure" /\ copy' = httpsoCache
      BY <1>2, <1>7, <3>1 DEF Reconcile, Alike, Asks, InForce
    <3>3. Applying(httpso)'
      BY <1>3, <2>1, <3>2 DEF Applying
    <3> QED
      BY <3>3 DEF AppliedOrMarked
  <2> QED
    BY <1>5, <2>1
<1>8. CASE Finalize
  <2>1. step = "finalize" /\ UNCHANGED scaledObject /\ (queued => queued')
    BY Zenon, <1>8 DEF Finalize, Return, PutHTTPSO
  <2> QED
    BY <1>2, <1>5, <2>1 DEF AppliedOrMarked, Applying
<1>9. CASE Ensure
  <2>1. step = "ensure" /\ UNCHANGED scaledObject /\ (queued => queued')
    BY Zenon, <1>9 DEF Ensure, Resources, Return, PutHTTPSO
  <2>2. CASE Same(copy, httpso)
    <3>1. PICK c \in HTTPScaledObjects : Alike(c, h) /\ (Resources(c) \/ Return(TRUE))
      <4>1. PICK d \in copy : Resources(d) \/ Resources([d EXCEPT !.finalizer = TRUE]) \/ Return(TRUE)
        BY Zenon, <1>9 DEF Ensure
      <4>2. d \in HTTPScaledObjects /\ [d EXCEPT !.finalizer = TRUE] \in HTTPScaledObjects
        BY Zenon, EditKeeps DEF TypeOK, Optional
      <4>3. Alike(d, h) /\ Alike([d EXCEPT !.finalizer = TRUE], h)
        BY <1>6, <2>2, <4>2, FinalizerAlike, AlikeTransitive
      <4> QED
        BY Zenon, <4>1, <4>2, <4>3
    <3>2. CASE Resources(c)
      <4>1. c.replicas # Invalid /\ ~c.skip
        BY <1>2, <3>1 DEF Alike, Asks, InForce
      <4>2. step' = "create" /\ copy' = {Cond(c, "PendingCreation")}
        BY <3>2, <4>1 DEF Resources
      <4>3. Alike(Cond(c, "PendingCreation"), h)
        BY SMTT(30), <3>1, CondAlike, AlikeTransitive DEF Reasons
      <4>4. Same(copy', httpso)
        BY <4>2, <4>3 DEF Same, Alike, TypeOK, Optional
      <4> QED
        BY <1>3, <4>2, <4>4 DEF AppliedOrMarked, Applying
    <3>3. CASE Return(TRUE)
      BY Zenon, <3>3 DEF Return, AppliedOrMarked
    <3> QED
      BY Zenon, <3>1, <3>2, <3>3
  <2> QED
    BY <1>2, <1>5, <2>1, <2>2 DEF AppliedOrMarked, Applying
<1>10. CASE DeleteSO
  <2>1. /\ step = "delete" /\ UNCHANGED queued
        /\ UNCHANGED scaledObject \/ (PutSO(scaledObject') /\ scaledObject' = {})
    BY Zenon, <1>10 DEF DeleteSO, ToSave, PutSO
  <2>2. CASE scaledObject = Want(h) /\ PutSO(scaledObject') /\ scaledObject' = {}
    <3>1. h.uid # 0
      BY FieldTypes DEF TypeOK, Optional
    <3>2. \E o \in scaledObject : o.owner # 0
      BY <2>2, <3>1 DEF Want
    <3>3. scaledObject' # scaledObject /\ SOPasses(scaledObject, scaledObject')
      BY <2>2, <3>2 DEF SOPasses
    <3> QED
      BY SMTT(30), <2>2, <3>3, PassingPut DEF AppliedOrMarked
  <2> QED
    BY <1>2, <1>5, <2>1, <2>2 DEF AppliedOrMarked, Applying
<1>11. CASE CreateSO
  <2>1. PICK c \in copy :
         \/ /\ scaledObject = {} /\ step' = "save"
            /\ PutSO({[owner |-> c.uid, replicas |-> c.replicas]}) /\ UNCHANGED queued
         \/ step' = "fetch" /\ UNCHANGED <<api, queued, copy>>
         \/ step' = "save" /\ failed'
    BY Zenon, <1>11 DEF CreateSO, Created, ToSave
  <2>2. CASE step' = "save" /\ failed'
    BY <2>2 DEF AppliedOrMarked
  <2>3. CASE step' = "fetch" /\ UNCHANGED <<api, queued, copy>>
    <3>1. Applying(httpso) => Applying(httpso)'
      BY <1>3, <2>3 DEF Applying
    <3> QED
      BY <1>2, <1>5, <1>11, <2>3, <3>1 DEF AppliedOrMarked, CreateSO
  <2>4. CASE /\ scaledObject = {} /\ PutSO({[owner |-> c.uid, replicas |-> c.replicas]})
             /\ UNCHANGED queued
    <3>1. Same(copy, httpso) => scaledObject' = Want(h)
      BY <1>6, <2>4 DEF PutSO, Alike, Want
    <3>2. scaledObject # Want(h) /\ step = "create"
      BY <1>11, <2>4 DEF Want, CreateSO
    <3> QED
      BY SMTT(30), <1>2, <1>5, <2>4, <3>1, <3>2 DEF AppliedOrMarked, Applying
  <2> QED
    BY <2>1, <2>2, <2>3, <2>4
<1>12. CASE FetchSO
  <2>1. /\ step = "fetch" /\ UNCHANGED <<scaledObject, queued>>
        /\ (step' = "save" /\ failed') \/ (step' = "patch" /\ UNCHANGED copy)
    BY <1>12 DEF FetchSO, ToSave
  <2>2. CASE step' = "save" /\ failed'
    BY <2>2 DEF AppliedOrMarked
  <2>3. CASE step' = "patch" /\ UNCHANGED copy
    <3>1. Applying(httpso) => Applying(httpso)'
      BY <1>3, <2>3 DEF Applying
    <3> QED
      BY <1>2, <1>5, <2>1, <3>1 DEF AppliedOrMarked
  <2> QED
    BY <2>1, <2>2, <2>3
<1>13. CASE PatchSO
  <2>1. PICK c \in copy :
         \/ \E o \in scaledObject : PutSO({Merge(o, c)}) /\ UNCHANGED queued
         \/ step' = "save" /\ failed'
    BY Zenon, <1>13 DEF PatchSO, Created, ToSave
  <2>2. CASE step' = "save" /\ failed'
    BY <2>2 DEF AppliedOrMarked
  <2>3. CASE \E o \in scaledObject : PutSO({Merge(o, c)}) /\ UNCHANGED queued
    <3>1. ASSUME Same(copy, httpso) PROVE scaledObject' = Want(h)
      <4>1. c.uid = h.uid /\ c.replicas = h.replicas
        BY SMTT(30), <1>6, <3>1 DEF Alike
      <4>2. h \in HTTPScaledObjects
        BY DEF TypeOK, Optional
      <4>3. h.replicas # Unset
        BY <4>2 DEF NoUnset, HTTPScaledObjects
      <4> QED
        BY <2>3, <4>1, <4>3 DEF PutSO, Merge, Want
    <3>2. ASSUME ~Same(copy, httpso) PROVE queued' \/ ~Same(httpsoCache, httpso)
      <4>1. queued \/ Same(copy, httpsoCache)
        BY <1>13 DEF PatchSO, CopyCurrent
      <4> QED
        BY <2>3, <3>2, <4>1, SameTransitive
    <3> QED
      BY <1>2, <1>5, <3>1, <3>2 DEF AppliedOrMarked
  <2> QED
    BY <2>1, <2>2, <2>3
<1>14. CASE DeferredSave \/ Ready
  <2>1. /\ step \in {"save", "ready"} /\ UNCHANGED scaledObject /\ (queued => queued')
        /\ step = "save" /\ failed => queued'
    BY Zenon, <1>14 DEF DeferredSave, Ready, SaveStatus, Return, PutHTTPSO
  <2> QED
    BY <1>2, <1>5, <2>1 DEF AppliedOrMarked, Applying
<1> QED
  BY <1>7, <1>8, <1>9, <1>10, <1>11, <1>12, <1>13, <1>14 DEF OperatorStep
-----------------------------------------------------------------------------
(* Reconcile never panics on a copy it does not have, and never makes a    *)
(* ScaledObject of an invalid HTTPScaledObject: TypeOK holds in every      *)
(* state, for all values of the constants, unset fields included.          *)
THEOREM TypeCorrect == Spec => []TypeOK
<1> DEFINE Typed == TypeOK /\ LogsEnd /\ Deletions /\ CopyCurrent
<1>1. Init => Typed
  BY InitHolds DEF IInv
<1>2. Typed /\ [Next]_vars => Typed'
  <2> SUFFICES ASSUME TypeOK, LogsEnd, Deletions, CopyCurrent, [Next]_vars PROVE Typed'
    OBVIOUS
  <2>1. TypeOK' /\ LogsEnd'
    BY NextTypes, LogsStep
  <2>2. Deletions'
    BY <2>1, DeletionsStep
  <2> QED
    BY <2>1, <2>2, CurrentStep
<1> QED
  BY <1>1, <1>2, PTL DEF Spec

(* Every step keeps the invariant.                                         *)
LEMMA InductiveStep == NoUnset /\ IInv /\ [Next]_vars => IInv'
<1> SUFFICES ASSUME NoUnset, IInv, [Next]_vars PROVE IInv'
  OBVIOUS
<1>0. TypeOK /\ LogsEnd /\ Deletions /\ Coherent /\ CopyCurrent /\ AppliedOrPending
  BY DEF IInv
<1>1. TypeOK' /\ LogsEnd'
  BY <1>0, NextTypes, LogsStep
<1>2. Deletions' /\ Coherent' /\ CopyCurrent'
  BY <1>0, <1>1, DeletionsStep, CoherentStep, CurrentStep
<1>3. AppliedOrPending'
  <2>1. CASE UNCHANGED vars
    BY <1>0, <2>1 DEF vars, AppliedOrPending, AppliedOrMarked, Asks, Applying, SOPassing
  <2> QED
    BY <1>0, <1>1, <2>1, UserPending, OperatorPending, WorldPending DEF Next, Untoggled
<1> QED
  BY <1>1, <1>2, <1>3 DEF IInv

(* IInv holds in every state, for every number of users' edits,            *)
(* recreations, faults and restarts: whenever the ScaledObject is not what *)
(* the HTTPScaledObject asks for, something is on its way that has it      *)
(* reconciled (Reconcile, SetupWithManager).                               *)
THEOREM AppliesOrReconciles == ASSUME NoUnset PROVE Spec => []IInv
<1>1. IInv /\ [Next]_vars => IInv'
  BY InductiveStep
<1> QED
  BY InitHolds, <1>1, PTL DEF Spec

(* AppliedWhenSettled holds in every state, for all values of the          *)
(* constants: once the operator has nothing to do, every HTTPScaledObject  *)
(* in force has the ScaledObject it asks for (createOrUpdateScaledObject). *)
THEOREM SettledIsApplied == ASSUME NoUnset PROVE Spec => []AppliedWhenSettled
<1>1. Spec => []IInv
  BY AppliesOrReconciles
<1> QED
  BY <1>1, SettledApplies, PTL
=============================================================================
