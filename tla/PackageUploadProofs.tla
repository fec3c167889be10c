------------------------ MODULE PackageUploadProofs ------------------------
(***************************************************************************)
(* Proofs about module PackageUpload for any number of packages, requests, *)
(* generations and faults.  The inductive invariant IInv relates what a    *)
(* request is at to the row of its package: a fresh request to complete    *)
(* still finds UPLOADING, a request to activate that nobody overlaps still *)
(* finds READY and its copy, and one about to undo its promotion does not  *)
(* find ACTIVE.                                                            *)
(*                                                                         *)
(* The last part is about module Backup: a script that has stopped the     *)
(* services holds, in what it has written so far, the state it found.      *)
(***************************************************************************)
EXTENDS Backup, TLAPS

RequestType == [step : Steps, package : Packages, fresh : BOOLEAN]

\* What request q may rely on in its next step.
Justified(q) ==
    LET p == requests[q].package
        step == requests[q].step
    IN  /\ step \in {"COMPLETE", "VERIFIED"} /\ requests[q].fresh => status[p] = "UPLOADING"
        /\ step = "CLEANUP" => status[p] = "ABORTED"
        /\ p \notin overlapped =>
            /\ step \in {"PROMOTE", "COPIED", "SWITCH"} => status[p] = "READY"
            /\ step = "SWITCH" => p \in private
            /\ step = "UNDO" => status[p] # "ACTIVE"

\* Activations that did not overlap are alone with their package.
Alone ==
    \A q, r \in Requests :
        /\ requests[q].step \in Activating
        /\ requests[r].step \in Activating
        /\ requests[q].package = requests[r].package
        /\ requests[q].package \notin overlapped
        => q = r

IInv == TypeOK /\ (\A q \in Requests : Justified(q)) /\ Alone /\ ActiveIsStored

-----------------------------------------------------------------------------
(* How the helpers change the requests *)

\* A request at rest is well typed.
LEMMA IdleType == Idle \in RequestType /\ Idle.step = "IDLE"
  BY PackagesAssumption DEF Idle, RequestType, Steps

\* What a request is after it begins,
LEMMA BeginShape ==
  ASSUME TypeOK, NEW r \in Requests, NEW p \in Packages, NEW step \in Steps, Begin(r, p, step)
  PROVE  /\ requests' \in [Requests -> RequestType]
         /\ requests'[r].step = step /\ requests'[r].package = p
         /\ \A q \in Requests \ {r} : requests'[q] = requests[q]
BY DEF Begin, TypeOK, RequestType

\* goes on to its next step,
LEMMA GotoShape ==
  ASSUME TypeOK, NEW r \in Requests, NEW step \in Steps, Goto(r, step)
  PROVE  /\ requests' \in [Requests -> RequestType]
         /\ requests'[r].step = step
         /\ requests'[r].package = requests[r].package
         /\ requests'[r].fresh = requests[r].fresh
         /\ \A q \in Requests \ {r} : requests'[q] = requests[q]
<1>1. requests[r] \in RequestType
  BY DEF TypeOK, RequestType
<1>2. [requests[r] EXCEPT !.step = step] \in RequestType
  BY <1>1 DEF RequestType
<1>3. requests' = [requests EXCEPT ![r] = [requests[r] EXCEPT !.step = step]]
  BY DEF Goto
<1>4. requests'[r] = [requests[r] EXCEPT !.step = step]
  BY <1>3 DEF TypeOK
<1> QED
  BY <1>1, <1>2, <1>3, <1>4 DEF TypeOK, RequestType

\* or ends.
LEMMA EndShape ==
  ASSUME TypeOK, NEW r \in Requests, End(r)
  PROVE  /\ requests' \in [Requests -> RequestType]
         /\ requests'[r].step = "IDLE"
         /\ \A q \in Requests \ {r} : requests'[q] = requests[q]
BY IdleType DEF End, TypeOK, RequestType

\* Marking what other requests have read as stale changes no step.
LEMMA StaleShape ==
  ASSUME TypeOK, NEW ps \in SUBSET Packages
  PROVE  /\ Stale(ps) \in [Requests -> RequestType]
         /\ \A q \in Requests :
               /\ Stale(ps)[q].step = requests[q].step
               /\ Stale(ps)[q].package = requests[q].package
               /\ Stale(ps)[q].fresh => requests[q].fresh /\ requests[q].package \notin ps
<1>1. \A q \in Requests : requests[q] \in RequestType
  BY DEF TypeOK, RequestType
<1>2. \A q \in Requests :
        LET s == [requests[q] EXCEPT !.fresh = FALSE]
        IN  /\ s \in RequestType /\ s.step = requests[q].step
            /\ s.package = requests[q].package /\ s.fresh = FALSE
  BY <1>1 DEF RequestType
<1> QED
  BY <1>1, <1>2 DEF Stale, Package

\* The same for an end that changes rows,
LEMMA EndUpdatingShape ==
  ASSUME TypeOK, NEW r \in Requests, NEW ps \in SUBSET Packages, EndUpdating(r, ps)
  PROVE  /\ requests' \in [Requests -> RequestType]
         /\ requests'[r].step = "IDLE"
         /\ \A q \in Requests \ {r} :
               /\ requests'[q].step = requests[q].step
               /\ requests'[q].package = requests[q].package
               /\ requests'[q].fresh => requests[q].fresh /\ requests[q].package \notin ps
BY StaleShape, IdleType DEF EndUpdating

\* and for a next step that changes rows.
LEMMA GotoUpdatingShape ==
  ASSUME TypeOK, NEW r \in Requests, NEW step \in Steps, NEW ps \in SUBSET Packages,
         GotoUpdating(r, step, ps)
  PROVE  /\ requests' \in [Requests -> RequestType]
         /\ requests'[r].step = step
         /\ requests'[r].package = requests[r].package
         /\ \A q \in Requests \ {r} :
               /\ requests'[q].step = requests[q].step
               /\ requests'[q].package = requests[q].package
               /\ requests'[q].fresh => requests[q].fresh /\ requests[q].package \notin ps
<1>1. Stale(ps) \in [Requests -> RequestType]
  BY StaleShape
<1>2. [Stale(ps)[r] EXCEPT !.step = step] \in RequestType
  BY <1>1 DEF RequestType
<1>3. requests' = [Stale(ps) EXCEPT ![r] = [Stale(ps)[r] EXCEPT !.step = step]]
  BY DEF GotoUpdating
<1>4. requests'[r] = [Stale(ps)[r] EXCEPT !.step = step]
  BY <1>1, <1>3
<1> QED
  BY <1>1, <1>2, <1>3, <1>4, StaleShape DEF RequestType

-----------------------------------------------------------------------------

\* The invariant holds initially.
LEMMA InitOK == Init => IInv
<1> SUFFICES ASSUME Init PROVE IInv
  OBVIOUS
<1>1. TypeOK
  BY IdleType, BoundsAssumption DEF Init, TypeOK, With, RequestType
<1>2. \A q \in Requests : requests[q].step = "IDLE"
  BY IdleType DEF Init
<1>3. (\A q \in Requests : Justified(q)) /\ Alone
  BY <1>2 DEF Justified, Alone, Activating
<1>4. ActiveIsStored
  BY DEF Init, ActiveIsStored, With
<1> QED
  BY <1>1, <1>3, <1>4 DEF IInv

LEMMA CreateUploadSessionOK ==
  ASSUME IInv, NEW p \in Packages, CreateUploadSession(p)
  PROVE  IInv'
<1> USE DEF IInv, CreateUploadSession, store
<1>1. TypeOK'
  BY BoundsAssumption DEF TypeOK, RequestType, With, Steps
<1>2. (\A q \in Requests : Justified(q))' /\ Alone' /\ ActiveIsStored'
  BY BoundsAssumption DEF Justified, Alone, Activating, ActiveIsStored, With, TypeOK, Steps
<1> QED
  BY <1>1, <1>2

LEMMA ReshareOK ==
  ASSUME IInv, Reshare
  PROVE  IInv'
<1> USE DEF IInv, Reshare, store
<1>1. TypeOK'
  BY BoundsAssumption DEF TypeOK, RequestType, With, Steps
<1>2. (\A q \in Requests : Justified(q))' /\ Alone' /\ ActiveIsStored'
  BY BoundsAssumption DEF Justified, Alone, Activating, ActiveIsStored, With, TypeOK, Steps
<1> QED
  BY <1>1, <1>2

LEMMA BeginStreamOK ==
  ASSUME IInv, NEW r \in Requests, NEW p \in Packages, BeginStream(r, p)
  PROVE  IInv'
<1> USE DEF IInv, BeginStream, rows, store
<1>1. TypeOK'
  BY BeginShape DEF TypeOK, RequestType, With, Steps
<1>2. (\A q \in Requests : Justified(q))' /\ Alone' /\ ActiveIsStored'
  BY BeginShape DEF Justified, Alone, Activating, ActiveIsStored, With, TypeOK, Steps
<1> QED
  BY <1>1, <1>2

LEMMA BeginCompleteOK ==
  ASSUME IInv, NEW r \in Requests, NEW p \in Packages, BeginComplete(r, p)
  PROVE  IInv'
<1> USE DEF IInv, BeginComplete, rows, store
<1>1. TypeOK'
  BY BeginShape DEF TypeOK, RequestType, With, Steps
<1>2. (\A q \in Requests : Justified(q))' /\ Alone' /\ ActiveIsStored'
  BY BeginShape DEF Justified, Alone, Activating, ActiveIsStored, With, TypeOK, Steps
<1> QED
  BY <1>1, <1>2

LEMMA BeginAbortOK ==
  ASSUME IInv, NEW r \in Requests, NEW p \in Packages, BeginAbort(r, p)
  PROVE  IInv'
<1> USE DEF IInv, BeginAbort, rows, store
<1>1. PICK step \in {"ABORT", "CLEANUP"} :
        /\ Begin(r, p, step)
        /\ step = "CLEANUP" => status[p] = "ABORTED"
        /\ UNCHANGED <<rows, store, jobs, overlapped, faults>>
  OBVIOUS
<1>2. TypeOK'
  BY <1>1, BeginShape DEF TypeOK, RequestType, With, Steps
<1>3. (\A q \in Requests : Justified(q))'
  BY <1>1, BeginShape DEF Justified, Steps
<1>4. Alone' /\ ActiveIsStored'
  BY <1>1, BeginShape DEF Alone, Activating, ActiveIsStored, With, Steps
<1> QED
  BY <1>2, <1>3, <1>4

LEMMA BeginActivateOK ==
  ASSUME IInv, NEW r \in Requests, NEW p \in Packages, BeginActivate(r, p)
  PROVE  IInv'
<1> USE DEF IInv, BeginActivate, rows, store
<1>1. TypeOK'
  BY BeginShape DEF TypeOK, RequestType, With, Steps, Package
<1>2. overlapped \subseteq overlapped'
  OBVIOUS
<1>3. (\A q \in Requests : Justified(q))'
  BY <1>2, BeginShape DEF Justified, Steps
<1>4. Alone'
  BY <1>2, BeginShape DEF Alone, Activating, Steps, Package
<1>5. ActiveIsStored'
  BY <1>2 DEF ActiveIsStored, With
<1> QED
  BY <1>1, <1>3, <1>4, <1>5

LEMMA PutObjectOK ==
  ASSUME IInv, NEW r \in Requests, PutObject(r)
  PROVE  IInv'
<1> USE DEF IInv, PutObject, rows, At, Package
<1>1. TypeOK'
  BY GotoShape DEF TypeOK, RequestType, With, Steps
<1>2. (\A q \in Requests : Justified(q))' /\ Alone' /\ ActiveIsStored'
  BY GotoShape DEF Justified, Alone, Activating, ActiveIsStored, With, TypeOK, Steps
<1> QED
  BY <1>1, <1>2

LEMMA FailPutOK ==
  ASSUME IInv, NEW r \in Requests, FailPut(r)
  PROVE  IInv'
<1> USE DEF IInv, FailPut, rows, At, Package, Fault
<1>1. TypeOK'
  BY BoundsAssumption, EndShape DEF TypeOK, RequestType, With, Steps
<1>2. (\A q \in Requests : Justified(q))' /\ Alone' /\ ActiveIsStored'
  BY EndShape DEF Justified, Alone, Activating, ActiveIsStored, With, TypeOK, Steps
<1> QED
  BY <1>1, <1>2

LEMMA RecordUploadOK ==
  ASSUME IInv, NEW r \in Requests, RecordUpload(r)
  PROVE  IInv'
<1> USE DEF IInv, RecordUpload, rows, store, At, Package
<1>1. TypeOK'
  BY EndUpdatingShape DEF TypeOK, RequestType, With, Steps
<1>2. (\A q \in Requests : Justified(q))' /\ Alone' /\ ActiveIsStored'
  BY EndUpdatingShape DEF Justified, Alone, Activating, ActiveIsStored, With, TypeOK, Steps
<1> QED
  BY <1>1, <1>2

LEMMA VerifyStagedOK ==
  ASSUME IInv, NEW r \in Requests, VerifyStaged(r)
  PROVE  IInv'
<1> USE DEF IInv, VerifyStaged, rows, store, At, Package
<1>1. TypeOK'
  BY GotoShape, EndShape DEF TypeOK, RequestType, With, Steps
<1>2. (\A q \in Requests : Justified(q))' /\ Alone' /\ ActiveIsStored'
  BY GotoShape, EndShape DEF Justified, Alone, Activating, ActiveIsStored, With, TypeOK, Steps
<1> QED
  BY <1>1, <1>2

LEMMA MakeReadyOK ==
  ASSUME IInv, NEW r \in Requests, MakeReady(r)
  PROVE  IInv'
<1> USE DEF IInv, MakeReady, store, At, Package
<1>1. TypeOK'
  <2>1. requests' \in [Requests -> RequestType] /\ Package(r) \in Packages
    BY EndUpdatingShape, EndShape DEF TypeOK
  <2>2. requests[r].fresh => status[requests[r].package] = "UPLOADING"
    BY DEF Justified
  <2> QED
    BY <2>1, <2>2 DEF TypeOK, RequestType, With
<1>2. (\A q \in Requests : Justified(q))' /\ Alone' /\ ActiveIsStored'
  BY EndUpdatingShape, EndShape DEF Justified, Alone, Activating, ActiveIsStored, With, TypeOK, Steps
<1> QED
  BY <1>1, <1>2

LEMMA AbortRowOK ==
  ASSUME IInv, NEW r \in Requests, AbortRow(r)
  PROVE  IInv'
<1> USE DEF IInv, AbortRow, store, At, Package, StillUploading
<1>1. TypeOK'
  BY GotoUpdatingShape, GotoShape, EndShape DEF TypeOK, RequestType, With, Steps
<1>2. (\A q \in Requests : Justified(q))' /\ Alone' /\ ActiveIsStored'
  BY GotoUpdatingShape, GotoShape, EndShape DEF Justified, Alone, Activating, ActiveIsStored, With, TypeOK, Steps
<1> QED
  BY <1>1, <1>2

LEMMA CleanupStagingOK ==
  ASSUME IInv, NEW r \in Requests, CleanupStaging(r)
  PROVE  IInv'
<1> USE DEF IInv, CleanupStaging, rows, At, Package
<1>1. TypeOK'
  BY EndShape DEF TypeOK, RequestType, With, Steps
<1>2. (\A q \in Requests : Justified(q))' /\ Alone' /\ ActiveIsStored'
  BY EndShape DEF Justified, Alone, Activating, ActiveIsStored, With, TypeOK, Steps
<1> QED
  BY <1>1, <1>2

LEMMA CleanupLaterOK ==
  ASSUME IInv, NEW r \in Requests, CleanupLater(r)
  PROVE  IInv'
<1> USE DEF IInv, CleanupLater, rows, store, At, Package, Fault
<1>1. TypeOK'
  <2>1. requests[r].package \in With("ABORTED")
    BY DEF Justified, With, TypeOK
  <2> QED
    BY <2>1, BoundsAssumption, EndShape DEF TypeOK, RequestType, With
<1>2. (\A q \in Requests : Justified(q))' /\ Alone' /\ ActiveIsStored'
  BY EndShape DEF Justified, Alone, Activating, ActiveIsStored, With, TypeOK, Steps
<1> QED
  BY <1>1, <1>2

LEMMA CopyObjectOK ==
  ASSUME IInv, NEW r \in Requests, CopyObject(r)
  PROVE  IInv'
<1> USE DEF IInv, CopyObject, rows, At, Package
<1>1. TypeOK'
  BY GotoShape, EndShape DEF TypeOK, RequestType, With, Steps
<1>2. (\A q \in Requests : Justified(q))' /\ Alone' /\ ActiveIsStored'
  BY GotoShape, EndShape DEF Justified, Alone, Activating, ActiveIsStored, With, TypeOK, Steps
<1> QED
  BY <1>1, <1>2

LEMMA DropStagedOK ==
  ASSUME IInv, NEW r \in Requests, DropStaged(r)
  PROVE  IInv'
<1> USE DEF IInv, DropStaged, rows, At, Package
<1>1. TypeOK'
  BY GotoShape, EndShape DEF TypeOK, RequestType, With, Steps
<1>2. (\A q \in Requests : Justified(q))' /\ Alone' /\ ActiveIsStored'
  BY GotoShape, EndShape DEF Justified, Alone, Activating, ActiveIsStored, With, TypeOK, Steps
<1> QED
  BY <1>1, <1>2

LEMMA SwitchPackageOK ==
  ASSUME IInv, NEW r \in Requests, SwitchPackage(r)
  PROVE  IInv'
<1> USE DEF IInv, SwitchPackage, store, At, Package, Fault, Activatable, Switched, JobsAfterSwitch
<1>1. TypeOK'
  <2>1. With("ACTIVE") \subseteq Packages /\ Package(r) \in Packages
    BY DEF With, TypeOK
  <2>2. requests' \in [Requests -> RequestType]
    BY <2>1, GotoUpdatingShape, EndUpdatingShape DEF Steps
  <2>3. faults' \in 0..MaxFaults
    BY BoundsAssumption DEF TypeOK
  <2>4. status' \in [Packages -> {"NONE", "UPLOADING", "READY", "ACTIVE", "SUPERSEDED", "ABORTED"}]
    BY DEF TypeOK
  <2>5. jobs' \subseteq With("ABORTED")' \cup With("SUPERSEDED")'
    BY DEF TypeOK, With
  <2>6. \A p, q \in With("ACTIVE")' : p = q
    BY DEF With
  <2> QED
    BY <2>2, <2>3, <2>4, <2>5, <2>6 DEF TypeOK, RequestType
<1>2. (\A q \in Requests : Justified(q))' /\ Alone' /\ ActiveIsStored'
  BY GotoUpdatingShape, EndUpdatingShape DEF Justified, Alone, Activating, ActiveIsStored, With, TypeOK, Steps
<1> QED
  BY <1>1, <1>2

LEMMA RefuseSwitchOK ==
  ASSUME IInv, NEW r \in Requests, RefuseSwitch(r)
  PROVE  IInv'
<1> USE DEF IInv, RefuseSwitch, rows, store, At, Package
<1>1. TypeOK'
  BY GotoShape DEF TypeOK, RequestType, With, Steps
<1>2. (\A q \in Requests : Justified(q))' /\ Alone' /\ ActiveIsStored'
  BY GotoShape DEF Justified, Alone, Activating, ActiveIsStored, With, TypeOK, Steps
<1> QED
  BY <1>1, <1>2

LEMMA LoseSwitchOK ==
  ASSUME IInv, NEW r \in Requests, LoseSwitch(r)
  PROVE  IInv'
<1> USE DEF IInv, LoseSwitch, rows, store, At, Package, Fault
<1>1. TypeOK'
  BY BoundsAssumption, GotoShape DEF TypeOK, RequestType, With, Steps
<1>2. (\A q \in Requests : Justified(q))' /\ Alone' /\ ActiveIsStored'
  BY GotoShape DEF Justified, Alone, Activating, ActiveIsStored, With, TypeOK, Steps
<1> QED
  BY <1>1, <1>2

LEMMA ReadAfterFailureOK ==
  ASSUME IInv, NEW r \in Requests, ReadAfterFailure(r)
  PROVE  IInv'
<1> USE DEF IInv, ReadAfterFailure, rows, store, At, Package, CopyUnused
<1>1. TypeOK'
  BY GotoShape, EndShape DEF TypeOK, RequestType, With, Steps
<1>2. (\A q \in Requests : Justified(q))' /\ Alone' /\ ActiveIsStored'
  BY GotoShape, EndShape DEF Justified, Alone, Activating, ActiveIsStored, With, TypeOK, Steps
<1> QED
  BY <1>1, <1>2

LEMMA UndoPromotionOK ==
  ASSUME IInv, NEW r \in Requests, UndoPromotion(r)
  PROVE  IInv'
<1> USE DEF IInv, UndoPromotion, rows, At, Package
<1>1. TypeOK'
  BY EndShape DEF TypeOK, RequestType, With, Steps
<1>2. (\A q \in Requests : Justified(q))' /\ Alone' /\ ActiveIsStored'
  BY EndShape DEF Justified, Alone, Activating, ActiveIsStored, With, TypeOK, Steps
<1> QED
  BY <1>1, <1>2

LEMMA LoseRequestOK ==
  ASSUME IInv, NEW r \in Requests, LoseRequest(r)
  PROVE  IInv'
<1> USE DEF IInv, LoseRequest, rows, store, At, Fault
<1>1. TypeOK'
  BY BoundsAssumption, EndShape DEF TypeOK, RequestType, With, Steps
<1>2. (\A q \in Requests : Justified(q))'
  BY EndShape DEF Justified
<1>3. Alone' /\ ActiveIsStored'
  BY EndShape DEF Alone, Activating, ActiveIsStored, With
<1> QED
  BY <1>1, <1>2, <1>3

LEMMA DeleteObjectOK ==
  ASSUME IInv, NEW p \in Packages, DeleteObject(p)
  PROVE  IInv'
<1> USE DEF IInv, DeleteObject, rows
<1>1. TypeOK'
  BY DEF TypeOK, RequestType, With, Steps
<1>2. (\A q \in Requests : Justified(q))' /\ Alone' /\ ActiveIsStored'
  BY DEF Justified, Alone, Activating, ActiveIsStored, With, TypeOK, Steps
<1> QED
  BY <1>1, <1>2

LEMMA CrashApiOK ==
  ASSUME IInv, CrashApi
  PROVE  IInv'
<1> USE DEF IInv, CrashApi, rows, store, Fault
<1>1. TypeOK'
  BY BoundsAssumption, IdleType DEF TypeOK, RequestType, With, Steps
<1>2. (\A q \in Requests : Justified(q))' /\ Alone' /\ ActiveIsStored'
  BY IdleType DEF Justified, Alone, Activating, ActiveIsStored, With, TypeOK, Steps
<1> QED
  BY <1>1, <1>2

\* Every step keeps the invariant,
LEMMA StepOK == IInv /\ [Next]_vars => IInv'
<1> SUFFICES ASSUME IInv, [Next]_vars PROVE IInv'
  OBVIOUS
<1>1. CASE \E p \in Packages : CreateUploadSession(p) \/ DeleteObject(p)
  BY <1>1, CreateUploadSessionOK, DeleteObjectOK
<1>2. CASE \E r \in Requests, p \in Packages : StartRequest(r, p)
  BY <1>2, BeginStreamOK, BeginCompleteOK, BeginAbortOK, BeginActivateOK DEF StartRequest
<1>3. CASE \E r \in Requests : RequestStep(r)
  BY <1>3, PutObjectOK, FailPutOK, RecordUploadOK, VerifyStagedOK,
     MakeReadyOK, AbortRowOK, CleanupStagingOK, CleanupLaterOK,
     CopyObjectOK, DropStagedOK, SwitchPackageOK, RefuseSwitchOK,
     LoseSwitchOK, ReadAfterFailureOK, UndoPromotionOK, LoseRequestOK
     DEF RequestStep
<1>4. CASE Reshare
  BY <1>4, ReshareOK
<1>5. CASE CrashApi
  BY <1>5, CrashApiOK
<1>6. CASE UNCHANGED vars
  BY <1>6 DEF vars, IInv, TypeOK, Justified, Alone, ActiveIsStored, With
<1> QED
  BY <1>1, <1>2, <1>3, <1>4, <1>5, <1>6 DEF Next

\* so it holds in every reachable state.
LEMMA Invariance == Spec => []IInv
  BY InitOK, StepOK, PTL DEF Spec

-----------------------------------------------------------------------------

\* One ACTIVE package at most, and deletion jobs only for packages no longer
\* needed: the refusals of package-object-delete are never reached.
THEOREM UploadTypeCorrect == Spec => []TypeOK
<1>1. IInv => TypeOK
  BY DEF IInv
<1> QED
  BY <1>1, Invariance, PTL

\* The stored object of the ACTIVE package survives every failure and crash of
\* activations that do not overlap.
THEOREM ActiveStored == Spec => []ActiveIsStored
<1>1. IInv => ActiveIsStored
  BY DEF IInv
<1> QED
  BY <1>1, Invariance, PTL

-----------------------------------------------------------------------------
(* A superseded package is on its way out, and its object does not come back. *)

\* The object a superseded package still has is queued for deletion.
SupersededIsQueued ==
    \A p \in Packages :
        status[p] = "SUPERSEDED" /\ p \notin overlapped /\ p \in private => p \in jobs

\* Neither the row nor the deletion of the object is ever undone.
StaysSuperseded ==
    \A p \in Packages : status[p] = "SUPERSEDED" /\ p \notin overlapped =>
        /\ status'[p] = "SUPERSEDED" /\ p \notin overlapped'
        /\ p \notin private => p \notin private'

\* What a step does to a package that is superseded, and to one that becomes so
SupersededKept(p) ==
    /\ p \in overlapped => p \in overlapped'
    /\ status[p] = "SUPERSEDED" /\ p \notin overlapped =>
          /\ status'[p] = "SUPERSEDED" /\ p \notin overlapped'
          /\ p \in private' => p \in private
          /\ p \in jobs /\ p \in private' => p \in jobs'
    /\ status[p] # "SUPERSEDED" /\ status'[p] = "SUPERSEDED" => p \in jobs'

\* A request touches the object of no superseded package but to take it away,
\* unless it was promoting it while another request switched it.
LEMMA RequestSupersedes ==
    ASSUME IInv, NEW r \in Requests, RequestStep(r), NEW p \in Packages
    PROVE  SupersededKept(p)
<1> USE DEF rows, store, At, Package, SupersededKept
<1>1. Justified(r) /\ requests[r].package \in Packages
  BY DEF IInv, TypeOK
<1>2. CASE CopyObject(r)
  BY <1>1, <1>2 DEF CopyObject, Justified
<1>3. CASE SwitchPackage(r)
  <2>1. status' = Switched(requests[r].package) /\ status[requests[r].package] = "READY"
    BY <1>3 DEF SwitchPackage, Activatable
  <2>2. status'[p] = IF p = requests[r].package THEN "ACTIVE"
                     ELSE IF status[p] = "ACTIVE" THEN "SUPERSEDED" ELSE status[p]
    BY <2>1 DEF Switched
  <2>3. jobs' = jobs \cup With("ACTIVE") /\ UNCHANGED <<private, overlapped>>
    BY <1>3 DEF SwitchPackage, JobsAfterSwitch
  <2> QED
    BY <2>1, <2>2, <2>3 DEF With
<1>4. CASE MakeReady(r)
  <2>1. status'[p] \in {status[p], "READY"} /\ UNCHANGED <<private, jobs, overlapped>>
    BY <1>4 DEF MakeReady, IInv, TypeOK
  <2>2. status[p] = "SUPERSEDED" => status'[p] = status[p]
    BY <1>1, <1>4 DEF MakeReady, Justified, IInv, TypeOK
  <2> QED
    BY <2>1, <2>2
<1>5. CASE AbortRow(r)
  BY <1>5 DEF AbortRow, StillUploading, IInv, TypeOK
<1> QED
  BY <1>2, <1>3, <1>4, <1>5
     DEF RequestStep, PutObject, FailPut, RecordUpload, VerifyStaged, CleanupStaging,
         CleanupLater, DropStaged, RefuseSwitch, LoseSwitch, ReadAfterFailure, UndoPromotion,
         LoseRequest

\* Every step keeps superseded packages on their way out.
LEMMA StepSupersedes ==
    ASSUME IInv, [Next]_vars, NEW p \in Packages
    PROVE  SupersededKept(p)
<1> USE DEF rows, store, SupersededKept
<1>1. ASSUME NEW q \in Packages, CreateUploadSession(q) \/ DeleteObject(q)
      PROVE  SupersededKept(p)
  BY <1>1 DEF CreateUploadSession, DeleteObject, IInv, TypeOK
<1>2. ASSUME NEW r \in Requests, NEW q \in Packages, StartRequest(r, q)
      PROVE  SupersededKept(p)
  BY <1>2 DEF StartRequest, BeginStream, BeginComplete, BeginAbort, BeginActivate
<1>3. CASE Reshare \/ CrashApi \/ UNCHANGED vars
  BY <1>3 DEF Reshare, CrashApi, vars
<1> QED
  BY <1>1, <1>2, <1>3, RequestSupersedes DEF Next

\* Once a package is superseded its object is gone or queued for deletion, and
\* what is gone stays gone, whatever fails or crashes; only the deletion job has
\* still to run (activatePackage, package-object-delete).
THEOREM SupersededCorrect == Spec => []SupersededIsQueued /\ [][StaysSuperseded]_vars
<1>1. Init => SupersededIsQueued
  BY DEF Init, SupersededIsQueued
<1>2. IInv /\ SupersededIsQueued /\ [Next]_vars => SupersededIsQueued' /\ [StaysSuperseded]_vars
  <2>1. ASSUME IInv, SupersededIsQueued, [Next]_vars, NEW p \in Packages,
               status'[p] = "SUPERSEDED", p \notin overlapped', p \in private'
        PROVE  p \in jobs'
    BY <2>1, StepSupersedes DEF SupersededKept, SupersededIsQueued
  <2>2. ASSUME IInv, [Next]_vars PROVE StaysSuperseded
    BY <2>2, StepSupersedes DEF SupersededKept, StaysSuperseded
  <2> QED
    BY <2>1, <2>2 DEF SupersededIsQueued
<1> QED
  BY <1>1, <1>2, Invariance, PTL DEF Spec

-----------------------------------------------------------------------------
(* PackageUpload implements PackagePromise. *)

\* The initial states are initial states of the promise.
LEMMA InitMaps == Init => Promise!Init
  BY DEF Init, Promise!Init, With

\* Every step is a step of the promise or leaves it alone.
LEMMA StepMaps == IInv /\ [Next]_vars => [Promise!Next]_(Promise!vars)
<1> SUFFICES ASSUME IInv, [Next]_vars PROVE [Promise!Next]_(Promise!vars)
  OBVIOUS
<1> USE DEF Promise!vars
<1>1. ASSUME UNCHANGED status PROVE [Promise!Next]_(Promise!vars)
  BY <1>1 DEF With
<1>2. ASSUME NEW p \in Packages, CreateUploadSession(p) PROVE [Promise!Next]_(Promise!vars)
  BY <1>2 DEF CreateUploadSession, With, IInv, TypeOK
<1>3. ASSUME NEW r \in Requests, AbortRow(r) PROVE [Promise!Next]_(Promise!vars)
  BY <1>3 DEF AbortRow, StillUploading, Package, With, IInv, TypeOK
<1>4. ASSUME NEW r \in Requests, MakeReady(r) PROVE [Promise!Next]_(Promise!vars)
  <2>1. CASE ~requests[r].fresh
    BY <1>1, <1>4, <2>1 DEF MakeReady
  <2>2. CASE requests[r].fresh
    <3> DEFINE p == requests[r].package
    <3>1. p \in Packages /\ status[p] = "UPLOADING"
      BY <1>4, <2>2 DEF MakeReady, At, IInv, TypeOK, Justified
    <3>2. status' = [status EXCEPT ![p] = "READY"]
      BY <1>4, <2>2 DEF MakeReady, Package
    <3>3. Promise!Verify(p)
      BY <3>1, <3>2 DEF Promise!Verify, With, IInv, TypeOK
    <3> QED
      BY <3>1, <3>3 DEF Promise!Next
  <2> QED
    BY <2>1, <2>2
<1>5. ASSUME NEW r \in Requests, SwitchPackage(r) PROVE [Promise!Next]_(Promise!vars)
  <2> DEFINE p == requests[r].package
  <2>1. p \in Packages /\ status[p] = "READY" /\ status' = Switched(p)
    BY <1>5 DEF SwitchPackage, Activatable, Package, IInv, TypeOK
  <2>2. Promise!Serve(p)
    BY <2>1 DEF Promise!Serve, Switched, With
  <2> QED
    BY <2>1, <2>2 DEF Promise!Next
<1>6. ASSUME NEW r \in Requests, RequestStep(r), ~AbortRow(r), ~MakeReady(r), ~SwitchPackage(r)
      PROVE  UNCHANGED status
  BY <1>6 DEF RequestStep, PutObject, FailPut, RecordUpload, VerifyStaged, CleanupStaging,
      CleanupLater, CopyObject, DropStaged, RefuseSwitch, LoseSwitch, ReadAfterFailure,
      UndoPromotion, LoseRequest, rows
<1>7. ASSUME NEW r \in Requests, NEW p \in Packages, StartRequest(r, p) PROVE UNCHANGED status
  BY <1>7 DEF StartRequest, BeginStream, BeginComplete, BeginAbort, BeginActivate, rows
<1>8. ASSUME NEW p \in Packages, DeleteObject(p) PROVE UNCHANGED status
  BY <1>8 DEF DeleteObject, rows
<1>9. ASSUME Reshare \/ CrashApi \/ UNCHANGED vars PROVE UNCHANGED status
  BY <1>9 DEF Reshare, CrashApi, vars, rows
<1> QED
  BY <1>1, <1>2, <1>3, <1>4, <1>5, <1>6, <1>7, <1>8, <1>9 DEF Next

\* READY means verified, and the current package changes in one step and never
\* back, for any interleaving and failure of the requests.
THEOREM ImplementsPackagePromise == Spec => ImplementsPromise
<1> QED
  BY InitMaps, StepMaps, Invariance, PTL DEF Spec, ImplementsPromise, Promise!Spec

-----------------------------------------------------------------------------
(* Module Backup.  A script is alone with the store until somebody starts  *)
(* the services, and what it has written until then is still so.           *)

Statuses == {"NONE", "UPLOADING", "READY", "ACTIVE", "SUPERSEDED", "ABORTED"}

Listings == SUBSET ({"staging", "private"} \X Packages)

RowSets == {<<>>} \cup [Packages -> Statuses]

Complete == {"COMPLETE"}
Listed == {"LISTED"} \cup Complete
Archived == {"ARCHIVED"} \cup Listed
Dumped == {"DUMPED"} \cup Archived
Copied == {"COPIED"} \cup Dumped
Inventoried == {"INVENTORIED"} \cup Copied

MediumType ==
    [step : {"IDLE", "QUIESCED"} \cup Inventoried, driver : {"filesystem", "s3"},
     stopped : BOOLEAN, rows : RowSets, copied : Listings, dump : RowSets,
     archive : Listings, manifest : Listings, disturbed : BOOLEAN]

\* What each step of an undisturbed script has left on the medium.
MediumIsTrue ==
    backup.step # "IDLE" /\ ~backup.disturbed =>
        /\ ~up
        /\ backup.step \in Inventoried => backup.rows = status
        /\ backup.step \in Copied =>
              /\ backup.copied = Copies
              /\ backup.driver = "s3" => Referenced(backup.rows) \subseteq Objects
        /\ backup.step \in Dumped => backup.dump = status
        /\ backup.step \in Archived => backup.archive = BackupObjectRoot
        /\ backup.step \in Listed => backup.manifest = InventoryObjects
        /\ backup.step \in Complete => VerifyDatabaseObjectReferences(backup)

BackupInv == IInv /\ up \in BOOLEAN /\ backup \in MediumType /\ MediumIsTrue

\* No backup is a backup at rest.
LEMMA NoBackupOK == NoBackup \in MediumType /\ NoBackup.step = "IDLE"
  BY DEF NoBackup, MediumType, RowSets, Listings

\* What the services do between backups, or during one, is what they do without any.
LEMMA ServicesStepIsNext ==
  ASSUME ServicesStep
  PROVE  Next /\ up /\ up' = up /\ backup' = backup
BY DisturbersAssumption DEF ServicesStep, Serving, Served, backupVars, Next, StartRequest, RequestStep

\* The objects in the store are a listing.
LEMMA ObjectsType == TypeOK => Objects \in Listings
  BY DEF TypeOK, Objects, Listings

\* So are the objects the rows refer to.
LEMMA ReferencedType == \A rs : Referenced(rs) \in Listings
  BY DEF Referenced, Listings

\* Stopping the services ends requests, which touches no row and no object.
LEMMA QuiesceOK ==
  ASSUME BackupInv, Quiesce
  PROVE  BackupInv'
<1> USE DEF Quiesce, ServicesStopped, rows, store
<1>1. TypeOK'
  BY IdleType DEF BackupInv, IInv, TypeOK, RequestType, With, Steps
<1>2. (\A q \in Requests : Justified(q))' /\ Alone' /\ ActiveIsStored'
  BY IdleType DEF BackupInv, IInv, Justified, Alone, Activating, ActiveIsStored, With, TypeOK, Steps
<1>3. backup' \in MediumType /\ backup'.step = "QUIESCED" /\ up' = FALSE
  BY NoBackupOK DEF BackupInv, MediumType
<1>4. MediumIsTrue'
  BY <1>3 DEF MediumIsTrue, Inventoried, Copied, Dumped, Archived, Listed, Complete
<1> QED
  BY <1>1, <1>2, <1>3, <1>4 DEF BackupInv, IInv

\* A step of the script alone touches neither rows nor objects.
LEMMA ScriptKeepsInv ==
  ASSUME BackupInv, UNCHANGED vars
  PROVE  IInv'
BY DEF BackupInv, vars, IInv, TypeOK, Justified, Alone, ActiveIsStored, With

\* Each step of the script copies what is true of a store at rest.
LEMMA ScriptStepOK ==
  ASSUME BackupInv, ScriptStep
  PROVE  BackupInv'
<1>1. backup \in MediumType /\ MediumIsTrue /\ up \in BOOLEAN /\ status \in RowSets
  BY DEF BackupInv, IInv, TypeOK, RowSets, Statuses
<1>2. UNCHANGED vars /\ up' = up /\ IInv'
  BY ScriptKeepsInv DEF ScriptStep, TakeInventory, Materialize, Dump, Archive, CreateManifest,
     VerifyReferences
<1>3. status' = status /\ Objects' = Objects
  BY <1>2 DEF vars, Objects
<1>4. Copies \in Listings /\ BackupObjectRoot \in Listings
  BY <1>1, ObjectsType, ReferencedType DEF BackupInv, IInv, Copies, BackupObjectRoot, Listings,
     MediumType
<1>5. CASE TakeInventory
  <2>1. /\ backup' \in MediumType /\ backup'.step = "INVENTORIED" /\ backup'.driver = backup.driver
        /\ backup'.disturbed = backup.disturbed
        /\ backup'.rows = status
    BY <1>1, <1>4, <1>5 DEF TakeInventory, MediumType, Inventoried, Copied,
       Dumped, Archived, Listed, Complete
  <2>2. MediumIsTrue'
    BY <1>1, <1>2, <1>3, <1>5, <2>1 DEF MediumIsTrue, Inventoried, Copied,
       Dumped, Archived, Listed, Complete,
       TakeInventory
  <2> QED
    BY <1>2, <2>1, <2>2, <1>1 DEF BackupInv
<1>6. CASE Materialize
  <2>1. /\ backup' \in MediumType /\ backup'.step = "COPIED" /\ backup'.driver = backup.driver
        /\ backup'.disturbed = backup.disturbed
        /\ backup'.copied = Copies
        /\ backup'.rows = backup.rows
    BY <1>1, <1>4, <1>6 DEF Materialize, MediumType, Inventoried, Copied,
       Dumped, Archived, Listed, Complete
  <2>2. MediumIsTrue'
    BY <1>1, <1>2, <1>3, <1>6, <2>1 DEF MediumIsTrue, Inventoried, Copied,
       Dumped, Archived, Listed, Complete,
       Materialize, MigrateStorageInventory, Copies
  <2> QED
    BY <1>2, <2>1, <2>2, <1>1 DEF BackupInv
<1>7. CASE Dump
  <2>1. /\ backup' \in MediumType /\ backup'.step = "DUMPED" /\ backup'.driver = backup.driver
        /\ backup'.disturbed = backup.disturbed
        /\ backup'.dump = status
        /\ backup'.rows = backup.rows /\ backup'.copied = backup.copied
    BY <1>1, <1>4, <1>7 DEF Dump, MediumType, Inventoried, Copied,
       Dumped, Archived, Listed, Complete
  <2>2. MediumIsTrue'
    BY <1>1, <1>2, <1>3, <1>7, <2>1 DEF MediumIsTrue, Inventoried, Copied,
       Dumped, Archived, Listed, Complete,
       Dump, Copies
  <2> QED
    BY <1>2, <2>1, <2>2, <1>1 DEF BackupInv
<1>8. CASE Archive
  <2>1. /\ backup' \in MediumType /\ backup'.step = "ARCHIVED" /\ backup'.driver = backup.driver
        /\ backup'.disturbed = backup.disturbed
        /\ backup'.archive = BackupObjectRoot
        /\ backup'.rows = backup.rows /\ backup'.copied = backup.copied
        /\ backup'.dump = backup.dump
    BY <1>1, <1>4, <1>8 DEF Archive, MediumType, Inventoried, Copied,
       Dumped, Archived, Listed, Complete
  <2>2. MediumIsTrue'
    BY <1>1, <1>2, <1>3, <1>8, <2>1 DEF MediumIsTrue, Inventoried, Copied,
       Dumped, Archived, Listed, Complete,
       Archive, Copies, BackupObjectRoot
  <2> QED
    BY <1>2, <2>1, <2>2, <1>1 DEF BackupInv
<1>9. CASE CreateManifest
  <2>1. /\ backup' \in MediumType /\ backup'.step = "LISTED" /\ backup'.driver = backup.driver
        /\ backup'.disturbed = backup.disturbed
        /\ backup'.manifest = InventoryObjects
        /\ backup'.rows = backup.rows /\ backup'.copied = backup.copied
        /\ backup'.dump = backup.dump /\ backup'.archive = backup.archive
    BY <1>1, <1>4, <1>9 DEF CreateManifest, InventoryObjects, MediumType, Inventoried, Copied,
       Dumped, Archived, Listed, Complete
  <2>2. MediumIsTrue'
    BY <1>1, <1>2, <1>3, <1>9, <2>1 DEF MediumIsTrue, Inventoried, Copied,
       Dumped, Archived, Listed, Complete,
       CreateManifest,
       Copies, BackupObjectRoot, InventoryObjects
  <2> QED
    BY <1>2, <2>1, <2>2, <1>1 DEF BackupInv
<1>10. CASE VerifyReferences
  <2>1. /\ backup' \in MediumType /\ backup'.step = "COMPLETE" /\ backup'.driver = backup.driver
        /\ backup'.disturbed = backup.disturbed
        /\ backup'.rows = backup.rows /\ backup'.copied = backup.copied
        /\ backup'.dump = backup.dump /\ backup'.archive = backup.archive /\ backup'.manifest = backup.manifest
    BY <1>1, <1>4, <1>10 DEF VerifyReferences, MediumType, Inventoried, Copied,
       Dumped, Archived, Listed, Complete
  <2>2. MediumIsTrue'
    BY <1>1, <1>2, <1>3, <1>10, <2>1 DEF MediumIsTrue, Inventoried, Copied,
       Dumped, Archived, Listed, Complete,
       VerifyReferences,
       Copies, BackupObjectRoot, InventoryObjects, VerifyDatabaseObjectReferences
  <2> QED
    BY <1>2, <2>1, <2>2, <1>1 DEF BackupInv
<1> QED
  BY <1>5, <1>6, <1>7, <1>8, <1>9, <1>10 DEF ScriptStep

\* Of a backup that services started meanwhile have disturbed nothing is claimed.
LEMMA DisturbedOK ==
  ASSUME BackupInv, StartServices
  PROVE  BackupInv'
<1>1. IInv' /\ up' \in BOOLEAN /\ backup' \in MediumType
  BY ScriptKeepsInv DEF StartServices, BackupInv, MediumType, Inventoried, Copied, Dumped,
     Archived, Listed, Complete
<1>2. backup'.disturbed = (backup'.step # "IDLE")
  BY DEF StartServices, BackupInv, MediumType
<1> QED
  BY <1>1, <1>2 DEF BackupInv, MediumIsTrue

\* A script that ends or dies leaves nothing to be true of.
LEMMA ScriptEndsOK ==
  ASSUME BackupInv, UNCHANGED vars, backup' = NoBackup, up' \in BOOLEAN
  PROVE  BackupInv'
BY NoBackupOK, ScriptKeepsInv
   DEF BackupInv, MediumIsTrue, Inventoried, Copied, Dumped, Archived, Listed, Complete

\* Every step keeps the invariant of services and script,
LEMMA BackupStepOK == BackupInv /\ [BackupNext]_allVars => BackupInv'
<1> SUFFICES ASSUME BackupInv, [BackupNext]_allVars PROVE BackupInv'
  OBVIOUS
<1> USE DEF MediumIsTrue, Inventoried, Copied, Dumped, Archived, Listed, Complete
<1>1. CASE ServicesStep
  <2>1. IInv' /\ up /\ up' = up /\ backup' = backup
    BY <1>1, ServicesStepIsNext, StepOK DEF BackupInv
  <2>2. backup.step = "IDLE" \/ backup.disturbed
    BY <2>1 DEF BackupInv
  <2> QED
    BY <2>1, <2>2 DEF BackupInv
<1>2. CASE Quiesce
  BY <1>2, QuiesceOK
<1>3. CASE ScriptStep
  BY <1>3, ScriptStepOK
<1>4. CASE CleanUp \/ LoseScript
  <2>1. up' \in BOOLEAN
    BY <1>4 DEF CleanUp, LoseScript, BackupInv, MediumType
  <2> QED
    BY <1>4, <2>1, ScriptEndsOK DEF CleanUp, LoseScript
<1>5. CASE StartServices
  BY <1>5, DisturbedOK
<1>6. CASE UNCHANGED allVars
  <2>1. UNCHANGED vars /\ up' = up /\ backup' = backup /\ UNCHANGED <<status, staging, private>>
    BY <1>6 DEF allVars, backupVars, vars
  <2> QED
    BY <2>1, ScriptKeepsInv DEF BackupInv, Copies, BackupObjectRoot, InventoryObjects, Objects,
       VerifyDatabaseObjectReferences
<1> QED
  BY <1>1, <1>2, <1>3, <1>4, <1>5, <1>6 DEF BackupNext

\* which holds initially,
LEMMA BackupInitOK == BackupInit => BackupInv
  BY InitOK, NoBackupOK
     DEF BackupInit, BackupInv, MediumIsTrue, Inventoried, Copied, Dumped, Archived, Listed,
         Complete

\* so it holds in every reachable state.
LEMMA BackupInvariance == BackupSpec => []BackupInv
  BY BackupInitOK, BackupStepOK, PTL DEF BackupSpec

\* What verify-restore.sh accepts passes the reconciliation, of whatever moments
\* its artefacts are: a disturbed backup is found out there or does no harm.
LEMMA VerifiedMediumRestores ==
  ASSUME NEW medium, RestoreVerifies(medium)
  PROVE  Reconciles(Restored(medium).rows, Restored(medium).objects)
BY DEF RestoreVerifies, VerifyRestoredObjects, VerifyDatabaseObjectReferences,
   CompareDatabaseInventories, Restored

\* The medium of a successful backup verifies, unless the services were started
\* meanwhile, and what verifies can be restored, whatever driver holds the objects
\* and wherever the requests were when the services stopped.
THEOREM CompleteBackupsRestore == BackupSpec => []CompleteBackupRestores
<1>1. BackupInv => CompleteBackupRestores
  <2> SUFFICES ASSUME BackupInv, backup.step = "COMPLETE", ~backup.disturbed
      PROVE  RestoreVerifies(backup)
    BY VerifiedMediumRestores DEF CompleteBackupRestores
  <2>1. /\ backup.rows = status /\ backup.dump = status
        /\ backup.archive = BackupObjectRoot /\ backup.manifest = BackupObjectRoot
        /\ VerifyDatabaseObjectReferences(backup)
    BY DEF BackupInv, MediumIsTrue, InventoryObjects, Inventoried, Copied, Dumped, Archived,
       Listed, Complete
  <2> QED
    BY <2>1 DEF RestoreVerifies, VerifyRestoredObjects, CompareDatabaseInventories, Restored
<1> QED
  BY <1>1, BackupInvariance, PTL

\* Backups, their crashes and restarted services leave the promises of the
\* package handlers as they are.
THEOREM BackupKeepsPackages == BackupSpec => []ActiveIsStored /\ ImplementsPromise
<1>1. BackupInv => IInv /\ ActiveIsStored
  BY DEF BackupInv, IInv
<1>2. BackupInit => Promise!Init
  BY InitMaps DEF BackupInit
<1>3. BackupInv /\ [BackupNext]_allVars => [Promise!Next]_(Promise!vars)
  <2> SUFFICES ASSUME BackupInv, [BackupNext]_allVars PROVE [Promise!Next]_(Promise!vars)
    OBVIOUS
  <2>1. CASE ServicesStep
    BY <1>1, <2>1, ServicesStepIsNext, StepMaps
  <2>2. CASE Quiesce
    BY <2>2 DEF Quiesce, rows, With, Promise!vars
  <2>3. ASSUME UNCHANGED vars PROVE [Promise!Next]_(Promise!vars)
    BY <2>3, <1>1, StepMaps
  <2> QED
    BY <2>1, <2>2, <2>3
       DEF BackupNext, ScriptStep, TakeInventory, Materialize, Dump, Archive, CreateManifest,
           VerifyReferences, CleanUp, LoseScript, StartServices, allVars
<1> QED
  BY <1>1, <1>2, <1>3, BackupInvariance, PTL DEF BackupSpec, ImplementsPromise, Promise!Spec
=============================================================================
