---------------------------- MODULE PackageUpload ----------------------------
(***************************************************************************)
(* The encrypted packages of the vault (packages/application/src/vault):   *)
(* upload sessions, the streaming of the ciphertext to the object store,   *)
(* its completion, activation and abortion, and the worker's job that      *)
(* deletes what is no longer needed.                                       *)
(*                                                                         *)
(* Only activation and abortion use a transaction of several rows; between *)
(* the transactions and the calls of the object store a request is         *)
(* interleaved with any other, can fail, and is lost when the API crashes. *)
(* A row is updated against the version the request has read: here, the    *)
(* request is fresh.  Expired sessions only make requests fail earlier.    *)
(***************************************************************************)
EXTENDS Integers

CONSTANTS
    Packages,       \* rows legacy_packages may hold, each with its object key
    Requests,       \* requests the API works on at a time
    MaxGenerations, \* bound: share generations
    MaxFaults       \* bound: failing calls and crashes

ASSUME PackagesAssumption == Packages # {}
ASSUME BoundsAssumption == MaxGenerations \in Nat \ {0} /\ MaxFaults \in Nat

VARIABLES
    status,     \* legacy_packages.status, NONE before the row exists
    generation, \* legacy_packages.share_generation_id
    current,    \* vaults.active_share_generation_id
    staging,    \* keys of the objects in the staging namespace
    private,    \* keys of the objects in the private namespace
    requests,   \* what every request is at
    jobs,       \* packages with a deletion job in the outbox or the queue
    overlapped, \* history: packages that two requests were activating at once
    faults      \* failures so far

rows == <<status, generation, current>>
store == <<staging, private>>
vars == <<status, generation, current, staging, private, requests, jobs, overlapped, faults>>

Steps ==
    {"IDLE", "STREAM", "STORED", "COMPLETE", "VERIFIED", "ABORT", "CLEANUP",
     "PROMOTE", "COPIED", "SWITCH", "FAILED", "UNDO"}

Activating == {"PROMOTE", "COPIED", "SWITCH", "FAILED", "UNDO"}

Idle == [step |-> "IDLE", package |-> CHOOSE p \in Packages : TRUE, fresh |-> FALSE]

With(s) == {p \in Packages : status[p] = s}

\* Types; one package is ACTIVE at most, and nothing is ever queued for deletion
\* that is still needed: package-object-delete never has to refuse.
TypeOK ==
    /\ status \in [Packages -> {"NONE", "UPLOADING", "READY", "ACTIVE", "SUPERSEDED", "ABORTED"}]
    /\ generation \in [Packages -> 0..MaxGenerations]
    /\ current \in 1..MaxGenerations
    /\ staging \subseteq Packages
    /\ private \subseteq Packages
    /\ requests \in [Requests -> [step : Steps, package : Packages, fresh : BOOLEAN]]
    /\ jobs \subseteq With("ABORTED") \cup With("SUPERSEDED")
    /\ overlapped \subseteq Packages
    /\ faults \in 0..MaxFaults
    /\ \A p, q \in With("ACTIVE") : p = q

-----------------------------------------------------------------------------

Init ==
    /\ status = [p \in Packages |-> "NONE"]
    /\ generation = [p \in Packages |-> 0]
    /\ current = 1
    /\ staging = {}
    /\ private = {}
    /\ requests = [r \in Requests |-> Idle]
    /\ jobs = {}
    /\ overlapped = {}
    /\ faults = 0

At(r, step) == requests[r].step = step

Package(r) == requests[r].package

\* A request for package p starts with what it has just read of its row.
Begin(r, p, step) ==
    /\ At(r, "IDLE")
    /\ requests' = [requests EXCEPT ![r] = [step |-> step, package |-> p, fresh |-> TRUE]]

Goto(r, step) == requests' = [requests EXCEPT ![r].step = step]

End(r) == requests' = [requests EXCEPT ![r] = Idle]

\* The rows of packages ps are updated: what requests have read of them is stale.
Stale(ps) ==
    [q \in Requests |->
        IF Package(q) \in ps THEN [requests[q] EXCEPT !.fresh = FALSE] ELSE requests[q]]

EndUpdating(r, ps) == requests' = [Stale(ps) EXCEPT ![r] = Idle]

GotoUpdating(r, step, ps) == requests' = [Stale(ps) EXCEPT ![r].step = step]

\* A call of the database or the object store fails, or a connection is cut.
Fault ==
    /\ faults < MaxFaults
    /\ faults' = faults + 1

-----------------------------------------------------------------------------
(* createUploadSession: the browser names a generation it has once read *)

CreateUploadSession(p) ==
    /\ status[p] = "NONE"
    /\ status' = [status EXCEPT ![p] = "UPLOADING"]
    /\ \E g \in 1..current : generation' = [generation EXCEPT ![p] = g]
    /\ UNCHANGED <<current, store, requests, jobs, overlapped, faults>>

\* activateShareGeneration: the vault key is shared anew.
Reshare ==
    /\ current < MaxGenerations
    /\ current' = current + 1
    /\ UNCHANGED <<status, generation, store, requests, jobs, overlapped, faults>>

-----------------------------------------------------------------------------
(* streamUpload *)

BeginStream(r, p) ==
    /\ status[p] = "UPLOADING"
    /\ Begin(r, p, "STREAM")
    /\ UNCHANGED <<rows, store, jobs, overlapped, faults>>

\* The whole body has come.  An object already there with this digest will do.
PutObject(r) ==
    /\ At(r, "STREAM")
    /\ staging' = staging \cup {Package(r)}
    /\ Goto(r, "STORED")
    /\ UNCHANGED <<rows, private, jobs, overlapped, faults>>

\* The body was cut off: the staging object is deleted, whoever stored it.
FailPut(r) ==
    /\ At(r, "STREAM")
    /\ Fault
    /\ staging' = staging \ {Package(r)}
    /\ End(r)
    /\ UNCHANGED <<rows, private, jobs, overlapped>>

\* uploaded_at, unless the row has changed since.
RecordUpload(r) ==
    /\ At(r, "STORED")
    /\ EndUpdating(r, IF requests[r].fresh THEN {Package(r)} ELSE {})
    /\ UNCHANGED <<rows, store, jobs, overlapped, faults>>

-----------------------------------------------------------------------------
(* completeUpload *)

BeginComplete(r, p) ==
    /\ status[p] = "UPLOADING"
    /\ Begin(r, p, "COMPLETE")
    /\ UNCHANGED <<rows, store, jobs, overlapped, faults>>

\* The server digests the stored bytes itself; otherwise the request fails.
VerifyStaged(r) ==
    /\ At(r, "COMPLETE")
    /\ IF Package(r) \in staging THEN Goto(r, "VERIFIED") ELSE End(r)
    /\ UNCHANGED <<rows, store, jobs, overlapped, faults>>

MakeReady(r) ==
    /\ At(r, "VERIFIED")
    /\ IF requests[r].fresh
       THEN /\ status' = [status EXCEPT ![Package(r)] = "READY"]
            /\ EndUpdating(r, {Package(r)})
       ELSE /\ End(r)
            /\ UNCHANGED status
    /\ UNCHANGED <<generation, current, store, jobs, overlapped, faults>>

-----------------------------------------------------------------------------
(* abortUpload *)

BeginAbort(r, p) ==
    \/ /\ status[p] = "UPLOADING"
       /\ Begin(r, p, "ABORT")
       /\ UNCHANGED <<rows, store, jobs, overlapped, faults>>
    \/ /\ status[p] = "ABORTED"
       /\ Begin(r, p, "CLEANUP")
       /\ UNCHANGED <<rows, store, jobs, overlapped, faults>>

\* Mutant: the status read before the transaction is believed.
Abortable(p) == TRUE

\* The row is read again under its lock.
StillUploading(p) == status[p] = "UPLOADING"

AbortRow(r) ==
    /\ At(r, "ABORT")
    /\ IF StillUploading(Package(r))
       THEN /\ status' = [status EXCEPT ![Package(r)] = "ABORTED"]
            /\ GotoUpdating(r, "CLEANUP", {Package(r)})
       ELSE /\ IF status[Package(r)] = "ABORTED" THEN Goto(r, "CLEANUP") ELSE End(r)
            /\ UNCHANGED status
    /\ UNCHANGED <<generation, current, store, jobs, overlapped, faults>>

CleanupStaging(r) ==
    /\ At(r, "CLEANUP")
    /\ staging' = staging \ {Package(r)}
    /\ End(r)
    /\ UNCHANGED <<rows, private, jobs, overlapped, faults>>

\* The store does not answer: a job is to delete the object.
CleanupLater(r) ==
    /\ At(r, "CLEANUP")
    /\ Fault
    /\ jobs' = jobs \cup {Package(r)}
    /\ End(r)
    /\ UNCHANGED <<rows, store, overlapped>>

-----------------------------------------------------------------------------
(* activatePackage *)

BeginActivate(r, p) ==
    /\ status[p] = "READY"
    /\ Begin(r, p, "PROMOTE")
    /\ overlapped' =
           IF \E q \in Requests : Package(q) = p /\ requests[q].step \in Activating
           THEN overlapped \cup {p} ELSE overlapped
    /\ UNCHANGED <<rows, store, jobs, faults>>

\* promote, first half.  Without a staged object it throws, and nothing is undone.
CopyObject(r) ==
    /\ At(r, "PROMOTE")
    /\ IF Package(r) \in staging
       THEN /\ private' = private \cup {Package(r)}
            /\ Goto(r, "COPIED")
       ELSE /\ End(r)
            /\ UNCHANGED private
    /\ UNCHANGED <<rows, staging, jobs, overlapped, faults>>

\* promote, second half: the copy is verified and the staged object deleted.
DropStaged(r) ==
    /\ At(r, "COPIED")
    /\ IF Package(r) \in private
       THEN /\ staging' = staging \ {Package(r)}
            /\ Goto(r, "SWITCH")
       ELSE /\ End(r)
            /\ UNCHANGED staging
    /\ UNCHANGED <<rows, private, jobs, overlapped, faults>>

\* What the transaction finds under the lock of the vault.
Activatable(p) == status[p] = "READY" /\ generation[p] = current

\* Mutant: the old package is left to a later cleaning.
JobsAfterNothing == jobs

\* The superseded package is queued for deletion in the same transaction.
JobsAfterSwitch == jobs \cup With("ACTIVE")

\* The ACTIVE package, if any, is superseded by the new one.
Switched(p) ==
    [q \in Packages |->
        IF q = p THEN "ACTIVE" ELSE IF status[q] = "ACTIVE" THEN "SUPERSEDED" ELSE status[q]]

\* The transaction commits.  When the reply is lost the request takes it for
\* failed.
SwitchPackage(r) ==
    /\ At(r, "SWITCH")
    /\ Activatable(Package(r))
    /\ status' = Switched(Package(r))
    /\ jobs' = JobsAfterSwitch
    /\ \/ /\ EndUpdating(r, {Package(r)} \cup With("ACTIVE"))
          /\ UNCHANGED faults
       \/ /\ Fault
          /\ GotoUpdating(r, "FAILED", {Package(r)} \cup With("ACTIVE"))
    /\ UNCHANGED <<generation, current, store, overlapped>>

\* The package has changed, is of an older generation, or the ACTIVE package is
\* not the one the owner's tab has seen.
RefuseSwitch(r) ==
    /\ At(r, "SWITCH")
    /\ ~Activatable(Package(r)) \/ With("ACTIVE") # {}
    /\ Goto(r, "FAILED")
    /\ UNCHANGED <<rows, store, jobs, overlapped, faults>>

\* The transaction is rolled back by the database.
LoseSwitch(r) ==
    /\ At(r, "SWITCH")
    /\ Fault
    /\ Goto(r, "FAILED")
    /\ UNCHANGED <<rows, store, jobs, overlapped>>

\* Mutant: a failed transaction is taken for not committed.
NeverActive(p) == TRUE

\* The private copy of a package that is not ACTIVE is not needed.
CopyUnused(p) == status[p] # "ACTIVE"

ReadAfterFailure(r) ==
    /\ At(r, "FAILED")
    /\ IF CopyUnused(Package(r)) THEN Goto(r, "UNDO") ELSE End(r)
    /\ UNCHANGED <<rows, store, jobs, overlapped, faults>>

UndoPromotion(r) ==
    /\ At(r, "UNDO")
    /\ private' = private \ {Package(r)}
    /\ End(r)
    /\ UNCHANGED <<rows, staging, jobs, overlapped, faults>>

\* Any other call fails: the request ends where it is, its deletions swallowed.
LoseRequest(r) ==
    /\ ~At(r, "IDLE")
    /\ Fault
    /\ End(r)
    /\ UNCHANGED <<rows, store, jobs, overlapped>>

-----------------------------------------------------------------------------
(* package-object-delete: the namespace follows from the status *)

DeleteObject(p) ==
    /\ p \in jobs
    /\ staging' = IF status[p] = "ABORTED" THEN staging \ {p} ELSE staging
    /\ private' = IF status[p] = "SUPERSEDED" THEN private \ {p} ELSE private
    /\ jobs' = jobs \ {p}
    /\ UNCHANGED <<rows, requests, overlapped, faults>>

CrashApi ==
    /\ \E r \in Requests : ~At(r, "IDLE")
    /\ Fault
    /\ requests' = [r \in Requests |-> Idle]
    /\ UNCHANGED <<rows, store, jobs, overlapped>>

-----------------------------------------------------------------------------

StartRequest(r, p) ==
    \/ BeginStream(r, p)
    \/ BeginComplete(r, p)
    \/ BeginAbort(r, p)
    \/ BeginActivate(r, p)

RequestStep(r) ==
    \/ PutObject(r)
    \/ FailPut(r)
    \/ RecordUpload(r)
    \/ VerifyStaged(r)
    \/ MakeReady(r)
    \/ AbortRow(r)
    \/ CleanupStaging(r)
    \/ CleanupLater(r)
    \/ CopyObject(r)
    \/ DropStaged(r)
    \/ SwitchPackage(r)
    \/ RefuseSwitch(r)
    \/ LoseSwitch(r)
    \/ ReadAfterFailure(r)
    \/ UndoPromotion(r)
    \/ LoseRequest(r)

Next ==
    \/ \E p \in Packages : CreateUploadSession(p) \/ DeleteObject(p)
    \/ \E r \in Requests, p \in Packages : StartRequest(r, p)
    \/ \E r \in Requests : RequestStep(r)
    \/ Reshare
    \/ CrashApi

Spec == Init /\ [][Next]_vars

-----------------------------------------------------------------------------
(* Properties *)

\* The ACTIVE package has its object in the private namespace, unless requests to
\* activate it overlapped: no failure between the promotion, the transaction, its
\* reply and the compensation costs the owner the stored package
\* (activatePackage).
ActiveIsStored == With("ACTIVE") \ overlapped \subseteq private

\* A superseded package is deleted for good, whatever fails or crashes after the
\* switch (activatePackage books the job in its transaction), unless requests to
\* activate it overlapped: the later one may promote it anew and then crash.
SupersededIsDeleted ==
    \A p \in Packages : status[p] = "SUPERSEDED" /\ p \notin overlapped ~> p \notin private
=============================================================================
