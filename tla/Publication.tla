----------------------------- MODULE Publication -----------------------------
(***************************************************************************)
(* finalizePublication: how a locked workflow becomes a public legacy.     *)
(* The handler runs between a database and an object store that share no   *)
(* transaction: it stages the decrypted archive, commits the publication   *)
(* row, promotes the staged object to the public namespace and releases    *)
(* the workflow.  It may throw, or its process may die, between any two of *)
(* these steps; its job is then delivered again.  Several attempts may run *)
(* at once: the scanner books a new job every minute for a locked workflow,*)
(* and the queue redelivers a job that ran past its expiry.                *)
(*                                                                         *)
(* Everything concerns one workflow.  The staging key is derived from the  *)
(* workflow and the public key from the content, so each namespace holds   *)
(* at most one object of interest.                                         *)
(***************************************************************************)
EXTENDS Integers, FiniteSets

CONSTANTS
    Jobs,      \* finalize jobs that may exist at the same time
    MaxFaults  \* bound: thrown errors, crashes, lost replies and failed deletions

ASSUME JobsAssumption == Jobs # {}
ASSUME FaultsAssumption == MaxFaults \in Nat

VARIABLES
    at,          \* where the attempt of each job stands
    released,    \* the workflow is RELEASED (before that, RELEASE_PENDING and locked)
    session,     \* status of the release secret session
    packageKept, \* the snapshotted package is still the ACTIVE one
    publication, \* the row of publications exists
    staging,     \* the decrypted archive is in the staging namespace
    public,      \* the archive is in the public namespace
    leftover,    \* a temporary file of storage.put, which no put knows any more, is in staging
    littered,    \* some deletion of the staging object or of a temporary file failed
    died,        \* history: a worker died that had plaintext in staging to clean up
    faults       \* faults so far

remains == <<leftover, died>>
objects == <<staging, public, littered, remains>>
rows == <<released, session, packageKept, publication>>
vars == <<at, rows, objects, faults>>

\* Nothing to do, in the queue, and the await points of the handler
Resting == {"NONE", "QUEUED"}
Writing == {"WRITE", "UNLINK"}
BeforeCommit == {"DECRYPT", "INSPECT", "COMMIT"} \cup Writing
AfterCommit == {"PROMOTE", "COPY", "DELETE_SOURCE", "FINALIZE"}
Running == BeforeCommit \cup AfterCommit \cup {"CLEANUP"}

\* An attempt there owns plaintext that only its own steps remove.
Exposed == Writing \cup {"INSPECT", "COMMIT", "CLEANUP"}

TypeOK ==
    /\ at \in [Jobs -> Resting \cup Running]
    /\ released \in BOOLEAN
    /\ session \in {"ACTIVE", "CONSUMED"}
    /\ packageKept \in BOOLEAN
    /\ publication \in BOOLEAN
    /\ staging \in BOOLEAN
    /\ public \in BOOLEAN
    /\ leftover \in BOOLEAN
    /\ littered \in BOOLEAN
    /\ died \in BOOLEAN
    /\ faults \in 0..MaxFaults

\* advanceRelease has locked the workflow and booked the first job.
Init ==
    /\ \E j \in Jobs : at = [k \in Jobs |-> IF k = j THEN "QUEUED" ELSE "NONE"]
    /\ released = FALSE
    /\ session = "ACTIVE"
    /\ packageKept = TRUE
    /\ publication = FALSE
    /\ staging = FALSE
    /\ public = FALSE
    /\ leftover = FALSE
    /\ littered = FALSE
    /\ died = FALSE
    /\ faults = 0

Goto(j, from, to) == at[j] = from /\ at' = [at EXCEPT ![j] = to]

Fault == faults < MaxFaults /\ faults' = faults + 1

\* assertWorkflowAndPackage, and the session checked next to it
Publishable == ~released /\ packageKept /\ session = "ACTIVE"

\* The staging object is gone, or its deletion failed and nobody hears of it.
StagingDeleted ==
    /\ \/ staging' = FALSE /\ UNCHANGED <<littered, faults>>
       \/ Fault /\ littered' = TRUE /\ UNCHANGED staging
    /\ UNCHANGED remains

-----------------------------------------------------------------------------
(* The jobs *)

\* reconcileDueDeadlines
BookJob(j) ==
    /\ ~released
    /\ Goto(j, "NONE", "QUEUED")
    /\ UNCHANGED <<rows, objects, faults>>

\* Mutant: a committed publication is taken for a finished one.
BeginCommittedIsDone(j) ==
    /\ IF publication
       THEN Goto(j, "QUEUED", "NONE")
       ELSE Publishable /\ Goto(j, "QUEUED", "DECRYPT")
    /\ UNCHANGED <<rows, objects, faults>>

\* First transaction.  A committed publication is only promoted and finalized;
\* a workflow that is not publishable makes the attempt throw, here before the
\* handler owns anything, and the job stays queued.
Begin(j) ==
    /\ IF publication
       THEN Goto(j, "QUEUED", "PROMOTE")
       ELSE Publishable /\ Goto(j, "QUEUED", "DECRYPT")
    /\ UNCHANGED <<rows, objects, faults>>

\* storage.put: the decrypted archive is streamed into a temporary file of the
\* staging namespace, under a random name ...
Decrypt(j) ==
    /\ Goto(j, "DECRYPT", "WRITE")
    /\ UNCHANGED <<rows, objects, faults>>

\* ... which is linked to the staging key of the workflow; a staging object with
\* the same content is kept as it is ...
LinkStaged(j) ==
    /\ Goto(j, "WRITE", "UNLINK")
    /\ staging' = TRUE
    /\ UNCHANGED <<rows, public, littered, remains, faults>>

\* ... and unlinked.
UnlinkTemporary(j) ==
    /\ Goto(j, "UNLINK", "INSPECT")
    /\ UNCHANGED <<rows, objects, faults>>

\* The staged archive is read again, its will extracted and rendered.
Inspect(j) ==
    /\ staging
    /\ Goto(j, "INSPECT", "COMMIT")
    /\ UNCHANGED <<rows, objects, faults>>

\* Another attempt has deleted it meanwhile.
InspectMissing(j) ==
    /\ ~staging
    /\ Goto(j, "INSPECT", "CLEANUP")
    /\ UNCHANGED <<rows, objects, faults>>

\* Mutant: the workflow is released with the row.
CommitReleases(j) ==
    /\ \/ publication \/ Publishable
    /\ Goto(j, "COMMIT", "PROMOTE")
    /\ publication' = TRUE
    /\ released' = TRUE
    /\ UNCHANGED <<session, packageKept, objects, faults>>

\* The commit transaction: the publication row is inserted unless it is there.
Commit(j) ==
    /\ \/ publication \/ Publishable
    /\ Goto(j, "COMMIT", "PROMOTE")
    /\ publication' = TRUE
    /\ UNCHANGED <<released, session, packageKept, objects, faults>>

\* The package was superseded since the first transaction: the handler throws.
CommitRefused(j) ==
    /\ ~publication /\ ~Publishable
    /\ Goto(j, "COMMIT", "CLEANUP")
    /\ UNCHANGED <<rows, objects, faults>>

\* The database commits but its reply is lost: to the handler the transaction
\* has failed, and databaseCommitted stays false.
CommitReplyLost(j) ==
    /\ \/ publication \/ Publishable
    /\ Goto(j, "COMMIT", "CLEANUP")
    /\ publication' = TRUE
    /\ Fault
    /\ UNCHANGED <<released, session, packageKept, objects>>

\* Mutant: the handler ends without going through `finally'.
CleanupSkipped(j) ==
    /\ Goto(j, "CLEANUP", "NONE")
    /\ UNCHANGED <<rows, objects, faults>>

\* `finally' of an attempt that did not see its commit succeed.
Cleanup(j) ==
    /\ Goto(j, "CLEANUP", "QUEUED")
    /\ StagingDeleted
    /\ UNCHANGED <<rows, public>>

\* promoteCommittedPublication
Promote(j) ==
    /\ \/ /\ public
          /\ Goto(j, "PROMOTE", "FINALIZE")
          /\ StagingDeleted
       \/ /\ ~public /\ staging
          /\ Goto(j, "PROMOTE", "COPY")
          /\ UNCHANGED <<staging, littered, remains, faults>>
       \/ /\ ~public /\ ~staging
          /\ Goto(j, "PROMOTE", "QUEUED")
          /\ UNCHANGED <<staging, littered, remains, faults>>
    /\ UNCHANGED <<rows, public>>

\* storage.promote: the copy, which fails when the source has gone ...
Copy(j) ==
    /\ \/ staging /\ Goto(j, "COPY", "DELETE_SOURCE") /\ public' = TRUE
       \/ ~staging /\ Goto(j, "COPY", "QUEUED") /\ UNCHANGED public
    /\ UNCHANGED <<rows, staging, littered, remains, faults>>

\* ... and then the deletion of the source; if that throws, the job is retried.
DeleteSource(j) ==
    /\ Goto(j, "DELETE_SOURCE", "FINALIZE")
    /\ staging' = FALSE
    /\ UNCHANGED <<rows, public, littered, remains, faults>>

\* finalizeCommittedPublication; ALREADY_PUBLISHED when another attempt was first
Finalize(j) ==
    /\ Goto(j, "FINALIZE", "NONE")
    /\ released' = TRUE
    /\ session' = "CONSUMED"
    /\ UNCHANGED <<packageKept, publication, objects, faults>>

\* `finally' of storage.put: its temporary file is removed, or nobody hears that
\* this failed.
TemporaryRemoved ==
    /\ UNCHANGED <<leftover, littered>> \/ (leftover' = TRUE /\ littered' = TRUE)
    /\ UNCHANGED <<staging, public, died>>

\* An error thrown at an await point: storage or database outage, a
\* serialization failure, a failed integrity check.
Throw(j) ==
    /\ Fault
    /\ \/ /\ at[j] \in Writing
          /\ at' = [at EXCEPT ![j] = "CLEANUP"]
          /\ TemporaryRemoved
       \/ /\ at[j] \in BeforeCommit \ Writing
          /\ at' = [at EXCEPT ![j] = "CLEANUP"]
          /\ UNCHANGED objects
       \/ /\ at[j] \in AfterCommit
          /\ at' = [at EXCEPT ![j] = "QUEUED"]
          /\ UNCHANGED objects
    /\ UNCHANGED rows

\* The worker dies: no `finally' runs, neither that of the handler nor that of a
\* put, whose temporary file has a name nobody will find again.
Crash(j) ==
    /\ Fault
    /\ at[j] \in Running
    /\ at' = [at EXCEPT ![j] = "QUEUED"]
    /\ leftover' = (leftover \/ at[j] \in Writing)
    /\ died' = (died \/ at[j] \in Exposed)
    /\ UNCHANGED <<rows, staging, public, littered>>

\* activatePackage, which consults no workflow, makes another package ACTIVE.
SupersedePackage ==
    /\ packageKept
    /\ packageKept' = FALSE
    /\ UNCHANGED <<at, released, session, publication, objects, faults>>

-----------------------------------------------------------------------------

Attempt(j) ==
    \/ Begin(j) \/ Decrypt(j) \/ LinkStaged(j) \/ UnlinkTemporary(j)
    \/ Inspect(j) \/ InspectMissing(j)
    \/ Commit(j) \/ CommitRefused(j) \/ Cleanup(j)
    \/ Promote(j) \/ Copy(j) \/ DeleteSource(j) \/ Finalize(j)

Next ==
    \/ \E j \in Jobs :
          \/ BookJob(j) \/ Attempt(j)
          \/ CommitReplyLost(j) \/ Throw(j) \/ Crash(j)
    \/ SupersedePackage

Spec == Init /\ [][Next]_vars

\* A queued job is delivered and a running attempt goes on.  Two attempts could
\* delete the staging object of each other for ever, each time between the link
\* and the reading; the retry delays of the queue and the minute between two
\* scans keep them from doing so, hence SF.
LiveSpec ==
    /\ Spec
    /\ \A j \in Jobs :
          /\ WF_vars(Attempt(j))
          /\ SF_vars(UnlinkTemporary(j) /\ staging)
          /\ SF_vars(Inspect(j))

-----------------------------------------------------------------------------
(* Properties *)

\* Whichever attempt does what: nothing is public before the publication row is
\* committed, a released workflow has its public object, and its key is gone
\* exactly then, so that every retry before the release can use it
\* (finalize-publication.ts:173-281, 640-786).
ReleasedIsServed ==
    /\ public => publication
    /\ released => publication /\ public
    /\ session = "CONSUMED" <=> released

\* The job has nothing left to do, or every delivery of it will throw at once: the
\* package was superseded before the commit.
AtRest(j) == at[j] = "NONE" \/ (at[j] = "QUEUED" /\ ~publication /\ ~Publishable)

\* Once every job is done the staging object is gone, whichever attempt threw or
\* died, unless the store refused to delete it; and once no attempt can do anything
\* more, after a refusal as after a release, neither the object nor a temporary
\* file is left, unless a worker died that had them to remove: what such a worker
\* leaves, nobody else looks for (finalize-publication.ts:760-786,
\* filesystem-storage.ts:107-156).
NoPlaintextLeft ==
    /\ (\A j \in Jobs : at[j] = "NONE") /\ ~littered => ~staging
    /\ (\A j \in Jobs : AtRest(j)) /\ ~littered /\ ~died => ~staging /\ ~leftover

\* The two ways a locked workflow is stuck for good: the publication row is
\* committed and both objects are gone, or the snapshotted package was
\* superseded before the commit.
Lost == publication /\ ~staging /\ ~public
Superseded == ~publication /\ ~packageKept

\* Errors and crashes at any step, in any number of attempts at once, delay the
\* release but do not prevent it, the two cases above apart.
ReleasedUnlessStuck == <>(released \/ Lost \/ Superseded)

=============================================================================
