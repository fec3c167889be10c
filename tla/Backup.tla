-------------------------------- MODULE Backup --------------------------------
(***************************************************************************)
(* The backup of the vault (ops/scripts/backup.sh) against the handlers of *)
(* module PackageUpload: the script stops the services, takes inventory,   *)
(* dump and objects one after the other, and starts them again.  A medium  *)
(* holds the packages' rows and objects; the checks on it are those of     *)
(* backup-manifest.ts, database-inventory.ts and reconcile-storage.ts.     *)
(*                                                                         *)
(* Digests and sizes belong to an object for good: an object that is there *)
(* is the right one.  Nothing keeps two scripts, or a deploy.sh, from      *)
(* running at once.  One that starts the services disturbs the backup      *)
(* under way, which goes on all the same: the rest of its artefacts is of  *)
(* later moments, with the handlers between them.                          *)
(***************************************************************************)
EXTENDS PackageUploadRefinement

CONSTANT
    Disturbers  \* bound: requests that may be at work while a script is

ASSUME DisturbersAssumption == Disturbers \subseteq Requests

VARIABLES
    up,     \* the services caddy, web, api and worker are running
    backup  \* what the script is at and what it has written so far

backupVars == <<up, backup>>
allVars == <<vars, backupVars>>

NoBackup ==
    [step |-> "IDLE", driver |-> "filesystem", stopped |-> FALSE,
     rows |-> <<>>, copied |-> {}, dump |-> <<>>, archive |-> {}, manifest |-> {},
     disturbed |-> FALSE]  \* history: the services were started meanwhile

BackupInit ==
    /\ Init
    /\ up = TRUE
    /\ backup = NoBackup

-----------------------------------------------------------------------------
(* What the tools demand of rows and objects *)

Objects == {<<"staging", p>> : p \in staging} \cup {<<"private", p>> : p \in private}

\* The object that each row stands for, by its status.
Referenced(rs) ==
    {<<"staging", p>> : p \in {q \in Packages : rs[q] \in {"UPLOADING", "READY"}}}
    \cup {<<"private", p>> : p \in {q \in Packages : rs[q] \in {"ACTIVE", "SUPERSEDED"}}}

\* reconcileStorageReferences: every reference of the database has its object.
Reconciles(rs, objects) == Referenced(rs) \subseteq objects

\* restore.sh: the rows of the dump and the objects of the archive, nothing else.
Restored(medium) == [rows |-> medium.dump, objects |-> medium.archive]

VerifyDatabaseObjectReferences(medium) == Reconciles(medium.rows, medium.manifest)

VerifyRestoredObjects(medium, objects) == objects = medium.manifest

CompareDatabaseInventories(expected, actual) == expected = actual

\* verify-restore.sh on a system restored from the medium.
RestoreVerifies(medium) ==
    /\ VerifyRestoredObjects(medium, Restored(medium).objects)
    /\ VerifyDatabaseObjectReferences(medium)
    /\ CompareDatabaseInventories(medium.rows, Restored(medium).rows)

-----------------------------------------------------------------------------
(* The steps of backup.sh *)

\* Mutant: the proxy and the web server are stopped, the handlers go on.
ProxyStopped == up

\* docker compose stop: requests end where they are.
ServicesStopped == FALSE

\* Whatever runs of caddy, web, api and worker is stopped.
Quiesce ==
    /\ backup.step = "IDLE"
    /\ \E d \in {"filesystem", "s3"} :
           backup' = [NoBackup EXCEPT !.step = "QUIESCED", !.driver = d, !.stopped = up]
    /\ up' = ServicesStopped
    /\ requests' = [r \in Requests |-> Idle]
    /\ UNCHANGED <<rows, store, jobs, overlapped, faults>>

\* database-inventory.sql.
TakeInventory ==
    /\ backup.step = "QUIESCED"
    /\ backup' = [backup EXCEPT !.step = "INVENTORIED", !.rows = status]
    /\ UNCHANGED <<vars, up>>

\* storageInventory; the filesystem driver has no need of copies.
Copies == IF backup.driver = "s3" THEN Referenced(backup.rows) ELSE {}

\* Throws at the first object that the store does not have.
MigrateStorageInventory(rs) == Referenced(rs) \subseteq Objects

\* materialize-s3-backup.ts, which ends the script when it throws.
Materialize ==
    /\ backup.step = "INVENTORIED"
    /\ backup.driver = "s3" => MigrateStorageInventory(backup.rows)
    /\ backup' = [backup EXCEPT !.step = "COPIED", !.copied = Copies]
    /\ UNCHANGED <<vars, up>>

\* The directory that archive and manifest are made of, and the files below it.
BackupObjectRoot == IF backup.driver = "s3" THEN backup.copied ELSE Objects

InventoryObjects == BackupObjectRoot

Dump ==
    /\ backup.step = "COPIED"
    /\ backup' = [backup EXCEPT !.step = "DUMPED", !.dump = status]
    /\ UNCHANGED <<vars, up>>

Archive ==
    /\ backup.step = "DUMPED"
    /\ backup' = [backup EXCEPT !.step = "ARCHIVED", !.archive = BackupObjectRoot]
    /\ UNCHANGED <<vars, up>>

CreateManifest ==
    /\ backup.step = "ARCHIVED"
    /\ backup' = [backup EXCEPT !.step = "LISTED", !.manifest = InventoryObjects]
    /\ UNCHANGED <<vars, up>>

\* The last check before the script reports success.
VerifyReferences ==
    /\ backup.step = "LISTED"
    /\ VerifyDatabaseObjectReferences(backup)
    /\ backup' = [backup EXCEPT !.step = "COMPLETE"]
    /\ UNCHANGED <<vars, up>>

\* The trap, after success or any failing step, starts what the script stopped.
CleanUp ==
    /\ backup.step # "IDLE"
    /\ backup' = NoBackup
    /\ up' = (up \/ backup.stopped)
    /\ UNCHANGED vars

\* The host crashes, or the trap cannot start the services, which it ignores.
LoseScript ==
    /\ backup.step # "IDLE"
    /\ backup' = NoBackup
    /\ UNCHANGED <<vars, up>>

\* deploy.sh, the trap of another backup.sh, or an operator; the script under way
\* does not see it.
StartServices ==
    /\ ~up
    /\ up' = TRUE
    /\ backup' = [backup EXCEPT !.disturbed = backup.step # "IDLE"]
    /\ UNCHANGED vars

Serving == up /\ UNCHANGED backupVars

\* Requests that may be at work now: all of them between two scripts, and those of
\* the bound under a script whose services somebody has started.
Served == IF backup.step = "IDLE" THEN Requests ELSE Disturbers

\* Next, while the services run.
ServicesStep ==
    \/ \E p \in Packages : Serving /\ CreateUploadSession(p)
    \/ \E p \in Packages : Serving /\ DeleteObject(p)
    \/ Serving /\ Reshare
    \/ Serving /\ CrashApi
    \/ \E r \in Served, p \in Packages : Serving /\ BeginStream(r, p)
    \/ \E r \in Served, p \in Packages : Serving /\ BeginComplete(r, p)
    \/ \E r \in Served, p \in Packages : Serving /\ BeginAbort(r, p)
    \/ \E r \in Served, p \in Packages : Serving /\ BeginActivate(r, p)
    \/ \E r \in Served : Serving /\ PutObject(r)
    \/ \E r \in Served : Serving /\ FailPut(r)
    \/ \E r \in Served : Serving /\ RecordUpload(r)
    \/ \E r \in Served : Serving /\ VerifyStaged(r)
    \/ \E r \in Served : Serving /\ MakeReady(r)
    \/ \E r \in Served : Serving /\ AbortRow(r)
    \/ \E r \in Served : Serving /\ CleanupStaging(r)
    \/ \E r \in Served : Serving /\ CleanupLater(r)
    \/ \E r \in Served : Serving /\ CopyObject(r)
    \/ \E r \in Served : Serving /\ DropStaged(r)
    \/ \E r \in Served : Serving /\ SwitchPackage(r)
    \/ \E r \in Served : Serving /\ RefuseSwitch(r)
    \/ \E r \in Served : Serving /\ LoseSwitch(r)
    \/ \E r \in Served : Serving /\ ReadAfterFailure(r)
    \/ \E r \in Served : Serving /\ UndoPromotion(r)
    \/ \E r \in Served : Serving /\ LoseRequest(r)

ScriptStep ==
    \/ TakeInventory
    \/ Materialize
    \/ Dump
    \/ Archive
    \/ CreateManifest
    \/ VerifyReferences

BackupNext ==
    \/ ServicesStep
    \/ Quiesce
    \/ ScriptStep
    \/ CleanUp
    \/ LoseScript
    \/ StartServices

BackupSpec == BackupInit /\ [][BackupNext]_allVars

\* The script comes to its end, somebody starts stopped services, and between two
\* backups the worker gets round to a deletion that stays queued.
BackupLiveSpec ==
    /\ BackupSpec
    /\ WF_allVars(ScriptStep)
    /\ WF_allVars(CleanUp)
    /\ WF_allVars(StartServices)
    /\ \A p \in Packages : SF_allVars(Serving /\ DeleteObject(p))

-----------------------------------------------------------------------------
(* Properties *)

\* A backup that reports success is accepted by verify-restore.sh: inventory, dump,
\* archive and manifest were taken one after the other and still are of one moment.
\* The exception is a backup during which somebody started the services: it may
\* report success over artefacts of several moments (backup.sh:92-124).  Of any
\* backup, also of such a one, only what passes the reconciliation that deploy.sh
\* ends with is accepted by verify-restore.sh.
CompleteBackupRestores ==
    backup.step = "COMPLETE" =>
        /\ RestoreVerifies(backup) \/ backup.disturbed
        /\ RestoreVerifies(backup) => Reconciles(Restored(backup).rows, Restored(backup).objects)

=============================================================================
