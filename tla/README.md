# Digital Legacy System: TLA+ models, checks and proofs

The Digital Legacy System keeps an encrypted archive (the *legacy*) for one owner. The owner checks
in by logging in. When check-ins stop for a number of days, emergency contacts are asked; when
enough of them say that the owner has probably died, and a day of grace passes without an objection,
the archive is decrypted and published. This directory models that dead man's switch, and what it
rests on, from the TypeScript (and some Rust, SQL and shell) sources, checks the models with TLC and
proves their invariants with TLAPS.

Paths below are relative to the repository root; `app/` stands for `packages/application/src/` and
`persistence/` for `packages/persistence/src/`.

## 1. Inventory

The system is an API server, a worker and a web client over one PostgreSQL database and one
object store (file system or S3). Handlers live in `packages/application`. Nearly all of them are one
database transaction; they run concurrently in API requests and worker jobs, and talk to each other
only through rows, through the outbox (rows that the dispatcher turns into queue jobs every second),
and through the deadline scanner, which looks at the rows every 30 seconds.

| Component | State | Hard behaviour | Correct when | Module |
|---|---|---|---|---|
| Check-in schedule (`app/owner`, `app/workflows/evaluate-checkin.ts`) | `checkin_schedules` (version, deadline, status), `check_ins` | late evaluation jobs, same-day check-ins, settings against evaluation, midnight | the switch fires when armed and overdue, and only then | `DeathWorkflow` |
| Death workflow (`app/workflows`) | `workflows`, `workflow_contact_actions`, `workflow_key_fragments`, `release_secret_sessions` | owner, contacts and worker race for one workflow; duplicated and late jobs | no release without quorum, a lapse of recorded check-ins and a day of grace; whatever records a check-in before the lock wins; key material ends with its use | `DeathWorkflow` |
| Publication (`app/publication`) | `publications`, staging and public objects | no transaction spans database and store; a crash at any await; several attempts at once | a release is served, nothing is public early, no plaintext stays but what a dying worker or a refused deletion leaves | `Publication` |
| Password recovery (`app/recovery`) | `workflows` of kind `PASSWORD_RECOVERY`, tokens, codes, recovery and rewrap sessions | links, codes and sessions that expire; a mail booked after the commit; a rival death workflow | quorum and mailbox before a reset, once; every recovery ends | `PasswordRecovery` |
| Contacts, key shares, setup (`app/contacts`, `app/shares`, `app/setup`) | `emergency_contacts`, invitations, `share_generations`, `contact_key_shares`, `setup_state` | several browser tabs, repeated uploads, contacts who come and go between two generations | the count that workflows compare decides the roster; one dealing per generation | `ContactRoster` |
| Vault and packages (`app/vault`) | `legacy_packages`, staging and private objects | promotion before the transaction, lost replies, compensation, crashes | one ACTIVE package whose object exists | `PackageUpload` |
| Key material (`packages/crypto`, `packages/vss-wasm`, pages of `apps/web`) | envelopes in `vaults`, contacts, shares, fragments, sessions, packages; keys mounted in API and worker | computed in browsers, stored by a server that cannot read it; passwords, dealings, rotations and open pages overtake each other | owner, quorum and server can open what they hold | `KeyChain`, `Envelopes`, `VerifiableSharing`, `SealedStream` |
| Sessions and passwords (`app/auth`, logins, password changes) | `auth_sessions`, password hashes | statements outside of transactions, a second connection inside of one, sessions prolonged while they are revoked | a changed password ends old sessions; limits hold | `Accounts` |
| Audit chain (`persistence/audit`, `apps/api/src/audit`) | `audit.private_events`, `audit.public_events` | a sequence that no rollback gives back, snapshots older than the chain's lock | each event continues the one before | `AuditChain`, `Accounts` |
| Rate limits (`apps/api/src/security`) | buckets in memory or PostgreSQL | the edge of a window, several buckets per request | both limiters decide alike | `RateLimits` |
| Outbox and queue (`persistence/jobs`) | `domain_outbox`, pg-boss jobs | publishing and its commit are separate | an event booked is never lost | `Delivery` |
| Notifications (`app/notifications`, `apps/worker/src/jobs/notification-*`) | `notifications` | claims that run out, retries, lost SMTP answers | every retry is booked, every duplicate explained | `Delivery` |
| Deadline scanner (`persistence/jobs/deadline-reconciliation.ts`) | idempotency keys in the outbox | one key per version | no deadline is forgotten | `DeathWorkflow`, `PasswordRecovery`, `Publication` |
| Domain policies (`packages/domain`) | none: pure reducers | tested, but called by no handler | the handlers do what the reducers say | `DomainReducers` |
| Simulation of test mode (`app/simulation`, `apps/api/src/simulation`) | `simulation.scenarios`, `clock_state`, `idempotency_results` | read, decide and save in separate statements; reset and creation under one id | concurrent commands do not undo each other | `Simulation` |
| Object storage (`packages/storage`) | objects in three namespaces | promotion is copy, verify, delete | a promotion never loses the object | steps in `Publication`, `PackageUpload`, `Backup` |
| Operations (`ops/scripts`) | dump, object archive and manifest on a medium | four artefacts taken one after the other; services started in between; the script dies | a backup that reports success restores, unless services were started in between: then it reports success all the same | `Backup` |
| Worker, transactions | - | redelivery, expiry, lost commit replies | a handler is atomic | actions of all modules |
| Publication queries, API plumbing, user interface | - | - | - | not modelled, section 7 |

How they meet. `evaluateCheckin` turns an overdue schedule `TRIGGERED`, cancels a password recovery
and inserts a workflow with a snapshot of contacts and share generation. `affirmDeath` stores a key
fragment and books a fragment job; the job validates the fragment in one transaction and records the
decision in another. At the threshold the key is rebuilt into a release session and an advance job is
booked for 24 hours later. That job takes the publish lock and books the finalize job, which
publishes. At any time before the lock a login, a check-in, an explicit cancellation or the word of
one contact cancels the workflow and reschedules. A password reset checks in as well; share
activation and package activation change what the workflow has snapshotted. Each of these events is
mailed through outbox, queue and notifications, and each transaction extends the audit chain. The key
material that all this moves about is made in browsers and only wrapped, verified, rebuilt and
destroyed by the server.

## 2. How the models are composed

1. `DeathWorkflow`, `DeathWorkflowProperties`: schedule and death workflow, with the steps by which
   recovery, roster and publication meet them. `ReleasePromise` is what the switch promises,
   `DeathWorkflowRefinement` the mapping of the one to the other, `DeathWorkflowReducers` the
   comparison of the handlers with the reducers in `DomainReducers`.
2. `Publication`: the last job of a locked workflow, await by await. `DeathWorkflow` contains its final
   transaction only.
3. `PasswordRecovery` with `RecoveryPromise`, `PasswordRecoveryRefinement` and
   `PasswordRecoveryReducers`: the whole recovery. `DeathWorkflow` has its three effects
   (`StartRecovery`, `CompletePasswordReset`, `ExpireRecovery`); `PasswordRecovery` has the two effects
   of the other side (`AuthenticateOwner`, `StartDeathWorkflow`).
4. `Delivery` with `MailPromise`: what `DeathWorkflow` assumes of its jobs (at least once), for the
   longest chain there is, from an event to a mail.
5. `ContactRoster` with `RosterPromise`: the steps of `RosterPromise` are those of the owner that
   `DeathWorkflow` counts with.
6. `PackageUpload` with `PackagePromise`: what `Publication` assumes of the package. `Backup` EXTENDS it
   (through `PackageUploadRefinement`) with the script that copies database and objects while requests
   are cut off.
7. `KeyChain` over `Envelopes`: the others treat key material as a token that is there or not; this one
   asks whether it still opens. `VerifiableSharing` and `SealedStream` are the algorithms behind two of
   the envelopes; `MCKeyChain` checks that they do what `Envelopes` says of them.
8. `Accounts` over `AuditChain`, at the grain of statements: what the one-action transactions of the
   other modules stand on. `RateLimits` is in front of all requests.
9. `Simulation`.

Proofs are in `<Module>Proofs`, those of `Publication` and `Simulation` in `ReleaseProofs`. `MC<Module>` names model values and holds the bounded checks of pure
operators as named `ASSUME`s. Definitions marked `Mutant` are slips a programmer could have made; they
are not part of any specification.

## 3. Modules and the code

### DeathWorkflow

One action is one transaction. Every transaction that touches a workflow locks its row (`FOR UPDATE`)
and rereads it. Where the code is two transactions, the model is two actions
(`ProcessSubmittedFragment`, then `RecordConfirmation` or `ReachThreshold`); where the isolation levels
of two handlers leave a check unprotected the check and the write are two actions as well
(`CheckRemoval`, `RemoveContact`: the removal is serializable and reads its snapshot before Argon2
verifies the password, while the evaluation runs at read committed and locks only rows the removal has
yet to write).

| Variable | Code |
|---|---|
| `now` | database clock; a tick is `1/DAY` of a day |
| `schedule`, `lastCheckIn` | row of `checkin_schedules` and the check-in it names |
| `sessionUntil`, `setupState` | absolute expiry of the owner's newest session; `owner_profile.setup_state` |
| `contacts`, `generation`, `removing` | ACTIVE contacts; ACTIVE share generation; removals between check and write |
| `recovery` | a `PASSWORD_RECOVERY` workflow is active |
| `workflows`, `actions`, `fragments`, `session` | `workflows`, `workflow_contact_actions`, `workflow_key_fragments`, `release_secret_sessions` |
| `jobs` | outbox rows and queue jobs that are not done, with `available_at` |
| `scanned` | idempotency keys spent by the deadline scanner |

| Actions | Code |
|---|---|
| `StartDeathWorkflow`, `EvaluateCheckinClosed`, `EvaluateCheckinExhausted` | `app/workflows/evaluate-checkin.ts`, `start-death-workflow.ts` |
| `AffirmDeath` | `affirm-death.ts`, `submit-fragment.ts` |
| `ProcessSubmittedFragment(Exhausted)`, `RecordConfirmation`, `ReachThreshold`, `FragmentJobClosed` | `submit-fragment.ts`, `process-release-fragment.ts` |
| `ConfirmAlive`, `CancelDeathWorkflow`, `LoginOwner`, `CheckInOwner` | `confirm-alive.ts`, `cancel-death-workflow.ts`, `login-owner.ts`, `check-in.ts`, `cancel-active-death-workflow.ts` |
| `UpdateOwnerSettings`, `ChangeOwnerPassword`, `ArmOwner` | `update-settings.ts`, `change-owner-password.ts`, `arm-owner.ts` |
| `CheckRemoval`, `RemoveContact`, `ActivateShareGeneration` | `remove-contact.ts`, `activate-generation.ts` |
| `StartRecovery`, `CompletePasswordReset`, `ExpireRecovery` | `app/recovery` |
| `AdvanceRelease(Closed)`, `FinalizePublication(Closed)` | `advance-release.ts`, last transaction of `finalize-publication.ts` |
| `ReconcileCheckins`, `ReconcileReleases` | `deadline-reconciliation.ts` |

A job stays or leaves when its handler commits (`Done`), which covers a worker that dies behind the
commit, a dispatcher that publishes twice and a queue that expires a running job. A job that ends
without effect may simply go: delivering it again would do nothing either. The retry limit of the
queue shows only where every attempt must fail (`...Exhausted`). Abstractions: keys and shares are
gone, the verification of a share is a choice between VALIDATED and REJECTED (`KeyChain` decides it);
one generation has one roster; an invitation is the set `added` of a new activation; reminders, mails,
audit rows, tokens and request idempotency are left out; the 30-minute idle expiry of a session is
covered by the actions not being taken.

### DomainReducers, DeathWorkflowReducers, PasswordRecoveryReducers

`packages/domain/src/workflows` holds pure reducers with an extensive test suite, and no handler calls
them: the handlers update rows in SQL. `DomainReducers` translates each command as a relation between
two states and an instant; a refusal is the absence of a successor. `FollowsReducers` (one for each kind
of workflow) says that whatever a transaction does to a row is a command of the reducer, an unchanged
row, or the start of a workflow. It names the exceptions it needs: `LateCancellation` (the switch can
still be stopped between `release_at` and the lock) and `LateEnd` (a recovery can still be completed or
cancelled between `expires_at` and its expiry job). The row has no grace period and the reducer's delay
is in whole days: the last confirmation is the two commands CONFIRM_DEATH and BEGIN_RELEASE at once.

### Publication

One locked workflow. `at` is the await point of each attempt, an action is what happens between two
awaits: the first transaction (`Begin`), staging (`Decrypt`, `LinkStaged`, `UnlinkTemporary`), reading it again (`Inspect`), the commit
transaction (`Commit`, `CommitRefused`, `CommitReplyLost`), `promoteCommittedPublication` (`Promote`,
`Copy`, `DeleteSource`), `finalizeCommittedPublication` (`Finalize`) and `finally` (`Cleanup`). `Throw`
and `Crash` happen at any await. Staging is `storage.put`, which streams the plaintext into a temporary
file of the staging namespace, under a random name, links it to the staging key and unlinks it; its own
`finally` removes the file after an error (`TemporaryRemoved`), but not after a crash. `leftover` says that
such a file remains, `died` that a worker died while it had plaintext to remove. An S3 store differs in the
place of the temporary object only. The temporary copy of a promotion belongs to the public namespace and is
not modelled: what it holds is already committed to publication. The content of archives is one value: staging keys are derived from
the workflow and public keys from the digest, and the store verifies digests.

### PasswordRecovery

One action is one transaction of `app/recovery`. A column `expires_at` is the time `left` until it; no
code compares two instants with each other. The roster is not empty, as the database demands
(`contact_count_snapshot >= 1` in `migrations/004_workflows_sessions.up.sql`).

| Variable | Code |
|---|---|
| `death` | a `DEATH_CONFIRMATION` workflow is active |
| `links` | `one_time_tokens` with purpose `ADMIN_RECOVERY_START` |
| `rows`, `fragments`, `secret`, `challenge`, `rewrap` | the workflow, its key fragments, `recovery_secret_sessions`, reset token with its code, `password_rewrap_sessions` |
| `held`, `unsent`, `mailed` | reset session token in the browser; reset mails an API process has yet to book, and those booked |
| `jobs`, `scanned`, `givenUp` | `RECOVERY_EXPIRE` jobs, the scanner's keys, jobs the queue gave up |
| `credential` | `owner_credentials.version` |

| Actions | Code |
|---|---|
| `RequestRecovery`, `StartRecovery` | `request-recovery.ts`, `start-recovery.ts` |
| `ApproveRecovery`, `ReachQuorum` | `approve-recovery.ts`, without and with the rebuilding of the key |
| `BookResetMail`, `CrashApi` | `recovery.runtime.ts` and `recovery-notifications.ts` of the API, after the commit |
| `TryWrongCode`, `CreateRewrapSession`, `CompletePasswordReset` | `create-rewrap-session.ts`, `complete-password-reset.ts` |
| `AuthenticateOwner`, `StartDeathWorkflow` | `cancelActiveRecovery` from `login-owner.ts` and `start-death-workflow.ts` |
| `ExpireRecovery(Closed)`, `GiveUp`, `ReconcileRecoveries` | `expire-recovery.ts`, the queue's retry limit, `deadline-reconciliation.ts` |

### Delivery

One event and its mails, over outbox rows, queue and workers.

| Variable | Code |
|---|---|
| `rows`, `locked`, `handed` | `domain_outbox`; rows a batch has locked, and of these the ones it has handed to pg-boss |
| `queue` | how often pg-boss will still deliver a job |
| `notes` | `notifications`: status, attempts, version, time left of claim or delay |
| `handlers` | deliver jobs between their two transactions |
| `stale` | the aggregate the event is about has moved on |
| `copies`, `excuses`, `faults` | history: mails accepted by a server; lost answers and claims taken over; faults |

| Actions | Code |
|---|---|
| `BookEvent`, `MoveOn` | `pg-outbox.ts`; whatever changes the aggregate's version |
| `SelectBatch`, `PublishRow`, `CommitBatch`, `RollbackBatch` | `outbox-dispatcher.ts` `dispatchBatch`: one transaction, with an effect on the queue outside it |
| `Materialize`, `MaterializeStale` | `notification-materialize.handler.ts` |
| `SkipDelivery`, `ClaimNotification`, `SendMail`, `RecordOutcome`, `FailRendering`, `RecordNothing`, `FailDelivery` | `deliver-notification.ts`: first transaction, SMTP (primary, then backup address) or a snapshot that cannot be rendered, second transaction |

### ContactRoster

| Variable | Code |
|---|---|
| `status`, `usable` | `emergency_contacts.status`; invitations whose link works |
| `generations`, `active` | `share_generations` with their `contact_key_shares`; `vaults.active_share_generation_id` |
| `tabs` | what each browser tab has read (`contact_set_version` still current) and drafted |
| `package`, `accepted`, `setupState` | an ACTIVE package exists; irreversibility accepted; `setup_state` |

Invitation, its expiry and repetition, acceptance and removal are actions per contact; reading the
vault material, creating, uploading and activating a generation are actions per tab; then the first
package and `ArmOwner`. Shares are known by their dealing: two dealings differ in polynomial and
commitment, and shares of different dealings combine to no key.

### PackageUpload and Backup

| Variable | Code |
|---|---|
| `status`, `generation`, `current` | `legacy_packages`; `vaults.active_share_generation_id` |
| `staging`, `private` | objects in the two namespaces |
| `requests` | the step each request is at, and whether what it has read of its row is still current (`version`) |
| `jobs` | `PACKAGE_OBJECT_DELETE` jobs |
| `overlapped`, `faults` | history: packages two requests were activating at once; failures |
| `up`, `backup` | (`Backup`) the services run; the step of `backup.sh` and what is on the medium |

Streaming, completion, abortion and activation are broken into their statements: `BeginStream`,
`PutObject`/`FailPut`, `RecordUpload`; `BeginComplete`, `VerifyStaged`, `MakeReady`; `BeginAbort`,
`AbortRow`, `CleanupStaging`/`CleanupLater`; `BeginActivate`, `CopyObject`, `DropStaged`,
`SwitchPackage`/`RefuseSwitch`/`LoseSwitch`, `ReadAfterFailure`, `UndoPromotion`. `LoseRequest` and
`CrashApi` end one request or all; `DeleteObject` is the worker's job.

`Backup` adds the commands of `ops/scripts/backup.sh`: `Quiesce` (stops proxy, web, API and worker,
which cuts every request), `TakeInventory`, `Materialize` (S3 only), `Dump`, `Archive`,
`CreateManifest`, `VerifyReferences`, and `CleanUp`, the trap at its end; `LoseScript` ends it anywhere
and `StartServices` is a `deploy.sh`, the trap of a second script or an administrator at any time. The
script does not notice that: it goes on, over rows and objects that requests change again, and `disturbed`
remembers it. The handlers of
`PackageUpload` run while the services are up (`ServicesStep`). `RestoreVerifies` is what
`verify-restore.sh` demands of a system restored from the medium. Digests belong to objects for good,
and publications' objects are left out. All four services are one switch.

### KeyChain, Envelopes, VerifiableSharing, SealedStream

Cryptography is symbolic: an envelope is the record of its content, its key and the context it is bound
to, and opens for exactly these. `None` is the failure of an operation and a NULL column, a record with
a field that nothing else has, so that it can be compared with anything. Keys of passwords, vault,
contacts, packages and of the deployment (ingress and stage, per purpose, in versions) are different by
their fields. What is modelled is which key, which context and which version each of the many places
puts in, and when.

| Variable | Code |
|---|---|
| `vault`, `contacts` | `owner_credentials` with the key columns of `vaults`; the same of each contact |
| `generation`, `draft`, `generations` | ACTIVE and latest PREPARING `share_generations` with their shares; how many there have been |
| `workflow`, `workflows`, `fragments`, `decided`, `session`, `rewrap` | the open formal workflow of either purpose, its fragments, decisions, secret and rewrap session |
| `pages` | version of the ingress key on the page each contact has open |
| `prepared`, `packages` | packages encrypted in a browser and not announced; `legacy_packages` |
| `deployed` | versions of the keys mounted in API and worker |

| Actions | Code |
|---|---|
| `CreateOwner`, `AcceptInvitation` | setup and invitation pages with `create-owner.ts`, `accept-invitation.ts` |
| `ChangeOwnerPassword`, `ChangeContactPassword` | the two pages and `crypto.worker.ts` with `change-owner-password.ts`, `change-contact-password.ts` |
| `CreateShareGeneration`, `UploadShareGeneration`, `ActivateShareGeneration` | `share-generation-flow.ts` with `app/shares` |
| `PreparePackage`, `CreateUploadSession`, `ActivatePackage` | `upload.worker.ts`, `package-upload-flow.ts` with `vault.runtime.ts`, `activate-package.ts` |
| `OpenPage`, `ConfirmDeath`, `ApproveRecovery` | pages of the contacts and `contact-fragment.ts` with `submit-fragment.ts`, `approve-recovery.ts` |
| `ValidateFragment`, `RecordConfirmation`, `FinalizePublication` | `process-release-fragment.handler.ts`, `process-release-fragment.ts`, `publication-finalize.handler.ts` |
| `ServeVaultKey`, `CompleteReset` | `create-rewrap-session.ts`, reset page, `complete-password-reset.ts` |
| `StartWorkflow`, `EndWorkflow` | the start, and any end, of a workflow |
| `RotateIngress`, `RotateStage` | `docs/operations/stage-key-capabilities.md` |

A browser reads the envelope it opens just before it submits; the page of a workflow and a prepared
package may be old. The server believes what it cannot check: `ownerEnvelopeProof` and `keyVerifier` are
stored and compared by nobody, so no guard of the model mentions them. Shares are named by their holder
instead of an index; there is one draft at a time; API and worker are deployed together, a rotation
follows the runbook (stage keys only when nothing is wrapped under the old one). The branch of
`change-contact-password` that takes a token in place of a session always refuses and is left out.

`VerifiableSharing` is the Rust crate over a small field and with known exponents, `SealedStream` the file
format frame by frame. TLC evaluates, for every polynomial, share, source and alteration of the small
instance: shares of a dealing combine to the secret (`QuorumCombines`), verification accepts a share for
its own dealing and context only (`SharesAreBound`), one share is compatible with every secret
(`OneShareSaysNothing`), wrong thresholds are refused (`ThresholdsAreChecked`), files come back
(`FilesComeBack`) and no frame added, removed, exchanged or taken from another file is delivered or
given a manifest (`FilesAreNotAltered`). A prefix is delivered before the end of the file is known
(`decrypt-stream.ts:125`); its callers wait for the manifest. Feldman verifiers hide the secret only
computationally, which a model with known exponents cannot say.

### Accounts, AuditChain, RateLimits

An action is a statement or a commit. A request takes a connection of the pool for each statement of
the session service (`Connection`), and keeps one during a transaction (`connected`); a row lock lasts
until the end of its transaction, and so does the lock of the audit chain. A serializable transaction sees the chain
as of its first statement (`snapshot`); the database refuses the second of two that read and extend the
end of the chain (`Refuse`).

| Variable | Code |
|---|---|
| `passwords` | the number of each account's password: hashes are equal for equal passwords |
| `sessions` | `auth_sessions`, in the order of insertion; `late`, `revived`, `issued` are history |
| `events`, `drawn` | `audit.private_events` and the last value of its sequence |
| `requests` | place, kind, account, password typed, connection, lock, snapshot, row to append, sessions to revoke |
| `spared` | history: changes and resets cut short before all old sessions were revoked |

| Actions | Code |
|---|---|
| `BeginAccess` | `login-owner.ts`, `login-contact.ts`, `complete-password-reset.ts` |
| `FindSession`, `Touch`, `FindAgain` | `session.guard.ts` and `SessionService.authenticate`, also inside `change-contact-password.ts` |
| `Connect`, `Lock`, `AppendEvent`, `Commit`, `Refuse` | `PgTransactionManager.run`, row lock and password, `PgAuditWriter.append`, the end of the transaction |
| `InsertSession`, `EnforceLimit`, `RevokeOne`, `Revoked` | `SessionService.create`: inside the transaction for the owner's login, after it for contacts and changes |
| `ListAll`, `RevokeOne`, `Revoked` | `SessionService.revokeAll`, after the commit of a change or reset |
| `Logout`, `Fail` | `SessionService.revoke`; a statement refused or the process gone, anywhere |

`credential_version` is stored with each session and compared by nobody, and a reset leaves it; it is
left out. `rotate` has no caller. Sessions created in the same instant are ordered by their UUIDs; the
model takes the order of insertion. Statements that would wait for a session row commute with the
revocation they wait for.

`AuditChain` also has the public chain, its projection, the verifier and the owner's pages, with hashes
that are the hashed event itself; `RateLimits` both limiters and the guard. They are pure and checked by
`ASSUME`s of `MCAccounts`: the publication's rows verify (`PublicRowsVerify`); manipulation is found but
for the last row (`ManipulationIsFound`) and a rewritten chain has another last hash
(`RewritingMovesTheLastHash`); the pages list every event once (`PagesListAll`); a gap is not forgiven
(`GapsAreNotForgiven`); both limiters agree (`LimitersAgree`); around the edge of a window 2 max - 1
requests may pass within a window's time, and no more (`NearlyTwiceTheLimit`); who waits as told passes
(`WaitingIsEnough`), and the guard tells the longest wait (`GuardWaitsForTheLater`).

### Simulation

One scenario id. `scenario` is the stored document with its clock row, `creations` the number of
times it has been created, `results` the keys with a stored result, `requests` what each request has
read and is at. `CreateSimulation`, `BeginAdvance`, `Lookup`, `BeginCommand`, `BeginReset`, `Save`,
`Remove`, `AppendAudit`, `WriteResult` are the statements of `app/simulation` against
`PostgresSimulationStore`; `Die` ends a request anywhere. Times are virtual hours. Pending mails and the
milestone shown as `state` are left out; a scenario's revision is bounded. `SimulationClock.set` has no
caller and is not modelled.

## 4. Runs

| Run | Bounds | Shows |
|---|---|---|
| `death_safety` | 2 contacts (thresholds of 1 and 2), days of 2 ticks, 6 ticks, 1 workflow, 2 generations, settings changed twice; 1.84 million states | quorum, no recorded check-in, backing of confirmations, key material, countdown, agreement with the reducers, over every interleaving of decisions, duplicates, owner, roster, recovery, lock and release |
| `death_live` | 2 contacts, 4 ticks, 1 workflow; 121,000 | the armed switch fires, fragments are settled, `ReleasePromise` is implemented |
| `publication_crashes` | 3 jobs, 3 faults; 160,000 | safety across crashes, plaintext removed, release unless stuck |
| `recovery` | 3 contacts, 2 links, 2 recoveries, life of link 1, recovery 2, challenge 1, session 2, 2 wrong codes, 1 job given up; 914,000 | reset needs quorum and mail; material ends; agreement with the reducer; `RecoveryPromise` is implemented, its liveness included |
| `delivery` | 1 recipient with a backup address, 1 dispatcher, 2 workers, lease 1, delay 1, 3 attempts, 2 faults; 378,000 | no event and no retry is lost, duplicates explained, `MailPromise`, mails settle |
| `roster` | 4 contacts, 2 tabs, 2 dealings, between 2 and 3 contacts, 2 generations; 644,000 | count decides roster, one dealing, `RosterPromise` |
| `uploads` | 2 packages, 2 requests, 2 generations, 3 faults, backups of both drivers at any time; 1.00 million | ACTIVE is stored, superseded is deleted, `PackagePromise`; a complete backup verifies unless it was disturbed, and what verifies reconciles |
| `keychain` | 3 contacts, 2 passwords, 2 packages, 1 workflow, 2 disturbances (password changes, dealings, packages, rotations); 97,000 | owner, quorum and server open what they hold; secret sharing and file format before the run |
| `accounts` | owner and 1 contact, 2 requests, pool of 2, limit 1, idle 1, absolute 2, 3 starts, 2 ticks, 1 fault; 2.29 million | old sessions end, limits hold, the chain continues, one way to get stuck; audit verifier and rate limits before the run |
| `simulation` | 3 contacts, 2 requests, 2 creations, starting hours 0 and 100, 3 milestones, revisions up to 5; 4.57 million | commands one by one; a release is due |
| `doc_scanner`, `doc_mail_task` | as above or smaller | violated statements of a comment and a document, section 6 |

Why the bounds are enough. With two contacts a death workflow has thresholds of one or two, every order of
confirmation, withdrawal and rejection among two people, and a contact who comes or goes; larger rosters
and a second workflow after a first are covered by the theorems of section 5, which hold for any number of
either. Six half-day ticks cover check-in, missed day, workflow, grace and lock, with two instants in one
day, so that same-day check-ins are seen. Three publication attempts and three faults contain each pair of
attempts with a third arriving late. Two recoveries and two links let a second link meet an open recovery
and a second recovery follow an ended one; lives of one or two ticks put every expiry before and after every
step that depends on it; the second wrong code locks, as the fifth does. Two workers and a lease of one tick
let a claim run out under its first sender; two faults allow a fault in the repair of another. Four contacts
and a maximum of three let a new contact replace a removed one, so that counts agree while people differ.
Two requests overlap in any way two can; activations by more than two requests differ only in who fails. `Disturbers`
bounds the requests that work while a script does: with none, the services started under a backup are the
worker, new upload sessions and re-sharing, which change rows and objects between two artefacts as well; the
theorems hold for any `Disturbers`. Two
disturbances of the key chain are one while something is half done and one more before it is finished: a
password change between page and submission, a dealing or rotation under an open workflow. In `accounts`,
with a limit of one and a pool of two, every second login exceeds the limit and two transactions fill the
pool; three starts are a password change or reset between two logins of the other request; a session goes
idle, is revived, or reaches its end within two ticks. In `simulation` the second start lies between
milestones of the first, so that stale documents pass and fail the comparison of clocks. Recipients are
independent rows in `Delivery`.

`Symmetry` is used in runs without liveness only; no action or property distinguishes contacts or
requests. Deadlock is checked for `DeathWorkflow` and `PasswordRecovery`. The other systems may really
stop (all jobs done, all packages settled, bounds used up), so `CHECK_DEADLOCK FALSE` stands there;
`Accounts` also deadlocks on its pool; `StuckOnlyForSecondConnection` says exactly how, and `DeadlockCorrect`
proves it for pools of any size.

Every property of a passing run has a mutant: a plausible slip in the code, such as a version not
bumped or a lock not looked at, under which TLC finds it violated.

### Fairness

- `DeathWorkflow`: the clock runs; pg-boss delivers every job; the scanner runs every 30 seconds
  (`apps/worker/src/main.ts`); a request that has begun ends. So `Tick`, the worker's steps and
  `RemoveContact` are weakly fair; validation and recording of a fragment per workflow and contact,
  since each has a job of its own. Owner and contacts promise nothing.
- `Publication`: each attempt is weakly fair; `Inspect`, and `UnlinkTemporary` while the staging object is
  there, strongly: two attempts could delete each
  other's staging object for ever, each time between the link and the reading, and what keeps them from doing so is the growing retry delay of the
  queue against the minute between two bookings.
- `PasswordRecovery`: clock, expiry jobs and scanner. Nobody has to act, the API need not live to book
  its mail.
- `Delivery`: dispatcher (every second), materialization, the steps of a deliver handler and the clock
  weakly; that a job in the queue is taken strongly, because a worker that is busy now is free again
  and again.
- `PackageUpload` with `Backup`: the script goes on and cleans up, services that are down are started
  again (both weakly), and the worker's deletions happen, strongly, since backups interrupt the worker
  over and over. Requests are the owner's.
- `ContactRoster`, `KeyChain`, `Accounts`, `Simulation`: none.

Faults are bounded by `MaxFaults` and never fair.

## 5. Proofs

All theorems hold for every value of the constants that satisfies the named assumptions of the module
(finite sets of contacts or workers, positive minimum, days, lease and so on, natural bounds), hence for
any number of contacts, workers, requests, retries and faults. Each proof module has one lemma per group
of actions that the inductive invariant is preserved, with a step per action; the temporal step is the
last.

| Module | Theorems | Inductive invariant and why it is needed |
|---|---|---|
| `DeathWorkflowProofs` (decisions and keys) | `TypeCorrect`, `ReleaseCorrect`, `QuorumCorrect`, `BackedCorrect`, `SecretsCorrect`, `LockCorrect` | `ReleaseInv`. That a released workflow has a quorum is not inductive: the countdown starts in a transaction that looks at validated fragments and counts decisions, and others change either. `WorkflowInv` says for each state what decisions, fragments, stored count, session and lock may be; `RosterInv` carries the precondition of a removal under way |
| `DeathWorkflowProofs` (timeline) | `OneWorkflowCorrect`, `TriggeredCorrect`, `SilenceCorrect`, `OverdueCorrect`, `VersionCorrect`, `CountdownCorrect` | `TimelineInv`: the deadline is that of the last check-in; an unlocked workflow started at or after it; start, day of grace and lock follow in this order, and no check-in was recorded from start to lock (a change of the master password records none). All steps are sorted into few kinds (quiet, start, progress, end, ...) as far as clock and rows are concerned |
| `DeathWorkflowProofs` (jobs) | `FragmentsWatchedCorrect`, `EvaluationCorrect` | `FragmentsInv`: the generation a workflow was started under is never later than the one in force, and ids never come back, so that a fragment given up for its generation is not waited for again; otherwise its job is there while it is PENDING, and while it is VALIDATED and not recorded. `EvaluationInv`: the scanner has used no key of a version to come, so that every new schedule begins with an unused one, even one written without a job (`completePasswordReset`) |
| `DeathWorkflowProofs` (promise and reducers) | `SwitchKeepsPromise`, `SwitchFollowsReducers` | both invariants, with `SnapshotsInv`: the roster a workflow was started with is not empty and its threshold between one and its size, which the reducers demand of every snapshot |
| `ReleaseProofs` (publication) | `PublicationTypeCorrect`, `ReleasedServed`, `StagingEmptied` | `PublicationInv`: an attempt past its commit has the row, past its copy the public object; the staging object has an attempt that will still clean up, or a refused deletion; when no worker has died over plaintext, the object has an attempt that is certain to see to it (past the link, or with the publication's row to promote), and a temporary file that is left is a refused deletion. |
| `PasswordRecoveryProofs` | `RecoveryTypeCorrect`, `ResetCorrect`, `MaterialCorrect`, `OneRecoveryCorrect`, `ExpiryCorrect`, `RecoveryKeepsPromise`, `RecoveryFollowsReducers` | `RecoveryInv`: for each state of a recovery, its approvals, material, challenge and mail; a live challenge implies the quorum, a rewrap session its consumption. `ExpiryInv` counts: a recovery without the job of its start has cost one job given up, one without the scanner's another, and the scanner uses a key only when no approval can change the version any more |
| `ContactRosterProofs` | `RosterTypeCorrect`, `CountIsEnough`, `OneDealingCorrect`, `NewerGenerations`, `ImplementsRosterPromise` | `IInv`: generations without gaps, the one in force covers the roster, stored shares agree with the commitment, a current draft is newer than what is in force. Equal cardinality of a finite set and its superset then gives equality |
| `PackageUploadProofs` | `UploadTypeCorrect`, `ActiveStored`, `SupersededCorrect`, `ImplementsPackagePromise` | `IInv`: what each request may rely on in its next step (`Justified`), and that an activation that was not overlapped is alone with its package; therefore nobody promotes the object of a superseded package again, and its deletion, booked with the switch, stays booked until it is done |
| `PackageUploadProofs` (backup) | `CompleteBackupsRestore`, `BackupKeepsPackages` | for every step of the script, what is on the medium equals what the rows and objects still are, as long as the services are down and nobody has started them since the script stopped them (`MediumIsTrue`); what follows once they were started is no theorem, but reported in section 6; every step of `Backup` is one of `PackageUpload` or leaves its variables alone, so the theorems of the vault hold across backups |
| `KeyChainProofs` | `OwnerCanOpen`, `QuorumCanOpen`, `MaterialReadable`, `PackageOpens`, `QuorumReconstructsKey` | `IInv`: every stored piece of key material is exactly what an honest browser or server makes of the one vault key: `vault` is a `SetupRequest` for its present password, a dealt generation `DealtRow` of its roster, a fragment the submitted or staged share of its contact under some version. Each of the four properties is about the end of a chain (password, envelope, share, fragment, session); only the exact form of every link tells what the next one will contain. That stage keys are rotated only when nothing is wrapped under the old one enters for fragments and sessions |
| `AccountsProofs` | `AccountsTypeCorrect`, `ChainCorrect`, `LocksCorrect`, `LimitCorrect`, `OldSessionsCorrect`, `DeadlockCorrect` | `IInv`, of five parts. `TypeInv`: where a request of each kind may be and which row is its session's. `ChainInv`: the row a request carries continues the chain it could see when it read it, and one request at a time carries one. `LockInv`: one request at a time holds an account's lock, and the password it compared stays. `LimitInv` is the idea behind the limit: logins insert first, count later and end what they counted later still, so that the number of sessions alone is no invariant; but for every set of requests that have counted, what would be left if exactly those finished is within the limit. A new count adds itself and ends all but the youngest (`FewYounger`, by the well-founded order of rows). `OldInv`: a session older than a replaced password is still going to be found or ended by who replaced it, or is one of the exceptions. `PoolInv` counts the connections of the requests under way against the pool: who waits for a row waits for one who holds it and holds a connection, so that a wait in which nobody can go on ends at requests that need a second connection and finds the pool used up |
| `AccountsProofs` (chain and limits) | `LastHashDecidesChain`, `PublicAppendVerifies`, `RefusalIsExact`, `GuardLetsThrough` | about operators, hence without `Spec`: a chain the verifier accepts is decided by its last hash, row by row downwards (the hash is taken as collision-free); the limiters decide alike for every limit, bucket and second, and Retry-After of one bucket is exact to the second |
| `DeliveryProofs` | `DeliveryTypeCorrect`, `RetryBooked`, `EventMaterialized`, `DuplicatesExplained`, `ImplementsMailPromise` | `BooksInv` follows a job through outbox, batch and queue: a job of a later attempt is not heard of, a retry whose delay runs is in the outbox only, what was handed over stays until claimed. `CopiesInv` is a budget: copies, handlers that may still cause one, and the unclaimed notification together exceed one by no more than the excuses. `EventInv` does for the event's row what `BooksInv` does for jobs |
| `ReleaseProofs` (rehearsal) | `SimulationTypeCorrect`, `SimulatedReleaseDue`, `CommandsOneByOne` | `SimulationInv`: a document read in the current creation has a lower revision than the stored one or is the stored one; what is about to be saved was allowed on what was read |

`ReleaseProofs` extends both `Publication` and `Simulation`; that is why the latter's specification is
`SimulationSpec`, of `SimulationInit` and `SimulationNext`.

All theorems are about the specification without fairness; fairness only removes behaviours.
`ImplementsRosterPromise`, `ImplementsPackagePromise` and `ImplementsMailPromise` prove the whole
refinement: initial states map to initial states, every step to a step or a stutter. The promises of the
switch and of the recovery contain fairness; `SwitchKeepsPromise` and `RecoveryKeepsPromise` prove their
safety part (`Promise!Init /\ [][Promise!Next]_...`), and TLC checks the whole.

`LockCorrect`, `OneRecoveryCorrect` and `NewerGenerations` (no lock is lifted and no end undone, one
recovery, no step back to an earlier generation) are proved and not checked by a run of their own: the
runs that check the promises check them in other words. `OneWorkflowCorrect` and `VersionCorrect` likewise
speak for any number of workflows. `FragmentsWatchedCorrect`, `EvaluationCorrect`, `ExpiryCorrect`,
`SupersededCorrect` and `DeadlockCorrect` prove the safety half of what TLC checks with fairness or ENABLED:
`FragmentsAreProcessed`, `ArmedScheduleFires`, the end of every recovery, `SupersededIsDeleted` and
`StuckOnlyForSecondConnection`. What must happen has its job booked and nothing it waits for is missing, in
every reachable state and for every value of the constants; what is left to TLC is that a job which is there
is delivered. They say how much the code can bear: an evaluation is lost only when it comes due under one of
three conditions, a recovery stays open for ever only after the queue has given up two jobs. The jobs of
fragments and evaluations are not given up for want of a database or a store in these models; section 6
says what happens then.

Model-checked only: everything about liveness and fairness (`ArmedScheduleFires`,
`FragmentsAreProcessed`, `ReleasedUnlessStuck`, `EveryMailSettles`, `SupersededIsDeleted`, the fair part of
the promises of switch and recovery), which is out of the prover's reach, but for the safety halves above;
that a request which does not wait can go on, the other half of the equivalence with ENABLED in
`StuckOnlyForSecondConnection`; the `ASSUME`s about secret sharing, file format, pages and the results of
the audit verifier and the rate limits on examples, which are about folds over data.

## 6. Where code and documents differ

Shown by runs:

- `doc_scanner` (`persistence/jobs/deadline-reconciliation.ts:16-31`): the scanner's key contains the
  schedule version only. When the evaluation it booked ends as NOT_ARMED, or is given up, neither a job
  nor a key is left, and arming the system afterwards does not make an overdue schedule fire before the
  next check-in.
- `doc_mail_task` (`docs/05-security-privacy.md:36` promises that restarts lose no mail task): a deliver
  handler that fails after its claim has its job redelivered within the five minutes of the claim; the
  job ends as WAITING, and nothing looks for claims that have run out.

Seen while modelling, and part of the models although no run of their own shows them:

- Change of the master password. By PRD-AUTH-005 (`docs/01-product-requirements.md:122`; also
  `docs/04-api-design.md:1079`) it counts as a check-in, and by PRD-AUTH-007 (line 124) the right master
  password, given in `DEATH_CONFIRMING` or `RELEASE_PENDING`, cancels the process.
  `change-owner-password.ts:95-174` verifies the old password and does neither: it writes no check-in, no
  schedule and no workflow. So a workflow starts at the deadline of the last login although, counted from a
  later change, the owner is not overdue; and one that runs goes on over a change, which takes a session that
  earlier changes have kept alive since the last login, as a login would have cancelled. `ChangeOwnerPassword`
  of `DeathWorkflow` is like the code, and `ReleaseOnlyAfterSilence` and `StartOnlyWhenOverdue` therefore
  speak of recorded check-ins, not of every sign of life. Package activation (`activate-package.ts:30`) and
  the audit pages (`audit.runtime.ts:201`) verify the master password without cancelling as well.
- Temporary plaintext. By `docs/05-security-privacy.md:328` it is made public on success and deleted at once
  on failure. A worker that dies while `storage.put` streams the decrypted archive into `.<uuid>.uploading`,
  or before that file is unlinked (`filesystem-storage.ts:110-155`; `s3-storage.ts:146` is alike), leaves it
  in staging for good: no retry and no job knows its name, the release goes on, and the inventory passes
  `.uploading` files over (`packages/storage/src/cli/inventory.ts:63`). The staging object itself is found by
  the next attempt, except when the package was superseded meanwhile and every delivery throws before it
  comes that far. In `Publication` these are the states with `died`, which `NoPlaintextLeft` excepts.
- Disturbed backups. `backup.sh` stops the services once (line 90) and does not look at them again. When
  `deploy.sh`, the trap of a second script or an operator starts them while it is at work, rows and objects
  change between inventory, dump, archive and manifest; its last check (line 122) compares manifest and
  inventory only, so that it may print "Consistent backup completed" (line 124) over a dump that differs from
  its inventory, although `docs/operations/backup-restore.md:3` calls the backup consistent.
  `verify-restore.sh` refuses such a medium, which is late. In `Backup` these are the states with
  `disturbed`, which the first half of `CompleteBackupRestores` excepts.

- Backups. The object of a replaced package is deleted (`activate-package.ts:105`), but its SUPERSEDED
  row's object is demanded by `reconcile-storage.ts:36` and `:49`, `database-inventory.ts:120-128` and
  `materialize-s3-backup.ts:72-76`: from the first replacement on `backup.sh` fails at its last check,
  and so does the reconciliation `deploy.sh` ends with. `reconcile-storage.ts:36` also demands the private
  object of every ACTIVE package: of two overlapping activations of one package the failing one deletes
  the object it takes for unused just before the other commits.
- Audit. The chain's numbers come from a sequence that no rollback gives back, and a serializable
  transaction that waited for the chain's lock continues an older event than the last. The verifier
  (`audit-verifier.ts:39`) forgives neither: one login refused after its audit row makes
  `/audit/integrity` answer invalid for ever. `AuditChainContinues` and `GapsAreNotForgiven` say exactly
  when.
- Pool. `loginOwner` creates its session inside its transaction on a second connection
  (`login-owner.ts:162`), `changeContactPassword` authenticates inside of one
  (`change-contact-password.ts:68`). Eight such requests at a time wait for each other for good; no
  timeout is set.
- Rate limits. A request counts in the bucket of its account and in that of its address before either
  refuses, and Retry-After is the wait for the buckets that are exceeded now
  (`rate-limit.guard.ts:118-135`). When the refused request has used up the other bucket, a client that
  waits as told is refused again: `GuardMayRefuseAgain` shows it, and `GuardLetsThrough` that this is the
  only way.
- Sessions. Old sessions are revoked after the transaction of a password change; a process that dies in
  between leaves them, and `OldSessionsEnd` names this and three more ways in which a session of the old
  password may outlive it (`docs/03-database-design.md`, 9.1).
- Reducers. `packages/domain` refuses to cancel a release that is due and to complete or cancel a
  recovery whose time is up; the handlers do both (`LateCancellation`, `LateEnd`).
- Roster. `docs/04-api-design.md:477` wants the new shares in the request that removes a contact;
  `removeContact` leaves the system ARMED under the old generation, so that neither death workflow nor
  recovery can start until the key is shared anew (`RosterPromise` allows `Leave` while armed).
  PRD-CONTACT-008 (`docs/01-product-requirements.md:144`) locks roster and shares during a workflow:
  `removeContact` checks that on a snapshot a starting workflow does not invalidate, and
  `activateShareGeneration` not at all.
- Due release. `docs/03-database-design.md:781`: once `release_at` has passed, a login cannot override
  the release. `cancelActiveDeathWorkflow` looks at `publish_locked_at` only.
- Second phase. PRD-DEATH2-005 (`docs/01-product-requirements.md:168`) closes it to contacts;
  `confirmAlive` accepts `RELEASE_PENDING`.
- Staging. After a commit whose reply is lost `finally` deletes the staging object, and no retry can
  promote it, although the design
  (`docs/superpowers/specs/2026-08-04-complete-local-v1-design.md:111`) promises that; an ordinary error
  of one of two attempts has the same effect. `ReleasedUnlessStuck` names both ways to be stuck; the
  other is a package superseded before the commit.
- Recovery. The reset mail is booked after the transaction that makes its link
  (`approve-recovery.ts:495`; the same design, line 160, wants one transaction).
  `docs/04-api-design.md:822` invalidates start tokens after a reset; other start links stay live.
  `docs/04-api-design.md:736` re-sends the entry of an active recovery; `requestRecovery` returns
  silently.
- Keys. A page handed an ingress key before a rotation submits a fragment that the server accepts and
  the worker then refuses at every attempt (`process-release-fragment.handler.ts:89`); a contact submits
  one fragment per workflow (`submit-fragment.ts:251`), so that this contact's word is lost to it.
- Mails. Mails of a cancelled workflow that are already materialized are sent without looking again
  (the same design, line 166).
- Packages. `docs/06-page-specifications.md:148` keeps a new package after a refused activation; the
  refused activation may leave a READY package without any object. An aborted upload may leave its
  staging object when a stream was still running; a repeated stream that fails deletes the staged object
  of a READY package.
- Simulation. `docs/04-api-design.md:101` promises the first result for a repeated idempotency key; two
  requests that overlap, or a repetition after a crash between saving and writing the result, are
  answered differently, because the result is looked up and written in statements of its own
  (`advance-simulation.ts:112-164`). A request at work across a reset and a new creation may store the
  document of before the reset, since revisions begin at 0 again (`simulation.runtime.ts:119`); that is
  the exception in `EveryChangeIsACommand`. Audit ids begin anew as well, so that after a reset the
  audit of an advance is refused after the advance was saved.
- Jobs. A fragment job that outlives its eight attempts (`pg-boss-scheduler.ts:34`) is booked by nobody
  again; a password reset books no evaluation job and relies on the scanner.

## 7. Not modelled

- Primitives of cryptography (Argon2, XChaCha20-Poly1305, X25519, the group of the secret sharing): taken
  as perfect.
- API, web, contracts, templates: routing, validation, cookies and CSRF tokens, user interface,
  generated clients, mail texts. They keep no state of the switch; what pages compute and hold is in
  `KeyChain`, the session guard and the rate limits in `Accounts` and `RateLimits`.
- Operations other than the backup and what restore and deployment check of it: secrets backup,
  monitoring, compose files.
- Lock order: `loginOwner` locks owner, workflow and schedule, `evaluateCheckin` schedule and workflow;
  PostgreSQL aborts one of the two, which changes nothing and is repeated.
- Reading queries, reminders, the drain of the worker, multipart uploads and ranges of the object store,
  the SMTP test, request idempotency records other than those of the simulation.

Most of what is left of the source is user interface, generated client, request plumbing and operations
scripts, which is why the models stand for a minority of all lines. Bounds in `CONSTANTS` whose names
begin with `Max` have no counterpart in the code, except `MaxContacts`, `MaxAttempts` and
`MaxShareCount`; neither has `Disturbers`. `MaxFrame` is the code's frame size.
