-------------------------- MODULE PasswordRecovery --------------------------
(***************************************************************************)
(* Recovery of a forgotten owner password: a link mailed to the owner's    *)
(* primary address starts a workflow, a majority of the contacts approves  *)
(* it by submitting key fragments, the server rebuilds the vault key and   *)
(* mails a second link with a code, both together buy one rewrap session,  *)
(* and the rewrap session sets the new password.                           *)
(*                                                                         *)
(* Every action is one transaction of packages/application/src/recovery.   *)
(* The mail with the reset link is booked by the API after the transaction *)
(* that makes the link has committed: until then it is in `unsent', and an *)
(* API process that dies takes it along.  Shares that fail verification,   *)
(* wrong passwords and unknown tokens change nothing: they are no actions. *)
(*                                                                         *)
(* An expires_at column is the time left until it, `left', which runs down *)
(* to 0 and stays there: nothing in this code compares two instants with   *)
(* each other, all are compared with the database clock.  Of a link, a     *)
(* challenge or a session that is used up it is 0 at once.                 *)
(***************************************************************************)
EXTENDS Integers, FiniteSets

CONSTANTS
    Contacts,      \* roster every recovery snapshots; it is locked meanwhile
    LinkLife,      \* validity of a start link, one day
    Window,        \* validity of a recovery, seven days
    ChallengeLife, \* validity of reset link and code, ten minutes
    SessionLife,   \* validity of a rewrap session, fifteen minutes
    MaxAttempts,   \* wrong codes that lock the challenge, five
    MaxLinks,      \* bound: start links the owner asks for
    MaxRecoveries, \* bound: recoveries that may be started
    MaxGivenUp     \* bound: expiry jobs the queue gives up

\* workflows.contact_count_snapshot is at least one.
ASSUME RosterAssumption == IsFiniteSet(Contacts) /\ Contacts # {}
ASSUME TimesAssumption ==
    /\ LinkLife \in Nat
    /\ Window \in Nat
    /\ ChallengeLife \in Nat
    /\ SessionLife \in Nat
    /\ MaxAttempts \in Nat \ {0}
    /\ MaxLinks \in Nat
    /\ MaxRecoveries \in Nat
    /\ MaxGivenUp \in Nat

VARIABLES
    death,     \* TRUE while a DEATH_CONFIRMATION workflow is active
    links,     \* one_time_tokens with purpose ADMIN_RECOVERY_START
    rows,      \* workflows with kind PASSWORD_RECOVERY
    fragments, \* workflow_key_fragments with purpose RECOVERY: status
    secret,    \* recovery_secret_sessions: status
    challenge, \* ADMIN_PASSWORD_RESET token and email_verification_code
    rewrap,    \* password_rewrap_sessions
    held,      \* recoveries whose reset session token reached the browser
    unsent,    \* recoveries whose reset mail an API process has yet to book
    mailed,    \* recoveries whose reset mail is booked
    jobs,      \* RECOVERY_EXPIRE jobs not yet done
    scanned,   \* idempotency keys the deadline scanner has used
    givenUp,   \* how many jobs the queue has given up
    credential \* owner_credentials.version

materialVars == <<fragments, secret, challenge, rewrap>>
mailVars == <<unsent, mailed>>
jobVars == <<jobs, scanned, givenUp>>
vars == <<death, links, rows, materialVars, held, mailVars, jobVars, credential>>

Links == 1..MaxLinks
Recoveries == 1..MaxRecoveries
ActiveStates == {"AWAITING_APPROVALS", "REWRAP_PENDING"}
States == ActiveStates \cup {"NONE", "COMPLETED", "CANCELLED", "EXPIRED"}

Row == [state : States, left : Nat, approvals : SUBSET Contacts]
Link == [status : {"NONE", "LIVE", "CONSUMED"}, left : Nat]
Challenge == [token : {"NONE", "LIVE", "CONSUMED", "REVOKED"},
              code : {"NONE", "LIVE", "CONSUMED", "LOCKED"},
              attempts : 0..MaxAttempts, left : Nat]
Rewrap == [status : {"NONE", "ACTIVE", "CONSUMED", "DESTROYED"}, left : Nat]

StartJob(w) == <<"PASSWORD_RECOVERY_STARTED", w>>
ScanJob(w) == <<"RECOVERY_EXPIRE_REQUESTED", w>>
Jobs == {StartJob(w) : w \in Recoveries} \cup {ScanJob(w) : w \in Recoveries}

\* workflows.version: every approval updates the row once
Version(w) == Cardinality(rows[w].approvals)
ScanKey(w) == <<w, Version(w)>>

TypeOK ==
    /\ death \in BOOLEAN
    /\ links \in [Links -> Link]
    /\ rows \in [Recoveries -> Row]
    /\ fragments \in [Recoveries -> [Contacts -> {"NONE", "VALIDATED", "DESTROYED"}]]
    /\ secret \in [Recoveries -> {"NONE", "ACTIVE", "DESTROYED"}]
    /\ challenge \in [Recoveries -> Challenge]
    /\ rewrap \in [Recoveries -> Rewrap]
    /\ held \in SUBSET Recoveries
    /\ unsent \in SUBSET Recoveries
    /\ mailed \in SUBSET Recoveries
    /\ jobs \in SUBSET Jobs
    /\ scanned \in SUBSET (Recoveries \X Nat)
    /\ givenUp \in 0..MaxGivenUp
    /\ credential \in Nat

Init ==
    /\ death = FALSE
    /\ links = [l \in Links |-> [status |-> "NONE", left |-> 0]]
    /\ rows = [w \in Recoveries |-> [state |-> "NONE", left |-> 0, approvals |-> {}]]
    /\ fragments = [w \in Recoveries |-> [c \in Contacts |-> "NONE"]]
    /\ secret = [w \in Recoveries |-> "NONE"]
    /\ challenge = [w \in Recoveries |->
                        [token |-> "NONE", code |-> "NONE", attempts |-> 0, left |-> 0]]
    /\ rewrap = [w \in Recoveries |-> [status |-> "NONE", left |-> 0]]
    /\ held = {}
    /\ unsent = {}
    /\ mailed = {}
    /\ jobs = {}
    /\ scanned = {}
    /\ givenUp = 0
    /\ credential = 0

-----------------------------------------------------------------------------
(* Helpers *)

Active(w) == rows[w].state \in ActiveStates
NoActiveRecovery == \A w \in Recoveries : ~Active(w)

\* thresholds: Math.floor(contactCount / 2) + 1
Required == Cardinality(Contacts) \div 2 + 1

\* A reset link and its code that were not used lose their force.
Revoked(ch) ==
    [token |-> IF ch.token = "LIVE" THEN "REVOKED" ELSE ch.token,
     code |-> IF ch.code = "LIVE" THEN "LOCKED" ELSE ch.code,
     attempts |-> ch.attempts,
     left |-> 0]

\* Mutant: material is destroyed only while approvals are gathered.
DestroyedUnlessRebuilt(w) ==
    /\ fragments' = [fragments EXCEPT ![w] = [c \in Contacts |->
                        IF @[c] = "VALIDATED" THEN "DESTROYED" ELSE @[c]]]
    /\ UNCHANGED <<secret, challenge, rewrap>>

\* destroyRecoveryArtifacts
Destroyed(w) ==
    /\ fragments' = [fragments EXCEPT ![w] = [c \in Contacts |->
                        IF @[c] = "VALIDATED" THEN "DESTROYED" ELSE @[c]]]
    /\ secret' = [secret EXCEPT ![w] = IF @ = "ACTIVE" THEN "DESTROYED" ELSE @]
    /\ rewrap' = [rewrap EXCEPT ![w] =
                    [status |-> IF @.status = "ACTIVE" THEN "DESTROYED" ELSE @.status,
                     left |-> 0]]
    /\ challenge' = [challenge EXCEPT ![w] = Revoked(@)]

\* An active recovery ends: its material is destroyed, its row is closed.
Ended(w, s) ==
    /\ Active(w)
    /\ Destroyed(w)
    /\ rows' = [rows EXCEPT ![w].state = s]

\* cancelActiveRecovery: cancels the active recovery, if there is one.
CancelActiveRecovery ==
    \/ \E w \in Recoveries : Ended(w, "CANCELLED")
    \/ NoActiveRecovery /\ UNCHANGED <<rows, materialVars>>

-----------------------------------------------------------------------------
(* The owner's mailbox *)

\* requestRecovery: while a workflow is active nothing happens; earlier
\* links stay valid.  A link whose mail is lost is one nobody clicks.
RequestRecovery(l) ==
    /\ NoActiveRecovery
    /\ ~death
    /\ links[l].status = "NONE"
    /\ \A k \in 1..(l - 1) : links[k].status # "NONE"
    /\ links' = [links EXCEPT ![l] = [status |-> "LIVE", left |-> LinkLife]]
    /\ UNCHANGED <<death, rows, materialVars, held, mailVars, jobVars, credential>>

LinkValid(l) == links[l].status = "LIVE" /\ links[l].left > 0

\* startRecovery: snapshots the roster, books the expiry, consumes the link.
\* While a recovery is active it answers with that one and changes nothing.
StartRecovery(l, w) ==
    /\ LinkValid(l)
    /\ NoActiveRecovery
    /\ ~death
    /\ rows[w].state = "NONE"
    /\ \A v \in 1..(w - 1) : rows[v].state # "NONE"
    /\ rows' = [rows EXCEPT ![w] = [state |-> "AWAITING_APPROVALS",
                                    left |-> Window, approvals |-> {}]]
    /\ links' = [links EXCEPT ![l] = [status |-> "CONSUMED", left |-> 0]]
    /\ jobs' = jobs \cup {StartJob(w)}
    /\ UNCHANGED <<death, materialVars, held, mailVars, scanned, givenUp, credential>>

-----------------------------------------------------------------------------
(* The contacts *)

\* Mutant: the deadline is left to the expiry job.
CanApproveUntilExpired(w, c) ==
    /\ rows[w].state = "AWAITING_APPROVALS"
    /\ c \notin rows[w].approvals

CanApprove(w, c) ==
    /\ rows[w].state = "AWAITING_APPROVALS"
    /\ rows[w].left > 0
    /\ c \notin rows[w].approvals

\* The approval being made is the last one needed.
QuorumReached(w) == Version(w) + 1 >= Required

\* approveRecovery below the threshold
ApproveRecovery(w, c) ==
    /\ CanApprove(w, c)
    /\ ~QuorumReached(w)
    /\ fragments' = [fragments EXCEPT ![w][c] = "VALIDATED"]
    /\ rows' = [rows EXCEPT ![w].approvals = @ \cup {c}]
    /\ UNCHANGED <<death, links, secret, challenge, rewrap, held, mailVars, jobVars, credential>>

\* approveRecovery at the threshold: the vault key is rebuilt and staged, the
\* fragments are destroyed, the reset challenge is made.
ReachQuorum(w, c) ==
    /\ CanApprove(w, c)
    /\ QuorumReached(w)
    /\ secret[w] = "NONE"
    /\ fragments' = [fragments EXCEPT ![w] = [d \in Contacts |->
                        IF @[d] = "NONE" /\ d # c THEN "NONE" ELSE "DESTROYED"]]
    /\ secret' = [secret EXCEPT ![w] = "ACTIVE"]
    /\ rows' = [rows EXCEPT ![w].state = "REWRAP_PENDING", ![w].approvals = @ \cup {c}]
    /\ challenge' = [challenge EXCEPT ![w] =
                        [token |-> "LIVE", code |-> "LIVE", attempts |-> 0,
                         left |-> ChallengeLife]]
    /\ unsent' = unsent \cup {w}
    /\ UNCHANGED <<death, links, rewrap, held, mailed, jobVars, credential>>

-----------------------------------------------------------------------------
(* The owner sets a new password *)

\* RecoveryNotifications.ownerReset: the API books the mail behind the commit.
BookResetMail(w) ==
    /\ w \in unsent
    /\ unsent' = unsent \ {w}
    /\ mailed' = mailed \cup {w}
    /\ UNCHANGED <<death, links, rows, materialVars, held, jobVars, credential>>

\* The API process dies between the commit and the mail that follows it.
CrashApi ==
    /\ unsent # {}
    /\ unsent' = {}
    /\ UNCHANGED <<death, links, rows, materialVars, held, mailed, jobVars, credential>>

\* Mutant: a locked code is still compared.
ChallengeUnlocked(w) ==
    /\ w \in mailed
    /\ challenge[w].token = "LIVE"
    /\ challenge[w].left > 0
    /\ rows[w].state = "REWRAP_PENDING"
    /\ challenge[w].code \in {"LIVE", "LOCKED"}

\* The mailed link and its code can be tried.
ChallengeOpen(w) ==
    /\ w \in mailed
    /\ challenge[w].token = "LIVE"
    /\ challenge[w].left > 0
    /\ rows[w].state = "REWRAP_PENDING"
    /\ challenge[w].code = "LIVE"

\* createRewrapSession with a wrong code
TryWrongCode(w) ==
    /\ ChallengeOpen(w)
    /\ challenge' = [challenge EXCEPT
                        ![w].attempts = @ + 1,
                        ![w].code = IF challenge[w].attempts + 1 >= MaxAttempts
                                    THEN "LOCKED" ELSE @]
    /\ UNCHANGED <<death, links, rows, fragments, secret, rewrap, held,
                   mailVars, jobVars, credential>>

\* createRewrapSession: link and code are consumed, the vault key is sealed for
\* the browser; the answer may be lost on its way.
CreateRewrapSession(w) ==
    /\ ChallengeOpen(w)
    /\ secret[w] = "ACTIVE"
    /\ rows[w].left > 0
    /\ rewrap[w].status = "NONE"
    /\ rewrap' = [rewrap EXCEPT ![w] = [status |-> "ACTIVE", left |-> SessionLife]]
    /\ challenge' = [challenge EXCEPT ![w] =
                        [token |-> "CONSUMED", code |-> "CONSUMED",
                         attempts |-> @.attempts, left |-> 0]]
    /\ \/ held' = held \cup {w}
       \/ UNCHANGED held
    /\ UNCHANGED <<death, links, rows, fragments, secret, mailVars, jobVars, credential>>

\* The rewrap session, its workflow and the staged key are all usable.
Completable(w) ==
    /\ w \in held
    /\ rows[w].state = "REWRAP_PENDING"
    /\ secret[w] = "ACTIVE"
    /\ rewrap[w].status = "ACTIVE"
    /\ rewrap[w].left > 0

\* completePasswordReset; the row's own expiry is not looked at.
CompletePasswordReset(w) ==
    /\ Completable(w)
    /\ credential' = credential + 1
    /\ fragments' = [fragments EXCEPT ![w] = [c \in Contacts |->
                        IF @[c] = "VALIDATED" THEN "DESTROYED" ELSE @[c]]]
    /\ secret' = [secret EXCEPT ![w] = "DESTROYED"]
    /\ rewrap' = [rewrap EXCEPT ![w] = [status |-> "CONSUMED", left |-> 0]]
    /\ challenge' = [challenge EXCEPT ![w] = Revoked(@)]
    /\ rows' = [rows EXCEPT ![w].state = "COMPLETED"]
    /\ UNCHANGED <<death, links, held, mailVars, jobVars>>

-----------------------------------------------------------------------------
(* Whatever ends a recovery *)

\* loginOwner and checkInOwner: the old password cancels a recovery, and the
\* death workflow if there is one.
AuthenticateOwner ==
    /\ ~NoActiveRecovery \/ death
    /\ CancelActiveRecovery
    /\ death' = FALSE
    /\ UNCHANGED <<links, held, mailVars, jobVars, credential>>

\* startDeathWorkflowInTransaction: death confirmation has priority.
StartDeathWorkflow ==
    /\ ~death
    /\ CancelActiveRecovery
    /\ death' = TRUE
    /\ UNCHANGED <<links, held, mailVars, jobVars, credential>>

\* expireRecovery ends the recovery of a due job; the queue may deliver the job
\* again afterwards.
ExpireRecovery(j, w) ==
    /\ j \in jobs \cap {StartJob(w), ScanJob(w)}
    /\ rows[w].left = 0
    /\ Ended(w, "EXPIRED")
    /\ jobs' \in {jobs, jobs \ {j}}
    /\ UNCHANGED <<death, links, held, mailVars, scanned, givenUp, credential>>

\* expireRecovery of a workflow that has ended: CLOSED
ExpireRecoveryClosed(j, w) ==
    /\ j \in jobs \cap {StartJob(w), ScanJob(w)}
    /\ rows[w].left = 0
    /\ ~Active(w)
    /\ jobs' = jobs \ {j}
    /\ UNCHANGED <<death, links, rows, materialVars, held, mailVars, scanned, givenUp, credential>>

\* The queue gives a due job up after its last retry.
GiveUp(j, w) ==
    /\ j \in jobs \cap {StartJob(w), ScanJob(w)}
    /\ rows[w].left = 0
    /\ givenUp < MaxGivenUp
    /\ jobs' = jobs \ {j}
    /\ givenUp' = givenUp + 1
    /\ UNCHANGED <<death, links, rows, materialVars, held, mailVars, scanned, credential>>

\* Mutant: the scanner knows the first state only.
OverdueAwaiting(w) == rows[w].state = "AWAITING_APPROVALS" /\ rows[w].left = 0

Overdue(w) == Active(w) /\ rows[w].left = 0

\* reconcileDueDeadlines, its statement on recoveries
ReconcileRecoveries(w) ==
    /\ Overdue(w)
    /\ ScanKey(w) \notin scanned
    /\ jobs' = jobs \cup {ScanJob(w)}
    /\ scanned' = scanned \cup {ScanKey(w)}
    /\ UNCHANGED <<death, links, rows, materialVars, held, mailVars, givenUp, credential>>

Elapsed(n) == IF n > 0 THEN n - 1 ELSE 0

\* Time passes.
Tick ==
    /\ links' = [l \in Links |-> [links[l] EXCEPT !.left = Elapsed(@)]]
    /\ rows' = [w \in Recoveries |-> [rows[w] EXCEPT !.left = Elapsed(@)]]
    /\ challenge' = [w \in Recoveries |-> [challenge[w] EXCEPT !.left = Elapsed(@)]]
    /\ rewrap' = [w \in Recoveries |-> [rewrap[w] EXCEPT !.left = Elapsed(@)]]
    /\ UNCHANGED <<death, fragments, secret, held, mailVars, jobVars, credential>>

-----------------------------------------------------------------------------
Next ==
    \/ \E l \in Links : RequestRecovery(l)
    \/ \E l \in Links, w \in Recoveries : StartRecovery(l, w)
    \/ \E w \in Recoveries, c \in Contacts : ApproveRecovery(w, c) \/ ReachQuorum(w, c)
    \/ \E w \in Recoveries :
            \/ BookResetMail(w)
            \/ TryWrongCode(w)
            \/ CreateRewrapSession(w)
            \/ CompletePasswordReset(w)
            \/ ReconcileRecoveries(w)
    \/ CrashApi
    \/ AuthenticateOwner
    \/ StartDeathWorkflow
    \/ \E j \in Jobs, w \in Recoveries :
            ExpireRecovery(j, w) \/ ExpireRecoveryClosed(j, w) \/ GiveUp(j, w)
    \/ Tick

Spec == Init /\ [][Next]_vars

(* The clock runs, the worker serves its queue, the scanner runs every 30  *)
(* seconds.  Nobody has to act: not the owner, not a contact, and the API   *)
(* need not live to book its mails.                                        *)
Fairness ==
    /\ WF_vars(Tick)
    /\ \A w \in Recoveries :
            /\ WF_vars(\E j \in Jobs : ExpireRecovery(j, w) \/ ExpireRecoveryClosed(j, w))
            /\ WF_vars(ReconcileRecoveries(w))

LiveSpec == Spec /\ Fairness

-----------------------------------------------------------------------------
(* Properties *)

\* A reset link is of use only with everything before it: a majority of the
\* roster, the mail to the primary address, its link and its code, and fewer
\* wrong codes than lock it; and a password is set only through such a
\* session (createRewrapSession, completePasswordReset).
ResetNeedsQuorumAndMail ==
    \A w \in Recoveries :
        /\ rewrap[w].status # "NONE" =>
                /\ Cardinality(rows[w].approvals) >= Required
                /\ w \in mailed
                /\ challenge[w].token = "CONSUMED"
                /\ challenge[w].code = "CONSUMED"
                /\ challenge[w].attempts < MaxAttempts
        /\ rows[w].state = "COMPLETED" => rewrap[w].status = "CONSUMED"

\* Fragments wait only while approvals are gathered; the staged key, the reset
\* link, its code and the rewrap session are usable only between quorum and
\* the end, whatever the end is (approveRecovery, destroyRecoveryArtifacts).
KeyMaterialOnlyWhileOpen ==
    \A w \in Recoveries :
        /\ rows[w].state # "AWAITING_APPROVALS" =>
                \A c \in Contacts : fragments[w][c] # "VALIDATED"
        /\ rows[w].state # "REWRAP_PENDING" =>
                /\ secret[w] # "ACTIVE"
                /\ rewrap[w].status # "ACTIVE"
                /\ challenge[w].token # "LIVE"
                /\ challenge[w].code # "LIVE"

\* At most one formal workflow: one recovery at a time, and none next to a
\* death confirmation (startRecovery, startDeathWorkflowInTransaction).
OneRecovery ==
    /\ \A v, w \in Recoveries : Active(v) /\ Active(w) => v = w
    /\ death => NoActiveRecovery

=============================================================================
