---------------------------- MODULE DeathWorkflow ----------------------------
(***************************************************************************)
(* The dead man's switch of the Digital Legacy System: the check-in        *)
(* schedule of the owner, the death-confirmation workflow it triggers, the *)
(* decisions of the emergency contacts, the key fragments they submit, the *)
(* release countdown and the publish lock.                                 *)
(*                                                                         *)
(* Every action is one database transaction of packages/application (or    *)
(* one autocommitted statement of the deadline scanner).  Transactions     *)
(* that touch a workflow lock its row, so they are atomic here; a handler  *)
(* made of two transactions (processReleaseFragment) is two actions, and   *)
(* anything may happen between them; so is removeContact, whose guard other *)
(* transactions do not respect.                                            *)
(*                                                                         *)
(* A job is an outbox row together with the queue job it becomes: `at' is  *)
(* its available_at, and it is delivered at least once (see Done).         *)
(***************************************************************************)
EXTENDS Integers, FiniteSets

CONSTANTS
    Contacts,       \* the people the owner may have as emergency contacts
    MinContacts,    \* fewest ACTIVE contacts the owner may keep (3 in the code)
    DAY,            \* length of a day, in clock ticks
    Thresholds,     \* values of missedDaysThreshold the owner chooses from
    MaxTime,        \* bound: the clock stops here
    MaxWorkflows,   \* bound: death workflows that may be started
    MaxGenerations, \* bound: share generations that may be activated
    MaxSettings     \* bound: schedule version from which settings stay as they are

ASSUME ContactsAssumption == IsFiniteSet(Contacts)
ASSUME DayAssumption == DAY \in Nat \ {0}
ASSUME ThresholdsAssumption == Thresholds \subseteq Nat \ {0} /\ Thresholds # {}
ASSUME RosterAssumption == Cardinality(Contacts) >= MinContacts
ASSUME BoundsAssumption ==
    /\ MinContacts \in Nat \ {0}
    /\ MaxTime \in Nat
    /\ MaxWorkflows \in Nat
    /\ MaxGenerations \in Nat
    /\ MaxSettings \in Nat

VARIABLES
    now,          \* the database clock
    schedule,     \* the row of checkin_schedules
    lastCheckIn,  \* time of the check-in schedule.last_check_in_id names
    sessionUntil, \* absolute expiry of the owner's newest session
    setupState,   \* owner_profile.setup_state, READY or ARMED
    contacts,     \* contacts whose status is ACTIVE
    generation,   \* the ACTIVE share generation: its number and its roster
    removing,     \* contacts whose removal has read that no workflow is active
    recovery,     \* TRUE while a PASSWORD_RECOVERY workflow is active
    workflows,    \* rows of workflows with kind DEATH_CONFIRMATION
    actions,      \* workflow_contact_actions: decision of a contact
    fragments,    \* workflow_key_fragments with purpose DEATH: status
    session,      \* release_secret_sessions: status
    jobs,         \* outbox rows and queue jobs not yet done
    scanned       \* one-shot idempotency keys the deadline scanner has used

ownerVars == <<lastCheckIn, sessionUntil, setupState>>
rosterVars == <<contacts, generation, removing>>
workflowVars == <<workflows, actions, fragments, session>>
vars == <<now, schedule, ownerVars, rosterVars, recovery, workflowVars, jobs, scanned>>

Null == -1
Workflows == 1..MaxWorkflows
ActiveStates == {"AWAITING_CONFIRMATIONS", "RELEASE_PENDING"}
States == ActiveStates \cup {"NONE", "CANCELLED", "RELEASED"}
Decisions == {"NONE", "DEATH_LIKELY", "ALIVE"}
FragmentStatuses == {"NONE", "PENDING", "VALIDATED", "REJECTED", "DESTROYED"}
SessionStatuses == {"NONE", "ACTIVE", "DESTROYED", "CONSUMED"}

EvaluateJob(v, t) == [type |-> "CHECKIN_EVALUATE", version |-> v, at |-> t]
FragmentJob(w, c) == [type |-> "FRAGMENT_PROCESS", workflow |-> w, contact |-> c]
AdvanceJob(w, v, t) == [type |-> "WORKFLOW_ADVANCE", workflow |-> w, version |-> v, at |-> t]
\* Mutant: the job carries the version before the lock.
StaleFinalizeJob(w, v) == [type |-> "PUBLICATION_FINALIZE", workflow |-> w, version |-> v - 1]

FinalizeJob(w, v) == [type |-> "PUBLICATION_FINALIZE", workflow |-> w, version |-> v]

EvaluateJobs == [type : {"CHECKIN_EVALUATE"}, version : Nat, at : Nat]
FragmentJobs == [type : {"FRAGMENT_PROCESS"}, workflow : Workflows, contact : Contacts]
AdvanceJobs == [type : {"WORKFLOW_ADVANCE"}, workflow : Workflows, version : Nat, at : Int]
FinalizeJobs == [type : {"PUBLICATION_FINALIZE"}, workflow : Workflows, version : Nat]

\* Mutant: a key without the version, so the scanner rescues one schedule only.
UnversionedEvaluateKey(v) == [scan |-> "checkin", version |-> 0 * v]

EvaluateKey(v) == [scan |-> "checkin", version |-> v]
AdvanceKey(w, v) == [scan |-> "release", workflow |-> w, version |-> v]

EvaluateKeys == [scan : {"checkin"}, version : Nat]
AdvanceKeys == [scan : {"release"}, workflow : Workflows, version : Nat]

WorkflowRow ==
    [state : States, version : Nat, roster : SUBSET Contacts, required : Nat,
     approved : Nat, generation : Nat,
     startedAt : Int, releaseAt : Int, lockedAt : Int]

NoWorkflow ==
    [state |-> "NONE", version |-> 0, roster |-> {}, required |-> 0,
     approved |-> 0, generation |-> 0,
     startedAt |-> Null, releaseAt |-> Null, lockedAt |-> Null]

TypeOK ==
    /\ now \in Nat
    /\ schedule \in [version : Nat, threshold : Thresholds, deadline : Nat,
                     status : {"ACTIVE", "TRIGGERED"}]
    /\ lastCheckIn \in Nat
    /\ sessionUntil \in Nat
    /\ setupState \in {"READY", "ARMED"}
    /\ contacts \in SUBSET Contacts
    /\ generation \in [id : Nat, roster : SUBSET Contacts]
    /\ removing \in SUBSET Contacts
    /\ recovery \in BOOLEAN
    /\ workflows \in [Workflows -> WorkflowRow]
    /\ actions \in [Workflows -> [Contacts -> Decisions]]
    /\ fragments \in [Workflows -> [Contacts -> FragmentStatuses]]
    /\ session \in [Workflows -> SessionStatuses]
    /\ jobs \in SUBSET (EvaluateJobs \cup FragmentJobs \cup AdvanceJobs \cup FinalizeJobs)
    /\ scanned \in SUBSET (EvaluateKeys \cup AdvanceKeys)

-----------------------------------------------------------------------------
(* Helpers *)

\* beijingDateAt: the calendar day of an instant
Day(t) == t \div DAY

\* computeCheckinDeadline: midnight after `n' whole days without a check-in
Deadline(t, n) == (Day(t) + n + 1) * DAY

\* Math.ceil(contactCount * 0.7)
DeathThreshold(n) == (7 * n + 9) \div 10

Active(w) == workflows[w].state \in ActiveStates
Locked(w) == workflows[w].lockedAt # Null
NoActiveDeath == \A w \in Workflows : ~Active(w)
\* Mutant: the guard knows recoveries only.
NoActiveRecovery == ~recovery

NoActiveWorkflow == NoActiveDeath /\ ~recovery
SessionValid == now < sessionUntil
Approved(w) == {c \in Contacts : actions[w][c] = "DEATH_LIKELY"}

\* A job leaves the queue when its handler has returned, or stays and is
\* delivered again: the worker died between the commit and the acknowledgement,
\* the dispatcher published it twice, or the queue expired it while it ran.
Done(j, new) == jobs' \in {(jobs \ {j}) \cup new, jobs \cup new}

\* Mutant: the status is not reset.
RescheduledKeepsStatus ==
    [schedule EXCEPT !.version = @ + 1, !.deadline = Deadline(now, schedule.threshold)]

\* scheduleCheckinReminders apart (mail only), what a check-in at `now' makes
\* of the schedule, and the evaluation it books
Rescheduled ==
    [schedule EXCEPT !.version = @ + 1,
                     !.deadline = Deadline(now, schedule.threshold),
                     !.status = "ACTIVE"]
RescheduledJob == EvaluateJob(schedule.version + 1, Deadline(now, schedule.threshold))

\* Mutant: only fragments already validated are destroyed.
DestroyedValidatedFragments(w) ==
    [c \in Contacts |-> IF fragments[w][c] = "VALIDATED" THEN "DESTROYED" ELSE fragments[w][c]]

\* destroyWorkflowFragments
DestroyedFragments(w) ==
    [c \in Contacts |-> IF fragments[w][c] = "NONE" THEN "NONE" ELSE "DESTROYED"]

\* the release session of a cancelled workflow, if it has one
DestroyedSession(w) == IF session[w] = "NONE" THEN "NONE" ELSE "DESTROYED"

\* Mutant: the new state is not written.
CancelledKeepsState(w) == [workflows[w] EXCEPT !.version = @ + 1]

Cancelled(w) == [workflows[w] EXCEPT !.state = "CANCELLED", !.version = @ + 1]

-----------------------------------------------------------------------------
(* State left by createOwner and the setup steps that follow it: a first     *)
(* check-in, its schedule and its evaluation job, an ACTIVE generation over  *)
(* an ACTIVE roster; the owner has or has not armed the system yet.          *)

Init ==
    /\ now = 0
    /\ \E n \in Thresholds :
          /\ schedule = [version |-> 1, threshold |-> n, deadline |-> Deadline(0, n),
                         status |-> "ACTIVE"]
          /\ jobs = {EvaluateJob(1, Deadline(0, n))}
    /\ lastCheckIn = 0
    /\ sessionUntil = DAY
    /\ setupState \in {"READY", "ARMED"}
    /\ contacts = Contacts
    /\ generation = [id |-> 1, roster |-> Contacts]
    /\ removing = {}
    /\ recovery = FALSE
    /\ workflows = [w \in Workflows |-> NoWorkflow]
    /\ actions = [w \in Workflows |-> [c \in Contacts |-> "NONE"]]
    /\ fragments = [w \in Workflows |-> [c \in Contacts |-> "NONE"]]
    /\ session = [w \in Workflows |-> "NONE"]
    /\ scanned = {}

\* A tick is hours long: no request outlasts it.
Tick ==
    /\ now < MaxTime
    /\ removing = {}
    /\ now' = now + 1
    /\ UNCHANGED <<schedule, ownerVars, rosterVars, recovery, workflowVars, jobs, scanned>>

-----------------------------------------------------------------------------
(* The evaluation of a deadline (worker) *)

\* Mutant: the job is trusted, the schedule is not read again.
EvaluateTrusted(j) ==
    /\ j \in jobs
    /\ j.type = "CHECKIN_EVALUATE"
    /\ j.at <= now
    /\ NoActiveDeath
    /\ schedule.status = "ACTIVE"
    /\ setupState = "ARMED"

EvaluateDue(j) ==
    /\ j \in jobs
    /\ j.type = "CHECKIN_EVALUATE"
    /\ j.at <= now
    /\ j.version = schedule.version
    /\ NoActiveDeath
    /\ schedule.status = "ACTIVE"
    /\ now >= schedule.deadline
    /\ setupState = "ARMED"

\* The roster and its generation agree, so a snapshot can be taken.
SnapshotValid == contacts = generation.roster

\* evaluateCheckin with startDeathWorkflowInTransaction: an active recovery is
\* cancelled, the roster is snapshotted, the schedule becomes TRIGGERED.
StartDeathWorkflow(j, w) ==
    /\ EvaluateDue(j)
    /\ SnapshotValid
    /\ workflows[w].state = "NONE"
    /\ \A v \in 1..(w - 1) : workflows[v].state # "NONE"
    /\ workflows' = [workflows EXCEPT ![w] =
          [state |-> "AWAITING_CONFIRMATIONS", version |-> 0,
           roster |-> contacts,
           required |-> DeathThreshold(Cardinality(generation.roster)),
           approved |-> 0, generation |-> generation.id,
           startedAt |-> now, releaseAt |-> Null, lockedAt |-> Null]]
    /\ recovery' = FALSE
    /\ schedule' = [schedule EXCEPT !.status = "TRIGGERED"]
    /\ Done(j, {})
    /\ UNCHANGED <<now, ownerVars, rosterVars, actions, fragments, session, scanned>>

\* STALE, ALREADY_STARTED or NOT_ARMED: the job is done and nothing happened.
EvaluateCheckinClosed(j) ==
    /\ j \in jobs
    /\ j.type = "CHECKIN_EVALUATE"
    /\ j.at <= now
    /\ \/ j.version # schedule.version
       \/ ~NoActiveDeath
       \/ schedule.status # "ACTIVE"
       \/ setupState # "ARMED"
    /\ jobs' = jobs \ {j}
    /\ UNCHANGED <<now, schedule, ownerVars, rosterVars, recovery, workflowVars, scanned>>

\* DLS-WORKFLOW-SNAPSHOT-INVALID: every attempt throws and rolls back until the
\* queue gives the job up.
EvaluateCheckinExhausted(j) ==
    /\ EvaluateDue(j)
    /\ ~SnapshotValid
    /\ jobs' = jobs \ {j}
    /\ UNCHANGED <<now, schedule, ownerVars, rosterVars, recovery, workflowVars, scanned>>

-----------------------------------------------------------------------------
(* The decisions of a contact (API) and the fragments (worker) *)

\* affirmDeath: the fragment is stored, the decision is not recorded yet.
AffirmDeath(w, c) ==
    /\ workflows[w].state = "AWAITING_CONFIRMATIONS"
    /\ c \in workflows[w].roster \cap contacts
    /\ actions[w][c] = "NONE"
    /\ workflows[w].generation = generation.id
    /\ fragments[w][c] = "NONE"
    /\ fragments' = [fragments EXCEPT ![w][c] = "PENDING"]
    /\ jobs' = jobs \cup {FragmentJob(w, c)}
    /\ UNCHANGED <<now, schedule, ownerVars, rosterVars, recovery, workflows, actions,
                   session, scanned>>

\* processSubmittedFragment: first transaction of the fragment job.  A share
\* that fails to open or to verify is REJECTED, and the job ends there.
ProcessSubmittedFragment(w, c) ==
    /\ FragmentJob(w, c) \in jobs
    /\ fragments[w][c] = "PENDING"
    /\ workflows[w].state = "AWAITING_CONFIRMATIONS"
    /\ workflows[w].generation = generation.id
    /\ \/ /\ fragments' = [fragments EXCEPT ![w][c] = "VALIDATED"]
          /\ jobs' = jobs
       \/ /\ fragments' = [fragments EXCEPT ![w][c] = "REJECTED"]
          /\ Done(FragmentJob(w, c), {})
    /\ UNCHANGED <<now, schedule, ownerVars, rosterVars, recovery, workflows, actions,
                   session, scanned>>

\* Mutant: any failure to process the fragment ends its job.
ProcessSubmittedFragmentGivesUp(w, c) ==
    /\ FragmentJob(w, c) \in jobs
    /\ fragments[w][c] = "PENDING"
    /\ jobs' = jobs \ {FragmentJob(w, c)}
    /\ UNCHANGED <<now, schedule, ownerVars, rosterVars, recovery, workflowVars, scanned>>

\* The workflow's generation has been retired: validateSnapshot throws on every
\* attempt, and the queue gives the job up.
ProcessSubmittedFragmentExhausted(w, c) ==
    /\ FragmentJob(w, c) \in jobs
    /\ fragments[w][c] = "PENDING"
    /\ workflows[w].generation # generation.id
    /\ jobs' = jobs \ {FragmentJob(w, c)}
    /\ UNCHANGED <<now, schedule, ownerVars, rosterVars, recovery, workflowVars, scanned>>

\* Mutant: one confirmation too many is awaited.
ThresholdExceeded(w, c) == Cardinality(Approved(w) \cup {c}) > workflows[w].required

\* The confirmation of `c' is the last one the workflow needs.
ThresholdReached(w, c) == Cardinality(Approved(w) \cup {c}) >= workflows[w].required

\* What the second transaction of the job requires to record a confirmation.
Recordable(w, c) ==
    /\ FragmentJob(w, c) \in jobs
    /\ workflows[w].state = "AWAITING_CONFIRMATIONS"
    /\ fragments[w][c] = "VALIDATED"
    /\ actions[w][c] = "NONE"

Confirmed(w, c) ==
    [workflows[w] EXCEPT !.approved = Cardinality(Approved(w) \cup {c}), !.version = @ + 1]

\* Mutant: the delay is taken from the start of the workflow.
CountingFromStart(w, c) ==
    [Confirmed(w, c) EXCEPT !.state = "RELEASE_PENDING",
                            !.releaseAt = workflows[w].startedAt + DAY]

Counting(w, c) ==
    [Confirmed(w, c) EXCEPT !.state = "RELEASE_PENDING", !.releaseAt = now + DAY]

\* processReleaseFragment, second transaction, below the threshold.
RecordConfirmation(w, c) ==
    /\ Recordable(w, c)
    /\ ~ThresholdReached(w, c)
    /\ actions' = [actions EXCEPT ![w][c] = "DEATH_LIKELY"]
    /\ workflows' = [workflows EXCEPT ![w] = Confirmed(w, c)]
    /\ Done(FragmentJob(w, c), {})
    /\ UNCHANGED <<now, schedule, ownerVars, rosterVars, recovery, fragments, session, scanned>>

\* processReleaseFragment, second transaction, at the threshold: the vault key
\* is rebuilt from the validated fragments of the contacts who confirmed, kept
\* in a release session, and the day of grace starts.
ReachThreshold(w, c) ==
    /\ Recordable(w, c)
    /\ ThresholdReached(w, c)
    /\ Cardinality({d \in Approved(w) \cup {c} : fragments[w][d] = "VALIDATED"})
          >= workflows[w].required
    /\ actions' = [actions EXCEPT ![w][c] = "DEATH_LIKELY"]
    /\ workflows' = [workflows EXCEPT ![w] = Counting(w, c)]
    /\ session' = [session EXCEPT ![w] = "ACTIVE"]
    /\ fragments' = [fragments EXCEPT ![w] = DestroyedFragments(w)]
    /\ Done(FragmentJob(w, c), {AdvanceJob(w, workflows[w].version + 1, now + DAY)})
    /\ UNCHANGED <<now, schedule, ownerVars, rosterVars, recovery, scanned>>

\* REJECTED, CLOSED, RECORDED already or RELEASE_PENDING already.
FragmentJobClosed(w, c) ==
    /\ FragmentJob(w, c) \in jobs
    /\ fragments[w][c] # "PENDING"
    /\ ~Recordable(w, c)
    /\ jobs' = jobs \ {FragmentJob(w, c)}
    /\ UNCHANGED <<now, schedule, ownerVars, rosterVars, recovery, workflowVars, scanned>>

\* confirmAlive: one contact ends the workflow, during the day of grace too,
\* and the check-in this records starts a new countdown.
ConfirmAlive(w, c) ==
    /\ Active(w)
    /\ ~Locked(w)
    /\ c \in workflows[w].roster \cap contacts
    /\ actions[w][c] \in {"NONE", "DEATH_LIKELY"}
    /\ actions' = [actions EXCEPT ![w][c] = "ALIVE"]
    /\ workflows' = [workflows EXCEPT ![w] = Cancelled(w)]
    /\ fragments' = [fragments EXCEPT ![w] = DestroyedFragments(w)]
    /\ session' = [session EXCEPT ![w] = DestroyedSession(w)]
    /\ lastCheckIn' = now
    /\ schedule' = Rescheduled
    /\ jobs' = jobs \cup {RescheduledJob}
    /\ UNCHANGED <<now, sessionUntil, setupState, rosterVars, recovery, scanned>>

-----------------------------------------------------------------------------
(* The owner (API) *)

\* cancelDeathWorkflow: the owner stops the countdown while it runs.
CancelDeathWorkflow(w) ==
    /\ SessionValid
    /\ ~Locked(w)
    /\ workflows[w].state = "RELEASE_PENDING"
    /\ now < workflows[w].releaseAt
    /\ workflows' = [workflows EXCEPT ![w] = Cancelled(w)]
    /\ session' = [session EXCEPT ![w] = DestroyedSession(w)]
    /\ lastCheckIn' = now
    /\ schedule' = Rescheduled
    /\ jobs' = jobs \cup {RescheduledJob}
    /\ UNCHANGED <<now, sessionUntil, setupState, rosterVars, recovery, actions, fragments,
                   scanned>>

\* Mutant: a running countdown is not cancelled.
OwnerCancelsFirstStage(w) == workflows[w].state = "AWAITING_CONFIRMATIONS"

\* cancelActiveDeathWorkflow: what an authentication cancels.
OwnerCancels(w) == Active(w) /\ ~Locked(w)

\* At most one check-in a day: the schedule moves with the first one only.
RecordCheckIn ==
    IF Day(lastCheckIn) = Day(now)
    THEN UNCHANGED <<schedule, lastCheckIn>>
    ELSE schedule' = Rescheduled /\ lastCheckIn' = now

\* The part loginOwner and checkInOwner share: cancel the recovery and the
\* death workflow that is not locked, then check in.
AuthenticateOwner ==
    /\ recovery' = FALSE
    /\ workflows' = [w \in Workflows |-> IF OwnerCancels(w) THEN Cancelled(w) ELSE workflows[w]]
    /\ fragments' = [w \in Workflows |->
          IF OwnerCancels(w) THEN DestroyedFragments(w) ELSE fragments[w]]
    /\ session' = [w \in Workflows |->
          IF OwnerCancels(w) THEN DestroyedSession(w) ELSE session[w]]
    /\ RecordCheckIn
    /\ jobs' = IF Day(lastCheckIn) = Day(now) THEN jobs ELSE jobs \cup {RescheduledJob}
    /\ UNCHANGED <<now, setupState, rosterVars, actions, scanned>>

LoginOwner ==
    /\ AuthenticateOwner
    /\ sessionUntil' = now + DAY

CheckInOwner ==
    /\ SessionValid
    /\ AuthenticateOwner
    /\ UNCHANGED sessionUntil

\* updateOwnerSettings: the deadline is computed again from the last check-in.
UpdateOwnerSettings(n) ==
    /\ SessionValid
    /\ NoActiveWorkflow
    /\ schedule.version < MaxSettings
    /\ schedule' = [version |-> schedule.version + 1, threshold |-> n,
                    deadline |-> Deadline(lastCheckIn, n), status |-> "ACTIVE"]
    /\ jobs' = jobs \cup {EvaluateJob(schedule.version + 1, Deadline(lastCheckIn, n))}
    /\ UNCHANGED <<now, ownerVars, rosterVars, recovery, workflowVars, scanned>>

\* changeOwnerPassword: every session is revoked and a new one issued; no
\* check-in is recorded.
ChangeOwnerPassword ==
    /\ SessionValid
    /\ sessionUntil' = now + DAY
    /\ UNCHANGED <<now, schedule, lastCheckIn, setupState, rosterVars, recovery, workflowVars,
                   jobs, scanned>>

ArmOwner ==
    /\ SessionValid
    /\ setupState = "READY"
    /\ Cardinality(contacts) >= MinContacts
    /\ setupState' = "ARMED"
    /\ UNCHANGED <<now, schedule, lastCheckIn, sessionUntil, rosterVars, recovery, workflowVars,
                   jobs, scanned>>

\* removeContact is serializable, but the evaluation that starts a workflow is
\* not: what the removal reads, before the password is verified, may be out of
\* date when it writes.  One removal at a time holds the credentials row.
CheckRemoval(c) ==
    /\ SessionValid
    /\ NoActiveWorkflow
    /\ removing = {}
    /\ c \in contacts
    /\ Cardinality(contacts) > MinContacts
    /\ removing' = {c}
    /\ UNCHANGED <<now, schedule, ownerVars, contacts, generation, recovery, workflowVars, jobs,
                   scanned>>

\* The writes of removeContact; the generation keeps the share of the contact.
RemoveContact(c) ==
    /\ c \in removing
    /\ removing' = {}
    /\ contacts' = contacts \ {c}
    /\ UNCHANGED <<now, schedule, ownerVars, generation, recovery, workflowVars, jobs, scanned>>

\* activateShareGeneration: the ACTIVE contacts and any who accepted an
\* invitation since; no workflow is consulted.  It writes the contacts, so a
\* removal under way fails to serialize.
ActivateShareGeneration(added) ==
    /\ SessionValid
    /\ generation.id < MaxGenerations
    /\ Cardinality(contacts \cup added) >= MinContacts
    /\ contacts' = contacts \cup added
    /\ generation' = [id |-> generation.id + 1, roster |-> contacts \cup added]
    /\ removing' = {}
    /\ UNCHANGED <<now, schedule, ownerVars, recovery, workflowVars, jobs, scanned>>

-----------------------------------------------------------------------------
(* Password recovery, as far as it meets the schedule and the workflow *)

StartRecovery ==
    /\ NoActiveWorkflow
    /\ contacts = generation.roster
    /\ recovery' = TRUE
    /\ UNCHANGED <<now, schedule, ownerVars, rosterVars, workflowVars, jobs, scanned>>

\* completePasswordReset: a check-in, but no evaluation job is booked.
CompletePasswordReset ==
    /\ recovery
    /\ recovery' = FALSE
    /\ sessionUntil' = 0
    /\ RecordCheckIn
    /\ UNCHANGED <<now, setupState, rosterVars, workflowVars, jobs, scanned>>

\* expireRecovery: the seven days of the recovery, longer than the runs, are over.
ExpireRecovery ==
    /\ recovery
    /\ recovery' = FALSE
    /\ UNCHANGED <<now, schedule, ownerVars, rosterVars, workflowVars, jobs, scanned>>

-----------------------------------------------------------------------------
(* The end of the countdown (worker) *)

LockedNow(w) == [workflows[w] EXCEPT !.lockedAt = now, !.version = @ + 1]
Released(w) == [workflows[w] EXCEPT !.state = "RELEASED", !.version = @ + 1]

\* advanceRelease: the publish lock.
AdvanceRelease(j) ==
    /\ j \in jobs
    /\ j.type = "WORKFLOW_ADVANCE"
    /\ j.at <= now
    /\ ~Locked(j.workflow)
    /\ workflows[j.workflow].state = "RELEASE_PENDING"
    /\ workflows[j.workflow].version = j.version
    /\ now >= workflows[j.workflow].releaseAt
    /\ session[j.workflow] = "ACTIVE"
    /\ workflows' = [workflows EXCEPT ![j.workflow] = LockedNow(j.workflow)]
    /\ Done(j, {FinalizeJob(j.workflow, j.version + 1)})
    /\ UNCHANGED <<now, schedule, ownerVars, rosterVars, recovery, actions, fragments,
                   session, scanned>>

\* Mutant: a failure is taken for a closed workflow.
AdvanceReleaseSwallowed(j) ==
    /\ j \in jobs
    /\ j.type = "WORKFLOW_ADVANCE"
    /\ j.at <= now
    /\ jobs' = jobs \ {j}
    /\ UNCHANGED <<now, schedule, ownerVars, rosterVars, recovery, workflowVars, scanned>>

\* ALREADY_LOCKED, CLOSED or STALE.
AdvanceReleaseClosed(j) ==
    /\ j \in jobs
    /\ j.type = "WORKFLOW_ADVANCE"
    /\ j.at <= now
    /\ \/ Locked(j.workflow)
       \/ workflows[j.workflow].state # "RELEASE_PENDING"
       \/ workflows[j.workflow].version # j.version
    /\ jobs' = jobs \ {j}
    /\ UNCHANGED <<now, schedule, ownerVars, rosterVars, recovery, workflowVars, scanned>>

\* finalizePublication, last transaction: the publication becomes public.  Its
\* earlier steps, which leave the workflow as it is, are in module Publication.
FinalizePublication(j) ==
    /\ j \in jobs
    /\ j.type = "PUBLICATION_FINALIZE"
    /\ Locked(j.workflow)
    /\ workflows[j.workflow].state = "RELEASE_PENDING"
    /\ workflows[j.workflow].version = j.version
    /\ session[j.workflow] = "ACTIVE"
    /\ workflows' = [workflows EXCEPT ![j.workflow] = Released(j.workflow)]
    /\ session' = [session EXCEPT ![j.workflow] = "CONSUMED"]
    /\ Done(j, {})
    /\ UNCHANGED <<now, schedule, ownerVars, rosterVars, recovery, actions, fragments, scanned>>

\* ALREADY_PUBLISHED.
FinalizePublicationClosed(j) ==
    /\ j \in jobs
    /\ j.type = "PUBLICATION_FINALIZE"
    /\ workflows[j.workflow].state = "RELEASED"
    /\ jobs' = jobs \ {j}
    /\ UNCHANGED <<now, schedule, ownerVars, rosterVars, recovery, workflowVars, scanned>>

-----------------------------------------------------------------------------
(* reconcileDueDeadlines: each INSERT is a statement of its own.  A deadline  *)
(* key is used once per version; a locked workflow gets a job every minute.   *)

ReconcileCheckins ==
    /\ schedule.status = "ACTIVE"
    /\ schedule.deadline <= now
    /\ EvaluateKey(schedule.version) \notin scanned
    /\ scanned' = scanned \cup {EvaluateKey(schedule.version)}
    /\ jobs' = jobs \cup {EvaluateJob(schedule.version, schedule.deadline)}
    /\ UNCHANGED <<now, schedule, ownerVars, rosterVars, recovery, workflowVars>>

ReconcileReleases(w) ==
    /\ workflows[w].state = "RELEASE_PENDING"
    /\ \/ /\ ~Locked(w)
          /\ workflows[w].releaseAt <= now
          /\ AdvanceKey(w, workflows[w].version) \notin scanned
          /\ scanned' = scanned \cup {AdvanceKey(w, workflows[w].version)}
          /\ jobs' = jobs \cup {AdvanceJob(w, workflows[w].version, workflows[w].releaseAt)}
       \/ /\ Locked(w)
          /\ jobs' = jobs \cup {FinalizeJob(w, workflows[w].version)}
          /\ UNCHANGED scanned
    /\ UNCHANGED <<now, schedule, ownerVars, rosterVars, recovery, workflowVars>>

-----------------------------------------------------------------------------

EvaluateStep ==
    \E j \in jobs :
        \/ \E w \in Workflows : StartDeathWorkflow(j, w)
        \/ EvaluateCheckinClosed(j)
        \/ EvaluateCheckinExhausted(j)

FragmentStep ==
    \E w \in Workflows, c \in Contacts :
        \/ ProcessSubmittedFragment(w, c)
        \/ ProcessSubmittedFragmentExhausted(w, c)
        \/ RecordConfirmation(w, c)
        \/ ReachThreshold(w, c)
        \/ FragmentJobClosed(w, c)

AdvanceStep == \E j \in jobs : AdvanceRelease(j) \/ AdvanceReleaseClosed(j)

FinalizeStep == \E j \in jobs : FinalizePublication(j) \/ FinalizePublicationClosed(j)

ReconcileStep == ReconcileCheckins \/ \E w \in Workflows : ReconcileReleases(w)

ContactStep ==
    \E w \in Workflows, c \in Contacts : AffirmDeath(w, c) \/ ConfirmAlive(w, c)

OwnerStep ==
    \/ \E w \in Workflows : CancelDeathWorkflow(w)
    \/ LoginOwner
    \/ CheckInOwner
    \/ \E n \in Thresholds : UpdateOwnerSettings(n)
    \/ ChangeOwnerPassword
    \/ ArmOwner
    \/ \E c \in Contacts : CheckRemoval(c) \/ RemoveContact(c)
    \/ \E added \in SUBSET Contacts : ActivateShareGeneration(added)

RecoveryStep == StartRecovery \/ CompletePasswordReset \/ ExpireRecovery

WorkerStep ==
    EvaluateStep \/ FragmentStep \/ AdvanceStep \/ FinalizeStep \/ ReconcileStep

Next == Tick \/ WorkerStep \/ ContactStep \/ OwnerStep \/ RecoveryStep

Spec == Init /\ [][Next]_vars

=============================================================================
