----------------------- MODULE DeathWorkflowProperties -----------------------
(***************************************************************************)
(* What the dead man's switch promises: the safety invariants, the action  *)
(* properties and, under the fairness of the workers and of the clock, the *)
(* liveness properties of module DeathWorkflow.  The last section states   *)
(* what the documentation says and the code does not do.                   *)
(***************************************************************************)
EXTENDS DeathWorkflow

-----------------------------------------------------------------------------
(* Safety *)

\* A workflow whose countdown runs, or which is released, was confirmed by at
\* least the snapshotted threshold of contacts of its roster, and no contact
\* has called the owner alive, however decisions, withdrawals and fragment jobs
\* interleaved (process-release-fragment.ts, confirm-alive.ts).
ReleaseNeedsQuorum ==
    \A w \in Workflows : workflows[w].state \in {"RELEASE_PENDING", "RELEASED"} =>
        /\ Approved(w) \subseteq workflows[w].roster
        /\ Cardinality(Approved(w)) >= workflows[w].required
        /\ \A c \in Contacts : actions[w][c] # "ALIVE"

\* A workflow is locked only a full day after its threshold was reached, and
\* from its start to its lock no check-in was recorded: whatever records one
\* (login, check-in, cancellation, a contact's word, a password reset), in any
\* order with the jobs, leaves no workflow on its way to release
\* (cancel-active-death-workflow.ts, start-death-workflow.ts, advance-release.ts).
\* A change of the master password records none: it neither moves the deadline nor
\* cancels (change-owner-password.ts:95-174; PRD-AUTH-005 and 007 want both).
ReleaseOnlyAfterSilence ==
    \A w \in Workflows : workflows[w].state \in ActiveStates \cup {"RELEASED"} =>
        /\ \/ lastCheckIn < workflows[w].startedAt
           \/ Locked(w) /\ lastCheckIn >= workflows[w].lockedAt
        /\ Locked(w) => workflows[w].lockedAt >= workflows[w].startedAt + DAY

\* A TRIGGERED schedule is owned by a workflow that is still active or was
\* released: no way of ending a workflow leaves the owner with a schedule that
\* nobody will ever evaluate again.
TriggeredScheduleHasWorkflow ==
    schedule.status = "TRIGGERED" =>
        \E w \in Workflows :
            /\ workflows[w].state \in ActiveStates \cup {"RELEASED"}
            /\ workflows[w].startedAt >= schedule.deadline

\* While confirmations are awaited every recorded one still has its validated
\* fragment and the threshold is not reached: the handler that records the last
\* one will find the fragments it needs, and no duplicate delivery can swallow
\* the confirmation that should have started the countdown
\* (process-release-fragment.ts:203-273).
ConfirmationsAreBacked ==
    \A w \in Workflows : workflows[w].state = "AWAITING_CONFIRMATIONS" =>
        /\ \A c \in Approved(w) : fragments[w][c] = "VALIDATED"
        /\ workflows[w].approved = Cardinality(Approved(w))
        /\ Cardinality(Approved(w)) < workflows[w].required

\* Key material outlives its use in no interleaving: fragments can be opened
\* only while confirmations are awaited, the release session only while its
\* workflow waits for release.
SecretsOnlyWhileUsable ==
    \A w \in Workflows :
        /\ (\E c \in Contacts : fragments[w][c] \in {"PENDING", "VALIDATED"})
              => workflows[w].state = "AWAITING_CONFIRMATIONS"
        /\ session[w] = "ACTIVE" <=> workflows[w].state = "RELEASE_PENDING"

\* A running countdown is never forgotten: its advance job is pending, or the
\* deadline scanner may still book one for this version of the workflow.
CountdownIsWatched ==
    \A w \in Workflows : workflows[w].state = "RELEASE_PENDING" /\ ~Locked(w) =>
        \/ AdvanceJob(w, workflows[w].version, workflows[w].releaseAt) \in jobs
        \/ AdvanceKey(w, workflows[w].version) \notin scanned

\* At most one formal workflow, death or recovery, is active
\* (uq_one_formal_workflow), whoever starts it.
OneFormalWorkflow ==
    \A w \in Workflows : Active(w) =>
        /\ ~recovery
        /\ \A v \in Workflows : Active(v) => v = w

\* The inductive invariant behind ReleaseNeedsQuorum, ConfirmationsAreBacked and
\* SecretsOnlyWhileUsable (proved in DeathWorkflowProofs): what the decisions,
\* the fragments, the release session and the lock of a workflow may be in each
\* of its states; and the roster never falls below its minimum, whatever removals
\* are under way.
WorkflowInv(w) ==
    /\ workflows[w].state = "NONE" =>
          /\ \A c \in Contacts : actions[w][c] = "NONE" /\ fragments[w][c] = "NONE"
          /\ session[w] = "NONE"
    /\ workflows[w].state = "AWAITING_CONFIRMATIONS" =>
          /\ \A c \in Approved(w) : fragments[w][c] = "VALIDATED"
          /\ workflows[w].approved = Cardinality(Approved(w))
          /\ Cardinality(Approved(w)) < workflows[w].required
    /\ workflows[w].state \in {"RELEASE_PENDING", "RELEASED"} =>
          Cardinality(Approved(w)) >= workflows[w].required
    /\ workflows[w].state # "CANCELLED" => \A c \in Contacts : actions[w][c] # "ALIVE"
    /\ workflows[w].state # "AWAITING_CONFIRMATIONS" =>
          \A c \in Contacts : fragments[w][c] \notin {"PENDING", "VALIDATED"}
    /\ \A c \in Contacts : fragments[w][c] # "NONE" => c \in workflows[w].roster
    /\ Approved(w) \subseteq workflows[w].roster
    /\ session[w] = "ACTIVE" <=> workflows[w].state = "RELEASE_PENDING"
    /\ Locked(w) => workflows[w].state \in {"RELEASE_PENDING", "RELEASED"}

RosterInv ==
    /\ Cardinality(contacts) >= MinContacts
    /\ \A c \in removing : c \in contacts /\ Cardinality(contacts) > MinContacts

ReleaseInv ==
    /\ RosterInv
    /\ \A w \in Workflows : WorkflowInv(w)

-----------------------------------------------------------------------------
(* What no step may do *)

\* The publish lock is the point of no return, and a closed workflow stays as
\* it is: late jobs, retries, logins and cancellations change neither.
KeepsLockAndEnd(w) ==
    /\ Locked(w) =>
          /\ workflows'[w].lockedAt = workflows[w].lockedAt
          /\ workflows'[w].state \in {"RELEASE_PENDING", "RELEASED"}
    /\ workflows[w].state \in {"CANCELLED", "RELEASED"} =>
          /\ workflows'[w] = workflows[w]
          /\ actions'[w] = actions[w]
          /\ session'[w] = session[w]

LockAndEndAreFinal == [][\A w \in Workflows : KeepsLockAndEnd(w)]_vars

\* The schedule never gets a new deadline, and is never reactivated, under the
\* version an earlier evaluation job carries: a late job of an older schedule
\* cannot start a workflow.
DeadlineMovesWithVersion ==
    [][(schedule'.deadline # schedule.deadline
          \/ (schedule.status = "TRIGGERED" /\ schedule'.status = "ACTIVE"))
       => schedule'.version > schedule.version]_vars

\* A death workflow starts only when the owner has missed the whole number of
\* days in force, counted from the last check-in the code has recorded; a change
\* of the master password records none (change-owner-password.ts:95-174).
StartOnlyWhenOverdue ==
    [][\A w \in Workflows :
          workflows[w].state = "NONE" /\ workflows'[w].state # "NONE" =>
              now >= Deadline(lastCheckIn, schedule.threshold)]_vars

-----------------------------------------------------------------------------
(* Liveness.  The clock runs, a request that was begun ends; the queue         *)
(* delivers every job and the scanner runs every 30 seconds, so each kind of   *)
(* worker step is weakly fair.  Owner and contacts promise nothing.            *)

Fairness ==
    /\ WF_vars(Tick)
    /\ \A c \in Contacts : WF_vars(RemoveContact(c))
    /\ WF_vars(EvaluateStep)
    /\ \A w \in Workflows, c \in Contacts :
          /\ WF_vars(ProcessSubmittedFragment(w, c))
          /\ WF_vars(RecordConfirmation(w, c) \/ ReachThreshold(w, c))
    /\ WF_vars(AdvanceStep)
    /\ WF_vars(FinalizeStep)
    /\ WF_vars(ReconcileCheckins)
    /\ \A w \in Workflows : WF_vars(ReconcileReleases(w))

LiveSpec == Spec /\ Fairness

\* Armed in time, the switch fires: a schedule that is ACTIVE before its
\* deadline, with the system armed and the roster matching its generation,
\* triggers a workflow unless something replaces the schedule first or a release
\* is past its lock (the evaluation then ends as ALREADY_STARTED, for good).  A
\* password reset books no evaluation job, so this rests on the deadline scanner.
ArmedScheduleFires ==
    \A v \in 1..(MaxTime + MaxSettings) :
        ( /\ schedule.version = v /\ schedule.status = "ACTIVE"
          /\ setupState = "ARMED" /\ SnapshotValid
          /\ now < schedule.deadline /\ schedule.deadline <= MaxTime )
        ~> ( \/ schedule.version # v
             \/ schedule.status = "TRIGGERED"
             \/ ~SnapshotValid
             \/ \E w \in Workflows : Locked(w) \/ workflows[w].state = "RELEASED"
             \/ \A w \in Workflows : workflows[w].state # "NONE" ) \* bound: none left

\* A submitted fragment does not stay PENDING under the generation it was made
\* for: it is recorded as a confirmation, rejected or destroyed.
FragmentsAreProcessed ==
    \A w \in Workflows, c \in Contacts :
        (fragments[w][c] = "PENDING")
        ~> ( \/ fragments[w][c] \in {"REJECTED", "DESTROYED"}
             \/ actions[w][c] = "DEATH_LIKELY"
             \/ workflows[w].generation # generation.id )

-----------------------------------------------------------------------------
(* A statement of the source's comments that the code does not keep *)

\* deadline-reconciliation.ts:16-19: the scanner repairs missing deadline jobs
\* from durable aggregate state.
OverdueScheduleIsWatched ==
    ( /\ schedule.status = "ACTIVE" /\ now >= schedule.deadline
      /\ setupState = "ARMED" /\ SnapshotValid
      /\ \A w \in Workflows : workflows[w].state \in {"NONE", "CANCELLED"} )
    => \/ EvaluateJob(schedule.version, schedule.deadline) \in jobs
       \/ EvaluateKey(schedule.version) \notin scanned

=============================================================================
