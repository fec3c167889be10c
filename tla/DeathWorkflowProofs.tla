------------------------- MODULE DeathWorkflowProofs -------------------------
(***************************************************************************)
(* Machine-checked facts about module DeathWorkflow, for every set of      *)
(* contacts, every length of the day and every bound: first decisions and  *)
(* key material, then how the clock, the schedule of the owner and the     *)
(* workflows fit together and that countdowns, fragments and evaluations   *)
(* have their jobs, then that the handlers keep the abstract promise of    *)
(* the switch and follow the reducers of the domain package.               *)
(***************************************************************************)
EXTENDS DeathWorkflowReducers, FiniteSetTheorems, TLAPS

-----------------------------------------------------------------------------
(* Numbers and small sets *)

\* Division stays in the naturals.
LEMMA DivNat == ASSUME NEW t \in Nat, NEW d \in Nat \ {0} PROVE t \div d \in Nat
  OBVIOUS

\* So does multiplication.
LEMMA MulNat == ASSUME NEW t \in Nat, NEW d \in Nat PROVE t * d \in Nat
  OBVIOUS

\* A deadline is a point in time.
LEMMA DeadlineType ==
    ASSUME NEW t \in Nat, NEW n \in Nat
    PROVE  Deadline(t, n) \in Nat
<1>1. Day(t) \in Nat
  BY DayAssumption, DivNat DEF Day
<1>2. Day(t) + n + 1 \in Nat
  BY <1>1
<1> QED
  BY <1>2, DayAssumption, MulNat DEF Deadline

\* Every roster is finite and has a size.
LEMMA RosterCardinality ==
    ASSUME NEW S \in SUBSET Contacts
    PROVE  IsFiniteSet(S) /\ Cardinality(S) \in Nat
  BY ContactsAssumption, FS_Subset, FS_CardinalityType

\* The threshold of a roster is a natural number.
LEMMA ThresholdType ==
    ASSUME NEW n \in Nat
    PROVE  DeathThreshold(n) \in Nat
  BY DivNat DEF DeathThreshold

-----------------------------------------------------------------------------
(* The helpers keep the types *)

Schedules == [version : Nat, threshold : Thresholds, deadline : Nat,
              status : {"ACTIVE", "TRIGGERED"}]
AllJobs == EvaluateJobs \cup FragmentJobs \cup AdvanceJobs \cup FinalizeJobs

\* Each kind of job is told by its type field.
LEMMA JobTypes ==
    ASSUME TypeOK, NEW j \in jobs
    PROVE  /\ j.type = "CHECKIN_EVALUATE" => j \in EvaluateJobs
           /\ j.type = "WORKFLOW_ADVANCE" => j \in AdvanceJobs
           /\ j.type = "PUBLICATION_FINALIZE" => j \in FinalizeJobs
  BY DEF TypeOK, EvaluateJobs, FragmentJobs, AdvanceJobs, FinalizeJobs

\* Writing one field of a row keeps its type, whatever the field.
LEMMA RowField ==
    ASSUME NEW r \in WorkflowRow
    PROVE  /\ \A s \in States : [r EXCEPT !.state = s] \in WorkflowRow
           /\ \A n \in Nat : /\ [r EXCEPT !.version = n] \in WorkflowRow
                             /\ [r EXCEPT !.approved = n] \in WorkflowRow
                             /\ [r EXCEPT !.releaseAt = n] \in WorkflowRow
                             /\ [r EXCEPT !.lockedAt = n] \in WorkflowRow
  BY DEF WorkflowRow

\* Writing one field of the schedule keeps its type.
LEMMA ScheduleField ==
    ASSUME NEW r \in Schedules
    PROVE  /\ \A n \in Nat : /\ [r EXCEPT !.version = n] \in Schedules
                             /\ [r EXCEPT !.deadline = n] \in Schedules
           /\ \A s \in {"ACTIVE", "TRIGGERED"} : [r EXCEPT !.status = s] \in Schedules
  BY DEF Schedules

\* A check-in leaves a schedule and books a job of the right type.
LEMMA RescheduledType ==
    ASSUME TypeOK
    PROVE  Rescheduled \in Schedules /\ RescheduledJob \in EvaluateJobs
<1>1. schedule.threshold \in Nat /\ now \in Nat
  BY ThresholdsAssumption DEF TypeOK
<1>2. Deadline(now, schedule.threshold) \in Nat
  BY <1>1, DeadlineType
<1>3. schedule \in Schedules /\ schedule.version + 1 \in Nat
  BY DEF TypeOK, Schedules
<1> DEFINE a == [schedule EXCEPT !.version = schedule.version + 1]
           b == [a EXCEPT !.deadline = Deadline(now, schedule.threshold)]
<1>4. a \in Schedules
  BY <1>3, ScheduleField
<1>5. b \in Schedules
  BY <1>2, <1>4, ScheduleField
<1>6. Rescheduled = [b EXCEPT !.status = "ACTIVE"]
  BY DEF Rescheduled
<1>7. Rescheduled \in Schedules
  BY <1>5, <1>6, ScheduleField
<1> QED
  BY <1>2, <1>3, <1>7 DEF RescheduledJob, EvaluateJob, EvaluateJobs

\* The check-in of a login keeps the types of schedule and last check-in.
LEMMA RecordCheckInType ==
    ASSUME TypeOK, RecordCheckIn
    PROVE  schedule' \in Schedules /\ lastCheckIn' \in Nat
  BY RescheduledType DEF TypeOK, Schedules, RecordCheckIn

\* A cancelled workflow is a workflow.
LEMMA CancelledType ==
    ASSUME TypeOK, NEW w \in Workflows
    PROVE  Cancelled(w) \in WorkflowRow
<1> DEFINE a == [workflows[w] EXCEPT !.state = "CANCELLED"]
<1>1. workflows[w] \in WorkflowRow /\ workflows[w].version + 1 \in Nat
  BY DEF TypeOK, WorkflowRow
<1>2. a \in WorkflowRow
  BY <1>1, RowField DEF States
<1>3. Cancelled(w) = [a EXCEPT !.version = workflows[w].version + 1]
  BY DEF Cancelled
<1> QED
  BY <1>1, <1>2, <1>3, RowField

\* So is a locked one and a released one.
LEMMA ReleaseRowTypes ==
    ASSUME TypeOK, NEW w \in Workflows
    PROVE  LockedNow(w) \in WorkflowRow /\ Released(w) \in WorkflowRow
<1> DEFINE a == [workflows[w] EXCEPT !.lockedAt = now]
           b == [workflows[w] EXCEPT !.state = "RELEASED"]
<1>1. workflows[w] \in WorkflowRow /\ workflows[w].version + 1 \in Nat /\ now \in Nat
  BY DEF TypeOK, WorkflowRow
<1>2. a \in WorkflowRow /\ b \in WorkflowRow
  BY <1>1, RowField DEF States
<1>3. LockedNow(w) = [a EXCEPT !.version = workflows[w].version + 1]
  BY DEF LockedNow
<1>4. Released(w) = [b EXCEPT !.version = workflows[w].version + 1]
  BY DEF Released
<1>5. LockedNow(w) \in WorkflowRow
  BY <1>1, <1>2, <1>3, RowField
<1>6. Released(w) \in WorkflowRow
  BY <1>1, <1>2, <1>4, RowField
<1> QED
  BY <1>5, <1>6

\* Destroyed fragments and sessions have their types.
LEMMA DestroyedType ==
    ASSUME TypeOK, NEW w \in Workflows
    PROVE  /\ DestroyedFragments(w) \in [Contacts -> FragmentStatuses]
           /\ DestroyedSession(w) \in SessionStatuses
  BY DEF TypeOK, DestroyedFragments, DestroyedSession, FragmentStatuses, SessionStatuses

\* The confirmations, with one more, can be counted.
LEMMA ApprovedType ==
    ASSUME TypeOK, NEW w \in Workflows, NEW c \in Contacts
    PROVE  Cardinality(Approved(w) \cup {c}) \in Nat
<1>1. Approved(w) \cup {c} \in SUBSET Contacts
  BY DEF Approved
<1> QED
  BY <1>1, RosterCardinality

\* A workflow with one more confirmation is a workflow.
LEMMA ConfirmationRowTypes ==
    ASSUME TypeOK, NEW w \in Workflows, NEW c \in Contacts
    PROVE  Confirmed(w, c) \in WorkflowRow /\ Counting(w, c) \in WorkflowRow
<1> DEFINE n == Cardinality(Approved(w) \cup {c})
           a == [workflows[w] EXCEPT !.approved = n]
           b == [Confirmed(w, c) EXCEPT !.state = "RELEASE_PENDING"]
<1>1. workflows[w] \in WorkflowRow /\ workflows[w].version + 1 \in Nat
  BY DEF TypeOK, WorkflowRow
<1>2. now + DAY \in Nat
  BY DayAssumption DEF TypeOK
<1>3. a \in WorkflowRow
  BY <1>1, ApprovedType, RowField
<1>4. Confirmed(w, c) = [a EXCEPT !.version = workflows[w].version + 1]
  BY DEF Confirmed
<1>5. Confirmed(w, c) \in WorkflowRow
  BY <1>1, <1>3, <1>4, RowField
<1>6. b \in WorkflowRow
  BY <1>5, RowField DEF States, ActiveStates
<1>7. Counting(w, c) = [b EXCEPT !.releaseAt = now + DAY]
  BY DEF Counting
<1> QED
  BY <1>2, <1>5, <1>6, <1>7, RowField

\* Writing one entry of a table of workflows and contacts keeps its type.
LEMMA TableEntry ==
    ASSUME NEW S, NEW f \in [Workflows -> [Contacts -> S]],
           NEW w \in Workflows, NEW c \in Contacts, NEW e \in S
    PROVE  [f EXCEPT ![w][c] = e] \in [Workflows -> [Contacts -> S]]
  OBVIOUS

\* The schedule, the jobs and the rows that a step leaves alone or rewrites
USE DEF Schedules, AllJobs

-----------------------------------------------------------------------------
(* Type correctness *)

\* The state after setup is well typed.
LEMMA InitType == Init => TypeOK
<1> SUFFICES ASSUME Init PROVE TypeOK
  OBVIOUS
<1>1. PICK n \in Thresholds :
          /\ schedule = [version |-> 1, threshold |-> n, deadline |-> Deadline(0, n),
                         status |-> "ACTIVE"]
          /\ jobs = {EvaluateJob(1, Deadline(0, n))}
  BY DEF Init
<1>2. Deadline(0, n) \in Nat
  BY DeadlineType, ThresholdsAssumption
<1>3. schedule \in Schedules /\ jobs \in SUBSET AllJobs
  BY <1>1, <1>2 DEF EvaluateJob, EvaluateJobs
<1>4. NoWorkflow \in WorkflowRow
  BY DEF NoWorkflow, WorkflowRow, States, Null
<1>5. workflows \in [Workflows -> WorkflowRow]
  BY <1>4 DEF Init
<1> QED
  BY <1>3, <1>5, DayAssumption DEF Init, TypeOK, Decisions, FragmentStatuses, SessionStatuses

\* The evaluation of a deadline keeps the types.
LEMMA EvaluateType ==
    ASSUME TypeOK, EvaluateStep
    PROVE  TypeOK'
<1>1. ASSUME NEW j \in jobs, NEW w \in Workflows, StartDeathWorkflow(j, w)
      PROVE  TypeOK'
  <2>1. DeathThreshold(Cardinality(generation.roster)) \in Nat
    BY RosterCardinality, ThresholdType DEF TypeOK
  <2>2. workflows' \in [Workflows -> WorkflowRow]
    BY <1>1, <2>1 DEF TypeOK, StartDeathWorkflow, WorkflowRow, States, ActiveStates, Null
  <2>3. schedule' \in Schedules
    BY <1>1 DEF TypeOK, StartDeathWorkflow
  <2>4. jobs' \in SUBSET AllJobs
    BY <1>1 DEF TypeOK, StartDeathWorkflow, Done
  <2> QED
    BY <1>1, <2>2, <2>3, <2>4 DEF TypeOK, StartDeathWorkflow, ownerVars, rosterVars
<1>2. ASSUME NEW j \in jobs, EvaluateCheckinClosed(j) \/ EvaluateCheckinExhausted(j)
      PROVE  TypeOK'
  BY <1>2 DEF TypeOK, EvaluateCheckinClosed, EvaluateCheckinExhausted,
              ownerVars, rosterVars, workflowVars
<1> QED
  BY <1>1, <1>2 DEF EvaluateStep

\* The fragment job keeps the types.
LEMMA FragmentType ==
    ASSUME TypeOK, FragmentStep
    PROVE  TypeOK'
<1> SUFFICES ASSUME NEW w \in Workflows, NEW c \in Contacts,
                    \/ ProcessSubmittedFragment(w, c)
                    \/ ProcessSubmittedFragmentExhausted(w, c)
                    \/ RecordConfirmation(w, c)
                    \/ ReachThreshold(w, c)
                    \/ FragmentJobClosed(w, c)
             PROVE  TypeOK'
  BY DEF FragmentStep
<1>1. CASE ProcessSubmittedFragment(w, c)
  <2>1. /\ [fragments EXCEPT ![w][c] = "VALIDATED"] \in [Workflows -> [Contacts -> FragmentStatuses]]
        /\ [fragments EXCEPT ![w][c] = "REJECTED"] \in [Workflows -> [Contacts -> FragmentStatuses]]
    BY TableEntry DEF TypeOK, FragmentStatuses
  <2>2. fragments' \in [Workflows -> [Contacts -> FragmentStatuses]]
    BY <1>1, <2>1 DEF ProcessSubmittedFragment
  <2>3. jobs' \in SUBSET AllJobs
    BY <1>1 DEF TypeOK, ProcessSubmittedFragment, Done
  <2> QED
    BY <1>1, <2>2, <2>3 DEF TypeOK, ProcessSubmittedFragment, ownerVars, rosterVars
<1>2. CASE ProcessSubmittedFragmentExhausted(w, c) \/ FragmentJobClosed(w, c)
  BY <1>2 DEF TypeOK, ProcessSubmittedFragmentExhausted, FragmentJobClosed,
              ownerVars, rosterVars, workflowVars
<1>3. CASE RecordConfirmation(w, c)
  <2>1. actions' \in [Workflows -> [Contacts -> Decisions]]
    BY <1>3, TableEntry DEF TypeOK, RecordConfirmation, Decisions
  <2>2. workflows' \in [Workflows -> WorkflowRow]
    BY <1>3, ConfirmationRowTypes DEF TypeOK, RecordConfirmation
  <2>3. jobs' \in SUBSET AllJobs
    BY <1>3 DEF TypeOK, RecordConfirmation, Done
  <2> QED
    BY <1>3, <2>1, <2>2, <2>3 DEF TypeOK, RecordConfirmation, ownerVars, rosterVars
<1>4. CASE ReachThreshold(w, c)
  <2>1. actions' \in [Workflows -> [Contacts -> Decisions]]
    BY <1>4, TableEntry DEF TypeOK, ReachThreshold, Decisions
  <2>2. now + DAY \in Nat
    BY DayAssumption DEF TypeOK
  <2>3. workflows' \in [Workflows -> WorkflowRow]
    BY <1>4, ConfirmationRowTypes DEF TypeOK, ReachThreshold
  <2>4. session' \in [Workflows -> SessionStatuses]
    BY <1>4 DEF TypeOK, ReachThreshold, SessionStatuses
  <2>5. fragments' \in [Workflows -> [Contacts -> FragmentStatuses]]
    BY <1>4, DestroyedType DEF TypeOK, ReachThreshold
  <2>6. AdvanceJob(w, workflows[w].version + 1, now + DAY) \in AdvanceJobs
    BY <2>2 DEF TypeOK, WorkflowRow, AdvanceJob, AdvanceJobs
  <2>7. jobs' \in SUBSET AllJobs
    BY <1>4, <2>6 DEF TypeOK, ReachThreshold, Done
  <2> QED
    BY <1>4, <2>1, <2>3, <2>4, <2>5, <2>7 DEF TypeOK, ReachThreshold, ownerVars, rosterVars
<1> QED
  BY <1>1, <1>2, <1>3, <1>4

\* The lock and the release keep the types.
LEMMA ReleaseType ==
    ASSUME TypeOK, AdvanceStep \/ FinalizeStep
    PROVE  TypeOK'
<1>1. ASSUME NEW j \in jobs, AdvanceRelease(j)
      PROVE  TypeOK'
  <2>1. j \in AdvanceJobs
    BY <1>1, JobTypes DEF AdvanceRelease
  <2>2. j.workflow \in Workflows /\ j.version + 1 \in Nat
    BY <2>1 DEF AdvanceJobs
  <2>3. workflows' \in [Workflows -> WorkflowRow]
    BY <1>1, <2>2, ReleaseRowTypes DEF TypeOK, AdvanceRelease
  <2>4. FinalizeJob(j.workflow, j.version + 1) \in FinalizeJobs
    BY <2>2 DEF FinalizeJob, FinalizeJobs
  <2>5. jobs' \in SUBSET AllJobs
    BY <1>1, <2>4 DEF TypeOK, AdvanceRelease, Done
  <2> QED
    BY <1>1, <2>3, <2>5 DEF TypeOK, AdvanceRelease, ownerVars, rosterVars
<1>2. ASSUME NEW j \in jobs, AdvanceReleaseClosed(j) \/ FinalizePublicationClosed(j)
      PROVE  TypeOK'
  BY <1>2 DEF TypeOK, AdvanceReleaseClosed, FinalizePublicationClosed,
              ownerVars, rosterVars, workflowVars
<1>3. ASSUME NEW j \in jobs, FinalizePublication(j)
      PROVE  TypeOK'
  <2>1. j \in FinalizeJobs
    BY <1>3, JobTypes DEF FinalizePublication
  <2>2. j.workflow \in Workflows
    BY <2>1 DEF FinalizeJobs
  <2>3. workflows' \in [Workflows -> WorkflowRow]
    BY <1>3, <2>2, ReleaseRowTypes DEF TypeOK, FinalizePublication
  <2>4. session' \in [Workflows -> SessionStatuses]
    BY <1>3 DEF TypeOK, FinalizePublication, SessionStatuses
  <2>5. jobs' \in SUBSET AllJobs
    BY <1>3 DEF TypeOK, FinalizePublication, Done
  <2> QED
    BY <1>3, <2>3, <2>4, <2>5 DEF TypeOK, FinalizePublication, ownerVars, rosterVars
<1> QED
  BY <1>1, <1>2, <1>3 DEF AdvanceStep, FinalizeStep

\* The deadline scanner keeps the types.
LEMMA ReconcileType ==
    ASSUME TypeOK, ReconcileStep
    PROVE  TypeOK'
<1>1. CASE ReconcileCheckins
  <2>1. EvaluateJob(schedule.version, schedule.deadline) \in EvaluateJobs
    BY DEF TypeOK, EvaluateJob, EvaluateJobs
  <2>2. EvaluateKey(schedule.version) \in EvaluateKeys
    BY DEF TypeOK, EvaluateKey, EvaluateKeys
  <2> QED
    BY <1>1, <2>1, <2>2 DEF TypeOK, ReconcileCheckins, ownerVars, rosterVars, workflowVars
<1>2. ASSUME NEW w \in Workflows, ReconcileReleases(w)
      PROVE  TypeOK'
  <2>1. workflows[w] \in WorkflowRow
    BY DEF TypeOK
  <2>2. FinalizeJob(w, workflows[w].version) \in FinalizeJobs
    BY <2>1 DEF WorkflowRow, FinalizeJob, FinalizeJobs
  <2>3. AdvanceKey(w, workflows[w].version) \in AdvanceKeys
    BY <2>1 DEF WorkflowRow, AdvanceKey, AdvanceKeys
  <2>4. AdvanceJob(w, workflows[w].version, workflows[w].releaseAt) \in AdvanceJobs
    BY <2>1 DEF WorkflowRow, AdvanceJob, AdvanceJobs
  <2> QED
    BY <1>2, <2>2, <2>3, <2>4 DEF TypeOK, ReconcileReleases, ownerVars, rosterVars, workflowVars
<1> QED
  BY <1>1, <1>2 DEF ReconcileStep

\* The decisions of the contacts keep the types.
LEMMA ContactType ==
    ASSUME TypeOK, ContactStep
    PROVE  TypeOK'
<1>1. ASSUME NEW w \in Workflows, NEW c \in Contacts, AffirmDeath(w, c)
      PROVE  TypeOK'
  <2>1. fragments' \in [Workflows -> [Contacts -> FragmentStatuses]]
    BY <1>1, TableEntry DEF TypeOK, AffirmDeath, FragmentStatuses
  <2>2. FragmentJob(w, c) \in FragmentJobs
    BY DEF FragmentJob, FragmentJobs
  <2>3. jobs' \in SUBSET AllJobs
    BY <1>1, <2>2 DEF TypeOK, AffirmDeath
  <2> QED
    BY <1>1, <2>1, <2>3 DEF TypeOK, AffirmDeath, ownerVars, rosterVars
<1>2. ASSUME NEW w \in Workflows, NEW c \in Contacts, ConfirmAlive(w, c)
      PROVE  TypeOK'
  <2>1. actions' \in [Workflows -> [Contacts -> Decisions]]
    BY <1>2, TableEntry DEF TypeOK, ConfirmAlive, Decisions
  <2>2. workflows' \in [Workflows -> WorkflowRow]
    BY <1>2, CancelledType DEF TypeOK, ConfirmAlive
  <2>3. fragments' \in [Workflows -> [Contacts -> FragmentStatuses]]
    BY <1>2, DestroyedType DEF TypeOK, ConfirmAlive
  <2>4. session' \in [Workflows -> SessionStatuses]
    BY <1>2, DestroyedType DEF TypeOK, ConfirmAlive
  <2>5. schedule' \in Schedules /\ lastCheckIn' \in Nat
    BY <1>2, RescheduledType DEF TypeOK, ConfirmAlive
  <2>6. jobs' \in SUBSET AllJobs
    BY <1>2, RescheduledType DEF TypeOK, ConfirmAlive
  <2> QED
    BY <1>2, <2>1, <2>2, <2>3, <2>4, <2>5, <2>6 DEF TypeOK, ConfirmAlive, rosterVars
<1> QED
  BY <1>1, <1>2 DEF ContactStep

\* What a login and a check-in do, the session of the owner apart
LEMMA AuthenticateOwnerType ==
    ASSUME TypeOK, AuthenticateOwner, sessionUntil' \in Nat
    PROVE  TypeOK'
<1>1. workflows' \in [Workflows -> WorkflowRow]
  BY CancelledType DEF TypeOK, AuthenticateOwner
<1>2. fragments' \in [Workflows -> [Contacts -> FragmentStatuses]]
  BY DestroyedType DEF TypeOK, AuthenticateOwner
<1>3. session' \in [Workflows -> SessionStatuses]
  BY DestroyedType DEF TypeOK, AuthenticateOwner
<1>4. schedule' \in Schedules /\ lastCheckIn' \in Nat
  BY RecordCheckInType DEF AuthenticateOwner
<1>5. jobs' \in SUBSET AllJobs
  BY RescheduledType DEF TypeOK, AuthenticateOwner
<1> QED
  BY <1>1, <1>2, <1>3, <1>4, <1>5 DEF TypeOK, AuthenticateOwner, rosterVars

\* The requests of the owner keep the types.
LEMMA OwnerType ==
    ASSUME TypeOK, OwnerStep
    PROVE  TypeOK'
<1>0. now + DAY \in Nat
  BY DayAssumption DEF TypeOK
<1>1. ASSUME NEW w \in Workflows, CancelDeathWorkflow(w)
      PROVE  TypeOK'
  <2>1. workflows' \in [Workflows -> WorkflowRow]
    BY <1>1, CancelledType DEF TypeOK, CancelDeathWorkflow
  <2>2. session' \in [Workflows -> SessionStatuses]
    BY <1>1, DestroyedType DEF TypeOK, CancelDeathWorkflow
  <2>3. schedule' \in Schedules /\ lastCheckIn' \in Nat
    BY <1>1, RescheduledType DEF TypeOK, CancelDeathWorkflow
  <2>4. jobs' \in SUBSET AllJobs
    BY <1>1, RescheduledType DEF TypeOK, CancelDeathWorkflow
  <2> QED
    BY <1>1, <2>1, <2>2, <2>3, <2>4 DEF TypeOK, CancelDeathWorkflow, rosterVars
<1>2. CASE LoginOwner \/ CheckInOwner
  <2>1. sessionUntil' \in Nat
    BY <1>0, <1>2 DEF TypeOK, LoginOwner, CheckInOwner
  <2> QED
    BY <1>2, <2>1, AuthenticateOwnerType DEF LoginOwner, CheckInOwner
<1>3. ASSUME NEW n \in Thresholds, UpdateOwnerSettings(n)
      PROVE  TypeOK'
  <2>1. Deadline(lastCheckIn, n) \in Nat
    BY DeadlineType, ThresholdsAssumption DEF TypeOK
  <2>2. schedule' \in Schedules
    BY <1>3, <2>1 DEF TypeOK, UpdateOwnerSettings
  <2>3. EvaluateJob(schedule.version + 1, Deadline(lastCheckIn, n)) \in EvaluateJobs
    BY <2>1 DEF TypeOK, EvaluateJob, EvaluateJobs
  <2>4. jobs' \in SUBSET AllJobs
    BY <1>3, <2>3 DEF TypeOK, UpdateOwnerSettings
  <2> QED
    BY <1>3, <2>2, <2>4 DEF TypeOK, UpdateOwnerSettings, ownerVars, rosterVars, workflowVars
<1>4. CASE ChangeOwnerPassword \/ ArmOwner
  BY <1>0, <1>4 DEF TypeOK, ChangeOwnerPassword, ArmOwner, rosterVars, workflowVars
<1>5. ASSUME NEW c \in Contacts, CheckRemoval(c) \/ RemoveContact(c)
      PROVE  TypeOK'
  BY <1>5 DEF TypeOK, CheckRemoval, RemoveContact, ownerVars, workflowVars
<1>6. ASSUME NEW added \in SUBSET Contacts, ActivateShareGeneration(added)
      PROVE  TypeOK'
  BY <1>6 DEF TypeOK, ActivateShareGeneration, ownerVars, workflowVars
<1> QED
  BY <1>1, <1>2, <1>3, <1>4, <1>5, <1>6 DEF OwnerStep

\* The password recovery keeps the types.
LEMMA RecoveryType ==
    ASSUME TypeOK, RecoveryStep
    PROVE  TypeOK'
<1>1. CASE StartRecovery \/ ExpireRecovery
  BY <1>1 DEF TypeOK, StartRecovery, ExpireRecovery, ownerVars, rosterVars, workflowVars
<1>2. CASE CompletePasswordReset
  <2>1. schedule' \in Schedules /\ lastCheckIn' \in Nat
    BY <1>2, RecordCheckInType DEF CompletePasswordReset
  <2> QED
    BY <1>2, <2>1 DEF TypeOK, CompletePasswordReset, rosterVars, workflowVars
<1> QED
  BY <1>1, <1>2 DEF RecoveryStep

\* Every step keeps the types.
LEMMA StepType ==
    ASSUME TypeOK, [Next]_vars
    PROVE  TypeOK'
<1>1. CASE Tick
  BY <1>1 DEF TypeOK, Tick, ownerVars, rosterVars, workflowVars
<1>2. CASE UNCHANGED vars
  BY <1>2 DEF TypeOK, vars, ownerVars, rosterVars, workflowVars
<1> QED
  BY <1>1, <1>2, EvaluateType, FragmentType, ReleaseType, ReconcileType, ContactType,
     OwnerType, RecoveryType DEF Next, WorkerStep

\* The rows, jobs and keys keep their types in every reachable state, whatever
\* the roster, the thresholds and the bounds.
THEOREM TypeCorrect == Spec => []TypeOK
<1> QED
  BY InitType, StepType, PTL DEF Spec

-----------------------------------------------------------------------------
(* A release needs a quorum and keys live only while they are needed *)

\* The fields of the rows the transactions write
LEMMA CancelledFields ==
    ASSUME TypeOK, NEW w \in Workflows
    PROVE  /\ Cancelled(w).state = "CANCELLED"
           /\ Cancelled(w).roster = workflows[w].roster
           /\ Cancelled(w).lockedAt = workflows[w].lockedAt
  BY DEF TypeOK, Cancelled, WorkflowRow

\* ... of a recorded confirmation,
LEMMA ConfirmedFields ==
    ASSUME TypeOK, NEW w \in Workflows, NEW c \in Contacts
    PROVE  /\ Confirmed(w, c).state = workflows[w].state
           /\ Confirmed(w, c).roster = workflows[w].roster
           /\ Confirmed(w, c).required = workflows[w].required
           /\ Confirmed(w, c).approved = Cardinality(Approved(w) \cup {c})
           /\ Confirmed(w, c).lockedAt = workflows[w].lockedAt
  BY DEF TypeOK, Confirmed, WorkflowRow

\* ... of the one that starts the countdown,
LEMMA CountingFields ==
    ASSUME TypeOK, NEW w \in Workflows, NEW c \in Contacts
    PROVE  /\ Counting(w, c).state = "RELEASE_PENDING"
           /\ Counting(w, c).roster = workflows[w].roster
           /\ Counting(w, c).required = workflows[w].required
           /\ Counting(w, c).lockedAt = workflows[w].lockedAt
<1>1. Confirmed(w, c) \in WorkflowRow
  BY ConfirmationRowTypes
<1> QED
  BY <1>1, ConfirmedFields DEF Counting, WorkflowRow

\* ... of the lock and of the release.
LEMMA ReleaseFields ==
    ASSUME TypeOK, NEW w \in Workflows
    PROVE  /\ LockedNow(w).state = workflows[w].state
           /\ LockedNow(w).roster = workflows[w].roster
           /\ LockedNow(w).required = workflows[w].required
           /\ LockedNow(w).approved = workflows[w].approved
           /\ Released(w).state = "RELEASED"
           /\ Released(w).roster = workflows[w].roster
           /\ Released(w).required = workflows[w].required
           /\ Released(w).lockedAt = workflows[w].lockedAt
  BY DEF TypeOK, LockedNow, Released, WorkflowRow

\* A workflow no step touched keeps its invariant.
LEMMA WorkflowFrame ==
    ASSUME NEW w \in Workflows, WorkflowInv(w),
           workflows'[w] = workflows[w], actions'[w] = actions[w],
           fragments'[w] = fragments[w], session'[w] = session[w]
    PROVE  WorkflowInv(w)'
  BY DEF WorkflowInv, Approved, Locked

\* However a workflow is cancelled, by a contact, by the owner's countdown
\* cancellation or by an authentication.
LEMMA WorkflowCancelled ==
    ASSUME TypeOK, NEW w \in Workflows, WorkflowInv(w), ~Locked(w),
           workflows'[w] = Cancelled(w),
           Approved(w)' \subseteq Approved(w),
           \/ fragments'[w] = DestroyedFragments(w)
           \/ fragments'[w] = fragments[w] /\ workflows[w].state = "RELEASE_PENDING",
           session'[w] = DestroyedSession(w)
    PROVE  WorkflowInv(w)'
<1>1. /\ workflows'[w].state = "CANCELLED"
      /\ workflows'[w].roster = workflows[w].roster
      /\ workflows'[w].lockedAt = workflows[w].lockedAt
  BY CancelledFields
<1>2. \A c \in Contacts : fragments'[w][c] \notin {"PENDING", "VALIDATED"}
  BY DEF WorkflowInv, DestroyedFragments
<1>3. \A c \in Contacts : fragments'[w][c] # "NONE" => c \in workflows[w].roster
  BY DEF WorkflowInv, DestroyedFragments
<1>4. session'[w] # "ACTIVE"
  BY DEF DestroyedSession
<1> QED
  BY <1>1, <1>2, <1>3, <1>4 DEF WorkflowInv, Locked

\* The invariant holds before any workflow exists.
LEMMA InitRelease == Init => ReleaseInv
<1> SUFFICES ASSUME Init PROVE ReleaseInv
  OBVIOUS
<1>1. ASSUME NEW w \in Workflows
      PROVE  WorkflowInv(w)
  <2>1. workflows[w] = NoWorkflow
    BY DEF Init
  <2>2. Approved(w) = {}
    BY DEF Init, Approved
  <2> QED
    BY <2>1, <2>2 DEF Init, WorkflowInv, NoWorkflow, Locked
<1> QED
  BY <1>1, RosterAssumption DEF Init, ReleaseInv, RosterInv

\* A step that leaves contacts and removals keeps the minimum.
LEMMA RosterFrame ==
    ASSUME RosterInv, UNCHANGED rosterVars
    PROVE  RosterInv'
  BY DEF RosterInv, rosterVars

\* A step that writes neither rows, decisions, fragments nor sessions, and
\* leaves enough contacts
LEMMA ReleaseFrame ==
    ASSUME ReleaseInv, UNCHANGED workflowVars, UNCHANGED rosterVars \/ RosterInv'
    PROVE  ReleaseInv'
<1>0. RosterInv'
  BY RosterFrame DEF ReleaseInv
<1>1. ASSUME NEW w \in Workflows PROVE WorkflowInv(w)'
  BY WorkflowFrame DEF ReleaseInv, workflowVars
<1> QED
  BY <1>0, <1>1 DEF ReleaseInv

\* A new workflow satisfies it: its threshold is positive and nobody has decided.
LEMMA StartRelease ==
    ASSUME TypeOK, ReleaseInv, NEW j, NEW w \in Workflows, StartDeathWorkflow(j, w)
    PROVE  ReleaseInv'
<1>1. workflows[w].state = "NONE" /\ WorkflowInv(w)
  BY DEF StartDeathWorkflow, ReleaseInv
<1>2. /\ workflows'[w].state = "AWAITING_CONFIRMATIONS"
      /\ workflows'[w].required = DeathThreshold(Cardinality(generation.roster))
      /\ workflows'[w].approved = 0
      /\ workflows'[w].lockedAt = Null
  BY DEF StartDeathWorkflow, TypeOK
<1>3. Approved(w)' = {} /\ Cardinality({}) = 0
  BY <1>1, FS_EmptySet DEF WorkflowInv, Approved, StartDeathWorkflow
<1>4. DeathThreshold(Cardinality(generation.roster)) > 0
  <2>1. Cardinality(generation.roster) \in Nat /\ Cardinality(generation.roster) >= 1
    BY RosterCardinality, BoundsAssumption
       DEF TypeOK, StartDeathWorkflow, SnapshotValid, ReleaseInv, RosterInv
  <2> QED
    BY <2>1 DEF DeathThreshold
<1>5. WorkflowInv(w)'
  BY <1>1, <1>2, <1>3, <1>4 DEF WorkflowInv, StartDeathWorkflow, Locked
<1>6. ASSUME NEW v \in Workflows, v # w PROVE WorkflowInv(v)'
  BY <1>6, WorkflowFrame DEF ReleaseInv, StartDeathWorkflow, TypeOK
<1> QED
  BY <1>5, <1>6, RosterFrame DEF ReleaseInv, StartDeathWorkflow

\* A fragment job preserves it, in either of its transactions.
LEMMA FragmentRelease ==
    ASSUME TypeOK, ReleaseInv, FragmentStep
    PROVE  ReleaseInv'
<1> SUFFICES ASSUME NEW w \in Workflows, NEW c \in Contacts,
                    \/ ProcessSubmittedFragment(w, c)
                    \/ ProcessSubmittedFragmentExhausted(w, c)
                    \/ RecordConfirmation(w, c)
                    \/ ReachThreshold(w, c)
                    \/ FragmentJobClosed(w, c)
             PROVE  ReleaseInv'
  BY DEF FragmentStep
<1>0. WorkflowInv(w) /\ RosterInv
  BY DEF ReleaseInv
<1>1. CASE ProcessSubmittedFragment(w, c)
  <2>1. /\ fragments'[w][c] \in {"VALIDATED", "REJECTED"}
        /\ \A d \in Contacts : d # c => fragments'[w][d] = fragments[w][d]
    BY <1>1 DEF TypeOK, ProcessSubmittedFragment
  <2>2. /\ workflows' = workflows /\ actions' = actions /\ session' = session
        /\ workflows[w].state = "AWAITING_CONFIRMATIONS" /\ fragments[w][c] = "PENDING"
    BY <1>1 DEF ProcessSubmittedFragment
  <2>3. Approved(w)' = Approved(w) /\ c \notin Approved(w)
    BY <1>0, <2>2 DEF Approved, WorkflowInv
  <2>4. WorkflowInv(w)'
    BY <1>0, <2>1, <2>2, <2>3 DEF WorkflowInv, Approved, Locked
  <2>5. ASSUME NEW v \in Workflows, v # w PROVE WorkflowInv(v)'
    BY <1>1, <2>2, <2>5, WorkflowFrame DEF ReleaseInv, ProcessSubmittedFragment, TypeOK
  <2> QED
    BY <1>0, <1>1, <2>4, <2>5, RosterFrame DEF ReleaseInv, ProcessSubmittedFragment
<1>2. CASE ProcessSubmittedFragmentExhausted(w, c) \/ FragmentJobClosed(w, c)
  BY <1>0, <1>2, ReleaseFrame
     DEF ProcessSubmittedFragmentExhausted, FragmentJobClosed, rosterVars
<1>3. CASE RecordConfirmation(w, c)
  <2>1. /\ Approved(w)' = Approved(w) \cup {c}
        /\ \A d \in Contacts : actions'[w][d] # "ALIVE"
    BY <1>0, <1>3 DEF TypeOK, RecordConfirmation, Recordable, Approved, WorkflowInv
  <2>2. /\ workflows'[w].state = "AWAITING_CONFIRMATIONS"
        /\ workflows'[w].roster = workflows[w].roster
        /\ workflows'[w].required = workflows[w].required
        /\ workflows'[w].approved = Cardinality(Approved(w) \cup {c})
        /\ workflows'[w].lockedAt = workflows[w].lockedAt
    BY <1>3, ConfirmedFields DEF TypeOK, RecordConfirmation, Recordable
  <2>3. Cardinality(Approved(w) \cup {c}) < workflows[w].required
    <3>1. ~(Cardinality(Approved(w) \cup {c}) >= workflows[w].required)
      BY <1>3 DEF RecordConfirmation, ThresholdReached
    <3>2. workflows[w].required \in Nat
      BY DEF TypeOK, WorkflowRow
    <3>3. Cardinality(Approved(w) \cup {c}) \in Nat
      BY ApprovedType
    <3> QED
      BY <3>1, <3>2, <3>3
  <2>4. fragments' = fragments /\ session' = session /\ fragments[w][c] = "VALIDATED"
        /\ workflows[w].state = "AWAITING_CONFIRMATIONS"
    BY <1>3 DEF RecordConfirmation, Recordable
  <2>5. \A d \in Approved(w) \cup {c} : fragments[w][d] = "VALIDATED"
    BY <1>0, <2>4 DEF WorkflowInv
  <2>6. WorkflowInv(w)'
    BY <1>0, <2>1, <2>2, <2>3, <2>4, <2>5 DEF WorkflowInv, Locked
  <2>7. ASSUME NEW v \in Workflows, v # w PROVE WorkflowInv(v)'
    BY <1>3, <2>7, WorkflowFrame DEF ReleaseInv, RecordConfirmation, TypeOK
  <2> QED
    BY <1>0, <1>3, <2>6, <2>7, RosterFrame DEF ReleaseInv, RecordConfirmation
<1>4. CASE ReachThreshold(w, c)
  <2>1. /\ Approved(w)' = Approved(w) \cup {c}
        /\ \A d \in Contacts : actions'[w][d] # "ALIVE"
    BY <1>0, <1>4 DEF TypeOK, ReachThreshold, Recordable, Approved, WorkflowInv
  <2>2. /\ workflows'[w].state = "RELEASE_PENDING"
        /\ workflows'[w].roster = workflows[w].roster
        /\ workflows'[w].required = workflows[w].required
        /\ workflows'[w].lockedAt = workflows[w].lockedAt
    BY <1>4, CountingFields DEF TypeOK, ReachThreshold
  <2>3. Cardinality(Approved(w) \cup {c}) >= workflows[w].required
    BY <1>4 DEF ReachThreshold, ThresholdReached
  <2>4. fragments'[w] = DestroyedFragments(w) /\ session'[w] = "ACTIVE"
    BY <1>4 DEF TypeOK, ReachThreshold
  <2>5. /\ fragments[w][c] = "VALIDATED"
        /\ workflows[w].state = "AWAITING_CONFIRMATIONS"
    BY <1>4 DEF ReachThreshold, Recordable
  <2>6. \A d \in Contacts : /\ fragments'[w][d] \notin {"PENDING", "VALIDATED"}
                            /\ fragments'[w][d] # "NONE" => fragments[w][d] # "NONE"
    BY <2>4 DEF DestroyedFragments
  <2>7. WorkflowInv(w)'
    BY <1>0, <2>1, <2>2, <2>3, <2>4, <2>5, <2>6 DEF WorkflowInv, Locked
  <2>8. ASSUME NEW v \in Workflows, v # w PROVE WorkflowInv(v)'
    BY <1>4, <2>8, WorkflowFrame DEF ReleaseInv, ReachThreshold, TypeOK
  <2> QED
    BY <1>0, <1>4, <2>7, <2>8, RosterFrame DEF ReleaseInv, ReachThreshold
<1> QED
  BY <1>1, <1>2, <1>3, <1>4

\* So does the publish lock,
LEMMA LockRelease ==
    ASSUME TypeOK, ReleaseInv, NEW j \in jobs, AdvanceRelease(j)
    PROVE  ReleaseInv'
<1> DEFINE w == j.workflow
<1>1. w \in Workflows
  BY JobTypes DEF AdvanceRelease, AdvanceJobs
<1>2. WorkflowInv(w) /\ RosterInv
  BY <1>1 DEF ReleaseInv
<1>3. /\ workflows'[w] = LockedNow(w) /\ workflows[w].state = "RELEASE_PENDING"
      /\ actions' = actions /\ fragments' = fragments /\ session' = session
      /\ RosterInv'
  BY <1>1, <1>2, RosterFrame DEF TypeOK, AdvanceRelease
<1>4. WorkflowInv(w)'
  BY <1>1, <1>2, <1>3, ReleaseFields DEF WorkflowInv, Approved, Locked
<1>5. ASSUME NEW v \in Workflows, v # w PROVE WorkflowInv(v)'
  <2>1. workflows'[v] = workflows[v] /\ WorkflowInv(v)
    BY <1>1, <1>5 DEF TypeOK, AdvanceRelease, ReleaseInv
  <2> QED
    BY <1>3, <2>1, WorkflowFrame
<1> QED
  BY <1>2, <1>3, <1>4, <1>5 DEF ReleaseInv

\* ... the release,
LEMMA PublishRelease ==
    ASSUME TypeOK, ReleaseInv, NEW j \in jobs, FinalizePublication(j)
    PROVE  ReleaseInv'
<1> DEFINE w == j.workflow
<1>1. w \in Workflows
  BY JobTypes DEF FinalizePublication, FinalizeJobs
<1>2. WorkflowInv(w) /\ RosterInv
  BY <1>1 DEF ReleaseInv
<1>3. /\ workflows'[w] = Released(w) /\ workflows[w].state = "RELEASE_PENDING"
      /\ session'[w] = "CONSUMED"
      /\ actions' = actions /\ fragments' = fragments /\ RosterInv'
  BY <1>1, <1>2, RosterFrame DEF TypeOK, FinalizePublication
<1>4. WorkflowInv(w)'
  BY <1>1, <1>2, <1>3, ReleaseFields DEF WorkflowInv, Approved, Locked
<1>5. ASSUME NEW v \in Workflows, v # w PROVE WorkflowInv(v)'
  <2>1. workflows'[v] = workflows[v] /\ session'[v] = session[v] /\ WorkflowInv(v)
    BY <1>1, <1>5 DEF TypeOK, FinalizePublication, ReleaseInv
  <2> QED
    BY <1>3, <2>1, WorkflowFrame
<1> QED
  BY <1>2, <1>3, <1>4, <1>5 DEF ReleaseInv

\* ... the word of a contact,
LEMMA ContactRelease ==
    ASSUME TypeOK, ReleaseInv, NEW w \in Workflows, NEW c \in Contacts,
           AffirmDeath(w, c) \/ ConfirmAlive(w, c)
    PROVE  ReleaseInv'
<1>0. WorkflowInv(w) /\ RosterInv
  BY DEF ReleaseInv
<1>1. CASE AffirmDeath(w, c)
  <2>1. /\ fragments'[w][c] = "PENDING" /\ fragments[w][c] = "NONE"
        /\ \A d \in Contacts : d # c => fragments'[w][d] = fragments[w][d]
        /\ c \in workflows[w].roster
    BY <1>1 DEF TypeOK, AffirmDeath
  <2>2. /\ workflows' = workflows /\ actions' = actions /\ session' = session
        /\ workflows[w].state = "AWAITING_CONFIRMATIONS" /\ actions[w][c] = "NONE"
    BY <1>1 DEF AffirmDeath
  <2>3. Approved(w)' = Approved(w) /\ c \notin Approved(w)
    BY <2>2 DEF Approved
  <2>4. WorkflowInv(w)'
    BY <1>0, <2>1, <2>2, <2>3 DEF WorkflowInv, Approved, Locked
  <2>5. ASSUME NEW v \in Workflows, v # w PROVE WorkflowInv(v)'
    BY <1>1, <2>2, <2>5, WorkflowFrame DEF ReleaseInv, AffirmDeath, TypeOK
  <2> QED
    BY <1>0, <1>1, <2>4, <2>5, RosterFrame DEF ReleaseInv, AffirmDeath
<1>2. CASE ConfirmAlive(w, c)
  <2>1. /\ workflows'[w] = Cancelled(w) /\ fragments'[w] = DestroyedFragments(w)
        /\ session'[w] = DestroyedSession(w) /\ ~Locked(w)
    BY <1>2 DEF TypeOK, ConfirmAlive
  <2>2. Approved(w)' \subseteq Approved(w)
    BY <1>2 DEF TypeOK, ConfirmAlive, Approved
  <2>3. WorkflowInv(w)'
    BY <1>0, <2>1, <2>2, WorkflowCancelled
  <2>4. ASSUME NEW v \in Workflows, v # w PROVE WorkflowInv(v)'
    BY <1>2, <2>4, WorkflowFrame DEF ReleaseInv, ConfirmAlive, TypeOK
  <2> QED
    BY <1>0, <1>2, <2>3, <2>4, RosterFrame DEF ReleaseInv, ConfirmAlive
<1> QED
  BY <1>1, <1>2

\* ... an authentication of the owner, which may cancel a workflow,
LEMMA AuthenticateRelease ==
    ASSUME TypeOK, ReleaseInv, AuthenticateOwner
    PROVE  ReleaseInv'
<1>1. ASSUME NEW w \in Workflows PROVE WorkflowInv(w)'
  <2>1. WorkflowInv(w) /\ actions'[w] = actions[w] /\ Approved(w)' = Approved(w)
    BY DEF ReleaseInv, AuthenticateOwner, Approved
  <2>2. CASE OwnerCancels(w)
    <3>1. /\ workflows'[w] = Cancelled(w) /\ fragments'[w] = DestroyedFragments(w)
          /\ session'[w] = DestroyedSession(w) /\ ~Locked(w)
      BY <2>2 DEF AuthenticateOwner, OwnerCancels
    <3> QED
      BY <2>1, <3>1, WorkflowCancelled
  <2>3. CASE ~OwnerCancels(w)
    <3>1. /\ workflows'[w] = workflows[w] /\ fragments'[w] = fragments[w]
          /\ session'[w] = session[w]
      BY <2>3 DEF AuthenticateOwner
    <3> QED
      BY <2>1, <3>1, WorkflowFrame
  <2> QED
    BY <2>2, <2>3
<1> QED
  BY <1>1, RosterFrame DEF ReleaseInv, AuthenticateOwner

\* ... and every other request of the owner.
LEMMA OwnerRelease ==
    ASSUME TypeOK, ReleaseInv, OwnerStep
    PROVE  ReleaseInv'
<1>0. RosterInv
  BY DEF ReleaseInv
<1>1. ASSUME NEW w \in Workflows, CancelDeathWorkflow(w)
      PROVE  ReleaseInv'
  <2>1. WorkflowInv(w)
    BY DEF ReleaseInv
  <2>2. /\ workflows'[w] = Cancelled(w) /\ fragments'[w] = fragments[w]
        /\ workflows[w].state = "RELEASE_PENDING" /\ ~Locked(w)
        /\ session'[w] = DestroyedSession(w) /\ Approved(w)' = Approved(w)
    BY <1>1 DEF TypeOK, CancelDeathWorkflow, Approved
  <2>3. WorkflowInv(w)'
    BY <2>1, <2>2, WorkflowCancelled
  <2>4. ASSUME NEW v \in Workflows, v # w PROVE WorkflowInv(v)'
    BY <1>1, <2>4, WorkflowFrame DEF ReleaseInv, CancelDeathWorkflow, TypeOK
  <2> QED
    BY <1>0, <1>1, <2>3, <2>4, RosterFrame DEF ReleaseInv, CancelDeathWorkflow
<1>2. CASE LoginOwner \/ CheckInOwner
  BY <1>2, AuthenticateRelease DEF LoginOwner, CheckInOwner
<1>3. ASSUME NEW n \in Thresholds, UpdateOwnerSettings(n)
      PROVE  ReleaseInv'
  BY <1>0, <1>3, ReleaseFrame DEF UpdateOwnerSettings, rosterVars
<1>4. CASE ChangeOwnerPassword \/ ArmOwner
  BY <1>0, <1>4, ReleaseFrame DEF ChangeOwnerPassword, ArmOwner, rosterVars
<1>5. ASSUME NEW c \in Contacts, CheckRemoval(c)
      PROVE  ReleaseInv'
  <2>1. RosterInv'
    BY <1>0, <1>5 DEF CheckRemoval, RosterInv
  <2> QED
    BY <1>5, <2>1, ReleaseFrame DEF CheckRemoval
<1>6. ASSUME NEW c \in Contacts, RemoveContact(c)
      PROVE  ReleaseInv'
  <2>1. IsFiniteSet(contacts) /\ Cardinality(contacts) \in Nat
    BY RosterCardinality DEF TypeOK
  <2>2. c \in contacts /\ Cardinality(contacts) > MinContacts
    BY <1>0, <1>6 DEF RemoveContact, RosterInv
  <2>3. Cardinality(contacts \ {c}) = Cardinality(contacts) - 1
    BY <2>1, <2>2, FS_RemoveElement
  <2>4. Cardinality(contacts \ {c}) >= MinContacts
    BY <2>1, <2>2, <2>3, BoundsAssumption
  <2>5. RosterInv'
    BY <1>6, <2>4 DEF RemoveContact, RosterInv
  <2> QED
    BY <1>6, <2>5, ReleaseFrame DEF RemoveContact
<1>7. ASSUME NEW added \in SUBSET Contacts, ActivateShareGeneration(added)
      PROVE  ReleaseInv'
  <2>1. RosterInv'
    BY <1>7 DEF ActivateShareGeneration, RosterInv
  <2> QED
    BY <1>7, <2>1, ReleaseFrame DEF ActivateShareGeneration
<1> QED
  BY <1>1, <1>2, <1>3, <1>4, <1>5, <1>6, <1>7 DEF OwnerStep

\* Every step preserves the invariant.
LEMMA StepRelease ==
    ASSUME TypeOK, ReleaseInv, [Next]_vars
    PROVE  ReleaseInv'
<1>0. RosterInv
  BY DEF ReleaseInv
<1>1. CASE Tick \/ RecoveryStep \/ ReconcileStep \/ UNCHANGED vars
  BY <1>0, <1>1, ReleaseFrame
     DEF Tick, RecoveryStep, StartRecovery, CompletePasswordReset, ExpireRecovery,
         ReconcileStep,
         ReconcileCheckins, ReconcileReleases, vars, rosterVars, workflowVars
<1>2. CASE EvaluateStep
  <2>1. ASSUME NEW j \in jobs, EvaluateCheckinClosed(j) \/ EvaluateCheckinExhausted(j)
        PROVE  ReleaseInv'
    BY <1>0, <2>1, ReleaseFrame DEF EvaluateCheckinClosed, EvaluateCheckinExhausted, rosterVars
  <2> QED
    BY <1>2, <2>1, StartRelease DEF EvaluateStep
<1>3. CASE AdvanceStep \/ FinalizeStep
  <2>1. ASSUME NEW j \in jobs, AdvanceReleaseClosed(j) \/ FinalizePublicationClosed(j)
        PROVE  ReleaseInv'
    BY <1>0, <2>1, ReleaseFrame DEF AdvanceReleaseClosed, FinalizePublicationClosed, rosterVars
  <2> QED
    BY <1>3, <2>1, LockRelease, PublishRelease DEF AdvanceStep, FinalizeStep
<1> QED
  BY <1>1, <1>2, <1>3, FragmentRelease, ContactRelease, OwnerRelease
     DEF Next, WorkerStep, ContactStep

\* What the decisions, fragments, session and lock of a workflow may be in each
\* of its states holds in every reachable state.
THEOREM ReleaseCorrect == Spec => []ReleaseInv
<1> QED
  BY TypeCorrect, InitRelease, StepRelease, PTL DEF Spec

\* No workflow counts down or is released on fewer confirmations than the
\* threshold it snapshotted, on those of outsiders, or against the word of a
\* contact who called the owner alive.
THEOREM QuorumCorrect == Spec => []ReleaseNeedsQuorum
<1>1. ReleaseInv => ReleaseNeedsQuorum
  BY DEF ReleaseInv, WorkflowInv, ReleaseNeedsQuorum
<1> QED
  BY <1>1, ReleaseCorrect, PTL

\* While confirmations are awaited each has its fragment and one is missing.
THEOREM BackedCorrect == Spec => []ConfirmationsAreBacked
<1>1. ReleaseInv => ConfirmationsAreBacked
  BY DEF ReleaseInv, WorkflowInv, ConfirmationsAreBacked
<1> QED
  BY <1>1, ReleaseCorrect, PTL

\* Fragments and release session can be used only in the state that needs them.
THEOREM SecretsCorrect == Spec => []SecretsOnlyWhileUsable
<1>1. ReleaseInv => SecretsOnlyWhileUsable
  BY DEF ReleaseInv, WorkflowInv, SecretsOnlyWhileUsable
<1> QED
  BY <1>1, ReleaseCorrect, PTL

-----------------------------------------------------------------------------
(* The lock and the end of a workflow are final *)

\* A step that leaves the row of a workflow, its decisions and its session
LEMMA FinalFrame ==
    ASSUME NEW w \in Workflows, WorkflowInv(w),
           workflows'[w] = workflows[w], actions'[w] = actions[w], session'[w] = session[w]
    PROVE  KeepsLockAndEnd(w)
  BY DEF KeepsLockAndEnd, WorkflowInv

\* A step that ends or cancels a workflow which is neither locked nor closed
LEMMA FinalOpen ==
    ASSUME NEW w \in Workflows, WorkflowInv(w), Active(w), ~Locked(w)
    PROVE  KeepsLockAndEnd(w)
  BY DEF KeepsLockAndEnd, Active, ActiveStates

\* The lock and the end of a workflow survive the evaluation of a deadline,
LEMMA StartFinal ==
    ASSUME TypeOK, ReleaseInv, EvaluateStep, NEW w \in Workflows
    PROVE  KeepsLockAndEnd(w)
<1>0. WorkflowInv(w)
  BY DEF ReleaseInv
<1>1. ASSUME NEW j \in jobs, EvaluateCheckinClosed(j) \/ EvaluateCheckinExhausted(j)
      PROVE  KeepsLockAndEnd(w)
  BY <1>0, <1>1, FinalFrame DEF EvaluateCheckinClosed, EvaluateCheckinExhausted, workflowVars
<1>2. ASSUME NEW j \in jobs, NEW v \in Workflows, StartDeathWorkflow(j, v)
      PROVE  KeepsLockAndEnd(w)
  <2>1. CASE v = w
    BY <1>0, <1>2, <2>1 DEF StartDeathWorkflow, KeepsLockAndEnd, WorkflowInv
  <2>2. CASE v # w
    BY <1>0, <1>2, <2>2, FinalFrame DEF StartDeathWorkflow, TypeOK
  <2> QED
    BY <2>1, <2>2
<1> QED
  BY <1>1, <1>2 DEF EvaluateStep

\* ... a fragment job,
LEMMA FragmentFinal ==
    ASSUME TypeOK, ReleaseInv, FragmentStep, NEW w \in Workflows
    PROVE  KeepsLockAndEnd(w)
<1>0. WorkflowInv(w)
  BY DEF ReleaseInv
<1> SUFFICES ASSUME NEW v \in Workflows, NEW c \in Contacts,
                    \/ ProcessSubmittedFragment(v, c)
                    \/ ProcessSubmittedFragmentExhausted(v, c)
                    \/ RecordConfirmation(v, c)
                    \/ ReachThreshold(v, c)
                    \/ FragmentJobClosed(v, c)
             PROVE  KeepsLockAndEnd(w)
  BY DEF FragmentStep
<1>1. CASE \/ ProcessSubmittedFragment(v, c) \/ ProcessSubmittedFragmentExhausted(v, c)
           \/ FragmentJobClosed(v, c)
  BY <1>0, <1>1, FinalFrame
     DEF ProcessSubmittedFragment, ProcessSubmittedFragmentExhausted, FragmentJobClosed,
         workflowVars
<1>2. CASE RecordConfirmation(v, c) \/ ReachThreshold(v, c)
  <2>1. CASE v = w
    <3>1. workflows[w].state = "AWAITING_CONFIRMATIONS"
      BY <1>2, <2>1 DEF RecordConfirmation, ReachThreshold, Recordable
    <3>2. Active(w) /\ ~Locked(w)
      BY <1>0, <3>1 DEF WorkflowInv, Active, ActiveStates
    <3> QED
      BY <1>0, <3>2, FinalOpen
  <2>2. CASE v # w
    BY <1>0, <1>2, <2>2, FinalFrame DEF RecordConfirmation, ReachThreshold, TypeOK
  <2> QED
    BY <2>1, <2>2
<1> QED
  BY <1>1, <1>2

\* ... the lock and the release,
LEMMA ReleaseFinal ==
    ASSUME TypeOK, ReleaseInv, AdvanceStep \/ FinalizeStep, NEW w \in Workflows
    PROVE  KeepsLockAndEnd(w)
<1>0. WorkflowInv(w)
  BY DEF ReleaseInv
<1>1. ASSUME NEW j \in jobs, AdvanceReleaseClosed(j) \/ FinalizePublicationClosed(j)
      PROVE  KeepsLockAndEnd(w)
  BY <1>0, <1>1, FinalFrame DEF AdvanceReleaseClosed, FinalizePublicationClosed, workflowVars
<1>2. ASSUME NEW j \in jobs, AdvanceRelease(j)
      PROVE  KeepsLockAndEnd(w)
  <2>1. CASE j.workflow = w
    BY <1>0, <1>2, <2>1, FinalOpen DEF AdvanceRelease, Active, ActiveStates
  <2>2. CASE j.workflow # w
    BY <1>0, <1>2, <2>2, FinalFrame DEF AdvanceRelease, TypeOK
  <2> QED
    BY <2>1, <2>2
<1>3. ASSUME NEW j \in jobs, FinalizePublication(j)
      PROVE  KeepsLockAndEnd(w)
  <2>1. CASE j.workflow = w
    <3>1. workflows'[w] = Released(w) /\ workflows[w].state = "RELEASE_PENDING"
      BY <1>3, <2>1 DEF FinalizePublication, TypeOK
    <3>2. Released(w).state = "RELEASED" /\ Released(w).lockedAt = workflows[w].lockedAt
      BY ReleaseFields
    <3> QED
      BY <3>1, <3>2 DEF KeepsLockAndEnd
  <2>2. CASE j.workflow # w
    BY <1>0, <1>3, <2>2, FinalFrame DEF FinalizePublication, TypeOK
  <2> QED
    BY <2>1, <2>2
<1> QED
  BY <1>1, <1>2, <1>3 DEF AdvanceStep, FinalizeStep

\* ... the word of a contact,
LEMMA ContactFinal ==
    ASSUME TypeOK, ReleaseInv, ContactStep, NEW w \in Workflows
    PROVE  KeepsLockAndEnd(w)
<1>0. WorkflowInv(w)
  BY DEF ReleaseInv
<1>1. ASSUME NEW v \in Workflows, NEW c \in Contacts, AffirmDeath(v, c)
      PROVE  KeepsLockAndEnd(w)
  BY <1>0, <1>1, FinalFrame DEF AffirmDeath
<1>2. ASSUME NEW v \in Workflows, NEW c \in Contacts, ConfirmAlive(v, c)
      PROVE  KeepsLockAndEnd(w)
  <2>1. CASE v = w
    BY <1>0, <1>2, <2>1, FinalOpen DEF ConfirmAlive
  <2>2. CASE v # w
    BY <1>0, <1>2, <2>2, FinalFrame DEF ConfirmAlive, TypeOK
  <2> QED
    BY <2>1, <2>2
<1> QED
  BY <1>1, <1>2 DEF ContactStep

\* ... every request of the owner,
LEMMA OwnerFinal ==
    ASSUME TypeOK, ReleaseInv, OwnerStep, NEW w \in Workflows
    PROVE  KeepsLockAndEnd(w)
<1>0. WorkflowInv(w)
  BY DEF ReleaseInv
<1>1. ASSUME NEW v \in Workflows, CancelDeathWorkflow(v)
      PROVE  KeepsLockAndEnd(w)
  <2>1. CASE v = w
    BY <1>0, <1>1, <2>1, FinalOpen DEF CancelDeathWorkflow, Active, ActiveStates
  <2>2. CASE v # w
    BY <1>0, <1>1, <2>2, FinalFrame DEF CancelDeathWorkflow, TypeOK
  <2> QED
    BY <2>1, <2>2
<1>2. CASE LoginOwner \/ CheckInOwner
  <2>1. AuthenticateOwner
    BY <1>2 DEF LoginOwner, CheckInOwner
  <2>2. CASE OwnerCancels(w)
    BY <1>0, <2>2, FinalOpen DEF OwnerCancels
  <2>3. CASE ~OwnerCancels(w)
    BY <1>0, <2>1, <2>3, FinalFrame DEF AuthenticateOwner
  <2> QED
    BY <2>2, <2>3
<1>3. CASE (\E n \in Thresholds : UpdateOwnerSettings(n)) \/ ChangeOwnerPassword \/ ArmOwner
  BY <1>0, <1>3, FinalFrame
     DEF UpdateOwnerSettings, ChangeOwnerPassword, ArmOwner, workflowVars
<1>4. CASE \/ \E c \in Contacts : CheckRemoval(c) \/ RemoveContact(c)
           \/ \E added \in SUBSET Contacts : ActivateShareGeneration(added)
  BY <1>0, <1>4, FinalFrame DEF CheckRemoval, RemoveContact, ActivateShareGeneration, workflowVars
<1> QED
  BY <1>1, <1>2, <1>3, <1>4 DEF OwnerStep

\* ... and so every step.
LEMMA StepFinal ==
    ASSUME TypeOK, ReleaseInv, [Next]_vars, NEW w \in Workflows
    PROVE  KeepsLockAndEnd(w)
<1>0. WorkflowInv(w)
  BY DEF ReleaseInv
<1>1. CASE Tick \/ RecoveryStep \/ ReconcileStep \/ UNCHANGED vars
  BY <1>0, <1>1, FinalFrame
     DEF Tick, RecoveryStep, StartRecovery, CompletePasswordReset, ExpireRecovery,
         ReconcileStep,
         ReconcileCheckins, ReconcileReleases, vars, workflowVars
<1> QED
  BY <1>1, StartFinal, FragmentFinal, ReleaseFinal, ContactFinal, OwnerFinal
     DEF Next, WorkerStep

\* Nothing lifts the publish lock and nothing reopens a workflow that was
\* cancelled or released, whatever runs late or twice.
THEOREM LockCorrect == Spec => LockAndEndAreFinal
<1>1. TypeOK /\ ReleaseInv /\ [Next]_vars => [\A w \in Workflows : KeepsLockAndEnd(w)]_vars
  BY StepFinal
<1> QED
  BY <1>1, TypeCorrect, ReleaseCorrect, PTL DEF Spec, LockAndEndAreFinal

-----------------------------------------------------------------------------
(* Days *)

\* An instant lies in its day.
LEMMA DayBounds ==
    ASSUME NEW t \in Nat
    PROVE  /\ Day(t) \in Nat
           /\ Day(t) * DAY <= t
           /\ t < (Day(t) + 1) * DAY
<1>1. Day(t) \in Nat
  BY DayAssumption, DivNat DEF Day
<1> QED
  BY <1>1, DayAssumption, SMT DEF Day

\* More days last longer.
LEMMA MoreDays ==
    ASSUME NEW a \in Nat, NEW b \in Nat, a <= b
    PROVE  a * DAY <= b * DAY
  BY DayAssumption, SMT

\* A deadline lies in a later day than the check-in it is counted from.
LEMMA DeadlineIsLater ==
    ASSUME NEW t \in Nat, NEW n \in Nat, NEW u \in Nat, Deadline(t, n) <= u
    PROVE  t < u /\ Day(t) # Day(u)
<1>1. Day(t) \in Nat /\ t < (Day(t) + 1) * DAY
  BY DayBounds
<1>2. (Day(t) + 1) * DAY <= Deadline(t, n)
  <2>1. (Day(t) + 1) * DAY <= (Day(t) + n + 1) * DAY
    BY <1>1, MoreDays
  <2> QED
    BY <2>1 DEF Deadline
<1>3. (Day(t) + 1) * DAY \in Nat /\ Deadline(t, n) \in Nat
  <2>1. Day(t) + 1 \in Nat /\ DAY \in Nat
    BY <1>1, DayAssumption
  <2> QED
    BY <2>1, MulNat, DeadlineType
<1>4. u < (Day(u) + 1) * DAY /\ Day(u) \in Nat /\ (Day(u) + 1) * DAY \in Nat
  BY DayBounds, DayAssumption, MulNat
<1> QED
  BY <1>1, <1>2, <1>3, <1>4

-----------------------------------------------------------------------------
(* The inductive invariant *)

Ending(w) == workflows[w].state \in ActiveStates \cup {"RELEASED"}

\* The instants of a workflow are in order; while it is not locked the schedule
\* is the one it was started from; since it is locked no check-in was
\* recorded from its start to its lock.
TimeInv(w) ==
    Ending(w) =>
        /\ workflows[w].startedAt <= now
        /\ ~Locked(w) => /\ workflows[w].state # "RELEASED"
                         /\ schedule.status = "TRIGGERED"
                         /\ schedule.deadline <= workflows[w].startedAt
        /\ workflows[w].state = "RELEASE_PENDING" =>
              workflows[w].startedAt + DAY <= workflows[w].releaseAt
        /\ Locked(w) => /\ workflows[w].startedAt + DAY <= workflows[w].lockedAt
                        /\ workflows[w].lockedAt <= now
                        /\ \/ lastCheckIn < workflows[w].startedAt
                           \/ workflows[w].lockedAt <= lastCheckIn

DeadlineInv == schedule.deadline = Deadline(lastCheckIn, schedule.threshold)

TimelineInv ==
    /\ OneFormalWorkflow
    /\ DeadlineInv
    /\ TriggeredScheduleHasWorkflow
    /\ \A w \in Workflows : TimeInv(w)

\* The types the arithmetic needs.
LEMMA Instants ==
    ASSUME TypeOK
    PROVE  /\ now \in Nat /\ lastCheckIn \in Nat
           /\ schedule.threshold \in Nat \ {0} /\ schedule.deadline \in Nat
           /\ schedule.version \in Nat
           /\ \A w \in Workflows :
                 /\ workflows[w].startedAt \in Int
                 /\ workflows[w].releaseAt \in Int
                 /\ workflows[w].lockedAt \in Int
                 /\ workflows[w].version \in Nat
  BY ThresholdsAssumption DEF TypeOK, WorkflowRow

\* While a workflow is not locked its owner has not checked in since its start,
\* and today is another day than that of the last check-in.
LEMMA UnlockedMeansSilent ==
    ASSUME TypeOK, DeadlineInv, NEW w \in Workflows, TimeInv(w), Ending(w), ~Locked(w)
    PROVE  /\ lastCheckIn < workflows[w].startedAt
           /\ Day(lastCheckIn) # Day(now)
<1>1. Deadline(lastCheckIn, schedule.threshold) <= workflows[w].startedAt
  BY DEF TimeInv, DeadlineInv
<1>2. workflows[w].startedAt <= now
  BY DEF TimeInv
<1>3. Deadline(lastCheckIn, schedule.threshold) \in Nat
  BY Instants, DeadlineType
<1>4. /\ workflows[w].startedAt \in Nat
      /\ Deadline(lastCheckIn, schedule.threshold) <= now
  BY <1>1, <1>2, <1>3, Instants
<1> QED
  BY <1>1, <1>3, <1>4, Instants, DeadlineIsLater

-----------------------------------------------------------------------------
(* The kinds of steps, as far as time, schedule and rows are concerned *)

\* Nothing happens to them, but the clock may advance and a recovery start or end.
Quiet ==
    /\ UNCHANGED <<schedule, lastCheckIn, workflows>>
    /\ now' \in {now, now + 1}
    /\ recovery' => recovery \/ NoActiveWorkflow

\* A workflow goes one stage further.
Progress(w) ==
    /\ UNCHANGED <<now, schedule, lastCheckIn, recovery>>
    /\ \A v \in Workflows : v # w => workflows'[v] = workflows[v]
    /\ workflows'[w].startedAt = workflows[w].startedAt
    /\ \/ /\ workflows[w].state = "AWAITING_CONFIRMATIONS"
          /\ workflows'[w].state = "AWAITING_CONFIRMATIONS"
          /\ workflows'[w].lockedAt = workflows[w].lockedAt
       \/ /\ workflows[w].state = "AWAITING_CONFIRMATIONS"
          /\ workflows'[w].state = "RELEASE_PENDING"
          /\ workflows'[w].lockedAt = workflows[w].lockedAt
          /\ workflows'[w].releaseAt = now + DAY
       \/ /\ workflows[w].state = "RELEASE_PENDING"
          /\ workflows'[w].state = "RELEASE_PENDING"
          /\ ~Locked(w)
          /\ workflows[w].releaseAt <= now
          /\ workflows'[w].lockedAt = now
          /\ workflows'[w].releaseAt = workflows[w].releaseAt
       \/ /\ workflows[w].state = "RELEASE_PENDING"
          /\ workflows'[w].state = "RELEASED"
          /\ Locked(w)
          /\ workflows'[w].lockedAt = workflows[w].lockedAt

\* A contact or the owner cancels one workflow and a new schedule begins.
Ended(w) ==
    /\ Active(w)
    /\ ~Locked(w)
    /\ UNCHANGED <<now, recovery>>
    /\ \A v \in Workflows : v # w => workflows'[v] = workflows[v]
    /\ workflows'[w].state = "CANCELLED"
    /\ schedule' = Rescheduled
    /\ lastCheckIn' = now

\* The fields of rows that matter here
LEMMA RowInstants ==
    ASSUME TypeOK, NEW w \in Workflows, NEW c \in Contacts
    PROVE  /\ Confirmed(w, c).startedAt = workflows[w].startedAt
           /\ Counting(w, c).startedAt = workflows[w].startedAt
           /\ Counting(w, c).releaseAt = now + DAY
  BY DEF TypeOK, WorkflowRow, Confirmed, Counting

\* ... at the end of the countdown
LEMMA LockInstants ==
    ASSUME TypeOK, NEW w \in Workflows
    PROVE  /\ LockedNow(w).startedAt = workflows[w].startedAt
           /\ LockedNow(w).releaseAt = workflows[w].releaseAt
           /\ LockedNow(w).lockedAt = now
           /\ Released(w).startedAt = workflows[w].startedAt
  BY DEF TypeOK, WorkflowRow, LockedNow, Released

\* The fragment jobs leave rows alone or record a confirmation.
LEMMA FragmentKinds ==
    ASSUME TypeOK, NEW w \in Workflows, NEW c \in Contacts,
           RecordConfirmation(w, c) \/ ReachThreshold(w, c)
    PROVE  Progress(w)
<1>1. workflows[w].state = "AWAITING_CONFIRMATIONS"
  BY DEF RecordConfirmation, ReachThreshold, Recordable
<1>2. CASE RecordConfirmation(w, c)
  <2>1. workflows'[w] = Confirmed(w, c) /\ \A v \in Workflows : v # w => workflows'[v] = workflows[v]
    BY <1>2 DEF RecordConfirmation, TypeOK
  <2> QED
    BY <1>1, <1>2, <2>1, ConfirmedFields, RowInstants DEF RecordConfirmation, Progress, ownerVars
<1>3. CASE ReachThreshold(w, c)
  <2>1. workflows'[w] = Counting(w, c) /\ \A v \in Workflows : v # w => workflows'[v] = workflows[v]
    BY <1>3 DEF ReachThreshold, TypeOK
  <2> QED
    BY <1>1, <1>3, <2>1, CountingFields, RowInstants DEF ReachThreshold, Progress, ownerVars
<1> QED
  BY <1>2, <1>3

\* The advance and the finalize jobs leave rows alone, lock or release.
LEMMA ReleaseKinds ==
    ASSUME TypeOK, NEW j \in jobs, AdvanceRelease(j) \/ FinalizePublication(j)
    PROVE  \E w \in Workflows : Progress(w)
<1> DEFINE w == j.workflow
<1>1. w \in Workflows
  BY JobTypes DEF AdvanceRelease, FinalizePublication, AdvanceJobs, FinalizeJobs
<1>2. CASE AdvanceRelease(j)
  <2>1. workflows'[w] = LockedNow(w) /\ \A v \in Workflows : v # w => workflows'[v] = workflows[v]
    BY <1>1, <1>2 DEF AdvanceRelease, TypeOK
  <2>2. workflows[w].releaseAt <= now
    BY <1>1, <1>2, Instants DEF AdvanceRelease
  <2>3. Progress(w)
    BY <1>1, <1>2, <2>1, <2>2, ReleaseFields, LockInstants
       DEF AdvanceRelease, Progress, ownerVars
  <2> QED
    BY <1>1, <2>3
<1>3. CASE FinalizePublication(j)
  <2>1. workflows'[w] = Released(w) /\ \A v \in Workflows : v # w => workflows'[v] = workflows[v]
    BY <1>1, <1>3 DEF FinalizePublication, TypeOK
  <2>2. Progress(w)
    BY <1>1, <1>3, <2>1, ReleaseFields, LockInstants
       DEF FinalizePublication, Progress, ownerVars
  <2> QED
    BY <1>1, <2>2
<1> QED
  BY <1>2, <1>3

\* A contact's word and the owner's cancellation of the countdown.
LEMMA EndedKinds ==
    ASSUME TypeOK, NEW w \in Workflows,
           CancelDeathWorkflow(w) \/ \E c \in Contacts : ConfirmAlive(w, c)
    PROVE  Ended(w)
<1>1. /\ workflows'[w] = Cancelled(w)
      /\ \A v \in Workflows : v # w => workflows'[v] = workflows[v]
  BY DEF CancelDeathWorkflow, ConfirmAlive, TypeOK
<1> QED
  BY <1>1, CancelledFields
     DEF CancelDeathWorkflow, ConfirmAlive, Ended, Active, ActiveStates

\* Every step is of one of these kinds, starts a workflow, or comes from the owner.
LEMMA StepKinds ==
    ASSUME TypeOK, [Next]_vars
    PROVE  \/ Quiet
           \/ \E j \in jobs, w \in Workflows : StartDeathWorkflow(j, w)
           \/ \E w \in Workflows : Progress(w) \/ Ended(w)
           \/ AuthenticateOwner
           \/ \E n \in Thresholds : UpdateOwnerSettings(n)
           \/ CompletePasswordReset
<1> USE DEF ownerVars, workflowVars
<1>1. CASE Tick \/ UNCHANGED vars
  BY <1>1 DEF Tick, vars, Quiet
<1>2. CASE EvaluateStep
  BY <1>2 DEF EvaluateStep, EvaluateCheckinClosed, EvaluateCheckinExhausted, Quiet
<1>3. CASE FragmentStep
  BY <1>3, FragmentKinds
     DEF FragmentStep, ProcessSubmittedFragment, ProcessSubmittedFragmentExhausted,
         FragmentJobClosed, Quiet
<1>4. CASE AdvanceStep \/ FinalizeStep
  BY <1>4, ReleaseKinds
     DEF AdvanceStep, FinalizeStep, AdvanceReleaseClosed, FinalizePublicationClosed, Quiet
<1>5. CASE ReconcileStep
  BY <1>5 DEF ReconcileStep, ReconcileCheckins, ReconcileReleases, Quiet
<1>6. CASE ContactStep
  BY <1>6, EndedKinds DEF ContactStep, AffirmDeath, Quiet
<1>7. CASE OwnerStep
  BY <1>7, EndedKinds
     DEF OwnerStep, LoginOwner, CheckInOwner, ChangeOwnerPassword, ArmOwner, CheckRemoval,
         RemoveContact, ActivateShareGeneration, Quiet
<1>8. CASE RecoveryStep
  BY <1>8 DEF RecoveryStep, StartRecovery, ExpireRecovery, Quiet
<1> QED
  BY <1>1, <1>2, <1>3, <1>4, <1>5, <1>6, <1>7, <1>8 DEF Next, WorkerStep

-----------------------------------------------------------------------------
(* The invariant is preserved *)

\* The first schedule, and no workflow.
LEMMA InitTimeline == Init => TimelineInv
<1> SUFFICES ASSUME Init PROVE TimelineInv
  OBVIOUS
<1>1. \A w \in Workflows : workflows[w].state = "NONE"
  BY DEF Init, NoWorkflow
<1> QED
  BY <1>1
     DEF Init, TimelineInv, OneFormalWorkflow, DeadlineInv, TriggeredScheduleHasWorkflow,
         TimeInv, Ending, Active, ActiveStates

\* Time passes, and nothing else that matters.
LEMMA QuietTimeline ==
    ASSUME TypeOK, TimelineInv, Quiet
    PROVE  TimelineInv'
<1>1. OneFormalWorkflow'
  BY DEF TimelineInv, OneFormalWorkflow, Quiet, Active, NoActiveWorkflow, NoActiveDeath
<1>2. DeadlineInv' /\ TriggeredScheduleHasWorkflow'
  BY DEF TimelineInv, DeadlineInv, TriggeredScheduleHasWorkflow, Quiet, Deadline, Day
<1>3. ASSUME NEW w \in Workflows PROVE TimeInv(w)'
  BY Instants DEF TimelineInv, TimeInv, Quiet, Ending, Locked
<1> QED
  BY <1>1, <1>2, <1>3 DEF TimelineInv

\* A workflow starts in a schedule that is overdue.
LEMMA StartTimeline ==
    ASSUME TypeOK, ReleaseInv, TimelineInv, NEW j \in jobs, NEW w \in Workflows,
           StartDeathWorkflow(j, w)
    PROVE  TimelineInv'
<1>1. /\ schedule' = [schedule EXCEPT !.status = "TRIGGERED"]
      /\ schedule.deadline <= now
      /\ UNCHANGED <<now, lastCheckIn>>
      /\ recovery' = FALSE
      /\ NoActiveDeath
  BY Instants DEF StartDeathWorkflow, EvaluateDue, ownerVars
<1>2. /\ workflows'[w].state = "AWAITING_CONFIRMATIONS"
      /\ workflows'[w].startedAt = now
      /\ workflows'[w].lockedAt = Null
      /\ \A v \in Workflows : v # w => workflows'[v] = workflows[v]
  BY DEF StartDeathWorkflow, TypeOK
<1>3. /\ schedule'.status = "TRIGGERED"
      /\ schedule'.deadline = schedule.deadline
      /\ schedule'.threshold = schedule.threshold
  BY <1>1 DEF TypeOK
<1>4. OneFormalWorkflow'
  BY <1>1, <1>2 DEF OneFormalWorkflow, Active, NoActiveDeath
<1>5. DeadlineInv'
  BY <1>1, <1>3 DEF TimelineInv, DeadlineInv, Deadline, Day
<1>6. TriggeredScheduleHasWorkflow'
  BY <1>1, <1>2, <1>3, Instants DEF TriggeredScheduleHasWorkflow, ActiveStates
<1>7. TimeInv(w)'
  BY <1>1, <1>2, <1>3, Instants DEF TimeInv, Locked, Null
<1>8. ASSUME NEW v \in Workflows, v # w
      PROVE  TimeInv(v)'
  BY <1>1, <1>2, <1>3, <1>8
     DEF TimelineInv, TimeInv, NoActiveDeath, Active, Ending, Locked
<1> QED
  BY <1>4, <1>5, <1>6, <1>7, <1>8 DEF TimelineInv

\* A workflow that goes on keeps its start, locks a day after it at the
\* earliest, and is released only when locked.
LEMMA ProgressTimeline ==
    ASSUME TypeOK, TimelineInv, NEW w \in Workflows, Progress(w)
    PROVE  TimelineInv'
<1>1. /\ UNCHANGED <<now, schedule, lastCheckIn, recovery>>
      /\ \A v \in Workflows : v # w => workflows'[v] = workflows[v]
      /\ workflows'[w].startedAt = workflows[w].startedAt
      /\ Active(w)
      /\ Ending(w)'
  BY DEF Progress, Active, Ending, ActiveStates
<1>2. OneFormalWorkflow'
  BY <1>1 DEF TimelineInv, OneFormalWorkflow, Active
<1>3. DeadlineInv'
  BY <1>1 DEF TimelineInv, DeadlineInv, Deadline, Day
<1>4. TriggeredScheduleHasWorkflow'
  BY <1>1 DEF TimelineInv, TriggeredScheduleHasWorkflow, Ending
<1>5. TimeInv(w) /\ Ending(w)
  BY <1>1 DEF TimelineInv, Ending, Active
<1>6. ~Locked(w) => lastCheckIn < workflows[w].startedAt
  BY <1>5, UnlockedMeansSilent DEF TimelineInv
<1>7. TimeInv(w)'
  <2>1. ASSUME workflows[w].state = "AWAITING_CONFIRMATIONS",
               workflows'[w].state = "AWAITING_CONFIRMATIONS",
               workflows'[w].lockedAt = workflows[w].lockedAt
        PROVE  TimeInv(w)'
    BY <1>1, <1>5, <2>1 DEF TimeInv, Locked
  <2>2. ASSUME workflows'[w].state = "RELEASE_PENDING",
               workflows'[w].lockedAt = workflows[w].lockedAt,
               workflows'[w].releaseAt = now + DAY
        PROVE  TimeInv(w)'
    BY <1>1, <1>5, <2>2, DayAssumption, Instants DEF TimeInv, Locked
  <2>3. ASSUME workflows[w].state = "RELEASE_PENDING",
               workflows'[w].state = "RELEASE_PENDING",
               ~Locked(w), workflows[w].releaseAt <= now,
               workflows'[w].lockedAt = now,
               workflows'[w].releaseAt = workflows[w].releaseAt
        PROVE  TimeInv(w)'
    BY <1>1, <1>5, <1>6, <2>3, DayAssumption, Instants DEF TimeInv, Locked, Null
  <2>4. ASSUME workflows'[w].state = "RELEASED", Locked(w),
               workflows'[w].lockedAt = workflows[w].lockedAt
        PROVE  TimeInv(w)'
    BY <1>1, <1>5, <2>4 DEF TimeInv, Locked
  <2> QED
    BY <2>1, <2>2, <2>3, <2>4 DEF Progress
<1>8. ASSUME NEW v \in Workflows, v # w
      PROVE  TimeInv(v)'
  BY <1>1, <1>8 DEF TimelineInv, TimeInv, Ending, Locked
<1> QED
  BY <1>2, <1>3, <1>4, <1>7, <1>8 DEF TimelineInv

\* What a check-in leaves of the schedule.
LEMMA RescheduledFields ==
    ASSUME TypeOK
    PROVE  /\ Rescheduled.status = "ACTIVE"
           /\ Rescheduled.threshold = schedule.threshold
           /\ Rescheduled.deadline = Deadline(now, schedule.threshold)
           /\ Rescheduled.version = schedule.version + 1
  BY DEF TypeOK, Rescheduled

\* A released workflow stays behind any later check-in.
LEMMA ReleasedStaysBehind ==
    ASSUME TypeOK, NEW w \in Workflows, TimeInv(w), Ending(w) => Locked(w),
           workflows'[w] = workflows[w], now' = now,
           lastCheckIn' \in {lastCheckIn, now}
    PROVE  TimeInv(w)'
  BY Instants DEF TimeInv, Ending, Locked

\* The one active workflow ends, and its schedule with it.
LEMMA EndedTimeline ==
    ASSUME TypeOK, TimelineInv, NEW w \in Workflows, Ended(w)
    PROVE  TimelineInv'
<1>1. /\ schedule'.status = "ACTIVE"
      /\ schedule'.threshold = schedule.threshold
      /\ schedule'.deadline = Deadline(now, schedule.threshold)
  BY RescheduledFields DEF Ended
<1>2. OneFormalWorkflow'
  BY DEF TimelineInv, OneFormalWorkflow, Ended, Active, ActiveStates
<1>3. DeadlineInv' /\ TriggeredScheduleHasWorkflow'
  BY <1>1 DEF DeadlineInv, TriggeredScheduleHasWorkflow, Ended, Deadline, Day
<1>4. TimeInv(w)'
  BY DEF Ended, TimeInv, Ending, ActiveStates
<1>5. ASSUME NEW v \in Workflows, v # w
      PROVE  TimeInv(v)'
  <2>1. ~Active(v) /\ TimeInv(v)
    BY <1>5 DEF TimelineInv, OneFormalWorkflow, Ended
  <2>2. Ending(v) => Locked(v)
    BY <2>1 DEF Active, Ending, TimeInv
  <2> QED
    BY <1>5, <2>1, <2>2, ReleasedStaysBehind DEF Ended
<1> QED
  BY <1>2, <1>3, <1>4, <1>5 DEF TimelineInv

\* The check-in of an authentication or a password reset.
LEMMA CheckInTimeline ==
    ASSUME TypeOK, DeadlineInv, RecordCheckIn, now' = now
    PROVE  /\ DeadlineInv'
           /\ lastCheckIn' \in {lastCheckIn, now}
           /\ \/ schedule' = schedule /\ Day(lastCheckIn) = Day(now)
              \/ schedule'.status = "ACTIVE"
<1>1. CASE Day(lastCheckIn) = Day(now)
  BY <1>1 DEF RecordCheckIn, DeadlineInv, Deadline, Day
<1>2. CASE Day(lastCheckIn) # Day(now)
  BY <1>2, RescheduledFields DEF RecordCheckIn, DeadlineInv, Deadline, Day
<1> QED
  BY <1>1, <1>2

\* An authentication cancels the workflow that is not locked.  The schedule of
\* that workflow does move, because its owner has not checked in today.
LEMMA AuthenticateTimeline ==
    ASSUME TypeOK, TimelineInv, AuthenticateOwner
    PROVE  TimelineInv'
<1>1. /\ now' = now /\ recovery' = FALSE /\ RecordCheckIn
      /\ \A w \in Workflows :
            workflows'[w] = IF OwnerCancels(w) THEN Cancelled(w) ELSE workflows[w]
  BY DEF AuthenticateOwner
<1>2. /\ DeadlineInv'
      /\ lastCheckIn' \in {lastCheckIn, now}
      /\ \/ schedule' = schedule /\ Day(lastCheckIn) = Day(now)
         \/ schedule'.status = "ACTIVE"
  BY <1>1, CheckInTimeline DEF TimelineInv
<1>3. ASSUME NEW w \in Workflows
      PROVE  /\ OwnerCancels(w) => ~Active(w)' /\ ~Ending(w)'
             /\ ~OwnerCancels(w) => workflows'[w] = workflows[w] /\ (Ending(w) => Locked(w))
  <2>1. CASE OwnerCancels(w)
    BY <1>1, <2>1, CancelledFields DEF Active, Ending, ActiveStates
  <2>2. CASE ~OwnerCancels(w)
    BY <1>1, <2>2 DEF OwnerCancels, Active, Ending, TimelineInv, TimeInv
  <2> QED
    BY <2>1, <2>2
<1>4. OneFormalWorkflow'
  BY <1>1, <1>3 DEF TimelineInv, OneFormalWorkflow, Active
<1>5. TriggeredScheduleHasWorkflow'
  <2>1. CASE schedule'.status = "ACTIVE"
    BY <2>1 DEF TriggeredScheduleHasWorkflow
  <2>2. CASE schedule' = schedule /\ Day(lastCheckIn) = Day(now)
    <3>1. ASSUME NEW w \in Workflows, Ending(w)
          PROVE  workflows'[w] = workflows[w]
      <4>1. Locked(w)
        BY <2>2, <3>1, UnlockedMeansSilent DEF TimelineInv
      <4> QED
        BY <1>1, <4>1 DEF OwnerCancels
    <3> QED
      BY <2>2, <3>1 DEF TimelineInv, TriggeredScheduleHasWorkflow, Ending
  <2> QED
    BY <1>2, <2>1, <2>2
<1>6. ASSUME NEW w \in Workflows
      PROVE  TimeInv(w)'
  <2>1. CASE OwnerCancels(w)
    BY <1>3, <2>1 DEF TimeInv
  <2>2. CASE ~OwnerCancels(w)
    BY <1>1, <1>2, <1>3, <2>2, ReleasedStaysBehind DEF TimelineInv
  <2> QED
    BY <2>1, <2>2
<1> QED
  BY <1>2, <1>4, <1>5, <1>6 DEF TimelineInv

\* Settings change only while no workflow is active.
LEMMA SettingsTimeline ==
    ASSUME TypeOK, TimelineInv, NEW n \in Thresholds, UpdateOwnerSettings(n)
    PROVE  TimelineInv'
<1>1. /\ UNCHANGED <<now, lastCheckIn, recovery, workflows>>
      /\ NoActiveDeath
      /\ schedule'.status = "ACTIVE"
      /\ schedule'.threshold = n
      /\ schedule'.deadline = Deadline(lastCheckIn, n)
  BY DEF UpdateOwnerSettings, NoActiveWorkflow, ownerVars, workflowVars
<1>2. OneFormalWorkflow'
  BY <1>1 DEF TimelineInv, OneFormalWorkflow, Active
<1>3. DeadlineInv' /\ TriggeredScheduleHasWorkflow'
  BY <1>1 DEF DeadlineInv, TriggeredScheduleHasWorkflow, Deadline, Day
<1>4. ASSUME NEW w \in Workflows
      PROVE  TimeInv(w)'
  <2>1. TimeInv(w) /\ ~Active(w)
    BY <1>1 DEF TimelineInv, NoActiveDeath
  <2>2. Ending(w) => Locked(w)
    BY <2>1 DEF Active, Ending, TimeInv
  <2> QED
    BY <1>1, <2>1, <2>2, ReleasedStaysBehind
<1> QED
  BY <1>2, <1>3, <1>4 DEF TimelineInv

\* So does the check-in of a password reset.
LEMMA ResetTimeline ==
    ASSUME TypeOK, TimelineInv, CompletePasswordReset
    PROVE  TimelineInv'
<1>1. /\ UNCHANGED <<now, workflows>> /\ recovery /\ recovery' = FALSE /\ RecordCheckIn
  BY DEF CompletePasswordReset, workflowVars
<1>2. /\ DeadlineInv'
      /\ lastCheckIn' \in {lastCheckIn, now}
      /\ schedule' = schedule \/ schedule'.status = "ACTIVE"
  BY <1>1, CheckInTimeline DEF TimelineInv
<1>3. ASSUME NEW w \in Workflows
      PROVE  ~Active(w) /\ TimeInv(w)
  BY <1>1 DEF TimelineInv, OneFormalWorkflow
<1>4. OneFormalWorkflow'
  BY <1>1, <1>3 DEF OneFormalWorkflow, Active
<1>5. TriggeredScheduleHasWorkflow'
  BY <1>1, <1>2 DEF TimelineInv, TriggeredScheduleHasWorkflow
<1>6. ASSUME NEW w \in Workflows
      PROVE  TimeInv(w)'
  <2>1. Ending(w) => Locked(w)
    BY <1>3 DEF Active, Ending, TimeInv
  <2> QED
    BY <1>1, <1>2, <1>3, <2>1, ReleasedStaysBehind
<1> QED
  BY <1>2, <1>4, <1>5, <1>6 DEF TimelineInv

\* Every step keeps it.
LEMMA StepTimeline ==
    ASSUME TypeOK, ReleaseInv, TimelineInv, [Next]_vars
    PROVE  TimelineInv'
<1> QED
  BY StepKinds, QuietTimeline, StartTimeline, ProgressTimeline, EndedTimeline,
     AuthenticateTimeline, SettingsTimeline, ResetTimeline

\* The invariant holds in every reachable state.
LEMMA TimelineCorrect == Spec => []TimelineInv
<1> QED
  BY TypeCorrect, ReleaseCorrect, InitTimeline, StepTimeline, PTL DEF Spec

-----------------------------------------------------------------------------
(* What follows *)

\* No two formal workflows are ever active together (startDeathWorkflow,
\* startRecovery and the unique index between them).
THEOREM OneWorkflowCorrect == Spec => []OneFormalWorkflow
<1>1. TimelineInv => OneFormalWorkflow
  BY DEF TimelineInv
<1> QED
  BY <1>1, TimelineCorrect, PTL

\* No cancellation forgets to give the schedule back.
THEOREM TriggeredCorrect == Spec => []TriggeredScheduleHasWorkflow
<1>1. TimelineInv => TriggeredScheduleHasWorkflow
  BY DEF TimelineInv
<1> QED
  BY <1>1, TimelineCorrect, PTL

\* From the start of a workflow to its lock no check-in was recorded, and a whole
\* day lies between them (cancelActiveDeathWorkflow, advanceRelease).  A change of
\* the master password records none (changeOwnerPassword).
THEOREM SilenceCorrect == Spec => []ReleaseOnlyAfterSilence
<1>1. TypeOK /\ TimelineInv => ReleaseOnlyAfterSilence
  <2> SUFFICES ASSUME TypeOK, TimelineInv, NEW w \in Workflows, Ending(w)
               PROVE  /\ \/ lastCheckIn < workflows[w].startedAt
                         \/ Locked(w) /\ lastCheckIn >= workflows[w].lockedAt
                      /\ Locked(w) => workflows[w].lockedAt >= workflows[w].startedAt + DAY
    BY DEF ReleaseOnlyAfterSilence, Ending
  <2>1. TimeInv(w) /\ DeadlineInv
    BY DEF TimelineInv
  <2>2. CASE Locked(w)
    BY <2>1, <2>2, DayAssumption, Instants DEF TimeInv
  <2>3. CASE ~Locked(w)
    BY <2>1, <2>3, UnlockedMeansSilent
  <2> QED
    BY <2>2, <2>3
<1> QED
  BY <1>1, TypeCorrect, TimelineCorrect, PTL

\* Whatever evaluation jobs are late, a workflow starts only when the owner has
\* missed the days in force since the last check-in (evaluateCheckin).
THEOREM OverdueCorrect == Spec => StartOnlyWhenOverdue
<1> DEFINE Starts(w) == workflows[w].state = "NONE" /\ workflows'[w].state # "NONE"
           Overdue == now >= Deadline(lastCheckIn, schedule.threshold)
<1>1. ASSUME TypeOK, TimelineInv, [Next]_vars, NEW w \in Workflows, Starts(w)
      PROVE  Overdue
  <2>1. \E j \in jobs, v \in Workflows : StartDeathWorkflow(j, v)
    <3>1. ~Quiet /\ ~CompletePasswordReset /\ \A n \in Thresholds : ~UpdateOwnerSettings(n)
      BY <1>1 DEF Quiet, CompletePasswordReset, UpdateOwnerSettings, workflowVars
    <3>2. ~AuthenticateOwner
      BY <1>1 DEF AuthenticateOwner, OwnerCancels, Active, ActiveStates
    <3>3. \A v \in Workflows : ~Progress(v) /\ ~Ended(v)
      BY <1>1 DEF Progress, Ended, Active, ActiveStates
    <3> QED
      BY <1>1, <3>1, <3>2, <3>3, StepKinds
  <2>2. now >= schedule.deadline
    BY <2>1 DEF StartDeathWorkflow, EvaluateDue
  <2> QED
    BY <1>1, <2>2 DEF TimelineInv, DeadlineInv
<1>2. TypeOK /\ TimelineInv /\ [Next]_vars
      => [\A w \in Workflows : Starts(w) => Overdue]_vars
  BY <1>1
<1> QED
  BY <1>2, TypeCorrect, TimelineCorrect, PTL DEF Spec, StartOnlyWhenOverdue

\* No evaluation job of an earlier version meets a deadline it was not booked for
\* (every handler that writes the schedule).
THEOREM VersionCorrect == Spec => DeadlineMovesWithVersion
<1> DEFINE Renewed == \/ schedule'.deadline # schedule.deadline
                      \/ schedule.status = "TRIGGERED" /\ schedule'.status = "ACTIVE"
           Moves == Renewed => schedule'.version > schedule.version
<1>1. ASSUME TypeOK, [Next]_vars
      PROVE  Moves
  <2>1. CASE schedule' = schedule
    BY <2>1
  <2>2. CASE schedule' = Rescheduled
    BY <1>1, <2>2, RescheduledFields, Instants
  <2>3. ASSUME NEW j \in jobs, NEW w \in Workflows, StartDeathWorkflow(j, w)
        PROVE  Moves
    BY <1>1, <2>3 DEF StartDeathWorkflow, EvaluateDue, TypeOK
  <2>4. ASSUME NEW n \in Thresholds, UpdateOwnerSettings(n)
        PROVE  Moves
    BY <1>1, <2>4, Instants DEF UpdateOwnerSettings
  <2> QED
    BY <1>1, <2>1, <2>2, <2>3, <2>4, StepKinds
       DEF Quiet, Progress, Ended, AuthenticateOwner, CompletePasswordReset, RecordCheckIn
<1>2. TypeOK /\ [Next]_vars => [Moves]_vars
  BY <1>1
<1> QED
  BY <1>2, TypeCorrect, PTL DEF Spec, DeadlineMovesWithVersion

-----------------------------------------------------------------------------
(* A running countdown is watched *)

Watched(w) ==
    workflows[w].state = "RELEASE_PENDING" /\ ~Locked(w) =>
        \/ AdvanceJob(w, workflows[w].version, workflows[w].releaseAt) \in jobs
        \/ AdvanceKey(w, workflows[w].version) \notin scanned

\* A step that leaves the row, the advance jobs and the scanner's keys alone.
LEMMA WatchedFrame ==
    ASSUME NEW w \in Workflows, Watched(w), workflows'[w] = workflows[w],
           \A j \in jobs : j.type = "WORKFLOW_ADVANCE" => j \in jobs',
           scanned' = scanned
    PROVE  Watched(w)'
  BY DEF Watched, Locked, AdvanceJob

\* A step of a handler whose job is of another type.
LEMMA OtherJobDone ==
    ASSUME NEW j, j.type # "WORKFLOW_ADVANCE", NEW new,
           Done(j, new) \/ jobs' = jobs \ {j} \/ jobs' = jobs \cup new
    PROVE  \A i \in jobs : i.type = "WORKFLOW_ADVANCE" => i \in jobs'
  BY DEF Done

\* Countdowns under the evaluation of a deadline and the fragment jobs
LEMMA FragmentWatched ==
    ASSUME TypeOK, CountdownIsWatched, NEW w \in Workflows, NEW c \in Contacts,
           RecordConfirmation(w, c) \/ ReachThreshold(w, c), NEW v \in Workflows
    PROVE  Watched(v)'
<1>1. FragmentJob(w, c).type # "WORKFLOW_ADVANCE"
  BY DEF FragmentJob
<1>2. \A i \in jobs : i.type = "WORKFLOW_ADVANCE" => i \in jobs'
  BY <1>1, OtherJobDone DEF RecordConfirmation, ReachThreshold
<1>3. CASE v # w
  <2>1. workflows'[v] = workflows[v] /\ scanned' = scanned
    BY <1>3 DEF RecordConfirmation, ReachThreshold, TypeOK
  <2> QED
    BY <1>2, <2>1, WatchedFrame DEF CountdownIsWatched, Watched
<1>4. CASE v = w /\ RecordConfirmation(w, c)
  <2>1. workflows'[w].state = "AWAITING_CONFIRMATIONS"
    BY <1>4, ConfirmedFields DEF RecordConfirmation, Recordable, TypeOK
  <2> QED
    BY <1>4, <2>1 DEF Watched
<1>5. CASE v = w /\ ReachThreshold(w, c)
  <2>1. /\ workflows'[w].version = workflows[w].version + 1
        /\ workflows'[w].releaseAt = now + DAY
    BY <1>5 DEF ReachThreshold, TypeOK, Counting, Confirmed, WorkflowRow
  <2>2. AdvanceJob(w, workflows[w].version + 1, now + DAY) \in jobs'
    BY <1>5 DEF ReachThreshold, Done
  <2> QED
    BY <1>5, <2>1, <2>2 DEF Watched
<1> QED
  BY <1>3, <1>4, <1>5

\* ... under the advance job, which locks or finds nothing to do,
LEMMA AdvanceWatched ==
    ASSUME TypeOK, CountdownIsWatched, NEW j \in jobs,
           AdvanceRelease(j) \/ AdvanceReleaseClosed(j), NEW v \in Workflows
    PROVE  Watched(v)'
<1>1. j \in AdvanceJobs /\ j.workflow \in Workflows
  BY JobTypes DEF AdvanceRelease, AdvanceReleaseClosed, AdvanceJobs
<1>2. jobs \ {j} \subseteq jobs' /\ scanned' = scanned
  BY DEF AdvanceRelease, AdvanceReleaseClosed, Done
<1>3. CASE AdvanceRelease(j) /\ v = j.workflow
  <2>1. workflows'[v].lockedAt = now
    BY <1>1, <1>3, LockInstants DEF AdvanceRelease, TypeOK
  <2> QED
    BY <2>1, Instants DEF Watched, Locked, Null
<1>4. CASE AdvanceRelease(j) /\ v # j.workflow
  <2>1. workflows'[v] = workflows[v]
    BY <1>1, <1>4 DEF AdvanceRelease, TypeOK
  <2>2. AdvanceJob(v, workflows[v].version, workflows[v].releaseAt) # j
    BY <1>4 DEF AdvanceJob
  <2> QED
    BY <1>2, <2>1, <2>2 DEF CountdownIsWatched, Watched, Locked
<1>5. CASE AdvanceReleaseClosed(j)
  <2>1. workflows' = workflows
    BY <1>5 DEF AdvanceReleaseClosed, workflowVars
  <2>2. workflows[v].state = "RELEASE_PENDING" /\ ~Locked(v)
        => AdvanceJob(v, workflows[v].version, workflows[v].releaseAt) # j
    BY <1>5 DEF AdvanceReleaseClosed, AdvanceJob
  <2> QED
    BY <1>2, <2>1, <2>2 DEF CountdownIsWatched, Watched, Locked
<1> QED
  BY <1>3, <1>4, <1>5

\* ... under the scanner, which books a job for each key it uses,
LEMMA ReconcileWatched ==
    ASSUME TypeOK, CountdownIsWatched, ReconcileStep, NEW v \in Workflows
    PROVE  Watched(v)'
<1>1. workflows' = workflows /\ jobs \subseteq jobs'
  BY DEF ReconcileStep, ReconcileCheckins, ReconcileReleases, workflowVars
<1>2. \/ AdvanceKey(v, workflows[v].version) \in scanned'
             => AdvanceKey(v, workflows[v].version) \in scanned
      \/ AdvanceJob(v, workflows[v].version, workflows[v].releaseAt) \in jobs'
  <2>1. CASE ReconcileCheckins
    BY <2>1 DEF ReconcileCheckins, AdvanceKey, EvaluateKey
  <2>2. ASSUME NEW w \in Workflows, ReconcileReleases(w), w # v
        PROVE  scanned' \subseteq scanned \cup {AdvanceKey(w, workflows[w].version)}
    BY <2>2 DEF ReconcileReleases
  <2>3. ASSUME NEW w \in Workflows, w # v
        PROVE  AdvanceKey(w, workflows[w].version) # AdvanceKey(v, workflows[v].version)
    BY <2>3 DEF AdvanceKey
  <2>4. ASSUME ReconcileReleases(v)
        PROVE  \/ scanned' = scanned
               \/ AdvanceJob(v, workflows[v].version, workflows[v].releaseAt) \in jobs'
    BY <2>4 DEF ReconcileReleases
  <2> QED
    BY <2>1, <2>2, <2>3, <2>4 DEF ReconcileStep
<1> QED
  BY <1>1, <1>2 DEF CountdownIsWatched, Watched, Locked

\* ... and under what ends a workflow or publishes it.
LEMMA EndWatched ==
    ASSUME TypeOK, CountdownIsWatched,
           \/ \E j \in jobs : FinalizePublication(j)
           \/ \E w \in Workflows : \/ CancelDeathWorkflow(w)
                                   \/ \E c \in Contacts : ConfirmAlive(w, c)
           \/ AuthenticateOwner,
           NEW v \in Workflows
    PROVE  Watched(v)'
<1>1. scanned' = scanned
  BY DEF FinalizePublication, CancelDeathWorkflow, ConfirmAlive, AuthenticateOwner
<1>2. CASE \E j \in jobs : FinalizePublication(j)
  <2>1. PICK j \in jobs : FinalizePublication(j)
    BY <1>2
  <2>2. j.workflow \in Workflows
    BY <2>1, JobTypes DEF FinalizePublication, FinalizeJobs
  <2>3. \A i \in jobs : i.type = "WORKFLOW_ADVANCE" => i \in jobs'
    BY <2>1, OtherJobDone DEF FinalizePublication
  <2>4. CASE v = j.workflow
    <3>1. workflows'[v].state = "RELEASED"
      BY <2>1, <2>2, <2>4, ReleaseFields DEF FinalizePublication, TypeOK
    <3> QED
      BY <3>1 DEF Watched
  <2>5. CASE v # j.workflow
    <3>1. workflows'[v] = workflows[v]
      BY <2>1, <2>2, <2>5 DEF FinalizePublication, TypeOK
    <3> QED
      BY <1>1, <2>3, <3>1, WatchedFrame DEF CountdownIsWatched, Watched
  <2> QED
    BY <2>4, <2>5
<1>3. CASE \E w \in Workflows : \/ CancelDeathWorkflow(w)
                                 \/ \E c \in Contacts : ConfirmAlive(w, c)
  <2>1. workflows'[v] = workflows[v] \/ workflows'[v].state = "CANCELLED"
    BY <1>3, EndedKinds DEF Ended
  <2>2. jobs \subseteq jobs'
    BY <1>3 DEF CancelDeathWorkflow, ConfirmAlive
  <2> QED
    BY <1>1, <2>1, <2>2, WatchedFrame DEF CountdownIsWatched, Watched
<1>4. CASE AuthenticateOwner
  <2>1. workflows'[v] = workflows[v] \/ workflows'[v].state = "CANCELLED"
    BY <1>4, CancelledFields DEF AuthenticateOwner
  <2>2. jobs \subseteq jobs'
    BY <1>4 DEF AuthenticateOwner
  <2> QED
    BY <1>1, <2>1, <2>2, WatchedFrame DEF CountdownIsWatched, Watched
<1> QED
  BY <1>2, <1>3, <1>4

\* Every step keeps countdowns watched.
LEMMA StepWatched ==
    ASSUME TypeOK, CountdownIsWatched, [Next]_vars
    PROVE  CountdownIsWatched'
<1> SUFFICES ASSUME NEW v \in Workflows
             PROVE  Watched(v)'
  BY DEF CountdownIsWatched, Watched
<1>0. Watched(v)
  BY DEF CountdownIsWatched, Watched
<1>1. CASE Tick \/ UNCHANGED vars \/ RecoveryStep
  BY <1>0, <1>1, WatchedFrame
     DEF Tick, vars, RecoveryStep, StartRecovery, CompletePasswordReset, ExpireRecovery,
         workflowVars
<1>2. CASE EvaluateStep
  <2>1. PICK j \in jobs : \/ \E w \in Workflows : StartDeathWorkflow(j, w)
                          \/ EvaluateCheckinClosed(j) \/ EvaluateCheckinExhausted(j)
    BY <1>2 DEF EvaluateStep
  <2>2. j.type # "WORKFLOW_ADVANCE"
    BY <2>1 DEF StartDeathWorkflow, EvaluateCheckinClosed, EvaluateCheckinExhausted, EvaluateDue
  <2>3. \A i \in jobs : i.type = "WORKFLOW_ADVANCE" => i \in jobs'
    BY <2>1, <2>2, OtherJobDone
       DEF StartDeathWorkflow, EvaluateCheckinClosed, EvaluateCheckinExhausted
  <2>4. workflows'[v] = workflows[v] \/ workflows'[v].state = "AWAITING_CONFIRMATIONS"
    BY <2>1 DEF StartDeathWorkflow, EvaluateCheckinClosed, EvaluateCheckinExhausted,
                workflowVars, TypeOK
  <2>5. scanned' = scanned
    BY <2>1 DEF StartDeathWorkflow, EvaluateCheckinClosed, EvaluateCheckinExhausted
  <2> QED
    BY <1>0, <2>3, <2>4, <2>5, WatchedFrame DEF Watched
<1>3. CASE FragmentStep
  <2>1. PICK w \in Workflows, c \in Contacts :
            \/ ProcessSubmittedFragment(w, c) \/ ProcessSubmittedFragmentExhausted(w, c)
            \/ FragmentJobClosed(w, c)
            \/ RecordConfirmation(w, c) \/ ReachThreshold(w, c)
    BY <1>3 DEF FragmentStep
  <2>2. CASE RecordConfirmation(w, c) \/ ReachThreshold(w, c)
    BY <2>2, FragmentWatched
  <2>3. CASE \/ ProcessSubmittedFragment(w, c) \/ ProcessSubmittedFragmentExhausted(w, c)
             \/ FragmentJobClosed(w, c)
    <3>1. FragmentJob(w, c).type # "WORKFLOW_ADVANCE"
      BY DEF FragmentJob
    <3>2. \A i \in jobs : i.type = "WORKFLOW_ADVANCE" => i \in jobs'
      BY <2>3, <3>1, OtherJobDone
         DEF ProcessSubmittedFragment, ProcessSubmittedFragmentExhausted, FragmentJobClosed
    <3>3. workflows' = workflows /\ scanned' = scanned
      BY <2>3 DEF ProcessSubmittedFragment, ProcessSubmittedFragmentExhausted,
                  FragmentJobClosed, workflowVars
    <3> QED
      BY <1>0, <3>2, <3>3, WatchedFrame
  <2> QED
    BY <2>1, <2>2, <2>3
<1>4. CASE AdvanceStep
  BY <1>4, AdvanceWatched DEF AdvanceStep
<1>5. CASE FinalizeStep
  <2>1. ASSUME NEW j \in jobs, FinalizePublicationClosed(j)
        PROVE  Watched(v)'
    <3>1. \A i \in jobs : i.type = "WORKFLOW_ADVANCE" => i \in jobs'
      BY <2>1 DEF FinalizePublicationClosed
    <3> QED
      BY <1>0, <2>1, <3>1, WatchedFrame DEF FinalizePublicationClosed, workflowVars
  <2> QED
    BY <1>5, <2>1, EndWatched DEF FinalizeStep
<1>6. CASE ReconcileStep
  BY <1>6, ReconcileWatched
<1>7. CASE ContactStep
  <2>1. ASSUME NEW w \in Workflows, NEW c \in Contacts, AffirmDeath(w, c)
        PROVE  Watched(v)'
    BY <1>0, <2>1, WatchedFrame DEF AffirmDeath
  <2> QED
    BY <1>7, <2>1, EndWatched DEF ContactStep
<1>8. CASE OwnerStep
  <2>1. CASE \/ \E n \in Thresholds : UpdateOwnerSettings(n)
             \/ ChangeOwnerPassword \/ ArmOwner
             \/ \E c \in Contacts : CheckRemoval(c) \/ RemoveContact(c)
             \/ \E added \in SUBSET Contacts : ActivateShareGeneration(added)
    BY <1>0, <2>1, WatchedFrame
       DEF UpdateOwnerSettings, ChangeOwnerPassword, ArmOwner, CheckRemoval, RemoveContact,
           ActivateShareGeneration, workflowVars
  <2> QED
    BY <1>8, <2>1, EndWatched DEF OwnerStep, LoginOwner, CheckInOwner
<1> QED
  BY <1>1, <1>2, <1>3, <1>4, <1>5, <1>6, <1>7, <1>8 DEF Next, WorkerStep

\* No running countdown is forgotten: its advance job is booked, or the scanner
\* may still book one (processReleaseFragment, reconcileDueDeadlines).
THEOREM CountdownCorrect == Spec => []CountdownIsWatched
<1>1. Init => CountdownIsWatched
  BY DEF Init, CountdownIsWatched, NoWorkflow
<1>2. TypeOK /\ CountdownIsWatched /\ [Next]_vars => CountdownIsWatched'
  BY StepWatched
<1> QED
  BY <1>1, <1>2, TypeCorrect, PTL DEF Spec

-----------------------------------------------------------------------------
(* What a step makes of each row and of its confirmations *)

\* Nothing
Same(w) == workflows'[w] = workflows[w] /\ Approved(w)' = Approved(w)

Begins(w) == \E j \in jobs : StartDeathWorkflow(j, w)

Confirms(w) == \E c \in Contacts : RecordConfirmation(w, c) \/ ReachThreshold(w, c)

\* A contact's word leaves no confirmation of that contact.
Stops(w) ==
    /\ Active(w)
    /\ ~Locked(w)
    /\ workflows'[w] = Cancelled(w)

Locks(w) ==
    /\ workflows[w].state = "RELEASE_PENDING"
    /\ ~Locked(w)
    /\ workflows[w].releaseAt <= now
    /\ workflows'[w] = LockedNow(w)
    /\ Approved(w)' = Approved(w)

Releases(w) ==
    /\ workflows[w].state = "RELEASE_PENDING"
    /\ Locked(w)
    /\ workflows'[w] = Released(w)
    /\ Approved(w)' = Approved(w)

Changes(w) == Begins(w) \/ Confirms(w) \/ Stops(w) \/ Locks(w) \/ Releases(w)

AllSame == (\A w \in Workflows : Same(w)) /\ now' \in {now, now + 1}

OneChanges(w) == Changes(w) /\ now' = now /\ \A v \in Workflows \ {w} : Same(v)

\* An authentication cancels the one workflow it may cancel.
LEMMA AuthenticateChanges ==
    ASSUME TypeOK, OneFormalWorkflow, AuthenticateOwner
    PROVE  AllSame \/ \E w \in Workflows : OneChanges(w)
<1>1. /\ now' = now /\ actions' = actions
      /\ \A w \in Workflows :
            workflows'[w] = IF OwnerCancels(w) THEN Cancelled(w) ELSE workflows[w]
  BY DEF AuthenticateOwner
<1>2. \A w \in Workflows : ~OwnerCancels(w) => Same(w)
  BY <1>1 DEF Same, Approved
<1>3. CASE \A w \in Workflows : ~OwnerCancels(w)
  BY <1>1, <1>2, <1>3 DEF AllSame
<1>4. ASSUME NEW w \in Workflows, OwnerCancels(w) PROVE OneChanges(w)
  <2>1. \A v \in Workflows \ {w} : Same(v)
    BY <1>2, <1>4 DEF OneFormalWorkflow, OwnerCancels
  <2>2. Stops(w)
    BY <1>1, <1>4 DEF Stops, OwnerCancels
  <2> QED
    BY <1>1, <2>1, <2>2 DEF OneChanges, Changes
<1> QED
  BY <1>3, <1>4

\* Every step changes one workflow, by one stage, or none.
LEMMA StepChanges ==
    ASSUME TypeOK, OneFormalWorkflow, [Next]_vars
    PROVE  AllSame \/ \E w \in Workflows : OneChanges(w)
<1>1. ASSUME UNCHANGED <<workflows, actions>>, now' \in {now, now + 1} PROVE AllSame
  BY <1>1 DEF AllSame, Same, Approved
<1>2. CASE Tick \/ UNCHANGED vars
  BY <1>1, <1>2 DEF Tick, vars, workflowVars
<1>3. ASSUME NEW j \in jobs, NEW w \in Workflows, StartDeathWorkflow(j, w) PROVE OneChanges(w)
  <2>1. now' = now /\ \A v \in Workflows \ {w} : Same(v)
    BY <1>3 DEF StartDeathWorkflow, TypeOK, Same, Approved
  <2> QED
    BY <1>3, <2>1 DEF OneChanges, Changes, Begins
<1>4. CASE EvaluateStep
  BY <1>1, <1>3, <1>4
     DEF EvaluateStep, EvaluateCheckinClosed, EvaluateCheckinExhausted, workflowVars
<1>5. ASSUME NEW w \in Workflows, NEW c \in Contacts,
             RecordConfirmation(w, c) \/ ReachThreshold(w, c)
      PROVE  OneChanges(w)
  <2>1. now' = now /\ \A v \in Workflows \ {w} : Same(v)
    BY <1>5 DEF RecordConfirmation, ReachThreshold, TypeOK, Same, Approved
  <2> QED
    BY <1>5, <2>1 DEF OneChanges, Changes, Confirms
<1>6. CASE FragmentStep
  BY <1>1, <1>5, <1>6
     DEF FragmentStep, ProcessSubmittedFragment, ProcessSubmittedFragmentExhausted,
         FragmentJobClosed, workflowVars
<1>7. ASSUME NEW j \in jobs, AdvanceRelease(j) \/ FinalizePublication(j)
      PROVE  \E w \in Workflows : OneChanges(w)
  <2> DEFINE w == j.workflow
  <2>1. w \in Workflows
    BY <1>7, JobTypes DEF AdvanceRelease, FinalizePublication, AdvanceJobs, FinalizeJobs
  <2>2. now' = now /\ \A v \in Workflows \ {w} : Same(v)
    BY <1>7 DEF AdvanceRelease, FinalizePublication, TypeOK, Same, Approved
  <2>3. CASE AdvanceRelease(j)
    <3>1. workflows[w].releaseAt <= now
      BY <2>1, <2>3, Instants DEF AdvanceRelease
    <3>2. Locks(w)
      BY <2>1, <2>3, <3>1 DEF AdvanceRelease, Locks, TypeOK, Approved
    <3> QED
      BY <2>1, <2>2, <3>2 DEF OneChanges, Changes
  <2>4. CASE FinalizePublication(j)
    <3>1. Releases(w)
      BY <2>1, <2>4 DEF FinalizePublication, Releases, TypeOK, Approved
    <3> QED
      BY <2>1, <2>2, <3>1 DEF OneChanges, Changes
  <2> QED
    BY <1>7, <2>3, <2>4
<1>8. CASE AdvanceStep \/ FinalizeStep
  BY <1>1, <1>7, <1>8
     DEF AdvanceStep, FinalizeStep, AdvanceReleaseClosed, FinalizePublicationClosed, workflowVars
<1>9. CASE ReconcileStep
  BY <1>1, <1>9 DEF ReconcileStep, ReconcileCheckins, ReconcileReleases, workflowVars
<1>10. ASSUME NEW w \in Workflows, CancelDeathWorkflow(w) \/ \E c \in Contacts : ConfirmAlive(w, c)
       PROVE  OneChanges(w)
  <2>1. now' = now /\ \A v \in Workflows \ {w} : Same(v)
    BY <1>10 DEF CancelDeathWorkflow, ConfirmAlive, TypeOK, Same, Approved
  <2>2. Stops(w)
    BY <1>10 DEF CancelDeathWorkflow, ConfirmAlive, TypeOK, Stops, Active, ActiveStates
  <2> QED
    BY <2>1, <2>2 DEF OneChanges, Changes
<1>11. CASE ContactStep
  BY <1>1, <1>10, <1>11 DEF ContactStep, AffirmDeath
<1>12. CASE OwnerStep
  BY <1>1, <1>10, <1>12, AuthenticateChanges
     DEF OwnerStep, LoginOwner, CheckInOwner, UpdateOwnerSettings, ChangeOwnerPassword, ArmOwner,
         CheckRemoval, RemoveContact, ActivateShareGeneration, workflowVars
<1>13. CASE RecoveryStep
  BY <1>1, <1>13
     DEF RecoveryStep, StartRecovery, CompletePasswordReset, ExpireRecovery, workflowVars
<1> QED
  BY <1>2, <1>4, <1>6, <1>8, <1>9, <1>11, <1>12, <1>13 DEF Next, WorkerStep

-----------------------------------------------------------------------------
(* The snapshot of a workflow *)

\* The roster and the threshold are possible ones, and the end of the countdown
\* is set while it runs and after it, and is over once the workflow is locked.
SnapshotInv(w) ==
    /\ workflows[w].state # "NONE" =>
          /\ workflows[w].roster # {}
          /\ workflows[w].required \in 1..Cardinality(workflows[w].roster)
          /\ 3 * workflows[w].required >= 2 * Cardinality(workflows[w].roster)
    /\ workflows[w].state \in {"NONE", "AWAITING_CONFIRMATIONS"} => workflows[w].releaseAt = Null
    /\ workflows[w].state \in {"RELEASE_PENDING", "RELEASED"} => workflows[w].releaseAt # Null
    /\ Locked(w) => workflows[w].releaseAt <= now

SnapshotsInv == \A w \in Workflows : SnapshotInv(w)

\* Without a workflow there is nothing to snapshot.
LEMMA InitSnapshots == Init => SnapshotsInv
  BY DEF Init, SnapshotsInv, SnapshotInv, NoWorkflow, Locked

\* Seven tenths, rounded up, are two thirds and not more than all.
LEMMA ThresholdPossible ==
    ASSUME NEW n \in Nat \ {0}
    PROVE  DeathThreshold(n) \in 1..n /\ 3 * DeathThreshold(n) >= 2 * n
  BY DEF DeathThreshold

\* The row a workflow begins with
LEMMA BegunRow ==
    ASSUME TypeOK, RosterInv, NEW w \in Workflows, Begins(w)
    PROVE  /\ workflows[w].state = "NONE" /\ NoActiveDeath
           /\ workflows'[w].state = "AWAITING_CONFIRMATIONS"
           /\ workflows'[w].roster \in SUBSET Contacts /\ workflows'[w].roster # {}
           /\ workflows'[w].required \in 1..Cardinality(workflows'[w].roster)
           /\ 3 * workflows'[w].required >= 2 * Cardinality(workflows'[w].roster)
           /\ workflows'[w].releaseAt = Null /\ workflows'[w].lockedAt = Null
           /\ actions' = actions
<1>1. PICK j \in jobs : StartDeathWorkflow(j, w)
  BY DEF Begins
<1>2. /\ workflows[w].state = "NONE" /\ NoActiveDeath /\ actions' = actions
      /\ workflows'[w].state = "AWAITING_CONFIRMATIONS"
      /\ workflows'[w].roster = contacts
      /\ workflows'[w].required = DeathThreshold(Cardinality(contacts))
      /\ workflows'[w].releaseAt = Null /\ workflows'[w].lockedAt = Null
  BY <1>1 DEF StartDeathWorkflow, EvaluateDue, SnapshotValid, TypeOK
<1>3. contacts \in SUBSET Contacts
  BY DEF TypeOK
<1>4. Cardinality(contacts) \in Nat \ {0}
  BY <1>3, RosterCardinality, BoundsAssumption DEF RosterInv
<1>5. contacts # {}
  BY <1>4, FS_EmptySet
<1> QED
  BY <1>2, <1>3, <1>4, <1>5, ThresholdPossible

\* The fields that a stop, a lock and a release leave as they are
LEMMA KeptFields ==
    ASSUME TypeOK, NEW w \in Workflows
    PROVE  /\ Cancelled(w).required = workflows[w].required
           /\ Cancelled(w).releaseAt = workflows[w].releaseAt
           /\ LockedNow(w).releaseAt = workflows[w].releaseAt
           /\ Released(w).releaseAt = workflows[w].releaseAt
           /\ \A c \in Contacts : Confirmed(w, c).releaseAt = workflows[w].releaseAt
  BY DEF TypeOK, WorkflowRow, Cancelled, LockedNow, Released, Confirmed

\* A confirmation, in the fields of the row and in the set of confirmations
LEMMA ConfirmedRow ==
    ASSUME TypeOK, ReleaseInv, NEW w \in Workflows, NEW c \in Contacts,
           RecordConfirmation(w, c) \/ ReachThreshold(w, c)
    PROVE  /\ workflows[w].state = "AWAITING_CONFIRMATIONS"
           /\ c \in workflows[w].roster /\ c \notin Approved(w)
           /\ Approved(w)' = Approved(w) \cup {c}
           /\ workflows'[w].roster = workflows[w].roster
           /\ workflows'[w].required = workflows[w].required
           /\ workflows'[w].lockedAt = workflows[w].lockedAt
           /\ IF Cardinality(Approved(w) \cup {c}) >= workflows[w].required
              THEN workflows'[w].state = "RELEASE_PENDING" /\ workflows'[w].releaseAt = now + DAY
              ELSE /\ workflows'[w].state = "AWAITING_CONFIRMATIONS"
                   /\ workflows'[w].releaseAt = workflows[w].releaseAt
<1>1. /\ workflows[w].state = "AWAITING_CONFIRMATIONS" /\ fragments[w][c] = "VALIDATED"
      /\ actions[w][c] = "NONE" /\ actions' = [actions EXCEPT ![w][c] = "DEATH_LIKELY"]
  BY DEF RecordConfirmation, ReachThreshold, Recordable
<1>2. c \in workflows[w].roster /\ c \notin Approved(w)
  BY <1>1 DEF ReleaseInv, WorkflowInv, Approved
<1>3. Approved(w)' = Approved(w) \cup {c}
  BY <1>1 DEF TypeOK, Approved
<1>4. CASE RecordConfirmation(w, c)
  <2>1. /\ workflows'[w] = Confirmed(w, c)
        /\ ~(Cardinality(Approved(w) \cup {c}) >= workflows[w].required)
    BY <1>4 DEF RecordConfirmation, TypeOK, ThresholdReached
  <2> QED
    BY <1>1, <1>2, <1>3, <2>1, ConfirmedFields, KeptFields
<1>5. CASE ReachThreshold(w, c)
  <2>1. /\ workflows'[w] = Counting(w, c)
        /\ Cardinality(Approved(w) \cup {c}) >= workflows[w].required
    BY <1>5 DEF ReachThreshold, TypeOK, ThresholdReached
  <2> QED
    BY <1>1, <1>2, <1>3, <2>1, CountingFields, RowInstants
<1> QED
  BY <1>4, <1>5

\* Every step keeps the snapshots of roster, threshold and generation.
LEMMA StepSnapshots ==
    ASSUME TypeOK, ReleaseInv, OneFormalWorkflow, SnapshotsInv, [Next]_vars
    PROVE  SnapshotsInv'
<1>0. now \in Nat /\ \A w \in Workflows : workflows[w].releaseAt \in Int
  BY Instants
<1>1. ASSUME NEW w \in Workflows, Same(w), now' \in {now, now + 1} PROVE SnapshotInv(w)'
  BY <1>0, <1>1 DEF SnapshotsInv, SnapshotInv, Same, Locked
<1>2. ASSUME NEW w \in Workflows, Changes(w), now' = now PROVE SnapshotInv(w)'
  <2>0. SnapshotInv(w) /\ WorkflowInv(w) /\ RosterInv
    BY DEF SnapshotsInv, ReleaseInv
  <2>1. CASE Begins(w)
    BY <2>0, <2>1, BegunRow DEF SnapshotInv, Locked
  <2>2. CASE Confirms(w)
    <3>1. PICK c \in Contacts : RecordConfirmation(w, c) \/ ReachThreshold(w, c)
      BY <2>2 DEF Confirms
    <3>2. now + DAY # Null
      BY <1>0, DayAssumption DEF Null
    <3>3. ~Locked(w) /\ workflows[w].state = "AWAITING_CONFIRMATIONS"
      BY <2>0, <3>1, ConfirmedRow DEF WorkflowInv
    <3>4. ~Locked(w)'
      BY <3>1, <3>3, ConfirmedRow DEF Locked
    <3> QED
      BY <2>0, <3>1, <3>2, <3>3, <3>4, ConfirmedRow DEF SnapshotInv
  <2>3. CASE Stops(w)
    BY <2>0, <2>3, CancelledFields, KeptFields
       DEF SnapshotInv, Stops, Locked, Active, ActiveStates
  <2>4. CASE Locks(w)
    BY <1>2, <2>0, <2>4, ReleaseFields, KeptFields DEF SnapshotInv, Locks, Locked
  <2>5. CASE Releases(w)
    BY <1>2, <2>0, <2>5, ReleaseFields, KeptFields DEF SnapshotInv, Releases, Locked
  <2> QED
    BY <1>2, <2>1, <2>2, <2>3, <2>4, <2>5 DEF Changes
<1> QED
  BY <1>1, <1>2, StepChanges DEF AllSame, OneChanges, SnapshotsInv

\* What a workflow is about was set when it began, and its countdown runs to its end.
LEMMA SnapshotsCorrect == Spec => []SnapshotsInv
<1>1. TimelineInv => OneFormalWorkflow
  BY DEF TimelineInv
<1> QED
  BY <1>1, TypeCorrect, ReleaseCorrect, TimelineCorrect, InitSnapshots, StepSnapshots, PTL DEF Spec

-----------------------------------------------------------------------------
(* What a submitted fragment waits for *)

\* A fragment that was submitted and not yet recorded has its job in the queue;
\* the only other way is that the contacts' keys were shared anew since.
FragmentWaits(w, c) ==
    /\ fragments[w][c] = "PENDING" =>
          FragmentJob(w, c) \in jobs \/ workflows[w].generation # generation.id
    /\ fragments[w][c] = "VALIDATED" =>
          FragmentJob(w, c) \in jobs \/ actions[w][c] = "DEATH_LIKELY"

\* A generation that was retired never comes back: a fragment given up because
\* of it is not waited for again.
GenerationsPast == \A w \in Workflows : workflows[w].generation <= generation.id

FragmentsInv ==
    /\ GenerationsPast
    /\ \A w \in Workflows, c \in Contacts : FragmentWaits(w, c)

\* No submitted fragment is forgotten: the next step of its job is booked and
\* nothing it waits for is missing, whatever logins, cancellations, deliveries
\* again and other fragments come in between (process-release-fragment.ts).
FragmentsAreWatched ==
    \A w \in Workflows, c \in Contacts :
        /\ fragments[w][c] = "PENDING" /\ workflows[w].generation = generation.id =>
              /\ FragmentJob(w, c) \in jobs
              /\ workflows[w].state = "AWAITING_CONFIRMATIONS"
        /\ fragments[w][c] = "VALIDATED" /\ actions[w][c] # "DEATH_LIKELY" =>
              /\ Recordable(w, c)
              /\ ThresholdReached(w, c) =>
                    Cardinality({d \in Approved(w) \cup {c} : fragments[w][d] = "VALIDATED"})
                        >= workflows[w].required

\* The generation of a row, in the rows the transactions write
LEMMA GenerationFields ==
    ASSUME TypeOK, NEW w \in Workflows
    PROVE  /\ workflows[w].generation \in Nat /\ generation.id \in Nat
           /\ Cancelled(w).generation = workflows[w].generation
           /\ LockedNow(w).generation = workflows[w].generation
           /\ Released(w).generation = workflows[w].generation
           /\ \A c \in Contacts : /\ Confirmed(w, c).generation = workflows[w].generation
                                  /\ Counting(w, c).generation = workflows[w].generation
  BY DEF TypeOK, WorkflowRow, Cancelled, LockedNow, Released, Confirmed, Counting

\* A row gets its generation when the workflow begins.
LEMMA GenerationKept ==
    ASSUME TypeOK, NEW w \in Workflows, Same(w) \/ Changes(w)
    PROVE  \/ workflows'[w].generation = workflows[w].generation
           \/ Begins(w) /\ workflows'[w].generation = generation.id
<1>1. CASE Begins(w)
  BY <1>1 DEF Begins, StartDeathWorkflow, TypeOK
<1>2. ASSUME NEW c \in Contacts, RecordConfirmation(w, c) \/ ReachThreshold(w, c)
      PROVE  workflows'[w].generation = workflows[w].generation
  <2>1. workflows'[w] = Confirmed(w, c) \/ workflows'[w] = Counting(w, c)
    BY <1>2 DEF RecordConfirmation, ReachThreshold, TypeOK
  <2> QED
    BY <2>1, GenerationFields
<1> QED
  BY <1>1, <1>2, GenerationFields DEF Same, Changes, Confirms, Stops, Locks, Releases

\* What a step makes of the ACTIVE generation
LEMMA GenerationMoves ==
    ASSUME TypeOK, [Next]_vars
    PROVE  \/ generation' = generation
           \/ /\ generation'.id = generation.id + 1
              /\ UNCHANGED <<workflows, fragments, actions, jobs>>
<1> USE DEF rosterVars, ownerVars, workflowVars
<1>1. CASE Tick \/ UNCHANGED vars
  BY <1>1 DEF Tick, vars
<1>2. CASE EvaluateStep
  BY <1>2 DEF EvaluateStep, StartDeathWorkflow, EvaluateCheckinClosed, EvaluateCheckinExhausted
<1>3. CASE FragmentStep
  BY <1>3 DEF FragmentStep, ProcessSubmittedFragment, ProcessSubmittedFragmentExhausted,
              RecordConfirmation, ReachThreshold, FragmentJobClosed
<1>4. CASE AdvanceStep \/ FinalizeStep
  BY <1>4 DEF AdvanceStep, FinalizeStep, AdvanceRelease, AdvanceReleaseClosed,
              FinalizePublication, FinalizePublicationClosed
<1>5. CASE ReconcileStep
  BY <1>5 DEF ReconcileStep, ReconcileCheckins, ReconcileReleases
<1>6. CASE ContactStep
  BY <1>6 DEF ContactStep, AffirmDeath, ConfirmAlive
<1>7. ASSUME NEW added \in SUBSET Contacts, ActivateShareGeneration(added)
      PROVE  /\ generation'.id = generation.id + 1
             /\ UNCHANGED <<workflows, fragments, actions, jobs>>
  BY <1>7 DEF ActivateShareGeneration
<1>8. CASE OwnerStep
  BY <1>7, <1>8
     DEF OwnerStep, CancelDeathWorkflow, LoginOwner, CheckInOwner, AuthenticateOwner,
         UpdateOwnerSettings, ChangeOwnerPassword, ArmOwner, CheckRemoval, RemoveContact
<1>9. CASE RecoveryStep
  BY <1>9 DEF RecoveryStep, StartRecovery, CompletePasswordReset, ExpireRecovery
<1> QED
  BY <1>1, <1>2, <1>3, <1>4, <1>5, <1>6, <1>8, <1>9 DEF Next, WorkerStep

\* Retired generations stay retired.
LEMMA StepGenerations ==
    ASSUME TypeOK, OneFormalWorkflow, GenerationsPast, [Next]_vars
    PROVE  GenerationsPast'
<1>1. CASE generation' = generation
  BY <1>1, StepChanges, GenerationKept, GenerationFields
     DEF GenerationsPast, AllSame, OneChanges
<1>2. CASE generation'.id = generation.id + 1 /\ workflows' = workflows
  BY <1>2, GenerationFields DEF GenerationsPast
<1> QED
  BY <1>1, <1>2, GenerationMoves

\* A step that leaves this fragment, its confirmation and its job alone, or ends
\* the fragment
LEMMA FragmentFrame ==
    ASSUME NEW w \in Workflows, NEW c \in Contacts, FragmentWaits(w, c),
           workflows'[w].generation = workflows[w].generation,
           generation' = generation,
           \/ /\ fragments'[w][c] = fragments[w][c]
              /\ actions'[w][c] = actions[w][c]
           \/ fragments'[w][c] \notin {"PENDING", "VALIDATED"},
           FragmentJob(w, c) \in jobs => FragmentJob(w, c) \in jobs'
    PROVE  FragmentWaits(w, c)'
  BY DEF FragmentWaits

\* What a step does to one fragment that it neither moves on nor lets down
LetAlone(w, c) ==
    /\ \/ /\ fragments'[w][c] = fragments[w][c]
          /\ actions'[w][c] = actions[w][c]
       \/ fragments'[w][c] \notin {"PENDING", "VALIDATED"}
    /\ FragmentJob(w, c) \in jobs => FragmentJob(w, c) \in jobs'

\* The worker's steps but those of the fragment job let every fragment alone,
LEMMA OtherJobsLetAlone ==
    ASSUME TypeOK, EvaluateStep \/ AdvanceStep \/ FinalizeStep \/ ReconcileStep,
           NEW w \in Workflows, NEW c \in Contacts
    PROVE  LetAlone(w, c)
<1>1. FragmentJob(w, c).type = "FRAGMENT_PROCESS"
  BY DEF FragmentJob
<1>2. ASSUME NEW j, NEW new, j.type # "FRAGMENT_PROCESS",
             Done(j, new) \/ jobs' = jobs \ {j} \/ jobs' = jobs \cup new
      PROVE  FragmentJob(w, c) \in jobs => FragmentJob(w, c) \in jobs'
  BY <1>1, <1>2 DEF Done
<1>3. CASE EvaluateStep
  BY <1>2, <1>3
     DEF EvaluateStep, StartDeathWorkflow, EvaluateDue, EvaluateCheckinClosed,
         EvaluateCheckinExhausted, workflowVars, LetAlone
<1>4. CASE AdvanceStep
  BY <1>2, <1>4 DEF AdvanceStep, AdvanceRelease, AdvanceReleaseClosed, workflowVars, LetAlone
<1>5. CASE FinalizeStep
  BY <1>2, <1>5
     DEF FinalizeStep, FinalizePublication, FinalizePublicationClosed, workflowVars, LetAlone
<1>6. CASE ReconcileStep
  BY <1>6 DEF ReconcileStep, ReconcileCheckins, ReconcileReleases, workflowVars, LetAlone
<1> QED
  BY <1>3, <1>4, <1>5, <1>6

\* ... and so do the clock, the owner, the recovery and a contact who says the
\* owner is alive.
LEMMA OthersLetAlone ==
    ASSUME TypeOK,
           \/ Tick \/ OwnerStep \/ RecoveryStep \/ UNCHANGED vars
           \/ \E v \in Workflows, d \in Contacts : ConfirmAlive(v, d),
           NEW w \in Workflows, NEW c \in Contacts
    PROVE  LetAlone(w, c)
<1>1. \A v \in Workflows : DestroyedFragments(v)[c] \notin {"PENDING", "VALIDATED"}
  BY DEF DestroyedFragments
<1>2. CASE Tick \/ UNCHANGED vars
  BY <1>2 DEF Tick, vars, workflowVars, LetAlone
<1>3. CASE RecoveryStep
  BY <1>3 DEF RecoveryStep, StartRecovery, CompletePasswordReset, ExpireRecovery, workflowVars,
              LetAlone
<1>4. ASSUME NEW v \in Workflows, NEW d \in Contacts, ConfirmAlive(v, d)
      PROVE  LetAlone(w, c)
  <2>1. CASE v = w
    BY <1>1, <1>4, <2>1 DEF ConfirmAlive, TypeOK, LetAlone
  <2>2. CASE v # w
    BY <1>4, <2>2 DEF ConfirmAlive, TypeOK, LetAlone
  <2> QED
    BY <2>1, <2>2
<1>5. CASE AuthenticateOwner
  BY <1>1, <1>5 DEF AuthenticateOwner, TypeOK, LetAlone
<1>6. CASE OwnerStep
  BY <1>5, <1>6
     DEF OwnerStep, LoginOwner, CheckInOwner, CancelDeathWorkflow, UpdateOwnerSettings,
         ChangeOwnerPassword, ArmOwner, CheckRemoval, RemoveContact, ActivateShareGeneration,
         workflowVars, LetAlone
<1> QED
  BY <1>2, <1>3, <1>4, <1>6

\* A submitted fragment gets its job.
LEMMA AffirmWaits ==
    ASSUME TypeOK, NEW w \in Workflows, NEW c \in Contacts, AffirmDeath(w, c),
           NEW v \in Workflows, NEW d \in Contacts
    PROVE  \/ LetAlone(v, d)
           \/ fragments'[v][d] = "PENDING" /\ FragmentJob(v, d) \in jobs'
<1>1. CASE v = w /\ d = c
  BY <1>1 DEF AffirmDeath, TypeOK
<1>2. CASE v # w \/ d # c
  BY <1>2 DEF AffirmDeath, TypeOK, LetAlone
<1> QED
  BY <1>1, <1>2

\* The fragment job moves its own fragment on and lets the others alone, but at
\* the threshold it ends them.
LEMMA FragmentStepWaits ==
    ASSUME TypeOK, ReleaseInv, FragmentsInv, FragmentStep,
           NEW v \in Workflows, NEW d \in Contacts
    PROVE  LetAlone(v, d) \/ FragmentWaits(v, d)'
<1>1. PICK w \in Workflows, c \in Contacts :
          \/ ProcessSubmittedFragment(w, c) \/ ProcessSubmittedFragmentExhausted(w, c)
          \/ FragmentJobClosed(w, c)
          \/ RecordConfirmation(w, c) \/ ReachThreshold(w, c)
  BY DEF FragmentStep
<1>2. FragmentJob(w, c) \in jobs
  BY <1>1 DEF ProcessSubmittedFragment, ProcessSubmittedFragmentExhausted, FragmentJobClosed,
              RecordConfirmation, ReachThreshold, Recordable
<1>3. CASE v # w \/ d # c
  <2>1. FragmentJob(v, d) # FragmentJob(w, c)
    BY <1>3 DEF FragmentJob
  <2>2. jobs \ {FragmentJob(w, c)} \subseteq jobs'
    BY <1>1 DEF ProcessSubmittedFragment, ProcessSubmittedFragmentExhausted, FragmentJobClosed,
                RecordConfirmation, ReachThreshold, Done
  <2>3. actions'[v][d] = actions[v][d]
    BY <1>1, <1>3 DEF ProcessSubmittedFragment, ProcessSubmittedFragmentExhausted,
                      FragmentJobClosed, RecordConfirmation, ReachThreshold, workflowVars, TypeOK
  <2>4. CASE ~ReachThreshold(w, c)
    <3>1. fragments'[v][d] = fragments[v][d]
      BY <1>1, <1>3, <2>4 DEF ProcessSubmittedFragment, ProcessSubmittedFragmentExhausted,
                      FragmentJobClosed, RecordConfirmation, workflowVars, TypeOK
    <3> QED
      BY <2>1, <2>2, <2>3, <3>1 DEF LetAlone
  <2>5. CASE ReachThreshold(w, c)
    <3>1. \/ fragments'[v][d] = fragments[v][d]
          \/ fragments'[v][d] \notin {"PENDING", "VALIDATED"}
      BY <2>5 DEF ReachThreshold, DestroyedFragments, TypeOK
    <3> QED
      BY <2>1, <2>2, <2>3, <3>1 DEF LetAlone
  <2> QED
    BY <2>4, <2>5
<1>4. CASE v = w /\ d = c
  <2>1. CASE ProcessSubmittedFragment(w, c)
    BY <1>2, <1>4, <2>1 DEF ProcessSubmittedFragment, TypeOK, FragmentWaits
  <2>2. CASE ProcessSubmittedFragmentExhausted(w, c)
    BY <1>4, <2>2 DEF ProcessSubmittedFragmentExhausted, workflowVars, rosterVars, FragmentWaits
  <2>3. CASE FragmentJobClosed(w, c)
    <3>1. fragments[w][c] = "VALIDATED" => actions[w][c] = "DEATH_LIKELY"
      <4>1. fragments[w][c] = "VALIDATED" =>
               workflows[w].state = "AWAITING_CONFIRMATIONS" /\ actions[w][c] # "ALIVE"
        BY DEF ReleaseInv, WorkflowInv
      <4>2. actions[w][c] \in Decisions
        BY DEF TypeOK
      <4> QED
        BY <2>3, <4>1, <4>2 DEF FragmentJobClosed, Recordable, Decisions
    <3> QED
      BY <1>4, <2>3, <3>1 DEF FragmentJobClosed, workflowVars, FragmentWaits
  <2>4. CASE RecordConfirmation(w, c)
    BY <1>4, <2>4 DEF RecordConfirmation, Recordable, TypeOK, FragmentWaits
  <2>5. CASE ReachThreshold(w, c)
    BY <1>4, <2>5 DEF ReachThreshold, DestroyedFragments, TypeOK, FragmentWaits
  <2> QED
    BY <1>1, <2>1, <2>2, <2>3, <2>4, <2>5
<1> QED
  BY <1>3, <1>4

\* Every step keeps every submitted fragment waiting for a job that exists.
LEMMA StepWaits ==
    ASSUME TypeOK, ReleaseInv, OneFormalWorkflow, FragmentsInv, [Next]_vars,
           NEW w \in Workflows, NEW c \in Contacts
    PROVE  FragmentWaits(w, c)'
<1>0. FragmentWaits(w, c) /\ workflows[w].generation <= generation.id
  BY DEF FragmentsInv, GenerationsPast
<1>1. CASE generation' # generation
  <2>1. generation'.id = generation.id + 1 /\ UNCHANGED <<workflows, fragments, actions, jobs>>
    BY <1>1, GenerationMoves
  <2> QED
    BY <1>0, <2>1, GenerationFields DEF FragmentWaits
<1>2. ASSUME generation' = generation, LetAlone(w, c) PROVE FragmentWaits(w, c)'
  <2>1. CASE workflows'[w].generation = workflows[w].generation
    BY <1>0, <1>2, <2>1, FragmentFrame DEF LetAlone
  <2>2. CASE Begins(w)
    BY <2>2 DEF Begins, StartDeathWorkflow, ReleaseInv, WorkflowInv, FragmentWaits
  <2> QED
    BY <2>1, <2>2, StepChanges, GenerationKept DEF AllSame, OneChanges
<1>3. ASSUME FragmentJob(w, c) \in jobs', fragments'[w][c] = "PENDING" PROVE FragmentWaits(w, c)'
  BY <1>3 DEF FragmentWaits
<1> QED
  BY <1>1, <1>2, <1>3, OtherJobsLetAlone, OthersLetAlone, AffirmWaits, FragmentStepWaits
     DEF Next, WorkerStep, ContactStep

\* What is waited for is all that is missing.
LEMMA WaitingIsEnough ==
    ASSUME TypeOK, ReleaseInv, FragmentsInv PROVE FragmentsAreWatched
<1> SUFFICES ASSUME NEW w \in Workflows, NEW c \in Contacts,
                    fragments[w][c] \in {"PENDING", "VALIDATED"}
             PROVE  /\ workflows[w].state = "AWAITING_CONFIRMATIONS"
                    /\ fragments[w][c] = "PENDING" /\ workflows[w].generation = generation.id
                         => FragmentJob(w, c) \in jobs
                    /\ fragments[w][c] = "VALIDATED" /\ actions[w][c] # "DEATH_LIKELY" =>
                          /\ Recordable(w, c)
                          /\ ThresholdReached(w, c) =>
                                Cardinality({d \in Approved(w) \cup {c} :
                                                fragments[w][d] = "VALIDATED"})
                                    >= workflows[w].required
  BY DEF FragmentsAreWatched
<1>1. WorkflowInv(w) /\ FragmentWaits(w, c)
  BY DEF ReleaseInv, FragmentsInv
<1>2. workflows[w].state = "AWAITING_CONFIRMATIONS" /\ actions[w][c] # "ALIVE"
  BY <1>1 DEF WorkflowInv
<1>3. actions[w][c] \in Decisions
  BY DEF TypeOK
<1>4. ASSUME fragments[w][c] = "VALIDATED", actions[w][c] # "DEATH_LIKELY"
      PROVE  Recordable(w, c)
  BY <1>1, <1>2, <1>3, <1>4 DEF FragmentWaits, Recordable, Decisions
<1>5. ASSUME fragments[w][c] = "VALIDATED"
      PROVE  {d \in Approved(w) \cup {c} : fragments[w][d] = "VALIDATED"} = Approved(w) \cup {c}
  BY <1>1, <1>2, <1>5 DEF WorkflowInv
<1> QED
  BY <1>1, <1>2, <1>4, <1>5 DEF FragmentWaits, ThresholdReached

\* No submitted fragment is forgotten, under any number of contacts, workflows
\* and generations: until it is recorded, rejected or destroyed its job is in the
\* queue and may take its next step, unless the keys were shared anew
\* (affirmDeath, processReleaseFragment, activateShareGeneration).
THEOREM FragmentsWatchedCorrect == Spec => []FragmentsAreWatched
<1>1. Init => FragmentsInv
  BY DEF Init, FragmentsInv, GenerationsPast, FragmentWaits, NoWorkflow
<1>2. TypeOK /\ ReleaseInv /\ OneFormalWorkflow /\ FragmentsInv /\ [Next]_vars => FragmentsInv'
  BY StepGenerations, StepWaits DEF FragmentsInv
<1>3. TimelineInv => OneFormalWorkflow
  BY DEF TimelineInv
<1>4. TypeOK /\ ReleaseInv /\ FragmentsInv => FragmentsAreWatched
  BY WaitingIsEnough
<1> QED
  BY <1>1, <1>2, <1>3, <1>4, TypeCorrect, ReleaseCorrect, TimelineCorrect, PTL DEF Spec

-----------------------------------------------------------------------------
(* The evaluation of the deadline in force *)

\* The job that evaluates the deadline in force is in the queue, or the scanner
\* may still book it.
EvaluationBooked ==
    schedule.status = "ACTIVE" =>
        \/ EvaluateJob(schedule.version, schedule.deadline) \in jobs
        \/ EvaluateKey(schedule.version) \notin scanned

\* What lets the only evaluation go by: when it came due the owner had not armed
\* the system, a workflow was active, or the roster was not that of its keys.
PassedBy ==
    /\ now >= schedule.deadline
    /\ setupState # "ARMED" \/ ~NoActiveDeath \/ ~SnapshotValid

\* The scanner has used no key of a schedule to come.
KeysPast == \A n \in Nat : EvaluateKey(n) \in scanned => n <= schedule.version

BookedUntilDue == now < schedule.deadline => EvaluationBooked

EvaluationInv == KeysPast /\ BookedUntilDue

KeepsEvaluation == EvaluationBooked => EvaluationBooked' \/ PassedBy

EvaluationIsLostOnlyWhenDue == [][KeepsEvaluation]_vars

\* A schedule begins, its workflow begins, or it stays and its evaluation is
\* used up for one of those reasons only.
Begun == schedule'.version = schedule.version + 1 /\ scanned' = scanned
Triggered ==
    /\ schedule'.status = "TRIGGERED"
    /\ schedule'.version = schedule.version
    /\ schedule'.deadline = schedule.deadline
    /\ scanned' = scanned
Stays ==
    /\ schedule' = schedule
    /\ EvaluateJob(schedule.version, schedule.deadline) \in jobs
          => \/ EvaluateJob(schedule.version, schedule.deadline) \in jobs'
             \/ PassedBy \/ schedule.status # "ACTIVE"
    /\ \A n \in Nat : EvaluateKey(n) \in scanned' =>
          \/ EvaluateKey(n) \in scanned
          \/ /\ n = schedule.version
             /\ EvaluateJob(schedule.version, schedule.deadline) \in jobs'

\* The handler of an evaluation uses up the job it was given.
LEMMA EvaluateMoves ==
    ASSUME TypeOK, EvaluateStep PROVE Triggered \/ Stays
<1>1. PICK j \in jobs : \/ \E w \in Workflows : StartDeathWorkflow(j, w)
                        \/ EvaluateCheckinClosed(j) \/ EvaluateCheckinExhausted(j)
  BY DEF EvaluateStep
<1>2. CASE \E w \in Workflows : StartDeathWorkflow(j, w)
  BY <1>2 DEF StartDeathWorkflow, TypeOK, Triggered
<1>3. CASE EvaluateCheckinClosed(j) \/ EvaluateCheckinExhausted(j)
  <2>1. schedule' = schedule /\ scanned' = scanned /\ jobs' = jobs \ {j}
    BY <1>3 DEF EvaluateCheckinClosed, EvaluateCheckinExhausted
  <2>2. CASE j # EvaluateJob(schedule.version, schedule.deadline)
    BY <2>1, <2>2 DEF Stays
  <2>3. CASE j = EvaluateJob(schedule.version, schedule.deadline)
    <3>1. j.version = schedule.version /\ j.at = schedule.deadline
      BY <2>3 DEF EvaluateJob
    <3>2. now >= schedule.deadline
      BY <1>3, <3>1, Instants DEF EvaluateCheckinClosed, EvaluateCheckinExhausted, EvaluateDue
    <3>3. PassedBy \/ schedule.status # "ACTIVE"
      BY <1>3, <3>1, <3>2 DEF EvaluateCheckinClosed, EvaluateCheckinExhausted, PassedBy
    <3> QED
      BY <2>1, <3>3 DEF Stays
  <2> QED
    BY <2>2, <2>3
<1> QED
  BY <1>1, <1>2, <1>3

\* The scanner books a job for the key it uses.
LEMMA ReconcileMoves ==
    ASSUME TypeOK, ReconcileStep PROVE Stays
<1>1. CASE ReconcileCheckins
  <2>1. \A n \in Nat : EvaluateKey(n) = EvaluateKey(schedule.version) => n = schedule.version
    BY DEF EvaluateKey
  <2> QED
    BY <1>1, <2>1 DEF ReconcileCheckins, Stays
<1>2. ASSUME NEW w \in Workflows, ReconcileReleases(w) PROVE Stays
  <2>1. \A n \in Nat : EvaluateKey(n) # AdvanceKey(w, workflows[w].version)
    BY DEF EvaluateKey, AdvanceKey
  <2> QED
    BY <1>2, <2>1 DEF ReconcileReleases, Stays
<1> QED
  BY <1>1, <1>2 DEF ReconcileStep

\* The other jobs are of other types.
LEMMA OtherJobsStay ==
    ASSUME TypeOK, FragmentStep \/ AdvanceStep \/ FinalizeStep PROVE Stays
<1> DEFINE e == EvaluateJob(schedule.version, schedule.deadline)
<1>1. ASSUME NEW j, NEW new, j.type # "CHECKIN_EVALUATE",
             Done(j, new) \/ jobs' = jobs \ {j} \/ jobs' = jobs
      PROVE  e \in jobs => e \in jobs'
  <2>1. e.type = "CHECKIN_EVALUATE"
    BY DEF EvaluateJob
  <2> QED
    BY <1>1, <2>1 DEF Done
<1>2. \A w \in Workflows, c \in Contacts : FragmentJob(w, c).type # "CHECKIN_EVALUATE"
  BY DEF FragmentJob
<1>3. CASE FragmentStep
  <2>1. PICK w \in Workflows, c \in Contacts :
            \/ ProcessSubmittedFragment(w, c) \/ ProcessSubmittedFragmentExhausted(w, c)
            \/ FragmentJobClosed(w, c)
            \/ RecordConfirmation(w, c) \/ ReachThreshold(w, c)
    BY <1>3 DEF FragmentStep
  <2>2. e \in jobs => e \in jobs'
    BY <1>1, <1>2, <2>1 DEF ProcessSubmittedFragment, ProcessSubmittedFragmentExhausted,
            FragmentJobClosed, RecordConfirmation, ReachThreshold
  <2> QED
    BY <2>1, <2>2 DEF ProcessSubmittedFragment, ProcessSubmittedFragmentExhausted,
            FragmentJobClosed, RecordConfirmation, ReachThreshold, Stays
<1>4. CASE AdvanceStep
  BY <1>1, <1>4 DEF AdvanceStep, AdvanceRelease, AdvanceReleaseClosed, Stays
<1>5. CASE FinalizeStep
  BY <1>1, <1>5 DEF FinalizeStep, FinalizePublication, FinalizePublicationClosed, Stays
<1> QED
  BY <1>3, <1>4, <1>5

\* What the owner, the contacts and the recovery do to the schedule
LEMMA OthersBegin ==
    ASSUME TypeOK, Tick \/ ContactStep \/ OwnerStep \/ RecoveryStep \/ UNCHANGED vars
    PROVE  Begun \/ Stays
<1>1. Rescheduled.version = schedule.version + 1
  BY RescheduledFields
<1>2. ASSUME UNCHANGED <<schedule, scanned>>, jobs \subseteq jobs' PROVE Stays
  BY <1>2 DEF Stays
<1>3. CASE Tick \/ UNCHANGED vars
  BY <1>2, <1>3 DEF Tick, vars
<1>4. CASE ContactStep
  BY <1>1, <1>2, <1>4 DEF ContactStep, AffirmDeath, ConfirmAlive, Begun
<1>5. CASE AuthenticateOwner
  BY <1>1, <1>2, <1>5 DEF AuthenticateOwner, RecordCheckIn, Begun
<1>6. CASE OwnerStep
  <2>1. ASSUME NEW w \in Workflows, CancelDeathWorkflow(w) PROVE Begun
    BY <1>1, <2>1 DEF CancelDeathWorkflow, Begun
  <2>2. ASSUME NEW n \in Thresholds, UpdateOwnerSettings(n) PROVE Begun
    BY <2>2 DEF UpdateOwnerSettings, Begun
  <2>3. CASE \/ ChangeOwnerPassword \/ ArmOwner
             \/ \E c \in Contacts : CheckRemoval(c) \/ RemoveContact(c)
             \/ \E added \in SUBSET Contacts : ActivateShareGeneration(added)
    BY <1>2, <2>3 DEF ChangeOwnerPassword, ArmOwner, CheckRemoval, RemoveContact,
                      ActivateShareGeneration
  <2> QED
    BY <1>5, <1>6, <2>1, <2>2, <2>3 DEF OwnerStep, LoginOwner, CheckInOwner
<1>7. CASE RecoveryStep
  BY <1>1, <1>2, <1>7
     DEF RecoveryStep, StartRecovery, CompletePasswordReset, ExpireRecovery, RecordCheckIn, Begun
<1> QED
  BY <1>3, <1>4, <1>6, <1>7

\* A booked evaluation is lost for one of the reasons only, and the schedule to
\* come has none used up.
LEMMA StepEvaluation ==
    ASSUME TypeOK, EvaluationInv, [Next]_vars
    PROVE  EvaluationInv' /\ KeepsEvaluation
<1> USE DEF BookedUntilDue, KeepsEvaluation
<1>0. /\ now \in Nat /\ now' \in {now, now + 1}
      /\ schedule.version \in Nat /\ schedule.deadline \in Nat
  <2>1. CASE Tick \/ UNCHANGED vars
    BY <2>1 DEF Tick, vars, TypeOK
  <2>2. CASE ~(Tick \/ UNCHANGED vars)
    BY <2>2, StepKinds DEF Quiet, Progress, Ended, AuthenticateOwner, UpdateOwnerSettings,
                           CompletePasswordReset, StartDeathWorkflow, TypeOK
  <2> QED
    BY <2>1, <2>2
<1>1. CASE Begun
  <2>1. EvaluateKey(schedule.version + 1) \notin scanned
    BY <1>0 DEF EvaluationInv, KeysPast
  <2>2. EvaluationBooked'
    BY <1>1, <2>1 DEF Begun, EvaluationBooked, EvaluateKey
  <2>3. KeysPast'
    BY <1>0, <1>1 DEF Begun, EvaluationInv, KeysPast, EvaluateKey
  <2> QED
    BY <2>2, <2>3 DEF EvaluationInv
<1>2. CASE Triggered
  <2>1. EvaluationBooked'
    BY <1>2 DEF Triggered, EvaluationBooked
  <2>2. KeysPast'
    BY <1>2 DEF Triggered, EvaluationInv, KeysPast, EvaluateKey
  <2> QED
    BY <2>1, <2>2 DEF EvaluationInv
<1>3. CASE Stays
  <2>1. EvaluationBooked => EvaluationBooked' \/ PassedBy
    BY <1>0, <1>3 DEF Stays, EvaluationBooked, EvaluateKey, EvaluateJob
  <2>2. KeysPast'
    BY <1>0, <1>3 DEF Stays, EvaluationInv, KeysPast, EvaluateKey
  <2>3. now' < schedule'.deadline => EvaluationBooked'
    BY <1>0, <1>3, <2>1 DEF Stays, EvaluationInv, PassedBy
  <2> QED
    BY <2>1, <2>2, <2>3 DEF EvaluationInv
<1>4. Begun \/ Triggered \/ Stays
  BY EvaluateMoves, ReconcileMoves, OtherJobsStay, OthersBegin DEF Next, WorkerStep
<1> QED
  BY <1>1, <1>2, <1>3, <1>4

\* Until its deadline every schedule has its evaluation booked, whoever wrote it
\* and whether or not a job was booked with it, and no step loses that afterwards
\* unless the evaluation came due while the system was not armed, while a workflow
\* was active, or while the roster was not that of its keys.  Those are the ways,
\* and the only ones, to the schedule nobody evaluates any more, which the scanner's
\* one key per version does not repair (evaluateCheckin, reconcileDueDeadlines).
THEOREM EvaluationCorrect == Spec => []BookedUntilDue /\ EvaluationIsLostOnlyWhenDue
<1>1. Init => EvaluationInv
  BY DEF Init, EvaluationInv, KeysPast, EvaluationBooked, BookedUntilDue
<1>2. TypeOK /\ EvaluationInv /\ [Next]_vars
        => EvaluationInv' /\ [KeepsEvaluation]_vars
  BY StepEvaluation
<1>3. EvaluationInv => BookedUntilDue
  BY DEF EvaluationInv
<1> QED
  BY <1>1, <1>2, <1>3, TypeCorrect, PTL DEF Spec, EvaluationIsLostOnlyWhenDue

-----------------------------------------------------------------------------
(* The promise *)

\* What the promise sees, one function each
Phases == [w \in Workflows |-> phaseOf(w)]
Asked == [w \in Workflows |-> workflows[w].roster]
Quorums == [w \in Workflows |-> workflows[w].required]
Confirmations == [w \in Workflows |-> IF workflows[w].state = "CANCELLED" THEN {} ELSE Approved(w)]
Ends == [w \in Workflows |-> IF workflows[w].releaseAt = Null THEN 0 ELSE workflows[w].releaseAt]

\* The promise and the switch count alike.
LEMMA SamePromiseSizes == \A S : Promise!Cardinality(S) = Cardinality(S)
  BY DEF Promise!Cardinality, Cardinality

\* A function written in one place
LEMMA WrittenOnce ==
    ASSUME NEW S, NEW f, NEW g, f = [x \in S |-> f[x]], g = [x \in S |-> g[x]],
           NEW a \in S, \A x \in S \ {a} : g[x] = f[x]
    PROVE  g = [f EXCEPT ![a] = g[a]]
  OBVIOUS

\* The phase tells an active workflow.
LEMMA PhasesOf ==
    ASSUME TypeOK, ReleaseInv, NEW w \in Workflows
    PROVE  /\ phaseOf(w) = "NONE" <=> workflows[w].state = "NONE"
           /\ phaseOf(w) = "GATHERING" <=> workflows[w].state = "AWAITING_CONFIRMATIONS"
           /\ phaseOf(w) = "GRACE" <=> workflows[w].state = "RELEASE_PENDING" /\ ~Locked(w)
           /\ phaseOf(w) = "LOCKED" <=> workflows[w].state = "RELEASE_PENDING" /\ Locked(w)
  BY DEF phaseOf, TypeOK, WorkflowRow, States, ActiveStates

\* A workflow left alone is seen as before.
LEMMA SameSeen ==
    ASSUME NEW w \in Workflows, Same(w)
    PROVE  /\ phaseOf(w)' = phaseOf(w) /\ Asked'[w] = Asked[w] /\ Quorums'[w] = Quorums[w]
           /\ Confirmations'[w] = Confirmations[w] /\ Ends'[w] = Ends[w] /\ Phases'[w] = Phases[w]
<1>1. phaseOf(w)' = phaseOf(w)
  BY DEF Same, phaseOf, Locked
<1> QED
  BY <1>1 DEF Same, Phases, Asked, Quorums, Confirmations, Ends

\* A step that changes a workflow, in the terms of the promise
LEMMA OtherSeen ==
    ASSUME NEW w \in Workflows, \A v \in Workflows \ {w} : Same(v)
    PROVE  /\ Phases' = [Phases EXCEPT ![w] = phaseOf(w)']
           /\ Asked' = [Asked EXCEPT ![w] = workflows'[w].roster]
           /\ Quorums' = [Quorums EXCEPT ![w] = workflows'[w].required]
           /\ Confirmations' = [Confirmations EXCEPT ![w] =
                 IF workflows'[w].state = "CANCELLED" THEN {} ELSE Approved(w)']
           /\ Ends' = [Ends EXCEPT ![w] =
                 IF workflows'[w].releaseAt = Null THEN 0 ELSE workflows'[w].releaseAt]
<1>1. Phases' = [Phases EXCEPT ![w] = phaseOf(w)']
  <2>1. \A v \in Workflows \ {w} : Phases'[v] = Phases[v]
    BY SameSeen
  <2> QED
    BY <2>1, WrittenOnce DEF Phases
<1>2. Asked' = [Asked EXCEPT ![w] = workflows'[w].roster]
  <2>1. \A v \in Workflows \ {w} : Asked'[v] = Asked[v]
    BY SameSeen
  <2> QED
    BY <2>1, WrittenOnce DEF Asked
<1>3. Quorums' = [Quorums EXCEPT ![w] = workflows'[w].required]
  <2>1. \A v \in Workflows \ {w} : Quorums'[v] = Quorums[v]
    BY SameSeen
  <2> QED
    BY <2>1, WrittenOnce DEF Quorums
<1>4. Confirmations' = [Confirmations EXCEPT ![w] =
                 IF workflows'[w].state = "CANCELLED" THEN {} ELSE Approved(w)']
  <2>1. \A v \in Workflows \ {w} : Confirmations'[v] = Confirmations[v]
    BY SameSeen
  <2> QED
    BY <2>1, WrittenOnce DEF Confirmations
<1>5. Ends' = [Ends EXCEPT ![w] =
                 IF workflows'[w].releaseAt = Null THEN 0 ELSE workflows'[w].releaseAt]
  <2>1. \A v \in Workflows \ {w} : Ends'[v] = Ends[v]
    BY SameSeen
  <2> QED
    BY <2>1, WrittenOnce DEF Ends
<1> QED
  BY <1>1, <1>2, <1>3, <1>4, <1>5

\* A value written where it already is changes nothing.
LEMMA KeptOnce ==
    ASSUME NEW S, NEW f, f = [x \in S |-> f[x]], NEW a \in S
    PROVE  [f EXCEPT ![a] = f[a]] = f
  OBVIOUS

\* Without a workflow the promise has not begun either.
LEMMA SwitchInit == Init => Promise!Init
<1> SUFFICES ASSUME Init PROVE Promise!Init
  OBVIOUS
<1>1. \A w \in Workflows : /\ workflows[w] = NoWorkflow /\ phaseOf(w) = "NONE"
                           /\ Approved(w) = {}
  BY DEF Init, NoWorkflow, phaseOf, Approved
<1> QED
  BY <1>1 DEF Init, NoWorkflow, Promise!Init

\* The stages of a workflow are those of the promise.
LEMMA BeginsSeen ==
    ASSUME TypeOK, ReleaseInv, SnapshotsInv, NEW w \in Workflows, OneChanges(w), Begins(w)
    PROVE  Promise!Start(w)
<1>1. /\ workflows[w].state = "NONE" /\ NoActiveDeath
      /\ workflows'[w].state = "AWAITING_CONFIRMATIONS"
      /\ workflows'[w].roster \in SUBSET Contacts
      /\ workflows'[w].required \in 1..Cardinality(workflows'[w].roster)
      /\ 3 * workflows'[w].required >= 2 * Cardinality(workflows'[w].roster)
      /\ workflows'[w].releaseAt = Null
      /\ actions' = actions
  BY BegunRow DEF ReleaseInv
<1>2. phaseOf(w) = "NONE" /\ phaseOf(w)' = "GATHERING"
  BY <1>1 DEF phaseOf
<1>3. \A v \in Workflows : phaseOf(v) \notin Promise!Live
  BY <1>1, PhasesOf DEF Promise!Live, NoActiveDeath, Active, ActiveStates
<1>4. Confirmations' = Confirmations /\ Ends' = Ends
  <2>1. Approved(w)' = Approved(w) /\ workflows[w].releaseAt = Null
    BY <1>1 DEF Approved, SnapshotsInv, SnapshotInv
  <2>2. Confirmations[w] = Approved(w) /\ Ends[w] = 0
    BY <1>1, <2>1 DEF Confirmations, Ends
  <2>3. Confirmations' = [Confirmations EXCEPT ![w] = Confirmations[w]]
    BY <1>1, <2>1, <2>2, OtherSeen DEF OneChanges
  <2>4. Ends' = [Ends EXCEPT ![w] = Ends[w]]
    BY <1>1, <2>2, OtherSeen DEF OneChanges
  <2>5. [Confirmations EXCEPT ![w] = Confirmations[w]] = Confirmations
    BY KeptOnce DEF Confirmations
  <2>6. [Ends EXCEPT ![w] = Ends[w]] = Ends
    BY KeptOnce DEF Ends
  <2> QED
    BY <2>3, <2>4, <2>5, <2>6
<1>5. /\ Phases' = [Phases EXCEPT ![w] = "GATHERING"]
      /\ Asked' = [Asked EXCEPT ![w] = workflows'[w].roster]
      /\ Quorums' = [Quorums EXCEPT ![w] = workflows'[w].required]
  BY <1>2, OtherSeen DEF OneChanges
<1>6. workflows'[w].required \in 0..Cardinality(Contacts)
  <2>1. /\ Cardinality(workflows'[w].roster) \in Nat /\ Cardinality(Contacts) \in Nat
        /\ Cardinality(workflows'[w].roster) <= Cardinality(Contacts)
    BY <1>1, RosterCardinality, ContactsAssumption, FS_Subset
  <2> QED
    BY <1>1, <2>1
<1> QED
  BY <1>1, <1>2, <1>3, <1>4, <1>5, <1>6, SamePromiseSizes
     DEF Promise!Start, OneChanges, Phases, Asked, Quorums, Confirmations, Ends

\* A confirmation is one confirmation of the promise, with or without the quorum.
LEMMA ConfirmsSeen ==
    ASSUME TypeOK, ReleaseInv, SnapshotsInv, NEW w \in Workflows, OneChanges(w),
           NEW c \in Contacts, RecordConfirmation(w, c) \/ ReachThreshold(w, c)
    PROVE  Promise!Confirm(w, c)
<1> DEFINE enough == Cardinality(Approved(w) \cup {c}) >= workflows[w].required
<1>1. /\ workflows[w].state = "AWAITING_CONFIRMATIONS"
      /\ c \in workflows[w].roster /\ c \notin Approved(w)
      /\ Approved(w)' = Approved(w) \cup {c}
      /\ workflows'[w].roster = workflows[w].roster
      /\ workflows'[w].required = workflows[w].required
      /\ workflows'[w].lockedAt = workflows[w].lockedAt
      /\ enough => workflows'[w].state = "RELEASE_PENDING" /\ workflows'[w].releaseAt = now + DAY
      /\ ~enough => /\ workflows'[w].state = "AWAITING_CONFIRMATIONS"
                    /\ workflows'[w].releaseAt = workflows[w].releaseAt
  BY ConfirmedRow
<1>2. ~Locked(w) /\ ~Locked(w)'
  BY <1>1 DEF ReleaseInv, WorkflowInv, Locked
<1>3. phaseOf(w) = "GATHERING" /\ phaseOf(w)' = IF enough THEN "GRACE" ELSE "GATHERING"
  BY <1>1, <1>2 DEF phaseOf
<1>4. /\ Asked[w] = workflows[w].roster /\ Quorums[w] = workflows[w].required
      /\ Confirmations[w] = Approved(w) /\ Phases[w] = "GATHERING"
  BY <1>1, <1>3 DEF Asked, Quorums, Confirmations, Phases
<1>5. /\ Asked' = Asked /\ Quorums' = Quorums
      /\ Confirmations' = [Confirmations EXCEPT ![w] = Confirmations[w] \cup {c}]
      /\ Phases' = [Phases EXCEPT ![w] = IF enough THEN "GRACE" ELSE "GATHERING"]
  <2>1. /\ Asked' = [Asked EXCEPT ![w] = Asked[w]]
        /\ Quorums' = [Quorums EXCEPT ![w] = Quorums[w]]
    BY <1>1, <1>4, OtherSeen DEF OneChanges
  <2>2. [Asked EXCEPT ![w] = Asked[w]] = Asked
    BY KeptOnce DEF Asked
  <2>3. [Quorums EXCEPT ![w] = Quorums[w]] = Quorums
    BY KeptOnce DEF Quorums
  <2>4. Confirmations' = [Confirmations EXCEPT ![w] = Confirmations[w] \cup {c}]
    BY <1>1, <1>4, OtherSeen DEF OneChanges
  <2> QED
    BY <1>3, <2>1, <2>2, <2>3, <2>4, OtherSeen DEF OneChanges
<1>6. CASE enough
  <2>1. Ends' = [Ends EXCEPT ![w] = now + DAY]
    <3>1. now + DAY # Null
      BY Instants, DayAssumption DEF Null
    <3> QED
      BY <1>1, <1>6, <3>1, OtherSeen DEF OneChanges
  <2>2. Confirmations'[w] = Approved(w) \cup {c}
    BY <1>4, <1>5 DEF Confirmations
  <2>3. Promise!Cardinality(Confirmations'[w]) >= Quorums[w]
    BY <1>4, <1>6, <2>2, SamePromiseSizes
  <2> HIDE DEF enough
  <2> QED
    BY <1>3, <1>4, <1>5, <1>6, <1>1, <2>1, <2>3
       DEF Promise!Confirm, OneChanges, Phases, Asked, Quorums, Confirmations, Ends
<1>7. CASE ~enough
  <2>1. Ends' = Ends
    <3>1. Ends' = [Ends EXCEPT ![w] = Ends[w]]
      BY <1>1, <1>7, OtherSeen DEF OneChanges, Ends
    <3>2. [Ends EXCEPT ![w] = Ends[w]] = Ends
      BY KeptOnce DEF Ends
    <3> QED
      BY <3>1, <3>2
  <2>2. Phases' = Phases
    <3>1. Phases' = [Phases EXCEPT ![w] = Phases[w]]
      BY <1>4, <1>5, <1>7
    <3>2. [Phases EXCEPT ![w] = Phases[w]] = Phases
      BY KeptOnce DEF Phases
    <3> QED
      BY <3>1, <3>2
  <2>3. Confirmations'[w] = Approved(w) \cup {c}
    BY <1>4, <1>5 DEF Confirmations
  <2>4. ~(Promise!Cardinality(Confirmations'[w]) >= Quorums[w])
    BY <1>4, <1>7, <2>3, SamePromiseSizes
  <2> HIDE DEF enough
  <2> QED
    BY <1>3, <1>4, <1>5, <1>7, <1>1, <2>1, <2>2, <2>4
       DEF Promise!Confirm, OneChanges, Phases, Asked, Quorums, Confirmations, Ends
<1> QED
  BY <1>6, <1>7

\* A row whose roster, threshold and countdown stay is asked and timed as before.
LEMMA KeptSeen ==
    ASSUME NEW w \in Workflows, \A v \in Workflows \ {w} : Same(v),
           workflows'[w].roster = workflows[w].roster,
           workflows'[w].required = workflows[w].required,
           workflows'[w].releaseAt = workflows[w].releaseAt
    PROVE  Asked' = Asked /\ Quorums' = Quorums /\ Ends' = Ends
<1>1. /\ Asked' = [Asked EXCEPT ![w] = Asked[w]]
      /\ Quorums' = [Quorums EXCEPT ![w] = Quorums[w]]
      /\ Ends' = [Ends EXCEPT ![w] = Ends[w]]
  BY OtherSeen DEF Asked, Quorums, Ends
<1>2. [Asked EXCEPT ![w] = Asked[w]] = Asked
  BY KeptOnce DEF Asked
<1>3. [Quorums EXCEPT ![w] = Quorums[w]] = Quorums
  BY KeptOnce DEF Quorums
<1>4. [Ends EXCEPT ![w] = Ends[w]] = Ends
  BY KeptOnce DEF Ends
<1> QED
  BY <1>1, <1>2, <1>3, <1>4

\* A cancellation is one of the promise.
LEMMA StopsSeen ==
    ASSUME TypeOK, ReleaseInv, NEW w \in Workflows, OneChanges(w), Stops(w)
    PROVE  Promise!Stop(w)
<1>1. /\ Active(w) /\ ~Locked(w) /\ workflows'[w].state = "CANCELLED"
      /\ workflows'[w].roster = workflows[w].roster
      /\ workflows'[w].required = workflows[w].required
      /\ workflows'[w].releaseAt = workflows[w].releaseAt
  BY CancelledFields, KeptFields DEF Stops
<1>2. phaseOf(w) \in {"GATHERING", "GRACE"} /\ phaseOf(w)' = "STOPPED"
  BY <1>1, PhasesOf DEF phaseOf, Active, ActiveStates
<1>3. Asked' = Asked /\ Quorums' = Quorums /\ Ends' = Ends
  BY <1>1, KeptSeen DEF OneChanges
<1>4. /\ Phases' = [Phases EXCEPT ![w] = "STOPPED"]
      /\ Confirmations' = [Confirmations EXCEPT ![w] = {}]
  BY <1>1, <1>2, OtherSeen DEF OneChanges
<1> QED
  BY <1>2, <1>3, <1>4
     DEF Promise!Stop, OneChanges, Phases, Asked, Quorums, Confirmations, Ends

\* The lock and the release leave the confirmations, too.
LEMMA EndSeen ==
    ASSUME TypeOK, NEW w \in Workflows, OneChanges(w), Locks(w) \/ Releases(w)
    PROVE  Asked' = Asked /\ Quorums' = Quorums /\ Ends' = Ends /\ Confirmations' = Confirmations
<1>1. /\ workflows'[w].roster = workflows[w].roster
      /\ workflows'[w].required = workflows[w].required
      /\ workflows'[w].releaseAt = workflows[w].releaseAt
      /\ workflows[w].state # "CANCELLED" /\ workflows'[w].state # "CANCELLED"
      /\ Approved(w)' = Approved(w)
  BY ReleaseFields, KeptFields DEF Locks, Releases
<1>2. Confirmations' = [Confirmations EXCEPT ![w] = Confirmations[w]]
  BY <1>1, OtherSeen DEF OneChanges, Confirmations
<1>3. [Confirmations EXCEPT ![w] = Confirmations[w]] = Confirmations
  BY KeptOnce DEF Confirmations
<1> QED
  BY <1>1, <1>2, <1>3, KeptSeen DEF OneChanges

\* The lock is the lock of the promise.
LEMMA LocksSeen ==
    ASSUME TypeOK, ReleaseInv, SnapshotsInv, NEW w \in Workflows, OneChanges(w), Locks(w)
    PROVE  Promise!Lock(w)
<1>1. /\ workflows[w].state = "RELEASE_PENDING" /\ ~Locked(w) /\ workflows[w].releaseAt <= now
      /\ workflows'[w].state = "RELEASE_PENDING" /\ Locked(w)'
  <2>1. now # Null
    BY Instants DEF Null
  <2> QED
    BY <2>1, ReleaseFields, LockInstants DEF Locks, Locked
<1>2. phaseOf(w) = "GRACE" /\ phaseOf(w)' = "LOCKED"
  BY <1>1 DEF phaseOf
<1>3. now >= Ends[w]
  BY <1>1, Instants DEF Ends
<1>4. Phases' = [Phases EXCEPT ![w] = "LOCKED"]
  BY <1>2, OtherSeen DEF OneChanges
<1> QED
  BY <1>2, <1>3, <1>4, EndSeen
     DEF Promise!Lock, OneChanges, Phases, Asked, Quorums, Confirmations, Ends

\* The release is the release of the promise.
LEMMA ReleasesSeen ==
    ASSUME TypeOK, ReleaseInv, SnapshotsInv, NEW w \in Workflows, OneChanges(w), Releases(w)
    PROVE  Promise!Release(w)
<1>1. workflows[w].state = "RELEASE_PENDING" /\ Locked(w) /\ workflows'[w].state = "RELEASED"
  BY ReleaseFields DEF Releases
<1>2. phaseOf(w) = "LOCKED" /\ phaseOf(w)' = "RELEASED"
  BY <1>1 DEF phaseOf
<1>3. Phases' = [Phases EXCEPT ![w] = "RELEASED"]
  BY <1>2, OtherSeen DEF OneChanges
<1> QED
  BY <1>2, <1>3, EndSeen
     DEF Promise!Release, OneChanges, Phases, Asked, Quorums, Confirmations, Ends

\* Steps that change no workflow let time pass, or are not seen.
LEMMA SameAllSeen ==
    ASSUME AllSame
    PROVE  Promise!Pass \/ UNCHANGED Promise!vars
<1>1. /\ Phases' = Phases /\ Asked' = Asked /\ Quorums' = Quorums
      /\ Confirmations' = Confirmations /\ Ends' = Ends
  <2>1. \A w \in Workflows :
            /\ Phases'[w] = Phases[w] /\ Asked'[w] = Asked[w] /\ Quorums'[w] = Quorums[w]
            /\ Confirmations'[w] = Confirmations[w] /\ Ends'[w] = Ends[w]
    BY SameSeen DEF AllSame
  <2>2. Phases' = Phases
    BY <2>1 DEF Phases
  <2>3. Asked' = Asked
    BY <2>1 DEF Asked
  <2>4. Quorums' = Quorums
    BY <2>1 DEF Quorums
  <2>5. Confirmations' = Confirmations
    BY <2>1 DEF Confirmations
  <2>6. Ends' = Ends
    BY <2>1 DEF Ends
  <2> QED
    BY <2>2, <2>3, <2>4, <2>5, <2>6
<1>2. CASE now' = now
  BY <1>1, <1>2 DEF Promise!vars, Phases, Asked, Quorums, Confirmations, Ends
<1>3. CASE now' = now + 1
  BY <1>1, <1>3 DEF Promise!Pass, Phases, Asked, Quorums, Confirmations, Ends
<1> QED
  BY <1>2, <1>3 DEF AllSame

\* Every step of the handlers is a step of the promise or leaves it alone.
LEMMA SwitchStep ==
    ASSUME TypeOK, ReleaseInv, OneFormalWorkflow, SnapshotsInv, [Next]_vars
    PROVE  [Promise!Next]_Promise!vars
<1>1. CASE AllSame
  BY <1>1, SameAllSeen DEF Promise!Next
<1>2. ASSUME NEW w \in Workflows, OneChanges(w) PROVE Promise!Next
  <2>1. ASSUME Confirms(w) PROVE \E c \in Contacts : Promise!Confirm(w, c)
    BY <1>2, <2>1, ConfirmsSeen DEF Confirms
  <2>2. \/ Promise!Start(w) \/ Promise!Stop(w) \/ Promise!Lock(w) \/ Promise!Release(w)
        \/ \E c \in Contacts : Promise!Confirm(w, c)
    BY <1>2, <2>1, BeginsSeen, StopsSeen, LocksSeen, ReleasesSeen DEF OneChanges, Changes
  <2> QED
    BY <2>2 DEF Promise!Next
<1> QED
  BY <1>1, <1>2, StepChanges

\* The safety part of ImplementsPromise: whatever jobs, retries and races, the
\* switch gathers confirmations of distinct contacts up to a quorum of two thirds or
\* more, waits the day of grace, locks, and releases (process-release-fragment.ts,
\* advance-release.ts, confirm-alive.ts).
THEOREM SwitchKeepsPromise == Spec => Promise!Init /\ [][Promise!Next]_Promise!vars
<1>1. TimelineInv => OneFormalWorkflow
  BY DEF TimelineInv
<1> QED
  BY <1>1, TypeCorrect, ReleaseCorrect, TimelineCorrect, SnapshotsCorrect, SwitchInit, SwitchStep,
     PTL DEF Spec

-----------------------------------------------------------------------------
(* The reducers *)

\* The reducers count sets as the handlers do.
LEMMA SameDomainSizes == \A S : Domain!Cardinality(S) = Cardinality(S)
  BY DEF Domain!Cardinality, Cardinality

\* The row after a step, as the reducer is shown it
LEMMA NextDeathRow ==
    ASSUME NEW w \in Workflows
    PROVE  [DeathRow(w)' EXCEPT !.graceDeadline = now] =
               [state |-> workflows'[w].state, contactIds |-> workflows'[w].roster,
                required |-> workflows'[w].required, approved |-> Approved(w)',
                releaseDelayDays |-> 1, graceDeadline |-> now,
                releaseAt |-> workflows'[w].releaseAt]
<1>1. DeathRow(w)' =
          [state |-> workflows'[w].state, contactIds |-> workflows'[w].roster,
           required |-> workflows'[w].required, approved |-> Approved(w)',
           releaseDelayDays |-> 1, graceDeadline |-> now',
           releaseAt |-> workflows'[w].releaseAt]
  BY DEF DeathRow
<1> QED
  BY <1>1

\* What FollowsReducers asks of one workflow
Follows(w) ==
    /\ [DeathRow(w)' EXCEPT !.graceDeadline = now] # DeathRow(w) =>
          FollowsDeathReducer(w) \/ LateCancellation(w)
    /\ ReleaseRow(w)' # ReleaseRow(w) =>
          FollowsReleaseReducer(w) \/ LateCancellation(w)

\* A workflow that was started is in a state the domain accepts.
LEMMA StartedSnapshot ==
    ASSUME TypeOK, ReleaseInv, NEW w \in Workflows, SnapshotInv(w), Active(w)
    PROVE  Domain!DeathSnapshot(DeathRow(w))
<1>0. WorkflowInv(w)
  BY DEF ReleaseInv
<1>1. /\ DeathRow(w).state = workflows[w].state /\ DeathRow(w).contactIds = workflows[w].roster
      /\ DeathRow(w).required = workflows[w].required /\ DeathRow(w).approved = Approved(w)
      /\ DeathRow(w).releaseDelayDays = 1 /\ DeathRow(w).releaseAt = workflows[w].releaseAt
  BY DEF DeathRow
<1>2. Domain!Snapshot(DeathRow(w))
  BY <1>0, <1>1, SameDomainSizes
     DEF Domain!Snapshot, SnapshotInv, WorkflowInv, Active, ActiveStates
<1>3. Domain!ThresholdReached(DeathRow(w)) <=> Cardinality(Approved(w)) >= workflows[w].required
  BY <1>1, SameDomainSizes DEF Domain!ThresholdReached
<1>4. Cardinality(Approved(w)) \in Nat /\ workflows[w].required \in Nat
  BY RosterCardinality DEF Approved, TypeOK, WorkflowRow
<1>5. \/ /\ workflows[w].state = "AWAITING_CONFIRMATIONS"
         /\ ~(Cardinality(Approved(w)) >= workflows[w].required)
         /\ workflows[w].releaseAt = Null
      \/ /\ workflows[w].state = "RELEASE_PENDING"
         /\ Cardinality(Approved(w)) >= workflows[w].required
         /\ workflows[w].releaseAt # Null
  BY <1>0, <1>4 DEF WorkflowInv, SnapshotInv, Active, ActiveStates
<1> QED
  BY <1>1, <1>2, <1>3, <1>5 DEF Domain!DeathSnapshot

\* So is every active one.
DeathSnapshots == \A w \in Workflows : Active(w) => Domain!DeathSnapshot(DeathRow(w))

\* The reducers find rows within their preconditions.
LEMMA DeathSnapshotsCorrect == TypeOK /\ ReleaseInv /\ SnapshotsInv => DeathSnapshots
  BY StartedSnapshot DEF DeathSnapshots, SnapshotsInv

\* Nothing is asked of a workflow that is left alone.
LEMMA SameFollows ==
    ASSUME NEW w \in Workflows, Same(w)
    PROVE  Follows(w)
<1>1. [DeathRow(w)' EXCEPT !.graceDeadline = now] = DeathRow(w)
  BY NextDeathRow DEF Same, DeathRow
<1>2. ReleaseRow(w)' = ReleaseRow(w)
  BY DEF Same, ReleaseRow, Locked
<1> QED
  BY <1>1, <1>2 DEF Follows

\* The names of the states, as a release
LEMMA ReleaseNames ==
    /\ ReleaseStates["NONE"] = "NONE" /\ ReleaseStates["AWAITING_CONFIRMATIONS"] = "NONE"
    /\ ReleaseStates["RELEASE_PENDING"] = "PENDING" /\ ReleaseStates["RELEASED"] = "RELEASED"
    /\ ReleaseStates["CANCELLED"] = "CANCELLED"
  BY DEF ReleaseStates

\* A new workflow is the one the reducer starts.
LEMMA BeginsFollows ==
    ASSUME TypeOK, RosterInv, DeathSnapshots', NEW w \in Workflows, Begins(w)
    PROVE  Follows(w)
<1>1. workflows[w].state = "NONE" /\ workflows'[w].state = "AWAITING_CONFIRMATIONS"
  BY BegunRow
<1> DEFINE t == [DeathRow(w)' EXCEPT !.graceDeadline = now]
<1>2. Domain!DeathSnapshot(DeathRow(w))'
  BY <1>1 DEF DeathSnapshots, Active, ActiveStates
<1>3. Domain!DeathSnapshot(t)
  <2>1. /\ t.state = DeathRow(w)'.state /\ t.contactIds = DeathRow(w)'.contactIds
        /\ t.required = DeathRow(w)'.required /\ t.approved = DeathRow(w)'.approved
        /\ t.releaseDelayDays = DeathRow(w)'.releaseDelayDays
        /\ t.releaseAt = DeathRow(w)'.releaseAt
    BY DEF DeathRow
  <2> HIDE DEF t
  <2> QED
    BY <1>2, <2>1 DEF Domain!DeathSnapshot, Domain!Snapshot, Domain!ThresholdReached
<1>4. DeathRow(w).state = "NONE" /\ t.state = "AWAITING_CONFIRMATIONS"
  BY <1>1, NextDeathRow DEF DeathRow
<1>5. FollowsDeathReducer(w)
  BY <1>3, <1>4 DEF FollowsDeathReducer
<1>6. FollowsReleaseReducer(w)
  BY <1>1, ReleaseNames DEF FollowsReleaseReducer, ReleaseRow
<1> QED
  BY <1>5, <1>6 DEF Follows

\* The confirmation is one command of the reducer, or two at the threshold.
LEMMA ConfirmsFollows ==
    ASSUME TypeOK, ReleaseInv, SnapshotsInv, NEW w \in Workflows, now' = now,
           NEW c \in Contacts, RecordConfirmation(w, c) \/ ReachThreshold(w, c)
    PROVE  Follows(w)
<1> DEFINE enough == Cardinality(Approved(w) \cup {c}) >= workflows[w].required
           s == DeathRow(w)
           t == [DeathRow(w)' EXCEPT !.graceDeadline = now]
           reached == IF enough THEN "GRACE_PERIOD" ELSE "AWAITING_CONFIRMATIONS"
           k == [state |-> reached, contactIds |-> workflows[w].roster,
                 required |-> workflows[w].required, approved |-> Approved(w) \cup {c},
                 releaseDelayDays |-> 1, graceDeadline |-> now, releaseAt |-> Null]
<1>1. /\ workflows[w].state = "AWAITING_CONFIRMATIONS"
      /\ c \in workflows[w].roster /\ c \notin Approved(w)
      /\ Approved(w)' = Approved(w) \cup {c}
      /\ workflows'[w].roster = workflows[w].roster
      /\ workflows'[w].required = workflows[w].required
      /\ enough => workflows'[w].state = "RELEASE_PENDING" /\ workflows'[w].releaseAt = now + DAY
      /\ ~enough => /\ workflows'[w].state = "AWAITING_CONFIRMATIONS"
                    /\ workflows'[w].releaseAt = workflows[w].releaseAt
      /\ workflows[w].releaseAt = Null
  BY ConfirmedRow DEF SnapshotsInv, SnapshotInv
<1>2. Domain!DeathSnapshot(s)
  BY <1>1, StartedSnapshot DEF SnapshotsInv, Active, ActiveStates
<1>3. s = [state |-> "AWAITING_CONFIRMATIONS", contactIds |-> workflows[w].roster,
           required |-> workflows[w].required, approved |-> Approved(w),
           releaseDelayDays |-> 1, graceDeadline |-> now, releaseAt |-> Null]
  BY <1>1 DEF DeathRow
<1>4. t = [state |-> workflows'[w].state, contactIds |-> workflows[w].roster,
           required |-> workflows[w].required, approved |-> Approved(w) \cup {c},
           releaseDelayDays |-> 1, graceDeadline |-> now, releaseAt |-> workflows'[w].releaseAt]
  BY <1>1, NextDeathRow
<1>5. FollowsReleaseReducer(w)
  BY <1>1, ReleaseNames DEF FollowsReleaseReducer, ReleaseRow
<1>6. /\ s.state = "AWAITING_CONFIRMATIONS" /\ s.contactIds = workflows[w].roster
      /\ s.required = workflows[w].required /\ s.approved = Approved(w)
  BY <1>3
<1> HIDE DEF s, t, reached
<1>7. k = [s EXCEPT !.approved = Approved(w) \cup {c}, !.state = reached]
  <2>1. s \in [state : {"AWAITING_CONFIRMATIONS"}, contactIds : {workflows[w].roster},
               required : {workflows[w].required}, approved : {Approved(w)},
               releaseDelayDays : {1}, graceDeadline : {now}, releaseAt : {Null}]
    BY <1>3
  <2>2. k \in [state : {reached}, contactIds : {workflows[w].roster},
               required : {workflows[w].required}, approved : {Approved(w) \cup {c}},
               releaseDelayDays : {1}, graceDeadline : {now}, releaseAt : {Null}]
    OBVIOUS
  <2> HIDE DEF k
  <2> QED
    BY <2>1, <2>2
<1> HIDE DEF k
<1>8. Domain!Confirmed(s, c) = k
  BY <1>6, <1>7, SameDomainSizes DEF Domain!Confirmed, reached
<1> HIDE DEF enough
<1>9. Domain!ConfirmDeath(s, k)
  BY <1>1, <1>6, <1>8 DEF Domain!ConfirmDeath, Domain!Acting
<1>10. k = [state |-> reached, contactIds |-> workflows[w].roster,
           required |-> workflows[w].required, approved |-> Approved(w) \cup {c},
           releaseDelayDays |-> 1, graceDeadline |-> now, releaseAt |-> Null]
  BY DEF k
<1>11. CASE ~enough
  <2>1. t = k
    BY <1>1, <1>4, <1>10, <1>11 DEF reached
  <2>2. Domain!transitionDeathWorkflow(s, t, now)
    BY <1>2, <1>9, <2>1 DEF Domain!transitionDeathWorkflow
  <2> QED
    BY <1>5, <2>2 DEF Follows, FollowsDeathReducer, s, t
<1>12. CASE enough
  <2>1. /\ k.state = "GRACE_PERIOD" /\ k.contactIds = workflows[w].roster
        /\ k.required = workflows[w].required /\ k.approved = Approved(w) \cup {c}
        /\ k.releaseDelayDays = 1 /\ k.graceDeadline = now /\ k.releaseAt = Null
    BY <1>10, <1>12 DEF reached
  <2>2. Domain!DeathSnapshot(k)
    <3>1. /\ s.contactIds # {} /\ s.required \in 1..Domain!Cardinality(s.contactIds)
          /\ s.approved \subseteq s.contactIds
      BY <1>2 DEF Domain!DeathSnapshot, Domain!Snapshot
    <3>2. Domain!Snapshot(k)
      BY <1>1, <1>6, <2>1, <3>1 DEF Domain!Snapshot
    <3>3. Domain!ThresholdReached(k)
      BY <1>12, <2>1, SameDomainSizes DEF Domain!ThresholdReached, enough
    <3> QED
      BY <2>1, <3>2, <3>3 DEF Domain!DeathSnapshot
  <2>3. t = [k EXCEPT !.state = "RELEASE_PENDING", !.releaseAt = now + DAY]
    <3>1. k \in [state : {"GRACE_PERIOD"}, contactIds : {workflows[w].roster},
                 required : {workflows[w].required}, approved : {Approved(w) \cup {c}},
                 releaseDelayDays : {1}, graceDeadline : {now}, releaseAt : {Null}]
      BY <1>10, <1>12 DEF reached
    <3>2. t \in [state : {"RELEASE_PENDING"}, contactIds : {workflows[w].roster},
                 required : {workflows[w].required}, approved : {Approved(w) \cup {c}},
                 releaseDelayDays : {1}, graceDeadline : {now}, releaseAt : {now + DAY}]
      BY <1>1, <1>4, <1>12
    <3> QED
      BY <3>1, <3>2
  <2>4. Domain!BeginRelease(k, t, now)
    <3>1. Domain!computeReleaseDeadline(k.graceDeadline, k.releaseDelayDays) = now + DAY
      BY <2>1, DayAssumption, Instants DEF Domain!computeReleaseDeadline
    <3>2. Domain!isDue(now, k.graceDeadline)
      BY <2>1, Instants DEF Domain!isDue
    <3> QED
      BY <2>1, <2>3, <3>1, <3>2 DEF Domain!BeginRelease
  <2>5. /\ Domain!ConfirmDeath(s, Domain!Confirmed(s, c))
        /\ Domain!transitionDeathWorkflow(Domain!Confirmed(s, c), t, now)
    BY <1>8, <1>9, <2>2, <2>4 DEF Domain!transitionDeathWorkflow
  <2> QED
    BY <1>5, <2>5 DEF Follows, FollowsDeathReducer, s, t
<1> QED
  BY <1>11, <1>12

\* A stop is a CANCEL, of which a contact's word also withdraws a confirmation, or
\* comes late.
LEMMA StopsFollows ==
    ASSUME TypeOK, ReleaseInv, SnapshotsInv, NEW w \in Workflows, now' = now, Stops(w)
    PROVE  Follows(w)
<1> DEFINE s == DeathRow(w)
           t == [DeathRow(w)' EXCEPT !.graceDeadline = now]
           u == [t EXCEPT !.approved = s.approved]
           late == workflows[w].state = "RELEASE_PENDING" /\ now >= workflows[w].releaseAt
<1>1. /\ Active(w) /\ ~Locked(w) /\ workflows'[w].state = "CANCELLED"
      /\ workflows'[w].roster = workflows[w].roster
      /\ workflows'[w].required = workflows[w].required
      /\ workflows'[w].releaseAt = workflows[w].releaseAt
      /\ workflows[w].state \in {"AWAITING_CONFIRMATIONS", "RELEASE_PENDING"}
  BY CancelledFields, KeptFields DEF Stops, Active, ActiveStates
<1>2. CASE late
  BY <1>1, <1>2 DEF Follows, LateCancellation
<1>3. CASE ~late
  <2>1. Domain!DeathSnapshot(s)
    BY <1>1, StartedSnapshot DEF SnapshotsInv
  <2>2. s \in [state : {workflows[w].state}, contactIds : {workflows[w].roster},
               required : {workflows[w].required}, approved : {Approved(w)},
               releaseDelayDays : {1}, graceDeadline : {now}, releaseAt : {workflows[w].releaseAt}]
    BY DEF DeathRow
  <2>3. t = [state |-> "CANCELLED", contactIds |-> workflows[w].roster,
             required |-> workflows[w].required, approved |-> Approved(w)',
             releaseDelayDays |-> 1, graceDeadline |-> now, releaseAt |-> workflows[w].releaseAt]
    BY <1>1, NextDeathRow
  <2>4. u \in [state : {"CANCELLED"}, contactIds : {workflows[w].roster},
               required : {workflows[w].required}, approved : {Approved(w)},
               releaseDelayDays : {1}, graceDeadline : {now}, releaseAt : {workflows[w].releaseAt}]
    BY <2>2, <2>3
  <2>5. t.state = "CANCELLED" /\ s.state = workflows[w].state /\ s.releaseAt = workflows[w].releaseAt
    BY <2>2, <2>3
  <2> HIDE DEF s, t, u
  <2>6. u = [s EXCEPT !.state = "CANCELLED"]
    BY <2>2, <2>4
  <2>7. Domain!CancelDeath(s, u, now)
    BY <1>1, <1>3, <2>5, <2>6 DEF Domain!CancelDeath, Domain!isDue
  <2>8. Domain!transitionDeathWorkflow(s, u, now)
    BY <2>1, <2>7 DEF Domain!transitionDeathWorkflow
  <2>9. FollowsDeathReducer(w)
    BY <2>5, <2>8 DEF FollowsDeathReducer, s, t, u
  <2>10. FollowsReleaseReducer(w)
    <3>1. CASE workflows[w].state = "AWAITING_CONFIRMATIONS"
      BY <3>1, ReleaseNames DEF FollowsReleaseReducer, ReleaseRow
    <3>2. CASE workflows[w].state = "RELEASE_PENDING"
      <4> DEFINE r == ReleaseRow(w)
                 q == ReleaseRow(w)'
      <4>1. r \in [state : {"PENDING"}, releaseAt : {workflows[w].releaseAt}]
        BY <1>1, <3>2, ReleaseNames DEF ReleaseRow
      <4>2. q \in [state : {"CANCELLED"}, releaseAt : {workflows[w].releaseAt}]
        BY <1>1, ReleaseNames DEF ReleaseRow
      <4>3. r.state = "PENDING" /\ r.releaseAt = workflows[w].releaseAt
        BY <4>1
      <4> HIDE DEF r, q
      <4>4. q = [r EXCEPT !.state = "CANCELLED"]
        BY <4>1, <4>2
      <4>5. Domain!transitionReleaseWorkflow(r, q, now)
        BY <1>3, <3>2, <4>3, <4>4 DEF Domain!transitionReleaseWorkflow, Domain!isDue
      <4> QED
        BY <4>5 DEF FollowsReleaseReducer, r, q
    <3> QED
      BY <1>1, <3>1, <3>2
  <2> QED
    BY <2>9, <2>10 DEF Follows
<1> QED
  BY <1>2, <1>3

\* The lock is the release's, and no command of the confirmation.
LEMMA LocksFollows ==
    ASSUME TypeOK, ReleaseInv, SnapshotsInv, NEW w \in Workflows, now' = now, Locks(w)
    PROVE  Follows(w)
<1>1. /\ workflows[w].state = "RELEASE_PENDING" /\ ~Locked(w) /\ workflows[w].releaseAt <= now
      /\ workflows'[w].state = "RELEASE_PENDING" /\ Locked(w)'
      /\ workflows'[w].roster = workflows[w].roster
      /\ workflows'[w].required = workflows[w].required
      /\ workflows'[w].releaseAt = workflows[w].releaseAt
      /\ Approved(w)' = Approved(w)
  <2>1. now # Null
    BY Instants DEF Null
  <2> QED
    BY <2>1, ReleaseFields, LockInstants DEF Locks, Locked
<1>2. [DeathRow(w)' EXCEPT !.graceDeadline = now] = DeathRow(w)
  BY <1>1, NextDeathRow DEF DeathRow
<1> DEFINE r == ReleaseRow(w)
           q == ReleaseRow(w)'
<1>3. r \in [state : {"PENDING"}, releaseAt : {workflows[w].releaseAt}]
  BY <1>1, ReleaseNames DEF ReleaseRow
<1>4. q \in [state : {"LOCKED"}, releaseAt : {workflows[w].releaseAt}]
  BY <1>1 DEF ReleaseRow
<1>5. r.state = "PENDING" /\ r.releaseAt = workflows[w].releaseAt
  BY <1>3
<1> HIDE DEF r, q
<1>6. q = [r EXCEPT !.state = "LOCKED"]
  BY <1>3, <1>4
<1>7. Domain!isDue(now, r.releaseAt)
  BY <1>1, <1>5, Instants DEF Domain!isDue
<1>8. Domain!transitionReleaseWorkflow(r, q, now)
  BY <1>5, <1>6, <1>7 DEF Domain!transitionReleaseWorkflow
<1> QED
  BY <1>2, <1>8 DEF Follows, FollowsReleaseReducer, r, q

\* The release is a command of both.
LEMMA ReleasesFollows ==
    ASSUME TypeOK, ReleaseInv, SnapshotsInv, NEW w \in Workflows, now' = now, Releases(w)
    PROVE  Follows(w)
<1>1. /\ workflows[w].state = "RELEASE_PENDING" /\ Locked(w)
      /\ workflows[w].releaseAt <= now /\ workflows[w].releaseAt \in Int /\ now \in Nat
      /\ workflows'[w].state = "RELEASED"
      /\ workflows'[w].roster = workflows[w].roster
      /\ workflows'[w].required = workflows[w].required
      /\ workflows'[w].releaseAt = workflows[w].releaseAt
      /\ Approved(w)' = Approved(w)
  BY ReleaseFields, KeptFields, Instants DEF Releases, SnapshotsInv, SnapshotInv
<1> DEFINE s == DeathRow(w)
           t == [DeathRow(w)' EXCEPT !.graceDeadline = now]
           r == ReleaseRow(w)
           q == ReleaseRow(w)'
<1>2. s \in [state : {"RELEASE_PENDING"}, contactIds : {workflows[w].roster},
             required : {workflows[w].required}, approved : {Approved(w)},
             releaseDelayDays : {1}, graceDeadline : {now}, releaseAt : {workflows[w].releaseAt}]
  BY <1>1 DEF DeathRow
<1>3. t \in [state : {"RELEASED"}, contactIds : {workflows[w].roster},
             required : {workflows[w].required}, approved : {Approved(w)},
             releaseDelayDays : {1}, graceDeadline : {now}, releaseAt : {workflows[w].releaseAt}]
  BY <1>1, NextDeathRow
<1>4. r \in [state : {"LOCKED"}, releaseAt : {workflows[w].releaseAt}]
  BY <1>1 DEF ReleaseRow
<1>5. q \in [state : {"RELEASED"}, releaseAt : {workflows[w].releaseAt}]
  BY <1>1, ReleaseNames DEF ReleaseRow
<1>6. Domain!DeathSnapshot(s)
  BY <1>1, StartedSnapshot DEF SnapshotsInv, Active, ActiveStates
<1>7. s.state = "RELEASE_PENDING" /\ s.releaseAt = workflows[w].releaseAt /\ r.state = "LOCKED"
  BY <1>2, <1>4
<1> HIDE DEF s, t, r, q
<1>8. t = [s EXCEPT !.state = "RELEASED"] /\ q = [r EXCEPT !.state = "RELEASED"]
  BY <1>2, <1>3, <1>4, <1>5
<1>9. Domain!isDue(now, s.releaseAt)
  BY <1>1, <1>7 DEF Domain!isDue
<1>10. Domain!transitionDeathWorkflow(s, t, now)
  BY <1>6, <1>7, <1>8, <1>9 DEF Domain!transitionDeathWorkflow, Domain!FinalizeRelease
<1>11. Domain!transitionReleaseWorkflow(r, q, now)
  BY <1>7, <1>8 DEF Domain!transitionReleaseWorkflow
<1> QED
  BY <1>10, <1>11 DEF Follows, FollowsDeathReducer, FollowsReleaseReducer, s, t, r, q

\* Every step of every workflow is one of the reducers'.
LEMMA StepFollows ==
    ASSUME TypeOK, ReleaseInv, OneFormalWorkflow, SnapshotsInv, DeathSnapshots', [Next]_vars
    PROVE  \A w \in Workflows : Follows(w)
<1>1. CASE AllSame
  BY <1>1, SameFollows DEF AllSame
<1>2. ASSUME NEW w \in Workflows, OneChanges(w) PROVE \A v \in Workflows : Follows(v)
  <2>1. RosterInv
    BY DEF ReleaseInv
  <2>2. Confirms(w) => Follows(w)
    BY <1>2, ConfirmsFollows DEF Confirms, OneChanges
  <2>3. Follows(w)
    BY <1>2, <2>1, <2>2, BeginsFollows, StopsFollows, LocksFollows, ReleasesFollows
       DEF OneChanges, Changes
  <2> QED
    BY <1>2, <2>3, SameFollows DEF OneChanges
<1> QED
  BY <1>1, <1>2, StepChanges

\* Every transaction changes a workflow as the domain's reducers would, but for a
\* cancellation between release_at and the lock (death-workflow.ts:125,
\* release-workflow.ts:60).
THEOREM SwitchFollowsReducers == Spec => FollowsReducers
<1>1. TimelineInv => OneFormalWorkflow
  BY DEF TimelineInv
<1>2. (TypeOK /\ ReleaseInv /\ SnapshotsInv)' => DeathSnapshots'
  BY DeathSnapshotsCorrect, PTL
<1>3. /\ TypeOK /\ ReleaseInv /\ OneFormalWorkflow /\ SnapshotsInv /\ [Next]_vars
      /\ (TypeOK /\ ReleaseInv /\ SnapshotsInv)'
      => [\A w \in Workflows :
             /\ [DeathRow(w)' EXCEPT !.graceDeadline = now] # DeathRow(w) =>
                   FollowsDeathReducer(w) \/ LateCancellation(w)
             /\ ReleaseRow(w)' # ReleaseRow(w) =>
                   FollowsReleaseReducer(w) \/ LateCancellation(w)]_vars
  BY <1>2, StepFollows DEF Follows
<1> QED
  BY <1>1, <1>3, TypeCorrect, ReleaseCorrect, TimelineCorrect, SnapshotsCorrect, PTL
     DEF Spec, FollowsReducers

=============================================================================
