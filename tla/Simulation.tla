------------------------------ MODULE Simulation ------------------------------
(***************************************************************************)
(* The isolated simulation of test mode: one scenario, its virtual clock   *)
(* and its synthetic workflow.  Every handler reads the scenario outside   *)
(* any transaction, decides on what it read, and saves the whole document  *)
(* if its revision has not changed; an advance then appends its audit      *)
(* event and its replayable result, each in a statement of its own.  A     *)
(* scenario may be reset and created again under the same id, while older  *)
(* requests are still at work: `creation' tells which one a document is.   *)
(***************************************************************************)
EXTENDS Integers, FiniteSets

CONSTANTS
    Contacts,     \* contactIds
    Starts,       \* virtual hours a scenario may start at
    Targets,      \* milestones the owner advances to
    Keys,         \* idempotency keys
    Requests,     \* requests at work at the same time
    MaxCreations, \* bound: scenarios created under the id
    MaxRevision   \* bound: revisions of a scenario

\* MILESTONES, in virtual hours from the start
Hours == [CHECKIN_DUE |-> 72, CONTACT_DECISION |-> 96, RECOVERY_THRESHOLD |-> 120,
          RELEASE_COUNTDOWN |-> 144, SMTP_RETRY |-> 150, PUBLICATION |-> 168]

RequiredCount == 2

ASSUME SimulationAssumption ==
    /\ IsFiniteSet(Contacts)
    /\ Starts \subseteq Nat
    /\ Targets \subseteq DOMAIN Hours
    /\ MaxCreations \in Nat
    /\ MaxRevision \in Nat

VARIABLES
    scenario,  \* the stored document and its clock, or None
    creations, \* how often the scenario has been created
    results,   \* keys with a stored result; removed with the scenario
    requests   \* what each request is at

simulationVars == <<scenario, creations, results, requests>>

None == [creation |-> 0]
Idle == [at |-> "IDLE"]

Document ==
    [creation : 1..MaxCreations, revision : 0..MaxRevision, start : Starts, at : Nat,
     state : {"SCHEDULED", "AWAITING_CONFIRMATIONS", "RELEASE_PENDING", "CANCELLED_ALIVE",
              "CANCELLED_OWNER", "PUBLISH_LOCKED", "PUBLISHED"},
     decisions : [Contacts -> {"NONE", "ALIVE", "DEATH_LIKELY"}]]

Advances == [kind : {"ADVANCE"}, target : Targets, key : Keys]
Decisions == [kind : {"DECIDE"}, contact : Contacts, decision : {"ALIVE", "DEATH_LIKELY"}]
Commands == Advances \cup Decisions \cup [kind : {"CANCEL", "LOCK", "FINALIZE"}]
Operations == Commands \cup [kind : {"RESET", "CREATE"}]

Working == [at : {"LOOKUP", "SAVE", "REMOVE", "AUDIT", "RESULT"}, op : Operations, seen : Document]

SimulationTypeOK ==
    /\ scenario \in Document \cup {None}
    /\ creations \in 0..MaxCreations
    /\ results \in SUBSET Keys
    /\ requests \in [Requests -> Working \cup {Idle}]

SimulationInit ==
    /\ scenario = None
    /\ creations = 0
    /\ results = {}
    /\ requests = [q \in Requests |-> Idle]

-----------------------------------------------------------------------------
(* The workflow of a document *)

Approved(d) == {c \in Contacts : d.decisions[c] = "DEATH_LIKELY"}

\* releaseAt of a workflow that has it; the quorum is met once and for all
ReleaseAt(d) == d.start + Hours.RELEASE_COUNTDOWN

TargetAt(d, op) == d.start + Hours[op.target]

\* Mutant: the lock does not wait for the deadline.
AllowedEarly(op, d) ==
    \/ op.kind = "ADVANCE" /\ TargetAt(d, op) >= d.at
    \/ op.kind = "DECIDE" /\ d.state = "AWAITING_CONFIRMATIONS" /\ d.decisions[op.contact] = "NONE"
    \/ op.kind = "CANCEL" /\ d.state = "RELEASE_PENDING" /\ d.at < ReleaseAt(d)
    \/ op.kind = "LOCK" /\ d.state = "RELEASE_PENDING"
    \/ op.kind = "FINALIZE" /\ d.state = "PUBLISH_LOCKED"

\* The checks of each command on the document it has read.  Lock and finalize
\* of what is locked or published already return it as it is.
Allowed(op, d) ==
    \/ op.kind = "ADVANCE" /\ TargetAt(d, op) >= d.at
    \/ op.kind = "DECIDE" /\ d.state = "AWAITING_CONFIRMATIONS" /\ d.decisions[op.contact] = "NONE"
    \/ op.kind = "CANCEL" /\ d.state = "RELEASE_PENDING" /\ d.at < ReleaseAt(d)
    \/ op.kind = "LOCK" /\ d.state = "RELEASE_PENDING" /\ d.at >= ReleaseAt(d)
    \/ op.kind = "FINALIZE" /\ d.state = "PUBLISH_LOCKED"

\* advanceWorkflow: only these targets move the workflow.
Moved(d, target) ==
    IF target = "CHECKIN_DUE" /\ d.state = "SCHEDULED" THEN "AWAITING_CONFIRMATIONS"
    ELSE IF target = "RELEASE_COUNTDOWN" /\ d.state = "RELEASE_PENDING" THEN "PUBLISH_LOCKED"
    ELSE IF target = "PUBLICATION" /\ d.state = "PUBLISH_LOCKED" THEN "PUBLISHED"
    ELSE d.state

Decided(d, c, decision) ==
    LET decisions == [d.decisions EXCEPT ![c] = decision]
        approved == {b \in Contacts : decisions[b] = "DEATH_LIKELY"}
    IN  [d EXCEPT !.revision = @ + 1,
                  !.decisions = decisions,
                  !.state = IF decision = "ALIVE" THEN "CANCELLED_ALIVE"
                            ELSE IF Cardinality(approved) >= RequiredCount
                            THEN "RELEASE_PENDING" ELSE @]

\* The document a command makes of the one it has read
Applied(op, d) ==
    CASE op.kind = "ADVANCE" ->
            [d EXCEPT !.revision = @ + 1, !.at = TargetAt(d, op), !.state = Moved(d, op.target)]
      [] op.kind = "DECIDE" -> Decided(d, op.contact, op.decision)
      [] op.kind = "CANCEL" -> [d EXCEPT !.revision = @ + 1, !.state = "CANCELLED_OWNER"]
      [] op.kind = "LOCK" -> [d EXCEPT !.revision = @ + 1, !.state = "PUBLISH_LOCKED"]
      [] OTHER -> [d EXCEPT !.revision = @ + 1, !.state = "PUBLISHED"]

-----------------------------------------------------------------------------
(* The handlers *)

Proceed(q, at) == requests' = [requests EXCEPT ![q].at = at]
Done(q) == requests' = [requests EXCEPT ![q] = Idle]

\* createSimulation: both rows in one transaction; the id must be free.
CreateSimulation(q, start) ==
    LET new == [creation |-> creations + 1, revision |-> 0, start |-> start, at |-> start,
                state |-> "SCHEDULED", decisions |-> [c \in Contacts |-> "NONE"]]
    IN
    /\ requests[q] = Idle
    /\ scenario = None
    /\ creations < MaxCreations
    /\ scenario' = new
    /\ creations' = creations + 1
    /\ requests' = [requests EXCEPT ![q] = [at |-> "AUDIT", op |-> [kind |-> "CREATE"], seen |-> new]]
    /\ UNCHANGED results

\* advanceSimulation: the scenario is read.
BeginAdvance(q, op) ==
    /\ requests[q] = Idle
    /\ scenario # None
    /\ scenario.revision < MaxRevision
    /\ requests' = [requests EXCEPT ![q] = [at |-> "LOOKUP", op |-> op, seen |-> scenario]]
    /\ UNCHANGED <<scenario, creations, results>>

\* advanceSimulation: the result stored under the key is returned, or the clock
\* would go back, or there is something to save.
Lookup(q) ==
    /\ requests[q].at = "LOOKUP"
    /\ IF requests[q].op.key \notin results /\ Allowed(requests[q].op, requests[q].seen)
       THEN Proceed(q, "SAVE") ELSE Done(q)
    /\ UNCHANGED <<scenario, creations, results>>

\* recordSimulationContactDecision, cancelSimulationOwner, lockSimulationPublication
\* and finalizeSimulationPublication: the scenario is read and the command
\* allowed; the owner's password is verified meanwhile.
BeginCommand(q, op) ==
    /\ requests[q] = Idle
    /\ scenario # None
    /\ scenario.revision < MaxRevision
    /\ Allowed(op, scenario)
    /\ requests' = [requests EXCEPT ![q] = [at |-> "SAVE", op |-> op, seen |-> scenario]]
    /\ UNCHANGED <<scenario, creations, results>>

\* resetSimulation: the scenario is read.
BeginReset(q) ==
    /\ requests[q] = Idle
    /\ scenario # None
    /\ requests' = [requests EXCEPT ![q] =
                        [at |-> "REMOVE", op |-> [kind |-> "RESET"], seen |-> scenario]]
    /\ UNCHANGED <<scenario, creations, results>>

\* Mutant: the revision is not compared.
AnyRevision(d) == scenario # None /\ d.at >= scenario.at

\* PostgresSimulationStore.save, under the row lock
MaySave(d) ==
    /\ scenario # None
    /\ scenario.revision = d.revision - 1
    /\ d.at >= scenario.at

\* PostgresSimulationStore.save, of a document or of nothing
Save(q) ==
    LET new == Applied(requests[q].op, requests[q].seen) IN
    /\ requests[q].at = "SAVE"
    /\ \/ /\ MaySave(new)
          /\ scenario' = new
          /\ IF requests[q].op.kind = "ADVANCE" THEN Proceed(q, "AUDIT") ELSE Done(q)
       \/ ~MaySave(new) /\ Done(q) /\ UNCHANGED scenario
    /\ UNCHANGED <<creations, results>>

\* PostgresSimulationStore.remove: whatever is stored by now, results included
Remove(q) ==
    /\ requests[q].at = "REMOVE"
    /\ scenario' = None
    /\ results' = {}
    /\ Proceed(q, "AUDIT")
    /\ UNCHANGED creations

\* PostgresSimulationStore.appendAudit: the last step of create and reset.  Event
\* ids begin anew with each creation as well, so the event may be refused: what
\* then follows is Die.
AppendAudit(q) ==
    /\ requests[q].at = "AUDIT"
    /\ IF requests[q].op.kind = "ADVANCE" THEN Proceed(q, "RESULT") ELSE Done(q)
    /\ UNCHANGED <<scenario, creations, results>>

\* PostgresSimulationStore.writeIdempotentResult: refused once the scenario is
\* removed; the first result under a key is kept.
WriteResult(q) ==
    /\ requests[q].at = "RESULT"
    /\ results' = IF scenario = None THEN results ELSE results \cup {requests[q].op.key}
    /\ Done(q)
    /\ UNCHANGED <<scenario, creations>>

\* The process dies, or a statement of its is refused or lost.
Die(q) ==
    /\ requests[q] # Idle
    /\ Done(q)
    /\ UNCHANGED <<scenario, creations, results>>

Step(q) == Lookup(q) \/ Save(q) \/ Remove(q) \/ AppendAudit(q) \/ WriteResult(q) \/ Die(q)

Receive(q) ==
    \/ \E start \in Starts : CreateSimulation(q, start)
    \/ \E op \in Advances : BeginAdvance(q, op)
    \/ \E op \in Commands \ Advances : BeginCommand(q, op)
    \/ BeginReset(q)

SimulationNext == \E q \in Requests : Receive(q) \/ Step(q)

SimulationSpec == SimulationInit /\ [][SimulationNext]_simulationVars

-----------------------------------------------------------------------------
(* Properties *)

\* Requests that read at the same time do not undo each other's changes: what
\* is stored changes as if one command after the other had found it, checked it
\* and changed it.  A document of before the last reset is the one exception:
\* revisions begin anew with each creation (PostgresSimulationStore.save).
EveryChangeIsACommand ==
    [][/\ scenario # None /\ scenario' # None
       /\ scenario' # scenario
       /\ scenario'.creation = creations
       => \E op \in Commands : Allowed(op, scenario) /\ scenario' = Applied(op, scenario)]_simulationVars

\* Whatever documents requests have read and put back, a synthetic release is
\* pending only with the quorum and without a word that the owner lives, and
\* locked or published only after its deadline (recordSimulationContactDecision,
\* lockSimulationPublication, advanceWorkflow).
ReleaseIsDue ==
    scenario # None =>
        /\ scenario.state \in {"RELEASE_PENDING", "PUBLISH_LOCKED", "PUBLISHED"} =>
            /\ Cardinality(Approved(scenario)) >= RequiredCount
            /\ \A c \in Contacts : scenario.decisions[c] # "ALIVE"
        /\ scenario.state \in {"PUBLISH_LOCKED", "PUBLISHED"} => scenario.at >= ReleaseAt(scenario)
=============================================================================
