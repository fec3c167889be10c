---------------------------- MODULE DomainReducers ----------------------------
(***************************************************************************)
(* The reducers of packages/domain: what each command makes of a death     *)
(* confirmation, a release or a password recovery at an instant, and when  *)
(* it is refused.  No handler calls them; the handlers update rows in SQL. *)
(* A command is a relation: of the state s before it, the state t after it *)
(* and the instant `at'; a refusal is the absence of a t.                  *)
(*                                                                         *)
(* Versions only count commands, and endedAt and the events say when: all  *)
(* three are left out, and an absent releaseAt is Null.                    *)
(***************************************************************************)
EXTENDS Integers, FiniteSets

CONSTANTS
    DAY,  \* length of a day
    Null  \* no instant

isDue(at, deadline) == at >= deadline

\* What both snapshots must satisfy before any command is looked at.
Snapshot(s) ==
    /\ s.contactIds # {}
    /\ s.required \in 1..Cardinality(s.contactIds)
    /\ s.approved \subseteq s.contactIds

ThresholdReached(s) == Cardinality(s.approved) >= s.required

Acting(s, c) == c \in s.contactIds \ s.approved

-----------------------------------------------------------------------------
(* transitionDeathWorkflow *)

DeathSnapshot(s) ==
    /\ Snapshot(s)
    /\ s.releaseDelayDays >= 1
    /\ \/ s.state = "AWAITING_CONFIRMATIONS" /\ ~ThresholdReached(s) /\ s.releaseAt = Null
       \/ s.state = "GRACE_PERIOD" /\ ThresholdReached(s) /\ s.releaseAt = Null
       \/ s.state \in {"RELEASE_PENDING", "RELEASED"} /\ ThresholdReached(s) /\ s.releaseAt # Null
       \/ s.state = "CANCELLED"

\* The confirmation of c; the last one needed starts the grace period.
Confirmed(s, c) ==
    LET approved == s.approved \cup {c}
    IN  [s EXCEPT !.approved = approved,
                  !.state = IF Cardinality(approved) >= s.required
                            THEN "GRACE_PERIOD" ELSE "AWAITING_CONFIRMATIONS"]

ConfirmDeath(s, t) ==
    \E c \in s.contactIds :
        s.state = "AWAITING_CONFIRMATIONS" /\ Acting(s, c) /\ t = Confirmed(s, c)

computeReleaseDeadline(graceDeadline, days) == graceDeadline + days * DAY

BeginRelease(s, t, at) ==
    /\ s.state = "GRACE_PERIOD"
    /\ isDue(at, s.graceDeadline)
    /\ t = [s EXCEPT !.state = "RELEASE_PENDING",
                     !.releaseAt = computeReleaseDeadline(s.graceDeadline, s.releaseDelayDays)]

FinalizeRelease(s, t, at) ==
    /\ s.state = "RELEASE_PENDING"
    /\ isDue(at, s.releaseAt)
    /\ t = [s EXCEPT !.state = "RELEASED"]

\* From release_at on, cancellation is permanently locked.
CancelDeath(s, t, at) ==
    /\ s.state \in {"AWAITING_CONFIRMATIONS", "GRACE_PERIOD", "RELEASE_PENDING"}
    /\ ~(s.state = "RELEASE_PENDING" /\ isDue(at, s.releaseAt))
    /\ t = [s EXCEPT !.state = "CANCELLED"]

transitionDeathWorkflow(s, t, at) ==
    /\ DeathSnapshot(s)
    /\ ConfirmDeath(s, t) \/ BeginRelease(s, t, at) \/ FinalizeRelease(s, t, at)
           \/ CancelDeath(s, t, at)

-----------------------------------------------------------------------------
(* transitionReleaseWorkflow *)

transitionReleaseWorkflow(s, t, at) ==
    \/ /\ s.state = "PENDING"
       /\ isDue(at, s.releaseAt)
       /\ t = [s EXCEPT !.state = "LOCKED"]
    \/ /\ s.state = "LOCKED"
       /\ t = [s EXCEPT !.state = "RELEASED"]
    \/ /\ s.state = "PENDING"
       /\ ~isDue(at, s.releaseAt)
       /\ t = [s EXCEPT !.state = "CANCELLED"]

-----------------------------------------------------------------------------
(* transitionRecoveryWorkflow *)

RecoverySnapshot(s) ==
    /\ Snapshot(s)
    /\ \/ s.state = "AWAITING_APPROVALS" /\ ~ThresholdReached(s)
       \/ s.state \in {"REWRAP_PENDING", "COMPLETED"} /\ ThresholdReached(s)
       \/ s.state \in {"CANCELLED", "EXPIRED"}

Approved(s, c) ==
    LET approved == s.approved \cup {c}
    IN  [s EXCEPT !.approved = approved,
                  !.state = IF Cardinality(approved) >= s.required
                            THEN "REWRAP_PENDING" ELSE "AWAITING_APPROVALS"]

\* APPROVE, COMPLETE, CANCEL and EXPIRE
transitionRecoveryWorkflow(s, t, at) ==
    /\ RecoverySnapshot(s)
    /\ \/ /\ s.state = "AWAITING_APPROVALS"
          /\ ~isDue(at, s.expiresAt)
          /\ \E c \in s.contactIds : Acting(s, c) /\ t = Approved(s, c)
       \/ /\ s.state = "REWRAP_PENDING"
          /\ ~isDue(at, s.expiresAt)
          /\ t = [s EXCEPT !.state = "COMPLETED"]
       \/ /\ s.state \in {"AWAITING_APPROVALS", "REWRAP_PENDING"}
          /\ ~isDue(at, s.expiresAt)
          /\ t = [s EXCEPT !.state = "CANCELLED"]
       \/ /\ s.state \in {"AWAITING_APPROVALS", "REWRAP_PENDING"}
          /\ isDue(at, s.expiresAt)
          /\ t = [s EXCEPT !.state = "EXPIRED"]
=============================================================================
