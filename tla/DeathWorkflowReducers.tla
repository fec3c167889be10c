------------------------- MODULE DeathWorkflowReducers -------------------------
(***************************************************************************)
(* The rows that the handlers of module DeathWorkflow write, seen as the   *)
(* states of the domain's reducers.                                        *)
(***************************************************************************)
EXTENDS DeathWorkflowRefinement

Domain == INSTANCE DomainReducers

\* The row as a death confirmation of packages/domain.  The row has no grace
\* period: it ends at once, and the release is delayed by the one day.
DeathRow(w) ==
    [state |-> workflows[w].state, contactIds |-> workflows[w].roster,
     required |-> workflows[w].required, approved |-> Approved(w),
     releaseDelayDays |-> 1, graceDeadline |-> now, releaseAt |-> workflows[w].releaseAt]

ReleaseStates ==
    [NONE |-> "NONE", AWAITING_CONFIRMATIONS |-> "NONE", RELEASE_PENDING |-> "PENDING",
     RELEASED |-> "RELEASED", CANCELLED |-> "CANCELLED"]

\* The row as a release of packages/domain, once there is a countdown.
ReleaseRow(w) ==
    [state |-> IF workflows[w].state = "RELEASE_PENDING" /\ Locked(w) THEN "LOCKED"
               ELSE ReleaseStates[workflows[w].state],
     releaseAt |-> workflows[w].releaseAt]

\* The domain refuses what the handlers allow: up to the lock, the owner or a
\* contact can still stop a release that is due.
LateCancellation(w) ==
    /\ workflows[w].state = "RELEASE_PENDING"
    /\ ~Locked(w)
    /\ now >= workflows[w].releaseAt
    /\ workflows'[w].state = "CANCELLED"

\* The last confirmation is two commands at once.  A contact who calls the owner
\* alive withdraws a confirmation, which CANCEL leaves in place.
FollowsDeathReducer(w) ==
    LET s == DeathRow(w)
        t == [DeathRow(w)' EXCEPT !.graceDeadline = now]
    IN  \/ Domain!transitionDeathWorkflow(s, t, now)
        \/ \E c \in Contacts :
               /\ Domain!ConfirmDeath(s, Domain!Confirmed(s, c))
               /\ Domain!transitionDeathWorkflow(Domain!Confirmed(s, c), t, now)
        \/ /\ t.state = "CANCELLED"
           /\ Domain!transitionDeathWorkflow(s, [t EXCEPT !.approved = s.approved], now)
        \/ /\ s.state = "NONE"
           /\ t.state = "AWAITING_CONFIRMATIONS"
           /\ Domain!DeathSnapshot(t)

FollowsReleaseReducer(w) ==
    \/ ReleaseRow(w).state = "NONE"
    \/ Domain!transitionReleaseWorkflow(ReleaseRow(w), ReleaseRow(w)', now)

\* Every transaction of the handlers, and every sequence of them, changes a
\* workflow as the tested reducers of packages/domain would: nobody confirms
\* twice or from outside the roster, the countdown runs the whole delay from the
\* last confirmation, the lock waits for it, the release for the lock, and nothing
\* follows an end.  The exception is a cancellation that comes after release_at
\* and before the lock (death-workflow.ts:125, release-workflow.ts:60).
FollowsReducers ==
    [][\A w \in Workflows :
          /\ [DeathRow(w)' EXCEPT !.graceDeadline = now] # DeathRow(w) =>
                FollowsDeathReducer(w) \/ LateCancellation(w)
          /\ ReleaseRow(w)' # ReleaseRow(w) =>
                FollowsReleaseReducer(w) \/ LateCancellation(w)]_vars
=============================================================================
