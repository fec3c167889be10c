----------------------- MODULE PasswordRecoveryReducers -----------------------
(***************************************************************************)
(* The rows that the handlers of module PasswordRecovery write, seen as    *)
(* the states of the domain's reducer.  The instant is always 0 and the    *)
(* deadline the time left, so that a recovery is due when none is left.    *)
(***************************************************************************)
EXTENDS PasswordRecoveryRefinement

Domain == INSTANCE DomainReducers WITH DAY <- 1, Null <- -1

\* The row as a password recovery of packages/domain.
RecoveryRow(w) ==
    [state |-> rows[w].state, contactIds |-> Contacts, required |-> Required,
     approved |-> rows[w].approvals, expiresAt |-> rows[w].left]

\* The domain refuses what the handlers allow: a recovery whose time is up can
\* still be completed, through a rewrap session that outlives it, or cancelled,
\* until the expiry job has run.
LateEnd(w) ==
    /\ Active(w)
    /\ rows[w].left = 0
    /\ rows'[w].state \in {"COMPLETED", "CANCELLED"}

\* A new recovery starts in a state the domain accepts as a snapshot.
Started(w) ==
    /\ rows[w].state = "NONE"
    /\ rows'[w].state = "AWAITING_APPROVALS"
    /\ Domain!RecoverySnapshot(RecoveryRow(w)')

\* Every transaction of the handlers, and every sequence of them, changes a
\* recovery as the tested reducer of packages/domain would: nobody approves
\* twice or after the deadline, the quorum and nothing else opens the reset,
\* expiry waits for the deadline, and nothing follows an end.  The exception is
\* a completion or cancellation after expires_at and before the expiry job
\* (recovery-workflow.ts:76).
FollowsReducers ==
    [][\A w \in Recoveries :
          \/ [RecoveryRow(w)' EXCEPT !.expiresAt = rows[w].left] = RecoveryRow(w)
          \/ Domain!transitionRecoveryWorkflow(
                 RecoveryRow(w), [RecoveryRow(w)' EXCEPT !.expiresAt = rows[w].left], 0)
          \/ Started(w)
          \/ LateEnd(w)]_vars
=============================================================================
