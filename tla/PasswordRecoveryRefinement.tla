---------------------- MODULE PasswordRecoveryRefinement ----------------------
(***************************************************************************)
(* PasswordRecovery implements RecoveryPromise: the abstract recovery is   *)
(* the one active workflow, its supporters are the approvals on its row,   *)
(* and the mailbox is proven while its rewrap session exists.              *)
(***************************************************************************)
EXTENDS PasswordRecovery

Phase ==
    IF \E w \in Recoveries : rows[w].state = "REWRAP_PENDING" THEN "READY"
    ELSE IF \E w \in Recoveries : rows[w].state = "AWAITING_APPROVALS" THEN "GATHERING"
    ELSE "CLOSED"

Supporters == UNION {rows[w].approvals : w \in {v \in Recoveries : Active(v)}}

Proven == \E w \in Recoveries : Active(w) /\ rewrap[w].status = "ACTIVE"

Promise == INSTANCE RecoveryPromise
    WITH Quorum <- Required, phase <- Phase, supporters <- Supporters, proven <- Proven

\* The whole recovery, whatever its timers, retries and crashes, is seen from
\* outside as: open, be supported, be proven, be reset or closed; and a recovery
\* that is open is reset or closed some day (packages/application/src/recovery).
ImplementsPromise == Promise!Spec
===============================================================================
