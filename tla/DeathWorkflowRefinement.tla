----------------------- MODULE DeathWorkflowRefinement -----------------------
(***************************************************************************)
(* The dead man's switch implements the promise of module ReleasePromise.  *)
(***************************************************************************)
EXTENDS DeathWorkflowProperties

phaseOf(w) ==
    CASE workflows[w].state = "NONE"                   -> "NONE"
      [] workflows[w].state = "AWAITING_CONFIRMATIONS" -> "GATHERING"
      [] workflows[w].state = "CANCELLED"              -> "STOPPED"
      [] workflows[w].state = "RELEASED"               -> "RELEASED"
      [] workflows[w].state = "RELEASE_PENDING"        ->
            IF Locked(w) THEN "LOCKED" ELSE "GRACE"

Promise == INSTANCE ReleasePromise WITH
    People <- Contacts,
    Attempts <- Workflows,
    Grace <- DAY,
    clock <- now,
    phase <- [w \in Workflows |-> phaseOf(w)],
    asked <- [w \in Workflows |-> workflows[w].roster],
    quorum <- [w \in Workflows |-> workflows[w].required],
    confirmed <- [w \in Workflows |->
        IF workflows[w].state = "CANCELLED" THEN {} ELSE Approved(w)],
    graceEnd <- [w \in Workflows |->
        IF workflows[w].releaseAt = Null THEN 0 ELSE workflows[w].releaseAt]

\* Every behaviour of the switch is, seen through the mapping, a behaviour of
\* the promise, the progress after the grace included: jobs delivered twice or
\* late, retries and races of owner, contacts and worker add nothing to it
\* (process-release-fragment.ts, advance-release.ts, confirm-alive.ts).
ImplementsPromise == Promise!Spec

=============================================================================
