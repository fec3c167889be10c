----------------------- MODULE ContactRosterRefinement -----------------------
(***************************************************************************)
(* ContactRoster implements RosterPromise: the people keyed are those with *)
(* a share of the generation in force.                                     *)
(***************************************************************************)
EXTENDS ContactRoster

Keyed == IF active = 0 THEN {} ELSE Holders(active)

Promise == INSTANCE RosterPromise WITH
    roster <- Roster, keyed <- Keyed, armed <- setupState = "ARMED"

\* With invitations, drafts and several tabs in any order, contacts leave one by
\* one and never below the minimum, they join only when everybody is dealt new
\* shares at once, the system is armed only with everyone keyed, and nothing
\* disarms it: the steps of the owner that module DeathWorkflow starts from.
ImplementsPromise == Promise!Spec
=============================================================================
