--------------------------- MODULE MCDeathWorkflow ---------------------------
(***************************************************************************)
(* Model values for checking module DeathWorkflow with TLC.                *)
(***************************************************************************)
EXTENDS DeathWorkflowReducers, TLC

CONSTANTS c1, c2, c3

\* No action or property tells one contact from another.
Symmetry == Permutations(Contacts)

=============================================================================
