--------------------------- MODULE MCContactRoster ---------------------------
(***************************************************************************)
(* Model values for checking module ContactRoster with TLC.                *)
(***************************************************************************)
EXTENDS ContactRosterRefinement

CONSTANTS c1, c2, c3, c4, t1, t2

=============================================================================
