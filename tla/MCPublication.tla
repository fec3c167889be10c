---------------------------- MODULE MCPublication ----------------------------
(***************************************************************************)
(* Model values for checking module Publication with TLC.                  *)
(***************************************************************************)
EXTENDS Publication, TLC

CONSTANTS j1, j2, j3

=============================================================================
