------------------------- MODULE MCPasswordRecovery -------------------------
(***************************************************************************)
(* Model values for checking module PasswordRecovery with TLC.             *)
(***************************************************************************)
EXTENDS PasswordRecoveryReducers

CONSTANTS c1, c2, c3

=============================================================================
