--------------------------- MODULE MCPackageUpload ---------------------------
(***************************************************************************)
(* Model values for checking module PackageUpload with TLC.                *)
(***************************************************************************)
EXTENDS Backup

CONSTANTS p1, p2, p3, r1, r2

=============================================================================
