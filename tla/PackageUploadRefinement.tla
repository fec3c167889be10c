----------------------- MODULE PackageUploadRefinement -----------------------
(***************************************************************************)
(* PackageUpload implements PackagePromise.                                *)
(***************************************************************************)
EXTENDS PackageUpload

Promise == INSTANCE PackagePromise WITH
    verified <- With("READY"), serving <- With("ACTIVE"), replaced <- With("SUPERSEDED")

\* However streams, completions, abortions and activations of several tabs
\* interleave, fail and crash, READY means verified, the ACTIVE package changes
\* in one step from one READY package to another, and neither a READY package is
\* lost to an abortion nor a replaced one activated again (vault/*.ts).
ImplementsPromise == Promise!Spec
=============================================================================
