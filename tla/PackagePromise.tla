--------------------------- MODULE PackagePromise ---------------------------
(***************************************************************************)
(* What the owner and the death workflow rely on about packages: at any    *)
(* time there is at most one current package, it was verified before, it   *)
(* changes in one step, and a package once replaced never comes back.      *)
(***************************************************************************)

CONSTANT Packages

VARIABLES
    verified, \* packages that were verified and are not current any more or yet
    serving,  \* the current package, as a set with at most one element
    replaced  \* packages that have been current

vars == <<verified, serving, replaced>>

Init == verified = {} /\ serving = {} /\ replaced = {}

Verify(p) ==
    /\ p \notin verified \cup serving \cup replaced
    /\ verified' = verified \cup {p}
    /\ UNCHANGED <<serving, replaced>>

Serve(p) ==
    /\ p \in verified
    /\ verified' = verified \ {p}
    /\ serving' = {p}
    /\ replaced' = replaced \cup serving

Next == \E p \in Packages : Verify(p) \/ Serve(p)

Spec == Init /\ [][Next]_vars
=============================================================================
