----------------------------- MODULE MCSimulation -----------------------------
(***************************************************************************)
(* Model values for checking module Simulation with TLC.                   *)
(***************************************************************************)
EXTENDS Simulation, TLC

CONSTANTS c1, c2, c3, q1, q2

Symmetry == Permutations(Contacts) \cup Permutations(Requests)
=============================================================================
