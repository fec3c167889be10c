---------------------------- MODULE ReleasePromise ----------------------------
(***************************************************************************)
(* What the dead man's switch promises, whatever the jobs, versions, keys  *)
(* and sessions it is made of: confirmations of distinct people gather     *)
(* until a quorum, a period of grace follows in which the release may      *)
(* still be stopped, then a lock nobody lifts, then the release.  The      *)
(* attempts are made one after the other.  Module DeathWorkflow implements *)
(* it, see DeathWorkflowRefinement.                                        *)
(***************************************************************************)
EXTENDS Integers, FiniteSets

CONSTANTS
    People,    \* those who may confirm
    Attempts,  \* identifiers of release attempts
    Grace      \* the least time from the quorum to the lock

VARIABLES
    clock,
    phase,      \* phase of each attempt
    asked,      \* who may confirm the attempt
    quorum,     \* how many confirmations the attempt needs
    confirmed,  \* who has confirmed, as long as the attempt may succeed
    graceEnd    \* when the attempt may be locked

vars == <<clock, phase, asked, quorum, confirmed, graceEnd>>

Live == {"GATHERING", "GRACE", "LOCKED"}

Init ==
    /\ clock = 0
    /\ phase = [a \in Attempts |-> "NONE"]
    /\ asked = [a \in Attempts |-> {}]
    /\ quorum = [a \in Attempts |-> 0]
    /\ confirmed = [a \in Attempts |-> {}]
    /\ graceEnd = [a \in Attempts |-> 0]

Pass ==
    /\ clock' = clock + 1
    /\ UNCHANGED <<phase, asked, quorum, confirmed, graceEnd>>

\* A quorum is two thirds or more of the people asked.
Start(a) ==
    /\ phase[a] = "NONE"
    /\ \A b \in Attempts : phase[b] \notin Live
    /\ phase' = [phase EXCEPT ![a] = "GATHERING"]
    /\ \E group \in SUBSET People, n \in 0..Cardinality(People) :
          /\ 3 * n >= 2 * Cardinality(group)
          /\ asked' = [asked EXCEPT ![a] = group]
          /\ quorum' = [quorum EXCEPT ![a] = n]
    /\ UNCHANGED <<clock, confirmed, graceEnd>>

Confirm(a, p) ==
    /\ phase[a] = "GATHERING"
    /\ p \in asked[a] \ confirmed[a]
    /\ confirmed' = [confirmed EXCEPT ![a] = @ \cup {p}]
    /\ IF Cardinality(confirmed'[a]) >= quorum[a]
       THEN /\ phase' = [phase EXCEPT ![a] = "GRACE"]
            /\ graceEnd' = [graceEnd EXCEPT ![a] = clock + Grace]
       ELSE UNCHANGED <<phase, graceEnd>>
    /\ UNCHANGED <<clock, asked, quorum>>

Stop(a) ==
    /\ phase[a] \in {"GATHERING", "GRACE"}
    /\ phase' = [phase EXCEPT ![a] = "STOPPED"]
    /\ confirmed' = [confirmed EXCEPT ![a] = {}]
    /\ UNCHANGED <<clock, asked, quorum, graceEnd>>

Lock(a) ==
    /\ phase[a] = "GRACE"
    /\ clock >= graceEnd[a]
    /\ phase' = [phase EXCEPT ![a] = "LOCKED"]
    /\ UNCHANGED <<clock, asked, quorum, confirmed, graceEnd>>

Release(a) ==
    /\ phase[a] = "LOCKED"
    /\ phase' = [phase EXCEPT ![a] = "RELEASED"]
    /\ UNCHANGED <<clock, asked, quorum, confirmed, graceEnd>>

Next ==
    \/ Pass
    \/ \E a \in Attempts :
          \/ Start(a) \/ Stop(a) \/ Lock(a) \/ Release(a)
          \/ \E p \in People : Confirm(a, p)

\* A grace that is over, and a lock, do not stay as they are.
Spec ==
    /\ Init /\ [][Next]_vars
    /\ \A a \in Attempts : WF_vars(Lock(a)) /\ WF_vars(Release(a))

=============================================================================
