---------------------------- MODULE RosterPromise ----------------------------
(***************************************************************************)
(* What contacts and share generations promise the workflows: once the     *)
(* system is armed it stays so, contacts only leave one by one and never   *)
(* below the minimum, and they join only when the vault key is shared      *)
(* anew among all of them.  These are the steps of the owner module        *)
(* DeathWorkflow counts with: RemoveContact, ActivateShareGeneration and   *)
(* ArmOwner.                                                               *)
(***************************************************************************)
EXTENDS Integers, FiniteSets

CONSTANTS
    Contacts,   \* the people there are
    MinContacts \* fewest people the key is shared among

VARIABLES
    roster, \* contacts who count towards a threshold
    keyed,  \* contacts with a share of the key in force
    armed   \* a missed deadline starts a workflow

vars == <<roster, keyed, armed>>

Init ==
    /\ roster = {}
    /\ keyed = {}
    /\ armed = FALSE

Leave(c) ==
    /\ c \in roster
    /\ Cardinality(roster) > MinContacts
    /\ roster' = roster \ {c}
    /\ UNCHANGED <<keyed, armed>>

Share(all) ==
    /\ roster \subseteq all
    /\ Cardinality(all) >= MinContacts
    /\ roster' = all
    /\ keyed' = all
    /\ UNCHANGED armed

Arm ==
    /\ Cardinality(roster) >= MinContacts
    /\ roster \subseteq keyed
    /\ armed' = TRUE
    /\ UNCHANGED <<roster, keyed>>

Next ==
    \/ \E c \in Contacts : Leave(c)
    \/ \E all \in SUBSET Contacts : Share(all)
    \/ Arm

Spec == Init /\ [][Next]_vars
=============================================================================
