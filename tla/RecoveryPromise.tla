--------------------------- MODULE RecoveryPromise ---------------------------
(***************************************************************************)
(* What password recovery promises, seen from outside: the password        *)
(* changes only after a majority of the contacts has supported it one by   *)
(* one and the owner has then proven to read the mailbox, once per         *)
(* recovery, and every recovery comes to an end.                           *)
(***************************************************************************)
EXTENDS Integers, FiniteSets

CONSTANTS
    Contacts, \* the roster
    Quorum    \* how many contacts have to support a recovery

VARIABLES
    phase,      \* CLOSED, GATHERING support or READY for the owner
    supporters, \* contacts who support the recovery
    proven,     \* the owner has proven to read the mailbox
    credential  \* how often the password was set

vars == <<phase, supporters, proven, credential>>

Init ==
    /\ phase = "CLOSED"
    /\ supporters = {}
    /\ proven = FALSE
    /\ credential = 0

Open ==
    /\ phase = "CLOSED"
    /\ phase' = "GATHERING"
    /\ UNCHANGED <<supporters, proven, credential>>

Support(c) ==
    /\ phase = "GATHERING"
    /\ c \notin supporters
    /\ supporters' = supporters \cup {c}
    /\ phase' = IF Cardinality(supporters') >= Quorum THEN "READY" ELSE "GATHERING"
    /\ UNCHANGED <<proven, credential>>

Prove ==
    /\ phase = "READY"
    /\ ~proven
    /\ proven' = TRUE
    /\ UNCHANGED <<phase, supporters, credential>>

Close ==
    /\ phase # "CLOSED"
    /\ phase' = "CLOSED"
    /\ supporters' = {}
    /\ proven' = FALSE
    /\ UNCHANGED credential

Reset ==
    /\ phase = "READY"
    /\ proven
    /\ phase' = "CLOSED"
    /\ supporters' = {}
    /\ proven' = FALSE
    /\ credential' = credential + 1

Next == Open \/ (\E c \in Contacts : Support(c)) \/ Prove \/ Close \/ Reset

Spec == Init /\ [][Next]_vars /\ WF_vars(Close \/ Reset)
=============================================================================
