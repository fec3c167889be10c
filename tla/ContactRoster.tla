---------------------------- MODULE ContactRoster ----------------------------
(***************************************************************************)
(* The emergency contacts and the share generations that split the vault   *)
(* key among them (packages/application/src/contacts and .../shares), up   *)
(* to the arming of the system (.../setup/arm-owner.ts).                   *)
(*                                                                         *)
(* A contact is one row of emergency_contacts; a person invited again gets *)
(* a new row.  Every operation is one serializable transaction, so one     *)
(* action.  The owner works in browser tabs: a tab reads the vault         *)
(* material, then creates, uploads and activates a generation with the     *)
(* contact_set_version it has read.  Tabs and their requests interleave    *)
(* freely, and a request may be repeated.  While a workflow is open the    *)
(* roster is locked, which is module DeathWorkflow's subject.              *)
(***************************************************************************)
EXTENDS Integers, FiniteSets

CONSTANTS
    Contacts,      \* rows emergency_contacts may hold
    Tabs,          \* browser tabs of the owner
    Dealings,      \* ways to deal the shares: polynomials and their commitment
    MinContacts,   \* fewest contacts a generation may have (3 in the code)
    MaxContacts,   \* most contacts at a time (10 in the code)
    MaxGenerations \* bound: share generations that may be created

ASSUME ContactsAssumption == IsFiniteSet(Contacts)
ASSUME MinimumAssumption == MinContacts \in Nat \ {0}
ASSUME BoundAssumption == MaxGenerations \in Nat
ASSUME DealingsAssumption == 0 \notin Dealings

VARIABLES
    status,      \* emergency_contacts.status; NONE before the row exists
    usable,      \* invited contacts with a link neither expired nor used
    generations, \* rows of share_generations with their contact_key_shares
    active,      \* vaults.active_share_generation_id, 0 for none
    tabs,        \* what each tab has read and drafted
    package,     \* TRUE once a legacy package is ACTIVE
    accepted,    \* irreversibility_accepted_at is set
    setupState   \* owner_profile.setup_state

vars == <<status, usable, generations, active, tabs, package, accepted, setupState>>

Numbers == 1..MaxGenerations

\* No share of a contact is stored, or no commitment yet (32 zero bytes).
Nothing == 0

Generation ==
    [status : {"NONE", "PREPARING", "ACTIVE", "RETIRED"},
     roster : SUBSET Contacts,
     shares : [Contacts -> Dealings \cup {Nothing}],
     commitment : Dealings \cup {Nothing}]

\* A row without shares.
Unshared(s, r) ==
    [status |-> s, roster |-> r, shares |-> [c \in Contacts |-> Nothing],
     commitment |-> Nothing]

NoGeneration == Unshared("NONE", {})

-----------------------------------------------------------------------------

With(s) == {c \in Contacts : status[c] = s}

Roster == With("ACTIVE")

\* activeContactRows: the contacts a new generation is for.
Keyable == Roster \cup With("PENDING_KEYING")

\* Types; and the only links that work are those of contacts still INVITED.
TypeOK ==
    /\ status \in [Contacts -> {"NONE", "INVITED", "PENDING_KEYING", "ACTIVE", "REMOVED"}]
    /\ usable \subseteq With("INVITED")
    /\ generations \in [Numbers -> Generation]
    /\ active \in 0..MaxGenerations
    /\ tabs \in [Tabs -> [fresh : BOOLEAN, draft : 0..MaxGenerations]]
    /\ package \in BOOLEAN
    /\ accepted \in BOOLEAN
    /\ setupState \in {"READY", "ARMED"}

\* The contacts for whom generation g holds a share.
Holders(g) == {c \in Contacts : generations[g].shares[c] # Nothing}

\* contact_set_version grows: what every tab has read of it is out of date.
Outdated == [t \in Tabs |-> [tabs[t] EXCEPT !.fresh = FALSE]]

-----------------------------------------------------------------------------
(* createOwner has just run: no contact, no generation, no package.         *)

Init ==
    /\ status = [c \in Contacts |-> "NONE"]
    /\ usable = {}
    /\ generations = [g \in Numbers |-> NoGeneration]
    /\ active = 0
    /\ tabs = [t \in Tabs |-> [fresh |-> FALSE, draft |-> 0]]
    /\ package = FALSE
    /\ accepted = FALSE
    /\ setupState = "READY"

-----------------------------------------------------------------------------
(* Contacts *)

InviteContact(c) ==
    /\ status[c] = "NONE"
    /\ Cardinality({d \in Contacts : status[d] \notin {"NONE", "REMOVED"}}) < MaxContacts
    /\ status' = [status EXCEPT ![c] = "INVITED"]
    /\ usable' = usable \cup {c}
    /\ tabs' = Outdated
    /\ UNCHANGED <<generations, active, package, accepted, setupState>>

\* Three days have passed.
InvitationExpires(c) ==
    /\ c \in usable
    /\ usable' = usable \ {c}
    /\ UNCHANGED <<status, generations, active, tabs, package, accepted, setupState>>

\* A new link; contact_set_version stays.
ResendInvitation(c) ==
    /\ status[c] = "INVITED"
    /\ usable' = usable \cup {c}
    /\ UNCHANGED <<status, generations, active, tabs, package, accepted, setupState>>

\* contact_set_version stays: drafts made before are caught by the snapshot.
AcceptInvitation(c) ==
    /\ c \in usable
    /\ status[c] = "INVITED"
    /\ status' = [status EXCEPT ![c] = "PENDING_KEYING"]
    /\ usable' = usable \ {c}
    /\ UNCHANGED <<generations, active, tabs, package, accepted, setupState>>

\* Mutant: one contact too many may leave.
RemoveContactTooMany(c) ==
    /\ c \in Keyable
    /\ c \in Roster => Cardinality(Roster) >= MinContacts
    /\ status' = [status EXCEPT ![c] = "REMOVED"]
    /\ tabs' = Outdated
    /\ UNCHANGED <<usable, generations, active, package, accepted, setupState>>

\* The row of a contact who never registered cannot become REMOVED: the table
\* has a check against it.  The generation and the setup state stay.
RemoveContact(c) ==
    /\ c \in Keyable
    /\ c \in Roster => Cardinality(Roster) > MinContacts
    /\ status' = [status EXCEPT ![c] = "REMOVED"]
    /\ tabs' = Outdated
    /\ UNCHANGED <<usable, generations, active, package, accepted, setupState>>

-----------------------------------------------------------------------------
(* Share generations, in the order of the owner's browser *)

\* GET /owner/vault/material
ReadMaterial(t) ==
    /\ tabs' = [tabs EXCEPT ![t] = [fresh |-> TRUE, draft |-> 0]]
    /\ UNCHANGED <<status, usable, generations, active, package, accepted, setupState>>

\* generation_no is one more than the highest of the vault.
CreateShareGeneration(t) ==
    /\ tabs[t].fresh
    /\ tabs[t].draft = 0
    /\ Cardinality(Keyable) >= MinContacts
    /\ \E g \in Numbers :
        /\ generations[g].status = "NONE"
        /\ \A h \in Numbers : h < g => generations[h].status # "NONE"
        /\ generations' = [generations EXCEPT ![g] = Unshared("PREPARING", Keyable)]
        /\ tabs' = [tabs EXCEPT ![t].draft = g]
    /\ UNCHANGED <<status, usable, active, package, accepted, setupState>>

\* Mutant: the snapshot of the contacts is not compared.
CurrentByVersion(t, g) ==
    /\ tabs[t].fresh
    /\ g = tabs[t].draft
    /\ g \in Numbers
    /\ generations[g].status = "PREPARING"

\* A draft whose roster is that of now, named with the current version.
Current(t, g) ==
    /\ tabs[t].fresh
    /\ g = tabs[t].draft
    /\ g \in Numbers
    /\ generations[g].status = "PREPARING"
    /\ generations[g].roster = Keyable

\* Mutant: a stored share is skipped without a look at it.
AnyDealing(g, d) == TRUE

\* What is stored of a generation may be sent again, but not dealt anew.
SameOrNew(g, d) == \A c \in Holders(g) : generations[g].shares[c] = d

UploadShareGeneration(t, d) ==
    /\ \E g \in Numbers :
        /\ Current(t, g)
        /\ SameOrNew(g, d)
        /\ generations' = [generations EXCEPT
               ![g].shares = [c \in Contacts |->
                   IF c \in Keyable /\ @[c] = Nothing THEN d ELSE @[c]],
               ![g].commitment = d]
    /\ UNCHANGED <<status, usable, active, tabs, package, accepted, setupState>>

\* Every contact of the draft has both shares, and they are committed to.
Complete(g) ==
    /\ Holders(g) = Keyable
    /\ generations[g].commitment # Nothing

\* Generation g replaces the ACTIVE one, which is RETIRED.
Replaced(g) ==
    [h \in Numbers |->
        IF h = g THEN [generations[h] EXCEPT !.status = "ACTIVE"]
        ELSE IF h = active /\ generations[h].status = "ACTIVE"
        THEN [generations[h] EXCEPT !.status = "RETIRED"]
        ELSE generations[h]]

ActivateShareGeneration(t) ==
    /\ \E g \in Numbers :
        /\ Current(t, g)
        /\ Cardinality(Keyable) >= MinContacts
        /\ Complete(g)
        /\ generations' = Replaced(g)
        /\ active' = g
        /\ status' = [c \in Contacts |-> IF c \in Keyable THEN "ACTIVE" ELSE status[c]]
    /\ tabs' = Outdated
    /\ setupState' = IF accepted /\ package THEN "ARMED" ELSE "READY"
    /\ UNCHANGED <<usable, package, accepted>>

-----------------------------------------------------------------------------
(* Arming *)

\* activatePackage: from the first one on there is always an ACTIVE package.
ActivateFirstPackage ==
    /\ active # 0
    /\ package' = TRUE
    /\ UNCHANGED <<status, usable, generations, active, tabs, accepted, setupState>>

ArmOwner ==
    /\ Cardinality(Roster) >= MinContacts
    /\ active # 0
    /\ generations[active].status = "ACTIVE"
    /\ package
    /\ setupState' = "ARMED"
    /\ accepted' = TRUE
    /\ UNCHANGED <<status, usable, generations, active, tabs, package>>

-----------------------------------------------------------------------------

ContactStep(c) ==
    \/ InviteContact(c)
    \/ InvitationExpires(c)
    \/ ResendInvitation(c)
    \/ AcceptInvitation(c)
    \/ RemoveContact(c)

TabStep(t) ==
    \/ ReadMaterial(t)
    \/ CreateShareGeneration(t)
    \/ \E d \in Dealings : UploadShareGeneration(t, d)
    \/ ActivateShareGeneration(t)

Next ==
    \/ \E c \in Contacts : ContactStep(c)
    \/ \E t \in Tabs : TabStep(t)
    \/ ActivateFirstPackage
    \/ ArmOwner

Spec == Init /\ [][Next]_vars

-----------------------------------------------------------------------------
(* Properties *)

\* startDeathWorkflow and startRecovery compare only the number of ACTIVE
\* contacts with contact_count of the generation in force before they take one
\* share of each.  However people join and leave between generations, equal
\* numbers mean that these very people hold the shares.
CountDecidesRoster ==
    active # 0 /\ Cardinality(Roster) = Cardinality(generations[active].roster)
    => Roster = Holders(active)

\* The shares of a generation that ever was in force and its commitment come
\* from one dealing, whatever uploads were repeated and from whichever tab: two
\* dealings mixed would combine to no key (uploadShareGeneration).
OneDealing ==
    \A g \in Numbers : generations[g].status \in {"ACTIVE", "RETIRED"} =>
        /\ Holders(g) = generations[g].roster
        /\ \A c \in Holders(g) : generations[g].shares[c] = generations[g].commitment

\* A tab that prepared an older generation cannot put it in force over a newer
\* one that another tab has activated meanwhile (activateShareGeneration).
GenerationsMoveForward == [][active' >= active]_vars
=============================================================================
