------------------------- MODULE ContactRosterProofs -------------------------
(***************************************************************************)
(* Proofs about module ContactRoster for any contacts, tabs and dealings,  *)
(* any minimum and any number of generations.  The inductive invariant     *)
(* IInv adds to the types: generations are numbered without gaps, the one  *)
(* in force is ACTIVE and covers the roster, every stored share belongs to *)
(* the generation's commitment, and a tab whose version is current has a   *)
(* draft newer than the generation in force.                               *)
(***************************************************************************)
EXTENDS ContactRosterRefinement, FiniteSetTheorems, TLAPS

\* Generations are created in the order of their numbers.
NoGap ==
    \A g, h \in Numbers :
        generations[g].status # "NONE" /\ h < g => generations[h].status # "NONE"

\* The generation in force is ACTIVE and its roster holds everyone who counts.
InForce ==
    /\ active = 0 => Roster = {}
    /\ active # 0 =>
        /\ generations[active].status = "ACTIVE"
        /\ Roster \subseteq generations[active].roster

\* Only uploads that complete a generation let it come in force.
Covered ==
    \A g \in Numbers : generations[g].status \in {"ACTIVE", "RETIRED"} =>
        Holders(g) = generations[g].roster

Dealt ==
    \A g \in Numbers : \A c \in Holders(g) : generations[g].shares[c] = generations[g].commitment

\* A draft read with the current version is newer than what is in force.
DraftsAreNewer ==
    \A t \in Tabs : tabs[t].fresh /\ tabs[t].draft # 0 => tabs[t].draft > active

\* Armed once accepted, and from then on.
Accepted ==
    /\ setupState = "ARMED" <=> accepted
    /\ accepted => package /\ active # 0

IInv == TypeOK /\ NoGap /\ InForce /\ Covered /\ Dealt /\ DraftsAreNewer /\ Accepted

-----------------------------------------------------------------------------

LEMMA NoGenerationType == NoGeneration \in Generation
  BY DEF NoGeneration, Unshared, Generation, Nothing

LEMMA InitOK == Init => IInv
<1> SUFFICES ASSUME Init PROVE IInv
  OBVIOUS
<1>1. TypeOK
  <2>1. generations \in [Numbers -> Generation]
    BY NoGenerationType DEF Init
  <2>2. tabs \in [Tabs -> [fresh : BOOLEAN, draft : 0..MaxGenerations]] /\ active \in 0..MaxGenerations
    BY BoundAssumption DEF Init
  <2> QED
    BY <2>1, <2>2 DEF Init, TypeOK, With
<1>2. \A g \in Numbers : /\ generations[g].status = "NONE"
                         /\ Holders(g) = {}
  BY DEF Init, NoGeneration, Unshared, Holders
<1>3. NoGap /\ Covered /\ Dealt
  BY <1>2 DEF NoGap, Covered, Dealt
<1>4. InForce /\ DraftsAreNewer /\ Accepted
  BY DEF Init, InForce, DraftsAreNewer, Accepted, Roster, With
<1> QED
  BY <1>1, <1>3, <1>4 DEF IInv

LEMMA OutdatedTabs ==
  ASSUME TypeOK
  PROVE  /\ Outdated \in [Tabs -> [fresh : BOOLEAN, draft : 0..MaxGenerations]]
         /\ \A t \in Tabs : Outdated[t].fresh = FALSE
<1>1. \A t \in Tabs : /\ [tabs[t] EXCEPT !.fresh = FALSE] \in [fresh : BOOLEAN, draft : 0..MaxGenerations]
                      /\ [tabs[t] EXCEPT !.fresh = FALSE].fresh = FALSE
  BY DEF TypeOK
<1> QED
  BY <1>1 DEF Outdated

\* The steps of a contact touch neither generations nor what is in force.
LEMMA ContactStepOK ==
  ASSUME IInv, NEW c \in Contacts, ContactStep(c)
  PROVE  IInv'
<1> USE DEF IInv
<1>1. CASE InviteContact(c)
  <2>1. TypeOK'
    BY <1>1, OutdatedTabs DEF InviteContact, Roster, TypeOK, With
  <2>2. NoGap' /\ InForce' /\ Covered' /\ Dealt' /\ Accepted'
    BY <1>1 DEF InviteContact, TypeOK, NoGap, InForce, Covered, Dealt, Accepted, Holders, Roster, With
  <2>3. DraftsAreNewer'
    BY <1>1, OutdatedTabs DEF InviteContact, DraftsAreNewer
  <2> QED
    BY <2>1, <2>2, <2>3
<1>2. CASE InvitationExpires(c)
  BY <1>2 DEF InvitationExpires, TypeOK, NoGap, InForce, Covered, Dealt,
      DraftsAreNewer, Accepted, Holders, Roster, With, Numbers
<1>3. CASE ResendInvitation(c)
  BY <1>3 DEF ResendInvitation, TypeOK, NoGap, InForce, Covered, Dealt,
      DraftsAreNewer, Accepted, Holders, Roster, With, Numbers
<1>4. CASE AcceptInvitation(c)
  BY <1>4 DEF AcceptInvitation, TypeOK, NoGap, InForce, Covered, Dealt,
      DraftsAreNewer, Accepted, Holders, Roster, With, Numbers
<1>5. CASE RemoveContact(c)
  <2>1. TypeOK'
    BY <1>5, OutdatedTabs DEF RemoveContact, Keyable, Roster, TypeOK, With
  <2>2. NoGap' /\ InForce' /\ Covered' /\ Dealt' /\ Accepted'
    BY <1>5 DEF RemoveContact, Keyable, TypeOK, NoGap, InForce, Covered, Dealt, Accepted, Holders, Roster, With
  <2>3. DraftsAreNewer'
    BY <1>5, OutdatedTabs DEF RemoveContact, DraftsAreNewer
  <2> QED
    BY <2>1, <2>2, <2>3
<1> QED
  BY <1>1, <1>2, <1>3, <1>4, <1>5 DEF ContactStep

LEMMA ReadMaterialOK ==
  ASSUME IInv, NEW t \in Tabs, ReadMaterial(t)
  PROVE  IInv'
BY BoundAssumption DEF ReadMaterial, IInv, TypeOK, NoGap, InForce, Covered, Dealt,
    DraftsAreNewer, Accepted, Holders, Roster, With, Numbers

\* The first free number is above the generation in force.
LEMMA CreateShareGenerationOK ==
  ASSUME IInv, NEW t \in Tabs, CreateShareGeneration(t)
  PROVE  IInv'
<1> USE BoundAssumption DEF IInv
<1>1. PICK g \in Numbers :
        /\ generations[g].status = "NONE"
        /\ \A h \in Numbers : h < g => generations[h].status # "NONE"
        /\ generations' = [generations EXCEPT ![g] = Unshared("PREPARING", Keyable)]
        /\ tabs' = [tabs EXCEPT ![t].draft = g]
  BY DEF CreateShareGeneration
<1>2. /\ UNCHANGED <<status, usable, active, package, accepted, setupState>>
      /\ tabs[t].fresh
  BY DEF CreateShareGeneration
<1> DEFINE new == [status |-> "PREPARING", roster |-> Keyable,
                   shares |-> [c \in Contacts |-> Nothing], commitment |-> Nothing]
<1>3. generations' = [generations EXCEPT ![g] = new]
  BY <1>1 DEF Unshared
<1>4. new \in Generation
  BY DEF Generation, Keyable, Roster, With, Nothing
<1> HIDE DEF new
<1>5. TypeOK'
  <2>1. generations' \in [Numbers -> Generation]
    BY <1>3, <1>4 DEF TypeOK
  <2>2. tabs' \in [Tabs -> [fresh : BOOLEAN, draft : 0..MaxGenerations]]
    <3>1. tabs[t] \in [fresh : BOOLEAN, draft : 0..MaxGenerations] /\ g \in 0..MaxGenerations
      BY DEF TypeOK, Numbers
    <3>2. [tabs[t] EXCEPT !.draft = g] \in [fresh : BOOLEAN, draft : 0..MaxGenerations]
      BY <3>1
    <3> QED
      BY <1>1, <3>2 DEF TypeOK
  <2> QED
    BY <1>2, <2>1, <2>2 DEF TypeOK, With
<1>6. /\ generations'[g].status = "PREPARING"
      /\ generations'[g].shares = [c \in Contacts |-> Nothing]
      /\ \A h \in Numbers \ {g} : generations'[h] = generations[h]
  BY <1>3 DEF TypeOK, new
<1>7. active # g /\ active # 0 => active < g
  <2> SUFFICES ASSUME active # g, active # 0 PROVE active < g
    OBVIOUS
  <2>1. active \in Numbers /\ active \in Int /\ g \in Int
    BY DEF TypeOK, Numbers
  <2>2. generations[active].status # "NONE"
    BY DEF InForce
  <2>3. ~(g < active)
    BY <1>1, <2>1, <2>2 DEF NoGap
  <2> QED
    BY <2>1, <2>3
<1>8. active # g
  BY <1>1 DEF InForce, Numbers
<1>9. NoGap'
  BY <1>1, <1>6 DEF NoGap, Numbers
<1>10. InForce'
  BY <1>2, <1>6, <1>8 DEF InForce, TypeOK, Roster, With, Numbers
<1>11. Covered' /\ Dealt'
  BY <1>6 DEF Covered, Dealt, Holders
<1>12. DraftsAreNewer'
  BY <1>1, <1>2, <1>7, <1>8 DEF DraftsAreNewer, TypeOK, Numbers
<1>13. Accepted'
  BY <1>2 DEF Accepted
<1> QED
  BY <1>5, <1>9, <1>10, <1>11, <1>12, <1>13

\* Only shares of the dealing already stored, or all of a new one.
LEMMA UploadShareGenerationOK ==
  ASSUME IInv, NEW t \in Tabs, NEW d \in Dealings, UploadShareGeneration(t, d)
  PROVE  IInv'
<1> USE BoundAssumption DEF IInv
<1>1. PICK g \in Numbers :
        /\ Current(t, g)
        /\ SameOrNew(g, d)
        /\ generations' = [generations EXCEPT
               ![g].shares = [c \in Contacts |->
                   IF c \in Keyable /\ @[c] = Nothing THEN d ELSE @[c]],
               ![g].commitment = d]
  BY DEF UploadShareGeneration
<1>2. UNCHANGED <<status, usable, active, tabs, package, accepted, setupState>>
  BY DEF UploadShareGeneration
<1> DEFINE dealt == [c \in Contacts |->
              IF c \in Keyable /\ generations[g].shares[c] = Nothing THEN d
              ELSE generations[g].shares[c]]
<1>3. /\ generations[g] \in Generation
      /\ generations[g].status = "PREPARING"
  BY <1>1 DEF TypeOK, Current
<1>4. /\ generations'[g] = [generations[g] EXCEPT !.shares = dealt, !.commitment = d]
      /\ \A h \in Numbers \ {g} : generations'[h] = generations[h]
      /\ DOMAIN generations' = Numbers
  BY <1>1 DEF TypeOK
<1>5. dealt \in [Contacts -> Dealings \cup {Nothing}]
  BY <1>3 DEF Generation
<1>6. \A c \in Contacts : dealt[c] # Nothing => dealt[c] = d
  BY <1>1, <1>3, DealingsAssumption DEF SameOrNew, Holders, Generation, Nothing
<1> HIDE DEF dealt
<1>7. /\ generations'[g].status = "PREPARING"
      /\ generations'[g].shares = dealt
      /\ generations'[g].commitment = d
      /\ generations'[g] \in Generation
  BY <1>3, <1>4, <1>5 DEF Generation
<1>8. generations' \in [Numbers -> Generation]
  <2>1. generations' = [h \in Numbers |-> generations'[h]]
    BY <1>1 DEF TypeOK
  <2>2. \A h \in Numbers : generations'[h] \in Generation
    BY <1>4, <1>7 DEF TypeOK
  <2> QED
    BY <2>1, <2>2
<1>9. TypeOK'
  BY <1>2, <1>8 DEF TypeOK, With
<1>10. NoGap' /\ Covered'
  BY <1>1, <1>3, <1>4, <1>7 DEF NoGap, Covered, Holders
<1>11. InForce'
  BY <1>2, <1>3, <1>4 DEF InForce, Roster, With, TypeOK, Numbers
<1>12. Dealt'
  <2>1. \A c \in Holders(g)' : generations'[g].shares[c] = generations'[g].commitment
    BY <1>6, <1>7 DEF Holders
  <2>2. \A h \in Numbers \ {g} : \A c \in Holders(h)' : generations'[h].shares[c] = generations'[h].commitment
    BY <1>4 DEF Holders, Dealt
  <2> QED
    BY <2>1, <2>2 DEF Dealt
<1>13. DraftsAreNewer' /\ Accepted'
  BY <1>2 DEF DraftsAreNewer, Accepted
<1> QED
  BY <1>9, <1>10, <1>11, <1>12, <1>13

\* The new generation covers everyone keyable; all tabs are out of date.
LEMMA ActivateShareGenerationOK ==
  ASSUME IInv, NEW t \in Tabs, ActivateShareGeneration(t)
  PROVE  IInv' /\ active' > active
<1> USE BoundAssumption DEF IInv
<1>1. PICK g \in Numbers :
        /\ Current(t, g)
        /\ Complete(g)
        /\ generations' = Replaced(g)
        /\ active' = g
        /\ status' = [c \in Contacts |-> IF c \in Keyable THEN "ACTIVE" ELSE status[c]]
  BY DEF ActivateShareGeneration
<1>2. /\ tabs' = Outdated
      /\ setupState' = IF accepted /\ package THEN "ARMED" ELSE "READY"
      /\ UNCHANGED <<usable, package, accepted>>
  BY DEF ActivateShareGeneration
<1>3. generations[g].status = "PREPARING" /\ generations[g].roster = Keyable
  BY <1>1 DEF Current
<1>4. \A h \in Numbers :
        /\ generations'[h] \in Generation
        /\ generations'[h].roster = generations[h].roster
        /\ generations'[h].shares = generations[h].shares
        /\ generations'[h].commitment = generations[h].commitment
        /\ h = g => generations'[h].status = "ACTIVE"
        /\ h # g => \/ generations'[h].status = generations[h].status
                    \/ /\ generations[h].status = "ACTIVE"
                       /\ generations'[h].status = "RETIRED"
  BY <1>1 DEF Replaced, TypeOK, Generation
<1>5. generations' \in [Numbers -> Generation]
  BY <1>1, <1>4 DEF Replaced
<1>6. TypeOK'
  <2>1. status' \in [Contacts -> {"NONE", "INVITED", "PENDING_KEYING", "ACTIVE", "REMOVED"}]
    BY <1>1 DEF TypeOK
  <2>2. usable' \subseteq With("INVITED")'
    BY <1>1, <1>2 DEF TypeOK, With, Keyable, Roster
  <2>3. tabs' \in [Tabs -> [fresh : BOOLEAN, draft : 0..MaxGenerations]]
    BY <1>2 DEF Outdated, TypeOK
  <2>4. active' \in 0..MaxGenerations /\ setupState' \in {"READY", "ARMED"}
    BY <1>1, <1>2 DEF Numbers
  <2> QED
    BY <1>2, <1>5, <2>1, <2>2, <2>3, <2>4 DEF TypeOK
<1>7. NoGap'
  BY <1>3, <1>4 DEF NoGap
<1>8. InForce'
  <2>1. Roster' = Keyable
    BY <1>1 DEF Roster, With, Keyable
  <2> QED
    BY <1>1, <1>3, <1>4, <2>1 DEF InForce, Numbers
<1>9. Covered' /\ Dealt'
  <2>1. \A h \in Numbers : Holders(h)' = Holders(h)
    BY <1>4 DEF Holders
  <2> QED
    BY <1>1, <1>3, <1>4, <2>1 DEF Covered, Dealt, Complete
<1>10. DraftsAreNewer'
  BY <1>2 DEF DraftsAreNewer, Outdated, TypeOK
<1>11. Accepted'
  BY <1>1, <1>2 DEF Accepted, Numbers
<1>12. active' > active
  BY <1>1 DEF Current, DraftsAreNewer, Numbers
<1> QED
  BY <1>6, <1>7, <1>8, <1>9, <1>10, <1>11, <1>12

LEMMA ArmingOK ==
  ASSUME IInv, ActivateFirstPackage \/ ArmOwner
  PROVE  IInv'
<1> USE DEF IInv, ActivateFirstPackage, ArmOwner
<1>1. TypeOK'
  BY DEF TypeOK, With
<1>2. NoGap' /\ Covered' /\ Dealt' /\ DraftsAreNewer'
  BY DEF NoGap, Covered, Dealt, DraftsAreNewer, Holders
<1>3. InForce'
  BY DEF InForce, Roster, With
<1>4. Accepted'
  BY DEF Accepted, TypeOK
<1> QED
  BY <1>1, <1>2, <1>3, <1>4

LEMMA StepOK == IInv /\ [Next]_vars => IInv'
<1> SUFFICES ASSUME IInv, [Next]_vars PROVE IInv'
  OBVIOUS
<1>1. CASE \E c \in Contacts : ContactStep(c)
  BY <1>1, ContactStepOK
<1>2. CASE \E t \in Tabs : TabStep(t)
  BY <1>2, ReadMaterialOK, CreateShareGenerationOK, UploadShareGenerationOK,
     ActivateShareGenerationOK DEF TabStep
<1>3. CASE ActivateFirstPackage \/ ArmOwner
  BY <1>3, ArmingOK
<1>4. CASE UNCHANGED vars
  BY <1>4 DEF vars, IInv, TypeOK, NoGap, InForce, Covered, Dealt,
    DraftsAreNewer, Accepted, Holders, Roster, With
<1> QED
  BY <1>1, <1>2, <1>3, <1>4 DEF Next

LEMMA Invariance == Spec => []IInv
  BY InitOK, StepOK, PTL DEF Spec

-----------------------------------------------------------------------------

\* Types, and links only of contacts still invited.
THEOREM RosterTypeCorrect == Spec => []TypeOK
<1>1. IInv => TypeOK
  BY DEF IInv
<1> QED
  BY <1>1, Invariance, PTL

\* As many ACTIVE contacts as the generation in force counts are exactly the
\* holders of its shares: the test startDeathWorkflow and startRecovery make.
THEOREM CountIsEnough == Spec => []CountDecidesRoster
<1>1. IInv => CountDecidesRoster
  <2> SUFFICES ASSUME IInv, active # 0,
                      Cardinality(Roster) = Cardinality(generations[active].roster)
               PROVE  Roster = Holders(active)
    BY DEF CountDecidesRoster
  <2>1. active \in Numbers /\ generations[active] \in Generation
    BY BoundAssumption DEF IInv, TypeOK, Numbers
  <2>2. IsFiniteSet(generations[active].roster)
    <3>1. generations[active].roster \subseteq Contacts
      BY <2>1 DEF Generation
    <3> QED
      BY <3>1, ContactsAssumption, FS_Subset
  <2>3. Roster \subseteq generations[active].roster
    BY DEF IInv, InForce
  <2>4. Roster = generations[active].roster
    BY <2>2, <2>3, FS_Subset
  <2> QED
    BY <2>1, <2>4 DEF IInv, InForce, Covered
<1> QED
  BY <1>1, Invariance, PTL

\* The shares of a generation that was in force are those of one dealing.
THEOREM OneDealingCorrect == Spec => []OneDealing
<1>1. IInv => OneDealing
  BY DEF IInv, OneDealing, Covered, Dealt
<1> QED
  BY <1>1, Invariance, PTL

LEMMA ActiveGrows == IInv /\ [Next]_vars => [active' >= active]_vars
<1> SUFFICES ASSUME IInv, Next PROVE active' >= active
  BY DEF vars
<1>1. active \in Int
  BY BoundAssumption DEF IInv, TypeOK
<1>2. CASE \E t \in Tabs : ActivateShareGeneration(t)
  <2>1. active' > active
    BY <1>2, ActivateShareGenerationOK
  <2>2. active' \in Int
    BY <1>2 DEF ActivateShareGeneration, Numbers
  <2> QED
    BY <1>1, <2>1, <2>2
<1>3. CASE ~ \E t \in Tabs : ActivateShareGeneration(t)
  <2>1. active' = active
    BY <1>3 DEF Next, ContactStep, TabStep, InviteContact, InvitationExpires, ResendInvitation,
        AcceptInvitation, RemoveContact, ReadMaterial, CreateShareGeneration,
        UploadShareGeneration, ActivateFirstPackage, ArmOwner
  <2> QED
    BY <1>1, <2>1
<1> QED
  BY <1>2, <1>3

\* No tab puts an older generation in force over a newer one.
THEOREM NewerGenerations == Spec => GenerationsMoveForward
<1> QED
  BY Invariance, ActiveGrows, PTL DEF Spec, GenerationsMoveForward

-----------------------------------------------------------------------------
(* ContactRoster implements RosterPromise. *)

LEMMA SameCardinality == \A S : Promise!Cardinality(S) = Cardinality(S)
  BY DEF Promise!Cardinality, Cardinality

LEMMA InitMaps == Init => Promise!Init
  BY DEF Init, Promise!Init, Roster, With, Keyed

\* Who holds a share of the generation in force is fixed while it is in force.
LEMMA KeyedStays ==
  ASSUME IInv, UNCHANGED <<generations, active>>
  PROVE  Keyed' = Keyed
BY DEF Keyed, Holders

LEMMA StepMaps == IInv /\ [Next]_vars => [Promise!Next]_(Promise!vars)
<1> SUFFICES ASSUME IInv, [Next]_vars PROVE [Promise!Next]_(Promise!vars)
  OBVIOUS
<1> USE DEF Promise!vars
<1>1. ASSUME NEW c \in Contacts, ContactStep(c) PROVE [Promise!Next]_(Promise!vars)
  <2>1. Keyed' = Keyed
    BY <1>1, KeyedStays DEF ContactStep, InviteContact, InvitationExpires, ResendInvitation,
        AcceptInvitation, RemoveContact
  <2>2. setupState' = setupState
    BY <1>1 DEF ContactStep, InviteContact, InvitationExpires, ResendInvitation,
        AcceptInvitation, RemoveContact
  <2>3. CASE RemoveContact(c) /\ c \in Roster
    <3>1. Roster' = Roster \ {c}
      BY <2>3 DEF RemoveContact, IInv, TypeOK, Roster, With
    <3>2. Promise!Leave(c)
      BY <2>1, <2>2, <2>3, <3>1, SameCardinality DEF RemoveContact, Promise!Leave
    <3> QED
      BY <3>2 DEF Promise!Next
  <2>4. CASE ~(RemoveContact(c) /\ c \in Roster)
    <3>1. Roster' = Roster
      BY <1>1, <2>4 DEF ContactStep, InviteContact, InvitationExpires, ResendInvitation,
        AcceptInvitation, RemoveContact, Keyable, IInv, TypeOK, Roster, With
    <3> QED
      BY <2>1, <2>2, <3>1
  <2> QED
    BY <2>3, <2>4
<1>2. ASSUME NEW t \in Tabs, ActivateShareGeneration(t) PROVE [Promise!Next]_(Promise!vars)
  <2>1. PICK g \in Numbers :
          /\ Cardinality(Keyable) >= MinContacts
          /\ Complete(g)
          /\ generations' = Replaced(g)
          /\ active' = g
          /\ status' = [c \in Contacts |-> IF c \in Keyable THEN "ACTIVE" ELSE status[c]]
    BY <1>2 DEF ActivateShareGeneration
  <2>2. Roster' = Keyable
    BY <2>1 DEF Roster, With, Keyable
  <2>3. \A c \in Contacts : generations'[g].shares[c] = generations[g].shares[c]
    BY <2>1 DEF Replaced, IInv, TypeOK, Generation
  <2>4. Keyed' = Keyable
    BY <2>1, <2>3 DEF Keyed, Holders, Complete, Numbers
  <2>5. Roster \subseteq Keyable /\ Keyable \subseteq Contacts
    BY DEF Keyable, Roster, With
  <2>6. (setupState = "ARMED") => setupState' = "ARMED"
    BY <1>2 DEF ActivateShareGeneration, IInv, Accepted
  <2>7. setupState' = "ARMED" => setupState = "ARMED"
    BY <1>2 DEF ActivateShareGeneration, IInv, Accepted
  <2>8. (setupState' = "ARMED") = (setupState = "ARMED")
    BY <2>6, <2>7
  <2>9. Promise!Share(Keyable)
    BY <2>1, <2>2, <2>4, <2>5, <2>8, SameCardinality DEF Promise!Share
  <2> QED
    BY <2>5, <2>9 DEF Promise!Next
<1>3. ASSUME NEW t \in Tabs,
             ReadMaterial(t) \/ CreateShareGeneration(t) \/ \E d \in Dealings : UploadShareGeneration(t, d)
      PROVE  [Promise!Next]_(Promise!vars)
  <2>1. UNCHANGED <<status, active, setupState>>
    BY <1>3 DEF ReadMaterial, CreateShareGeneration, UploadShareGeneration
  <2>2. active # 0 => generations'[active] = generations[active]
    <3> SUFFICES ASSUME active # 0 PROVE generations'[active] = generations[active]
      OBVIOUS
    <3>1. generations[active].status = "ACTIVE" /\ generations \in [Numbers -> Generation]
      BY DEF IInv, InForce, TypeOK
    <3>2. CASE ReadMaterial(t)
      BY <3>2 DEF ReadMaterial
    <3>3. CASE CreateShareGeneration(t)
      BY <3>1, <3>3 DEF CreateShareGeneration
    <3>4. CASE \E d \in Dealings : UploadShareGeneration(t, d)
      <4>1. PICK d \in Dealings, g \in Numbers :
              /\ Current(t, g)
              /\ generations' = [generations EXCEPT
                     ![g].shares = [c \in Contacts |->
                         IF c \in Keyable /\ @[c] = Nothing THEN d ELSE @[c]],
                     ![g].commitment = d]
        BY <3>4 DEF UploadShareGeneration
      <4>2. active # g
        BY <3>1, <4>1 DEF Current
      <4>3. active \in Numbers
        BY BoundAssumption DEF IInv, TypeOK, Numbers
      <4> QED
        BY <3>1, <4>1, <4>2, <4>3
    <3> QED
      BY <1>3, <3>2, <3>3, <3>4
  <2>3. Roster' = Roster /\ Keyed' = Keyed
    BY <2>1, <2>2 DEF Roster, With, Keyed, Holders
  <2> QED
    BY <2>1, <2>3
<1>4. ASSUME ActivateFirstPackage PROVE [Promise!Next]_(Promise!vars)
  BY <1>4 DEF ActivateFirstPackage, Roster, With, Keyed, Holders
<1>5. ASSUME ArmOwner PROVE [Promise!Next]_(Promise!vars)
  <2>1. Roster' = Roster /\ Keyed' = Keyed
    BY <1>5 DEF ArmOwner, Roster, With, Keyed, Holders
  <2>2. Roster \subseteq Keyed
    <3>1. active \in Numbers /\ active # 0
      BY <1>5, BoundAssumption DEF ArmOwner, IInv, TypeOK, Numbers
    <3> QED
      BY <1>5, <3>1 DEF ArmOwner, IInv, InForce, Covered, Keyed
  <2>3. Promise!Arm
    BY <1>5, <2>1, <2>2, SameCardinality DEF ArmOwner, Promise!Arm
  <2> QED
    BY <2>3 DEF Promise!Next
<1>6. CASE UNCHANGED vars
  BY <1>6 DEF vars, Roster, With, Keyed, Holders
<1> QED
  BY <1>1, <1>2, <1>3, <1>4, <1>5, <1>6 DEF Next, TabStep

\* The roster, who holds shares and the arming change only as RosterPromise says,
\* for any contacts and any interleaving of the owner's tabs.
THEOREM ImplementsRosterPromise == Spec => ImplementsPromise
<1> QED
  BY InitMaps, StepMaps, Invariance, PTL DEF Spec, ImplementsPromise, Promise!Spec
=============================================================================
