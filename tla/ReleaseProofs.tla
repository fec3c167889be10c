---------------------------- MODULE ReleaseProofs ----------------------------
(***************************************************************************)
(* Proofs about the release of a legacy: the one rehearsed in test mode    *)
(* (module Simulation) and the real one (module Publication).              *)
(*                                                                         *)
(* Simulation, for any contacts, requests, creations and revisions.  The   *)
(* invariant behind its theorems: a document read of the current creation  *)
(* is what is stored, or older by its revision; and a command about to be  *)
(* saved was allowed on the document it has read.                          *)
(*                                                                         *)
(* Publication, for any number of jobs and of faults: what is public,      *)
(* released and left in staging, whichever attempts run at once and        *)
(* wherever they throw or crash.                                           *)
(***************************************************************************)
EXTENDS Publication, Simulation, TLAPS

-----------------------------------------------------------------------------
(* Simulation: the inductive invariant *)

\* What holds of every document ever stored or read.
DueDocument(d) ==
    /\ d.state # "CANCELLED_ALIVE" => \A c \in Contacts : d.decisions[c] # "ALIVE"
    /\ d.state \in {"RELEASE_PENDING", "PUBLISH_LOCKED", "PUBLISHED"} =>
        Cardinality(Approved(d)) >= RequiredCount
    /\ d.state \in {"PUBLISH_LOCKED", "PUBLISHED"} => d.at >= ReleaseAt(d)

RequestInv(q) ==
    requests[q] # Idle =>
        /\ DueDocument(requests[q].seen)
        /\ requests[q].seen.creation <= creations
        /\ requests[q].at \in {"LOOKUP", "RESULT"} => requests[q].op \in Advances
        /\ requests[q].at = "SAVE" =>
            requests[q].op \in Commands /\ Allowed(requests[q].op, requests[q].seen)
        /\ requests[q].at \in {"LOOKUP", "SAVE"} => requests[q].seen.revision < MaxRevision

\* Within a creation a revision names one document.
SnapshotInv(q) ==
    requests[q] # Idle /\ scenario # None /\ requests[q].seen.creation = creations =>
        /\ requests[q].seen.revision <= scenario.revision
        /\ requests[q].seen.revision = scenario.revision => requests[q].seen = scenario

SimulationInv ==
    /\ SimulationTypeOK
    /\ scenario # None => DueDocument(scenario) /\ scenario.creation <= creations
    /\ \A q \in Requests : RequestInv(q) /\ SnapshotInv(q)

-----------------------------------------------------------------------------
(* The commands *)

LEMMA TargetHours ==
    ASSUME NEW d \in Document, NEW op \in Advances
    PROVE  /\ TargetAt(d, op) \in Nat
           /\ op.target = "RELEASE_COUNTDOWN" => TargetAt(d, op) = ReleaseAt(d)
<1>1. op.target \in DOMAIN Hours /\ d.start \in Nat
  BY SimulationAssumption DEF Advances, Document
<1>2. \A t \in DOMAIN Hours : Hours[t] \in Nat
  BY DEF Hours
<1> QED
  BY <1>1, <1>2 DEF TargetAt, ReleaseAt, Hours

\* The kind tells the commands apart.
LEMMA Kinds ==
    ASSUME NEW op \in Commands
    PROVE  \/ op \in Advances /\ op.kind = "ADVANCE"
           \/ op \in Decisions /\ op.kind = "DECIDE"
           \/ op.kind \in {"CANCEL", "LOCK", "FINALIZE"} /\ op \notin Advances
  BY DEF Commands, Advances, Decisions

\* A decision keeps what is due: the quorum is counted with it.
LEMMA DecidedIsDue ==
    ASSUME NEW d \in Document, NEW c \in Contacts, NEW decision \in {"ALIVE", "DEATH_LIKELY"},
           d.revision < MaxRevision, DueDocument(d), d.state = "AWAITING_CONFIRMATIONS"
    PROVE  /\ Decided(d, c, decision) \in Document
           /\ DueDocument(Decided(d, c, decision))
           /\ Decided(d, c, decision).revision = d.revision + 1
           /\ Decided(d, c, decision).creation = d.creation
<1> DEFINE decisions == [d.decisions EXCEPT ![c] = decision]
           approved == {b \in Contacts : decisions[b] = "DEATH_LIKELY"}
           state == IF decision = "ALIVE" THEN "CANCELLED_ALIVE"
                    ELSE IF Cardinality(approved) >= RequiredCount THEN "RELEASE_PENDING"
                    ELSE d.state
           new == [d EXCEPT !.revision = @ + 1, !.decisions = decisions, !.state = state]
<1>1. Decided(d, c, decision) = new
  BY DEF Decided
<1>2. decisions \in [Contacts -> {"NONE", "ALIVE", "DEATH_LIKELY"}]
  BY DEF Document
<1>3. state \in {"CANCELLED_ALIVE", "RELEASE_PENDING", "AWAITING_CONFIRMATIONS"}
  OBVIOUS
<1>4. d.revision + 1 \in 0..MaxRevision
  BY SimulationAssumption DEF Document
<1>5. /\ new.decisions = decisions /\ new.state = state
      /\ new.revision = d.revision + 1 /\ new.creation = d.creation
      /\ new.start = d.start /\ new.at = d.at
  BY DEF Document
<1>6. Approved(new) = approved
  BY <1>5 DEF Approved
<1>7. decision # "ALIVE" => \A b \in Contacts : decisions[b] # "ALIVE"
  BY DEF DueDocument, Document
<1>8. state = "RELEASE_PENDING" => Cardinality(approved) >= RequiredCount
  OBVIOUS
<1>9. state # "CANCELLED_ALIVE" => decision # "ALIVE"
  OBVIOUS
<1> HIDE DEF decisions, approved, state
<1>10. new \in Document
  BY <1>2, <1>3, <1>4 DEF Document
<1>11. DueDocument(new)
  BY <1>3, <1>5, <1>6, <1>7, <1>8, <1>9 DEF DueDocument
<1> QED
  BY <1>1, <1>5, <1>10, <1>11

\* A command that is allowed makes a document of the same creation and the next
\* revision, and keeps what is due.
LEMMA AppliedIsDue ==
    ASSUME NEW d \in Document, NEW op \in Commands, d.revision < MaxRevision,
           DueDocument(d), Allowed(op, d)
    PROVE  /\ Applied(op, d) \in Document
           /\ DueDocument(Applied(op, d))
           /\ Applied(op, d).revision = d.revision + 1
           /\ Applied(op, d).creation = d.creation
<1>0. d.revision + 1 \in 0..MaxRevision /\ d.at \in Nat /\ ReleaseAt(d) \in Nat
  <2>1. d.start \in Nat /\ Hours.RELEASE_COUNTDOWN = 144
    BY SimulationAssumption DEF Document, Hours
  <2>2. d.revision + 1 \in 0..MaxRevision /\ d.at \in Nat
    BY SimulationAssumption DEF Document
  <2> QED
    BY <2>1, <2>2 DEF ReleaseAt
<1>1. CASE op \in Advances /\ op.kind = "ADVANCE"
  <2> DEFINE new == [d EXCEPT !.revision = @ + 1, !.at = TargetAt(d, op), !.state = Moved(d, op.target)]
  <2>1. Applied(op, d) = new
    BY <1>1 DEF Applied
  <2>2. TargetAt(d, op) \in Nat /\ TargetAt(d, op) >= d.at
    BY <1>1, TargetHours DEF Allowed
  <2>3. \/ Moved(d, op.target) = d.state
        \/ d.state = "SCHEDULED" /\ Moved(d, op.target) = "AWAITING_CONFIRMATIONS"
        \/ /\ d.state = "RELEASE_PENDING" /\ Moved(d, op.target) = "PUBLISH_LOCKED"
           /\ TargetAt(d, op) = ReleaseAt(d)
        \/ d.state = "PUBLISH_LOCKED" /\ Moved(d, op.target) = "PUBLISHED"
    BY <1>1, TargetHours DEF Moved
  <2>4. new \in Document
    BY <1>0, <2>2, <2>3 DEF Document
  <2>5. /\ new.decisions = d.decisions /\ new.state = Moved(d, op.target)
        /\ new.revision = d.revision + 1 /\ new.creation = d.creation
        /\ new.at = TargetAt(d, op) /\ ReleaseAt(new) = ReleaseAt(d)
    BY DEF Document, ReleaseAt
  <2>6. Approved(new) = Approved(d)
    BY <2>5 DEF Approved
  <2> HIDE DEF new
  <2>7. DueDocument(new)
    BY <1>0, <2>2, <2>3, <2>5, <2>6 DEF DueDocument
  <2> QED
    BY <2>1, <2>4, <2>5, <2>7
<1>2. CASE op \in Decisions /\ op.kind = "DECIDE"
  <2>1. /\ op.contact \in Contacts /\ op.decision \in {"ALIVE", "DEATH_LIKELY"}
        /\ d.state = "AWAITING_CONFIRMATIONS"
        /\ Applied(op, d) = Decided(d, op.contact, op.decision)
    BY <1>2 DEF Decisions, Allowed, Applied
  <2> QED
    BY <2>1, DecidedIsDue
<1>3. CASE op.kind \in {"CANCEL", "LOCK", "FINALIZE"}
  <2> DEFINE state == IF op.kind = "CANCEL" THEN "CANCELLED_OWNER"
                      ELSE IF op.kind = "LOCK" THEN "PUBLISH_LOCKED" ELSE "PUBLISHED"
             new == [d EXCEPT !.revision = @ + 1, !.state = state]
  <2>1. Applied(op, d) = new
    BY <1>3 DEF Applied
  <2>2. \/ op.kind = "CANCEL" /\ d.state = "RELEASE_PENDING" /\ state = "CANCELLED_OWNER"
        \/ /\ op.kind = "LOCK" /\ d.state = "RELEASE_PENDING" /\ d.at >= ReleaseAt(d)
           /\ state = "PUBLISH_LOCKED"
        \/ op.kind = "FINALIZE" /\ d.state = "PUBLISH_LOCKED" /\ state = "PUBLISHED"
    BY <1>3 DEF Allowed
  <2>3. new \in Document
    BY <1>0, <2>2 DEF Document
  <2>4. /\ new.decisions = d.decisions /\ new.state = state
        /\ new.revision = d.revision + 1 /\ new.creation = d.creation
        /\ new.at = d.at /\ ReleaseAt(new) = ReleaseAt(d)
    BY DEF Document, ReleaseAt
  <2>5. Approved(new) = Approved(d)
    BY <2>4 DEF Approved
  <2> HIDE DEF new
  <2>6. DueDocument(new)
    BY <2>2, <2>4, <2>5 DEF DueDocument
  <2> QED
    BY <2>1, <2>3, <2>4, <2>6
<1> QED
  BY <1>1, <1>2, <1>3, Kinds

-----------------------------------------------------------------------------
(* The steps *)

LEMMA SimulationInitInv == SimulationInit => SimulationInv
  BY SimulationAssumption DEF SimulationInit, SimulationInv, SimulationTypeOK, RequestInv, SnapshotInv

\* None is no document, Idle no request at work.
LEMMA NoDocument == None \notin Document /\ Idle \notin Working
<1>1. None.creation = 0 /\ \A d \in Document : d.creation # 0
  BY DEF None, Document
<1>2. Idle.at = "IDLE" /\ \A w \in Working : w.at # "IDLE"
  BY DEF Idle, Working
<1> QED
  BY <1>1, <1>2

LEMMA CreateInv ==
    ASSUME SimulationInv, NEW q \in Requests, NEW start \in Starts, CreateSimulation(q, start)
    PROVE  SimulationInv'
<1> DEFINE new == [creation |-> creations + 1, revision |-> 0, start |-> start, at |-> start,
                   state |-> "SCHEDULED", decisions |-> [c \in Contacts |-> "NONE"]]
           work == [at |-> "AUDIT", op |-> [kind |-> "CREATE"], seen |-> new]
<1>1. /\ scenario' = new /\ creations' = creations + 1
      /\ requests' = [requests EXCEPT ![q] = work]
      /\ creations \in 0..MaxCreations /\ creations < MaxCreations
      /\ results' = results
  BY DEF CreateSimulation, SimulationInv, SimulationTypeOK
<1>2. start \in Nat /\ creations + 1 \in 1..MaxCreations /\ 0 \in 0..MaxRevision
  BY <1>1, SimulationAssumption
<1>3. new \in Document
  BY <1>2 DEF Document
<1>4. /\ new.state = "SCHEDULED" /\ new.creation = creations + 1 /\ new.revision = 0
      /\ \A c \in Contacts : new.decisions[c] = "NONE"
  OBVIOUS
<1> HIDE DEF new
<1>5. work \in Working /\ work.seen = new /\ work.at = "AUDIT"
  BY <1>3 DEF Working, Operations
<1> HIDE DEF work
<1>6. SimulationTypeOK'
  BY <1>1, <1>2, <1>3, <1>5 DEF SimulationInv, SimulationTypeOK
<1>7. DueDocument(new)
  BY <1>4 DEF DueDocument
<1>8. ASSUME NEW p \in Requests
      PROVE  RequestInv(p)' /\ SnapshotInv(p)'
  <2>1. CASE p = q
    <3>1. requests'[p] = work
      BY <1>1, <2>1 DEF SimulationInv, SimulationTypeOK, work
    <3>2. RequestInv(p)'
      BY <1>1, <1>4, <1>5, <1>7, <3>1 DEF RequestInv
    <3>3. requests'[p].seen = scenario' /\ scenario'.revision = 0
      BY <1>1, <1>4, <1>5, <3>1
    <3>4. SnapshotInv(p)'
      BY <3>3 DEF SnapshotInv
    <3> QED
      BY <3>2, <3>4
  <2>2. CASE p # q
    <3>1. requests'[p] = requests[p]
      BY <1>1, <2>2 DEF SimulationInv, SimulationTypeOK
    <3>2. requests[p] # Idle => requests[p].seen.creation \in Nat
      BY DEF SimulationInv, SimulationTypeOK, Working, Document
    <3>3. RequestInv(p)
      BY DEF SimulationInv
    <3> QED
      BY <1>1, <1>4, <3>1, <3>2, <3>3 DEF RequestInv, SnapshotInv
  <2> QED
    BY <2>1, <2>2
<1> QED
  BY <1>1, <1>2, <1>4, <1>6, <1>7, <1>8 DEF SimulationInv

\* A request that begins has read what is stored.
LEMMA BeginInv ==
    ASSUME SimulationInv, NEW q \in Requests, scenario # None,
           NEW place \in {"LOOKUP", "SAVE", "REMOVE"}, NEW op \in Operations,
           requests' = [requests EXCEPT ![q] = [at |-> place, op |-> op, seen |-> scenario]],
           UNCHANGED <<scenario, creations, results>>,
           place = "LOOKUP" => op \in Advances,
           place = "SAVE" => op \in Commands /\ Allowed(op, scenario),
           place # "REMOVE" => scenario.revision < MaxRevision
    PROVE  SimulationInv'
<1> DEFINE work == [at |-> place, op |-> op, seen |-> scenario]
<1>1. scenario \in Document
  BY DEF SimulationInv, SimulationTypeOK
<1>2. work \in Working /\ work.seen = scenario /\ work.at = place /\ work.op = op
  BY <1>1 DEF Working
<1> HIDE DEF work
<1>3. requests' = [requests EXCEPT ![q] = work]
  BY DEF work
<1>4. SimulationTypeOK'
  BY <1>2, <1>3 DEF SimulationInv, SimulationTypeOK
<1>5. ASSUME NEW p \in Requests
      PROVE  RequestInv(p)' /\ SnapshotInv(p)'
  <2>1. CASE p = q
    <3>1. requests'[p] = work
      BY <1>3, <2>1 DEF SimulationInv, SimulationTypeOK
    <3>2. scenario.revision <= scenario.revision
      BY <1>1 DEF Document
    <3> QED
      BY <1>2, <3>1, <3>2 DEF RequestInv, SnapshotInv, SimulationInv
  <2>2. CASE p # q
    <3>1. requests'[p] = requests[p]
      BY <1>3, <2>2 DEF SimulationInv, SimulationTypeOK
    <3> QED
      BY <3>1 DEF RequestInv, SnapshotInv, SimulationInv
  <2> QED
    BY <2>1, <2>2
<1> QED
  BY <1>4, <1>5 DEF SimulationInv

\* A request that goes on keeps what it has read, and nothing is stored.
LEMMA GoOnInv ==
    ASSUME SimulationInv, NEW q \in Requests, NEW place \in {"SAVE", "RESULT"},
           requests[q] # Idle, Proceed(q, place), UNCHANGED <<scenario, creations, results>>,
           place = "SAVE" => /\ requests[q].at = "LOOKUP"
                          /\ Allowed(requests[q].op, requests[q].seen),
           place = "RESULT" => requests[q].op \in Advances
    PROVE  SimulationInv'
<1>1. requests[q] \in Working /\ requests \in [Requests -> Working \cup {Idle}]
  BY DEF SimulationInv, SimulationTypeOK
<1> DEFINE work == [requests[q] EXCEPT !.at = place]
<1>2. /\ work \in Working /\ work.at = place
      /\ work.op = requests[q].op /\ work.seen = requests[q].seen
  BY <1>1 DEF Working
<1>3. requests' = [requests EXCEPT ![q] = work]
  BY DEF Proceed
<1> HIDE DEF work
<1>4. SimulationTypeOK'
  BY <1>1, <1>2, <1>3 DEF SimulationInv, SimulationTypeOK
<1>5. ASSUME NEW p \in Requests
      PROVE  RequestInv(p)' /\ SnapshotInv(p)'
  <2>1. CASE p = q
    <3>1. requests'[p] = work /\ RequestInv(q) /\ SnapshotInv(q)
      BY <1>1, <1>3, <2>1 DEF SimulationInv
    <3> QED
      BY <1>2, <3>1, <2>1 DEF RequestInv, SnapshotInv, Commands
  <2>2. CASE p # q
    <3>1. requests'[p] = requests[p]
      BY <1>1, <1>3, <2>2
    <3> QED
      BY <3>1 DEF RequestInv, SnapshotInv, SimulationInv
  <2> QED
    BY <2>1, <2>2
<1> QED
  BY <1>4, <1>5 DEF SimulationInv

\* A request that ends leaves the others as they were.
LEMMA DoneInv ==
    ASSUME SimulationInv, NEW q \in Requests, Done(q), UNCHANGED <<scenario, creations>>,
           results' \in SUBSET Keys
    PROVE  SimulationInv'
<1>1. requests \in [Requests -> Working \cup {Idle}]
  BY DEF SimulationInv, SimulationTypeOK
<1>2. SimulationTypeOK'
  BY <1>1 DEF SimulationInv, SimulationTypeOK, Done
<1>3. ASSUME NEW p \in Requests
      PROVE  RequestInv(p)' /\ SnapshotInv(p)'
  <2>1. requests'[p] = requests[p] \/ requests'[p] = Idle
    BY <1>1 DEF Done
  <2> QED
    BY <2>1 DEF RequestInv, SnapshotInv, SimulationInv
<1> QED
  BY <1>2, <1>3 DEF SimulationInv

\* What a save stores was made of a document of the same revision.
LEMMA SavedDocument ==
    ASSUME SimulationInv, NEW q \in Requests, requests[q].at = "SAVE"
    PROVE  LET seen == requests[q].seen
               new == Applied(requests[q].op, seen)
           IN  /\ requests[q] \in Working
               /\ requests[q].op \in Commands /\ Allowed(requests[q].op, seen)
               /\ new \in Document /\ DueDocument(new)
               /\ new.creation = seen.creation /\ seen.creation <= creations
               /\ MaySave(new) => /\ seen.revision = scenario.revision
                                  /\ new.revision = scenario.revision + 1
<1> DEFINE seen == requests[q].seen
           new == Applied(requests[q].op, seen)
<1>1. requests[q] # Idle /\ requests[q] \in Working
  BY DEF SimulationInv, SimulationTypeOK, Idle
<1>2. seen \in Document
  BY <1>1 DEF Working
<1>3. /\ DueDocument(seen) /\ seen.creation <= creations /\ seen.revision < MaxRevision
      /\ requests[q].op \in Commands /\ Allowed(requests[q].op, seen)
  BY <1>1 DEF SimulationInv, RequestInv
<1> HIDE DEF seen
<1>4. /\ new \in Document /\ DueDocument(new)
      /\ new.revision = seen.revision + 1 /\ new.creation = seen.creation
  BY <1>2, <1>3, AppliedIsDue
<1> HIDE DEF new
<1>5. MaySave(new) => seen.revision = scenario.revision
  <2>1. scenario # None => scenario.revision \in Nat
    BY DEF SimulationInv, SimulationTypeOK, Document
  <2>2. seen.revision \in Nat
    BY <1>2 DEF Document
  <2> QED
    BY <1>4, <2>1, <2>2 DEF MaySave
<1>6. requests[q] \in Working
  BY <1>1
<1> QED
  BY <1>3, <1>4, <1>5, <1>6 DEF new, seen

LEMMA SaveInv ==
    ASSUME SimulationInv, NEW q \in Requests, Save(q)
    PROVE  SimulationInv'
<1> DEFINE new == Applied(requests[q].op, requests[q].seen)
<1>1. requests[q].at = "SAVE" /\ UNCHANGED <<creations, results>>
  BY DEF Save
<1>2. CASE MaySave(new) /\ scenario' = new
  <2>1. /\ new \in Document /\ DueDocument(new) /\ new.creation <= creations
        /\ new.revision = scenario.revision + 1
    BY <1>1, <1>2, SavedDocument
  <2>2. scenario # None /\ scenario.revision \in Nat
    BY <1>2 DEF MaySave, SimulationInv, SimulationTypeOK, Document
  <2> HIDE DEF new
  <2>3. requests[q] \in Working /\ requests \in [Requests -> Working \cup {Idle}]
    BY <1>1, SavedDocument DEF SimulationInv, SimulationTypeOK
  <2>4. Proceed(q, "AUDIT") \/ Done(q)
    BY DEF Save
  <2>5. PICK work \in Working \cup {Idle} :
            /\ requests' = [requests EXCEPT ![q] = work]
            /\ work # Idle => work.at = "AUDIT" /\ work.seen = requests[q].seen
    <3>1. [requests[q] EXCEPT !.at = "AUDIT"] \in Working
      BY <2>3 DEF Working
    <3> QED
      BY <2>3, <2>4, <3>1 DEF Proceed, Done, Working
  <2>6. SimulationTypeOK'
    BY <1>1, <1>2, <2>1, <2>3, <2>5 DEF SimulationInv, SimulationTypeOK
  <2>7. ASSUME NEW p \in Requests
        PROVE  RequestInv(p)' /\ SnapshotInv(p)'
    <3>1. RequestInv(p)'
      <4>1. CASE p = q
        <5>1. requests'[p] = work /\ RequestInv(q) /\ requests[q] # Idle
          BY <2>3, <2>5, <4>1, NoDocument DEF SimulationInv
        <5> QED
          BY <1>1, <2>5, <5>1 DEF RequestInv
      <4>2. CASE p # q
        <5>1. requests'[p] = requests[p] /\ RequestInv(p)
          BY <2>3, <2>5, <4>2 DEF SimulationInv
        <5> QED
          BY <1>1, <5>1 DEF RequestInv
      <4> QED
        BY <4>1, <4>2
    <3>2. requests'[p] = Idle \/ (requests[p] # Idle /\ requests'[p].seen = requests[p].seen)
      BY <2>3, <2>5, NoDocument
    <3>3. requests[p] # Idle => requests[p].seen.revision \in Nat
      BY <2>3 DEF Working, Document
    <3>4. SnapshotInv(p)
      BY DEF SimulationInv
    <3> QED
      BY <1>1, <1>2, <2>1, <2>2, <3>1, <3>2, <3>3, <3>4 DEF SnapshotInv
  <2> QED
    BY <1>1, <1>2, <2>1, <2>6, <2>7 DEF SimulationInv
<1>3. CASE Done(q) /\ UNCHANGED scenario
  BY <1>1, <1>3, DoneInv DEF SimulationInv, SimulationTypeOK
<1> QED
  BY <1>2, <1>3 DEF Save

LEMMA RemoveInv ==
    ASSUME SimulationInv, NEW q \in Requests, Remove(q)
    PROVE  SimulationInv'
<1>1. /\ scenario' = None /\ results' = {} /\ creations' = creations
      /\ requests[q].at = "REMOVE"
      /\ requests' = [requests EXCEPT ![q] = [requests[q] EXCEPT !.at = "AUDIT"]]
  BY DEF Remove, Proceed
<1>2. requests[q] \in Working /\ requests \in [Requests -> Working \cup {Idle}]
      /\ requests[q] # Idle
  BY <1>1 DEF SimulationInv, SimulationTypeOK, Idle
<1> DEFINE work == [requests[q] EXCEPT !.at = "AUDIT"]
<1>3. work \in Working /\ work.at = "AUDIT" /\ work.seen = requests[q].seen
  BY <1>2 DEF Working
<1>4. requests' = [requests EXCEPT ![q] = work]
  BY <1>1
<1> HIDE DEF work
<1>5. SimulationTypeOK'
  BY <1>1, <1>2, <1>3, <1>4 DEF SimulationInv, SimulationTypeOK
<1>6. ASSUME NEW p \in Requests
      PROVE  RequestInv(p)'
  <2>1. RequestInv(p) /\ RequestInv(q)
    BY DEF SimulationInv
  <2>2. CASE p = q
    BY <1>1, <1>2, <1>3, <1>4, <2>1, <2>2 DEF RequestInv
  <2>3. CASE p # q
    BY <1>1, <1>2, <1>4, <2>1, <2>3 DEF RequestInv
  <2> QED
    BY <2>2, <2>3
<1>7. \A p \in Requests : SnapshotInv(p)'
  BY <1>1 DEF SnapshotInv
<1> QED
  BY <1>1, <1>5, <1>6, <1>7 DEF SimulationInv

LEMMA SimulationStepInv ==
    ASSUME SimulationInv, NEW q \in Requests, Step(q)
    PROVE  SimulationInv'
<1>1. \A k \in {"LOOKUP", "SAVE", "REMOVE", "AUDIT", "RESULT"} : requests[q].at = k => requests[q] # Idle
  BY DEF Idle
<1>2. CASE Lookup(q)
  <2>1. CASE Done(q)
    BY <1>2, <2>1, DoneInv DEF Lookup, SimulationInv, SimulationTypeOK
  <2>2. CASE Proceed(q, "SAVE") /\ Allowed(requests[q].op, requests[q].seen)
    BY <1>1, <1>2, <2>2, GoOnInv DEF Lookup
  <2> QED
    BY <1>2, <2>1, <2>2 DEF Lookup
<1>3. CASE Save(q)
  BY <1>3, SaveInv
<1>4. CASE Remove(q)
  BY <1>4, RemoveInv
<1>5. CASE AppendAudit(q)
  <2>1. CASE Done(q)
    BY <1>5, <2>1, DoneInv DEF AppendAudit, SimulationInv, SimulationTypeOK
  <2>2. CASE Proceed(q, "RESULT") /\ requests[q].op.kind = "ADVANCE"
    <3>1. requests[q] \in Working
      BY <1>1, <1>5 DEF AppendAudit, SimulationInv, SimulationTypeOK
    <3>2. requests[q].op \in Advances
      BY <2>2, <3>1 DEF Working, Operations, Commands, Advances, Decisions
    <3> QED
      BY <1>1, <1>5, <2>2, <3>2, GoOnInv DEF AppendAudit
  <2> QED
    BY <1>5, <2>1, <2>2 DEF AppendAudit
<1>6. CASE WriteResult(q)
  <2>1. results' \in SUBSET Keys
    <3>1. requests[q].op \in Advances
      BY <1>1, <1>6 DEF WriteResult, SimulationInv, RequestInv
    <3> QED
      BY <1>6, <3>1 DEF WriteResult, SimulationInv, SimulationTypeOK, Advances
  <2> QED
    BY <1>6, <2>1, DoneInv DEF WriteResult
<1>7. CASE Die(q)
  BY <1>7, DoneInv DEF Die, SimulationInv, SimulationTypeOK
<1> QED
  BY <1>2, <1>3, <1>4, <1>5, <1>6, <1>7 DEF Step

LEMMA SimulationNextInv == SimulationInv /\ [SimulationNext]_simulationVars => SimulationInv'
<1> SUFFICES ASSUME SimulationInv, [SimulationNext]_simulationVars PROVE SimulationInv'
  OBVIOUS
<1>1. CASE UNCHANGED simulationVars
  BY <1>1 DEF simulationVars, SimulationInv, SimulationTypeOK, RequestInv, SnapshotInv
<1>2. ASSUME NEW q \in Requests, Receive(q)
      PROVE  SimulationInv'
  <2>1. ASSUME NEW start \in Starts, CreateSimulation(q, start)
        PROVE  SimulationInv'
    BY <2>1, CreateInv
  <2>2. ASSUME NEW op \in Advances, BeginAdvance(q, op)
        PROVE  SimulationInv'
    BY <2>2, BeginInv DEF BeginAdvance, Operations, Commands
  <2>3. ASSUME NEW op \in Commands \ Advances, BeginCommand(q, op)
        PROVE  SimulationInv'
    BY <2>3, BeginInv DEF BeginCommand, Operations
  <2>4. CASE BeginReset(q)
    <3>1. [kind |-> "RESET"] \in Operations
      BY DEF Operations
    <3> QED
      BY <2>4, <3>1, BeginInv DEF BeginReset
  <2> QED
    BY <1>2, <2>1, <2>2, <2>3, <2>4 DEF Receive
<1> QED
  BY <1>1, <1>2, SimulationStepInv DEF SimulationNext

-----------------------------------------------------------------------------
(* The theorems *)

LEMMA SimulationInvCorrect == SimulationSpec => []SimulationInv
  BY SimulationInitInv, SimulationNextInv, PTL DEF SimulationSpec

\* Every document stored or read has its type, in any number of creations.
THEOREM SimulationTypeCorrect == SimulationSpec => []SimulationTypeOK
<1>1. SimulationInv => SimulationTypeOK
  BY DEF SimulationInv
<1> QED
  BY <1>1, SimulationInvCorrect, PTL

\* Whatever documents requests have read and put back, also across a reset, a
\* synthetic release is pending only with the quorum and without a word that the
\* owner lives, and locked or published only after its deadline.
THEOREM SimulatedReleaseDue == SimulationSpec => []ReleaseIsDue
<1>1. SimulationInv => ReleaseIsDue
  BY DEF SimulationInv, ReleaseIsDue, DueDocument
<1> QED
  BY <1>1, SimulationInvCorrect, PTL

\* Whatever requests read at the same time, what is stored of a creation changes
\* as if one command after the other had found it, checked it and changed it:
\* the revision is enough to tell (PostgresSimulationStore.save).
THEOREM CommandsOneByOne == SimulationSpec => EveryChangeIsACommand
<1> DEFINE Change == /\ scenario # None /\ scenario' # None
                     /\ scenario' # scenario
                     /\ scenario'.creation = creations
                     => \E op \in Commands : Allowed(op, scenario) /\ scenario' = Applied(op, scenario)
<1>1. ASSUME SimulationInv, [SimulationNext]_simulationVars
      PROVE  Change
  <2> SUFFICES ASSUME scenario # None, scenario' # None, scenario' # scenario,
                      scenario'.creation = creations
               PROVE  \E op \in Commands : Allowed(op, scenario) /\ scenario' = Applied(op, scenario)
    OBVIOUS
  <2>1. PICK q \in Requests : Save(q)
    BY <1>1 DEF SimulationNext, Receive, Step, CreateSimulation, BeginAdvance, BeginCommand, BeginReset,
                Lookup, Remove, AppendAudit, WriteResult, Die, simulationVars
  <2> DEFINE new == Applied(requests[q].op, requests[q].seen)
  <2>2. requests[q].at = "SAVE" /\ MaySave(new) /\ scenario' = new
    BY <2>1 DEF Save
  <2>3. /\ requests[q].op \in Commands /\ Allowed(requests[q].op, requests[q].seen)
        /\ requests[q].seen.creation = creations
        /\ requests[q].seen.revision = scenario.revision
        /\ requests[q] \in Working
    BY <1>1, <2>2, SavedDocument
  <2>4. requests[q].seen = scenario
    BY <1>1, <2>3, NoDocument DEF SimulationInv, SnapshotInv
  <2> QED
    BY <2>2, <2>3, <2>4
<1>2. SimulationInv /\ [SimulationNext]_simulationVars => [Change]_simulationVars
  BY <1>1
<1> QED
  BY <1>2, SimulationInvCorrect, PTL DEF SimulationSpec, EveryChangeIsACommand

-----------------------------------------------------------------------------
(* Publication: the inductive invariant *)

\* An attempt that is past its commit has seen the row; past the copy, it has
\* seen the public object, which nobody deletes.
AttemptInv(j) ==
    /\ at[j] \in AfterCommit => publication
    /\ at[j] \in {"DELETE_SOURCE", "FINALIZE"} => public

\* Some attempt will still see to the staging object, if its job is delivered,
Cleaner(j) == at[j] \notin {"NONE", "FINALIZE"}

\* or is certain to: it has linked the object and will clean up, or the row of the
\* publication is there, so that any delivery promotes.
Keeper(j) ==
    \/ at[j] \in (Exposed \ {"WRITE"}) \cup (AfterCommit \ {"FINALIZE"})
    \/ at[j] = "QUEUED" /\ publication

PublicationInv ==
    /\ \A j \in Jobs : AttemptInv(j)
    /\ public => publication
    /\ released => publication /\ public
    /\ session = "CONSUMED" <=> released
    /\ staging /\ ~littered => \E j \in Jobs : Cleaner(j)
    /\ staging /\ ~littered /\ ~died => \E j \in Jobs : Keeper(j)
    /\ leftover => littered \/ died

\* Errors and failed deletions are counted up to the bound.
LEMMA FaultType ==
    ASSUME TypeOK, Fault
    PROVE  faults' \in 0..MaxFaults
  BY FaultsAssumption DEF TypeOK, Fault

\* Only the place of one attempt changes when it goes on.
LEMMA AttemptMoved ==
    ASSUME TypeOK, NEW j \in Jobs, NEW from, NEW to, Goto(j, from, to)
    PROVE  /\ at[j] = from /\ at'[j] = to
           /\ \A k \in Jobs : k # j => at'[k] = at[k]
  BY DEF TypeOK, Goto

\* The lock and the first job.
LEMMA PublicationInitInv ==
    ASSUME Init
    PROVE  TypeOK /\ PublicationInv
<1>1. PICK j \in Jobs : at = [k \in Jobs |-> IF k = j THEN "QUEUED" ELSE "NONE"]
  BY DEF Init
<1>2. at \in [Jobs -> {"NONE", "QUEUED"}]
  BY <1>1
<1>3. faults \in 0..MaxFaults
  BY FaultsAssumption DEF Init
<1>4. TypeOK
  BY <1>2, <1>3 DEF Init, TypeOK, Resting
<1>5. PublicationInv
  BY <1>2 DEF Init, PublicationInv, AttemptInv, AfterCommit
<1> QED
  BY <1>4, <1>5

-----------------------------------------------------------------------------
(* Publication: types *)

\* The step of any attempt keeps the types.
LEMMA AttemptType ==
    ASSUME TypeOK, NEW j \in Jobs, Attempt(j)
    PROVE  TypeOK'
<1> USE DEF TypeOK, Goto, Resting, Running, BeforeCommit, Writing, AfterCommit, rows, objects, remains
<1>1. CASE \/ Begin(j) \/ Decrypt(j) \/ LinkStaged(j) \/ UnlinkTemporary(j)
           \/ Inspect(j) \/ InspectMissing(j)
  BY <1>1 DEF Begin, Decrypt, LinkStaged, UnlinkTemporary, Inspect, InspectMissing
<1>2. CASE Commit(j) \/ CommitRefused(j)
  BY <1>2 DEF Commit, CommitRefused
<1>3. CASE Cleanup(j)
  BY <1>3, FaultType DEF Cleanup, StagingDeleted, Fault
<1>4. CASE Promote(j)
  BY <1>4, FaultType DEF Promote, StagingDeleted, Fault
<1>5. CASE Copy(j) \/ DeleteSource(j) \/ Finalize(j)
  BY <1>5 DEF Copy, DeleteSource, Finalize
<1> QED
  BY <1>1, <1>2, <1>3, <1>4, <1>5 DEF Attempt

\* So does every other step.
LEMMA PublicationStepType ==
    ASSUME TypeOK, [Next]_vars
    PROVE  TypeOK'
<1>1. CASE UNCHANGED vars
  BY <1>1 DEF TypeOK, vars, rows, objects, remains
<1>2. ASSUME NEW j \in Jobs, Attempt(j)
      PROVE  TypeOK'
  BY <1>2, AttemptType
<1>3. ASSUME NEW j \in Jobs, BookJob(j) \/ CommitReplyLost(j)
      PROVE  TypeOK'
  BY <1>3, FaultType
     DEF TypeOK, BookJob, CommitReplyLost, Goto, Fault, rows, objects, remains, Resting, Running
<1>4. ASSUME NEW j \in Jobs, Throw(j) \/ Crash(j)
      PROVE  TypeOK'
  BY <1>4, FaultType
     DEF TypeOK, Throw, Crash, TemporaryRemoved, Fault, rows, objects, remains, Resting, Running
<1>5. CASE SupersedePackage
  BY <1>5 DEF TypeOK, SupersedePackage, objects, remains
<1> QED
  BY <1>1, <1>2, <1>3, <1>4, <1>5 DEF Next

\* Rows, objects and attempts keep their types in every reachable state
\* (finalizePublication).
THEOREM PublicationTypeCorrect == Spec => []TypeOK
<1>1. Init => TypeOK
  BY PublicationInitInv
<1>2. TypeOK /\ [Next]_vars => TypeOK'
  BY PublicationStepType
<1> QED
  BY <1>1, <1>2, PTL DEF Spec

-----------------------------------------------------------------------------
(* Publication: the steps *)

\* What the invariant says of the staging object needs one attempt only: the one
\* that moves still sees to it, or has deleted it, or says it failed to, or had
\* nothing to do with it.
LEMMA CleanerKept ==
    ASSUME TypeOK, NEW j \in Jobs,
           staging /\ ~littered => \E k \in Jobs : Cleaner(k),
           \A k \in Jobs : k # j => at'[k] = at[k],
           \/ Cleaner(j)'
           \/ staging' = FALSE
           \/ littered' = TRUE
           \/ ~Cleaner(j) /\ staging' = staging /\ littered' = littered
    PROVE  staging' /\ ~littered' => \E k \in Jobs : Cleaner(k)'
  BY DEF Cleaner

LEMMA KeeperKept ==
    ASSUME TypeOK, NEW j \in Jobs,
           staging /\ ~littered /\ ~died => \E k \in Jobs : Keeper(k),
           \A k \in Jobs : k # j => at'[k] = at[k],
           publication => publication',
           died => died',
           \/ Keeper(j)'
           \/ staging' = FALSE
           \/ littered' = TRUE
           \/ died' = TRUE
           \/ ~Keeper(j) /\ staging' = staging /\ littered' = littered
    PROVE  staging' /\ ~littered' /\ ~died' => \E k \in Jobs : Keeper(k)'
  BY DEF Keeper, TypeOK

\* A running attempt keeps the invariant.
LEMMA AttemptStepInv ==
    ASSUME TypeOK, PublicationInv, NEW j \in Jobs, Attempt(j)
    PROVE  PublicationInv'
<1> DEFINE Seen == staging /\ ~littered => \E k \in Jobs : Cleaner(k)
           Kept == staging /\ ~littered /\ ~died => \E k \in Jobs : Keeper(k)
<1> USE DEF AttemptInv, AfterCommit
<1>0. /\ \A k \in Jobs : AttemptInv(k)
      /\ Seen /\ Kept
      /\ leftover => littered \/ died
  BY DEF PublicationInv
<1>1. CASE Begin(j)
  <2>1. /\ at[j] = "QUEUED"
        /\ \/ at'[j] = "PROMOTE" /\ publication
           \/ at'[j] = "DECRYPT" /\ ~publication
        /\ \A k \in Jobs : k # j => at'[k] = at[k]
        /\ UNCHANGED <<rows, objects>>
    BY <1>1, AttemptMoved DEF Begin
  <2>2. Cleaner(j)' /\ (Keeper(j)' \/ ~Keeper(j))
    BY <2>1 DEF Cleaner, Keeper, Exposed, Writing
  <2>3. Seen' /\ Kept'
    BY <1>0, <2>1, <2>2, CleanerKept, KeeperKept DEF rows, objects, remains
  <2> HIDE DEF Seen, Kept
  <2> QED
    BY <1>0, <2>1, <2>3 DEF PublicationInv, rows, objects, remains, Seen, Kept
<1>2. CASE Decrypt(j) \/ UnlinkTemporary(j) \/ Inspect(j) \/ InspectMissing(j) \/ CommitRefused(j)
  <2>1. /\ \/ at[j] = "DECRYPT" /\ at'[j] = "WRITE"
           \/ at[j] \in {"UNLINK", "INSPECT", "COMMIT"} /\ at'[j] \in {"INSPECT", "COMMIT", "CLEANUP"}
        /\ \A k \in Jobs : k # j => at'[k] = at[k]
        /\ UNCHANGED <<rows, objects>>
    BY <1>2, AttemptMoved DEF Decrypt, UnlinkTemporary, Inspect, InspectMissing, CommitRefused
  <2>2. Cleaner(j)' /\ (Keeper(j)' \/ ~Keeper(j))
    BY <2>1 DEF Cleaner, Keeper, Exposed, Writing
  <2>3. Seen' /\ Kept'
    BY <1>0, <2>1, <2>2, CleanerKept, KeeperKept DEF rows, objects, remains
  <2> HIDE DEF Seen, Kept
  <2> QED
    BY <1>0, <2>1, <2>3 DEF PublicationInv, rows, objects, remains, Seen, Kept
<1>3. CASE LinkStaged(j)
  <2>1. /\ at'[j] = "UNLINK"
        /\ \A k \in Jobs : k # j => at'[k] = at[k]
        /\ UNCHANGED <<rows, public, littered, remains>>
    BY <1>3, AttemptMoved DEF LinkStaged
  <2>2. Cleaner(j)' /\ Keeper(j)'
    BY <2>1 DEF Cleaner, Keeper, Exposed, Writing
  <2>3. Seen' /\ Kept'
    BY <2>2
  <2> HIDE DEF Seen, Kept
  <2> QED
    BY <1>0, <2>1, <2>3 DEF PublicationInv, rows, remains, Seen, Kept
<1>4. CASE Commit(j)
  <2>1. /\ at'[j] = "PROMOTE" /\ publication'
        /\ \A k \in Jobs : k # j => at'[k] = at[k]
        /\ UNCHANGED <<released, session, objects>>
    BY <1>4, AttemptMoved DEF Commit
  <2>2. Seen' /\ Kept'
    BY <2>1 DEF Cleaner, Keeper, Exposed, Writing
  <2> HIDE DEF Seen, Kept
  <2> QED
    BY <1>0, <2>1, <2>2 DEF PublicationInv, objects, remains, Seen, Kept
<1>5. CASE Cleanup(j)
  <2>1. /\ at'[j] = "QUEUED"
        /\ \A k \in Jobs : k # j => at'[k] = at[k]
        /\ UNCHANGED <<rows, public, remains>>
        /\ (staging' = FALSE /\ littered' = littered) \/ littered' = TRUE
    BY <1>5, AttemptMoved DEF Cleanup, StagingDeleted
  <2>2. Seen' /\ Kept'
    BY <2>1
  <2> HIDE DEF Seen, Kept
  <2> QED
    BY <1>0, <2>1, <2>2 DEF PublicationInv, rows, remains, Seen, Kept
<1>6. CASE Promote(j)
  <2>1. /\ at[j] = "PROMOTE" /\ publication
        /\ \/ /\ at'[j] = "FINALIZE" /\ public
              /\ (staging' = FALSE /\ littered' = littered) \/ littered' = TRUE
           \/ at'[j] \in {"COPY", "QUEUED"} /\ UNCHANGED <<staging, littered>>
        /\ \A k \in Jobs : k # j => at'[k] = at[k]
        /\ UNCHANGED <<rows, public, remains>>
    BY <1>0, <1>6, AttemptMoved DEF Promote, StagingDeleted
  <2>2. Seen' /\ Kept'
    BY <2>1 DEF Cleaner, Keeper, rows
  <2> HIDE DEF Seen, Kept
  <2> QED
    BY <1>0, <2>1, <2>2 DEF PublicationInv, rows, remains, Seen, Kept
<1>7. CASE Copy(j)
  <2>1. /\ at[j] = "COPY" /\ publication
        /\ \/ at'[j] = "DELETE_SOURCE" /\ public'
           \/ at'[j] = "QUEUED" /\ public' = public
        /\ \A k \in Jobs : k # j => at'[k] = at[k]
        /\ UNCHANGED <<rows, staging, littered, remains>>
    BY <1>0, <1>7, AttemptMoved DEF Copy
  <2>2. Seen' /\ Kept'
    BY <2>1 DEF Cleaner, Keeper, rows
  <2> HIDE DEF Seen, Kept
  <2> QED
    BY <1>0, <2>1, <2>2 DEF PublicationInv, rows, remains, Seen, Kept
<1>8. CASE DeleteSource(j)
  <2>1. /\ at'[j] = "FINALIZE" /\ at[j] = "DELETE_SOURCE"
        /\ \A k \in Jobs : k # j => at'[k] = at[k]
        /\ staging' = FALSE /\ UNCHANGED <<rows, public, littered, remains>>
    BY <1>8, AttemptMoved DEF DeleteSource
  <2>2. Seen' /\ Kept'
    BY <2>1
  <2> HIDE DEF Seen, Kept
  <2> QED
    BY <1>0, <2>1, <2>2 DEF PublicationInv, rows, remains, Seen, Kept
<1>9. CASE Finalize(j)
  <2>1. /\ at'[j] = "NONE" /\ at[j] = "FINALIZE"
        /\ \A k \in Jobs : k # j => at'[k] = at[k]
        /\ UNCHANGED <<publication, objects>> /\ released' = TRUE /\ session' = "CONSUMED"
    BY <1>9, AttemptMoved DEF Finalize
  <2>2. ~Cleaner(j) /\ ~Keeper(j)
    BY <2>1 DEF Cleaner, Keeper, Exposed, Writing
  <2>3. Seen' /\ Kept'
    BY <1>0, <2>1, <2>2, CleanerKept, KeeperKept DEF objects, remains
  <2> HIDE DEF Seen, Kept
  <2> QED
    BY <1>0, <2>1, <2>3 DEF PublicationInv, objects, remains, Seen, Kept
<1> QED
  BY <1>1, <1>2, <1>3, <1>4, <1>5, <1>6, <1>7, <1>8, <1>9 DEF Attempt

\* An attempt that throws goes to a `finally' or, after the commit, back to the
\* queue, where the row makes it promote.
LEMMA ThrowInv ==
    ASSUME TypeOK, PublicationInv, NEW j \in Jobs, Throw(j)
    PROVE  PublicationInv'
<1> USE DEF AttemptInv
<1>1. \A k \in Jobs : k # j => at'[k] = at[k]
  BY DEF Throw, TypeOK
<1>2. UNCHANGED <<rows, public, staging, died>>
  BY DEF Throw, TemporaryRemoved, objects, remains
<1>3. /\ (leftover' = leftover /\ littered' = littered) \/ littered' = TRUE
      /\ leftover' => littered' \/ died'
  BY DEF Throw, TemporaryRemoved, objects, remains, PublicationInv
<1>4. /\ at'[j] \in {"CLEANUP", "QUEUED"}
      /\ at'[j] = "QUEUED" => publication
  BY DEF Throw, TypeOK, PublicationInv
<1>5. Cleaner(j)' /\ Keeper(j)'
  BY <1>2, <1>4 DEF Cleaner, Keeper, Exposed, Writing, rows
<1> QED
  BY <1>1, <1>2, <1>3, <1>4, <1>5 DEF PublicationInv, rows, AfterCommit

\* A worker that dies before its commit, with plaintext of its own, says so.
LEMMA CrashInv ==
    ASSUME TypeOK, PublicationInv, NEW j \in Jobs, Crash(j)
    PROVE  PublicationInv'
<1> USE DEF AttemptInv
<1>1. /\ at'[j] = "QUEUED"
      /\ \A k \in Jobs : k # j => at'[k] = at[k]
      /\ UNCHANGED <<rows, public, staging, littered>>
      /\ died' = (died \/ at[j] \in Exposed)
      /\ leftover' = (leftover \/ at[j] \in Writing)
  BY DEF Crash, TypeOK
<1>2. Cleaner(j)'
  BY <1>1 DEF Cleaner
<1>3. Keeper(j)' \/ died' = TRUE \/ ~Keeper(j)
  BY <1>1 DEF Keeper, Exposed, PublicationInv, AfterCommit, rows
<1>4. staging' /\ ~littered' /\ ~died' => \E k \in Jobs : Keeper(k)'
  BY <1>1, <1>3, KeeperKept DEF PublicationInv, rows
<1>5. leftover' => littered' \/ died'
  BY <1>1 DEF Exposed, PublicationInv
<1> QED
  BY <1>1, <1>2, <1>4, <1>5 DEF PublicationInv, rows, AfterCommit

\* Bookings, faults and the package of the owner keep it.
LEMMA PublicationStepInv ==
    ASSUME TypeOK, PublicationInv, [Next]_vars
    PROVE  PublicationInv'
<1> USE DEF AttemptInv, AfterCommit
<1>1. CASE UNCHANGED vars
  BY <1>1 DEF PublicationInv, Cleaner, Keeper, vars, rows, objects, remains
<1>2. ASSUME NEW j \in Jobs, Attempt(j)
      PROVE  PublicationInv'
  BY <1>2, AttemptStepInv
<1>3. ASSUME NEW j \in Jobs, BookJob(j)
      PROVE  PublicationInv'
  <2>1. /\ at[j] = "NONE" /\ at'[j] = "QUEUED"
        /\ \A k \in Jobs : k # j => at'[k] = at[k]
        /\ UNCHANGED <<rows, objects>>
    BY <1>3, AttemptMoved DEF BookJob
  <2>2. Cleaner(j)' /\ ~Keeper(j)
    BY <2>1 DEF Cleaner, Keeper, Exposed, Writing
  <2>3. staging' /\ ~littered' /\ ~died' => \E k \in Jobs : Keeper(k)'
    BY <2>1, <2>2, KeeperKept DEF PublicationInv, rows, objects, remains
  <2> QED
    BY <2>1, <2>2, <2>3 DEF PublicationInv, rows, objects, remains
<1>4. ASSUME NEW j \in Jobs, CommitReplyLost(j)
      PROVE  PublicationInv'
  <2>1. /\ at'[j] = "CLEANUP" /\ publication'
        /\ \A k \in Jobs : k # j => at'[k] = at[k]
        /\ UNCHANGED <<released, session, objects>>
    BY <1>4, AttemptMoved DEF CommitReplyLost
  <2>2. Cleaner(j)' /\ Keeper(j)'
    BY <2>1 DEF Cleaner, Keeper, Exposed
  <2> QED
    BY <2>1, <2>2 DEF PublicationInv, objects, remains
<1>5. ASSUME NEW j \in Jobs, Throw(j) \/ Crash(j)
      PROVE  PublicationInv'
  BY <1>5, ThrowInv, CrashInv
<1>6. CASE SupersedePackage
  BY <1>6 DEF SupersedePackage, PublicationInv, Cleaner, Keeper, objects, remains
<1> QED
  BY <1>1, <1>2, <1>3, <1>4, <1>5, <1>6 DEF Next

\* The invariant holds in every reachable state.
LEMMA PublicationInvCorrect == Spec => []PublicationInv
<1>1. Init => TypeOK /\ PublicationInv
  BY PublicationInitInv
<1>2. TypeOK /\ PublicationInv /\ [Next]_vars => TypeOK' /\ PublicationInv'
  BY PublicationStepType, PublicationStepInv
<1> QED
  BY <1>1, <1>2, PTL DEF Spec

-----------------------------------------------------------------------------
(* What follows *)

\* Nothing is public before its row (promoteCommittedPublication), a released
\* workflow has its public object, and its key is gone exactly then
\* (finalizeCommittedPublication).
THEOREM ReleasedServed == Spec => []ReleasedIsServed
<1>1. PublicationInv => ReleasedIsServed
  BY DEF PublicationInv, ReleasedIsServed
<1> QED
  BY <1>1, PublicationInvCorrect, PTL

\* When every job is done the staging object is gone, unless the store refused a
\* deletion; when no attempt can do anything more, nor is a temporary file of
\* storage.put left, unless a worker died that had one to remove (the `finally' of
\* finalizePublication and of FilesystemStorage.put).
THEOREM StagingEmptied == Spec => []NoPlaintextLeft
<1>1. PublicationInv => NoPlaintextLeft
  <2> SUFFICES ASSUME PublicationInv PROVE NoPlaintextLeft
    OBVIOUS
  <2>1. (\A j \in Jobs : at[j] = "NONE") /\ ~littered => ~staging
    BY DEF PublicationInv, Cleaner
  <2>2. ASSUME \A j \in Jobs : AtRest(j) PROVE \A j \in Jobs : ~Keeper(j)
    BY <2>2 DEF AtRest, Keeper, Exposed, Writing, AfterCommit
  <2> QED
    BY <2>1, <2>2 DEF PublicationInv, NoPlaintextLeft
<1> QED
  BY <1>1, PublicationInvCorrect, PTL

=============================================================================
