----------------------- MODULE PasswordRecoveryProofs -----------------------
(***************************************************************************)
(* Machine-checked facts about module PasswordRecovery, for every roster,  *)
(* every validity of links, codes and sessions, and every bound: what a    *)
(* reset needs, that the handlers keep the abstract promise of a recovery, *)
(* that they follow the reducer of the domain package, and that the expiry *)
(* of a recovery stays booked.                                             *)
(***************************************************************************)
EXTENDS PasswordRecoveryReducers, FiniteSetTheorems, TLAPS

-----------------------------------------------------------------------------
(* Sizes of rosters *)

\* Every set of approvals is finite and has a size.
LEMMA ApprovalsFinite ==
    ASSUME NEW S \in SUBSET Contacts
    PROVE  IsFiniteSet(S) /\ Cardinality(S) \in Nat
  BY RosterAssumption, FS_Subset, FS_CardinalityType

\* A new approval counts one.
LEMMA ApprovalCounts ==
    ASSUME NEW S \in SUBSET Contacts, NEW c \in Contacts, c \notin S
    PROVE  Cardinality(S \cup {c}) = Cardinality(S) + 1
  BY ApprovalsFinite, FS_AddElement

\* The quorum of the roster is at least one.
LEMMA RequiredType == Required \in Nat \ {0}
<1>1. Cardinality(Contacts) \in Nat
  BY ApprovalsFinite
<1>2. Cardinality(Contacts) \div 2 \in Nat
  BY <1>1
<1> QED
  BY <1>2 DEF Required

-----------------------------------------------------------------------------
(* Types *)

\* Writing fields of a row, a challenge or a session keeps its type.
LEMMA FieldTypes ==
    /\ \A r \in Row : \A s \in States : [r EXCEPT !.state = s] \in Row
    /\ \A r \in Row : \A n \in Nat : [r EXCEPT !.left = n] \in Row
    /\ \A r \in Link : \A n \in Nat : [r EXCEPT !.left = n] \in Link
    /\ \A r \in Challenge : \A n \in Nat : [r EXCEPT !.left = n] \in Challenge
    /\ \A r \in Rewrap : \A n \in Nat : [r EXCEPT !.left = n] \in Rewrap
  BY DEF Row, Link, Challenge, Rewrap

\* A revoked challenge is one.
LEMMA RevokedType == \A ch \in Challenge : Revoked(ch) \in Challenge
  BY DEF Revoked, Challenge

\* Destroying the material of a recovery keeps the types.
LEMMA DestroyedType ==
    ASSUME TypeOK, NEW w \in Recoveries, Destroyed(w)
    PROVE  /\ fragments' \in [Recoveries -> [Contacts -> {"NONE", "VALIDATED", "DESTROYED"}]]
           /\ secret' \in [Recoveries -> {"NONE", "ACTIVE", "DESTROYED"}]
           /\ challenge' \in [Recoveries -> Challenge]
           /\ rewrap' \in [Recoveries -> Rewrap]
<1>1. fragments' \in [Recoveries -> [Contacts -> {"NONE", "VALIDATED", "DESTROYED"}]]
  BY DEF TypeOK, Destroyed
<1>2. secret' \in [Recoveries -> {"NONE", "ACTIVE", "DESTROYED"}]
  BY DEF TypeOK, Destroyed
<1>3. challenge' \in [Recoveries -> Challenge]
  BY RevokedType DEF TypeOK, Destroyed
<1>4. rewrap' \in [Recoveries -> Rewrap]
  BY DEF TypeOK, Destroyed, Rewrap
<1> QED
  BY <1>1, <1>2, <1>3, <1>4

\* An active recovery ends with its types kept.
LEMMA EndedType ==
    ASSUME TypeOK, NEW w \in Recoveries, NEW s \in States, Ended(w, s)
    PROVE  /\ rows' \in [Recoveries -> Row]
           /\ fragments' \in [Recoveries -> [Contacts -> {"NONE", "VALIDATED", "DESTROYED"}]]
           /\ secret' \in [Recoveries -> {"NONE", "ACTIVE", "DESTROYED"}]
           /\ challenge' \in [Recoveries -> Challenge]
           /\ rewrap' \in [Recoveries -> Rewrap]
<1>1. rows' \in [Recoveries -> Row]
  BY FieldTypes DEF TypeOK, Ended, Row
<1>2. Destroyed(w)
  BY DEF Ended
<1> QED
  BY <1>1, <1>2, DestroyedType

\* Cancelling the active recovery, if any, keeps the types.
LEMMA CancelType ==
    ASSUME TypeOK, CancelActiveRecovery
    PROVE  /\ rows' \in [Recoveries -> Row]
           /\ fragments' \in [Recoveries -> [Contacts -> {"NONE", "VALIDATED", "DESTROYED"}]]
           /\ secret' \in [Recoveries -> {"NONE", "ACTIVE", "DESTROYED"}]
           /\ challenge' \in [Recoveries -> Challenge]
           /\ rewrap' \in [Recoveries -> Rewrap]
<1>1. "CANCELLED" \in States
  BY DEF States
<1>2. CASE \E w \in Recoveries : Ended(w, "CANCELLED")
  <2>1. PICK w \in Recoveries : Ended(w, "CANCELLED")
    BY <1>2
  <2> QED
    BY <1>1, <2>1, EndedType
<1>3. CASE UNCHANGED <<rows, materialVars>>
  BY <1>3 DEF TypeOK, materialVars
<1> QED
  BY <1>2, <1>3 DEF CancelActiveRecovery

\* The initial state is well typed.
LEMMA TypeInit == Init => TypeOK
<1> SUFFICES ASSUME Init PROVE TypeOK
  OBVIOUS
<1>1. links \in [Links -> Link]
  BY DEF Init, Link
<1>2. rows \in [Recoveries -> Row]
  BY DEF Init, Row, States
<1>3. challenge \in [Recoveries -> Challenge]
  BY TimesAssumption DEF Init, Challenge
<1>4. rewrap \in [Recoveries -> Rewrap]
  BY DEF Init, Rewrap
<1>5. fragments \in [Recoveries -> [Contacts -> {"NONE", "VALIDATED", "DESTROYED"}]]
  BY DEF Init
<1>6. secret \in [Recoveries -> {"NONE", "ACTIVE", "DESTROYED"}]
  BY DEF Init
<1>7. givenUp \in 0..MaxGivenUp
  BY TimesAssumption DEF Init
<1>8. /\ death \in BOOLEAN /\ held \in SUBSET Recoveries /\ unsent \in SUBSET Recoveries
      /\ mailed \in SUBSET Recoveries /\ jobs \in SUBSET Jobs
      /\ scanned \in SUBSET (Recoveries \X Nat) /\ credential \in Nat
  BY Zenon, SMT DEF Init
<1> QED
  BY <1>1, <1>2, <1>3, <1>4, <1>5, <1>6, <1>7, <1>8 DEF TypeOK

\* A code that may still be tried has a try left.
CodesCount ==
    \A w \in Recoveries : challenge[w].code = "LIVE" => challenge[w].attempts < MaxAttempts

\* Every step keeps the types.
LEMMA TypeStep == TypeOK /\ CodesCount /\ [Next]_vars => TypeOK'
<1> SUFFICES ASSUME TypeOK, CodesCount, [Next]_vars PROVE TypeOK'
  OBVIOUS
<1> USE DEF materialVars, mailVars, jobVars
<1>1. ASSUME NEW l \in Links, RequestRecovery(l) PROVE TypeOK'
  BY <1>1, TimesAssumption DEF TypeOK, RequestRecovery, Link
<1>2. ASSUME NEW w \in Recoveries, BookResetMail(w) PROVE TypeOK'
  BY <1>2 DEF TypeOK, BookResetMail
<1>3. CASE CrashApi
  BY <1>3 DEF TypeOK, CrashApi
<1>4. ASSUME NEW l \in Links, NEW w \in Recoveries, StartRecovery(l, w) PROVE TypeOK'
  <2>1. links' \in [Links -> Link]
    BY <1>4 DEF TypeOK, StartRecovery, Link
  <2>2. rows' \in [Recoveries -> Row]
    BY <1>4, TimesAssumption DEF TypeOK, StartRecovery, Row, States, ActiveStates
  <2>3. jobs' \in SUBSET Jobs
    BY <1>4 DEF TypeOK, StartRecovery, Jobs
  <2> QED
    BY <1>4, <2>1, <2>2, <2>3 DEF TypeOK, StartRecovery
<1>5. ASSUME NEW w \in Recoveries, NEW c \in Contacts, ApproveRecovery(w, c) PROVE TypeOK'
  <2>1. rows' \in [Recoveries -> Row]
    BY <1>5 DEF TypeOK, ApproveRecovery, Row
  <2> QED
    BY <1>5, <2>1 DEF TypeOK, ApproveRecovery
<1>6. ASSUME NEW w \in Recoveries, NEW c \in Contacts, ReachQuorum(w, c) PROVE TypeOK'
  <2>1. rows' \in [Recoveries -> Row]
    BY <1>6 DEF TypeOK, ReachQuorum, Row, States, ActiveStates
  <2>2. challenge' \in [Recoveries -> Challenge]
    BY <1>6, TimesAssumption DEF TypeOK, ReachQuorum, Challenge
  <2>3. fragments' \in [Recoveries -> [Contacts -> {"NONE", "VALIDATED", "DESTROYED"}]]
    BY <1>6 DEF TypeOK, ReachQuorum
  <2> QED
    BY <1>6, <2>1, <2>2, <2>3 DEF TypeOK, ReachQuorum
<1>7. ASSUME NEW w \in Recoveries, TryWrongCode(w) PROVE TypeOK'
  <2>1. challenge[w] \in Challenge /\ challenge[w].attempts < MaxAttempts
    BY <1>7 DEF TypeOK, CodesCount, TryWrongCode, ChallengeOpen
  <2>2. challenge[w].attempts + 1 \in 0..MaxAttempts
    BY <2>1, TimesAssumption DEF Challenge
  <2>3. challenge' \in [Recoveries -> Challenge]
    BY <1>7, <2>1, <2>2 DEF TypeOK, TryWrongCode, Challenge
  <2> QED
    BY <1>7, <2>3 DEF TypeOK, TryWrongCode
<1>8. ASSUME NEW w \in Recoveries, CreateRewrapSession(w) PROVE TypeOK'
  <2>1. rewrap' \in [Recoveries -> Rewrap]
    BY <1>8, TimesAssumption DEF TypeOK, CreateRewrapSession, Rewrap
  <2>2. challenge' \in [Recoveries -> Challenge]
    BY <1>8 DEF TypeOK, CreateRewrapSession, Challenge
  <2> QED
    BY <1>8, <2>1, <2>2 DEF TypeOK, CreateRewrapSession
<1>9. ASSUME NEW w \in Recoveries, CompletePasswordReset(w) PROVE TypeOK'
  <2>1. rows' \in [Recoveries -> Row]
    BY <1>9 DEF TypeOK, CompletePasswordReset, Row, States
  <2>2. challenge' \in [Recoveries -> Challenge]
    BY <1>9, RevokedType DEF TypeOK, CompletePasswordReset
  <2>3. rewrap' \in [Recoveries -> Rewrap]
    BY <1>9 DEF TypeOK, CompletePasswordReset, Rewrap
  <2>4. fragments' \in [Recoveries -> [Contacts -> {"NONE", "VALIDATED", "DESTROYED"}]]
    BY <1>9 DEF TypeOK, CompletePasswordReset
  <2> QED
    BY <1>9, <2>1, <2>2, <2>3, <2>4 DEF TypeOK, CompletePasswordReset
<1>10. ASSUME NEW w \in Recoveries, ReconcileRecoveries(w) PROVE TypeOK'
  <2>1. Version(w) \in Nat
    BY ApprovalsFinite DEF TypeOK, Version, Row
  <2>2. scanned' \in SUBSET (Recoveries \X Nat)
    BY <1>10, <2>1 DEF TypeOK, ReconcileRecoveries, ScanKey
  <2>3. jobs' \in SUBSET Jobs
    BY <1>10 DEF TypeOK, ReconcileRecoveries, Jobs
  <2> QED
    BY <1>10, <2>2, <2>3 DEF TypeOK, ReconcileRecoveries
<1>11. CASE AuthenticateOwner
  BY <1>11, CancelType DEF TypeOK, AuthenticateOwner
<1>12. CASE StartDeathWorkflow
  BY <1>12, CancelType DEF TypeOK, StartDeathWorkflow
<1>13. ASSUME NEW j \in Jobs, NEW w \in Recoveries, ExpireRecovery(j, w) PROVE TypeOK'
  <2>1. "EXPIRED" \in States
    BY DEF States
  <2> QED
    BY <1>13, <2>1, EndedType DEF TypeOK, ExpireRecovery
<1>14. ASSUME NEW j \in Jobs, NEW w \in Recoveries, ExpireRecoveryClosed(j, w) PROVE TypeOK'
  BY <1>14 DEF TypeOK, ExpireRecoveryClosed
<1>15. ASSUME NEW j \in Jobs, NEW w \in Recoveries, GiveUp(j, w) PROVE TypeOK'
  BY <1>15, TimesAssumption DEF TypeOK, GiveUp
<1>16. CASE Tick
  <2>1. \A n \in Nat : Elapsed(n) \in Nat
    BY DEF Elapsed
  <2>2. /\ \A l \in Links : links[l] \in Link /\ links[l].left \in Nat
        /\ \A w \in Recoveries : /\ rows[w] \in Row /\ rows[w].left \in Nat
                                 /\ challenge[w] \in Challenge /\ challenge[w].left \in Nat
                                 /\ rewrap[w] \in Rewrap /\ rewrap[w].left \in Nat
    BY DEF TypeOK, Link, Row, Challenge, Rewrap
  <2>3. links' \in [Links -> Link]
    BY <1>16, <2>1, <2>2, FieldTypes DEF Tick
  <2>4. rows' \in [Recoveries -> Row]
    BY <1>16, <2>1, <2>2, FieldTypes DEF Tick
  <2>5. challenge' \in [Recoveries -> Challenge]
    BY <1>16, <2>1, <2>2, FieldTypes DEF Tick
  <2>6. rewrap' \in [Recoveries -> Rewrap]
    BY <1>16, <2>1, <2>2, FieldTypes DEF Tick
  <2> QED
    BY <1>16, <2>3, <2>4, <2>5, <2>6 DEF TypeOK, Tick
<1>17. CASE UNCHANGED vars
  BY <1>17 DEF TypeOK, vars
<1> QED
  BY <1>1, <1>2, <1>3, <1>4, <1>5, <1>6, <1>7, <1>8, <1>9, <1>10, <1>11, <1>12,
     <1>13, <1>14, <1>15, <1>16, <1>17 DEF Next

-----------------------------------------------------------------------------
(* The stages of one recovery *)

\* What stage a recovery is in, told by its row, and what that stage allows.
Stage(w) ==
    /\ rows[w].state = "NONE" => rows[w].approvals = {}
    /\ rows[w].state \in {"NONE", "AWAITING_APPROVALS"} =>
            /\ secret[w] = "NONE"
            /\ rewrap[w].status = "NONE"
            /\ challenge[w].token = "NONE"
            /\ challenge[w].code = "NONE"
    /\ rows[w].state = "AWAITING_APPROVALS" => Cardinality(rows[w].approvals) < Required
    /\ rows[w].state = "REWRAP_PENDING" =>
            /\ Cardinality(rows[w].approvals) >= Required
            /\ secret[w] = "ACTIVE"
    /\ challenge[w].code = "LIVE" => challenge[w].attempts < MaxAttempts

\* The part of ResetNeedsQuorumAndMail and KeyMaterialOnlyWhileOpen that
\* speaks of one recovery.
Sound(w) ==
    /\ rewrap[w].status # "NONE" =>
            /\ Cardinality(rows[w].approvals) >= Required
            /\ w \in mailed
            /\ challenge[w].token = "CONSUMED"
            /\ challenge[w].code = "CONSUMED"
            /\ challenge[w].attempts < MaxAttempts
    /\ rows[w].state = "COMPLETED" => rewrap[w].status = "CONSUMED"
    /\ rows[w].state # "AWAITING_APPROVALS" =>
            \A c \in Contacts : fragments[w][c] # "VALIDATED"
    /\ rows[w].state # "REWRAP_PENDING" =>
            /\ secret[w] # "ACTIVE"
            /\ rewrap[w].status # "ACTIVE"
            /\ challenge[w].token # "LIVE"
            /\ challenge[w].code # "LIVE"

\* The inductive invariant
RecoveryInv ==
    /\ TypeOK
    /\ \A w \in Recoveries : Stage(w) /\ Sound(w)
    /\ OneRecovery

\* The inductive invariant says what the runs check.
LEMMA InvProperties ==
    RecoveryInv => ResetNeedsQuorumAndMail /\ KeyMaterialOnlyWhileOpen /\ OneRecovery /\ CodesCount
  BY DEF RecoveryInv, Stage, Sound, ResetNeedsQuorumAndMail, KeyMaterialOnlyWhileOpen, CodesCount

\* A recovery none of whose rows is written stays as it is.
LEMMA Untouched ==
    ASSUME NEW w \in Recoveries, Stage(w), Sound(w), mailed \subseteq mailed',
           rows'[w].state = rows[w].state, rows'[w].approvals = rows[w].approvals,
           fragments'[w] = fragments[w], secret'[w] = secret[w],
           challenge'[w].token = challenge[w].token, challenge'[w].code = challenge[w].code,
           challenge'[w].attempts = challenge[w].attempts,
           rewrap'[w].status = rewrap[w].status
    PROVE  Stage(w)' /\ Sound(w)'
  BY DEF Stage, Sound

\* A recovery whose material is destroyed and whose row is cancelled or
\* expired is sound, and so are all others.
LEMMA EndedSound ==
    ASSUME RecoveryInv, NEW w \in Recoveries, NEW s \in {"CANCELLED", "EXPIRED"}, Ended(w, s),
           UNCHANGED mailed
    PROVE  \A v \in Recoveries : Stage(v)' /\ Sound(v)'
<1> SUFFICES ASSUME NEW v \in Recoveries PROVE Stage(v)' /\ Sound(v)'
  OBVIOUS
<1>1. Stage(v) /\ Sound(v) /\ TypeOK
  BY DEF RecoveryInv
<1>2. CASE v # w
  BY <1>1, <1>2, Untouched DEF TypeOK, Ended, Destroyed
<1>3. CASE v = w
  <2>1. /\ rows[w] \in Row /\ challenge[w] \in Challenge /\ rewrap[w] \in Rewrap
        /\ secret[w] \in {"NONE", "ACTIVE", "DESTROYED"}
    BY DEF RecoveryInv, TypeOK
  <2>2. rows'[w].state = s /\ rows'[w].approvals = rows[w].approvals
    BY <2>1 DEF RecoveryInv, TypeOK, Ended, Row
  <2>3. secret'[w] # "ACTIVE" /\ \A c \in Contacts : fragments'[w][c] # "VALIDATED"
    BY <2>1 DEF RecoveryInv, TypeOK, Ended, Destroyed
  <2>4. challenge'[w] = Revoked(challenge[w])
    BY DEF RecoveryInv, TypeOK, Ended, Destroyed
  <2>5. rewrap'[w].status = IF rewrap[w].status = "ACTIVE" THEN "DESTROYED" ELSE rewrap[w].status
    BY DEF RecoveryInv, TypeOK, Ended, Destroyed
  <2>6. /\ challenge'[w].token # "LIVE" /\ challenge'[w].code # "LIVE"
        /\ challenge'[w].attempts = challenge[w].attempts
        /\ challenge[w].token = "CONSUMED" => challenge'[w].token = "CONSUMED"
        /\ challenge[w].code = "CONSUMED" => challenge'[w].code = "CONSUMED"
    BY <2>4 DEF Revoked
  <2> QED
    BY <1>1, <1>3, <2>2, <2>3, <2>5, <2>6 DEF Stage, Sound
<1> QED
  BY <1>2, <1>3

\* Nothing is active once the active recovery has ended.
LEMMA EndedAlone ==
    ASSUME RecoveryInv, NEW w \in Recoveries, NEW s \in {"CANCELLED", "EXPIRED", "COMPLETED"},
           Active(w), rows' = [rows EXCEPT ![w].state = s]
    PROVE  NoActiveRecovery'
<1>1. \A v \in Recoveries : v # w => ~Active(v)'
  BY DEF RecoveryInv, TypeOK, OneRecovery, Active
<1>2. ~Active(w)'
  BY DEF RecoveryInv, TypeOK, Active, ActiveStates, Row
<1> QED
  BY <1>1, <1>2 DEF NoActiveRecovery

\* Cancelling leaves nothing active and everything sound.
LEMMA CancelSound ==
    ASSUME RecoveryInv, CancelActiveRecovery, UNCHANGED mailed
    PROVE  NoActiveRecovery' /\ \A v \in Recoveries : Stage(v)' /\ Sound(v)'
<1>1. CASE \E w \in Recoveries : Ended(w, "CANCELLED")
  <2>1. PICK w \in Recoveries : Ended(w, "CANCELLED")
    BY <1>1
  <2>2. NoActiveRecovery'
    BY <2>1, EndedAlone DEF Ended
  <2> QED
    BY <2>1, <2>2, EndedSound
<1>2. CASE NoActiveRecovery /\ UNCHANGED <<rows, materialVars>>
  <2>1. NoActiveRecovery'
    BY <1>2 DEF NoActiveRecovery, Active
  <2>2. \A v \in Recoveries : Stage(v)' /\ Sound(v)'
    BY <1>2, Untouched DEF RecoveryInv, materialVars
  <2> QED
    BY <2>1, <2>2
<1> QED
  BY <1>1, <1>2 DEF CancelActiveRecovery

\* The inductive invariant holds initially.
LEMMA InvInit == Init => RecoveryInv
<1> SUFFICES ASSUME Init PROVE RecoveryInv
  OBVIOUS
<1>1. \A w \in Recoveries : Stage(w) /\ Sound(w)
  BY DEF Init, Stage, Sound
<1>2. OneRecovery
  BY DEF Init, OneRecovery, NoActiveRecovery, Active, ActiveStates
<1> QED
  BY <1>1, <1>2, TypeInit DEF RecoveryInv

\* Only the rows' states matter to OneRecovery.
LEMMA SameStates ==
    ASSUME OneRecovery, UNCHANGED death,
           \A v \in Recoveries : Active(v)' => Active(v)
    PROVE  OneRecovery'
  BY DEF OneRecovery, NoActiveRecovery

\* A step that writes no recovery keeps all of them sound.
LEMMA FrameSound ==
    ASSUME RecoveryInv, UNCHANGED <<death, fragments, secret>>, mailed \subseteq mailed',
           \A v \in Recoveries :
                /\ rows'[v].state = rows[v].state /\ rows'[v].approvals = rows[v].approvals
                /\ challenge'[v].token = challenge[v].token
                /\ challenge'[v].code = challenge[v].code
                /\ challenge'[v].attempts = challenge[v].attempts
                /\ rewrap'[v].status = rewrap[v].status
    PROVE  (\A v \in Recoveries : Stage(v) /\ Sound(v))' /\ OneRecovery'
<1>1. ASSUME NEW v \in Recoveries PROVE Stage(v)' /\ Sound(v)'
  BY Untouched DEF RecoveryInv
<1>2. OneRecovery'
  BY SameStates DEF RecoveryInv, Active
<1> QED
  BY <1>1, <1>2

\* Every step of one recovery keeps it and all others sound.
LEMMA InvStep == RecoveryInv /\ [Next]_vars => RecoveryInv'
<1> SUFFICES ASSUME RecoveryInv, [Next]_vars PROVE RecoveryInv'
  OBVIOUS
<1> DEFINE AllSound == \A v \in Recoveries : Stage(v) /\ Sound(v)
<1>0. TypeOK' /\ TypeOK /\ AllSound /\ OneRecovery
  BY InvProperties, TypeStep DEF RecoveryInv
<1> SUFFICES AllSound' /\ OneRecovery'
  BY <1>0 DEF RecoveryInv
<1>1. ASSUME NEW l \in Links, RequestRecovery(l) PROVE AllSound' /\ OneRecovery'
  BY <1>1, FrameSound DEF RequestRecovery, materialVars, mailVars
<1>2. ASSUME NEW w \in Recoveries, BookResetMail(w) PROVE AllSound' /\ OneRecovery'
  BY <1>2, FrameSound DEF BookResetMail, materialVars
<1>3. CASE CrashApi
  BY <1>3, FrameSound DEF CrashApi, materialVars
<1>4. ASSUME NEW l \in Links, NEW w \in Recoveries, StartRecovery(l, w)
      PROVE  AllSound' /\ OneRecovery'
  <2>1. /\ rows[w].state = "NONE" /\ rows'[w].state = "AWAITING_APPROVALS"
        /\ rows'[w].approvals = {} /\ ~death' /\ NoActiveRecovery
        /\ \A v \in Recoveries : v # w => rows'[v] = rows[v]
    BY <1>0, <1>4 DEF TypeOK, StartRecovery
  <2>2. \A v \in Recoveries : v # w => Stage(v)' /\ Sound(v)'
    BY <1>0, <1>4, <2>1, Untouched DEF StartRecovery, materialVars, mailVars
  <2>3. Cardinality({}) < Required
    BY FS_EmptySet, RequiredType
  <2>4. Stage(w)' /\ Sound(w)'
    BY <1>0, <1>4, <2>1, <2>3 DEF Stage, Sound, StartRecovery, materialVars, mailVars
  <2>5. OneRecovery'
    BY <2>1 DEF OneRecovery, NoActiveRecovery, Active
  <2> QED
    BY <2>2, <2>4, <2>5
<1>5. ASSUME NEW w \in Recoveries, NEW c \in Contacts, ApproveRecovery(w, c)
      PROVE  AllSound' /\ OneRecovery'
  <2>1. /\ rows[w].state = "AWAITING_APPROVALS" /\ rows'[w].state = "AWAITING_APPROVALS"
        /\ rows'[w].approvals = rows[w].approvals \cup {c} /\ c \notin rows[w].approvals
        /\ rows[w].approvals \in SUBSET Contacts
        /\ \A v \in Recoveries : v # w => rows'[v] = rows[v] /\ fragments'[v] = fragments[v]
    BY <1>0, <1>5 DEF TypeOK, Row, ApproveRecovery, CanApprove
  <2>2. \A v \in Recoveries : v # w => Stage(v)' /\ Sound(v)'
    BY <1>0, <1>5, <2>1, Untouched DEF ApproveRecovery, mailVars
  <2>3. Cardinality(rows'[w].approvals) < Required
    BY <1>5, <2>1, ApprovalsFinite, ApprovalCounts, RequiredType
       DEF ApproveRecovery, QuorumReached, Version
  <2>4. Stage(w)' /\ Sound(w)'
    BY <1>0, <1>5, <2>1, <2>3 DEF Stage, Sound, ApproveRecovery, mailVars
  <2>5. OneRecovery'
    BY <1>0, <1>5, <2>1, SameStates DEF ApproveRecovery, Active
  <2> QED
    BY <2>2, <2>4, <2>5
<1>6. ASSUME NEW w \in Recoveries, NEW c \in Contacts, ReachQuorum(w, c)
      PROVE  AllSound' /\ OneRecovery'
  <2>1. /\ rows[w].state = "AWAITING_APPROVALS" /\ rows'[w].state = "REWRAP_PENDING"
        /\ rows'[w].approvals = rows[w].approvals \cup {c} /\ c \notin rows[w].approvals
        /\ rows[w].approvals \in SUBSET Contacts
        /\ \A v \in Recoveries : v # w =>
                /\ rows'[v] = rows[v] /\ fragments'[v] = fragments[v]
                /\ secret'[v] = secret[v] /\ challenge'[v] = challenge[v]
    BY <1>0, <1>6 DEF TypeOK, Row, ReachQuorum, CanApprove
  <2>2. \A v \in Recoveries : v # w => Stage(v)' /\ Sound(v)'
    BY <1>0, <1>6, <2>1, Untouched DEF ReachQuorum
  <2>3. Cardinality(rows'[w].approvals) >= Required
    BY <1>6, <2>1, ApprovalsFinite, ApprovalCounts, RequiredType
       DEF ReachQuorum, QuorumReached, Version
  <2>4. /\ secret'[w] = "ACTIVE" /\ rewrap'[w].status = "NONE"
        /\ challenge'[w].code = "LIVE" /\ challenge'[w].attempts = 0
        /\ \A d \in Contacts : fragments'[w][d] # "VALIDATED"
    BY <1>0, <1>6, <2>1 DEF TypeOK, Stage, ReachQuorum
  <2>5. Stage(w)' /\ Sound(w)'
    BY <2>1, <2>3, <2>4, TimesAssumption DEF Stage, Sound
  <2>6. OneRecovery'
    BY <1>0, <1>6, <2>1, SameStates DEF ReachQuorum, Active, ActiveStates
  <2> QED
    BY <2>2, <2>5, <2>6
<1>7. ASSUME NEW w \in Recoveries, TryWrongCode(w) PROVE AllSound' /\ OneRecovery'
  <2>1. /\ rows[w].state = "REWRAP_PENDING" /\ challenge[w].code = "LIVE"
        /\ challenge[w].attempts \in Nat
        /\ \A v \in Recoveries : v # w => challenge'[v] = challenge[v]
    BY <1>0, <1>7 DEF TypeOK, Challenge, TryWrongCode, ChallengeOpen
  <2>2. \A v \in Recoveries : v # w => Stage(v)' /\ Sound(v)'
    BY <1>0, <1>7, <2>1, Untouched DEF TryWrongCode, mailVars
  <2>3. /\ challenge'[w].code = IF challenge[w].attempts + 1 >= MaxAttempts THEN "LOCKED" ELSE "LIVE"
        /\ challenge'[w].attempts = challenge[w].attempts + 1
        /\ challenge'[w].token = challenge[w].token
    BY <1>0, <1>7, <2>1 DEF TypeOK, Challenge, TryWrongCode
  <2>4. Stage(w)' /\ Sound(w)'
    BY <1>0, <1>7, <2>1, <2>3, TimesAssumption DEF Stage, Sound, TryWrongCode, mailVars
  <2>5. OneRecovery'
    BY <1>0, <1>7, SameStates DEF TryWrongCode, Active
  <2> QED
    BY <2>2, <2>4, <2>5
<1>8. ASSUME NEW w \in Recoveries, CreateRewrapSession(w) PROVE AllSound' /\ OneRecovery'
  <2>1. /\ rows[w].state = "REWRAP_PENDING" /\ challenge[w].code = "LIVE" /\ w \in mailed
        /\ rewrap'[w].status = "ACTIVE" /\ challenge'[w].token = "CONSUMED"
        /\ challenge'[w].code = "CONSUMED" /\ challenge'[w].attempts = challenge[w].attempts
        /\ \A v \in Recoveries : v # w =>
                challenge'[v] = challenge[v] /\ rewrap'[v] = rewrap[v]
    BY <1>0, <1>8 DEF TypeOK, CreateRewrapSession, ChallengeOpen
  <2>2. \A v \in Recoveries : v # w => Stage(v)' /\ Sound(v)'
    BY <1>0, <1>8, <2>1, Untouched DEF CreateRewrapSession, mailVars
  <2>3. Stage(w)' /\ Sound(w)'
    BY <1>0, <1>8, <2>1 DEF Stage, Sound, CreateRewrapSession, mailVars
  <2>4. OneRecovery'
    BY <1>0, <1>8, SameStates DEF CreateRewrapSession, Active
  <2> QED
    BY <2>2, <2>3, <2>4
<1>9. ASSUME NEW w \in Recoveries, CompletePasswordReset(w) PROVE AllSound' /\ OneRecovery'
  <2>1. /\ rows[w].state = "REWRAP_PENDING" /\ rewrap[w].status = "ACTIVE"
        /\ rows'[w].state = "COMPLETED" /\ rows'[w].approvals = rows[w].approvals
        /\ rewrap'[w].status = "CONSUMED" /\ secret'[w] = "DESTROYED"
        /\ challenge'[w] = Revoked(challenge[w])
        /\ \A c \in Contacts : fragments'[w][c] # "VALIDATED"
        /\ \A v \in Recoveries : v # w =>
                /\ rows'[v] = rows[v] /\ fragments'[v] = fragments[v]
                /\ secret'[v] = secret[v] /\ challenge'[v] = challenge[v]
                /\ rewrap'[v] = rewrap[v]
    BY <1>0, <1>9 DEF TypeOK, Row, CompletePasswordReset, Completable
  <2>2. \A v \in Recoveries : v # w => Stage(v)' /\ Sound(v)'
    BY <1>0, <1>9, <2>1, Untouched DEF CompletePasswordReset, mailVars
  <2>3. Stage(w)' /\ Sound(w)'
    BY <1>0, <1>9, <2>1 DEF Stage, Sound, Revoked, CompletePasswordReset, mailVars
  <2>4. OneRecovery'
    BY <1>0, <1>9, <2>1, SameStates DEF CompletePasswordReset, Active, ActiveStates
  <2> QED
    BY <2>2, <2>3, <2>4
<1>10. ASSUME NEW w \in Recoveries, ReconcileRecoveries(w) PROVE AllSound' /\ OneRecovery'
  BY <1>10, FrameSound DEF ReconcileRecoveries, materialVars, mailVars
<1>11. CASE AuthenticateOwner
  <2>0. CancelActiveRecovery /\ UNCHANGED mailed
    BY <1>11 DEF AuthenticateOwner, mailVars
  <2>1. NoActiveRecovery' /\ AllSound'
    BY <2>0, CancelSound
  <2> QED
    BY <2>1 DEF OneRecovery, NoActiveRecovery
<1>12. CASE StartDeathWorkflow
  <2>0. CancelActiveRecovery /\ UNCHANGED mailed
    BY <1>12 DEF StartDeathWorkflow, mailVars
  <2>1. NoActiveRecovery' /\ AllSound'
    BY <2>0, CancelSound
  <2> QED
    BY <2>1 DEF OneRecovery, NoActiveRecovery
<1>13. ASSUME NEW j \in Jobs, NEW w \in Recoveries, ExpireRecovery(j, w)
       PROVE  AllSound' /\ OneRecovery'
  <2>1. AllSound'
    BY <1>13, EndedSound DEF ExpireRecovery, mailVars
  <2>2. NoActiveRecovery'
    BY <1>13, EndedAlone DEF ExpireRecovery, Ended
  <2> QED
    BY <2>1, <2>2 DEF OneRecovery, NoActiveRecovery
<1>14. ASSUME NEW j \in Jobs, NEW w \in Recoveries, ExpireRecoveryClosed(j, w)
       PROVE  AllSound' /\ OneRecovery'
  BY <1>14, FrameSound DEF ExpireRecoveryClosed, materialVars, mailVars
<1>15. ASSUME NEW j \in Jobs, NEW w \in Recoveries, GiveUp(j, w) PROVE AllSound' /\ OneRecovery'
  BY <1>15, FrameSound DEF GiveUp, materialVars, mailVars
<1>16. CASE Tick
  <2>1. \A v \in Recoveries :
            /\ rows'[v].state = rows[v].state /\ rows'[v].approvals = rows[v].approvals
            /\ challenge'[v].token = challenge[v].token /\ challenge'[v].code = challenge[v].code
            /\ challenge'[v].attempts = challenge[v].attempts
            /\ rewrap'[v].status = rewrap[v].status
    BY <1>0, <1>16 DEF Tick, TypeOK, Row, Challenge, Rewrap
  <2> QED
    BY <1>16, <2>1, FrameSound DEF Tick, mailVars
<1>17. CASE UNCHANGED vars
  BY <1>17, FrameSound DEF vars, materialVars, mailVars
<1> QED
  BY <1>0, <1>1, <1>2, <1>3, <1>4, <1>5, <1>6, <1>7, <1>8, <1>9, <1>10, <1>11, <1>12,
     <1>13, <1>14, <1>15, <1>16, <1>17 DEF Next

-----------------------------------------------------------------------------
(* The promise *)

\* What is seen from outside is the active recovery, or a closed phase.
View ==
    /\ \A w \in Recoveries : Active(w) =>
            /\ Phase = IF rows[w].state = "REWRAP_PENDING" THEN "READY" ELSE "GATHERING"
            /\ Supporters = rows[w].approvals
            /\ Proven = (rewrap[w].status = "ACTIVE")
    /\ NoActiveRecovery => Phase = "CLOSED" /\ Supporters = {} /\ Proven = FALSE

\* Phase, supporters and proof of the promise are those of the open recovery.
LEMMA ViewCorrect == RecoveryInv => View
<1> SUFFICES ASSUME RecoveryInv PROVE View
  OBVIOUS
<1>1. ASSUME NEW w \in Recoveries, Active(w)
      PROVE  /\ Phase = IF rows[w].state = "REWRAP_PENDING" THEN "READY" ELSE "GATHERING"
             /\ Supporters = rows[w].approvals
             /\ Proven = (rewrap[w].status = "ACTIVE")
  <2>1. \A v \in Recoveries : Active(v) => v = w
    BY <1>1 DEF RecoveryInv, OneRecovery
  <2>2. {v \in Recoveries : Active(v)} = {w}
    BY <1>1, <2>1
  <2>3. Supporters = rows[w].approvals
    BY <2>2 DEF Supporters
  <2>4. Phase = IF rows[w].state = "REWRAP_PENDING" THEN "READY" ELSE "GATHERING"
    BY <1>1, <2>1 DEF Phase, Active, ActiveStates
  <2>5. Proven = (rewrap[w].status = "ACTIVE")
    BY <1>1, <2>1 DEF Proven
  <2> QED
    BY <2>3, <2>4, <2>5
<1>2. ASSUME NoActiveRecovery
      PROVE  Phase = "CLOSED" /\ Supporters = {} /\ Proven = FALSE
  <2>1. {v \in Recoveries : Active(v)} = {}
    BY <1>2 DEF NoActiveRecovery
  <2>2. Supporters = {}
    BY <2>1 DEF Supporters
  <2> QED
    BY <1>2, <2>2 DEF NoActiveRecovery, Phase, Proven, Active, ActiveStates
<1> QED
  BY <1>1, <1>2 DEF View

\* Nothing else of a recovery is seen.
LEMMA SameView ==
    ASSUME \A v \in Recoveries :
                /\ rows'[v].state = rows[v].state /\ rows'[v].approvals = rows[v].approvals
                /\ rewrap'[v].status = rewrap[v].status,
           UNCHANGED credential
    PROVE  UNCHANGED Promise!vars
<1>1. \A v \in Recoveries : Active(v)' <=> Active(v)
  BY DEF Active
<1>2. Phase' = Phase
  BY DEF Phase
<1>3. {v \in Recoveries : Active(v)}' = {v \in Recoveries : Active(v)}
  BY <1>1
<1>4. Supporters' = Supporters
  BY <1>3 DEF Supporters
<1>5. Proven' = Proven
  BY <1>1 DEF Proven
<1> QED
  BY <1>2, <1>4, <1>5 DEF Promise!vars

\* Whatever ends a recovery without a reset closes it.
LEMMA ClosesView ==
    ASSUME View, View', NEW w \in Recoveries, Active(w), NoActiveRecovery', UNCHANGED credential
    PROVE  Promise!Close
<1>1. Phase # "CLOSED"
  BY DEF View
<1>2. Phase' = "CLOSED" /\ Supporters' = {} /\ Proven' = FALSE
  BY DEF View
<1> QED
  BY <1>1, <1>2 DEF Promise!Close

\* Cancelling closes the recovery, if there is one.
LEMMA CancelView ==
    ASSUME RecoveryInv, View, View', CancelActiveRecovery, UNCHANGED <<mailed, credential>>
    PROVE  Promise!Close \/ UNCHANGED Promise!vars
<1>1. NoActiveRecovery'
  BY CancelSound
<1>2. CASE \E w \in Recoveries : Ended(w, "CANCELLED")
  BY <1>1, <1>2, ClosesView DEF Ended
<1>3. CASE UNCHANGED <<rows, materialVars>>
  BY <1>3, SameView DEF materialVars
<1> QED
  BY <1>2, <1>3 DEF CancelActiveRecovery

\* The promise and the recovery count alike.
LEMMA SameSizes == \A S : Promise!Cardinality(S) = Cardinality(S)
  BY DEF Promise!Cardinality, Cardinality

\* Before any recovery the promise is in its initial state.
LEMMA PromiseInit == Init => Promise!Init
<1> SUFFICES ASSUME Init PROVE Promise!Init
  OBVIOUS
<1>1. NoActiveRecovery
  BY DEF Init, NoActiveRecovery, Active, ActiveStates
<1>2. Phase = "CLOSED" /\ Supporters = {} /\ Proven = FALSE
  BY <1>1, InvInit, ViewCorrect DEF View
<1> QED
  BY <1>2 DEF Init, Promise!Init

\* Every step is one of the promise's, or is not seen.
LEMMA PromiseStep ==
    ASSUME RecoveryInv, RecoveryInv', View, View', [Next]_vars
    PROVE  [Promise!Next]_Promise!vars
<1>0. TypeOK /\ \A w \in Recoveries : Stage(w) /\ Stage(w)' /\ rows[w] \in Row /\ rewrap[w] \in Rewrap
  BY DEF RecoveryInv, TypeOK
<1> DEFINE Unseen == UNCHANGED Promise!vars
<1>1. ASSUME NEW l \in Links, RequestRecovery(l) PROVE Unseen
  BY <1>1, SameView DEF RequestRecovery, materialVars
<1>2. ASSUME NEW w \in Recoveries, BookResetMail(w) PROVE Unseen
  BY <1>2, SameView DEF BookResetMail, materialVars
<1>3. CASE CrashApi
  BY <1>3, SameView DEF CrashApi, materialVars
<1>4. ASSUME NEW l \in Links, NEW w \in Recoveries, StartRecovery(l, w) PROVE Promise!Open
  <2>1. /\ NoActiveRecovery /\ rewrap'[w].status = "NONE" /\ credential' = credential
        /\ rows'[w].state = "AWAITING_APPROVALS" /\ rows'[w].approvals = {}
    BY <1>0, <1>4 DEF TypeOK, Stage, StartRecovery, materialVars
  <2>2. Phase = "CLOSED" /\ Supporters = {} /\ Proven = FALSE
    BY <2>1 DEF View
  <2>3. Active(w)'
    BY <2>1 DEF Active, ActiveStates
  <2>4. Phase' = "GATHERING" /\ Supporters' = {} /\ Proven' = FALSE
    BY <2>1, <2>3 DEF View
  <2> QED
    BY <2>1, <2>2, <2>4 DEF Promise!Open
<1>5. ASSUME NEW w \in Recoveries, NEW c \in Contacts, ApproveRecovery(w, c) \/ ReachQuorum(w, c)
      PROVE  Promise!Support(c)
  <2>1. /\ rows[w].state = "AWAITING_APPROVALS" /\ c \notin rows[w].approvals
        /\ rows'[w].approvals = rows[w].approvals \cup {c}
        /\ rows'[w].state \in {"AWAITING_APPROVALS", "REWRAP_PENDING"}
        /\ rewrap[w].status = "NONE" /\ rewrap' = rewrap /\ credential' = credential
    BY <1>0, <1>5 DEF TypeOK, Row, Stage, ApproveRecovery, ReachQuorum, CanApprove
  <2>2. Active(w) /\ Active(w)'
    BY <2>1 DEF Active, ActiveStates
  <2>3. Phase = "GATHERING" /\ Supporters = rows[w].approvals /\ Proven = FALSE
    BY <2>1, <2>2 DEF View
  <2>4. /\ Phase' = IF rows'[w].state = "REWRAP_PENDING" THEN "READY" ELSE "GATHERING"
        /\ Supporters' = rows'[w].approvals /\ Proven' = FALSE
    BY <2>1, <2>2 DEF View
  <2>5. rows'[w].state = "REWRAP_PENDING" <=> Cardinality(rows'[w].approvals) >= Required'
    <3>1. /\ rows'[w].state = "AWAITING_APPROVALS" => Cardinality(rows'[w].approvals) < Required'
          /\ rows'[w].state = "REWRAP_PENDING" => Cardinality(rows'[w].approvals) >= Required'
      BY <1>0 DEF Stage
    <3>2. Required' \in Nat /\ Cardinality(rows'[w].approvals) \in Nat
      BY <2>1, <1>0, ApprovalsFinite, RequiredType DEF Row, Required
    <3> QED
      BY <2>1, <3>1, <3>2
  <2>6. Required' = Required
    BY DEF Required
  <2>7. Phase' = IF Promise!Cardinality(Supporters') >= Required THEN "READY" ELSE "GATHERING"
    BY <2>4, <2>5, <2>6, SameSizes
  <2>8. c \notin Supporters /\ Supporters' = Supporters \cup {c}
    BY <2>1, <2>3, <2>4
  <2>9. Proven' = Proven /\ Phase = "GATHERING" /\ credential' = credential
    BY <2>1, <2>3, <2>4
  <2> HIDE DEF Unseen
  <2> QED
    BY <2>7, <2>8, <2>9 DEF Promise!Support
<1>6. ASSUME NEW w \in Recoveries, TryWrongCode(w) PROVE Unseen
  BY <1>6, SameView DEF TryWrongCode
<1>7. ASSUME NEW w \in Recoveries, CreateRewrapSession(w) PROVE Promise!Prove
  <2>1. /\ rows[w].state = "REWRAP_PENDING" /\ rows' = rows /\ credential' = credential
        /\ rewrap[w].status = "NONE" /\ rewrap'[w].status = "ACTIVE"
    BY <1>0, <1>7 DEF TypeOK, CreateRewrapSession, ChallengeOpen
  <2>2. Active(w) /\ Active(w)'
    BY <2>1 DEF Active, ActiveStates
  <2>3. /\ Phase = "READY" /\ Supporters = rows[w].approvals /\ Proven = FALSE
        /\ Phase' = "READY" /\ Supporters' = rows[w].approvals /\ Proven' = TRUE
    BY <2>1, <2>2 DEF View
  <2> QED
    BY <2>1, <2>3 DEF Promise!Prove
<1>8. ASSUME NEW w \in Recoveries, CompletePasswordReset(w) PROVE Promise!Reset
  <2>1. /\ rows[w].state = "REWRAP_PENDING" /\ rewrap[w].status = "ACTIVE"
        /\ credential' = credential + 1 /\ rows' = [rows EXCEPT ![w].state = "COMPLETED"]
    BY <1>8 DEF CompletePasswordReset, Completable
  <2>2. Active(w)
    BY <2>1 DEF Active, ActiveStates
  <2>3. NoActiveRecovery'
    BY <2>1, <2>2, EndedAlone
  <2>4. Phase = "READY" /\ Proven = TRUE
    BY <2>1, <2>2 DEF View
  <2>5. Phase' = "CLOSED" /\ Supporters' = {} /\ Proven' = FALSE
    BY <2>3 DEF View
  <2> QED
    BY <2>1, <2>4, <2>5 DEF Promise!Reset
<1>9. ASSUME NEW w \in Recoveries, ReconcileRecoveries(w) PROVE Unseen
  BY <1>9, SameView DEF ReconcileRecoveries, materialVars
<1>10. CASE AuthenticateOwner \/ StartDeathWorkflow
  <2>1. CancelActiveRecovery /\ UNCHANGED <<mailed, credential>>
    BY <1>10 DEF AuthenticateOwner, StartDeathWorkflow, mailVars
  <2> QED
    BY <2>1, CancelView DEF Promise!Next
<1>11. ASSUME NEW j \in Jobs, NEW w \in Recoveries, ExpireRecovery(j, w) PROVE Promise!Close
  <2>1. Ended(w, "EXPIRED") /\ credential' = credential
    BY <1>11 DEF ExpireRecovery
  <2>2. NoActiveRecovery'
    BY <2>1, EndedAlone DEF Ended
  <2> QED
    BY <2>1, <2>2, ClosesView DEF Ended
<1>12. ASSUME NEW j \in Jobs, NEW w \in Recoveries, ExpireRecoveryClosed(j, w) PROVE Unseen
  BY <1>12, SameView DEF ExpireRecoveryClosed, materialVars
<1>13. ASSUME NEW j \in Jobs, NEW w \in Recoveries, GiveUp(j, w) PROVE Unseen
  BY <1>13, SameView DEF GiveUp, materialVars
<1>14. CASE Tick
  <2>1. \A v \in Recoveries :
            /\ rows'[v].state = rows[v].state /\ rows'[v].approvals = rows[v].approvals
            /\ rewrap'[v].status = rewrap[v].status
    BY <1>0, <1>14 DEF Tick, Row, Rewrap
  <2> QED
    BY <1>14, <2>1, SameView DEF Tick
<1>15. CASE UNCHANGED vars
  BY <1>15, SameView DEF vars, materialVars
<1> HIDE DEF Unseen
<1>16. CASE Next
  <2>1. Promise!Next \/ Unseen
    BY <1>16, <1>1, <1>2, <1>3, <1>4, <1>5, <1>6, <1>7, <1>8, <1>9, <1>10, <1>11, <1>12, <1>13,
       <1>14 DEF Next, Promise!Next, Unseen
  <2> QED
    BY <2>1 DEF Unseen
<1> QED
  BY <1>15, <1>16 DEF Unseen

-----------------------------------------------------------------------------
(* The reducer *)

\* The reducer and the recovery count alike.
LEMMA SameDomainSizes == \A S : Domain!Cardinality(S) = Cardinality(S)
  BY DEF Domain!Cardinality, Cardinality

\* What FollowsReducers asks of one recovery
Follows(w) ==
    \/ [RecoveryRow(w)' EXCEPT !.expiresAt = rows[w].left] = RecoveryRow(w)
    \/ Domain!transitionRecoveryWorkflow(
           RecoveryRow(w), [RecoveryRow(w)' EXCEPT !.expiresAt = rows[w].left], 0)
    \/ Started(w)
    \/ LateEnd(w)

\* A majority of the roster can be reached.
LEMMA RequiredReachable == Required \in 1..Cardinality(Contacts)
<1>1. Cardinality(Contacts) \in Nat /\ Cardinality(Contacts) # 0
  BY RosterAssumption, ApprovalsFinite, FS_EmptySet
<1>2. \A n \in Nat \ {0} : n \div 2 + 1 \in 1..n
  OBVIOUS
<1> QED
  BY <1>1, <1>2 DEF Required

\* An active recovery is in a state the domain accepts.
LEMMA ActiveSnapshot ==
    ASSUME NEW w \in Recoveries, rows[w] \in Row, Stage(w), Active(w)
    PROVE  Domain!RecoverySnapshot(RecoveryRow(w))
<1>1. rows[w].approvals \subseteq Contacts
  BY DEF Row
<1>2. Cardinality(rows[w].approvals) \in Nat
  BY <1>1, ApprovalsFinite
<1>3. Required \in Nat /\ Required \in 1..Domain!Cardinality(Contacts)
  BY RequiredReachable, RequiredType, SameDomainSizes
<1>4. /\ RecoveryRow(w).state = rows[w].state /\ RecoveryRow(w).contactIds = Contacts
      /\ RecoveryRow(w).required = Required /\ RecoveryRow(w).approved = rows[w].approvals
  BY DEF RecoveryRow
<1>5. Domain!Snapshot(RecoveryRow(w))
  BY <1>1, <1>3, <1>4, RosterAssumption DEF Domain!Snapshot
<1>6. Domain!ThresholdReached(RecoveryRow(w)) <=> Cardinality(rows[w].approvals) >= Required
  BY <1>4, SameDomainSizes DEF Domain!ThresholdReached
<1>7. \/ rows[w].state = "AWAITING_APPROVALS" /\ ~(Cardinality(rows[w].approvals) >= Required)
      \/ rows[w].state = "REWRAP_PENDING" /\ Cardinality(rows[w].approvals) >= Required
  BY <1>2, <1>3 DEF Stage, Active, ActiveStates
<1> QED
  BY <1>4, <1>5, <1>6, <1>7 DEF Domain!RecoverySnapshot

\* So is every active one.
Snapshots == \A w \in Recoveries : Active(w) => Domain!RecoverySnapshot(RecoveryRow(w))

\* The reducers find rows within their preconditions.
LEMMA SnapshotsCorrect == RecoveryInv => Snapshots
  BY ActiveSnapshot DEF RecoveryInv, TypeOK, Snapshots

\* The row after a step, as the reducer is shown it.
LEMMA NextRow ==
    ASSUME NEW w \in Recoveries
    PROVE  [RecoveryRow(w)' EXCEPT !.expiresAt = rows[w].left] =
               [state |-> rows'[w].state, contactIds |-> Contacts, required |-> Required,
                approved |-> rows'[w].approvals, expiresAt |-> rows[w].left]
<1>1. Required' = Required
  BY DEF Required
<1>2. RecoveryRow(w)' =
          [state |-> rows'[w].state, contactIds |-> Contacts, required |-> Required,
           approved |-> rows'[w].approvals, expiresAt |-> rows'[w].left]
  BY <1>1 DEF RecoveryRow
<1> QED
  BY <1>2

\* The reducer has no need of time for a row that stays.
LEMMA SameRow ==
    ASSUME NEW w \in Recoveries,
           rows'[w].state = rows[w].state, rows'[w].approvals = rows[w].approvals
    PROVE  Follows(w)
  BY NextRow DEF Follows, RecoveryRow

\* An end of an active recovery: by expiry once it is due, otherwise before or late.
LEMMA EndFollows ==
    ASSUME NEW w \in Recoveries, rows[w] \in Row, Stage(w), Active(w),
           rows'[w].approvals = rows[w].approvals,
           \/ rows'[w].state = "COMPLETED" /\ rows[w].state = "REWRAP_PENDING"
           \/ rows'[w].state = "CANCELLED"
           \/ rows'[w].state = "EXPIRED" /\ rows[w].left = 0
    PROVE  Follows(w)
<1> DEFINE s == RecoveryRow(w)
           t == [RecoveryRow(w)' EXCEPT !.expiresAt = rows[w].left]
<1>1. CASE rows[w].left = 0 /\ rows'[w].state # "EXPIRED"
  BY <1>1 DEF Follows, LateEnd
<1>2. CASE rows[w].left # 0 \/ rows'[w].state = "EXPIRED"
  <2>1. /\ s = [state |-> rows[w].state, contactIds |-> Contacts, required |-> Required,
                approved |-> rows[w].approvals, expiresAt |-> rows[w].left]
        /\ rows[w].left \in Nat
    BY DEF RecoveryRow, Row
  <2>2. t = [s EXCEPT !.state = rows'[w].state]
    BY <2>1, NextRow
  <2>3. Domain!isDue(0, s.expiresAt) <=> rows[w].left = 0
    BY <2>1 DEF Domain!isDue
  <2>4. s.state = rows[w].state /\ s.state \in {"AWAITING_APPROVALS", "REWRAP_PENDING"}
    BY <2>1 DEF Active, ActiveStates
  <2>5. Domain!RecoverySnapshot(s)
    BY ActiveSnapshot
  <2> HIDE DEF s, t
  <2>6. Domain!transitionRecoveryWorkflow(s, t, 0)
    BY <1>2, <2>2, <2>3, <2>4, <2>5 DEF Domain!transitionRecoveryWorkflow
  <2> QED
    BY <2>6 DEF Follows, s, t
<1> QED
  BY <1>1, <1>2

\* Every step of every recovery is one of the reducer's.
LEMMA ReducerStep ==
    ASSUME RecoveryInv, RecoveryInv', Snapshots', [Next]_vars, NEW w \in Recoveries
    PROVE  Follows(w)
<1>0. /\ TypeOK /\ rows[w] \in Row /\ Stage(w) /\ rows'[w] \in Row /\ Stage(w)'
  BY DEF RecoveryInv, TypeOK
<1>1. CASE rows' = rows
  BY <1>1, SameRow
<1>2. ASSUME NEW l \in Links, NEW v \in Recoveries, StartRecovery(l, v) PROVE Follows(w)
  <2>1. CASE v # w
    BY <1>0, <1>2, <2>1, SameRow DEF TypeOK, StartRecovery
  <2>2. CASE v = w
    <3>1. rows[w].state = "NONE" /\ rows'[w].state = "AWAITING_APPROVALS"
      BY <1>0, <1>2, <2>2 DEF TypeOK, StartRecovery
    <3>2. Domain!RecoverySnapshot(RecoveryRow(w))'
      BY <3>1 DEF Snapshots, Active, ActiveStates
    <3> QED
      BY <3>1, <3>2 DEF Follows, Started
  <2> QED
    BY <2>1, <2>2
<1>3. ASSUME NEW v \in Recoveries, NEW c \in Contacts, ApproveRecovery(v, c) \/ ReachQuorum(v, c)
      PROVE  Follows(w)
  <2>1. CASE v # w
    BY <1>0, <1>3, <2>1, SameRow DEF TypeOK, ApproveRecovery, ReachQuorum
  <2>2. CASE v = w
    <3> DEFINE s == RecoveryRow(w)
               t == [RecoveryRow(w)' EXCEPT !.expiresAt = rows[w].left]
    <3>1. /\ rows[w].state = "AWAITING_APPROVALS" /\ rows[w].left > 0 /\ c \notin rows[w].approvals
          /\ rows'[w].approvals = rows[w].approvals \cup {c}
          /\ rows'[w].state \in {"AWAITING_APPROVALS", "REWRAP_PENDING"}
      BY <1>0, <1>3, <2>2 DEF TypeOK, Row, ApproveRecovery, ReachQuorum, CanApprove
    <3>2. /\ s.state = "AWAITING_APPROVALS" /\ s.contactIds = Contacts /\ s.required = Required
          /\ s.approved = rows[w].approvals /\ s.expiresAt = rows[w].left
      BY <3>1 DEF RecoveryRow
    <3>3. rows'[w].state =
              IF Cardinality(rows'[w].approvals) >= Required
              THEN "REWRAP_PENDING" ELSE "AWAITING_APPROVALS"
      <4>1. Required \in Nat /\ Cardinality(rows'[w].approvals) \in Nat /\ Required' = Required
        BY <1>0, ApprovalsFinite, RequiredType DEF Row, Required
      <4> QED
        BY <1>0, <3>1, <4>1 DEF Stage
    <3>4. t = Domain!Approved(s, c)
      <4>1. s \in [state : {rows[w].state}, contactIds : {Contacts}, required : {Required},
                   approved : {rows[w].approvals}, expiresAt : {rows[w].left}]
        BY DEF RecoveryRow
      <4>2. t \in [state : {rows'[w].state}, contactIds : {Contacts}, required : {Required},
                   approved : {rows'[w].approvals}, expiresAt : {rows[w].left}]
        BY NextRow
      <4> HIDE DEF s, t
      <4>3. t = [s EXCEPT !.approved = rows'[w].approvals, !.state = rows'[w].state]
        BY <4>1, <4>2
      <4> QED
        BY <3>1, <3>2, <3>3, <4>3, SameDomainSizes DEF Domain!Approved
    <3>5. Domain!Acting(s, c) /\ ~Domain!isDue(0, s.expiresAt) /\ c \in s.contactIds
      <4>1. rows[w].left \in Nat
        BY <1>0 DEF Row
      <4> QED
        BY <3>1, <3>2, <4>1 DEF Domain!Acting, Domain!isDue
    <3>6. Domain!RecoverySnapshot(s)
      BY <1>0, <3>1, ActiveSnapshot DEF Active, ActiveStates
    <3> HIDE DEF s, t
    <3>7. Domain!transitionRecoveryWorkflow(s, t, 0)
      BY <3>2, <3>4, <3>5, <3>6 DEF Domain!transitionRecoveryWorkflow
    <3> QED
      BY <3>7 DEF Follows, s, t
  <2> QED
    BY <2>1, <2>2
<1>4. ASSUME NEW v \in Recoveries, CompletePasswordReset(v) PROVE Follows(w)
  <2>1. CASE v # w
    BY <1>0, <1>4, <2>1, SameRow DEF TypeOK, CompletePasswordReset
  <2>2. CASE v = w
    <3>1. /\ rows[w].state = "REWRAP_PENDING" /\ rows'[w].state = "COMPLETED"
          /\ rows'[w].approvals = rows[w].approvals
      BY <1>0, <1>4, <2>2 DEF TypeOK, Row, CompletePasswordReset, Completable
    <3> QED
      BY <1>0, <3>1, EndFollows DEF Active, ActiveStates
  <2> QED
    BY <2>1, <2>2
<1>5. ASSUME NEW v \in Recoveries, NEW e \in {"CANCELLED", "EXPIRED"}, Ended(v, e),
             e = "EXPIRED" => rows[v].left = 0
      PROVE  Follows(w)
  <2>1. CASE v # w
    BY <1>0, <1>5, <2>1, SameRow DEF TypeOK, Ended
  <2>2. CASE v = w
    <3>1. Active(w) /\ rows'[w].state = e /\ rows'[w].approvals = rows[w].approvals
      BY <1>0, <1>5, <2>2 DEF TypeOK, Row, Ended
    <3> QED
      BY <1>0, <1>5, <2>2, <3>1, EndFollows
  <2> QED
    BY <2>1, <2>2
<1>6. CASE AuthenticateOwner \/ StartDeathWorkflow
  <2>1. CancelActiveRecovery
    BY <1>6 DEF AuthenticateOwner, StartDeathWorkflow
  <2> QED
    BY <1>1, <1>5, <2>1 DEF CancelActiveRecovery
<1>7. ASSUME NEW j \in Jobs, NEW v \in Recoveries, ExpireRecovery(j, v) PROVE Follows(w)
  BY <1>5, <1>7 DEF ExpireRecovery
<1>8. CASE Tick
  <2>1. rows'[w].state = rows[w].state /\ rows'[w].approvals = rows[w].approvals
    BY <1>0, <1>8 DEF Tick, Row
  <2> QED
    BY <2>1, SameRow
<1>9. \/ rows' = rows
      \/ \E l \in Links, v \in Recoveries : StartRecovery(l, v)
      \/ \E v \in Recoveries, c \in Contacts : ApproveRecovery(v, c) \/ ReachQuorum(v, c)
      \/ \E v \in Recoveries : CompletePasswordReset(v)
      \/ AuthenticateOwner \/ StartDeathWorkflow
      \/ \E j \in Jobs, v \in Recoveries : ExpireRecovery(j, v)
      \/ Tick
  BY DEF Next, vars, RequestRecovery, BookResetMail, TryWrongCode, CreateRewrapSession,
         ReconcileRecoveries, CrashApi, ExpireRecoveryClosed, GiveUp
<1> QED
  BY <1>1, <1>2, <1>3, <1>4, <1>6, <1>7, <1>8, <1>9

-----------------------------------------------------------------------------
(* The theorems *)

\* Rows, challenges, sessions and jobs keep their types
\* (packages/application/src/recovery).
THEOREM RecoveryTypeCorrect == Spec => []TypeOK
<1>1. RecoveryInv => TypeOK
  BY DEF RecoveryInv
<1> QED
  BY <1>1, InvInit, InvStep, PTL DEF Spec

\* A password is reset only with a majority, the mailbox, link and code
\* (createRewrapSession, completePasswordReset).
THEOREM ResetCorrect == Spec => []ResetNeedsQuorumAndMail
  BY InvInit, InvStep, InvProperties, PTL DEF Spec

\* Key material, links and codes are usable in their stage only
\* (approveRecovery, destroyRecoveryArtifacts).
THEOREM MaterialCorrect == Spec => []KeyMaterialOnlyWhileOpen
  BY InvInit, InvStep, InvProperties, PTL DEF Spec

\* One formal workflow at a time (startRecovery, cancelActiveRecovery).
THEOREM OneRecoveryCorrect == Spec => []OneRecovery
  BY InvInit, InvStep, InvProperties, PTL DEF Spec

\* The safety part of ImplementsPromise: whatever the timers, retries and crashes,
\* a password is set only after a majority has supported it one by one and the
\* mailbox was proven, once per recovery (packages/application/src/recovery).
THEOREM RecoveryKeepsPromise == Spec => Promise!Init /\ [][Promise!Next]_Promise!vars
<1>1. RecoveryInv /\ RecoveryInv' /\ [Next]_vars => [Promise!Next]_Promise!vars
  <2> SUFFICES ASSUME RecoveryInv, RecoveryInv', [Next]_vars PROVE [Promise!Next]_Promise!vars
    OBVIOUS
  <2>1. View
    BY ViewCorrect
  <2>2. View'
    BY ViewCorrect, PTL
  <2> QED
    BY <2>1, <2>2, PromiseStep
<1> QED
  BY <1>1, InvInit, InvStep, PromiseInit, PTL DEF Spec

\* Every transaction changes a recovery as the domain's reducer would, but for an
\* end between expires_at and the expiry job (recovery-workflow.ts:76).
THEOREM RecoveryFollowsReducers == Spec => FollowsReducers
<1>1. RecoveryInv /\ RecoveryInv' /\ [Next]_vars => \A w \in Recoveries : Follows(w)
  <2>1. RecoveryInv' => Snapshots'
    BY SnapshotsCorrect, PTL
  <2> QED
    BY <2>1, ReducerStep
<1>2. RecoveryInv /\ RecoveryInv' /\ [Next]_vars =>
        [\A w \in Recoveries :
            \/ [RecoveryRow(w)' EXCEPT !.expiresAt = rows[w].left] = RecoveryRow(w)
            \/ Domain!transitionRecoveryWorkflow(
                   RecoveryRow(w), [RecoveryRow(w)' EXCEPT !.expiresAt = rows[w].left], 0)
            \/ Started(w)
            \/ LateEnd(w)]_vars
  BY <1>1 DEF Follows
<1> QED
  BY <1>2, InvInit, InvStep, PTL DEF Spec, FollowsReducers
-----------------------------------------------------------------------------
(* The expiry of a recovery *)

\* The two jobs that may end an overdue recovery, the one booked when it began
\* and the scanner's, as long as they are there or may still come
HasStartJob(w) == StartJob(w) \in jobs
HasScanJob(w) == ScanJob(w) \in jobs \/ ScanKey(w) \notin scanned

\* The keys the scanner has used for a recovery
KeyUsed(w) == \E n \in Nat : <<w, n>> \in scanned

\* The queue has to give up two jobs before nobody ends an active recovery.
ExpiryInv(w) ==
    /\ KeyUsed(w) => rows[w].state # "NONE" /\ rows[w].left = 0
    /\ Active(w) =>
          /\ HasStartJob(w) \/ givenUp >= 1
          /\ HasScanJob(w) \/ givenUp >= 1
          /\ HasStartJob(w) \/ HasScanJob(w) \/ givenUp >= 2

ExpiryIsBooked ==
    \A w \in Recoveries : Active(w) /\ givenUp < 2 => HasStartJob(w) \/ HasScanJob(w)

\* The two jobs of a recovery differ, and so do those of two recoveries.
LEMMA JobsDiffer ==
    \A v, w \in Recoveries :
        /\ StartJob(v) # ScanJob(w)
        /\ v # w => StartJob(v) # StartJob(w) /\ ScanJob(v) # ScanJob(w)
  BY DEF StartJob, ScanJob

\* The scanner's key of a recovery names it and a version of its row.
LEMMA KeyNames ==
    ASSUME TypeOK, NEW w \in Recoveries
    PROVE  Version(w) \in Nat /\ (~KeyUsed(w) => ScanKey(w) \notin scanned)
<1>1. rows[w].approvals \in SUBSET Contacts
  BY DEF TypeOK, Row
<1> QED
  BY <1>1, ApprovalsFinite DEF Version, ScanKey, KeyUsed

\* A step that takes no job and no key of this recovery, nor its row back
LEMMA ExpiryFrame ==
    ASSUME NEW w \in Recoveries, ExpiryInv(w),
           Active(w)' => Active(w) /\ rows'[w].approvals = rows[w].approvals,
           rows[w].state # "NONE" => rows'[w].state # "NONE",
           rows[w].left = 0 => rows'[w].left = 0,
           UNCHANGED <<scanned, givenUp>>,
           Active(w)' /\ StartJob(w) \in jobs => StartJob(w) \in jobs',
           Active(w)' /\ ScanJob(w) \in jobs => ScanJob(w) \in jobs'
    PROVE  ExpiryInv(w)'
<1>1. Active(w)' => (HasStartJob(w) => HasStartJob(w)')
  BY DEF HasStartJob, StartJob
<1>2. Active(w)' => (HasScanJob(w) => HasScanJob(w)')
  BY DEF HasScanJob, ScanJob, ScanKey, Version
<1>3. KeyUsed(w)' => KeyUsed(w)
  BY DEF KeyUsed
<1> QED
  BY <1>1, <1>2, <1>3 DEF ExpiryInv

\* A recovery that ends keeps its other columns, and the rest keeps theirs.
LEMMA EndedRow ==
    ASSUME TypeOK, NEW v \in Recoveries, NEW s \in {"CANCELLED", "EXPIRED", "COMPLETED"},
           rows' = [rows EXCEPT ![v].state = s], NEW w \in Recoveries
    PROVE  /\ rows'[w].left = rows[w].left
           /\ w # v => rows'[w] = rows[w]
           /\ w = v => rows'[w].state = s /\ ~Active(w)'
  BY DEF TypeOK, Row, Active, ActiveStates

\* The expiry jobs and the scanner
LEMMA JobsExpiry ==
    ASSUME TypeOK, NEW w \in Recoveries, ExpiryInv(w), NEW v \in Recoveries, NEW j \in Jobs,
           \/ ExpireRecovery(j, v) \/ ExpireRecoveryClosed(j, v) \/ GiveUp(j, v)
    PROVE  ExpiryInv(w)'
<1>1. j \in {StartJob(v), ScanJob(v)} /\ jobs \ {j} \subseteq jobs'
  BY DEF ExpireRecovery, ExpireRecoveryClosed, GiveUp
<1>2. w # v => j # StartJob(w) /\ j # ScanJob(w)
  BY <1>1, JobsDiffer
<1>3. CASE ExpireRecovery(j, v)
  <2>1. rows' = [rows EXCEPT ![v].state = "EXPIRED"] /\ UNCHANGED <<scanned, givenUp>>
    BY <1>3 DEF ExpireRecovery, Ended
  <2>2. /\ rows'[w].left = rows[w].left
        /\ w # v => rows'[w] = rows[w]
        /\ w = v => rows'[w].state = "EXPIRED" /\ ~Active(w)'
    BY <2>1, EndedRow
  <2>3. Active(w)' => w # v /\ Active(w)
    BY <2>2 DEF Active
  <2> QED
    BY <1>1, <1>2, <2>1, <2>2, <2>3, ExpiryFrame
<1>4. CASE ExpireRecoveryClosed(j, v)
  BY <1>1, <1>2, <1>4, ExpiryFrame DEF ExpireRecoveryClosed, Active
<1>5. CASE GiveUp(j, v)
  <2>1. /\ UNCHANGED <<rows, scanned>> /\ givenUp \in Nat /\ givenUp' = givenUp + 1
        /\ jobs' = jobs \ {j}
    BY <1>5 DEF GiveUp, TypeOK
  <2>2. KeyUsed(w)' = KeyUsed(w) /\ Active(w)' = Active(w)
    BY <2>1 DEF KeyUsed, Active
  <2>3. /\ HasStartJob(w) /\ j # StartJob(w) => HasStartJob(w)'
        /\ HasScanJob(w) /\ j # ScanJob(w) => HasScanJob(w)'
    BY <2>1 DEF HasStartJob, HasScanJob, StartJob, ScanJob, ScanKey, Version
  <2>4. j # StartJob(w) \/ j # ScanJob(w)
    BY JobsDiffer
  <2> QED
    BY <2>1, <2>2, <2>3, <2>4 DEF ExpiryInv
<1> QED
  BY <1>3, <1>4, <1>5

\* The scanner uses a key with a job, and only of a recovery that is overdue.
LEMMA ScannerExpiry ==
    ASSUME TypeOK, NEW w \in Recoveries, ExpiryInv(w), NEW v \in Recoveries,
           ReconcileRecoveries(v)
    PROVE  ExpiryInv(w)'
<1>1. CASE w # v
  <2>1. UNCHANGED <<rows, givenUp>> /\ jobs \subseteq jobs' /\ scanned' = scanned \cup {ScanKey(v)}
    BY DEF ReconcileRecoveries
  <2>2. \A n : <<w, n>> # ScanKey(v)
    BY <1>1 DEF ScanKey
  <2>3. KeyUsed(w)' = KeyUsed(w) /\ Active(w)' = Active(w)
    BY <2>1, <2>2 DEF KeyUsed, Active
  <2>4. (HasStartJob(w) => HasStartJob(w)') /\ (HasScanJob(w) => HasScanJob(w)')
    BY <2>1, <2>2 DEF HasStartJob, HasScanJob, StartJob, ScanJob, ScanKey, Version
  <2> QED
    BY <2>1, <2>3, <2>4 DEF ExpiryInv
<1>2. CASE w = v
  <2>1. /\ UNCHANGED <<rows, givenUp>> /\ rows[w].left = 0 /\ Active(w)
        /\ jobs' = jobs \cup {ScanJob(w)}
    BY <1>2 DEF ReconcileRecoveries, Overdue
  <2>2. HasScanJob(w)' /\ (HasStartJob(w) => HasStartJob(w)')
    BY <2>1 DEF HasScanJob, HasStartJob, StartJob, ScanJob
  <2>3. rows[w].state # "NONE"
    BY <2>1 DEF Active, ActiveStates
  <2> QED
    BY <2>1, <2>2, <2>3 DEF ExpiryInv, Active
<1> QED
  BY <1>1, <1>2

\* A recovery begins, or gets an approval, before the scanner has used a key.
LEMMA ProgressExpiry ==
    ASSUME TypeOK, TypeOK', NEW w \in Recoveries, ExpiryInv(w), NEW v \in Recoveries,
           \/ \E l \in Links : StartRecovery(l, v)
           \/ \E c \in Contacts : ApproveRecovery(v, c) \/ ReachQuorum(v, c)
    PROVE  ExpiryInv(w)'
<1>1. UNCHANGED <<scanned, givenUp>> /\ jobs \subseteq jobs'
  BY DEF StartRecovery, ApproveRecovery, ReachQuorum, jobVars
<1>2. CASE w # v
  <2>1. rows'[w] = rows[w]
    BY <1>2 DEF StartRecovery, ApproveRecovery, ReachQuorum, TypeOK
  <2> QED
    BY <1>1, <2>1, ExpiryFrame DEF Active
<1>3. CASE w = v
  <2>1. ~KeyUsed(w)
    <3>1. CASE \E l \in Links : StartRecovery(l, v)
      BY <1>3, <3>1 DEF StartRecovery, ExpiryInv
    <3>2. CASE \E c \in Contacts : ApproveRecovery(v, c) \/ ReachQuorum(v, c)
      <4>1. rows[w].left \in Nat /\ rows[w].left > 0
        BY <1>3, <3>2 DEF ApproveRecovery, ReachQuorum, CanApprove, TypeOK, Row
      <4> QED
        BY <4>1 DEF ExpiryInv
    <3> QED
      BY <3>1, <3>2
  <2>2. ~KeyUsed(w)'
    BY <1>1, <2>1 DEF KeyUsed
  <2>3. HasScanJob(w)'
    <3>1. rows'[w].approvals \in SUBSET Contacts
      BY DEF TypeOK, Row
    <3>2. Cardinality(rows'[w].approvals) \in Nat
      BY <3>1, ApprovalsFinite
    <3> QED
      BY <2>2, <3>2 DEF HasScanJob, ScanKey, Version, KeyUsed
  <2>4. HasStartJob(w)' \/ (Active(w) /\ (HasStartJob(w) => HasStartJob(w)'))
    <3>1. CASE \E l \in Links : StartRecovery(l, v)
      BY <1>3, <3>1 DEF StartRecovery, HasStartJob, StartJob
    <3>2. CASE \E c \in Contacts : ApproveRecovery(v, c) \/ ReachQuorum(v, c)
      BY <1>1, <1>3, <3>2
         DEF ApproveRecovery, ReachQuorum, CanApprove, Active, ActiveStates, HasStartJob, StartJob
    <3> QED
      BY <3>1, <3>2
  <2> QED
    BY <1>1, <2>2, <2>3, <2>4 DEF ExpiryInv
<1> QED
  BY <1>2, <1>3

\* Cancelling, completing, and the steps that leave rows and jobs alone
LEMMA OthersExpiry ==
    ASSUME TypeOK, NEW w \in Recoveries, ExpiryInv(w),
           \/ \E l \in Links : RequestRecovery(l)
           \/ \E v \in Recoveries : \/ BookResetMail(v) \/ TryWrongCode(v)
                                    \/ CreateRewrapSession(v) \/ CompletePasswordReset(v)
           \/ CrashApi \/ AuthenticateOwner \/ StartDeathWorkflow \/ Tick \/ UNCHANGED vars
    PROVE  ExpiryInv(w)'
<1>1. ASSUME UNCHANGED <<rows, jobVars>> PROVE ExpiryInv(w)'
  BY <1>1, ExpiryFrame DEF Active, jobVars
<1>2. ASSUME NEW v \in Recoveries, NEW s \in {"CANCELLED", "EXPIRED", "COMPLETED"},
             rows' = [rows EXCEPT ![v].state = s], UNCHANGED jobVars
      PROVE  ExpiryInv(w)'
  <2>1. /\ rows'[w].left = rows[w].left
        /\ w # v => rows'[w] = rows[w]
        /\ w = v => rows'[w].state = s /\ ~Active(w)'
    <3>1. s \in {"CANCELLED", "EXPIRED", "COMPLETED"} /\ rows' = [rows EXCEPT ![v].state = s]
      BY <1>2
    <3> QED
      BY <3>1 DEF TypeOK, Row, Active, ActiveStates
  <2>2. Active(w)' => w # v /\ Active(w)
    BY <2>1 DEF Active
  <2>3. rows[w].state # "NONE" => rows'[w].state # "NONE"
    <3>1. s # "NONE"
      OBVIOUS
    <3>2. CASE w = v
      BY <2>1, <3>1, <3>2
    <3>3. CASE w # v
      BY <2>1, <3>3
    <3> QED
      BY <3>2, <3>3
  <2>4. UNCHANGED <<jobs, scanned, givenUp>>
    BY <1>2 DEF jobVars
  <2> QED
    BY <2>1, <2>2, <2>3, <2>4, ExpiryFrame
<1>3. CASE AuthenticateOwner \/ StartDeathWorkflow
  BY <1>1, <1>2, <1>3 DEF AuthenticateOwner, StartDeathWorkflow, CancelActiveRecovery, Ended
<1>4. ASSUME NEW v \in Recoveries, CompletePasswordReset(v) PROVE ExpiryInv(w)'
  BY <1>2, <1>4 DEF CompletePasswordReset
<1>5. CASE Tick
  <2>1. /\ rows'[w].state = rows[w].state /\ rows'[w].approvals = rows[w].approvals
        /\ rows[w].left = 0 => rows'[w].left = 0
    BY <1>5 DEF Tick, Elapsed, TypeOK, Row
  <2> QED
    BY <1>5, <2>1, ExpiryFrame DEF Tick, Active, jobVars
<1> QED
  BY <1>1, <1>3, <1>4, <1>5
     DEF RequestRecovery, BookResetMail, TryWrongCode, CreateRewrapSession, CrashApi, vars

\* Every step keeps the expiry of every recovery booked.
LEMMA StepExpiry ==
    ASSUME TypeOK, TypeOK', [Next]_vars, NEW w \in Recoveries, ExpiryInv(w)
    PROVE  ExpiryInv(w)'
  BY JobsExpiry, ScannerExpiry, ProgressExpiry, OthersExpiry DEF Next

\* An active recovery always has a job that will expire it, or the scanner may
\* still book one: with two bookings it takes two jobs that the queue gives up to
\* leave a recovery open for ever, whatever approvals, resets, deliveries again
\* and crashes come in between (startRecovery, reconcileDueDeadlines,
\* expireRecovery).
THEOREM ExpiryCorrect == Spec => []ExpiryIsBooked
<1> DEFINE Booked == \A w \in Recoveries : ExpiryInv(w)
<1>1. Init => Booked
  BY DEF Init, ExpiryInv, KeyUsed, Active, ActiveStates
<1>2. TypeOK /\ TypeOK' /\ Booked /\ [Next]_vars => Booked'
  BY StepExpiry
<1>3. TypeOK /\ Booked => ExpiryIsBooked
  BY DEF ExpiryInv, ExpiryIsBooked, TypeOK
<1> HIDE DEF Booked
<1> QED
  BY <1>1, <1>2, <1>3, RecoveryTypeCorrect, PTL DEF Spec

=============================================================================
