--------------------------- MODULE KeyChainProofs ---------------------------
(***************************************************************************)
(* Proofs about module KeyChain for any passwords, contacts, packages and  *)
(* number of workflows, rotations and dealings.  The inductive invariant   *)
(* IInv says of every stored piece of key material by whom, of what and    *)
(* under which key it was made: whatever is stored is what an honest       *)
(* browser or the server would make of the one vault key today.            *)
(***************************************************************************)
EXTENDS KeyChain, FiniteSetTheorems, TLAPS

VK == VaultKey(Vault)

-----------------------------------------------------------------------------
(* What is stored                                                          *)

\* A dealing of the vault key to a roster.
DealtRow(id, roster) ==
    LET threshold == [p \in Purposes |-> Threshold(p, Cardinality(roster))]
    IN  [id |-> id, roster |-> roster, threshold |-> threshold,
         shares |-> DealShares(VK, id, roster, threshold)]

\* A dealing that waits for its shares.
OpenRow(id, roster) ==
    [id |-> id, roster |-> roster,
     threshold |-> [p \in Purposes |-> Threshold(p, Cardinality(roster))], shares |-> None]

\* Contacts that have a key, enough of them for a dealing.
Rosters ==
    {r \in SUBSET Contacts :
        Cardinality(r) >= MinContacts /\ \A c \in r : contacts[c].status # "INVITED"}

VaultInv == vault # None => vault = SetupRequest(vault.password)

ContactsInv ==
    /\ contacts = [c \in Contacts |-> contacts[c]]
    /\ \A c \in Contacts :
          \/ contacts[c] = [status |-> "INVITED", password |-> None, envelope |-> None]
          \/ /\ contacts[c].status \in {"PENDING_KEYING", "ACTIVE"}
             /\ contacts[c] = [status |-> contacts[c].status, password |-> contacts[c].password,
                               envelope |-> ContactEnvelope(c, contacts[c].password)]

DealingInv ==
    /\ draft # None =>
          /\ vault # None
          /\ draft.roster \in Rosters
          /\ draft \in {OpenRow(draft.id, draft.roster), DealtRow(draft.id, draft.roster)}
    /\ generation # None =>
          /\ vault # None
          /\ generation.roster \in Rosters
          /\ generation = DealtRow(generation.id, generation.roster)

\* A workflow takes its dealing from the row of the generation and the threshold with it.
WorkflowInv ==
    workflow # None =>
        /\ vault # None
        /\ workflow.purpose \in Purposes
        /\ workflow.row.roster \in Rosters
        /\ workflow.row = DealtRow(workflow.row.id, workflow.row.roster)
        /\ workflow.required = workflow.row.threshold[workflow.purpose]
        /\ workflow = [id |-> workflow.id, purpose |-> workflow.purpose, state |-> workflow.state,
                       row |-> workflow.row, required |-> workflow.required]

DeployedInv == deployed \in [{"ingress", "stage"} -> [Purposes -> Nat \ {0}]]

\* The share a contact has to give.
GoodShare(c) == Share(workflow.row.shares.commitments[workflow.purpose], c)

\* As a page with that version of the ingress key submits it.
SubmittedFragment(c, version) ==
    [status |-> "PENDING",
     box |-> SealFragment(GoodShare(c), RowContext(c, version),
                          Capability("ingress", workflow.purpose, version)),
     ingress |-> version, stage |-> 0]

\* As the server keeps it.
StagedFragment(c, version) ==
    [status |-> "VALIDATED", ingress |-> version,
     box |-> WrapStage(GoodShare(c), RowContext(c, version), Current("stage", workflow.purpose)),
     stage |-> deployed["stage"][workflow.purpose]]

FragmentsInv ==
    /\ fragments = [c \in Contacts |-> fragments[c]]
    /\ \A c \in Contacts : fragments[c] # None =>
          /\ workflow # None
          /\ c \in workflow.row.roster
          /\ \/ /\ workflow.purpose = "DEATH"
                /\ fragments[c] = SubmittedFragment(c, fragments[c].ingress)
             \/ fragments[c] = StagedFragment(c, fragments[c].ingress)

SessionInv ==
    /\ session # None => workflow # None /\ session = WrapSession(VK)
    /\ workflow # None /\ workflow.state = "QUORUM" => session # None

RewrapInv == rewrap # None => workflow # None /\ rewrap = SealRecovery(workflow.id, VK, Browser)

PagesInv ==
    /\ pages = [c \in Contacts |-> pages[c]]
    /\ \A c \in Contacts : pages[c] # 0 => workflow # None /\ c \in workflow.row.roster

\* The key of a package in its envelope, as the browser makes it.
PackageDek(k, version) == WrapKey([dek |-> k], VK, PackageAad(k, version))

PackagesInv ==
    /\ prepared = [k \in Packages |-> prepared[k]]
    /\ packages = [k \in Packages |-> packages[k]]
    /\ \A k \in Packages :
          /\ prepared[k] # None =>
                prepared[k] = [version |-> prepared[k].version,
                               generation |-> prepared[k].generation,
                               password |-> prepared[k].password,
                               dek |-> PackageDek(k, prepared[k].version),
                               aadHash |-> PackageAad(k, prepared[k].version)]
          /\ packages[k] # None =>
                packages[k] = [status |-> packages[k].status,
                               version |-> packages[k].version,
                               generation |-> packages[k].generation,
                               dek |-> PackageDek(k, packages[k].version),
                               aadHash |-> PackageAad(k, packages[k].version)]

IInv ==
    /\ VaultInv
    /\ ContactsInv
    /\ DealingInv
    /\ WorkflowInv
    /\ DeployedInv
    /\ FragmentsInv
    /\ SessionInv
    /\ RewrapInv
    /\ PagesInv
    /\ PackagesInv

-----------------------------------------------------------------------------
(* Envelopes: what is put in comes out for the key and the context it was  *)
(* put in for, and None otherwise.                                         *)

\* No ciphertext and no key is the absent value.
LEMMA KeysAreNotNone ==
  /\ \A x : VaultKey(x) # None /\ Commitment(x) # None /\ PrivateKey(x) # None
  /\ \A x, y, z : Capability(x, y, z) # None /\ WrapKey(x, y, z) # None
  /\ \A x, y : Share(x, y) # None
  /\ \A x, y, z : SealFragment(x, y, z) # None /\ SealRecovery(x, y, z) # None
BY DEF None, VaultKey, Commitment, PrivateKey, Capability, WrapKey, Share, SealFragment, SealRecovery

\* Different secrets give different keys and commitments.
LEMMA KeysAreInjective ==
  /\ \A x, y : Kek(x) = Kek(y) => x = y
  /\ \A x, y : Commitment(x) = Commitment(y) => x = y
  /\ \A x, y : PrivateKey(x) = PrivateKey(y) => x = y
BY DEF Kek, Commitment, PrivateKey

\* A wrapped key opens with its wrapping key and context, and with no other.
LEMMA UnwrapWrapped ==
  ASSUME NEW key, NEW k, NEW l, NEW a, NEW b
  PROVE  UnwrapKey(WrapKey(key, k, a), l, b) = IF k = l /\ a = b THEN key ELSE None
BY DEF UnwrapKey, WrapKey

\* The owner's envelope opens with its password only.
LEMMA UnwrapOwnerWrapped ==
  ASSUME NEW p, NEW q, NEW key
  PROVE  UnwrapOwner(p, OwnerEnvelope(q, key)) = IF p = q THEN key ELSE None
BY UnwrapWrapped, KeysAreInjective DEF UnwrapOwner, OwnerEnvelope

\* A contact's envelope opens with its password only.
LEMMA UnwrapContactWrapped ==
  ASSUME NEW c, NEW p, NEW q
  PROVE  UnwrapContact(c, p, ContactEnvelope(c, q)) = IF p = q THEN PrivateKey(c) ELSE None
BY UnwrapWrapped, KeysAreInjective
   DEF UnwrapContact, ContactEnvelope, UnwrapContactPrivateKey, WrapContactPrivateKey

\* A sealed share opens for its holder under its own metadata.
LEMMA OpenSealedShare ==
  ASSUME NEW share, NEW m, NEW n, NEW c, NEW d
  PROVE  OpenShare(SealShare(share, m, c), n, PrivateKey(d)) =
             IF c = d /\ m = n THEN share ELSE None
BY KeysAreInjective DEF OpenShare, SealShare

\* Opening a sealed share never yields another share.
LEMMA OpenSealedShareAny ==
  ASSUME NEW share, NEW m, NEW n, NEW c, NEW key
  PROVE  OpenShare(SealShare(share, m, c), n, key) \in {share, None}
BY DEF OpenShare, SealShare

\* A sealed fragment opens with the ingress key it was sealed for.
LEMMA OpenSealedFragment ==
  ASSUME NEW share, NEW context, NEW key, NEW other
  PROVE  OpenFragment(SealFragment(share, context, key), context, other) =
             IF key = other THEN share ELSE None
BY DEF OpenFragment, SealFragment

\* A staged fragment opens with the key and context it was staged with.
LEMMA OpenWrappedStage ==
  ASSUME NEW share, NEW context, NEW key
  PROVE  OpenStage(WrapStage(share, context, key), context, key) = share
BY DEF OpenStage, WrapStage

\* The key sealed for a recovery's browser opens there.
LEMMA OpenSealedRecovery ==
  ASSUME NEW id, NEW key, NEW holder
  PROVE  OpenRecovery(SealRecovery(id, key, holder), id, PrivateKey(holder)) = key
BY DEF OpenRecovery, SealRecovery

-----------------------------------------------------------------------------
(* Dealings                                                                *)

\* The context and the commitments of the dealing for a purpose.
DealingContext(purpose, id, roster) ==
    VssContext(Vault, id, purpose, Threshold(purpose, Cardinality(roster)), Cardinality(roster),
               Commitment(VK))

DealingCommitments(purpose, id, roster) ==
    Commitments(VK, DealingContext(purpose, id, roster))

\* The fields of a generation that has been dealt.
LEMMA DealtRowShape ==
  ASSUME NEW id, NEW roster, NEW purpose \in Purposes
  PROVE  LET row == DealtRow(id, roster)
         IN  /\ row.id = id
             /\ row.roster = roster
             /\ row.threshold[purpose] = Threshold(purpose, Cardinality(roster))
             /\ row.shares # None
             /\ row.shares.commitments[purpose] = DealingCommitments(purpose, id, roster)
             /\ \A c \in roster : row.shares.sealed[purpose][c] =
                   SealShare(Share(DealingCommitments(purpose, id, roster), c),
                             ShareMetadata(purpose, Vault, id, c,
                                           Threshold(purpose, Cardinality(roster)),
                                           DealingCommitments(purpose, id, roster)),
                             c)
<1> DEFINE threshold == [p \in Purposes |-> Threshold(p, Cardinality(roster))]
           Dealing(p) == Commitments(VK,
               VssContext(Vault, id, p, threshold[p], Cardinality(roster), Commitment(VK)))
           shares == [commitments |-> [p \in Purposes |-> Dealing(p)],
                      sealed |-> [p \in Purposes |->
                          SealGeneration(p, Vault, id, roster, threshold[p], Dealing(p))]]
<1>1. DealtRow(id, roster) =
          [id |-> id, roster |-> roster, threshold |-> threshold, shares |-> shares]
  BY DEF DealtRow, DealShares
<1>2. threshold[purpose] = Threshold(purpose, Cardinality(roster))
  OBVIOUS
<1>3. Dealing(purpose) = DealingCommitments(purpose, id, roster)
  BY <1>2 DEF DealingCommitments, DealingContext
<1>4. shares.commitments[purpose] = Dealing(purpose) /\ shares # None
  BY DEF None
<1>5. shares.sealed[purpose] =
          SealGeneration(purpose, Vault, id, roster, threshold[purpose], Dealing(purpose))
  OBVIOUS
<1>6. \A c \in roster : shares.sealed[purpose][c] =
          SealShare(Share(Dealing(purpose), c),
                    ShareMetadata(purpose, Vault, id, c, threshold[purpose], Dealing(purpose)), c)
  BY <1>5 DEF SealGeneration
<1> QED
  BY <1>1, <1>2, <1>3, <1>4, <1>6

\* A threshold asks for two shares at least and for no more than there are.
LEMMA ThresholdBounds ==
  ASSUME NEW n \in Nat, n >= 2, NEW purpose \in Purposes
  PROVE  Threshold(purpose, n) \in 2..n
BY DEF Threshold, DeathThreshold, RecoveryThreshold

\* Shares of enough holders combine to the secret.
LEMMA EnoughShares ==
  ASSUME NEW id, NEW roster \in SUBSET Contacts, Cardinality(roster) >= MinContacts,
         NEW purpose \in Purposes, NEW holders \in SUBSET roster,
         Cardinality(holders) >= Threshold(purpose, Cardinality(roster))
  PROVE  CombineShares({Share(DealingCommitments(purpose, id, roster), c) : c \in holders},
                       DealingCommitments(purpose, id, roster),
                       DealingContext(purpose, id, roster)) = VK
<1> DEFINE com == DealingCommitments(purpose, id, roster)
           context == DealingContext(purpose, id, roster)
           shares == {Share(com, c) : c \in holders}
           share == [c \in holders |-> Share(com, c)]
           n == Cardinality(roster)
<1>1. /\ IsFiniteSet(roster) /\ IsFiniteSet(holders)
      /\ n \in Nat /\ Cardinality(holders) \in Nat /\ Cardinality(holders) <= n
  BY ContactsAssumption, FS_Subset, FS_CardinalityType
<1>2. n >= 2 /\ Threshold(purpose, n) \in 2..n /\ Threshold(purpose, n) <= Cardinality(holders)
  BY <1>1, ThresholdBounds, ContactsAssumption
<1>3. com.context = context /\ com.secret = VK
  BY DEF DealingCommitments, Commitments
<1>4. context.threshold = Threshold(purpose, n) /\ context.count = n
  BY DEF DealingContext, VssContext
<1>5. \A c : Share(com, c).holder = c /\ Share(com, c).commitments = com
  BY DEF Share
<1>6. {s.holder : s \in shares} = holders
  BY <1>5
<1>7. Cardinality(shares) <= Cardinality(holders) /\ Cardinality(shares) \in Nat
  <2>1. share \in Surjection(holders, shares)
    BY DEF Surjection
  <2> QED
    BY <1>1, <2>1, FS_Surjection, FS_CardinalityType
<1>8. \A s \in shares : VerifyShare(s, com, context)
  BY <1>3, <1>5 DEF VerifyShare
<1> HIDE DEF com, context, shares, n
<1>9. /\ context.threshold \in 2..Cardinality({s.holder : s \in shares})
      /\ Cardinality(shares) <= context.count
  <2>1. Threshold(purpose, n) \in 2..Cardinality(holders) /\ Cardinality(shares) <= n
    BY <1>1, <1>2, <1>7
  <2> QED
    BY <2>1, <1>4, <1>6
<1>10. CombineShares(shares, com, context) = VK
  BY <1>3, <1>8, <1>9 DEF CombineShares
<1> QED
  BY <1>10 DEF com, context, shares

\* Shares of too few holders do not, whatever they are.
LEMMA TooFewShares ==
  ASSUME NEW commitments, NEW context, NEW shares, NEW n \in Nat, NEW t \in Nat, n < t,
         context.threshold = t, Cardinality({s.holder : s \in shares}) <= n,
         Cardinality({s.holder : s \in shares}) \in Nat
  PROVE  CombineShares(shares, commitments, context) = None
BY DEF CombineShares

-----------------------------------------------------------------------------
(* What the invariant says of a state                                      *)

\* The fields of the owner's row at setup.
LEMMA SetupShape ==
  ASSUME NEW p
  PROVE  /\ SetupRequest(p) # None
         /\ SetupRequest(p).password = p
         /\ SetupRequest(p).envelope = OwnerEnvelope(p, VK)
         /\ SetupRequest(p).commitment = Commitment(VK)
BY DEF SetupRequest, None, VK

\* A replaced envelope gives the row that setup would have written.
LEMMA SetupReplaced ==
  ASSUME NEW p, NEW q, NEW new,
         new = [SetupRequest(p) EXCEPT !.password = q, !.envelope = OwnerEnvelope(q, VK)]
  PROVE  new = SetupRequest(q)
<1>1. ASSUME NEW a, NEW b, NEW c, NEW d, NEW e, NEW r, NEW s,
             r = [password |-> a, envelope |-> b, commitment |-> c],
             s = [r EXCEPT !.password = d, !.envelope = e]
      PROVE  s = [password |-> d, envelope |-> e, commitment |-> c]
  BY <1>1
<1> QED
  BY <1>1 DEF SetupRequest, VK

\* The vault's envelope holds the vault key under the password of today.
LEMMA VaultOpens ==
  ASSUME VaultInv, vault # None
  PROVE  /\ vault.commitment = Commitment(VK)
         /\ vault.envelope = OwnerEnvelope(vault.password, VK)
         /\ \A p : UnwrapOwner(p, vault.envelope) = IF p = vault.password THEN VK ELSE None
<1>1. PICK p : p = vault.password
  OBVIOUS
<1>2. vault = SetupRequest(p)
  BY <1>1 DEF VaultInv
<1>3. vault.commitment = Commitment(VK) /\ vault.envelope = OwnerEnvelope(p, VK)
  BY <1>2, SetupShape
<1>4. \A q : UnwrapOwner(q, vault.envelope) = IF q = p THEN VK ELSE None
  BY <1>3, UnwrapOwnerWrapped
<1> QED
  BY <1>1, <1>3, <1>4

\* The database expects of a dealing what the browser dealt.
LEMMA RowExpected ==
  ASSUME VaultInv, vault # None, NEW row, row = DealtRow(row.id, row.roster),
         NEW purpose \in Purposes
  PROVE  /\ ExpectedDealing(row, purpose) = DealingContext(purpose, row.id, row.roster)
         /\ row.shares.commitments[purpose] = DealingCommitments(purpose, row.id, row.roster)
<1>1. /\ row.threshold[purpose] = Threshold(purpose, Cardinality(row.roster))
      /\ row.shares.commitments[purpose] = DealingCommitments(purpose, row.id, row.roster)
  BY DealtRowShape
<1> QED
  BY <1>1, VaultOpens DEF ExpectedDealing, DealingContext

\* A share dealt for the workflow's generation passes validation.
LEMMA GoodShareIsValid ==
  ASSUME VaultInv, WorkflowInv, workflow # None, NEW c
  PROVE  ValidShare(GoodShare(c)) /\ GoodShare(c) # None
<1>1. /\ ExpectedDealing(workflow.row, workflow.purpose) =
             DealingContext(workflow.purpose, workflow.row.id, workflow.row.roster)
      /\ workflow.row.shares.commitments[workflow.purpose] =
             DealingCommitments(workflow.purpose, workflow.row.id, workflow.row.roster)
  BY RowExpected DEF WorkflowInv
<1> QED
  BY <1>1, KeysAreNotNone
     DEF ValidShare, GoodShare, VerifyShare, Share, DealingCommitments, Commitments

\* A validated fragment opens to the share its contact was dealt.
LEMMA StagedFragmentOpens ==
  ASSUME NEW c, NEW version, fragments[c] = StagedFragment(c, version)
  PROVE  StagedShare(c) = GoodShare(c)
<1>1. /\ fragments[c].ingress = version
      /\ fragments[c].stage = deployed["stage"][workflow.purpose]
      /\ fragments[c].box = WrapStage(GoodShare(c), RowContext(c, version),
                                       Current("stage", workflow.purpose))
  BY DEF StagedFragment
<1>2. /\ KeyForVersion("stage", workflow.purpose, fragments[c].stage) =
             Current("stage", workflow.purpose)
      /\ Current("stage", workflow.purpose) # None
  BY <1>1, KeysAreNotNone DEF KeyForVersion, Current
<1> QED
  BY <1>1, <1>2, OpenWrappedStage DEF StagedShare

\* The fields of a fragment as a contact submits it.
LEMMA SubmittedFragmentShape ==
  ASSUME NEW c, NEW version
  PROVE  /\ SubmittedFragment(c, version) # None
         /\ SubmittedFragment(c, version).status = "PENDING"
         /\ SubmittedFragment(c, version).ingress = version
         /\ SubmittedFragment(c, version).box =
                SealFragment(GoodShare(c), RowContext(c, version),
                             Capability("ingress", workflow.purpose, version))
BY DEF SubmittedFragment, None

\* The fields of a fragment as the worker validates it.
LEMMA StagedFragmentShape ==
  ASSUME NEW c, NEW version
  PROVE  /\ StagedFragment(c, version) # None
         /\ StagedFragment(c, version).status = "VALIDATED"
         /\ StagedFragment(c, version).ingress = version
BY DEF StagedFragment, None

\* The release session opens to the vault key.
LEMMA SessionOpens ==
  ASSUME SessionInv, session # None
  PROVE  SessionKey = VK /\ session.commitment = Commitment(VK)
<1>1. session = WrapSession(VK)
  BY DEF SessionInv
<1>2. /\ session.stage = deployed["stage"][workflow.purpose]
      /\ session.commitment = Commitment(VK)
      /\ session.box = WrapKey(VK, Current("stage", workflow.purpose),
                               StageAad(workflow.purpose, workflow.id))
  BY <1>1 DEF WrapSession
<1>3. /\ KeyForVersion("stage", workflow.purpose, session.stage) =
             Current("stage", workflow.purpose)
      /\ Current("stage", workflow.purpose) # None
  BY <1>2, KeysAreNotNone DEF KeyForVersion, Current
<1> QED
  BY <1>2, <1>3, UnwrapWrapped DEF SessionKey

\* A contact can open nothing but the share dealt to it.
LEMMA ContactOpensOwnShare ==
  ASSUME WorkflowInv, workflow # None, NEW c \in workflow.row.roster, NEW p, NEW required
  PROVE  OpenContactShare(c, p, workflow.row, workflow.purpose, required) \in {GoodShare(c), None}
<1> DEFINE row == workflow.row
           purpose == workflow.purpose
<1>1. purpose \in Purposes /\ row = DealtRow(row.id, row.roster)
  BY DEF WorkflowInv
<1>2. /\ row.shares.commitments[purpose] = DealingCommitments(purpose, row.id, row.roster)
      /\ row.shares.sealed[purpose][c] =
             SealShare(Share(DealingCommitments(purpose, row.id, row.roster), c),
                       ShareMetadata(purpose, Vault, row.id, c,
                                     Threshold(purpose, Cardinality(row.roster)),
                                     DealingCommitments(purpose, row.id, row.roster)),
                       c)
  BY <1>1, DealtRowShape
<1> QED
  BY <1>2, OpenSealedShareAny DEF OpenContactShare, GoodShare

-----------------------------------------------------------------------------
(* Steps on vault and contacts                                             *)

\* Contacts never lose their key again.
KeysStay == \A c \in Contacts : contacts[c].status # "INVITED" => contacts'[c].status # "INVITED"

\* A roster that may be dealt to stays one as long as contacts stay.
LEMMA RostersStay ==
  ASSUME KeysStay
  PROVE  Rosters \subseteq Rosters'
BY DEF KeysStay, Rosters

\* Parts of the invariant that know nothing of vault and contacts.
LEMMA OtherPartsStay ==
  ASSUME UNCHANGED <<workflowVars, packageVars, deployed>>,
         DeployedInv, FragmentsInv, SessionInv, RewrapInv, PagesInv, PackagesInv
  PROVE  (DeployedInv /\ FragmentsInv /\ SessionInv /\ RewrapInv /\ PagesInv /\ PackagesInv)'
<1> USE DEF workflowVars, packageVars, stagedVars
<1>1. DeployedInv' /\ RewrapInv' /\ PagesInv'
  BY DEF DeployedInv, RewrapInv, PagesInv
<1>2. FragmentsInv'
  BY DEF FragmentsInv, SubmittedFragment, StagedFragment, GoodShare, RowContext, Current
<1>3. SessionInv'
  BY DEF SessionInv, WrapSession, Current
<1>4. PackagesInv'
  BY DEF PackagesInv
<1> QED
  BY <1>1, <1>2, <1>3, <1>4

\* A step that changes only passwords and envelopes keeps the invariant.
LEMMA KeyVarsStep ==
  ASSUME IInv, VaultInv', ContactsInv', KeysStay, vault # None => vault' # None,
         UNCHANGED <<dealingVars, workflowVars, packageVars, deployed>>
  PROVE  IInv'
<1>1. DealingInv'
  BY RostersStay DEF IInv, DealingInv, dealingVars
<1>2. WorkflowInv'
  BY RostersStay DEF IInv, WorkflowInv, workflowVars
<1> QED
  BY <1>1, <1>2, OtherPartsStay DEF IInv

LEMMA CreateOwnerOK ==
  ASSUME IInv, NEW p \in Passwords, CreateOwner(p)
  PROVE  IInv'
<1>1. VaultInv' /\ vault' # None
  BY SetupShape DEF CreateOwner, VaultInv
<1>2. ContactsInv' /\ KeysStay
  BY DEF IInv, CreateOwner, ContactsInv, KeysStay
<1> QED
  BY <1>1, <1>2, KeyVarsStep DEF CreateOwner

LEMMA ChangeOwnerPasswordOK ==
  ASSUME IInv, NEW p \in Passwords, NEW q \in Passwords, ChangeOwnerPassword(p, q)
  PROVE  IInv'
<1>1. vault # None /\ vault = SetupRequest(vault.password)
  BY DEF ChangeOwnerPassword, IInv, VaultInv
<1>2. OwnerPasswordChange(p, q) # None /\ OwnerPasswordChange(p, q).new = q
      /\ OwnerPasswordChange(p, q).wrapped.envelope = OwnerEnvelope(q, VK)
  BY <1>1, VaultOpens DEF ChangeOwnerPassword, OwnerPasswordChange, RewrapOwner, IInv
<1>3. vault' = [vault EXCEPT !.password = q, !.envelope = OwnerEnvelope(q, VK)]
  BY <1>2 DEF ChangeOwnerPassword
<1>4. vault' = SetupRequest(q)
  <2>1. PICK o : vault = SetupRequest(o)
    BY <1>1
  <2> QED
    BY <1>3, <2>1, SetupReplaced
<1>5. VaultInv' /\ vault' # None
  BY <1>4, SetupShape DEF VaultInv
<1>6. ContactsInv' /\ KeysStay
  BY DEF IInv, ChangeOwnerPassword, ContactsInv, KeysStay
<1> QED
  BY <1>5, <1>6, KeyVarsStep DEF ChangeOwnerPassword

LEMMA AcceptInvitationOK ==
  ASSUME IInv, NEW c \in Contacts, NEW p \in Passwords, AcceptInvitation(c, p)
  PROVE  IInv'
<1>1. VaultInv' /\ (vault # None => vault' # None)
  BY DEF IInv, AcceptInvitation, VaultInv
<1>2. contacts' = [contacts EXCEPT ![c] =
          [status |-> "PENDING_KEYING", password |-> p, envelope |-> ContactEnvelope(c, p)]]
  BY DEF AcceptInvitation, Acceptance
<1>3. ContactsInv' /\ KeysStay
  BY <1>2 DEF IInv, ContactsInv, KeysStay
<1> QED
  BY <1>1, <1>3, KeyVarsStep DEF AcceptInvitation

LEMMA ChangeContactPasswordOK ==
  ASSUME IInv, NEW c \in Contacts, NEW p \in Passwords, NEW q \in Passwords,
         ChangeContactPassword(c, p, q)
  PROVE  IInv'
<1>1. VaultInv' /\ (vault # None => vault' # None)
  BY DEF IInv, ChangeContactPassword, VaultInv
<1>2. /\ contacts[c].status \in {"PENDING_KEYING", "ACTIVE"}
      /\ contacts[c] = [status |-> contacts[c].status, password |-> contacts[c].password,
                         envelope |-> ContactEnvelope(c, contacts[c].password)]
  BY DEF IInv, ContactsInv, ChangeContactPassword
<1>3. /\ ContactPasswordChange(c, p, q).new = q
      /\ ContactPasswordChange(c, p, q).envelope = ContactEnvelope(c, q)
  BY DEF ChangeContactPassword, ContactPasswordChange, RewrapContact
<1>4. contacts' = [contacts EXCEPT ![c].password = q, ![c].envelope = ContactEnvelope(c, q)]
  BY <1>3 DEF ChangeContactPassword
<1>5. /\ contacts' = [d \in Contacts |-> contacts'[d]]
      /\ \A d \in Contacts \ {c} : contacts'[d] = contacts[d]
      /\ contacts'[c] = [contacts[c] EXCEPT !.password = q, !.envelope = ContactEnvelope(c, q)]
  BY <1>4 DEF IInv, ContactsInv
<1>6. contacts'[c] = [status |-> contacts[c].status, password |-> q,
                      envelope |-> ContactEnvelope(c, q)]
  BY <1>2, <1>5
<1>7. ContactsInv' /\ KeysStay
  BY <1>2, <1>5, <1>6 DEF IInv, ContactsInv, KeysStay
<1> QED
  BY <1>1, <1>7, KeyVarsStep DEF ChangeContactPassword

-----------------------------------------------------------------------------
(* Steps on dealings and packages                                          *)

\* Dealing fills in the shares and keeps the other fields.
LEMMA DealtRowFields ==
  ASSUME NEW id, NEW roster
  PROVE  /\ DealtRow(id, roster).id = id /\ DealtRow(id, roster).roster = roster
         /\ DealtRow(id, roster) # None
         /\ OpenRow(id, roster).id = id /\ OpenRow(id, roster).roster = roster
         /\ OpenRow(id, roster) # None
         /\ OpenRow(id, roster).threshold = DealtRow(id, roster).threshold
         /\ DealtRow(id, roster).threshold = [p \in Purposes |-> Threshold(p, Cardinality(roster))]
BY DEF DealtRow, OpenRow, None

\* What the page of the dealing sends turns an open row into a dealt one.
LEMMA OpenRowDealt ==
  ASSUME NEW id, NEW roster, NEW row, NEW new, row = OpenRow(id, roster),
         new = [row EXCEPT !.shares = DealShares(VK, id, roster, row.threshold)]
  PROVE  new = DealtRow(id, roster)
<1>1. ASSUME NEW a, NEW b, NEW c, NEW d, NEW e, NEW r, NEW s,
             r = [id |-> a, roster |-> b, threshold |-> c, shares |-> d],
             s = [r EXCEPT !.shares = e]
      PROVE  s = [id |-> a, roster |-> b, threshold |-> c, shares |-> e]
  BY <1>1
<1>2. row.threshold = [p \in Purposes |-> Threshold(p, Cardinality(roster))]
  BY DealtRowFields
<1> QED
  BY <1>1, <1>2 DEF OpenRow, DealtRow

\* Parts of the invariant that know nothing of dealings.
LEMMA DealingStep ==
  ASSUME IInv, UNCHANGED vault, ContactsInv', KeysStay, DealingInv',
         UNCHANGED <<workflowVars, packageVars, deployed>>
  PROVE  IInv'
<1>1. VaultInv'
  BY DEF IInv, VaultInv
<1>2. WorkflowInv'
  BY RostersStay DEF IInv, WorkflowInv, workflowVars
<1> QED
  BY <1>1, <1>2, OtherPartsStay DEF IInv

LEMMA CreateShareGenerationOK ==
  ASSUME IInv, CreateShareGeneration
  PROVE  IInv'
<1> USE DEF CreateShareGeneration, keyVars
<1>1. ContactsInv' /\ KeysStay
  BY DEF IInv, ContactsInv, KeysStay
<1>2. Keyable \in Rosters
  BY DEF Keyable, Rosters
<1>3. draft' = OpenRow(generations + 1, Keyable)
  BY DEF OpenRow
<1>4. Rosters' = Rosters
  BY DEF Rosters
<1>5. \A id, r : OpenRow(id, r)' = OpenRow(id, r) /\ DealtRow(id, r)' = DealtRow(id, r)
  BY DEF OpenRow, DealtRow
<1>6. DealingInv'
  BY <1>2, <1>3, <1>4, <1>5, DealtRowFields DEF IInv, DealingInv
<1> QED
  BY <1>1, <1>6, DealingStep

LEMMA UploadShareGenerationOK ==
  ASSUME IInv, NEW p \in Passwords, UploadShareGeneration(p)
  PROVE  IInv'
<1> USE DEF keyVars
<1>1. ContactsInv' /\ KeysStay /\ Rosters' = Rosters
  BY DEF UploadShareGeneration, IInv, ContactsInv, KeysStay, Rosters
<1>2. /\ draft # None /\ vault # None /\ draft.shares = None
      /\ draft.roster \in Rosters
      /\ draft = OpenRow(draft.id, draft.roster)
  <2>1. \A id, r : DealtRow(id, r).shares # None
    BY DEF DealtRow, DealShares, None
  <2> QED
    BY <2>1 DEF UploadShareGeneration, IInv, DealingInv
<1>3. ShareUpload(p, draft).shares = DealShares(VK, draft.id, draft.roster, draft.threshold)
  BY <1>2, VaultOpens DEF UploadShareGeneration, ShareUpload, IInv
<1>4. draft' = DealtRow(draft.id, draft.roster)
  BY <1>2, <1>3, OpenRowDealt DEF UploadShareGeneration
<1>5. DealingInv'
  BY <1>1, <1>2, <1>4, DealtRowFields DEF UploadShareGeneration, IInv, DealingInv
<1> QED
  BY <1>1, <1>5, DealingStep DEF UploadShareGeneration

LEMMA ActivateShareGenerationOK ==
  ASSUME IInv, ActivateShareGeneration
  PROVE  IInv'
<1>1. \A c \in Contacts : contacts'[c] =
          IF c \in draft.roster THEN [contacts[c] EXCEPT !.status = "ACTIVE"] ELSE contacts[c]
  BY DEF ActivateShareGeneration
<1>2. /\ draft # None /\ draft.shares # None /\ vault # None
      /\ draft.roster \in Rosters
      /\ draft = DealtRow(draft.id, draft.roster)
  <2>1. \A id, r : OpenRow(id, r).shares = None
    BY DEF OpenRow
  <2> QED
    BY <2>1 DEF ActivateShareGeneration, IInv, DealingInv
<1>3. ContactsInv' /\ KeysStay
  <2>1. ASSUME NEW c \in Contacts, c \in draft.roster
        PROVE  /\ contacts'[c].status = "ACTIVE"
               /\ contacts'[c] = [status |-> "ACTIVE", password |-> contacts'[c].password,
                                  envelope |-> ContactEnvelope(c, contacts'[c].password)]
    <3>1. contacts[c].status # "INVITED"
      BY <1>2, <2>1 DEF Rosters
    <3>2. contacts[c] = [status |-> contacts[c].status, password |-> contacts[c].password,
                         envelope |-> ContactEnvelope(c, contacts[c].password)]
      BY <3>1 DEF IInv, ContactsInv
    <3>3. contacts'[c] = [contacts[c] EXCEPT !.status = "ACTIVE"]
      BY <1>1, <2>1
    <3>4. contacts'[c] = [status |-> "ACTIVE", password |-> contacts[c].password,
                          envelope |-> ContactEnvelope(c, contacts[c].password)]
      BY <3>2, <3>3
    <3> QED
      BY <3>4
  <2>2. contacts' = [c \in Contacts |-> contacts'[c]]
    BY DEF ActivateShareGeneration
  <2> QED
    BY <1>1, <2>1, <2>2 DEF IInv, ContactsInv, KeysStay
<1>4. DealingInv'
  BY <1>2, <1>3, RostersStay DEF ActivateShareGeneration, DealingInv
<1> QED
  BY <1>3, <1>4, DealingStep DEF ActivateShareGeneration

\* A step on packages leaves the rest of the invariant alone.
LEMMA PackageStep ==
  ASSUME IInv, PackagesInv', UNCHANGED <<keyVars, dealingVars, workflowVars, deployed>>
  PROVE  IInv'
<1> USE DEF keyVars, dealingVars, workflowVars, stagedVars
<1>1. VaultInv' /\ ContactsInv' /\ Rosters' = Rosters
  BY DEF IInv, VaultInv, ContactsInv, Rosters
<1>2. DealingInv' /\ WorkflowInv'
  BY <1>1 DEF IInv, DealingInv, WorkflowInv
<1>3. DeployedInv' /\ RewrapInv' /\ PagesInv'
  BY DEF IInv, DeployedInv, RewrapInv, PagesInv
<1>4. FragmentsInv'
  BY DEF IInv, FragmentsInv, SubmittedFragment, StagedFragment, GoodShare, RowContext, Current
<1>5. SessionInv'
  BY DEF IInv, SessionInv, WrapSession, Current
<1> QED
  BY <1>1, <1>2, <1>3, <1>4, <1>5 DEF IInv

LEMMA PreparePackageOK ==
  ASSUME IInv, NEW k \in Packages, NEW p \in Passwords, PreparePackage(k, p)
  PROVE  IInv'
<1>1. vault # None /\ UnwrapOwner(p, vault.envelope) \in {VK, None}
  BY VaultOpens DEF PreparePackage, IInv, DealingInv
<1>2. PICK v, g : Prepared(k, p) =
          [version |-> v, generation |-> g, password |-> p,
           dek |-> PackageDek(k, v), aadHash |-> PackageAad(k, v)]
  BY <1>1 DEF PreparePackage, Prepared, PackageDek
<1>3. /\ prepared' = [j \in Packages |-> prepared'[j]]
      /\ prepared'[k] = Prepared(k, p)
      /\ \A j \in Packages \ {k} : prepared'[j] = prepared[j]
  BY DEF PreparePackage, IInv, PackagesInv
<1>4. PackagesInv'
  BY <1>2, <1>3 DEF PreparePackage, IInv, PackagesInv
<1> QED
  BY <1>4, PackageStep DEF PreparePackage

LEMMA CreateUploadSessionOK ==
  ASSUME IInv, NEW k \in Packages, CreateUploadSession(k)
  PROVE  IInv'
<1>1. prepared[k].dek = PackageDek(k, prepared[k].version)
      /\ prepared[k].aadHash = PackageAad(k, prepared[k].version)
  BY DEF CreateUploadSession, IInv, PackagesInv
<1>2. /\ packages' = [j \in Packages |-> packages'[j]]
      /\ packages'[k] = [status |-> "READY", version |-> prepared[k].version,
                         generation |-> prepared[k].generation,
                         dek |-> PackageDek(k, prepared[k].version),
                         aadHash |-> PackageAad(k, prepared[k].version)]
      /\ \A j \in Packages \ {k} : packages'[j] = packages[j]
  BY <1>1 DEF CreateUploadSession, IInv, PackagesInv
<1>3. PackagesInv'
  BY <1>2 DEF CreateUploadSession, IInv, PackagesInv
<1> QED
  BY <1>3, PackageStep DEF CreateUploadSession

\* A change of status keeps the sealed data key.
LEMMA PackageStatusChange ==
  ASSUME NEW row, NEW new, NEW s, NEW k, NEW v,
         row = [status |-> row.status, version |-> v, generation |-> row.generation,
                dek |-> PackageDek(k, v), aadHash |-> PackageAad(k, v)],
         new = [row EXCEPT !.status = s]
  PROVE  new = [status |-> s, version |-> v, generation |-> row.generation,
                dek |-> PackageDek(k, v), aadHash |-> PackageAad(k, v)]
<1>1. ASSUME NEW a, NEW b, NEW c, NEW d, NEW e, NEW q, NEW r,
             q = [status |-> a, version |-> b, generation |-> c, dek |-> d, aadHash |-> e],
             r = [q EXCEPT !.status = s]
      PROVE  r = [status |-> s, version |-> b, generation |-> c, dek |-> d, aadHash |-> e]
  BY <1>1
<1> QED
  BY <1>1

LEMMA ActivatePackageOK ==
  ASSUME IInv, NEW k \in Packages, ActivatePackage(k)
  PROVE  IInv'
<1> DEFINE Sealed(row, j) ==
        row = [status |-> row.status, version |-> row.version, generation |-> row.generation,
               dek |-> PackageDek(j, row.version), aadHash |-> PackageAad(j, row.version)]
<1>1. /\ packages' = [j \in Packages |-> packages'[j]]
      /\ prepared' = [j \in Packages |-> prepared'[j]]
      /\ \A j \in Packages : prepared'[j] \in {prepared[j], None}
  BY DEF ActivatePackage, IInv, PackagesInv
<1>2. ASSUME NEW j \in Packages, packages'[j] # packages[j]
      PROVE  packages[j] # None /\ \E s : packages'[j] = [packages[j] EXCEPT !.status = s]
  <2>1. packages'[j] = IF j = k THEN [packages[k] EXCEPT !.status = "ACTIVE"]
                       ELSE IF j \in ActiveIn(packages)
                       THEN [packages[j] EXCEPT !.status = "SUPERSEDED"] ELSE packages[j]
    BY DEF ActivatePackage
  <2>2. CASE j = k
    BY <2>1, <2>2 DEF ActivatePackage
  <2>3. CASE j # k
    <3>1. j \in ActiveIn(packages) /\ packages'[j] = [packages[j] EXCEPT !.status = "SUPERSEDED"]
      BY <1>2, <2>1, <2>3
    <3> QED
      BY <3>1 DEF ActiveIn
  <2> QED
    BY <2>2, <2>3
<1>3. ASSUME NEW j \in Packages, packages'[j] # None
      PROVE  Sealed(packages'[j], j)
  <2>1. CASE packages'[j] = packages[j]
    <3>1. packages[j] # None
      BY <1>3, <2>1
    <3>2. Sealed(packages[j], j)
      BY <3>1 DEF IInv, PackagesInv
    <3> QED
      BY <2>1, <3>2
  <2>2. CASE packages'[j] # packages[j]
    <3>1. PICK s : packages[j] # None /\ packages'[j] = [packages[j] EXCEPT !.status = s]
      BY <1>2, <2>2
    <3>2. PICK v : packages[j] = [status |-> packages[j].status, version |-> v,
                                  generation |-> packages[j].generation,
                                  dek |-> PackageDek(j, v), aadHash |-> PackageAad(j, v)]
      BY <3>1 DEF IInv, PackagesInv
    <3>3. packages'[j] = [status |-> s, version |-> v, generation |-> packages[j].generation,
                         dek |-> PackageDek(j, v), aadHash |-> PackageAad(j, v)]
      BY <3>1, <3>2, PackageStatusChange
    <3>4. packages'[j].status = s /\ packages'[j].version = v
          /\ packages'[j].generation = packages[j].generation
      BY <3>3
    <3> QED
      BY <3>3, <3>4
  <2> QED
    BY <2>1, <2>2
<1>4. PackagesInv'
  BY <1>1, <1>3 DEF IInv, PackagesInv
<1> QED
  BY <1>4, PackageStep DEF ActivatePackage

-----------------------------------------------------------------------------
(* Steps on a workflow                                                     *)

\* A step that leaves keys, dealings and packages alone.
LEMMA WorkflowStep ==
  ASSUME IInv, UNCHANGED <<keyVars, dealingVars, packageVars>>,
         WorkflowInv', DeployedInv', FragmentsInv', SessionInv', RewrapInv', PagesInv'
  PROVE  IInv'
<1> USE DEF keyVars, dealingVars, packageVars
<1>1. VaultInv' /\ ContactsInv' /\ Rosters' = Rosters
  BY DEF IInv, VaultInv, ContactsInv, Rosters
<1>2. DealingInv' /\ PackagesInv'
  BY <1>1 DEF IInv, DealingInv, PackagesInv
<1> QED
  BY <1>1, <1>2 DEF IInv

\* Once the material is destroyed there is nothing left to open.
LEMMA MaterialDestroyed ==
  ASSUME DestroyMaterial, workflow' # None => workflow'.state # "QUORUM"
  PROVE  FragmentsInv' /\ SessionInv' /\ RewrapInv' /\ PagesInv'
BY DEF DestroyMaterial, NoFragments, FragmentsInv, SessionInv, RewrapInv, PagesInv

\* The same workflow, whatever its state: nothing that is kept for it changes.
Continues ==
    /\ workflow # None /\ workflow' # None
    /\ workflow'.id = workflow.id
    /\ workflow'.purpose = workflow.purpose
    /\ workflow'.row = workflow.row
    /\ workflow'.required = workflow.required
    /\ workflow' = [id |-> workflow'.id, purpose |-> workflow'.purpose, state |-> workflow'.state,
                    row |-> workflow'.row, required |-> workflow'.required]

\* A workflow that does not change continues.
LEMMA WorkflowUnchanged ==
  ASSUME WorkflowInv, workflow # None, workflow' = workflow
  PROVE  Continues
BY DEF Continues, WorkflowInv

\* So does one that changes its state only.
LEMMA WorkflowStateChange ==
  ASSUME WorkflowInv, workflow # None, NEW s, workflow' = [workflow EXCEPT !.state = s]
  PROVE  Continues /\ workflow'.state = s
<1>1. ASSUME NEW a, NEW b, NEW c, NEW d, NEW e, NEW q, NEW r,
             q = [id |-> a, purpose |-> b, state |-> c, row |-> d, required |-> e],
             r = [q EXCEPT !.state = s]
      PROVE  r = [id |-> a, purpose |-> b, state |-> s, row |-> d, required |-> e]
  BY <1>1
<1>2. PICK a, b, c, d, e :
          workflow = [id |-> a, purpose |-> b, state |-> c, row |-> d, required |-> e]
  BY DEF WorkflowInv
<1>3. workflow' = [id |-> a, purpose |-> b, state |-> s, row |-> d, required |-> e]
  BY <1>1, <1>2
<1> QED
  BY <1>2, <1>3 DEF Continues, None

\* While a workflow continues, what is expected of its material stays.
LEMMA ContinuesKeeps ==
  ASSUME Continues, deployed' = deployed
  PROVE  /\ \A c : GoodShare(c)' = GoodShare(c)
         /\ \A c, v : SubmittedFragment(c, v)' = SubmittedFragment(c, v)
         /\ \A c, v : StagedFragment(c, v)' = StagedFragment(c, v)
         /\ \A key : WrapSession(key)' = WrapSession(key)
<1> USE DEF Continues
<1>1. \A c, v : GoodShare(c)' = GoodShare(c) /\ RowContext(c, v)' = RowContext(c, v)
  BY DEF GoodShare, RowContext
<1>2. \A role, purpose : Current(role, purpose)' = Current(role, purpose)
  BY DEF Current
<1> QED
  BY <1>1, <1>2 DEF SubmittedFragment, StagedFragment, WrapSession

\* A step that continues the workflow keeps its row and the deployed keys in order.
LEMMA ContinuesInv ==
  ASSUME IInv, Continues, UNCHANGED <<keyVars, deployed>>
  PROVE  WorkflowInv' /\ DeployedInv'
<1>1. Rosters' = Rosters
  BY DEF Rosters, keyVars
<1>2. \A id, r : DealtRow(id, r)' = DealtRow(id, r)
  BY DEF DealtRow
<1> QED
  BY <1>1, <1>2 DEF IInv, WorkflowInv, DeployedInv, Continues, keyVars

\* What is kept for a workflow that continues, when it is not touched.
LEMMA FragmentsStay ==
  ASSUME FragmentsInv, Continues, deployed' = deployed, fragments' = fragments
  PROVE  FragmentsInv'
BY ContinuesKeeps DEF FragmentsInv, Continues

\* It keeps the release session,
LEMMA SessionStays ==
  ASSUME SessionInv, Continues, deployed' = deployed, session' = session,
         workflow'.state = workflow.state
  PROVE  SessionInv'
BY ContinuesKeeps DEF SessionInv, Continues

\* the key sealed for a recovery's browser,
LEMMA RewrapStays ==
  ASSUME RewrapInv, Continues, rewrap' = rewrap
  PROVE  RewrapInv'
BY DEF RewrapInv, Continues

\* and the pages that contacts have open.
LEMMA PagesStay ==
  ASSUME PagesInv, Continues, pages' = pages
  PROVE  PagesInv'
BY DEF PagesInv, Continues

LEMMA StartWorkflowOK ==
  ASSUME IInv, NEW purpose \in Purposes, StartWorkflow(purpose)
  PROVE  IInv'
<1> USE DEF StartWorkflow, stagedVars
<1>1. DeployedInv' /\ SessionInv' /\ RewrapInv' /\ PagesInv' /\ FragmentsInv'
  BY DEF IInv, DeployedInv, FragmentsInv, SessionInv, RewrapInv, PagesInv
<1>2. Rosters' = Rosters /\ \A id, r : DealtRow(id, r)' = DealtRow(id, r)
  BY DEF Rosters, keyVars, DealtRow
<1>3. workflow' = [id |-> workflows + 1, purpose |-> purpose, state |-> "GATHERING",
                   row |-> generation, required |-> generation.threshold[purpose]]
  OBVIOUS
<1>4. /\ workflow'.purpose = purpose /\ workflow'.row = generation
      /\ workflow'.required = generation.threshold[purpose]
      /\ workflow' = [id |-> workflow'.id, purpose |-> workflow'.purpose, state |-> workflow'.state,
                      row |-> workflow'.row, required |-> workflow'.required]
  BY <1>3
<1>5. WorkflowInv'
  BY <1>2, <1>4 DEF IInv, DealingInv, WorkflowInv, keyVars
<1> QED
  BY <1>1, <1>5, WorkflowStep

LEMMA EndWorkflowOK ==
  ASSUME IInv, EndWorkflow
  PROVE  IInv'
<1>1. WorkflowInv' /\ DeployedInv' /\ workflow' = None
  BY DEF EndWorkflow, IInv, WorkflowInv, DeployedInv
<1> QED
  BY <1>1, MaterialDestroyed, WorkflowStep DEF EndWorkflow

LEMMA OpenPageOK ==
  ASSUME IInv, NEW c \in Contacts, OpenPage(c)
  PROVE  IInv'
<1> USE DEF OpenPage
<1>1. Continues
  BY WorkflowUnchanged DEF IInv
<1>2. WorkflowInv' /\ DeployedInv' /\ FragmentsInv' /\ SessionInv' /\ RewrapInv'
  BY <1>1, ContinuesInv, FragmentsStay, SessionStays, RewrapStays DEF IInv
<1>3. PagesInv'
  BY DEF IInv, PagesInv
<1> QED
  BY <1>2, <1>3, WorkflowStep

\* What a contact's page sends is its own share, sealed for the page's version.
LEMMA FragmentOfContact ==
  ASSUME IInv, NEW c \in Contacts, NEW p, NEW purpose, PageOpen(c, purpose),
         ContactFragment(c, p, purpose) # None
  PROVE  ContactFragment(c, p, purpose) =
             [box |-> SealFragment(GoodShare(c), RowContext(c, pages[c]),
                                   Capability("ingress", workflow.purpose, pages[c])),
              ingress |-> pages[c]]
<1>1. workflow # None /\ workflow.purpose = purpose /\ c \in workflow.row.roster
  BY DEF PageOpen, IInv, PagesInv
<1>2. OpenContactShare(c, p, workflow.row, purpose, workflow.required) \in {GoodShare(c), None}
  BY <1>1, ContactOpensOwnShare DEF IInv
<1> QED
  BY <1>1, <1>2 DEF ContactFragment

\* One fragment changes, to one the invariant allows.
LEMMA FragmentChange ==
  ASSUME FragmentsInv, Continues, deployed' = deployed, NEW c \in Contacts, NEW fragment,
         fragments' = [fragments EXCEPT ![c] = fragment], c \in workflow.row.roster,
         \/ workflow.purpose = "DEATH" /\ \E v : fragment = SubmittedFragment(c, v)
         \/ \E v : fragment = StagedFragment(c, v)
  PROVE  FragmentsInv'
<1>1. /\ fragments' = [d \in Contacts |-> fragments'[d]]
      /\ fragments'[c] = fragment
      /\ \A d \in Contacts \ {c} : fragments'[d] = fragments[d]
  BY DEF FragmentsInv
<1>2. \/ workflow.purpose = "DEATH" /\ fragment = SubmittedFragment(c, fragment.ingress)
      \/ fragment = StagedFragment(c, fragment.ingress)
  BY SubmittedFragmentShape, StagedFragmentShape
<1>3. workflow' # None /\ workflow'.purpose = workflow.purpose /\ workflow'.row = workflow.row
  BY DEF Continues
<1> QED
  BY <1>1, <1>2, <1>3, ContinuesKeeps DEF FragmentsInv

LEMMA ConfirmDeathOK ==
  ASSUME IInv, NEW c \in Contacts, NEW p \in Passwords, ConfirmDeath(c, p)
  PROVE  IInv'
<1>1. Continues
  BY WorkflowUnchanged DEF IInv, ConfirmDeath, PageOpen
<1>2. DeathConfirmation(c, p).fragment =
          [box |-> SealFragment(GoodShare(c), RowContext(c, pages[c]),
                                Capability("ingress", workflow.purpose, pages[c])),
           ingress |-> pages[c]]
  BY FragmentOfContact DEF ConfirmDeath, DeathConfirmation, MaySubmit
<1>3. fragments' = [fragments EXCEPT ![c] = SubmittedFragment(c, pages[c])]
  BY <1>2 DEF ConfirmDeath, SubmittedFragment
<1>4. FragmentsInv'
  BY <1>1, <1>3, FragmentChange DEF ConfirmDeath, PageOpen, IInv, PagesInv
<1>5. WorkflowInv' /\ DeployedInv' /\ SessionInv' /\ RewrapInv' /\ PagesInv'
  BY <1>1, ContinuesInv, SessionStays, RewrapStays, PagesStay DEF IInv, ConfirmDeath
<1> QED
  BY <1>4, <1>5, WorkflowStep DEF ConfirmDeath

LEMMA ValidateFragmentOK ==
  ASSUME IInv, NEW c \in Contacts, ValidateFragment(c)
  PROVE  IInv'
<1> DEFINE v == fragments[c].ingress
<1>1. Continues
  BY WorkflowUnchanged DEF IInv, ValidateFragment
<1>2. /\ workflow # None /\ workflow.purpose = "DEATH"
      /\ fragments[c] = SubmittedFragment(c, v)
  BY StagedFragmentShape DEF ValidateFragment, IInv, FragmentsInv
<1>3. Current("ingress", "DEATH") = Capability("ingress", "DEATH", v)
  BY DEF ValidateFragment, KeyForVersion, Current
<1>4. fragments[c].box = SealFragment(GoodShare(c), RowContext(c, v),
                                      Capability("ingress", "DEATH", v))
  BY <1>2, SubmittedFragmentShape
<1>5. OpenFragment(fragments[c].box, RowContext(c, v), Current("ingress", "DEATH")) = GoodShare(c)
  BY <1>3, <1>4, OpenSealedFragment
<1>6. ValidShare(GoodShare(c))
  BY <1>2, GoodShareIsValid DEF IInv
<1>7. fragments' = [fragments EXCEPT ![c] = StagedFragment(c, v)]
  BY <1>2, <1>5, <1>6 DEF ValidateFragment, StagedFragment
<1>8. FragmentsInv'
  BY <1>1, <1>7, FragmentChange DEF ValidateFragment, IInv, FragmentsInv
<1>9. WorkflowInv' /\ DeployedInv' /\ SessionInv' /\ RewrapInv' /\ PagesInv'
  BY <1>1, ContinuesInv, SessionStays, RewrapStays, PagesStay DEF IInv, ValidateFragment
<1> QED
  BY <1>8, <1>9, WorkflowStep DEF ValidateFragment

\* A session is only ever made of the vault key.
LEMMA NewSession ==
  ASSUME Continues, deployed' = deployed, session' = WrapSession(VK)
  PROVE  SessionInv'
<1>1. WrapSession(VK)' = WrapSession(VK)
  BY ContinuesKeeps
<1>2. VK' = VK /\ WrapSession(VK) # None
  BY DEF VK, WrapSession, None
<1> QED
  BY <1>1, <1>2 DEF SessionInv, Continues

\* What a quorum reconstructs is the vault key or nothing.
LEMMA ReconstructsVaultKey ==
  ASSUME IInv, workflow # None, NEW quorum, Reconstruct(quorum) # None
  PROVE  Reconstruct(quorum) = VK
BY VaultOpens, KeysAreInjective DEF IInv, WorkflowInv, Reconstruct

LEMMA RecordConfirmationOK ==
  ASSUME IInv, NEW c \in Contacts, RecordConfirmation(c)
  PROVE  IInv'
<1> DEFINE quorum == Validated \cap (decided \cup {c})
<1>1. workflow # None /\ Decide(c, quorum)
  BY DEF RecordConfirmation
<1>2. Continues /\ SessionInv'
  <2>1. CASE Cardinality(decided \cup {c}) < workflow.required
    <3>1. workflow' = workflow /\ session' = session
      BY <1>1, <2>1 DEF Decide
    <3>2. Continues
      BY <1>1, <3>1, WorkflowUnchanged DEF IInv
    <3> QED
      BY <3>1, <3>2, SessionStays DEF RecordConfirmation, IInv
  <2>2. CASE ~(Cardinality(decided \cup {c}) < workflow.required)
    <3>1. /\ Reconstruct(quorum) # None /\ session' = WrapSession(Reconstruct(quorum))
          /\ workflow' = [workflow EXCEPT !.state = "QUORUM"]
      BY <1>1, <2>2 DEF Decide
    <3>2. Continues
      BY <1>1, <3>1, WorkflowStateChange DEF IInv
    <3>3. session' = WrapSession(VK)
      BY <1>1, <3>1, ReconstructsVaultKey
    <3> QED
      BY <3>2, <3>3, NewSession DEF RecordConfirmation
  <2> QED
    BY <2>1, <2>2
<1>3. FragmentsInv'
  <2>1. CASE fragments' = fragments
    BY <1>2, <2>1, FragmentsStay DEF RecordConfirmation, IInv
  <2>2. CASE fragments' = NoFragments
    BY <2>2 DEF FragmentsInv, NoFragments
  <2> QED
    BY <2>1, <2>2 DEF RecordConfirmation
<1>4. WorkflowInv' /\ DeployedInv' /\ RewrapInv' /\ PagesInv'
  BY <1>2, ContinuesInv, RewrapStays, PagesStay DEF IInv, RecordConfirmation
<1> QED
  BY <1>2, <1>3, <1>4, WorkflowStep DEF RecordConfirmation

LEMMA FinalizePublicationOK ==
  ASSUME IInv, FinalizePublication
  PROVE  IInv'
<1>1. Continues /\ workflow'.state = "RELEASED"
  BY WorkflowStateChange DEF IInv, FinalizePublication
<1>2. WorkflowInv' /\ DeployedInv'
  BY <1>1, ContinuesInv DEF FinalizePublication
<1> QED
  BY <1>2, MaterialDestroyed, WorkflowStep DEF FinalizePublication

\* An approval is opened before it is stored: it holds the contact's share.
LEMMA ApprovalOpens ==
  ASSUME IInv, NEW c \in Contacts, NEW p, PageOpen(c, "RECOVERY"),
         RecoveryApproval(c, p).fragment # None
  PROVE  LET fragment == RecoveryApproval(c, p).fragment
         IN  /\ fragment.ingress = pages[c]
             /\ OpenedApproval(c, fragment) \in {GoodShare(c), None}
<1> DEFINE fragment == RecoveryApproval(c, p).fragment
<1>1. fragment = [box |-> SealFragment(GoodShare(c), RowContext(c, pages[c]),
                                       Capability("ingress", workflow.purpose, pages[c])),
                  ingress |-> pages[c]]
  BY FragmentOfContact DEF RecoveryApproval
<1>2. /\ fragment.ingress = pages[c]
      /\ fragment.box = SealFragment(GoodShare(c), RowContext(c, pages[c]),
                                     Capability("ingress", workflow.purpose, pages[c]))
  BY <1>1
<1> QED
  BY <1>2, OpenSealedFragment DEF OpenedApproval

LEMMA StoreApprovalOK ==
  ASSUME IInv, NEW c \in Contacts, NEW fragment, workflow # None, workflow.purpose = "RECOVERY",
         c \in workflow.row.roster, StoreApproval(c, fragment), OpenedApproval(c, fragment) \in {GoodShare(c), None},
         UNCHANGED deployed
  PROVE  Continues /\ FragmentsInv' /\ SessionInv'
<1>1. Continues
  BY WorkflowUnchanged DEF IInv, StoreApproval
<1>2. OpenedApproval(c, fragment) = GoodShare(c)
  BY DEF StoreApproval, ValidShare
<1>3. fragments' = [fragments EXCEPT ![c] = StagedFragment(c, fragment.ingress)]
  BY <1>2 DEF StoreApproval, StagedFragment
<1>4. FragmentsInv'
  BY <1>1, <1>3, FragmentChange DEF IInv
<1> QED
  BY <1>1, <1>4, SessionStays DEF IInv, StoreApproval

LEMMA CompleteApprovalsOK ==
  ASSUME IInv, NEW c \in Contacts, NEW fragment, workflow # None, CompleteApprovals(c, fragment),
         UNCHANGED deployed
  PROVE  Continues /\ FragmentsInv' /\ SessionInv'
<1>1. Continues
  BY WorkflowStateChange DEF IInv, CompleteApprovals
<1>2. session' = WrapSession(VK)
  BY VaultOpens, KeysAreInjective DEF CompleteApprovals, IInv, WorkflowInv
<1>3. FragmentsInv'
  BY DEF CompleteApprovals, FragmentsInv, NoFragments
<1> QED
  BY <1>1, <1>2, <1>3, NewSession

LEMMA ApproveRecoveryOK ==
  ASSUME IInv, NEW c \in Contacts, NEW p \in Passwords, ApproveRecovery(c, p)
  PROVE  IInv'
<1> DEFINE fragment == RecoveryApproval(c, p).fragment
<1>1. /\ PageOpen(c, "RECOVERY") /\ workflow # None /\ workflow.purpose = "RECOVERY"
      /\ c \in workflow.row.roster
  BY DEF ApproveRecovery, PageOpen, IInv, PagesInv
<1>2. OpenedApproval(c, fragment) \in {GoodShare(c), None}
  BY <1>1, ApprovalOpens DEF ApproveRecovery, MaySubmit
<1>3. StoreApproval(c, fragment) \/ CompleteApprovals(c, fragment)
  BY DEF ApproveRecovery
<1>4. Continues /\ FragmentsInv' /\ SessionInv'
  BY <1>1, <1>2, <1>3, StoreApprovalOK, CompleteApprovalsOK DEF ApproveRecovery
<1>5. WorkflowInv' /\ DeployedInv' /\ RewrapInv' /\ PagesInv'
  BY <1>4, ContinuesInv, RewrapStays, PagesStay DEF IInv, ApproveRecovery
<1> QED
  BY <1>4, <1>5, WorkflowStep DEF ApproveRecovery

LEMMA ServeVaultKeyOK ==
  ASSUME IInv, ServeVaultKey
  PROVE  IInv'
<1>1. Continues
  BY WorkflowUnchanged DEF IInv, ServeVaultKey
<1>2. SessionKey = VK
  <2>1. session # None
    BY DEF ServeVaultKey, IInv, SessionInv
  <2> QED
    BY <2>1, SessionOpens DEF IInv
<1>3. rewrap' = SealRecovery(workflow.id, VK, Browser)
  BY <1>2 DEF ServeVaultKey
<1>4. RewrapInv'
  BY <1>1, <1>3 DEF RewrapInv, Continues, VK
<1>5. WorkflowInv' /\ DeployedInv' /\ FragmentsInv' /\ SessionInv' /\ PagesInv'
  BY <1>1, ContinuesInv, FragmentsStay, SessionStays, PagesStay DEF IInv, ServeVaultKey
<1> QED
  BY <1>4, <1>5, WorkflowStep DEF ServeVaultKey

\* The envelope that ends a reset holds the vault key under the new password.
LEMMA ReplacementWraps ==
  ASSUME RewrapInv, rewrap # None, NEW p, Replacement(p) # None
  PROVE  Replacement(p).envelope = OwnerEnvelope(p, VK)
<1>1. OpenRecovery(rewrap, workflow.id, PrivateKey(Browser)) = VK
  BY OpenSealedRecovery DEF RewrapInv
<1> QED
  BY <1>1 DEF Replacement

LEMMA CompleteResetOK ==
  ASSUME IInv, NEW p \in Passwords, CompleteReset(p)
  PROVE  IInv'
<1>1. rewrap # None /\ vault # None
  BY DEF CompleteReset, IInv, RewrapInv, WorkflowInv
<1>2. Replacement(p).envelope = OwnerEnvelope(p, VK)
  BY <1>1, ReplacementWraps DEF CompleteReset, IInv
<1>3. vault' = [vault EXCEPT !.password = p, !.envelope = OwnerEnvelope(p, VK)]
  BY <1>2 DEF CompleteReset
<1>4. vault' = SetupRequest(p)
  <2>1. PICK o : vault = SetupRequest(o)
    BY <1>1 DEF IInv, VaultInv
  <2> QED
    BY <1>3, <2>1, SetupReplaced
<1>5. VaultInv' /\ vault' # None
  BY <1>4, SetupShape DEF VaultInv
<1>6. ContactsInv' /\ Rosters' = Rosters /\ \A id, r : DealtRow(id, r)' = DealtRow(id, r)
  BY DEF CompleteReset, IInv, ContactsInv, Rosters, DealtRow
<1>7. DealingInv'
  BY <1>5, <1>6 DEF CompleteReset, dealingVars, IInv, DealingInv, OpenRow
<1>8. WorkflowInv' /\ DeployedInv' /\ PackagesInv' /\ workflow' = None
  BY DEF CompleteReset, packageVars, IInv, WorkflowInv, DeployedInv, PackagesInv
<1> QED
  BY <1>5, <1>6, <1>7, <1>8, MaterialDestroyed DEF CompleteReset, IInv

\* The pages and rows of a workflow do not change with the keys of the deployment.
LEMMA RotationStep ==
  ASSUME IInv, UNCHANGED <<keyVars, dealingVars, workflowVars, packageVars>>,
         DeployedInv', FragmentsInv', SessionInv'
  PROVE  IInv'
<1> USE DEF workflowVars, stagedVars
<1>1. Rosters' = Rosters /\ \A id, r : DealtRow(id, r)' = DealtRow(id, r)
  BY DEF keyVars, Rosters, DealtRow
<1>2. WorkflowInv' /\ RewrapInv' /\ PagesInv'
  BY <1>1 DEF keyVars, IInv, WorkflowInv, RewrapInv, PagesInv
<1> QED
  BY <1>2, WorkflowStep

LEMMA RotateIngressOK ==
  ASSUME IInv, NEW purpose \in Purposes, RotateIngress(purpose)
  PROVE  IInv'
<1>1. DeployedInv' /\ deployed'["stage"] = deployed["stage"]
  BY DEF RotateIngress, IInv, DeployedInv
<1>2. \A p : Current("stage", p)' = Current("stage", p)
  BY <1>1 DEF Current
<1> USE DEF RotateIngress, workflowVars, stagedVars
<1>3. FragmentsInv'
  BY <1>1, <1>2 DEF IInv, FragmentsInv, SubmittedFragment, StagedFragment, GoodShare, RowContext
<1>4. SessionInv'
  BY <1>1, <1>2 DEF IInv, SessionInv, WrapSession
<1> QED
  BY <1>1, <1>3, <1>4, RotationStep

LEMMA RotateStageOK ==
  ASSUME IInv, NEW purpose \in Purposes, RotateStage(purpose)
  PROVE  IInv'
<1> USE DEF RotateStage, workflowVars, stagedVars
<1>1. DeployedInv' /\ \A p \in Purposes \ {purpose} : deployed'["stage"][p] = deployed["stage"][p]
  BY DEF IInv, DeployedInv
<1>2. \A p \in Purposes \ {purpose} : Current("stage", p)' = Current("stage", p)
  BY <1>1 DEF Current
<1>3. CASE workflow = None
  BY <1>1, <1>3, RotationStep DEF IInv, FragmentsInv, SessionInv
<1>4. CASE workflow # None /\ workflow.purpose # purpose
  <2>1. workflow.purpose \in Purposes \ {purpose}
    BY <1>4 DEF IInv, WorkflowInv
  <2>2. FragmentsInv'
    BY <1>1, <1>2, <2>1
       DEF IInv, FragmentsInv, SubmittedFragment, StagedFragment, GoodShare, RowContext
  <2>3. SessionInv'
    BY <1>1, <1>2, <2>1 DEF IInv, SessionInv, WrapSession
  <2> QED
    BY <1>1, <2>2, <2>3, RotationStep
<1>5. CASE workflow # None /\ workflow.purpose = purpose
  <2>1. Validated = {} /\ session = None
    BY <1>5
  <2>2. \A c \in Contacts : fragments[c] # None => fragments[c].status # "VALIDATED"
    BY <2>1 DEF Validated
  <2>3. \A c \in Contacts : fragments[c] # None =>
            fragments[c] = SubmittedFragment(c, fragments[c].ingress) /\ workflow.purpose = "DEATH"
    BY <2>2, StagedFragmentShape DEF IInv, FragmentsInv
  <2>4. \A c, v : SubmittedFragment(c, v)' = SubmittedFragment(c, v)
    BY DEF SubmittedFragment, GoodShare, RowContext
  <2>5. FragmentsInv'
    BY <2>3, <2>4 DEF IInv, FragmentsInv
  <2>6. SessionInv'
    BY <2>1 DEF IInv, SessionInv
  <2> QED
    BY <1>1, <2>5, <2>6, RotationStep
<1> QED
  BY <1>3, <1>4, <1>5

-----------------------------------------------------------------------------
(* The invariant holds                                                     *)

\* The invariant holds initially,
LEMMA InitOK == Init => IInv
<1> SUFFICES ASSUME Init PROVE IInv
  OBVIOUS
<1> USE DEF Init, NoFragments
<1>1. VaultInv /\ ContactsInv /\ DealingInv /\ WorkflowInv /\ DeployedInv
  BY DEF VaultInv, ContactsInv, DealingInv, WorkflowInv, DeployedInv
<1>2. FragmentsInv /\ SessionInv /\ RewrapInv /\ PagesInv /\ PackagesInv
  BY DEF FragmentsInv, SessionInv, RewrapInv, PagesInv, PackagesInv
<1> QED
  BY <1>1, <1>2 DEF IInv

\* a stuttering step keeps it,
LEMMA StutterOK == IInv /\ UNCHANGED vars => IInv'
<1> SUFFICES ASSUME IInv, UNCHANGED vars PROVE IInv'
  OBVIOUS
<1>1. PackagesInv'
  BY DEF vars, packageVars, IInv, PackagesInv
<1> QED
  BY <1>1, PackageStep DEF vars

\* every step keeps it,
LEMMA StepOK == IInv /\ [Next]_vars => IInv'
<1> SUFFICES ASSUME IInv, [Next]_vars PROVE IInv'
  OBVIOUS
<1>1. CASE \E p \in Passwords : CreateOwner(p) \/ UploadShareGeneration(p) \/ CompleteReset(p)
  BY <1>1, CreateOwnerOK, UploadShareGenerationOK, CompleteResetOK
<1>2. CASE \E p, q \in Passwords : ChangeOwnerPassword(p, q)
  BY <1>2, ChangeOwnerPasswordOK
<1>3. CASE \E c \in Contacts, p \in Passwords :
              AcceptInvitation(c, p) \/ ConfirmDeath(c, p) \/ ApproveRecovery(c, p)
  BY <1>3, AcceptInvitationOK, ConfirmDeathOK, ApproveRecoveryOK
<1>4. CASE \E c \in Contacts, p, q \in Passwords : ChangeContactPassword(c, p, q)
  BY <1>4, ChangeContactPasswordOK
<1>5. CASE CreateShareGeneration \/ ActivateShareGeneration
  BY <1>5, CreateShareGenerationOK, ActivateShareGenerationOK
<1>6. CASE \E k \in Packages, p \in Passwords : PreparePackage(k, p)
  BY <1>6, PreparePackageOK
<1>7. CASE \E k \in Packages : CreateUploadSession(k) \/ ActivatePackage(k)
  BY <1>7, CreateUploadSessionOK, ActivatePackageOK
<1>8. CASE \E purpose \in Purposes :
              StartWorkflow(purpose) \/ RotateIngress(purpose) \/ RotateStage(purpose)
  BY <1>8, StartWorkflowOK, RotateIngressOK, RotateStageOK
<1>9. CASE EndWorkflow \/ FinalizePublication \/ ServeVaultKey
  BY <1>9, EndWorkflowOK, FinalizePublicationOK, ServeVaultKeyOK
<1>10. CASE \E c \in Contacts : OpenPage(c) \/ ValidateFragment(c) \/ RecordConfirmation(c)
  BY <1>10, OpenPageOK, ValidateFragmentOK, RecordConfirmationOK
<1>11. CASE UNCHANGED vars
  BY <1>11, StutterOK
<1> QED
  BY <1>1, <1>2, <1>3, <1>4, <1>5, <1>6, <1>7, <1>8, <1>9, <1>10, <1>11 DEF Next

\* so it holds in every reachable state.
LEMMA Invariance == Spec => []IInv
  BY InitOK, StepOK, PTL DEF Spec

-----------------------------------------------------------------------------
(* Theorems                                                                *)

\* The password that logs the owner in opens the vault, after any number of
\* password changes and resets (change-owner-password.ts, complete-password-reset.ts).
THEOREM OwnerCanOpen == Spec => []OwnerOpensVault
<1>1. IInv => OwnerOpensVault
  BY VaultOpens DEF IInv, OwnerOpensVault, VK
<1> QED
  BY <1>1, Invariance, PTL

\* With the password of today a contact opens the share dealt to it.
LEMMA HolderOpens ==
  ASSUME IInv, generation # None, NEW purpose \in Purposes, NEW c \in generation.roster
  PROVE  OpenContactShare(c, contacts[c].password, generation, purpose,
                          Threshold(purpose, Cardinality(generation.roster)))
             = Share(DealingCommitments(purpose, generation.id, generation.roster), c)
<1> DEFINE roster == generation.roster
           com == DealingCommitments(purpose, generation.id, roster)
           required == Threshold(purpose, Cardinality(roster))
<1>1. generation = DealtRow(generation.id, roster) /\ roster \in Rosters
  BY DEF IInv, DealingInv
<1>2. /\ generation.shares.commitments[purpose] = com
      /\ generation.shares.sealed[purpose][c] =
             SealShare(Share(com, c),
                       ShareMetadata(purpose, Vault, generation.id, c, required, com), c)
  BY <1>1, DealtRowShape
<1>3. contacts[c].envelope = ContactEnvelope(c, contacts[c].password)
  <2>1. c \in Contacts /\ contacts[c].status # "INVITED"
    BY <1>1 DEF Rosters
  <2>2. contacts[c] = [status |-> contacts[c].status, password |-> contacts[c].password,
                       envelope |-> ContactEnvelope(c, contacts[c].password)]
    BY <2>1 DEF IInv, ContactsInv
  <2> QED
    BY <2>2
<1>4. UnwrapContact(c, contacts[c].password, contacts[c].envelope) = PrivateKey(c)
  BY <1>3, UnwrapContactWrapped
<1> QED
  BY <1>2, <1>4, OpenSealedShare DEF OpenContactShare

\* As many holders as the threshold says combine their shares to the vault key, fewer do not.
LEMMA QuorumOpens == IInv => QuorumOpensVault
<1> SUFFICES ASSUME IInv, generation # None, NEW purpose \in Purposes
    PROVE  LET required == Threshold(purpose, Cardinality(generation.roster))
               opened == [c \in generation.roster |->
                   OpenContactShare(c, contacts[c].password, generation, purpose, required)]
           IN  \A set \in SUBSET generation.roster :
                   LET shares == {opened[c] : c \in set}
                       key == CombineShares(shares, generation.shares.commitments[purpose],
                                            ExpectedDealing(generation, purpose))
                   IN  IF Cardinality(set) >= required
                       THEN None \notin shares /\ key = VaultKey(Vault)
                       ELSE None \in shares \/ key = None
  BY DEF QuorumOpensVault
<1> DEFINE roster == generation.roster
           id == generation.id
           com == DealingCommitments(purpose, id, roster)
           context == DealingContext(purpose, id, roster)
           required == Threshold(purpose, Cardinality(roster))
           opened == [c \in roster |->
                   OpenContactShare(c, contacts[c].password, generation, purpose, required)]
<1>1. /\ vault # None /\ generation = DealtRow(id, roster)
      /\ roster \in SUBSET Contacts /\ Cardinality(roster) >= MinContacts
  BY DEF IInv, DealingInv, Rosters
<1>2. /\ generation.shares.commitments[purpose] = com
      /\ ExpectedDealing(generation, purpose) = context
  BY <1>1, RowExpected DEF IInv
<1>3. \A c \in roster : opened[c] = Share(com, c)
  BY HolderOpens
<1>4. ASSUME NEW set \in SUBSET roster
      PROVE  LET shares == {opened[c] : c \in set}
                 key == CombineShares(shares, com, context)
             IN  IF Cardinality(set) >= required
                 THEN None \notin shares /\ key = VK
                 ELSE None \in shares \/ key = None
  <2> DEFINE shares == {opened[c] : c \in set}
  <2>1. shares = {Share(com, c) : c \in set}
    BY <1>3
  <2>2. None \notin shares
    BY <2>1, KeysAreNotNone
  <2>3. CASE Cardinality(set) >= required
    BY <1>1, <2>1, <2>2, <2>3, EnoughShares
  <2>4. CASE ~(Cardinality(set) >= required)
    <3>1. {s.holder : s \in shares} = set
      <4>1. \A c : Share(com, c).holder = c
        BY DEF Share
      <4>2. {s.holder : s \in {Share(com, c) : c \in set}} = set
        BY <4>1
      <4> HIDE DEF shares
      <4> QED
        BY <2>1, <4>2
    <3>2. IsFiniteSet(roster) /\ IsFiniteSet(set) /\ Cardinality(roster) \in Nat
          /\ Cardinality(set) \in Nat /\ Cardinality(roster) >= 2
      BY <1>1, ContactsAssumption, FS_Subset, FS_CardinalityType
    <3>3. required \in Nat /\ Cardinality(set) < required
      BY <2>4, <3>2, ThresholdBounds
    <3>4. context.threshold = required
      BY DEF DealingContext, VssContext
    <3> HIDE DEF shares, context, required
    <3>5. CombineShares(shares, com, context) = None
      BY <3>1, <3>2, <3>3, <3>4, TooFewShares
    <3> QED
      BY <2>4, <3>5 DEF shares, context, required
  <2> QED
    BY <2>3, <2>4
<1> QED
  BY <1>2, <1>4 DEF VK

\* Any quorum of the roster, and no fewer, opens the vault: for every number of
\* contacts, with both rules of rounding (share-generation-common.ts).
THEOREM QuorumCanOpen == Spec => []QuorumOpensVault
  BY QuorumOpens, Invariance, PTL

\* What waits for the server can be read by it, after any rotation of the runbook.
THEOREM MaterialReadable == Spec => []HeldMaterialIsReadable
<1>1. IInv => HeldMaterialIsReadable
  <2> SUFFICES ASSUME IInv, workflow # None
      PROVE  /\ \A c \in Validated : ValidShare(StagedShare(c))
             /\ session # None => SessionKey = VaultKey(Vault)
             /\ \A c \in Contacts :
                   fragments[c] # None /\ fragments[c].status # "VALIDATED" =>
                       /\ fragments[c].status = "PENDING"
                       /\ ValidShare(OpenFragment(fragments[c].box,
                              RowContext(c, fragments[c].ingress),
                              Capability("ingress", workflow.purpose, fragments[c].ingress)))
    BY DEF HeldMaterialIsReadable
  <2>1. ASSUME NEW c \in Validated PROVE ValidShare(StagedShare(c))
    <3>1. fragments[c] = StagedFragment(c, fragments[c].ingress)
      BY <2>1, SubmittedFragmentShape DEF Validated, IInv, FragmentsInv
    <3> QED
      BY <3>1, StagedFragmentOpens, GoodShareIsValid DEF IInv
  <2>2. session # None => SessionKey = VaultKey(Vault)
    BY SessionOpens DEF IInv, VK
  <2>3. ASSUME NEW c \in Contacts, fragments[c] # None, fragments[c].status # "VALIDATED"
        PROVE  /\ fragments[c].status = "PENDING"
               /\ ValidShare(OpenFragment(fragments[c].box,
                      RowContext(c, fragments[c].ingress),
                      Capability("ingress", workflow.purpose, fragments[c].ingress)))
    <3>1. fragments[c] = SubmittedFragment(c, fragments[c].ingress)
      BY <2>3, StagedFragmentShape DEF IInv, FragmentsInv
    <3>2. PICK v : v = fragments[c].ingress
      OBVIOUS
    <3>3. /\ fragments[c].status = "PENDING"
          /\ fragments[c].box = SealFragment(GoodShare(c), RowContext(c, v),
                                             Capability("ingress", workflow.purpose, v))
      BY <3>1, <3>2, SubmittedFragmentShape
    <3> QED
      BY <3>2, <3>3, OpenSealedFragment, GoodShareIsValid DEF IInv
  <2> QED
    BY <2>1, <2>2, <2>3
<1> QED
  BY <1>1, Invariance, PTL

\* The package in force opens with the vault key and its row's version, whatever
\* tabs have prepared at the same time (create-upload-session.ts).
THEOREM PackageOpens == Spec => []ActivePackageOpens
<1>1. IInv => ActivePackageOpens
  <2> SUFFICES ASSUME IInv, NEW k \in ActiveIn(packages)
      PROVE  LET aad == PackageAad(k, packages[k].version)
             IN  /\ packages[k].aadHash = aad
                 /\ UnwrapKey(packages[k].dek, VaultKey(Vault), aad) = [dek |-> k]
    BY DEF ActivePackageOpens
  <2>1. PICK v : packages[k] = [status |-> packages[k].status, version |-> v,
                                generation |-> packages[k].generation,
                                dek |-> PackageDek(k, v), aadHash |-> PackageAad(k, v)]
    BY DEF ActiveIn, IInv, PackagesInv
  <2>2. packages[k].version = v /\ packages[k].aadHash = PackageAad(k, v)
        /\ packages[k].dek = PackageDek(k, v)
    BY <2>1
  <2> QED
    BY <2>2, UnwrapWrapped DEF PackageDek, VK
<1> QED
  BY <1>1, Invariance, PTL

\* As many validated fragments as a workflow requires give the vault key back: the
\* second transaction of process-release-fragment.ts never fails to reconstruct it.
QuorumReconstructs ==
    workflow # None =>
        \A quorum \in SUBSET Validated :
            Cardinality(quorum) >= workflow.required => Reconstruct(quorum) = VaultKey(Vault)

\* The inductive invariant makes every quorum of validated fragments sufficient.
LEMMA Reconstructs == IInv => QuorumReconstructs
<1> SUFFICES ASSUME IInv, workflow # None, NEW quorum \in SUBSET Validated,
                    Cardinality(quorum) >= workflow.required
    PROVE  Reconstruct(quorum) = VK
  BY DEF QuorumReconstructs, VK
<1> DEFINE purpose == workflow.purpose
           row == workflow.row
           com == DealingCommitments(purpose, row.id, row.roster)
           context == DealingContext(purpose, row.id, row.roster)
           shares == {StagedShare(c) : c \in quorum}
<1>1. /\ vault # None /\ purpose \in Purposes /\ row = DealtRow(row.id, row.roster)
      /\ row.roster \in SUBSET Contacts /\ Cardinality(row.roster) >= MinContacts
      /\ workflow.required = row.threshold[purpose]
  BY DEF IInv, WorkflowInv, Rosters
<1>2. row.shares.commitments[purpose] = com /\ ExpectedDealing(row, purpose) = context
  BY <1>1, RowExpected DEF IInv
<1>3. workflow.required = Threshold(purpose, Cardinality(row.roster))
  BY <1>1, DealtRowShape
<1>4. \A c \in quorum : fragments[c] = StagedFragment(c, fragments[c].ingress)
                         /\ c \in row.roster
  BY SubmittedFragmentShape DEF Validated, IInv, FragmentsInv
<1>5. \A c \in quorum : StagedShare(c) = GoodShare(c)
  BY <1>4, StagedFragmentOpens
<1>6. \A c : GoodShare(c) = Share(com, c)
  BY <1>2 DEF GoodShare
<1>7. shares = {Share(com, c) : c \in quorum}
  BY <1>5, <1>6
<1>8. CombineShares(shares, com, context) = VK
  <2>1. quorum \in SUBSET row.roster
    BY <1>4
  <2>2. CombineShares({Share(com, c) : c \in quorum}, com, context) = VK
    BY <1>1, <1>3, <2>1, EnoughShares
  <2> QED
    BY <1>7, <2>2
<1>9. \A s \in shares : ValidShare(s)
  BY <1>5, GoodShareIsValid DEF IInv
<1>10. Commitment(VK) = vault.commitment
  BY <1>1, VaultOpens DEF IInv
<1> QED
  BY <1>2, <1>8, <1>9, <1>10 DEF Reconstruct

\* In every reachable state a quorum of validated fragments gives the vault key back
\* (process-release-fragment.ts, the second transaction).
THEOREM QuorumReconstructsKey == Spec => []QuorumReconstructs
  BY Reconstructs, Invariance, PTL
=============================================================================
