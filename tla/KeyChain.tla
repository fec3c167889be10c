------------------------------ MODULE KeyChain ------------------------------
(***************************************************************************)
(* The chain of keys from the passwords to the package: what the browsers  *)
(* of owner and contacts (apps/web) put into envelopes, what the API       *)
(* stores and checks without being able to read it, and what API and       *)
(* worker open with the keys of their deployment.                          *)
(*                                                                         *)
(* The other modules treat key material as a token that is there or not.   *)
(* This one is about whether it can still be used: passwords change, the   *)
(* vault key is dealt again, the keys of the deployment are rotated by the *)
(* runbook, pages are submitted long after they were loaded.  Deadlines,   *)
(* decisions against a workflow, object storage and mail are left to the   *)
(* other modules; the end of a workflow may come at any time.              *)
(*                                                                         *)
(* A browser reads the envelope it opens just before it submits; the page  *)
(* of a workflow (share and ingress key) and a prepared package are old.   *)
(***************************************************************************)
EXTENDS Envelopes

CONSTANTS
    Vault,          \* the UUID the setup page chooses
    Contacts,       \* contacts that may accept an invitation
    MinContacts,    \* 3 in create-generation.ts and share-generation.ts
    Passwords,      \* passwords of owner and contacts
    Packages,       \* UUIDs of packages
    Browser,        \* the ephemeral key pair of the reset page
    MaxWorkflows,   \* bound: workflows
    MaxDisturbances \* bound: password changes, rotations, new dealings and packages

ASSUME ContactsAssumption == IsFiniteSet(Contacts) /\ MinContacts \in Nat \ {0, 1}
ASSUME BoundsAssumption == MaxWorkflows \in Nat /\ MaxDisturbances \in Nat

VARIABLES
    vault,       \* owner_credentials.password_phc with the key columns of vaults
    contacts,    \* status, password_phc and private key columns of contacts
    generation,  \* the ACTIVE row of share_generations, with its contact_key_shares
    draft,       \* the PREPARING row made last
    generations, \* rows of share_generations so far
    workflow,    \* the formal workflow that is not closed
    workflows,   \* workflows so far
    fragments,   \* its workflow_key_fragments, None when there is none or it is DESTROYED
    decided,     \* contacts with a recorded decision for it
    session,     \* its release_secret_sessions or recovery_secret_sessions row
    rewrap,      \* its password_rewrap_sessions row, with what the browser was sent
    pages,       \* version of the ingress key on the page a contact has open, 0 without
    prepared,    \* packages encrypted in a browser and not yet announced
    packages,    \* rows of legacy_packages
    deployed,    \* versions of the keys mounted in API and worker
    disturbances

keyVars == <<vault, contacts>>
dealingVars == <<generation, draft, generations>>
stagedVars == <<fragments, decided, session, rewrap, pages>>
workflowVars == <<workflow, workflows, stagedVars>>
packageVars == <<prepared, packages>>
vars == <<keyVars, dealingVars, workflowVars, packageVars, deployed, disturbances>>

Purposes == {"DEATH", "RECOVERY"}

DeathThreshold(n) == (7 * n + 9) \div 10

RecoveryThreshold(n) == n \div 2 + 1

Threshold(purpose, n) == IF purpose = "DEATH" THEN DeathThreshold(n) ELSE RecoveryThreshold(n)

-----------------------------------------------------------------------------
(* Additional data of the wrapped keys.                                    *)

OwnerAad == CanonicalAad("owner-vk", Vault, <<"owner-vk">>, None)

PackageAad(package, version) ==
    CanonicalAad("package-dek", Vault, <<"package-kek", version>>,
                 [package |-> package, version |-> version])

ReleaseAad(id) == CanonicalAad("release-stage-vk", Vault, <<"workflow", id>>, None)

\* The recovery binds to the workflow twice, and not to the vault.
RecoveryStageAad(id) == CanonicalAad("recovery-stage-vk", <<"workflow", id>>, <<"workflow", id>>, None)

StageAad(purpose, id) == IF purpose = "DEATH" THEN ReleaseAad(id) ELSE RecoveryStageAad(id)

-----------------------------------------------------------------------------
(* What browsers compute.                                                  *)

OwnerEnvelope(password, vaultKey) == WrapKey(vaultKey, Kek(password), OwnerAad)

UnwrapOwner(password, envelope) == UnwrapKey(envelope, Kek(password), OwnerAad)

\* What the setup page sends.
SetupRequest(password) ==
    [password |-> password, envelope |-> OwnerEnvelope(password, VaultKey(Vault)),
     commitment |-> Commitment(VaultKey(Vault))]

RewrapOwner(old, new, envelope) ==
    LET key == UnwrapOwner(old, envelope)
    IN  IF key = None
        THEN None
        ELSE [envelope |-> OwnerEnvelope(new, key), commitment |-> Commitment(key)]

\* What the page of the owner's password sends, None when the worker fails.
OwnerPasswordChange(old, new) ==
    LET wrapped == RewrapOwner(old, new, vault.envelope)
    IN  IF wrapped = None THEN None ELSE [old |-> old, new |-> new, wrapped |-> wrapped]

ContactEnvelope(contact, password) == WrapContactPrivateKey(contact, Kek(password), Vault)

UnwrapContact(contact, password, envelope) ==
    UnwrapContactPrivateKey(envelope, contact, Kek(password), Vault)

\* What the page of an invitation sends.
Acceptance(contact, password) ==
    [password |-> password, envelope |-> ContactEnvelope(contact, password)]

RewrapContact(contact, old, new, envelope) ==
    IF UnwrapContact(contact, old, envelope) = None THEN None ELSE ContactEnvelope(contact, new)

\* What the page of a contact's password sends.
ContactPasswordChange(contact, old, new) ==
    LET envelope == RewrapContact(contact, old, new, contacts[contact].envelope)
    IN  IF envelope = None THEN None ELSE [old |-> old, new |-> new, envelope |-> envelope]

\* Mutant: the thresholds of the two purposes are taken for each other.
DealSharesSwapped(vaultKey, id, roster, threshold) ==
    LET Other(purpose) == CHOOSE p \in Purposes : p # purpose
        Dealing(purpose) ==
            Commitments(vaultKey,
                VssContext(Vault, id, purpose, threshold[Other(purpose)], Cardinality(roster),
                           Commitment(vaultKey)))
    IN  [commitments |-> [p \in Purposes |-> Dealing(p)],
         sealed |-> [p \in Purposes |->
                        SealGeneration(p, Vault, id, roster, threshold[p], Dealing(p))]]

\* One dealing of the vault key per purpose, every share sealed to its contact.
DealShares(vaultKey, id, roster, threshold) ==
    LET Dealing(purpose) ==
            Commitments(vaultKey,
                VssContext(Vault, id, purpose, threshold[purpose], Cardinality(roster),
                           Commitment(vaultKey)))
    IN  [commitments |-> [p \in Purposes |-> Dealing(p)],
         sealed |-> [p \in Purposes |->
                        SealGeneration(p, Vault, id, roster, threshold[p], Dealing(p))]]

\* What the page of the dealing sends for a draft.
ShareUpload(password, row) ==
    LET key == UnwrapOwner(password, vault.envelope)
    IN  IF key = None
        THEN None
        ELSE [commitment |-> Commitment(key),
              shares |-> DealShares(key, row.id, row.roster, row.threshold)]

\* The share of a contact, opened with a password and with what its page shows.
OpenContactShare(contact, password, row, purpose, required) ==
    OpenShare(row.shares.sealed[purpose][contact],
              ShareMetadata(purpose, Vault, row.id, contact, required,
                            row.shares.commitments[purpose]),
              UnwrapContact(contact, password, contacts[contact].envelope))

-----------------------------------------------------------------------------
(* What API and worker compute.                                            *)

Current(role, purpose) == Capability(role, purpose, deployed[role][purpose])

\* A provider mounts one version of a key and refuses any other.
KeyForVersion(role, purpose, version) ==
    IF version = deployed[role][purpose] THEN Current(role, purpose) ELSE None

\* The context a dealing must have been made for, from the rows of the database.
ExpectedDealing(row, purpose) ==
    VssContext(Vault, row.id, purpose, row.threshold[purpose], Cardinality(row.roster),
               vault.commitment)

\* The context of a fragment, from its row.
RowContext(contact, ingressVersion) ==
    FragmentContext(workflow.id, contact, workflow.row.id, workflow.purpose,
                    workflow.row.shares.commitments[workflow.purpose], ingressVersion)

ValidShare(share) ==
    /\ share # None
    /\ VerifyShare(share, workflow.row.shares.commitments[workflow.purpose],
                   ExpectedDealing(workflow.row, workflow.purpose))

StagedShare(contact) ==
    LET key == KeyForVersion("stage", workflow.purpose, fragments[contact].stage)
    IN  IF key = None
        THEN None
        ELSE OpenStage(fragments[contact].box, RowContext(contact, fragments[contact].ingress), key)

\* The vault key out of the staged shares of some contacts, checked against the vault.
Reconstruct(quorum) ==
    LET shares == {StagedShare(c) : c \in quorum}
        key == CombineShares(shares, workflow.row.shares.commitments[workflow.purpose],
                             ExpectedDealing(workflow.row, workflow.purpose))
    IN  IF (\A s \in shares : ValidShare(s)) /\ Commitment(key) = vault.commitment
        THEN key
        ELSE None

WrapSession(key) ==
    [box |-> WrapKey(key, Current("stage", workflow.purpose),
                     StageAad(workflow.purpose, workflow.id)),
     stage |-> deployed["stage"][workflow.purpose],
     commitment |-> Commitment(key)]

SessionKey ==
    LET key == KeyForVersion("stage", workflow.purpose, session.stage)
    IN  IF key = None
        THEN None
        ELSE UnwrapKey(session.box, key, StageAad(workflow.purpose, workflow.id))

NoFragments == [c \in Contacts |-> None]

ActiveIn(rows) == {k \in Packages : rows[k] # None /\ rows[k].status = "ACTIVE"}

NextVersion == 1 + Cardinality({k \in Packages : packages[k] # None})

Disturb == disturbances < MaxDisturbances /\ disturbances' = disturbances + 1

-----------------------------------------------------------------------------
(* Setup and passwords.                                                    *)

Init ==
    /\ vault = None
    /\ contacts = [c \in Contacts |-> [status |-> "INVITED", password |-> None, envelope |-> None]]
    /\ generation = None
    /\ draft = None
    /\ generations = 0
    /\ workflow = None
    /\ workflows = 0
    /\ fragments = NoFragments
    /\ decided = {}
    /\ session = None
    /\ rewrap = None
    /\ pages = [c \in Contacts |-> 0]
    /\ prepared = [k \in Packages |-> None]
    /\ packages = [k \in Packages |-> None]
    /\ deployed = [role \in {"ingress", "stage"} |-> [p \in Purposes |-> 1]]
    /\ disturbances = 0

CreateOwner(password) ==
    /\ vault = None
    /\ vault' = SetupRequest(password)
    /\ UNCHANGED <<contacts, dealingVars, workflowVars, packageVars, deployed, disturbances>>

AcceptInvitation(c, password) ==
    /\ vault # None
    /\ contacts[c].status = "INVITED"
    /\ contacts' = [contacts EXCEPT ![c] =
            [status |-> "PENDING_KEYING", password |-> Acceptance(c, password).password,
             envelope |-> Acceptance(c, password).envelope]]
    /\ UNCHANGED <<vault, dealingVars, workflowVars, packageVars, deployed, disturbances>>

\* Mutant: the envelope stays.
ChangeOwnerPasswordHashOnly(old, new) ==
    /\ vault # None
    /\ VerifyPassword(old, vault.password)
    /\ vault' = [vault EXCEPT !.password = new]
    /\ Disturb
    /\ UNCHANGED <<contacts, dealingVars, workflowVars, packageVars, deployed>>

\* The browser wraps the vault key anew; hash and envelope are replaced together.
ChangeOwnerPassword(old, new) ==
    /\ vault # None
    /\ LET request == OwnerPasswordChange(old, new)
       IN  /\ request # None
           /\ VerifyPassword(request.old, vault.password)
           /\ request.wrapped.commitment = vault.commitment
           /\ vault' = [vault EXCEPT !.password = request.new,
                                     !.envelope = request.wrapped.envelope]
    /\ Disturb
    /\ UNCHANGED <<contacts, dealingVars, workflowVars, packageVars, deployed>>

\* The public key stays: shares are sealed to it.
ChangeContactPassword(c, old, new) ==
    /\ contacts[c].password # None
    /\ LET request == ContactPasswordChange(c, old, new)
       IN  /\ request # None
           /\ VerifyPassword(request.old, contacts[c].password)
           /\ contacts' = [contacts EXCEPT ![c].password = request.new,
                                           ![c].envelope = request.envelope]
    /\ Disturb
    /\ UNCHANGED <<vault, dealingVars, workflowVars, packageVars, deployed>>

-----------------------------------------------------------------------------
(* Dealing the vault key.                                                  *)

Keyable == {c \in Contacts : contacts[c].status \in {"PENDING_KEYING", "ACTIVE"}}

CreateShareGeneration ==
    /\ vault # None
    /\ Cardinality(Keyable) >= MinContacts
    /\ draft' = [id |-> generations + 1, roster |-> Keyable,
                 threshold |-> [p \in Purposes |-> Threshold(p, Cardinality(Keyable))],
                 shares |-> None]
    /\ generations' = generations + 1
    /\ IF generations = 0 THEN UNCHANGED disturbances ELSE Disturb
    /\ UNCHANGED <<keyVars, generation, workflowVars, packageVars, deployed>>

UploadShareGeneration(password) ==
    /\ draft # None
    /\ draft.shares = None
    /\ draft.roster = Keyable
    /\ LET request == ShareUpload(password, draft)
       IN  /\ request # None
           /\ request.commitment = vault.commitment
           /\ draft' = [draft EXCEPT !.shares = request.shares]
    /\ UNCHANGED <<keyVars, generation, generations, workflowVars, packageVars, deployed,
                   disturbances>>

ActivateShareGeneration ==
    /\ draft # None
    /\ draft.shares # None
    /\ draft.roster = Keyable
    /\ generation' = draft
    /\ draft' = None
    /\ contacts' = [c \in Contacts |->
            IF c \in draft.roster THEN [contacts[c] EXCEPT !.status = "ACTIVE"] ELSE contacts[c]]
    /\ UNCHANGED <<vault, generations, workflowVars, packageVars, deployed, disturbances>>

-----------------------------------------------------------------------------
(* Packages.                                                               *)

\* What the upload worker returns: the key of the package, wrapped for its version.
Prepared(k, password) ==
    LET key == UnwrapOwner(password, vault.envelope)
        aad == PackageAad(k, NextVersion)
    IN  IF key = None
        THEN None
        ELSE [version |-> NextVersion, generation |-> generation.id, password |-> password,
              dek |-> WrapKey([dek |-> k], key, aad), aadHash |-> aad]

\* The browser encrypts the package for the version it has read, which takes a while.
PreparePackage(k, password) ==
    /\ generation # None
    /\ prepared[k] = None
    /\ packages[k] = None
    /\ Prepared(k, password) # None
    /\ prepared' = [prepared EXCEPT ![k] = Prepared(k, password)]
    /\ IF \A j \in Packages : prepared[j] = None /\ packages[j] = None
       THEN UNCHANGED disturbances
       ELSE Disturb
    /\ UNCHANGED <<keyVars, dealingVars, workflowVars, packages, deployed>>

\* Mutant: the version of the row is not compared with the one of the box.
CreateUploadSessionNext(k) ==
    /\ prepared[k] # None
    /\ packages[k] = None
    /\ packages' = [packages EXCEPT ![k] =
            [status |-> "READY", version |-> NextVersion,
             generation |-> prepared[k].generation,
             dek |-> prepared[k].dek, aadHash |-> prepared[k].aadHash]]
    /\ UNCHANGED <<keyVars, dealingVars, workflowVars, prepared, deployed, disturbances>>

\* The row gets the version the box is bound to, or the browser starts over.
CreateUploadSession(k) ==
    /\ prepared[k] # None
    /\ packages[k] = None
    /\ prepared[k].version = NextVersion
    /\ packages' = [packages EXCEPT ![k] =
            [status |-> "READY", version |-> prepared[k].version,
             generation |-> prepared[k].generation,
             dek |-> prepared[k].dek, aadHash |-> prepared[k].aadHash]]
    /\ UNCHANGED <<keyVars, dealingVars, workflowVars, prepared, deployed, disturbances>>

\* The page repeats the password it has encrypted with.
ActivatePackage(k) ==
    /\ packages[k] # None
    /\ packages[k].status = "READY"
    /\ VerifyPassword(prepared[k].password, vault.password)
    /\ packages[k].generation = generation.id
    /\ packages' = [j \in Packages |->
            IF j = k THEN [packages[k] EXCEPT !.status = "ACTIVE"]
            ELSE IF j \in ActiveIn(packages) THEN [packages[j] EXCEPT !.status = "SUPERSEDED"]
            ELSE packages[j]]
    /\ prepared' = [prepared EXCEPT ![k] = None]
    /\ UNCHANGED <<keyVars, dealingVars, workflowVars, deployed, disturbances>>

-----------------------------------------------------------------------------
(* Workflows.                                                              *)

\* The threshold and the dealing of the workflow are those of its generation.
StartWorkflow(purpose) ==
    /\ workflow = None
    /\ workflows < MaxWorkflows
    /\ generation # None
    /\ generation.roster = {c \in Contacts : contacts[c].status = "ACTIVE"}
    /\ ActiveIn(packages) # {}
    /\ workflow' = [id |-> workflows + 1, purpose |-> purpose, state |-> "GATHERING",
                    row |-> generation, required |-> generation.threshold[purpose]]
    /\ workflows' = workflows + 1
    /\ UNCHANGED <<keyVars, dealingVars, stagedVars, packageVars, deployed, disturbances>>

DestroyMaterial ==
    /\ fragments' = NoFragments
    /\ decided' = {}
    /\ session' = None
    /\ rewrap' = None
    /\ pages' = [c \in Contacts |-> 0]

\* Cancelled, refused or expired: all key material of the workflow goes with it.
EndWorkflow ==
    /\ workflow # None
    /\ workflow' = None
    /\ DestroyMaterial
    /\ UNCHANGED <<keyVars, dealingVars, workflows, packageVars, deployed, disturbances>>

OpenPage(c) ==
    /\ workflow # None
    /\ c \in workflow.row.roster
    /\ c \notin decided
    /\ workflow.state = "GATHERING"
    /\ pages' = [pages EXCEPT ![c] = deployed["ingress"][workflow.purpose]]
    /\ UNCHANGED <<keyVars, dealingVars, workflow, workflows, fragments, decided, session, rewrap,
                   packageVars, deployed, disturbances>>

\* What the crypto worker makes of a share: sealed to the ingress key on the page.
ContactFragment(c, password, purpose) ==
    LET share == OpenContactShare(c, password, workflow.row, purpose, workflow.required)
    IN  IF share = None
        THEN None
        ELSE [box |-> SealFragment(share, RowContext(c, pages[c]),
                                   Capability("ingress", purpose, pages[c])),
              ingress |-> pages[c]]

\* What the two pages of a contact send.
DeathConfirmation(c, password) ==
    [password |-> password, fragment |-> ContactFragment(c, password, "DEATH")]

RecoveryApproval(c, password) ==
    [password |-> password, fragment |-> ContactFragment(c, password, "RECOVERY")]

PageOpen(c, purpose) ==
    /\ workflow # None
    /\ workflow.purpose = purpose
    /\ pages[c] # 0

MaySubmit(c, request) ==
    /\ request.fragment # None
    /\ workflow.state = "GATHERING"
    /\ VerifyPassword(request.password, contacts[c].password)
    /\ contacts[c].status = "ACTIVE"
    /\ fragments[c] = None
    /\ c \notin decided

\* The API cannot open the fragment and keeps the version the page has named.
ConfirmDeath(c, password) ==
    /\ PageOpen(c, "DEATH")
    /\ LET request == DeathConfirmation(c, password)
       IN  /\ MaySubmit(c, request)
           /\ fragments' = [fragments EXCEPT ![c] =
                  [status |-> "PENDING", box |-> request.fragment.box,
                   ingress |-> request.fragment.ingress, stage |-> 0]]
    /\ generation.id = workflow.row.id
    /\ UNCHANGED <<keyVars, dealingVars, workflow, workflows, decided, session, rewrap, pages,
                   packageVars, deployed, disturbances>>

\* Mutant: the row keeps the version of the ingress key for the one of the stage key.
ValidateFragmentWrongVersion(c) ==
    /\ workflow # None
    /\ fragments[c] # None
    /\ fragments[c].status = "PENDING"
    /\ generation.id = workflow.row.id
    /\ KeyForVersion("ingress", "DEATH", fragments[c].ingress) # None
    /\ LET context == RowContext(c, fragments[c].ingress)
           share == OpenFragment(fragments[c].box, context, Current("ingress", "DEATH"))
       IN  fragments' = [fragments EXCEPT ![c] =
              [status |-> "VALIDATED", ingress |-> fragments[c].ingress,
               box |-> WrapStage(share, context, Current("stage", "DEATH")),
               stage |-> fragments[c].ingress]]
    /\ UNCHANGED <<keyVars, dealingVars, workflow, workflows, decided, session, rewrap, pages,
                   packageVars, deployed, disturbances>>

\* First transaction of the job: an ingress key of another version stops it.
ValidateFragment(c) ==
    /\ workflow # None
    /\ fragments[c] # None
    /\ fragments[c].status = "PENDING"
    /\ generation.id = workflow.row.id
    /\ KeyForVersion("ingress", "DEATH", fragments[c].ingress) # None
    /\ LET context == RowContext(c, fragments[c].ingress)
           share == OpenFragment(fragments[c].box, context, Current("ingress", "DEATH"))
       IN  fragments' = [fragments EXCEPT ![c] =
              IF ValidShare(share)
              THEN [status |-> "VALIDATED", ingress |-> fragments[c].ingress,
                    box |-> WrapStage(share, context, Current("stage", "DEATH")),
                    stage |-> deployed["stage"]["DEATH"]]
              ELSE [fragments[c] EXCEPT !.status = "REJECTED"]]
    /\ UNCHANGED <<keyVars, dealingVars, workflow, workflows, decided, session, rewrap, pages,
                   packageVars, deployed, disturbances>>

\* At the threshold the vault key leaves the fragments for the session, in one transaction.
Decide(c, quorum) ==
    IF Cardinality(decided \cup {c}) < workflow.required
    THEN /\ decided' = decided \cup {c}
         /\ UNCHANGED <<workflow, session>>
    ELSE /\ Cardinality(quorum) = workflow.required
         /\ Reconstruct(quorum) # None
         /\ session' = WrapSession(Reconstruct(quorum))
         /\ workflow' = [workflow EXCEPT !.state = "QUORUM"]
         /\ decided' = decided \cup {c}

Validated == {c \in Contacts : fragments[c] # None /\ fragments[c].status = "VALIDATED"}

\* Second transaction of the job.
RecordConfirmation(c) ==
    /\ workflow # None
    /\ workflow.purpose = "DEATH"
    /\ workflow.state = "GATHERING"
    /\ c \in Validated \ decided
    /\ Decide(c, Validated \cap (decided \cup {c}))
    /\ fragments' = IF workflow'.state = "QUORUM" THEN NoFragments ELSE fragments
    /\ UNCHANGED <<keyVars, dealingVars, workflows, rewrap, pages, packageVars, deployed,
                   disturbances>>

FinalizePublication ==
    /\ workflow # None
    /\ workflow.purpose = "DEATH"
    /\ workflow.state = "QUORUM"
    /\ \E k \in ActiveIn(packages) :
          LET aad == PackageAad(k, packages[k].version)
          IN  /\ SessionKey # None
              /\ packages[k].aadHash = aad
              /\ UnwrapKey(packages[k].dek, SessionKey, aad) # None
    /\ workflow' = [workflow EXCEPT !.state = "RELEASED"]
    /\ DestroyMaterial
    /\ UNCHANGED <<keyVars, dealingVars, workflows, packageVars, deployed, disturbances>>

-----------------------------------------------------------------------------
(* Password recovery.                                                      *)

\* The API holds the keys itself: the fragment is opened before it is stored.
OpenedApproval(c, fragment) ==
    OpenFragment(fragment.box, RowContext(c, fragment.ingress), Current("ingress", "RECOVERY"))

StoreApproval(c, fragment) ==
    LET share == OpenedApproval(c, fragment)
    IN  /\ ValidShare(share)
        /\ fragments' = [fragments EXCEPT ![c] =
              [status |-> "VALIDATED", ingress |-> fragment.ingress,
               box |-> WrapStage(share, RowContext(c, fragment.ingress),
                                 Current("stage", "RECOVERY")),
               stage |-> deployed["stage"]["RECOVERY"]]]
        /\ decided' = decided \cup {c}
        /\ UNCHANGED <<workflow, session>>

\* The last share is combined with the staged ones and never stored.
CompleteApprovals(c, fragment) ==
    LET shares == {StagedShare(d) : d \in decided} \cup {OpenedApproval(c, fragment)}
        key == CombineShares(shares, workflow.row.shares.commitments["RECOVERY"],
                             ExpectedDealing(workflow.row, "RECOVERY"))
    IN  /\ \A s \in shares : ValidShare(s)
        /\ Commitment(key) = vault.commitment
        /\ session' = WrapSession(key)
        /\ workflow' = [workflow EXCEPT !.state = "QUORUM"]
        /\ decided' = decided \cup {c}
        /\ fragments' = NoFragments

ApproveRecovery(c, password) ==
    /\ PageOpen(c, "RECOVERY")
    /\ LET request == RecoveryApproval(c, password)
       IN  /\ MaySubmit(c, request)
           /\ KeyForVersion("ingress", "RECOVERY", request.fragment.ingress) # None
           /\ IF Cardinality(decided \cup {c}) < workflow.required
              THEN StoreApproval(c, request.fragment)
              ELSE CompleteApprovals(c, request.fragment)
    /\ UNCHANGED <<keyVars, dealingVars, workflows, rewrap, pages, packageVars, deployed,
                   disturbances>>

\* The link and the code of the reset mail buy the vault key once.
ServeVaultKey ==
    /\ workflow # None
    /\ workflow.purpose = "RECOVERY"
    /\ workflow.state = "QUORUM"
    /\ rewrap = None
    /\ SessionKey # None
    /\ Commitment(SessionKey) = session.commitment
    /\ rewrap' = SealRecovery(workflow.id, SessionKey, Browser)
    /\ UNCHANGED <<keyVars, dealingVars, workflow, workflows, fragments, decided, session, pages,
                   packageVars, deployed, disturbances>>

\* What the crypto worker returns for the seal of the recovery, with the proof.
Replacement(password) ==
    LET key == OpenRecovery(rewrap, workflow.id, PrivateKey(Browser))
        envelope == OwnerEnvelope(password, key)
    IN  IF key = None
        THEN None
        ELSE [envelope |-> envelope, commitment |-> Commitment(key),
              proof |-> ReplacementProof(key, workflow.id, Vault, rewrap, password, envelope)]

\* The browser opens the seal, wraps the vault key with the new password and proves both.
CompleteReset(password) ==
    /\ rewrap # None
    /\ LET request == Replacement(password)
       IN  /\ request # None
           /\ SessionKey # None
           /\ Commitment(SessionKey) = vault.commitment
           /\ request.commitment = vault.commitment
           /\ VerifyReplacement(request.proof, SessionKey, workflow.id, Vault, rewrap, password,
                                request.envelope)
           /\ vault' = [vault EXCEPT !.password = password, !.envelope = request.envelope]
    /\ workflow' = None
    /\ DestroyMaterial
    /\ UNCHANGED <<contacts, dealingVars, workflows, packageVars, deployed, disturbances>>

-----------------------------------------------------------------------------
(* Rotation of the deployed keys: "drain, then switch" of the runbook.     *)

\* No fragment of the old version may be PENDING.
RotateIngress(purpose) ==
    /\ workflow # None /\ workflow.purpose = purpose =>
          \A c \in Contacts : fragments[c] # None => fragments[c].status # "PENDING"
    /\ deployed' = [deployed EXCEPT !["ingress"][purpose] = @ + 1]
    /\ Disturb
    /\ UNCHANGED <<keyVars, dealingVars, workflowVars, packageVars>>

\* No staged fragment and no ACTIVE session of the old version may be left.
RotateStage(purpose) ==
    /\ workflow # None /\ workflow.purpose = purpose => Validated = {} /\ session = None
    /\ deployed' = [deployed EXCEPT !["stage"][purpose] = @ + 1]
    /\ Disturb
    /\ UNCHANGED <<keyVars, dealingVars, workflowVars, packageVars>>

Next ==
    \/ \E p \in Passwords : CreateOwner(p) \/ UploadShareGeneration(p) \/ CompleteReset(p)
    \/ \E p, q \in Passwords : ChangeOwnerPassword(p, q)
    \/ \E c \in Contacts, p \in Passwords :
          AcceptInvitation(c, p) \/ ConfirmDeath(c, p) \/ ApproveRecovery(c, p)
    \/ \E c \in Contacts, p, q \in Passwords : ChangeContactPassword(c, p, q)
    \/ CreateShareGeneration
    \/ ActivateShareGeneration
    \/ \E k \in Packages, p \in Passwords : PreparePackage(k, p)
    \/ \E k \in Packages : CreateUploadSession(k) \/ ActivatePackage(k)
    \/ \E purpose \in Purposes : StartWorkflow(purpose)
    \/ EndWorkflow
    \/ \E c \in Contacts : OpenPage(c) \/ ValidateFragment(c) \/ RecordConfirmation(c)
    \/ FinalizePublication
    \/ ServeVaultKey
    \/ \E purpose \in Purposes : RotateIngress(purpose) \/ RotateStage(purpose)

Spec == Init /\ [][Next]_vars

-----------------------------------------------------------------------------
(* Properties.                                                             *)

\* The password that logs the owner in opens the vault, whatever password
\* changes and resets there were: the browser can always unwrap the vault key
\* the commitment of the database names.  This is about hash and envelope
\* being replaced by the same key and together, in three handlers.
OwnerOpensVault ==
    vault # None =>
        /\ UnwrapOwner(vault.password, vault.envelope) = VaultKey(Vault)
        /\ vault.commitment = Commitment(VaultKey(Vault))

\* Any contacts that are enough for a purpose, and no fewer, hold the vault
\* key: with the passwords they log in with now they open shares of the active
\* generation that combine to it, however many passwords were changed and
\* dealings made since.  The purposes do not mix.
QuorumOpensVault ==
    generation # None =>
        \A purpose \in Purposes :
            LET required == Threshold(purpose, Cardinality(generation.roster))
                opened == [c \in generation.roster |->
                    OpenContactShare(c, contacts[c].password, generation, purpose, required)]
            IN  \A set \in SUBSET generation.roster :
                    LET shares == {opened[c] : c \in set}
                        key == CombineShares(shares, generation.shares.commitments[purpose],
                                             ExpectedDealing(generation, purpose))
                    IN  IF Cardinality(set) >= required
                        THEN None \notin shares /\ key = VaultKey(Vault)
                        ELSE None \in shares \/ key = None

\* Key material that waits for the server can be read by it: a staged share
\* and a session under the key deployed now, a submitted fragment under the key
\* its row names.  Rotations by the runbook do not strand a workflow that is
\* past the ingress.
HeldMaterialIsReadable ==
    workflow # None =>
        /\ \A c \in Validated : ValidShare(StagedShare(c))
        /\ session # None => SessionKey = VaultKey(Vault)
        /\ \A c \in Contacts :
              fragments[c] # None /\ fragments[c].status # "VALIDATED" =>
                  /\ fragments[c].status = "PENDING"
                  /\ ValidShare(OpenFragment(fragments[c].box, RowContext(c, fragments[c].ingress),
                         Capability("ingress", workflow.purpose, fragments[c].ingress)))

\* The package in force can be opened with the vault key by a worker that
\* rebuilds the additional data from the row: the version the browser has
\* encrypted for is the version of the row, also when two tabs have prepared
\* packages for the same one.
ActivePackageOpens ==
    \A k \in ActiveIn(packages) :
        LET aad == PackageAad(k, packages[k].version)
        IN  /\ packages[k].aadHash = aad
            /\ UnwrapKey(packages[k].dek, VaultKey(Vault), aad) = [dek |-> k]

=============================================================================
