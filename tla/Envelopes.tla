------------------------------ MODULE Envelopes ------------------------------
(***************************************************************************)
(* The cryptographic envelopes of the system (packages/crypto and          *)
(* packages/vss-wasm), as symbolic terms: a box is the record of what was  *)
(* put in, of the key it is under and of the context it is bound to, and   *)
(* it gives its content back for exactly that key and that context.  Salts *)
(* and nonces are left out: two boxes of the same content, key and context *)
(* need not be told apart.                                                 *)
(***************************************************************************)
EXTENDS FiniteSets, Naturals

\* The exception of an operation that fails, and a column that is NULL: a record
\* with a field no other has.
None == [none |-> TRUE]

-----------------------------------------------------------------------------
(* Keys.  Every key has a field of its own name: keys of different kinds   *)
(* are different.                                                          *)

\* What Argon2id derives in the browser from the normalized password.
Kek(password) == [kek |-> password]

VaultKey(vault) == [vaultKey |-> vault]

Commitment(vaultKey) == [commits |-> vaultKey]

\* The private half of the X25519 pair of a contact, or of a browser.
PrivateKey(holder) == [private |-> holder]

\* A capability of a process: "ingress" or "stage", of a purpose, in a version.
Capability(role, purpose, version) == [role |-> role, purpose |-> purpose, version |-> version]

\* Argon2 of the server accepts the password the hash was made from.
VerifyPassword(password, hash) == hash # None /\ hash = password

-----------------------------------------------------------------------------
(* Wrapped keys: XChaCha20-Poly1305 over the canonical form of its         *)
(* additional data.                                                        *)

\* The additional data of a wrapped key; scope holds the optional fields.
CanonicalAad(purpose, vault, keyId, scope) ==
    [purpose |-> purpose, vault |-> vault, keyId |-> keyId, scope |-> scope]

WrapKey(key, wrappingKey, aad) == [content |-> key, under |-> wrappingKey, aad |-> aad]

UnwrapKey(envelope, wrappingKey, aad) ==
    IF envelope.under = wrappingKey /\ envelope.aad = aad THEN envelope.content ELSE None

ContactAad(vault, contact) ==
    CanonicalAad("contact-private-key", vault, <<"public-key", contact>>, [contact |-> contact])

WrapContactPrivateKey(contact, kek, vault) ==
    WrapKey(PrivateKey(contact), kek, ContactAad(vault, contact))

\* The key must also belong to the public key the caller knows.
UnwrapContactPrivateKey(envelope, contact, kek, vault) ==
    LET key == UnwrapKey(envelope, kek, ContactAad(vault, contact))
    IN  IF key = PrivateKey(contact) THEN key ELSE None

-----------------------------------------------------------------------------
(* Verifiable secret sharing (packages/vss-wasm): the commitments of a     *)
(* dealing bind its shares to one context.  A share is named by its holder *)
(* here, where the code numbers the holders.                               *)

VssContext(vault, generation, purpose, threshold, count, commitment) ==
    [vault |-> vault, generation |-> generation, purpose |-> purpose,
     threshold |-> threshold, count |-> count, commitment |-> commitment]

\* What split returns for a secret: the commitments, and the share of every holder.
Commitments(secret, context) == [secret |-> secret, context |-> context]

Share(commitments, holder) == [commitments |-> commitments, holder |-> holder]

VerifyShare(share, commitments, context) ==
    share.commitments = commitments /\ commitments.context = context

CombineShares(shares, commitments, context) ==
    IF /\ context.threshold \in 2..Cardinality({s.holder : s \in shares})
       /\ Cardinality(shares) <= context.count
       /\ \A s \in shares : VerifyShare(s, commitments, context)
    THEN commitments.secret
    ELSE None

-----------------------------------------------------------------------------
(* Shares sealed to their holder: an anonymous box that repeats, inside,   *)
(* all the page knows of the share from outside.                           *)

ShareMetadata(purpose, vault, generation, contact, threshold, commitments) ==
    [purpose |-> purpose, vault |-> vault, generation |-> generation,
     contact |-> contact, threshold |-> threshold, digest |-> commitments]

SealShare(share, metadata, contact) ==
    [share |-> share, metadata |-> metadata, to |-> contact]

OpenShare(box, metadata, privateKey) ==
    IF privateKey = PrivateKey(box.to) /\ box.metadata = metadata THEN box.share ELSE None

\* The sealed shares of one dealing, one for every contact of the roster.
SealGeneration(purpose, vault, generation, roster, threshold, commitments) ==
    [c \in roster |->
        SealShare(Share(commitments, c),
                  ShareMetadata(purpose, vault, generation, c, threshold, commitments), c)]

-----------------------------------------------------------------------------
(* Fragments: a share on its way to the process that holds the ingress     *)
(* key, and at rest there under the stage key.                             *)

FragmentContext(workflow, contact, generation, purpose, digest, ingressVersion) ==
    [workflow |-> workflow, contact |-> contact, generation |-> generation,
     purpose |-> purpose, digest |-> digest, ingress |-> ingressVersion]

SealFragment(share, context, ingressKey) ==
    [content |-> share, under |-> ingressKey, context |-> context]

OpenFragment(box, context, ingressKey) ==
    IF box.under = ingressKey /\ box.context = context THEN box.content ELSE None

\* The version of the stage key is part of what the box is bound to.
WrapStage(share, context, stageKey) ==
    [content |-> share, under |-> stageKey, context |-> <<context, stageKey.version>>]

OpenStage(box, context, stageKey) ==
    IF box.under = stageKey /\ box.context = <<context, stageKey.version>>
    THEN box.content
    ELSE None

-----------------------------------------------------------------------------
(* The password reset: the vault key sealed to a key the browser made for  *)
(* it, and the proof that who replaces the envelope has opened the seal.   *)

SealRecovery(workflow, vaultKey, ephemeral) ==
    [workflow |-> workflow, content |-> vaultKey, to |-> ephemeral]

OpenRecovery(sealed, workflow, privateKey) ==
    IF privateKey = PrivateKey(sealed.to) /\ sealed.workflow = workflow
    THEN sealed.content
    ELSE None

\* Two message codes under the vault key, over all that is about to be stored.
ReplacementProof(vaultKey, workflow, vault, sealed, password, envelope) ==
    [by |-> vaultKey, workflow |-> workflow, vault |-> vault, sealed |-> sealed,
     password |-> password, envelope |-> envelope]

VerifyReplacement(proof, vaultKey, workflow, vault, sealed, password, envelope) ==
    proof = ReplacementProof(vaultKey, workflow, vault, sealed, password, envelope)

=============================================================================
