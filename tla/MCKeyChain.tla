----------------------------- MODULE MCKeyChain -----------------------------
(***************************************************************************)
(* Model values for checking module KeyChain with TLC.  Passwords, contacts *)
(* and packages are interchangeable.                                       *)
(*                                                                         *)
(* The assumptions compare the two algorithms KeyChain takes as symbols,   *)
(* the sharing and the encrypted file, with what is expected of them: TLC  *)
(* evaluates them before the run.                                          *)
(***************************************************************************)
EXTENDS KeyChain, Sequences, TLC

CONSTANTS c1, c2, c3, p1, p2, k1, k2

Symmetry == Permutations(Contacts) \cup Permutations(Passwords) \cup Permutations(Packages)

-----------------------------------------------------------------------------
(* Sharing over a field of five elements: three holders, any two of them.  *)

Vss == INSTANCE VerifiableSharing WITH Q <- 5, MaxShareCount <- 4

F == 0..4

\* Every polynomial for the first half of the secret, a few for what else there is.
Polynomials == {<<<<a, b>>, second>> : a \in F, b \in F, second \in {<<3, 0>>, <<0, 2>>}}

Blinders == {<<<<1, 4>>, <<2, 2>>>>, <<<<0, 0>>, <<4, 1>>>>}

Dealings == {Vss!Split(p, b, 2, 3, "context") : p \in Polynomials, b \in Blinders}

Secret(polynomials) == <<polynomials[1][1], polynomials[2][1]>>

\* Any two or three shares of a dealing give the secret back, in any order, and
\* a single one or one twice do not: what CombineShares of KeyChain says.
ASSUME QuorumCombines ==
    \A p \in Polynomials, b \in Blinders :
        LET dealing == Vss!Split(p, b, 2, 3, "context")
            Combined(holders) ==
                Vss!Combine([i \in DOMAIN holders |-> dealing.shares[holders[i]]],
                            dealing.commitments, "context")
        IN  /\ \A x, y \in 1..3 : Combined(<<x, y>>) = IF x = y THEN None ELSE Secret(p)
            /\ Combined(<<3, 1, 2>>) = Secret(p)
            /\ \A x \in 1..3 : Combined(<<x>>) = None

\* A share verifies against its own dealing and context only, and only unchanged.
ASSUME SharesAreBound ==
    \A d, e \in Dealings, x \in 1..3 :
        LET share == d.shares[x]
        IN  /\ Vss!VerifyShare(share, e.commitments, "context") <=>
                   \E y \in 1..3 : share = e.shares[y]
            /\ ~Vss!VerifyShare(share, d.commitments, "other")
            /\ \A v \in F : v # share.values[1] =>
                   ~Vss!VerifyShare([share EXCEPT !.values[1] = v], d.commitments, "context")
            /\ \A v \in F : v # share.blinders[2] =>
                   ~Vss!VerifyShare([share EXCEPT !.blinders[2] = v], d.commitments, "context")

\* The value of one share fits every secret equally often.
ASSUME OneShareSaysNothing ==
    \A x \in 1..3, v \in F, s \in F :
        Cardinality({b \in F : Vss!Evaluate(<<s, b>>, x) = v}) = 1

\* A threshold outside 2..count is refused.
ASSUME ThresholdsAreChecked ==
    \A t \in 0..5, n \in 0..5 :
        Vss!Split(<<<<1, 2>>, <<3, 4>>>>, <<<<1, 2>>, <<3, 4>>>>, t, n, "context") # None
            <=> t \in 2..n /\ n <= 4

-----------------------------------------------------------------------------
(* The encrypted file: frames of at most two bytes.                        *)

File == INSTANCE SealedStream WITH MaxFrame <- 2

Chunks == {<<>>, <<1>>, <<1, 2>>, <<1, 2, 3>>, <<1, 2, 3, 4, 5>>}

Sources == {<<>>} \cup {<<a>> : a \in Chunks} \cup {<<a, b>> : a, b \in Chunks}

IsPrefixOf(s, t) == Len(s) <= Len(t) /\ SubSeq(t, 1, Len(s)) = s

Encrypted(source, stream) == File!EncryptStream("key", stream, "context", source)

\* Decryption gives back what was encrypted, in frames that are full or last of
\* their chunk, and only with the key and for the package it was made for.
ASSUME FilesComeBack ==
    \A source \in Sources :
        LET file == Encrypted(source, 1)
            out == File!DecryptPackage("key", "context", File!Header(1), file)
        IN  /\ out.manifest
            /\ File!FlattenSeq(out.delivered) = File!FlattenSeq(source)
            /\ \A i \in DOMAIN out.delivered :
                   Len(out.delivered[i]) \in 1..2 \/ out.delivered = <<<<>>>>
            /\ File!DecryptStream("key2", "context", file) =
                   [delivered |-> <<>>, manifest |-> FALSE]
            /\ File!DecryptStream("key", "context2", file).delivered = <<>>

\* Whatever is done to a file, in items of its own, of another one under the
\* same key, or torn ones: what reaches the sink is a beginning of the plaintext,
\* and there is a manifest only for the file itself.
ASSUME FilesAreNotAltered ==
    LET file == Encrypted(<<<<1, 2, 3>>, <<4>>>>, 1)
        other == Encrypted(<<<<5, 6, 7>>>>, 2)
        items == {file[i] : i \in DOMAIN file} \cup {other[i] : i \in DOMAIN other} \cup {File!Torn}
        plain == File!FlattenSeq(<<<<1, 2, 3>>, <<4>>>>)
    IN  \A n \in 0..5 : \A altered \in [1..n -> items] :
            LET out == File!DecryptPackage("key", "context", File!Header(1), altered)
            IN  /\ IsPrefixOf(File!FlattenSeq(out.delivered), plain)
                /\ out.manifest <=> altered = file

=============================================================================
