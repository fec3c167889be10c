-------------------------- MODULE VerifiableSharing --------------------------
(***************************************************************************)
(* The verifiable secret sharing of packages/vss-wasm, over a field of Q   *)
(* elements.  A secret is cut in two halves, the lanes, each of which is   *)
(* shared by Pedersen's scheme with Feldman's verifiers next to it.        *)
(*                                                                         *)
(* An element of the group is the pair of its exponents over the two       *)
(* generators: nobody knows how one depends on the other, which is what    *)
(* the pairs say.  Random coefficients are parameters.  None is an error   *)
(* of any kind.                                                            *)
(***************************************************************************)
EXTENDS Integers, Sequences, SequencesExt

CONSTANTS Q, MaxShareCount, None

Field == 0..(Q - 1)

Generator == <<1, 0>>
BlinderGenerator == <<0, 1>>

Plus(e, f) == <<(e[1] + f[1]) % Q, (e[2] + f[2]) % Q>>

Times(k, e) == <<(k * e[1]) % Q, (k * e[2]) % Q>>

\* A polynomial is the sequence of its coefficients, the constant first.
Evaluate(polynomial, x) == FoldRight(LAMBDA a, r : (a + x * r) % Q, polynomial, 0)

EvaluateInGroup(verifiers, x) == FoldRight(LAMBDA e, r : Plus(e, Times(x, r)), verifiers, <<0, 0>>)

ValidParameters(threshold, count) == threshold >= 2 /\ threshold <= count /\ count <= MaxShareCount

-----------------------------------------------------------------------------
(* Dealing.                                                                *)

\* One lane: the polynomial of the half secret and the one of its blinder.
SplitLane(polynomial, blinder) ==
    [generator |-> Generator, blinderGenerator |-> BlinderGenerator,
     feldman |-> [i \in DOMAIN polynomial |-> Times(polynomial[i], Generator)],
     pedersen |-> [i \in DOMAIN polynomial |->
                      Plus(Times(polynomial[i], Generator), Times(blinder[i], BlinderGenerator))]]

EncodedShare(polynomials, blinders, threshold, count, context, x) ==
    [threshold |-> threshold, count |-> count, context |-> context, identifier |-> x,
     values |-> [l \in 1..2 |-> Evaluate(polynomials[l], x)],
     blinders |-> [l \in 1..2 |-> Evaluate(blinders[l], x)]]

EncodedCommitments(polynomials, blinders, threshold, count, context) ==
    [threshold |-> threshold, count |-> count, context |-> context,
     lanes |-> [l \in 1..2 |-> SplitLane(polynomials[l], blinders[l])]]

Split(polynomials, blinders, threshold, count, context) ==
    IF ValidParameters(threshold, count)
    THEN [commitments |-> EncodedCommitments(polynomials, blinders, threshold, count, context),
          shares |-> [x \in 1..count |->
                         EncodedShare(polynomials, blinders, threshold, count, context, x)]]
    ELSE None

-----------------------------------------------------------------------------
(* Verifying and combining.                                                *)

ValidLane(lane, threshold) ==
    /\ lane.generator # <<0, 0>>
    /\ lane.blinderGenerator # <<0, 0>>
    /\ lane.generator # lane.blinderGenerator
    /\ Len(lane.feldman) = threshold
    /\ Len(lane.pedersen) = threshold

ValidCommitments(commitments, context) ==
    /\ ValidParameters(commitments.threshold, commitments.count)
    /\ commitments.context = context
    /\ \A l \in 1..2 : ValidLane(commitments.lanes[l], commitments.threshold)

ValidMetadata(share, commitments) ==
    /\ share.threshold = commitments.threshold
    /\ share.count = commitments.count
    /\ share.context = commitments.context
    /\ share.identifier \in 1..commitments.count

VerifyShare(share, commitments, context) ==
    /\ ValidCommitments(commitments, context)
    /\ share.context = context
    /\ ValidMetadata(share, commitments)
    /\ \A l \in 1..2 :
          LET lane == commitments.lanes[l]
              shown == Times(share.values[l], lane.generator)
              blind == Times(share.blinders[l], lane.blinderGenerator)
          IN  /\ EvaluateInGroup(lane.feldman, share.identifier) = shown
              /\ EvaluateInGroup(lane.pedersen, share.identifier) = Plus(shown, blind)

Reciprocal(a) == CHOOSE b \in Field : (a * b) % Q = 1

\* Lagrange's interpolation at zero through points <<x, y>> (the library).
Interpolate(points) ==
    LET Basis(i) == FoldLeft(
            LAMBDA r, p : IF p[1] = points[i][1]
                          THEN r
                          ELSE (r * p[1] * Reciprocal((p[1] - points[i][1]) % Q)) % Q,
            1, points)
    IN  FoldLeftDomain(LAMBDA r, i : (r + points[i][2] * Basis(i)) % Q, 0, points)

\* The two halves of the secret; two shares of one identifier are an error.
Combine(shares, commitments, context) ==
    IF /\ ValidCommitments(commitments, context)
       /\ Len(shares) \in commitments.threshold..commitments.count
       /\ \A i \in DOMAIN shares : VerifyShare(shares[i], commitments, context)
       /\ \A i, j \in DOMAIN shares : shares[i].identifier = shares[j].identifier => i = j
    THEN [l \in 1..2 |->
            Interpolate([i \in DOMAIN shares |-> <<shares[i].identifier, shares[i].values[l]>>])]
    ELSE None

=============================================================================
