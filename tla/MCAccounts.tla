------------------------------ MODULE MCAccounts ------------------------------
(***************************************************************************)
(* Model values for checking module Accounts with TLC, and bounded checks  *)
(* of the operators of AuditChain and RateLimits.                          *)
(***************************************************************************)
EXTENDS Accounts, RateLimits, TLC

CONSTANTS owner, c1, q1, q2

Symmetry == Permutations(Requests)

-----------------------------------------------------------------------------
(* The chains *)

\* The publication's rows, of which the handler computes numbers and hashes on
\* its own, are those appendPublicAuditEvent would have written one by one, show
\* all of their metadata, and are found valid.
ASSUME PublicRowsVerify ==
    LET Appended(rows, input) == AppendPublicAuditEvent(rows, input)
    IN  /\ PublicAuditRows = FoldLeft(Appended, <<>>, PublicationEvents)
        /\ VerifyAuditChain(PublicAuditRows)

\* A row altered, removed or exchanged is found, wherever it is, but for the last
\* row's removal.
ASSUME ManipulationIsFound ==
    LET rows == PublicAuditRows IN
    /\ \A i \in DOMAIN rows :
        /\ ~VerifyAuditChain([rows EXCEPT ![i].event.content.metadata = {"ipSummary"}])
        /\ ~VerifyAuditChain([rows EXCEPT ![i] = Row(i, rows[i].event.content, <<>>)]) \/ i = 1
        /\ i < Len(rows) => ~VerifyAuditChain(RemoveAt(rows, i))
        /\ i = Len(rows) => VerifyAuditChain(RemoveAt(rows, i))
    /\ \A i, j \in DOMAIN rows :
        i # j => ~VerifyAuditChain([rows EXCEPT ![i] = rows[j], ![j] = rows[i]])

\* A chain rewritten from some row on is valid: only the last hash, which the
\* owner is shown with the answer, differs.
ASSUME RewritingMovesTheLastHash ==
    \A i \in DOMAIN PublicAuditRows :
        LET Rewritten(rows, row) ==
                Append(rows, Row(row.event.sequence,
                                 IF row.event.sequence = i THEN Refused ELSE row.event.content, rows))
            forged == FoldLeft(Rewritten, <<>>, PublicAuditRows)
        IN  /\ AuditIntegrity(forged, forged).valid
            /\ AuditIntegrity(forged, forged).lastHash
                 # AuditIntegrity(PublicAuditRows, PublicAuditRows).lastHash

\* Rows as they are written with rolled back transactions between: numbers rise.
GappedChains ==
    LET Of(numbers) ==
            FoldLeft(LAMBDA rows, n : Append(rows, Row(n, n % 2 = 0, rows)),
                     <<>>, SetToSortSeq(numbers, LAMBDA a, b : a < b))
    IN  {Of(numbers) : numbers \in SUBSET (1..6)}

\* Who follows the cursors reads every event of his filter once, the newest first.
ASSUME PagesListAll ==
    \A rows \in GappedChains, limit \in 1..3, shown \in {BOOLEAN, {TRUE}} :
        LET from[cursor \in 0..6] ==
                LET page == AuditPage(rows, shown, cursor, limit)
                IN  page.items \o IF page.next = NoCursor THEN <<>> ELSE from[page.next]
        IN  from[NoCursor] = Reverse(SelectSeq(rows, LAMBDA row : row.event.content \in shown))

\* One rolled back transaction is enough for the chain never to verify again.
ASSUME GapsAreNotForgiven ==
    \A rows \in GappedChains :
        VerifyAuditChain(rows) <=> {rows[i].event.sequence : i \in DOMAIN rows} = 1..Len(rows)

-----------------------------------------------------------------------------
(* The limits *)

\* The default has 60,000 ms and 30 attempts.
SmallLimit == [windowMs |-> 2000, maxAttempts |-> 2]

\* Times of up to six requests
RequestTimes ==
    LET Times(steps) == [n \in DOMAIN steps |-> FoldFunctionOnSet(+, 0, steps, 1..n)]
    IN  {Times(steps) : steps \in UNION {[1..n -> {0, 700, 1300, 2000}] : n \in 1..6}}

\* The bucket after requests at these times
BucketAfter(Use(_, _, _), times, limit) ==
    FoldLeft(LAMBDA bucket, time : Use(bucket, limit, time), NoBucket, times)

\* Of the requests at these times, those let through
Allowed(times, limit) ==
    {n \in DOMAIN times :
        Decision(BucketAfter(Upserted, SubSeq(times, 1, n), limit), limit, times[n]).allowed}

\* The limiter of the tests and the one of the deployment decide alike, although
\* one computes a bucket and the other three columns.
ASSUME LimitersAgree ==
    \A times \in RequestTimes :
        BucketAfter(Consumed, times, SmallLimit) = BucketAfter(Upserted, times, SmallLimit)

\* The windows are fixed, each begun by a request: nearly twice the limit may
\* pass within the length of one, no more.
ASSUME NearlyTwiceTheLimit ==
    LET most == 2 * SmallLimit.maxAttempts - 1
        Within(times, n) ==
            {m \in Allowed(times, SmallLimit) : m >= n /\ times[m] < times[n] + SmallLimit.windowMs}
    IN  /\ \A times \in RequestTimes : \A n \in DOMAIN times : Cardinality(Within(times, n)) <= most
        /\ \E times \in RequestTimes : \E n \in DOMAIN times : Cardinality(Within(times, n)) = most

\* Who waits as long as the refusal says is let through.
ASSUME WaitingIsEnough ==
    \A times \in RequestTimes :
        LET bucket == BucketAfter(Upserted, times, SmallLimit)
            refusal == Decision(bucket, SmallLimit, Last(times))
            later == Last(times) + 1000 * refusal.retryAfterSeconds
        IN  ~refusal.allowed => Decision(Upserted(bucket, SmallLimit, later), SmallLimit, later).allowed

\* Where both buckets are exceeded it is the later of both windows that lets the
\* caller through again.
ASSUME GuardWaitsForTheLater ==
    \A t1, t2 \in {0, 700, 1300} :
        LET buckets == ("ip" :> [start |-> t1, attempts |-> 2]) @@ ("actor" :> [start |-> t2, attempts |-> 2])
            guarded == Guarded(buckets, {"ip", "actor"}, SmallLimit, 1500)
            later == 1500 + 1000 * guarded.retryAfterSeconds
        IN  /\ ~guarded.passes
            /\ \A k \in DOMAIN buckets : guarded.buckets[k].attempts = 3
            /\ Guarded(guarded.buckets, {"ip", "actor"}, SmallLimit, later).passes

\* A refusal for the address uses up the last attempt of the session's bucket, of
\* whose window the answer says nothing: who waits as told is refused once more.
ASSUME GuardMayRefuseAgain ==
    LET buckets == ("ip" :> [start |-> 0, attempts |-> 2]) @@ ("actor" :> [start |-> 700, attempts |-> 1])
        guarded == Guarded(buckets, {"ip", "actor"}, SmallLimit, 1500)
        later == 1500 + 1000 * guarded.retryAfterSeconds
    IN  ~guarded.passes /\ ~Guarded(guarded.buckets, {"ip", "actor"}, SmallLimit, later).passes
=============================================================================
