------------------------------ MODULE RateLimits ------------------------------
(***************************************************************************)
(* The limit of requests per minute and caller: the limiter in memory, the *)
(* one in PostgreSQL that all API processes share, and the guard in front  *)
(* of the handlers, which consumes a bucket of the address and one of the  *)
(* session.  A bucket is [start, attempts]; time in milliseconds.          *)
(***************************************************************************)
EXTENDS Integers, Sequences, FiniteSetsExt

NoBucket == [start |-> 0, attempts |-> 0]

\* Math.max(1, Math.ceil(ms / 1000))
Seconds(ms) == Max({1, (ms + 999) \div 1000})

Decision(bucket, limit, now) ==
    [allowed |-> bucket.attempts <= limit.maxAttempts,
     retryAfterSeconds |-> Seconds(bucket.start + limit.windowMs - now)]

\* RateLimiter: a new window, or the next attempt in this one.
Consumed(bucket, limit, now) ==
    LET current == IF bucket = NoBucket \/ now - bucket.start >= limit.windowMs
                   THEN [start |-> now, attempts |-> 0] ELSE bucket
    IN  [current EXCEPT !.attempts = @ + 1]

\* PostgresRateLimiter: an insert, or three columns each by its own CASE.
Upserted(bucket, limit, now) ==
    IF bucket = NoBucket THEN [start |-> now, attempts |-> 1]
    ELSE LET over == now - bucket.start >= limit.windowMs
         IN  [start |-> IF over THEN now ELSE bucket.start,
              attempts |-> IF over THEN 1 ELSE bucket.attempts + 1]

\* RateLimitGuard: every bucket is consumed, even when one of them refuses.
Guarded(buckets, keys, limit, now) ==
    LET after == [k \in DOMAIN buckets |->
                     IF k \in keys THEN Upserted(buckets[k], limit, now) ELSE buckets[k]]
        blocked == {Decision(after[k], limit, now) : k \in keys} \cap [allowed : {FALSE}, retryAfterSeconds : Nat]
    IN  [buckets |-> after,
         passes |-> blocked = {},
         retryAfterSeconds |-> IF blocked = {} THEN 0 ELSE Max({d.retryAfterSeconds : d \in blocked})]
=============================================================================
