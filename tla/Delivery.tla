------------------------------ MODULE Delivery ------------------------------
(***************************************************************************)
(* How an event becomes mail.  A business transaction books an event in    *)
(* the outbox; dispatchBatch hands available outbox rows to the queue; the *)
(* materialize job turns the event into one notification per recipient and *)
(* books their delivery; the deliver job claims a notification for a few   *)
(* minutes, talks to the SMTP server outside any transaction, and records  *)
(* the outcome, booking a retry if it was a temporary failure.             *)
(*                                                                         *)
(* Nothing here is exactly once: a batch that fails after handing rows to  *)
(* the queue hands them over again, a handler that throws or dies has its  *)
(* job delivered again, a server may accept a mail and the answer be lost. *)
(* `faults' counts these.  A job whose transaction fails without effect    *)
(* is delivered again as it was: a stuttering step.                        *)
(***************************************************************************)
EXTENDS Integers, FiniteSets

CONSTANTS
    Recipients,  \* of the event; contacts, or the owner
    Backed,      \* recipients with a backup address that may be used
    Dispatchers, \* batches that may overlap: of one process, or of two
    Workers,     \* deliver jobs at work at the same time
    Lease,       \* validity of a claim, CLAIM_LEASE_MS
    RetryDelay,  \* notificationRetryDelayMs
    MaxAttempts, \* MAX_NOTIFICATION_ATTEMPTS
    MaxFaults    \* bound: faults of any kind

ASSUME DeliveryAssumption ==
    /\ Backed \subseteq Recipients
    /\ IsFiniteSet(Workers)
    /\ Lease \in Nat \ {0}
    /\ RetryDelay \in Nat \ {0}
    /\ MaxAttempts \in Nat \ {0}
    /\ MaxFaults \in Nat

VARIABLES
    stale,    \* the workflow or schedule the event is about has moved on
    rows,     \* domain_outbox: published_at of each row
    locked,   \* rows a running dispatchBatch has locked
    handed,   \* those of them it has handed to the queue
    queue,    \* how many times the queue will deliver a job
    notes,    \* notifications
    handlers, \* deliver jobs between their two transactions
    copies,   \* how often a server has accepted the mail
    excuses,  \* lost SMTP answers and claims taken over
    faults

outboxVars == <<rows, locked, handed>>
mailVars == <<copies, excuses>>
vars == <<stale, outboxVars, queue, notes, handlers, mailVars, faults>>

Event == <<"EVENT">>
Row(r, n) == <<r, n>>
DeliverRows == Recipients \X (0..(MaxAttempts - 1))
Rows == {Event} \cup DeliverRows

Note == [status : {"NONE", "QUEUED", "SENDING", "RETRY_WAIT", "SENT", "FAILED"},
         attempts : 0..MaxAttempts, version : Nat, left : Nat]
Outcomes == {"ACCEPTED", "TEMP_FAIL", "PERM_FAIL"}
Idle == [at |-> "IDLE"]
Busy == [at : {"PRIMARY", "BACKUP", "RECORD"}, job : DeliverRows, version : Nat,
         outcome : Outcomes \cup {"NONE"}]

TypeOK ==
    /\ stale \in BOOLEAN
    /\ rows \in [Rows -> {"NONE", "WAITING", "PUBLISHED"}]
    /\ locked \in [Dispatchers -> SUBSET Rows]
    /\ handed \in [Dispatchers -> SUBSET Rows]
    /\ queue \in [Rows -> Nat]
    /\ notes \in [Recipients -> Note]
    /\ handlers \in [Workers -> Busy \cup {Idle}]
    /\ copies \in [Recipients -> Nat]
    /\ excuses \in [Recipients -> Nat]
    /\ faults \in 0..MaxFaults

Init ==
    /\ stale = FALSE
    /\ rows = [k \in Rows |-> "NONE"]
    /\ locked = [d \in Dispatchers |-> {}]
    /\ handed = [d \in Dispatchers |-> {}]
    /\ queue = [k \in Rows |-> 0]
    /\ notes = [r \in Recipients |->
                    [status |-> "NONE", attempts |-> 0, version |-> 0, left |-> 0]]
    /\ handlers = [p \in Workers |-> Idle]
    /\ copies = [r \in Recipients |-> 0]
    /\ excuses = [r \in Recipients |-> 0]
    /\ faults = 0

-----------------------------------------------------------------------------
(* Faults and the queue *)

Fault == faults < MaxFaults /\ faults' = faults + 1

\* A job leaves the queue; if its worker dies behind the commit, it stays.
Taken(k) ==
    /\ queue[k] > 0
    /\ \/ queue' = [queue EXCEPT ![k] = @ - 1] /\ UNCHANGED faults
       \/ UNCHANGED queue /\ Fault

\* A handler ends; if its worker dies behind the commit, the job comes back.
Finished(k) ==
    \/ UNCHANGED <<queue, faults>>
    \/ queue' = [queue EXCEPT ![k] = @ + 1] /\ Fault

-----------------------------------------------------------------------------
(* The outbox *)

\* A business transaction books the event.
BookEvent ==
    /\ rows[Event] = "NONE"
    /\ rows' = [rows EXCEPT ![Event] = "WAITING"]
    /\ UNCHANGED <<stale, locked, handed, queue, notes, handlers, mailVars, faults>>

\* The workflow is cancelled, or the owner has checked in.
MoveOn ==
    /\ rows[Event] # "NONE"
    /\ ~stale
    /\ stale' = TRUE
    /\ UNCHANGED <<outboxVars, queue, notes, handlers, mailVars, faults>>

\* Mutant: a retry is available at once.
NeverDelayed(k) == FALSE

\* available_at of a retry is the notification's next_attempt_at
Delayed(k) ==
    \E r \in Recipients :
        /\ notes[r].status = "RETRY_WAIT"
        /\ notes[r].left > 0
        /\ k = Row(r, notes[r].attempts)

Available ==
    {k \in Rows : rows[k] = "WAITING" /\ ~Delayed(k)} \ UNION {locked[d] : d \in Dispatchers}

\* dispatchBatch: BEGIN and SELECT ... FOR UPDATE SKIP LOCKED
SelectBatch(d) ==
    /\ locked[d] = {}
    /\ Available # {}
    /\ locked' = [locked EXCEPT ![d] = Available]
    /\ UNCHANGED <<stale, rows, handed, queue, notes, handlers, mailVars, faults>>

\* dispatchBatch: one row is handed to the queue, whose own transaction commits.
PublishRow(d, k) ==
    /\ k \in locked[d] \ handed[d]
    /\ queue' = [queue EXCEPT ![k] = @ + 1]
    /\ handed' = [handed EXCEPT ![d] = @ \cup {k}]
    /\ UNCHANGED <<stale, rows, locked, notes, handlers, mailVars, faults>>

\* Mutant: rows are marked before they are handed over.
CommitBatchEarly(d) ==
    /\ locked[d] # {}
    /\ rows' = [k \in Rows |-> IF k \in locked[d] THEN "PUBLISHED" ELSE rows[k]]
    /\ locked' = [locked EXCEPT ![d] = {}]
    /\ handed' = [handed EXCEPT ![d] = {}]
    /\ UNCHANGED <<stale, queue, notes, handlers, mailVars, faults>>

\* dispatchBatch: all rows are handed over and marked, COMMIT.
CommitBatch(d) ==
    /\ locked[d] # {}
    /\ handed[d] = locked[d]
    /\ rows' = [k \in Rows |-> IF k \in locked[d] THEN "PUBLISHED" ELSE rows[k]]
    /\ locked' = [locked EXCEPT ![d] = {}]
    /\ handed' = [handed EXCEPT ![d] = {}]
    /\ UNCHANGED <<stale, queue, notes, handlers, mailVars, faults>>

\* dispatchBatch: the queue or the database fails, or the process dies: the
\* whole batch is rolled back, what was handed over remains in the queue.
RollbackBatch(d) ==
    /\ locked[d] # {}
    /\ Fault
    /\ locked' = [locked EXCEPT ![d] = {}]
    /\ handed' = [handed EXCEPT ![d] = {}]
    /\ UNCHANGED <<stale, rows, queue, notes, handlers, mailVars>>

-----------------------------------------------------------------------------
(* Materializing *)

\* Mutant: the notifications are booked by a later event.
MaterializeUnbooked ==
    /\ ~stale
    /\ Taken(Event)
    /\ notes' = [r \in Recipients |->
                    IF notes[r].status = "NONE" THEN [notes[r] EXCEPT !.status = "QUEUED"]
                    ELSE notes[r]]
    /\ UNCHANGED <<stale, rows, locked, handed, handlers, mailVars>>

\* NotificationMaterializeHandler.handle: one transaction for all recipients;
\* notifications that exist already are left alone.
Materialize ==
    /\ ~stale
    /\ Taken(Event)
    /\ notes' = [r \in Recipients |->
                    IF notes[r].status = "NONE" THEN [notes[r] EXCEPT !.status = "QUEUED"]
                    ELSE notes[r]]
    /\ rows' = [k \in Rows |->
                    IF k \in Recipients \X {0} /\ notes[k[1]].status = "NONE" THEN "WAITING"
                    ELSE rows[k]]
    /\ UNCHANGED <<stale, locked, handed, handlers, mailVars>>

\* NotificationMaterializeHandler.handle of an event nobody needs any more
MaterializeStale ==
    /\ stale
    /\ queue[Event] > 0
    /\ queue' = [queue EXCEPT ![Event] = @ - 1]
    /\ UNCHANGED <<stale, outboxVars, notes, handlers, mailVars, faults>>

-----------------------------------------------------------------------------
(* Delivering *)

Settled(r) == notes[r].status \in {"SENT", "FAILED"}

\* Mutant: a claim does not keep others away.
WaitingForRetry(r) == notes[r].status = "RETRY_WAIT" /\ notes[r].left > 0

\* next_attempt_at of a retry or of somebody's claim is still to come.
Waiting(r) == notes[r].status \in {"RETRY_WAIT", "SENDING"} /\ notes[r].left > 0

\* deliverNotification, first transaction: ALREADY_SENT, CLOSED or WAITING.
\* The job is done with that.
SkipDelivery(k) ==
    /\ queue[k] > 0
    /\ Settled(k[1]) \/ Waiting(k[1])
    /\ queue' = [queue EXCEPT ![k] = @ - 1]
    /\ UNCHANGED <<stale, outboxVars, notes, handlers, mailVars, faults>>

\* deliverNotification, first transaction: the notification is claimed.
ClaimNotification(p, k) ==
    LET r == k[1] IN
    /\ handlers[p] = Idle
    /\ queue[k] > 0
    /\ ~Settled(r) /\ ~Waiting(r)
    /\ queue' = [queue EXCEPT ![k] = @ - 1]
    /\ notes' = [notes EXCEPT ![r] = [status |-> "SENDING", attempts |-> @.attempts,
                                      version |-> @.version + 1, left |-> Lease]]
    /\ handlers' = [handlers EXCEPT ![p] =
                        [at |-> "PRIMARY", job |-> k, version |-> notes[r].version + 1,
                         outcome |-> "NONE"]]
    /\ excuses' = [excuses EXCEPT ![r] =
                        IF notes[r].status = "SENDING" /\ notes[r].left = 0 THEN @ + 1 ELSE @]
    /\ UNCHANGED <<stale, outboxVars, copies, faults>>

\* The SMTP server accepts or refuses; its acceptance may come too late or be
\* lost, which counts as a temporary failure.
Answered(r, outcome) ==
    \/ /\ outcome = "ACCEPTED"
       /\ copies' = [copies EXCEPT ![r] = @ + 1]
       /\ UNCHANGED <<excuses, faults>>
    \/ outcome \in {"TEMP_FAIL", "PERM_FAIL"} /\ UNCHANGED <<copies, excuses, faults>>
    \/ /\ outcome = "TEMP_FAIL"
       /\ copies' = [copies EXCEPT ![r] = @ + 1]
       /\ excuses' = [excuses EXCEPT ![r] = @ + 1]
       /\ Fault

\* deliverNotification: the mail is sent; the owner's backup address is tried
\* when the primary one is refused for good.
SendMail(p) ==
    LET k == handlers[p].job IN
    /\ handlers[p].at \in {"PRIMARY", "BACKUP"}
    /\ \E outcome \in Outcomes :
        /\ Answered(k[1], outcome)
        /\ handlers' = [handlers EXCEPT
                ![p].outcome = outcome,
                ![p].at = IF @ = "PRIMARY" /\ outcome = "PERM_FAIL" /\ k[1] \in Backed
                          THEN "BACKUP" ELSE "RECORD"]
    /\ UNCHANGED <<stale, outboxVars, queue, notes>>

\* deliverNotification: the stored template cannot be rendered.  Nothing is sent,
\* to no address, and the attempt counts as refused for good.
FailRendering(p) ==
    /\ handlers[p].at = "PRIMARY"
    /\ handlers' = [handlers EXCEPT ![p].outcome = "PERM_FAIL", ![p].at = "RECORD"]
    /\ UNCHANGED <<stale, outboxVars, queue, notes, mailVars, faults>>

\* Mutant: only the status is looked at before the outcome is recorded.
AnyClaim(p) == notes[handlers[p].job[1]].status # "NONE"

\* The claim is still the one this handler made.
OwnsClaim(p) ==
    /\ notes[handlers[p].job[1]].status = "SENDING"
    /\ notes[handlers[p].job[1]].version = handlers[p].version

RetryAllowed(n) == n < MaxAttempts

Recorded(note, s, n, left) ==
    [status |-> s, attempts |-> n, version |-> note.version + 1, left |-> left]

\* deliverNotification, last transaction
RecordOutcome(p) ==
    LET k == handlers[p].job
        r == k[1]
        n == notes[r].attempts + 1
        retry == handlers[p].outcome = "TEMP_FAIL" /\ RetryAllowed(n)
    IN
    /\ handlers[p].at = "RECORD"
    /\ OwnsClaim(p)
    /\ notes' = [notes EXCEPT ![r] =
                    IF handlers[p].outcome = "ACCEPTED" THEN Recorded(@, "SENT", n, 0)
                    ELSE IF retry THEN Recorded(@, "RETRY_WAIT", n, RetryDelay)
                    ELSE Recorded(@, "FAILED", n, 0)]
    /\ rows' = IF retry THEN [rows EXCEPT ![Row(r, n)] = "WAITING"] ELSE rows
    /\ handlers' = [handlers EXCEPT ![p] = Idle]
    /\ Finished(k)
    /\ UNCHANGED <<stale, locked, handed, mailVars>>

\* deliverNotification, last transaction: another handler has taken over.
RecordNothing(p) ==
    /\ handlers[p].at = "RECORD"
    /\ ~OwnsClaim(p)
    /\ handlers' = [handlers EXCEPT ![p] = Idle]
    /\ UNCHANGED <<stale, outboxVars, queue, notes, mailVars, faults>>

\* The handler throws between its transactions, or its worker stops or dies:
\* the queue delivers the job again.
FailDelivery(p) ==
    /\ handlers[p] # Idle
    /\ Fault
    /\ handlers' = [handlers EXCEPT ![p] = Idle]
    /\ queue' = [queue EXCEPT ![handlers[p].job] = @ + 1]
    /\ UNCHANGED <<stale, outboxVars, notes, mailVars>>

\* Time passes.
Tick ==
    /\ \E r \in Recipients : notes[r].left > 0
    /\ notes' = [r \in Recipients |->
                    [notes[r] EXCEPT !.left = IF @ > 0 THEN @ - 1 ELSE 0]]
    /\ UNCHANGED <<stale, outboxVars, queue, handlers, mailVars, faults>>

-----------------------------------------------------------------------------
Next ==
    \/ BookEvent \/ MoveOn
    \/ \E d \in Dispatchers :
            \/ SelectBatch(d) \/ CommitBatch(d) \/ RollbackBatch(d)
            \/ \E k \in Rows : PublishRow(d, k)
    \/ Materialize \/ MaterializeStale
    \/ \E k \in DeliverRows : SkipDelivery(k) \/ \E p \in Workers : ClaimNotification(p, k)
    \/ \E p \in Workers :
            \/ SendMail(p) \/ FailRendering(p)
            \/ RecordOutcome(p) \/ RecordNothing(p) \/ FailDelivery(p)
    \/ Tick

Spec == Init /\ [][Next]_vars

(* The dispatcher runs every second, the queue delivers every job to a     *)
(* worker that is free in time, SMTP calls return, the clock runs.         *)
Fairness ==
    /\ \A d \in Dispatchers : WF_vars(CommitBatch(d) \/ \E k \in Rows : PublishRow(d, k))
    /\ WF_vars(\E d \in Dispatchers : SelectBatch(d))
    /\ WF_vars(Materialize \/ MaterializeStale)
    /\ \A k \in DeliverRows :
            SF_vars(SkipDelivery(k) \/ \E p \in Workers : ClaimNotification(p, k))
    /\ \A p \in Workers : WF_vars(SendMail(p) \/ FailRendering(p) \/ RecordOutcome(p) \/ RecordNothing(p))
    /\ WF_vars(Tick)

LiveSpec == Spec /\ Fairness

-----------------------------------------------------------------------------
(* Properties *)

\* An event that is booked waits in the outbox or in the queue, or every
\* recipient has its notification, or nobody needs it any more: no batch that
\* fails, in whole or in part, loses one (dispatchBatch, handle).
EventBecomesMail ==
    rows[Event] = "PUBLISHED" =>
        queue[Event] > 0 \/ stale \/ \A r \in Recipients : notes[r].status # "NONE"

\* A notification that nobody has claimed has its job in the outbox or in the
\* queue: a job that comes early would be acknowledged as WAITING and leave the
\* retry to nobody (createNotificationInTransaction, deliverNotification).
RetryIsBooked ==
    \A r \in Recipients :
        LET k == Row(r, notes[r].attempts) IN
        notes[r].status \in {"QUEUED", "RETRY_WAIT"} => rows[k] = "WAITING" \/ queue[k] > 0

\* A mail reaches its recipient once, and once more for every answer that was
\* lost and every claim that ran out: overlapping batches, jobs delivered twice
\* and the backup address cause no duplicate (deliverNotification).
DuplicatesAreExplained ==
    \A r \in Recipients : copies[r] <= 1 + excuses[r]

\* Some job or handler is still to deal with the notification.
InHands(r) ==
    \/ \E n \in 0..(MaxAttempts - 1) : rows[Row(r, n)] = "WAITING" \/ queue[Row(r, n)] > 0
    \/ \E p \in Workers : handlers[p] # Idle /\ handlers[p].job[1] = r

\* Every notification is settled some day, unless a failed handler has left it
\* claimed and its job came back before the claim ran out (deliverNotification).
EveryMailSettles ==
    \A r \in Recipients :
        notes[r].status # "NONE" ~>
            Settled(r) \/ (notes[r].status = "SENDING" /\ ~InHands(r))

\* docs/05-security-privacy.md:36: restarts of worker or API lose no mail task.
NoMailTaskIsLost ==
    \A r \in Recipients :
        notes[r].status \in {"QUEUED", "SENDING", "RETRY_WAIT"} => InHands(r)
=============================================================================
