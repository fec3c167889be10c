---------------------------- MODULE DeliveryProofs ----------------------------
(***************************************************************************)
(* Proofs about module Delivery for any recipients, dispatchers and        *)
(* workers, any lease, retry delay and number of attempts, and any number  *)
(* of faults.                                                              *)
(*                                                                         *)
(* The invariant BooksInv follows one job row through outbox and queue: a  *)
(* job is not heard of before its attempt is due, a retry that waits is in *)
(* the outbox and nowhere else, and what a batch has handed over is in the *)
(* queue until it is claimed.  CopiesInv counts who may still cause a copy *)
(* of a mail: unclaimed notifications, and handlers without an acceptance. *)
(***************************************************************************)
EXTENDS DeliveryRefinement, Sequences, FiniteSetTheorems, TLAPS

\* Nobody holds the job: not the queue, not a batch, not a handler.
Untouched(k) ==
    /\ queue[k] = 0
    /\ \A d \in Dispatchers : k \notin locked[d]
    /\ \A p \in Workers : handlers[p] # Idle => handlers[p].job # k

\* The job of an attempt later than the next one, or of no notification.
Early(k) == notes[k[1]].status = "NONE" \/ k[2] > notes[k[1]].attempts

\* The job of the next attempt.
NextJob(k) == k[2] = notes[k[1]].attempts

JobInv(k) ==
    /\ Early(k) => rows[k] = "NONE" /\ Untouched(k)
    /\ NextJob(k) /\ notes[k[1]].status = "RETRY_WAIT" /\ notes[k[1]].left > 0 =>
        rows[k] = "WAITING" /\ Untouched(k)
    /\ NextJob(k) /\ notes[k[1]].status \in {"QUEUED", "RETRY_WAIT"} =>
        /\ rows[k] = "WAITING" \/ queue[k] > 0
        /\ \A d \in Dispatchers : k \in handed[d] => queue[k] > 0

NoteInv(r) ==
    /\ notes[r].status = "NONE" => notes[r].attempts = 0
    /\ notes[r].status \notin {"SENT", "FAILED"} => notes[r].attempts < MaxAttempts

BatchInv == \A d \in Dispatchers : handed[d] \subseteq locked[d]

BooksInv ==
    /\ BatchInv
    /\ \A r \in Recipients : NoteInv(r)
    /\ \A k \in DeliverRows : JobInv(k)

IInv == TypeOK /\ BooksInv

-----------------------------------------------------------------------------
(* The jobs *)

\* A delivery job names its recipient and its attempt, the event's job none.
LEMMA Jobs ==
    /\ Event \in Rows /\ Event \notin DeliverRows
    /\ \A k \in DeliverRows :
        k \in Rows /\ k # Event /\ k[1] \in Recipients /\ k[2] \in 0..(MaxAttempts - 1)
        /\ k = Row(k[1], k[2])
    /\ \A r \in Recipients, n \in 0..(MaxAttempts - 1) :
        Row(r, n) \in DeliverRows /\ Row(r, n)[1] = r /\ Row(r, n)[2] = n
<1>1. \A r, n : Event # Row(r, n)
  <2> SUFFICES ASSUME NEW r, NEW n, Event = Row(r, n) PROVE FALSE
    OBVIOUS
  <2>1. Len(<<"EVENT">>) = 1 /\ Len(<<r, n>>) = 2
    OBVIOUS
  <2> QED
    BY <2>1 DEF Event, Row
<1>2. \A k \in DeliverRows : k[1] \in Recipients /\ k[2] \in 0..(MaxAttempts - 1) /\ k = Row(k[1], k[2])
  BY DEF DeliverRows, Row
<1>3. \A r \in Recipients, n \in 0..(MaxAttempts - 1) :
        Row(r, n) \in DeliverRows /\ Row(r, n)[1] = r /\ Row(r, n)[2] = n
  BY DEF DeliverRows, Row
<1> QED
  BY <1>1, <1>2, <1>3 DEF Rows

\* Jobs of the same recipient and attempt are the same.
LEMMA SameJob ==
    ASSUME NEW k \in DeliverRows, NEW l \in DeliverRows, k[1] = l[1], k[2] = l[2]
    PROVE  k = l
  BY Jobs

LEMMA FaultType ==
    ASSUME TypeOK, Fault
    PROVE  faults' \in 0..MaxFaults
  BY DeliveryAssumption DEF TypeOK, Fault

\* The outbox is empty, nobody is at work.
LEMMA InitBooks == Init => IInv
<1> SUFFICES ASSUME Init PROVE IInv
  OBVIOUS
<1>1. TypeOK
  <2>1. notes \in [Recipients -> Note]
    BY DeliveryAssumption DEF Init, Note
  <2>2. faults \in 0..MaxFaults
    BY DeliveryAssumption DEF Init
  <2> QED
    BY <2>1, <2>2 DEF Init, TypeOK
<1>2. \A r \in Recipients : NoteInv(r)
  BY DeliveryAssumption DEF Init, NoteInv
<1>3. \A k \in DeliverRows : JobInv(k)
  BY Jobs DEF Init, JobInv, Untouched, Early
<1> QED
  BY <1>1, <1>2, <1>3 DEF Init, IInv, BooksInv, BatchInv

-----------------------------------------------------------------------------
(* The steps *)

LEMMA BookEventBooks ==
    ASSUME IInv, BookEvent
    PROVE  IInv'
  BY Jobs DEF BookEvent, IInv, TypeOK, BooksInv, BatchInv, NoteInv, JobInv, Early, NextJob,
     Untouched, mailVars

LEMMA MoveOnBooks ==
    ASSUME IInv, MoveOn
    PROVE  IInv'
  BY DEF MoveOn, IInv, TypeOK, BooksInv, BatchInv, NoteInv, JobInv, Early, NextJob,
     Untouched, mailVars, outboxVars

\* A batch takes no retry that is not due yet.
LEMMA SelectBatchBooks ==
    ASSUME IInv, NEW d \in Dispatchers, SelectBatch(d)
    PROVE  IInv'
<1> USE DEF IInv
<1>1. Available \subseteq Rows
  BY DEF Available
<1>2. TypeOK' /\ BatchInv' /\ \A r \in Recipients : NoteInv(r)'
  BY <1>1 DEF SelectBatch, TypeOK, BooksInv, BatchInv, NoteInv, mailVars
<1>3. ASSUME NEW k \in DeliverRows
      PROVE  JobInv(k)'
  <2>1. UNCHANGED <<rows, handed, queue, notes, handlers>>
    BY DEF SelectBatch
  <2>2. \A e \in Dispatchers : k \in locked'[e] => k \in locked[e] \/ k \in Available
    BY DEF SelectBatch, TypeOK
  <2>3. k \in Available => rows[k] = "WAITING" /\ ~Delayed(k)
    BY DEF Available
  <2>4. NextJob(k) /\ notes[k[1]].status = "RETRY_WAIT" /\ notes[k[1]].left > 0 => Delayed(k)
    BY Jobs DEF Delayed, NextJob
  <2>5. JobInv(k)
    BY DEF BooksInv
  <2> QED
    BY <2>1, <2>2, <2>3, <2>4, <2>5 DEF JobInv, Early, NextJob, Untouched
<1> QED
  BY <1>2, <1>3 DEF BooksInv

LEMMA PublishRowBooks ==
    ASSUME IInv, NEW d \in Dispatchers, NEW l \in Rows, PublishRow(d, l)
    PROVE  IInv'
<1> USE DEF IInv
<1>1. TypeOK' /\ BatchInv' /\ \A r \in Recipients : NoteInv(r)'
  BY DEF PublishRow, TypeOK, BooksInv, BatchInv, NoteInv, mailVars
<1>2. ASSUME NEW k \in DeliverRows
      PROVE  JobInv(k)'
  <2>1. UNCHANGED <<rows, locked, notes, handlers>> /\ l \in locked[d]
    BY DEF PublishRow
  <2>2. /\ queue'[k] \in Nat /\ queue[k] \in Nat /\ queue'[k] >= queue[k]
        /\ k = l => queue'[k] > 0
        /\ k # l => queue'[k] = queue[k]
    BY Jobs DEF PublishRow, TypeOK
  <2>3. \A e \in Dispatchers : k \in handed'[e] => k = l \/ k \in handed[e]
    BY DEF PublishRow, TypeOK
  <2>4. JobInv(k)
    BY DEF BooksInv
  <2> QED
    BY <2>1, <2>2, <2>3, <2>4 DEF JobInv, Early, NextJob, Untouched
<1> QED
  BY <1>1, <1>2 DEF BooksInv

\* A batch that marks its rows has handed over every one of them.
LEMMA CommitBatchBooks ==
    ASSUME IInv, NEW d \in Dispatchers, CommitBatch(d)
    PROVE  IInv'
<1> USE DEF IInv
<1>1. TypeOK' /\ BatchInv' /\ \A r \in Recipients : NoteInv(r)'
  BY DEF CommitBatch, TypeOK, BooksInv, BatchInv, NoteInv, mailVars
<1>2. ASSUME NEW k \in DeliverRows
      PROVE  JobInv(k)'
  <2>1. UNCHANGED <<queue, notes, handlers>>
    BY DEF CommitBatch
  <2>2. k \notin locked[d] => rows'[k] = rows[k]
    BY Jobs DEF CommitBatch
  <2>3. k \in locked[d] => k \in handed[d]
    BY DEF CommitBatch
  <2>4. \A e \in Dispatchers : /\ k \in locked'[e] => k \in locked[e]
                               /\ k \in handed'[e] => k \in handed[e]
    BY DEF CommitBatch, TypeOK
  <2>5. JobInv(k)
    BY DEF BooksInv
  <2> QED
    BY <2>1, <2>2, <2>3, <2>4, <2>5 DEF JobInv, Early, NextJob, Untouched
<1> QED
  BY <1>1, <1>2 DEF BooksInv

LEMMA RollbackBatchBooks ==
    ASSUME IInv, NEW d \in Dispatchers, RollbackBatch(d)
    PROVE  IInv'
<1> USE DEF IInv
<1>1. TypeOK'
  BY FaultType DEF RollbackBatch, TypeOK, mailVars
<1>2. BatchInv' /\ \A r \in Recipients : NoteInv(r)'
  BY DEF RollbackBatch, TypeOK, BooksInv, BatchInv, NoteInv
<1>3. ASSUME NEW k \in DeliverRows
      PROVE  JobInv(k)'
  <2>1. UNCHANGED <<rows, queue, notes, handlers>>
    BY DEF RollbackBatch
  <2>2. \A e \in Dispatchers : /\ k \in locked'[e] => k \in locked[e]
                               /\ k \in handed'[e] => k \in handed[e]
    BY DEF RollbackBatch, TypeOK
  <2>3. JobInv(k)
    BY DEF BooksInv
  <2> QED
    BY <2>1, <2>2, <2>3 DEF JobInv, Early, NextJob, Untouched
<1> QED
  BY <1>1, <1>2, <1>3 DEF BooksInv

\* New notifications are booked with their first attempt.
LEMMA MaterializeBooks ==
    ASSUME IInv, Materialize
    PROVE  IInv'
<1> USE DEF IInv
<1>1. /\ queue' \in [Rows -> Nat] /\ faults' \in 0..MaxFaults
      /\ \A k \in DeliverRows : queue'[k] = queue[k]
  BY FaultType, Jobs DEF Materialize, Taken, TypeOK
<1>2. notes' \in [Recipients -> Note]
  BY DEF Materialize, TypeOK, Note
<1>3. \A r \in Recipients :
        /\ notes[r].status = "NONE" =>
            notes'[r].status = "QUEUED" /\ notes'[r].attempts = notes[r].attempts
        /\ notes[r].status # "NONE" => notes'[r] = notes[r]
  BY DEF Materialize, TypeOK, Note
<1>4. UNCHANGED <<stale, locked, handed, handlers, copies, excuses>>
  BY DEF Materialize, mailVars
<1>5. TypeOK'
  BY <1>1, <1>2, <1>4 DEF Materialize, TypeOK
<1>6. BatchInv' /\ \A r \in Recipients : NoteInv(r)'
  BY <1>3, <1>4 DEF BooksInv, BatchInv, NoteInv
<1>7. ASSUME NEW k \in DeliverRows
      PROVE  JobInv(k)'
  <2>1. notes[k[1]].status # "NONE" => rows'[k] = rows[k] /\ notes'[k[1]] = notes[k[1]]
    BY <1>3, Jobs DEF Materialize
  <2>2. notes[k[1]].status = "NONE" =>
            /\ k[2] = 0 => rows'[k] = "WAITING"
            /\ k[2] # 0 => rows'[k] = rows[k]
    BY Jobs DEF Materialize, Row
  <2>3. JobInv(k) /\ NoteInv(k[1]) /\ BatchInv /\ k[1] \in Recipients /\ k[2] \in Nat
    BY Jobs DEF BooksInv
  <2>4. CASE notes[k[1]].status # "NONE"
    BY <1>1, <1>4, <2>1, <2>3, <2>4 DEF JobInv, Early, NextJob, Untouched
  <2>5. CASE notes[k[1]].status = "NONE"
    BY <1>1, <1>3, <1>4, <2>2, <2>3, <2>5 DEF JobInv, NoteInv, BatchInv, Early, NextJob, Untouched
  <2> QED
    BY <2>4, <2>5
<1> QED
  BY <1>5, <1>6, <1>7 DEF BooksInv

LEMMA MaterializeStaleBooks ==
    ASSUME IInv, MaterializeStale
    PROVE  IInv'
<1>1. queue' \in [Rows -> Nat] /\ \A k \in DeliverRows : queue'[k] = queue[k]
  BY Jobs DEF MaterializeStale, IInv, TypeOK
<1> QED
  BY <1>1 DEF MaterializeStale, IInv, TypeOK, BooksInv, BatchInv, NoteInv, JobInv, Early,
     NextJob, Untouched, mailVars, outboxVars

\* No job that is acknowledged unserved is the one a retry waits for.
LEMMA SkipDeliveryBooks ==
    ASSUME IInv, NEW l \in DeliverRows, SkipDelivery(l)
    PROVE  IInv'
<1> USE DEF IInv
<1>1. /\ queue' \in [Rows -> Nat]
      /\ \A k \in DeliverRows : k # l => queue'[k] = queue[k]
      /\ queue'[l] = queue[l] - 1
  BY Jobs DEF SkipDelivery, TypeOK
<1>2. UNCHANGED <<stale, rows, locked, handed, notes, handlers, mailVars, faults>>
  BY DEF SkipDelivery, outboxVars
<1>3. TypeOK' /\ BatchInv' /\ \A r \in Recipients : NoteInv(r)'
  BY <1>1, <1>2 DEF TypeOK, BooksInv, BatchInv, NoteInv, mailVars
<1>4. ASSUME NEW k \in DeliverRows
      PROVE  JobInv(k)'
  <2>1. JobInv(k)
    BY DEF BooksInv
  <2>2. CASE k # l
    BY <1>1, <1>2, <2>1, <2>2 DEF JobInv, Early, NextJob, Untouched
  <2>3. CASE k = l
    <3>1. queue[k] # 0
      BY <2>3 DEF SkipDelivery
    <3>2. ~Early(k)
      BY <2>1, <3>1 DEF JobInv, Untouched
    <3>3. ~(NextJob(k) /\ notes[k[1]].status \in {"QUEUED", "RETRY_WAIT"})
      BY <2>1, <2>3, <3>1 DEF SkipDelivery, Settled, Waiting, JobInv, Untouched
    <3> QED
      BY <1>2, <3>2, <3>3 DEF JobInv, Early, NextJob
  <2> QED
    BY <2>2, <2>3
<1> QED
  BY <1>3, <1>4 DEF BooksInv

\* A claim takes its notification away from every other job.
LEMMA ClaimBooks ==
    ASSUME IInv, NEW p \in Workers, NEW l \in DeliverRows, ClaimNotification(p, l)
    PROVE  IInv'
<1> USE DEF IInv
<1> DEFINE r == l[1]
           new == [status |-> "SENDING", attempts |-> notes[r].attempts,
                   version |-> notes[r].version + 1, left |-> Lease]
           busy == [at |-> "PRIMARY", job |-> l, version |-> notes[r].version + 1,
                    outcome |-> "NONE"]
<1>1. r \in Recipients /\ l \in Rows /\ notes[r] \in Note
  BY Jobs DEF TypeOK
<1>2. /\ queue[l] > 0
      /\ queue' = [queue EXCEPT ![l] = @ - 1]
      /\ notes' = [notes EXCEPT ![r] = new]
      /\ handlers' = [handlers EXCEPT ![p] = busy]
      /\ excuses' = [excuses EXCEPT ![r] =
                        IF notes[r].status = "SENDING" /\ notes[r].left = 0 THEN @ + 1 ELSE @]
      /\ UNCHANGED <<stale, rows, locked, handed, copies, faults>>
      /\ ~Settled(r)
  BY DEF ClaimNotification, outboxVars
<1>3. new \in Note /\ busy \in Busy
  BY <1>1, DeliveryAssumption DEF Note, Busy
<1>4. busy.job = l /\ new.status = "SENDING" /\ new.attempts = notes[r].attempts
  OBVIOUS
<1> HIDE DEF new, busy
<1>5. TypeOK'
  BY <1>1, <1>2, <1>3 DEF TypeOK
<1>6. BatchInv'
  BY <1>2 DEF BooksInv, BatchInv
<1>7. ASSUME NEW s \in Recipients
      PROVE  NoteInv(s)'
  <2>1. NoteInv(s)
    BY DEF BooksInv
  <2>2. notes'[s] = IF s = r THEN new ELSE notes[s]
    BY <1>2 DEF TypeOK
  <2> QED
    BY <1>2, <1>4, <2>1, <2>2 DEF NoteInv, Settled
<1>8. ASSUME NEW k \in DeliverRows
      PROVE  JobInv(k)'
  <2>1. JobInv(k) /\ JobInv(l)
    BY DEF BooksInv
  <2>2. ~Early(l)
    BY <1>2, <2>1 DEF JobInv, Untouched
  <2>3. notes'[k[1]] = IF k[1] = r THEN new ELSE notes[k[1]]
    BY <1>2, Jobs DEF TypeOK
  <2>4. k # l => queue'[k] = queue[k]
    BY <1>1, <1>2, Jobs DEF TypeOK
  <2>5. \A q \in Workers : handlers'[q] = IF q = p THEN busy ELSE handlers[q]
    BY <1>2 DEF TypeOK
  <2>6. CASE k[1] = r
    <3>1. Early(k)' => Early(k) /\ k # l
      BY <1>4, <2>2, <2>3, <2>6 DEF Early
    <3>2. Early(k)' => rows'[k] = "NONE" /\ Untouched(k)'
      BY <1>2, <1>4, <2>1, <2>4, <2>5, <3>1 DEF JobInv, Untouched
    <3> QED
      BY <1>4, <2>3, <2>6, <3>2 DEF JobInv
  <2>7. CASE k[1] # r
    BY <1>2, <1>4, <2>1, <2>3, <2>4, <2>5, <2>7 DEF JobInv, Early, NextJob, Untouched
  <2> QED
    BY <2>6, <2>7
<1> QED
  BY <1>5, <1>6, <1>7, <1>8 DEF BooksInv

\* Rendering and sending end in an outcome, and in the backup address or the record.
LEMMA SendShape ==
    ASSUME TypeOK, NEW p \in Workers, SendMail(p) \/ FailRendering(p)
    PROVE  /\ handlers[p].at \in {"PRIMARY", "BACKUP"}
           /\ UNCHANGED <<stale, outboxVars, queue, notes>>
           /\ \E outcome \in Outcomes, next \in {"BACKUP", "RECORD"} :
                /\ Answered(handlers[p].job[1], outcome)
                /\ outcome = "ACCEPTED" => next = "RECORD"
                /\ handlers' = [handlers EXCEPT ![p].outcome = outcome, ![p].at = next]
<1>1. CASE SendMail(p)
  <2>1. PICK outcome \in Outcomes :
          /\ Answered(handlers[p].job[1], outcome)
          /\ handlers' = [handlers EXCEPT
                  ![p].outcome = outcome,
                  ![p].at = IF @ = "PRIMARY" /\ outcome = "PERM_FAIL" /\ handlers[p].job[1] \in Backed
                            THEN "BACKUP" ELSE "RECORD"]
    BY <1>1 DEF SendMail
  <2>2. CASE handlers[p].at = "PRIMARY" /\ outcome = "PERM_FAIL" /\ handlers[p].job[1] \in Backed
    <3>1. handlers' = [handlers EXCEPT ![p].outcome = outcome, ![p].at = "BACKUP"]
      BY <2>1, <2>2 DEF TypeOK
    <3> QED
      BY <1>1, <2>1, <2>2, <3>1 DEF SendMail
  <2>3. CASE ~(handlers[p].at = "PRIMARY" /\ outcome = "PERM_FAIL" /\ handlers[p].job[1] \in Backed)
    <3>1. handlers' = [handlers EXCEPT ![p].outcome = outcome, ![p].at = "RECORD"]
      BY <2>1, <2>3 DEF TypeOK
    <3> QED
      BY <1>1, <2>1, <3>1 DEF SendMail
  <2> QED
    BY <2>2, <2>3
<1>2. CASE FailRendering(p)
  BY <1>2 DEF FailRendering, Answered, mailVars, Outcomes
<1> QED
  BY <1>1, <1>2

\* While it sends, a handler keeps its job.
LEMMA SendMailBooks ==
    ASSUME IInv, NEW p \in Workers, SendMail(p) \/ FailRendering(p)
    PROVE  IInv'
<1> USE DEF IInv
<1>1. PICK outcome \in Outcomes, next \in {"BACKUP", "RECORD"} :
        /\ Answered(handlers[p].job[1], outcome)
        /\ handlers' = [handlers EXCEPT ![p].outcome = outcome, ![p].at = next]
  BY SendShape
<1>2. handlers[p] \in Busy /\ handlers[p] # Idle /\ handlers[p].job[1] \in Recipients
  BY SendShape, Jobs DEF TypeOK, Idle, Busy
<1>3. handlers'[p] \in Busy /\ handlers'[p].job = handlers[p].job
  BY <1>1, <1>2 DEF TypeOK, Busy
<1>4. \A q \in Workers : q # p => handlers'[q] = handlers[q]
  BY <1>1 DEF TypeOK
<1>5. handlers' \in [Workers -> Busy \cup {Idle}]
  BY <1>1, <1>3, <1>4 DEF TypeOK
<1>6. /\ copies' \in [Recipients -> Nat] /\ excuses' \in [Recipients -> Nat]
      /\ faults' \in 0..MaxFaults
  BY <1>1, <1>2, FaultType DEF Answered, TypeOK
<1>7. UNCHANGED <<stale, rows, locked, handed, queue, notes>>
  BY SendShape DEF outboxVars
<1>8. TypeOK'
  BY <1>5, <1>6, <1>7 DEF TypeOK
<1>9. \A k \in DeliverRows : Untouched(k) => Untouched(k)'
  BY <1>2, <1>3, <1>4, <1>7 DEF Untouched
<1> QED
  BY <1>7, <1>8, <1>9 DEF BooksInv, BatchInv, NoteInv, JobInv, Early, NextJob

\* The retry that is booked has never been heard of before.
LEMMA RecordOutcomeBooks ==
    ASSUME IInv, NEW p \in Workers, RecordOutcome(p)
    PROVE  IInv'
<1> USE DEF IInv
<1> DEFINE k == handlers[p].job
           r == k[1]
           n == notes[r].attempts + 1
           retry == handlers[p].outcome = "TEMP_FAIL" /\ RetryAllowed(n)
           new == IF handlers[p].outcome = "ACCEPTED" THEN Recorded(notes[r], "SENT", n, 0)
                  ELSE IF retry THEN Recorded(notes[r], "RETRY_WAIT", n, RetryDelay)
                  ELSE Recorded(notes[r], "FAILED", n, 0)
<1>1. /\ handlers[p] # Idle
      /\ k \in DeliverRows /\ k \in Rows /\ r \in Recipients
      /\ notes[r] \in Note /\ notes[r].status = "SENDING"
  BY Jobs DEF RecordOutcome, OwnsClaim, TypeOK, Idle, Busy
<1>2. n \in 1..MaxAttempts /\ (retry => n < MaxAttempts)
  BY <1>1, DeliveryAssumption DEF BooksInv, NoteInv, Note, RetryAllowed
<1>3. /\ new \in Note
      /\ new.status \in {"SENT", "RETRY_WAIT", "FAILED"}
      /\ new.attempts = n
      /\ new.status = "RETRY_WAIT" <=> retry
  BY <1>1, <1>2, DeliveryAssumption DEF Note, Recorded
<1>4. /\ notes' = [notes EXCEPT ![r] = new]
      /\ rows' = IF retry THEN [rows EXCEPT ![Row(r, n)] = "WAITING"] ELSE rows
      /\ handlers' = [handlers EXCEPT ![p] = Idle]
      /\ Finished(k)
      /\ UNCHANGED <<stale, locked, handed, copies, excuses>>
  BY DEF RecordOutcome, mailVars
<1>5. retry => Row(r, n) \in DeliverRows /\ Row(r, n)[1] = r /\ Row(r, n)[2] = n
  BY <1>1, <1>2, DeliveryAssumption, Jobs
<1>6. /\ queue' \in [Rows -> Nat] /\ faults' \in 0..MaxFaults
      /\ \A l \in DeliverRows : /\ l # k => queue'[l] = queue[l]
                                /\ queue'[l] >= queue[l]
  BY <1>1, <1>4, FaultType, Jobs DEF Finished, TypeOK
<1> HIDE DEF new, retry
<1>7. TypeOK'
  <2>1. notes' \in [Recipients -> Note]
    BY <1>1, <1>3, <1>4 DEF TypeOK
  <2>2. rows' \in [Rows -> {"NONE", "WAITING", "PUBLISHED"}]
    BY <1>4, <1>5, Jobs DEF TypeOK
  <2>3. handlers' \in [Workers -> Busy \cup {Idle}]
    BY <1>4 DEF TypeOK
  <2> QED
    BY <1>4, <1>6, <2>1, <2>2, <2>3 DEF TypeOK
<1>8. BatchInv'
  BY <1>4 DEF BooksInv, BatchInv
<1>9. ASSUME NEW s \in Recipients
      PROVE  NoteInv(s)'
  <2>1. NoteInv(s)
    BY DEF BooksInv
  <2>2. notes'[s] = IF s = r THEN new ELSE notes[s]
    BY <1>4 DEF TypeOK
  <2> QED
    BY <1>2, <1>3, <2>1, <2>2 DEF NoteInv
<1>10. ~Early(k)
  BY <1>1 DEF BooksInv, JobInv, Untouched
<1>11. ASSUME NEW l \in DeliverRows
       PROVE  JobInv(l)'
  <2>1. JobInv(l)
    BY DEF BooksInv
  <2>2. notes'[l[1]] = IF l[1] = r THEN new ELSE notes[l[1]]
    BY <1>4, Jobs DEF TypeOK
  <2>3. \A q \in Workers : handlers'[q] = IF q = p THEN Idle ELSE handlers[q]
    BY <1>4 DEF TypeOK
  <2>4. l # k /\ Untouched(l) => Untouched(l)'
    BY <1>4, <1>6, <2>3 DEF Untouched
  <2>5. CASE l[1] # r
    <3>1. l # k /\ rows'[l] = rows[l] /\ notes'[l[1]] = notes[l[1]]
      BY <1>4, <1>5, <2>2, <2>5, Jobs DEF TypeOK
    <3>2. queue'[l] = queue[l]
      BY <1>6, <3>1
    <3> QED
      BY <1>4, <2>1, <2>4, <3>1, <3>2 DEF JobInv, Early, NextJob
  <2>6. CASE l[1] = r
    <3>1. l[2] \in Nat /\ notes[r].attempts \in Nat /\ notes'[r] = new
      BY <1>1, <2>2, <2>6, Jobs DEF Note
    <3>2. l[2] > notes[r].attempts => rows[l] = "NONE" /\ Untouched(l) /\ l # k
      BY <1>10, <2>1, <2>6 DEF JobInv, Early
    <3>3. l[2] = n => l[2] > notes[r].attempts
      BY <3>1
    <3>4. l[2] = n /\ retry => l = Row(r, n) /\ rows'[l] = "WAITING"
      BY <1>4, <1>5, <2>6, Jobs, SameJob DEF TypeOK
    <3>5. l[2] # n => rows'[l] = rows[l]
      BY <1>4, <1>5, Jobs DEF TypeOK
    <3>6. Early(l)' => l[2] > n
      BY <1>3, <2>6, <3>1 DEF Early
    <3>7. Early(l)' => rows'[l] = "NONE" /\ Untouched(l)'
      BY <2>4, <3>1, <3>2, <3>5, <3>6
    <3>8. NextJob(l)' /\ notes'[r].status \in {"QUEUED", "RETRY_WAIT"} =>
            rows'[l] = "WAITING" /\ Untouched(l)'
      BY <1>3, <2>4, <2>6, <3>1, <3>2, <3>3, <3>4 DEF NextJob
    <3>9. \A d \in Dispatchers : l \in handed'[d] => l \in locked'[d]
      BY <1>8 DEF BatchInv
    <3> QED
      BY <2>6, <3>7, <3>8, <3>9 DEF JobInv, Untouched
  <2> QED
    BY <2>5, <2>6
<1> QED
  BY <1>7, <1>8, <1>9, <1>11 DEF BooksInv

LEMMA RecordNothingBooks ==
    ASSUME IInv, NEW p \in Workers, RecordNothing(p)
    PROVE  IInv'
<1>1. handlers' = [handlers EXCEPT ![p] = Idle]
      /\ UNCHANGED <<stale, rows, locked, handed, queue, notes, copies, excuses, faults>>
  BY DEF RecordNothing, outboxVars, mailVars
<1>2. TypeOK'
  BY <1>1 DEF IInv, TypeOK
<1>3. \A k \in DeliverRows : Untouched(k) => Untouched(k)'
  BY <1>1 DEF IInv, TypeOK, Untouched
<1> QED
  BY <1>1, <1>2, <1>3 DEF IInv, BooksInv, BatchInv, NoteInv, JobInv, Early, NextJob

\* A job that comes back is not the one a retry waits for.
LEMMA FailDeliveryBooks ==
    ASSUME IInv, NEW p \in Workers, FailDelivery(p)
    PROVE  IInv'
<1> USE DEF IInv
<1> DEFINE l == handlers[p].job
<1>1. handlers[p] # Idle /\ l \in DeliverRows
  BY DEF FailDelivery, TypeOK, Busy
<1>2. /\ handlers' = [handlers EXCEPT ![p] = Idle]
      /\ queue' = [queue EXCEPT ![l] = @ + 1]
      /\ UNCHANGED <<stale, rows, locked, handed, notes, copies, excuses>>
      /\ faults' \in 0..MaxFaults
  BY FaultType DEF FailDelivery, outboxVars, mailVars
<1>3. TypeOK' /\ BatchInv' /\ \A r \in Recipients : NoteInv(r)'
  BY <1>1, <1>2, Jobs DEF TypeOK, BooksInv, BatchInv, NoteInv
<1>4. ASSUME NEW k \in DeliverRows
      PROVE  JobInv(k)'
  <2>1. JobInv(k)
    BY DEF BooksInv
  <2>2. Untouched(k) => k # l
    BY <1>1 DEF Untouched
  <2>3. /\ k # l => queue'[k] = queue[k]
        /\ queue[k] \in Nat /\ queue'[k] \in Nat /\ queue'[k] >= queue[k]
    BY <1>1, <1>2, Jobs DEF TypeOK
  <2>4. Untouched(k) => Untouched(k)'
    BY <1>2, <2>2, <2>3 DEF Untouched, TypeOK
  <2> QED
    BY <1>2, <2>1, <2>3, <2>4 DEF JobInv, Early, NextJob
<1> QED
  BY <1>3, <1>4 DEF BooksInv

LEMMA TickBooks ==
    ASSUME IInv, Tick
    PROVE  IInv'
<1>1. \A r \in Recipients :
        /\ notes'[r] \in Note
        /\ notes'[r].status = notes[r].status /\ notes'[r].attempts = notes[r].attempts
        /\ notes'[r].left > 0 => notes[r].left > 0
  BY DEF Tick, IInv, TypeOK, Note
<1>2. UNCHANGED <<stale, rows, locked, handed, queue, handlers, copies, excuses, faults>>
      /\ notes' \in [Recipients -> Note]
  BY <1>1 DEF Tick, outboxVars, mailVars
<1>3. TypeOK' /\ BatchInv' /\ \A r \in Recipients : NoteInv(r)'
  BY <1>1, <1>2 DEF IInv, TypeOK, BooksInv, BatchInv, NoteInv
<1>4. ASSUME NEW k \in DeliverRows
      PROVE  JobInv(k)'
  <2>1. JobInv(k) /\ k[1] \in Recipients
    BY Jobs DEF IInv, BooksInv
  <2>2. (Early(k)' <=> Early(k)) /\ (NextJob(k)' <=> NextJob(k)) /\ (Untouched(k)' <=> Untouched(k))
    BY <1>1, <1>2, <2>1 DEF Early, NextJob, Untouched
  <2> QED
    BY <1>1, <1>2, <2>1, <2>2 DEF JobInv
<1> QED
  BY <1>3, <1>4 DEF IInv, BooksInv

LEMMA StepBooks ==
    ASSUME IInv, [Next]_vars
    PROVE  IInv'
<1>1. CASE UNCHANGED vars
  BY <1>1 DEF vars, outboxVars, mailVars, IInv, TypeOK, BooksInv, BatchInv, NoteInv, JobInv,
     Early, NextJob, Untouched
<1>2. CASE Next
  BY <1>2, BookEventBooks, MoveOnBooks, SelectBatchBooks, PublishRowBooks, CommitBatchBooks,
     RollbackBatchBooks, MaterializeBooks, MaterializeStaleBooks, SkipDeliveryBooks, ClaimBooks,
     SendMailBooks, RecordOutcomeBooks, RecordNothingBooks, FailDeliveryBooks, TickBooks
     DEF Next
<1> QED
  BY <1>1, <1>2

LEMMA Books == Spec => []IInv
<1> QED
  BY InitBooks, StepBooks, PTL DEF Spec

\* Rows, jobs, notifications and claims keep their types in every reachable
\* state (dispatchBatch, deliverNotification).
THEOREM DeliveryTypeCorrect == Spec => []TypeOK
<1>1. IInv => TypeOK
  BY DEF IInv
<1> QED
  BY <1>1, Books, PTL

\* Whichever batches fail and whichever jobs are repeated, a notification
\* that nobody has claimed has its job (createNotificationInTransaction,
\* deliverNotification).
THEOREM RetryBooked == Spec => []RetryIsBooked
<1>1. IInv => RetryIsBooked
  <2> SUFFICES ASSUME IInv, NEW r \in Recipients, notes[r].status \in {"QUEUED", "RETRY_WAIT"}
               PROVE  \/ rows[Row(r, notes[r].attempts)] = "WAITING"
                      \/ queue[Row(r, notes[r].attempts)] > 0
    BY DEF RetryIsBooked
  <2>1. NoteInv(r) /\ notes[r] \in Note
    BY DEF IInv, BooksInv, TypeOK
  <2>2. notes[r].attempts \in 0..(MaxAttempts - 1)
    BY <2>1, DeliveryAssumption DEF NoteInv, Note
  <2>3. PICK k \in DeliverRows : k = Row(r, notes[r].attempts) /\ k[1] = r /\ NextJob(k)
    BY <2>2, Jobs DEF NextJob
  <2> QED
    BY <2>3 DEF IInv, BooksInv, JobInv
<1> QED
  BY <1>1, Books, PTL

-----------------------------------------------------------------------------
(* The event *)

\* Once the queue has the event's job, it is served or not needed.
Handled == queue[Event] > 0 \/ stale \/ \A r \in Recipients : notes[r].status # "NONE"

EventInv ==
    rows[Event] = "PUBLISHED" \/ (\E d \in Dispatchers : Event \in handed[d]) => Handled

\* Nothing takes the event's job from the queue without serving it.
LEMMA HandledStable ==
    ASSUME IInv, Handled, Next
    PROVE  Handled'
<1> USE DEF IInv
<1>1. ASSUME NEW k \in DeliverRows, SkipDelivery(k) \/ \E p \in Workers : ClaimNotification(p, k)
      PROVE  Handled'
  <2>1. queue'[Event] = queue[Event] /\ stale' = stale
    BY <1>1, Jobs DEF SkipDelivery, ClaimNotification, TypeOK
  <2>2. \A r \in Recipients : notes[r].status # "NONE" => notes'[r].status # "NONE"
    BY <1>1 DEF SkipDelivery, ClaimNotification, TypeOK, Note
  <2> QED
    BY <2>1, <2>2 DEF Handled
<1>2. ASSUME NEW p \in Workers,
             \/ SendMail(p) \/ FailRendering(p)
             \/ RecordOutcome(p) \/ RecordNothing(p) \/ FailDelivery(p)
      PROVE  Handled'
  <2>1. handlers[p].job \in DeliverRows
    BY <1>2 DEF SendMail, FailRendering, RecordOutcome, RecordNothing, FailDelivery, TypeOK, Busy, Idle
  <2>2. queue'[Event] = queue[Event] /\ stale' = stale
    BY <1>2, <2>1, Jobs
       DEF SendMail, FailRendering, RecordOutcome, RecordNothing, FailDelivery, Finished, TypeOK
  <2>3. \A r \in Recipients : notes[r].status # "NONE" => notes'[r].status # "NONE"
    BY <1>2 DEF SendMail, FailRendering, RecordOutcome, RecordNothing, FailDelivery, Recorded, TypeOK
  <2> QED
    BY <2>2, <2>3 DEF Handled
<1>3. CASE Tick
  BY <1>3 DEF Tick, Handled, TypeOK, Note
<1>4. CASE Materialize
  BY <1>4 DEF Materialize, Handled, TypeOK, Note
<1>5. CASE MaterializeStale
  BY <1>5 DEF MaterializeStale, Handled
<1>6. CASE BookEvent \/ MoveOn
  BY <1>6 DEF BookEvent, MoveOn, Handled
<1>7. ASSUME NEW d \in Dispatchers,
             \/ SelectBatch(d) \/ CommitBatch(d) \/ RollbackBatch(d)
             \/ \E k \in Rows : PublishRow(d, k)
      PROVE  Handled'
  BY <1>7, Jobs DEF SelectBatch, CommitBatch, RollbackBatch, PublishRow, Handled, TypeOK
<1> QED
  BY <1>1, <1>2, <1>3, <1>4, <1>5, <1>6, <1>7 DEF Next

LEMMA StepEvent ==
    ASSUME IInv, EventInv, [Next]_vars
    PROVE  EventInv'
<1> USE DEF IInv
<1>1. CASE UNCHANGED vars
  BY <1>1 DEF vars, outboxVars, EventInv, Handled
<1>2. CASE Handled /\ Next
  BY <1>2, HandledStable DEF EventInv
<1>3. CASE ~Handled /\ Next
  <2>1. rows[Event] # "PUBLISHED" /\ \A d \in Dispatchers : Event \notin handed[d]
    BY <1>3 DEF EventInv
  <2>2. SUFFICES ASSUME ~Handled'
                 PROVE  rows'[Event] # "PUBLISHED" /\ \A d \in Dispatchers : Event \notin handed'[d]
    BY DEF EventInv
  <2>3. ASSUME NEW d \in Dispatchers, NEW k \in Rows, PublishRow(d, k)
        PROVE  rows'[Event] # "PUBLISHED" /\ \A e \in Dispatchers : Event \notin handed'[e]
    <3>1. k # Event
      BY <2>2, <2>3 DEF PublishRow, Handled, TypeOK
    <3> QED
      BY <2>1, <2>3, <3>1 DEF PublishRow, TypeOK
  <2>4. ASSUME NEW d \in Dispatchers, SelectBatch(d) \/ CommitBatch(d) \/ RollbackBatch(d)
        PROVE  rows'[Event] # "PUBLISHED" /\ \A e \in Dispatchers : Event \notin handed'[e]
    BY <2>1, <2>4, Jobs DEF SelectBatch, CommitBatch, RollbackBatch, TypeOK
  <2>5. CASE BookEvent \/ MoveOn \/ Materialize \/ MaterializeStale \/ Tick
    <3>1. handed' = handed
      BY <2>5 DEF BookEvent, MoveOn, Materialize, MaterializeStale, Tick, outboxVars
    <3>2. rows'[Event] # "PUBLISHED"
      BY <2>1, <2>5, Jobs
         DEF BookEvent, MoveOn, Materialize, MaterializeStale, Tick, outboxVars, TypeOK
    <3> QED
      BY <2>1, <3>1, <3>2
  <2>6. ASSUME NEW k \in DeliverRows, SkipDelivery(k) \/ \E p \in Workers : ClaimNotification(p, k)
        PROVE  rows'[Event] # "PUBLISHED" /\ \A e \in Dispatchers : Event \notin handed'[e]
    BY <2>1, <2>6 DEF SkipDelivery, ClaimNotification, outboxVars
  <2>7. ASSUME NEW p \in Workers,
               \/ SendMail(p) \/ FailRendering(p)
               \/ RecordOutcome(p) \/ RecordNothing(p) \/ FailDelivery(p)
        PROVE  rows'[Event] # "PUBLISHED" /\ \A e \in Dispatchers : Event \notin handed'[e]
    <3>1. handed' = handed
      BY <2>7 DEF SendMail, FailRendering, RecordOutcome, RecordNothing, FailDelivery, outboxVars
    <3>2. rows'[Event] = rows[Event] \/ rows'[Event] = "WAITING"
      BY <2>7, Jobs DEF SendMail, FailRendering, RecordOutcome, RecordNothing, FailDelivery, outboxVars, TypeOK
    <3> QED
      BY <2>1, <3>1, <3>2
  <2> QED
    BY <1>3, <2>3, <2>4, <2>5, <2>6, <2>7 DEF Next
<1> QED
  BY <1>1, <1>2, <1>3

\* No batch loses the event, whatever part of it had been handed over when it
\* failed (dispatchBatch, NotificationMaterializeHandler.handle).
THEOREM EventMaterialized == Spec => []EventBecomesMail
<1>1. Init => EventInv
  BY Jobs DEF Init, EventInv
<1>2. EventInv => EventBecomesMail
  BY DEF EventInv, Handled, EventBecomesMail
<1> QED
  BY <1>1, <1>2, StepEvent, Books, PTL DEF Spec

-----------------------------------------------------------------------------
(* The copies *)

\* Handlers of the mail that have no acceptance: each may still get one.
Sending(r) ==
    {p \in Workers : handlers[p] # Idle /\ handlers[p].job[1] = r /\ handlers[p].outcome # "ACCEPTED"}

\* A notification nobody has claimed may get one more handler without excuse.
Unclaimed(r) == IF notes[r].status \in {"NONE", "QUEUED", "RETRY_WAIT"} THEN 1 ELSE 0

SendingInv ==
    \A p \in Workers :
        /\ handlers[p].at \in {"PRIMARY", "BACKUP"} => handlers[p].outcome # "ACCEPTED"
        /\ handlers[p] # Idle /\ handlers[p].outcome = "ACCEPTED" =>
            copies[handlers[p].job[1]] > 0

Budget(r) == copies[r] + Cardinality(Sending(r)) + Unclaimed(r) <= 1 + excuses[r]

CopiesInv == SendingInv /\ \A r \in Recipients : Budget(r)

LEMMA SendingFinite ==
    ASSUME NEW r
    PROVE  IsFiniteSet(Sending(r)) /\ Cardinality(Sending(r)) \in Nat
<1>1. Sending(r) \subseteq Workers /\ IsFiniteSet(Workers)
  BY DeliveryAssumption DEF Sending
<1> QED
  BY <1>1, FS_Subset, FS_CardinalityType

\* One handler joins, leaves, or is accepted; the others stay.
LEMMA SendingChanges ==
    ASSUME NEW r, NEW p \in Workers, NEW S, S = Sending(r)'
    PROVE  /\ S = Sending(r) \cup {p} /\ p \notin Sending(r) =>
                Cardinality(S) = Cardinality(Sending(r)) + 1
           /\ S = Sending(r) \ {p} /\ p \in Sending(r) =>
                Cardinality(S) = Cardinality(Sending(r)) - 1
  BY SendingFinite, FS_AddElement, FS_RemoveElement

LEMMA InitCopies == Init => CopiesInv
<1> SUFFICES ASSUME Init PROVE CopiesInv
  OBVIOUS
<1>1. \A r \in Recipients : Sending(r) = {}
  BY DEF Init, Sending
<1>2. \A p \in Workers : handlers[p] = [at |-> "IDLE"]
  BY DEF Init, Idle
<1>3. SendingInv
  BY <1>2 DEF SendingInv, Idle
<1>4. ASSUME NEW r \in Recipients
      PROVE  Budget(r)
  <2>1. Cardinality(Sending(r)) = 0
    BY <1>1, FS_EmptySet
  <2>2. copies[r] = 0 /\ excuses[r] = 0 /\ Unclaimed(r) = 1
    BY DEF Init, Unclaimed
  <2> QED
    BY <2>1, <2>2 DEF Budget
<1> QED
  BY <1>3, <1>4 DEF CopiesInv

\* A handler leaves without an answer of its own.
LEMMA LeavesCopies ==
    ASSUME IInv, CopiesInv, NEW p \in Workers, handlers[p] # Idle,
           NEW s, s = handlers[p].job[1],
           handlers' = [handlers EXCEPT ![p] = Idle], UNCHANGED mailVars,
           \A r \in Recipients : r # s => notes'[r] = notes[r],
           \/ Unclaimed(s)' = Unclaimed(s)
           \/ Unclaimed(s)' = 0
           \/ handlers[p].outcome # "ACCEPTED"
    PROVE  CopiesInv'
<1>1. SendingInv'
  <2>1. \A q \in Workers : handlers'[q] = IF q = p THEN Idle ELSE handlers[q]
    BY DEF IInv, TypeOK
  <2> QED
    BY <2>1 DEF CopiesInv, SendingInv, Idle, mailVars
<1>2. ASSUME NEW r \in Recipients
      PROVE  Budget(r)'
  <2>1. Sending(r)' = Sending(r) \ {p}
    BY DEF Sending, IInv, TypeOK
  <2>2. Budget(r) /\ copies'[r] = copies[r] /\ excuses'[r] = excuses[r]
    BY DEF CopiesInv, mailVars
  <2>3. /\ copies[r] \in Nat /\ excuses[r] \in Nat
        /\ Unclaimed(r) \in {0, 1} /\ Unclaimed(r)' \in {0, 1}
    BY DEF IInv, TypeOK, Unclaimed
  <2>4. Cardinality(Sending(r)) \in Nat
    BY SendingFinite
  <2>5. CASE p \in Sending(r)
    <3>1. Cardinality(Sending(r)') = Cardinality(Sending(r)) - 1
      BY <2>1, <2>5, SendingChanges
    <3> QED
      BY <2>2, <2>3, <2>4, <3>1 DEF Budget
  <2>6. CASE p \notin Sending(r)
    <3>1. Sending(r)' = Sending(r)
      BY <2>1, <2>6
    <3>2. r # s => Unclaimed(r)' = Unclaimed(r)
      BY DEF Unclaimed
    <3>3. r = s => handlers[p].outcome = "ACCEPTED"
      BY <2>6 DEF Sending
    <3>4. Unclaimed(r)' <= Unclaimed(r)
      BY <2>3, <3>2, <3>3
    <3>5. Cardinality(Sending(r)') = Cardinality(Sending(r))
      BY <3>1
    <3> QED
      BY <2>2, <2>3, <2>4, <3>4, <3>5 DEF Budget
  <2> QED
    BY <2>5, <2>6
<1> QED
  BY <1>1, <1>2 DEF CopiesInv

\* A claim uses up the unclaimed notification, or is excused.
LEMMA ClaimCopies ==
    ASSUME IInv, CopiesInv, NEW p \in Workers, NEW l \in DeliverRows, ClaimNotification(p, l)
    PROVE  CopiesInv'
<1>1. /\ handlers[p] = Idle
      /\ handlers' = [handlers EXCEPT ![p] =
                        [at |-> "PRIMARY", job |-> l, version |-> notes[l[1]].version + 1,
                         outcome |-> "NONE"]]
      /\ UNCHANGED copies
  BY DEF ClaimNotification
<1>2. \A q \in Workers : q # p => handlers'[q] = handlers[q]
  BY <1>1 DEF IInv, TypeOK
<1>3. /\ handlers'[p].job = l /\ handlers'[p].outcome = "NONE" /\ handlers'[p].at = "PRIMARY"
      /\ handlers'[p] # Idle
  BY <1>1 DEF IInv, TypeOK, Idle
<1>4. SendingInv'
  BY <1>1, <1>2, <1>3 DEF CopiesInv, SendingInv
<1>5. ASSUME NEW r \in Recipients
      PROVE  Budget(r)'
  <2>1. /\ Budget(r) /\ copies[r] \in Nat /\ excuses[r] \in Nat /\ notes[r] \in Note
        /\ Cardinality(Sending(r)) \in Nat
    BY SendingFinite DEF CopiesInv, IInv, TypeOK
  <2>2. CASE r = l[1]
    <3>1. Sending(r)' = Sending(r) \cup {p} /\ p \notin Sending(r)
      BY <1>1, <1>2, <1>3, <2>2 DEF Sending
    <3>2. Cardinality(Sending(r)') = Cardinality(Sending(r)) + 1
      BY <3>1, SendingChanges
    <3>3. /\ notes'[r].status = "SENDING"
          /\ notes[r].status = "SENDING" => excuses'[r] = excuses[r] + 1
          /\ notes[r].status # "SENDING" => excuses'[r] = excuses[r] /\ Unclaimed(r) = 1
      BY <2>1, <2>2 DEF ClaimNotification, Settled, Waiting, Unclaimed, Note, IInv, TypeOK
    <3>4. Unclaimed(r)' = 0 /\ Unclaimed(r) \in {0, 1}
      BY <3>3 DEF Unclaimed
    <3> QED
      BY <1>1, <2>1, <3>2, <3>3, <3>4 DEF Budget
  <2>3. CASE r # l[1]
    <3>1. Sending(r)' = Sending(r)
      BY <1>1, <1>2, <1>3, <2>3 DEF Sending
    <3>2. notes'[r] = notes[r] /\ excuses'[r] = excuses[r]
      BY <2>3 DEF ClaimNotification, IInv, TypeOK
    <3>3. Cardinality(Sending(r)') = Cardinality(Sending(r)) /\ Unclaimed(r)' = Unclaimed(r)
      BY <3>1, <3>2 DEF Unclaimed
    <3> QED
      BY <1>1, <2>1, <3>2, <3>3 DEF Budget
  <2> QED
    BY <2>2, <2>3
<1> QED
  BY <1>4, <1>5 DEF CopiesInv

\* An answer is a copy the handler was allowed, or a lost one.
LEMMA SendMailCopies ==
    ASSUME IInv, CopiesInv, NEW p \in Workers, SendMail(p) \/ FailRendering(p)
    PROVE  CopiesInv'
<1>0. PICK s : s = handlers[p].job[1]
  OBVIOUS
<1>1. PICK outcome \in Outcomes, next \in {"BACKUP", "RECORD"} :
        /\ Answered(s, outcome)
        /\ outcome = "ACCEPTED" => next = "RECORD"
        /\ handlers' = [handlers EXCEPT ![p].outcome = outcome, ![p].at = next]
  BY <1>0, SendShape DEF IInv
<1>2. /\ handlers[p] \in Busy /\ handlers[p] # Idle /\ s \in Recipients
      /\ handlers[p].at \in {"PRIMARY", "BACKUP"}
      /\ notes' = notes
  BY <1>0, SendShape, Jobs DEF IInv, TypeOK, Idle, Busy
<1>3. /\ handlers'[p].job = handlers[p].job /\ handlers'[p].outcome = outcome
      /\ outcome = "ACCEPTED" => handlers'[p].at = "RECORD"
      /\ handlers'[p] # Idle
  BY <1>1, <1>2 DEF IInv, TypeOK, Busy, Idle
<1>4. \A q \in Workers : q # p => handlers'[q] = handlers[q]
  BY <1>1 DEF IInv, TypeOK
<1>5. \A r \in Recipients :
        /\ copies[r] \in Nat /\ excuses[r] \in Nat
        /\ copies'[r] \in Nat /\ copies'[r] >= copies[r]
        /\ r # s => copies'[r] = copies[r] /\ excuses'[r] = excuses[r]
  BY <1>1, <1>2 DEF Answered, IInv, TypeOK
<1>6. \/ outcome = "ACCEPTED" /\ copies'[s] = copies[s] + 1 /\ excuses' = excuses
      \/ outcome # "ACCEPTED" /\ copies' = copies /\ excuses' = excuses
      \/ /\ outcome # "ACCEPTED"
         /\ copies'[s] = copies[s] + 1 /\ excuses'[s] = excuses[s] + 1
  BY <1>1, <1>2 DEF Answered, IInv, TypeOK
<1>7. SendingInv'
  <2> SUFFICES ASSUME NEW q \in Workers
               PROVE  /\ handlers'[q].at \in {"PRIMARY", "BACKUP"} => handlers'[q].outcome # "ACCEPTED"
                      /\ handlers'[q] # Idle /\ handlers'[q].outcome = "ACCEPTED" =>
                            copies'[handlers'[q].job[1]] > 0
    BY DEF SendingInv
  <2>1. CASE q = p
    BY <1>0, <1>2, <1>3, <1>5, <1>6, <2>1
  <2>2. CASE q # p
    <3>1. handlers'[q] = handlers[q]
      BY <1>4, <2>2
    <3>2. handlers[q] # Idle => handlers[q].job[1] \in Recipients
      BY Jobs DEF IInv, TypeOK, Busy
    <3> QED
      BY <1>5, <3>1, <3>2 DEF CopiesInv, SendingInv
  <2> QED
    BY <2>1, <2>2
<1>8. ASSUME NEW r \in Recipients
      PROVE  Budget(r)'
  <2>1. Budget(r) /\ Cardinality(Sending(r)) \in Nat
    BY SendingFinite DEF CopiesInv
  <2>2. Unclaimed(r)' = Unclaimed(r) /\ Unclaimed(r) \in {0, 1}
    BY <1>2 DEF Unclaimed
  <2>3. CASE r = s /\ outcome = "ACCEPTED"
    <3>1. Sending(r)' = Sending(r) \ {p} /\ p \in Sending(r)
      BY <1>0, <1>2, <1>3, <1>4, <2>3 DEF Sending, CopiesInv, SendingInv
    <3>2. Cardinality(Sending(r)') = Cardinality(Sending(r)) - 1
      BY <3>1, SendingChanges
    <3> QED
      BY <1>5, <1>6, <2>1, <2>2, <2>3, <3>2 DEF Budget
  <2>4. CASE ~(r = s /\ outcome = "ACCEPTED")
    <3>1. Sending(r)' = Sending(r)
      BY <1>0, <1>2, <1>3, <1>4, <2>4 DEF Sending, CopiesInv, SendingInv
    <3>2. Cardinality(Sending(r)') = Cardinality(Sending(r))
      BY <3>1
    <3> QED
      BY <1>5, <1>6, <2>1, <2>2, <2>4, <3>2 DEF Budget
  <2> QED
    BY <2>3, <2>4
<1> QED
  BY <1>7, <1>8 DEF CopiesInv

\* The other steps move no handler, and make no notification unclaimed again.
LEMMA QuietCopies ==
    ASSUME IInv, CopiesInv, UNCHANGED <<handlers, mailVars>>,
           \A r \in Recipients : Unclaimed(r)' <= Unclaimed(r)
    PROVE  CopiesInv'
<1>1. SendingInv'
  BY DEF CopiesInv, SendingInv, mailVars
<1>2. ASSUME NEW r \in Recipients
      PROVE  Budget(r)'
  <2>1. Sending(r)' = Sending(r)
    BY DEF Sending
  <2>2. Cardinality(Sending(r)') = Cardinality(Sending(r)) /\ Cardinality(Sending(r)) \in Nat
    BY <2>1, SendingFinite
  <2>3. /\ copies[r] \in Nat /\ excuses[r] \in Nat
        /\ Unclaimed(r) \in {0, 1} /\ Unclaimed(r)' \in {0, 1}
    BY DEF IInv, TypeOK, Unclaimed
  <2> QED
    BY <2>2, <2>3 DEF CopiesInv, Budget, mailVars
<1> QED
  BY <1>1, <1>2 DEF CopiesInv

LEMMA StepCopies ==
    ASSUME IInv, CopiesInv, [Next]_vars
    PROVE  CopiesInv'
<1>1. ASSUME UNCHANGED <<handlers, mailVars, notes>>
      PROVE  CopiesInv'
  BY <1>1, QuietCopies DEF Unclaimed
<1>2. CASE UNCHANGED vars
  BY <1>1, <1>2 DEF vars
<1>3. CASE BookEvent \/ MoveOn \/ MaterializeStale
  BY <1>1, <1>3 DEF BookEvent, MoveOn, MaterializeStale
<1>4. ASSUME NEW d \in Dispatchers,
             \/ SelectBatch(d) \/ CommitBatch(d) \/ RollbackBatch(d)
             \/ \E k \in Rows : PublishRow(d, k)
      PROVE  CopiesInv'
  BY <1>1, <1>4 DEF SelectBatch, CommitBatch, RollbackBatch, PublishRow
<1>5. ASSUME NEW k \in DeliverRows, SkipDelivery(k)
      PROVE  CopiesInv'
  BY <1>1, <1>5 DEF SkipDelivery
<1>6. CASE Materialize \/ Tick
  <2>1. \A r \in Recipients : Unclaimed(r)' <= Unclaimed(r)
    BY <1>6 DEF Materialize, Tick, Unclaimed, IInv, TypeOK, Note
  <2>2. UNCHANGED <<handlers, mailVars>>
    BY <1>6 DEF Materialize, Tick
  <2> QED
    BY <2>1, <2>2, QuietCopies
<1>7. ASSUME NEW p \in Workers, RecordOutcome(p)
      PROVE  CopiesInv'
  <2>0. PICK r : r = handlers[p].job[1]
    OBVIOUS
  <2>1. /\ handlers[p] # Idle /\ handlers' = [handlers EXCEPT ![p] = Idle]
        /\ UNCHANGED mailVars
    BY <1>7 DEF RecordOutcome, Idle
  <2>2. r \in Recipients
    BY <2>0, <2>1, Jobs DEF IInv, TypeOK, Busy
  <2>3. /\ \A s \in Recipients : s # r => notes'[s] = notes[s]
        /\ handlers[p].outcome = "ACCEPTED" => notes'[r].status = "SENT"
    BY <1>7, <2>0, <2>2 DEF RecordOutcome, Recorded, IInv, TypeOK
  <2>4. Unclaimed(r)' = 0 \/ handlers[p].outcome # "ACCEPTED"
    BY <2>3 DEF Unclaimed
  <2> QED
    BY <2>0, <2>1, <2>3, <2>4, LeavesCopies
<1>8. ASSUME NEW p \in Workers, RecordNothing(p) \/ FailDelivery(p)
      PROVE  CopiesInv'
  <2>1. /\ handlers[p] # Idle /\ handlers' = [handlers EXCEPT ![p] = Idle]
        /\ UNCHANGED mailVars /\ notes' = notes
    BY <1>8 DEF RecordNothing, FailDelivery, Idle
  <2>2. \A s : Unclaimed(s)' = Unclaimed(s)
    BY <2>1 DEF Unclaimed
  <2> QED
    BY <2>1, <2>2, LeavesCopies
<1> QED
  BY <1>2, <1>3, <1>4, <1>5, <1>6, <1>7, <1>8, ClaimCopies, SendMailCopies DEF Next

LEMMA Copies == Spec => []CopiesInv
<1> QED
  BY InitCopies, StepCopies, Books, PTL DEF Spec

\* However jobs are repeated and claims taken over, every copy beyond the first
\* has a lost answer or an expired claim to it (deliverNotification).
THEOREM DuplicatesExplained == Spec => []DuplicatesAreExplained
<1>1. IInv /\ CopiesInv => DuplicatesAreExplained
  <2> SUFFICES ASSUME IInv, CopiesInv, NEW r \in Recipients
               PROVE  copies[r] <= 1 + excuses[r]
    BY DEF DuplicatesAreExplained
  <2>1. /\ Budget(r) /\ Cardinality(Sending(r)) \in Nat /\ Unclaimed(r) \in {0, 1}
        /\ copies[r] \in Nat /\ excuses[r] \in Nat
    BY SendingFinite DEF CopiesInv, Unclaimed, IInv, TypeOK
  <2> QED
    BY <2>1 DEF Budget
<1> QED
  BY <1>1, Books, Copies, PTL

-----------------------------------------------------------------------------
(* The promise *)

\* One transaction materializes the notifications of all recipients.
AllAtOnce ==
    \A r, s \in Recipients : notes[r].status = "NONE" => notes[s].status = "NONE"

\* A step that adds no notification changes no NONE.
LEMMA NotesStay ==
    ASSUME IInv, Next, ~Materialize
    PROVE  \A r \in Recipients : notes[r].status = "NONE" <=> notes'[r].status = "NONE"
<1> USE DEF IInv
<1>1. ASSUME notes' = notes
      PROVE  \A r \in Recipients : notes[r].status = "NONE" <=> notes'[r].status = "NONE"
  BY <1>1
<1>2. CASE BookEvent \/ MoveOn \/ MaterializeStale
  BY <1>1, <1>2 DEF BookEvent, MoveOn, MaterializeStale
<1>3. ASSUME NEW d \in Dispatchers,
             \/ SelectBatch(d) \/ CommitBatch(d) \/ RollbackBatch(d)
             \/ \E k \in Rows : PublishRow(d, k)
      PROVE  notes' = notes
  BY <1>3 DEF SelectBatch, CommitBatch, RollbackBatch, PublishRow
<1>4. ASSUME NEW k \in DeliverRows, SkipDelivery(k)
      PROVE  notes' = notes
  BY <1>4 DEF SkipDelivery
<1>5. ASSUME NEW p \in Workers, NEW k \in DeliverRows, ClaimNotification(p, k)
      PROVE  \A r \in Recipients : notes[r].status = "NONE" <=> notes'[r].status = "NONE"
  <2>1. notes[k[1]].status # "NONE"
    BY <1>5 DEF ClaimNotification, BooksInv, JobInv, Early, Untouched
  <2> QED
    BY <1>5, <2>1 DEF ClaimNotification, TypeOK
<1>6. ASSUME NEW p \in Workers, RecordOutcome(p)
      PROVE  \A r \in Recipients : notes[r].status = "NONE" <=> notes'[r].status = "NONE"
  BY <1>6 DEF RecordOutcome, OwnsClaim, Recorded, TypeOK
<1>7. ASSUME NEW p \in Workers,
             SendMail(p) \/ FailRendering(p) \/ RecordNothing(p) \/ FailDelivery(p)
      PROVE  notes' = notes
  BY <1>7 DEF SendMail, FailRendering, RecordNothing, FailDelivery
<1>8. CASE Tick
  BY <1>8 DEF Tick, TypeOK, Note
<1> QED
  BY <1>1, <1>2, <1>3, <1>4, <1>5, <1>6, <1>7, <1>8 DEF Next

LEMMA StepAllAtOnce ==
    ASSUME IInv, AllAtOnce, [Next]_vars
    PROVE  AllAtOnce'
<1>1. CASE UNCHANGED vars
  BY <1>1 DEF vars, AllAtOnce
<1>2. CASE Materialize
  BY <1>2 DEF Materialize, AllAtOnce, IInv, TypeOK, Note
<1>3. CASE Next /\ ~Materialize
  BY <1>3, NotesStay DEF AllAtOnce
<1> QED
  BY <1>1, <1>2, <1>3

LEMMA InitMaps == Init => Promise!Init
  BY DEF Init, Promise!Init, Report

\* Without a new status nothing happens to the report.
LEMMA Stutters ==
    ASSUME UNCHANGED copies, \A r \in Recipients : notes'[r].status = notes[r].status
    PROVE  UNCHANGED Promise!vars
  BY DEF Promise!vars, Report

LEMMA StepMaps ==
    ASSUME IInv, CopiesInv, AllAtOnce, [Next]_vars
    PROVE  [Promise!Next]_(Promise!vars)
<1> USE DEF IInv
<1>1. ASSUME UNCHANGED <<notes, copies>>
      PROVE  [Promise!Next]_(Promise!vars)
  BY <1>1, Stutters
<1>2. CASE UNCHANGED vars
  BY <1>1, <1>2 DEF vars, mailVars
<1>3. CASE BookEvent \/ MoveOn \/ MaterializeStale
  BY <1>1, <1>3 DEF BookEvent, MoveOn, MaterializeStale, mailVars
<1>4. ASSUME NEW d \in Dispatchers,
             \/ SelectBatch(d) \/ CommitBatch(d) \/ RollbackBatch(d)
             \/ \E k \in Rows : PublishRow(d, k)
      PROVE  [Promise!Next]_(Promise!vars)
  BY <1>1, <1>4 DEF SelectBatch, CommitBatch, RollbackBatch, PublishRow, mailVars
<1>5. ASSUME NEW k \in DeliverRows, SkipDelivery(k)
      PROVE  [Promise!Next]_(Promise!vars)
  BY <1>1, <1>5 DEF SkipDelivery, mailVars
<1>6. ASSUME NEW p \in Workers, RecordNothing(p) \/ FailDelivery(p)
      PROVE  [Promise!Next]_(Promise!vars)
  BY <1>1, <1>6 DEF RecordNothing, FailDelivery, mailVars
<1>7. CASE Materialize
  <2>1. \A r \in Recipients :
            notes'[r].status = IF notes[r].status = "NONE" THEN "QUEUED" ELSE notes[r].status
    BY <1>7 DEF Materialize, TypeOK, Note
  <2>2. UNCHANGED copies
    BY <1>7 DEF Materialize, mailVars
  <2>3. CASE \A r \in Recipients : notes[r].status = "NONE"
    <3>1. \A r \in Recipients : Report[r] = "NONE"
      BY <2>3 DEF Report
    <3>2. Report' = [r \in Recipients |-> "OPEN"]
      BY <2>1, <2>3 DEF Report
    <3> QED
      BY <2>2, <3>1, <3>2 DEF Promise!Next, Promise!Want
  <2>4. CASE \A r \in Recipients : notes[r].status # "NONE"
    BY <2>1, <2>2, <2>4, Stutters
  <2> QED
    BY <2>3, <2>4 DEF AllAtOnce
<1>8. ASSUME NEW p \in Workers, NEW k \in DeliverRows, ClaimNotification(p, k)
      PROVE  [Promise!Next]_(Promise!vars)
  <2>1. notes[k[1]].status # "NONE" /\ k[1] \in Recipients
    BY <1>8, Jobs DEF ClaimNotification, BooksInv, JobInv, Early, Untouched
  <2>2. \A r \in Recipients :
            \/ notes'[r].status = notes[r].status
            \/ /\ notes[r].status \in {"QUEUED", "SENDING", "RETRY_WAIT"}
               /\ notes'[r].status = "SENDING"
    BY <1>8, <2>1 DEF ClaimNotification, Settled, TypeOK, Note
  <2>3. Report' = Report /\ UNCHANGED copies
    BY <1>8, <2>2 DEF Report, ClaimNotification
  <2> QED
    BY <2>3 DEF Promise!vars
<1>9. ASSUME NEW p \in Workers, SendMail(p) \/ FailRendering(p)
      PROVE  [Promise!Next]_(Promise!vars)
  <2>0. PICK r : r = handlers[p].job[1]
    OBVIOUS
  <2>1. /\ handlers[p] # Idle /\ handlers[p].job \in DeliverRows /\ r \in Recipients
        /\ Report' = Report
    BY <1>9, <2>0, SendShape, Jobs DEF TypeOK, Idle, Busy, Report
  <2>2. notes[r].status # "NONE"
    BY <2>0, <2>1 DEF BooksInv, JobInv, Early, Untouched
  <2>3. copies' = copies \/ copies' = [copies EXCEPT ![r] = @ + 1]
    BY <1>9, <2>0, SendShape DEF Answered
  <2>4. Report[r] # "NONE"
    BY <2>1, <2>2 DEF Report
  <2> QED
    BY <2>1, <2>3, <2>4 DEF Promise!Next, Promise!Accept, Promise!vars
<1>10. ASSUME NEW p \in Workers, RecordOutcome(p)
       PROVE  [Promise!Next]_(Promise!vars)
  <2>0. PICK r : r = handlers[p].job[1]
    OBVIOUS
  <2>1. /\ handlers[p] # Idle /\ r \in Recipients
        /\ notes[r].status = "SENDING" /\ UNCHANGED copies
    BY <1>10, <2>0, Jobs DEF RecordOutcome, OwnsClaim, TypeOK, Idle, Busy, mailVars
  <2>2. /\ notes'[r].status \in {"SENT", "RETRY_WAIT", "FAILED"}
        /\ notes'[r].status = "SENT" => handlers[p].outcome = "ACCEPTED"
        /\ \A s \in Recipients : s # r => notes'[s] = notes[s]
    BY <1>10, <2>0, <2>1 DEF RecordOutcome, Recorded, TypeOK
  <2>3. notes'[r].status = "SENT" => copies[r] > 0
    BY <2>0, <2>1, <2>2 DEF CopiesInv, SendingInv
  <2>4. Report[r] = "OPEN"
    BY <2>1 DEF Report
  <2>5. CASE notes'[r].status = "RETRY_WAIT"
    <3>1. Report' = Report
      BY <2>1, <2>2, <2>5 DEF Report
    <3> QED
      BY <2>1, <3>1 DEF Promise!vars
  <2>6. CASE notes'[r].status \in {"SENT", "FAILED"}
    <3>1. Report' = [Report EXCEPT ![r] = notes'[r].status]
      BY <2>1, <2>2, <2>6 DEF Report
    <3>2. Promise!Report(r, notes'[r].status)
      BY <2>1, <2>3, <2>4, <3>1 DEF Promise!Report
    <3> QED
      BY <2>1, <2>6, <3>2 DEF Promise!Next
  <2> QED
    BY <2>2, <2>5, <2>6
<1>11. CASE Tick
  <2>1. \A r \in Recipients : notes'[r].status = notes[r].status
    BY <1>11 DEF Tick, TypeOK, Note
  <2> QED
    BY <1>11, <2>1, Stutters DEF Tick, mailVars
<1> QED
  BY <1>2, <1>3, <1>4, <1>5, <1>6, <1>7, <1>8, <1>9, <1>10, <1>11 DEF Next

\* Every step of outbox, queue and handlers is a step of MailPromise or stutters,
\* for any recipients and any faults.
THEOREM ImplementsMailPromise == Spec => ImplementsPromise
<1>1. Init => AllAtOnce
  BY DEF Init, AllAtOnce
<1> QED
  BY <1>1, InitMaps, StepMaps, StepAllAtOnce, Books, Copies, PTL
     DEF Spec, ImplementsPromise, Promise!Spec
=============================================================================
