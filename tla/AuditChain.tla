------------------------------ MODULE AuditChain ------------------------------
(***************************************************************************)
(* The two hash chains of the audit: the private one, which every handler  *)
(* extends (PgAuditWriter), and the public one of a publication; what the  *)
(* verifier accepts, and the pages in which the owner reads the events.    *)
(*                                                                         *)
(* A row is [event, hash] as audit-verifier.ts reads it.  SHA-256 of the   *)
(* canonical JSON is the event itself: equal hashes, equal events.  Who    *)
(* runs `append' when is module Accounts' subject.                         *)
(***************************************************************************)
EXTENDS Integers, Sequences, SequencesExt

\* 32 zero bytes: the hash of no event
ZeroHash == <<>>

HashAuditEvent(event) == <<event.sequence, event.content, event.previous>>

LastHash(rows) == IF rows = <<>> THEN ZeroHash ELSE Last(rows).hash

\* The row of an event that got this number and found these rows.
Row(sequence, content, rows) ==
    LET event == [sequence |-> sequence, content |-> content, previous |-> LastHash(rows)]
    IN  [event |-> event, hash |-> HashAuditEvent(event)]

\* No error: numbers without a gap, hashes that match.
VerifyAuditChain(rows) ==
    \A i \in DOMAIN rows :
        /\ rows[i].event.sequence = i
        /\ rows[i].event.previous = LastHash(SubSeq(rows, 1, i - 1))
        /\ rows[i].hash = HashAuditEvent(rows[i].event)

-----------------------------------------------------------------------------
(* The public chain of a publication.  Content: event code and the keys of  *)
(* its metadata.                                                            *)

PublicEventCodes ==
    {"WORKFLOW_TRIGGERED", "CONFIRMATION_PROGRESS", "THRESHOLD_REACHED", "SECOND_STAGE_REMINDER",
     "PUBLICATION_LOCKED", "PUBLICATION_COMPLETE", "IP_SUMMARY"}

PublicMetadataKeys ==
    {"contactCount", "approvedCount", "threshold", "stage", "packageVersion", "ipSummary", "zipSha256"}

Refused == [code |-> "REFUSED"]

\* What may be shown of an event.
ProjectPublicEvent(input) ==
    IF input.code \in PublicEventCodes
    THEN [input EXCEPT !.metadata = @ \cap PublicMetadataKeys] ELSE Refused

\* appendPublicAuditEvent, which takes the lock of the publication first.
AppendPublicAuditEvent(rows, input) ==
    LET sequence == IF rows = <<>> THEN 1 ELSE Last(rows).event.sequence + 1
    IN  Append(rows, Row(sequence, ProjectPublicEvent(input), rows))

PublicationEvents ==
    <<[code |-> "WORKFLOW_TRIGGERED", metadata |-> {"stage"}],
      [code |-> "CONFIRMATION_PROGRESS", metadata |-> {"contactCount", "approvedCount"}],
      [code |-> "THRESHOLD_REACHED", metadata |-> {"threshold"}],
      [code |-> "PUBLICATION_LOCKED", metadata |-> {"packageVersion"}],
      [code |-> "PUBLICATION_COMPLETE", metadata |-> {"zipSha256"}]>>

\* The rows finalizePublication inserts with the publication.
PublicAuditRows ==
    LET rows[n \in 0..Len(PublicationEvents)] ==
            IF n = 0 THEN <<>>
            ELSE Append(rows[n - 1], Row(n, PublicationEvents[n], rows[n - 1]))
    IN  rows[Len(PublicationEvents)]

-----------------------------------------------------------------------------
(* GET /owner/audit-events and /owner/audit-integrity                       *)

NoCursor == 0

\* The newest first, below the cursor, of the contents that pass the filters; one
\* row more tells whether a page follows.
AuditPage(rows, shown, cursor, limit) ==
    LET asked == SelectSeq(Reverse(rows), LAMBDA row :
                     /\ cursor # NoCursor => row.event.sequence < cursor
                     /\ row.event.content \in shown)
        items == SubSeq(asked, 1, IF Len(asked) < limit THEN Len(asked) ELSE limit)
    IN  [items |-> items,
         next |-> IF Len(asked) > limit THEN Last(items).event.sequence ELSE NoCursor]

\* The table is verified by one statement and its last row read by another.
AuditIntegrity(verified, later) ==
    [valid |-> VerifyAuditChain(verified),
     entries |-> Len(verified),
     lastSequence |-> IF later = <<>> THEN 0 ELSE Last(later).event.sequence,
     lastHash |-> LastHash(later)]
=============================================================================
