------------------------- MODULE DeliveryRefinement -------------------------
(***************************************************************************)
(* Delivery implements MailPromise: the report on a mail is the status of  *)
(* its notification, claims and retries being OPEN.                        *)
(***************************************************************************)
EXTENDS Delivery

Report ==
    [r \in Recipients |->
        IF notes[r].status \in {"NONE", "SENT", "FAILED"} THEN notes[r].status ELSE "OPEN"]

Promise == INSTANCE MailPromise WITH report <- Report

\* However jobs are repeated, claims taken over and workers lost, all mails of
\* an event are wanted at once, a report is written once, and SENT is never
\* reported of a mail no server accepted (deliverNotification).
ImplementsPromise == Promise!Spec
=============================================================================
