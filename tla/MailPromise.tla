----------------------------- MODULE MailPromise -----------------------------
(***************************************************************************)
(* What the notification service promises: a mail is wanted, copies of it  *)
(* may reach the recipient, and its report is written once: SENT only when *)
(* a copy was accepted, FAILED only when an attempt failed.                *)
(***************************************************************************)
EXTENDS Integers

CONSTANTS Recipients

VARIABLES
    report, \* NONE, OPEN, SENT or FAILED
    copies  \* how many copies were accepted

vars == <<report, copies>>

Init ==
    /\ report = [r \in Recipients |-> "NONE"]
    /\ copies = [r \in Recipients |-> 0]

\* All recipients of an event are asked for at once.
Want ==
    /\ \A r \in Recipients : report[r] = "NONE"
    /\ report' = [r \in Recipients |-> "OPEN"]
    /\ UNCHANGED copies

\* A slow sender may have its copy accepted after the report is written.
Accept(r) ==
    /\ report[r] # "NONE"
    /\ copies' = [copies EXCEPT ![r] = @ + 1]
    /\ UNCHANGED report

Report(r, s) ==
    /\ report[r] = "OPEN"
    /\ s = "SENT" => copies[r] > 0
    /\ report' = [report EXCEPT ![r] = s]
    /\ UNCHANGED copies

Next == Want \/ \E r \in Recipients : Accept(r) \/ \E s \in {"SENT", "FAILED"} : Report(r, s)

Spec == Init /\ [][Next]_vars
=============================================================================
