------------------------------- MODULE Accounts -------------------------------
(***************************************************************************)
(* Logins, password changes and sessions (application/src/auth, .../owner, *)
(* .../contacts, api/src/security) together with what every transaction    *)
(* of theirs needs: a connection of the process's pool, the row lock of    *)
(* the account, and the next place in the private audit chain.             *)
(*                                                                         *)
(* The interleavings are those of statements.  The session service works   *)
(* on connections of its own: its statements are not part of the handler's *)
(* transaction, not even where the handler calls it inside.  What a login  *)
(* means for the deadlines is left to module DeathWorkflow.                *)
(*                                                                         *)
(* Passwords are numbered.  Every session row also holds the               *)
(* credential_version it was issued under; no guard or handler ever        *)
(* compares it, and completePasswordReset leaves it, so it is left out.    *)
(***************************************************************************)
EXTENDS AuditChain, FiniteSets

CONSTANTS
    Owner, Contacts,
    Requests,       \* requests at work at the same time
    PoolSize,       \* connections of the process (DATABASE_POOL_MAX, 8)
    Limit,          \* sessions per owner and per contact (5 and 3)
    Idle, Absolute, \* life of a session without and with use
    MaxStarts,      \* bound: logins, changes and resets
    MaxTime,        \* bound: the clock
    MaxFaults       \* bound: requests cut short

ASSUME AccountsAssumption ==
    /\ Owner \notin Contacts
    /\ PoolSize \in Nat \ {0} /\ Limit \in Nat \ {0}
    /\ {Idle, Absolute, MaxStarts, MaxTime, MaxFaults} \subseteq Nat

VARIABLES
    now,
    passwords,   \* the password of each account
    sessions,    \* rows of auth_sessions
    events,      \* committed rows of audit.private_events
    drawn,       \* last value of its sequence
    requests,    \* what each request is at
    started,     \* logins, changes and resets so far
    spared,      \* changes and resets cut short with sessions left
    faults

bounds == <<started, faults>>
vars == <<now, passwords, sessions, events, drawn, requests, spared, bounds>>

\* Sessions of the same instant are ordered by their UUIDs: here, as inserted.
SessionIds == 1..MaxStarts

Actors == {Owner} \cup Contacts

NoSession == [actor |-> "NONE"]

NoId == 0

Free == [at |-> "FREE"]

-----------------------------------------------------------------------------
(* Sessions *)

Rows == {s \in SessionIds : sessions[s] # NoSession}

\* #findValid, and the condition of listActive
Valid(s, time) ==
    /\ sessions[s] # NoSession
    /\ ~sessions[s].revoked
    /\ time < sessions[s].idleExpiresAt
    /\ time < sessions[s].absoluteExpiresAt

ListActive(actor, time) == {s \in Rows : sessions[s].actor = actor /\ Valid(s, time)}

\* Ordered by created_at and id
Older(s, t) ==
    \/ sessions[s].createdAt < sessions[t].createdAt
    \/ sessions[s].createdAt = sessions[t].createdAt /\ s < t

\* Mutant: one session too many stays.
ExcessButOne(actor, time) ==
    LET active == ListActive(actor, time)
    IN  {s \in active : Cardinality({t \in active : Older(s, t)}) > Limit}

\* #enforceLimit: the oldest beyond the limit
Excess(actor, time) ==
    LET active == ListActive(actor, time)
    IN  {s \in active : Cardinality({t \in active : Older(s, t)}) >= Limit}

MinOf(a, b) == IF a <= b THEN a ELSE b

\* The row `create' inserts.  late: the password was replaced before; revived:
\* used again after it had gone idle; issued: its token was answered.
NewSession(r) ==
    [actor |-> r.actor, password |-> r.password, createdAt |-> r.time,
     idleExpiresAt |-> MinOf(r.time + Idle, r.time + Absolute),
     absoluteExpiresAt |-> r.time + Absolute, revoked |-> FALSE,
     by |-> r.kind, late |-> r.password < passwords[r.actor], revived |-> FALSE, issued |-> FALSE]

-----------------------------------------------------------------------------
(* Transactions *)

\* Requests inside a transaction: each holds a connection until its end.
Holding == {q \in Requests : requests[q] # Free /\ requests[q].connected}

Connection == Cardinality(Holding) < PoolSize

\* A row lock (SELECT ... FOR UPDATE) is held to the end as well.
Locked(actor) ==
    \E q \in Requests : requests[q] # Free /\ requests[q].locked /\ requests[q].actor = actor

\* pg_advisory_xact_lock('dls:audit:private:v1')
ChainLocked == \E q \in Requests : requests[q] # Free /\ requests[q].row # <<>>

\* loginContact and completePasswordReset run with READ COMMITTED.
Serializable(r) == r.kind # "RESET" /\ (r.kind = "LOGIN" => r.actor = Owner)

Replaces(r) == r.kind \in {"CHANGE", "RESET"}

\* What a statement of the transaction sees of the chain
Visible(r) == IF Serializable(r) THEN SubSeq(events, 1, r.snapshot) ELSE events

\* Two serializable transactions that both read the end of the chain and both
\* extend it: the second is refused.
Conflicts(r) ==
    /\ Serializable(r)
    /\ \E i \in DOMAIN events : i > r.snapshot /\ events[i].event.content

-----------------------------------------------------------------------------

Init ==
    /\ now = 0
    /\ passwords = [a \in Actors |-> 0]
    /\ sessions = [s \in SessionIds |-> NoSession]
    /\ events = <<>>
    /\ drawn = 0
    /\ requests = [q \in Requests |-> Free]
    /\ started = 0
    /\ spared = {}
    /\ faults = 0

Tick ==
    /\ now < MaxTime
    /\ now' = now + 1
    /\ UNCHANGED <<passwords, sessions, events, drawn, requests, spared, bounds>>

Become(q, r) == requests' = [requests EXCEPT ![q] = r]

Goto(q, at) == Become(q, [requests[q] EXCEPT !.at = at])

End(q) == Become(q, Free)

Request(kind, actor, at, s) ==
    [at |-> at, kind |-> kind, actor |-> actor, password |-> passwords[actor], connected |-> FALSE,
     locked |-> FALSE, snapshot |-> 0, row |-> <<>>, session |-> s, time |-> 0, doomed |-> {}]

Start ==
    /\ started < MaxStarts
    /\ started' = started + 1

\* loginOwner, loginContact and completePasswordReset; the password is typed.
BeginAccess(q, actor, kind) ==
    /\ kind = "RESET" => actor = Owner
    /\ requests[q] = Free
    /\ Start
    /\ Become(q, Request(kind, actor, "CONNECT", NoId))
    /\ UNCHANGED <<now, passwords, sessions, events, drawn, spared, faults>>

\* SessionGuard, in front of all other requests: the session is looked up.
FindSession(q, s, kind) ==
    /\ requests[q] = Free
    /\ Connection
    /\ Valid(s, now) /\ sessions[s].issued
    /\ IF kind = "CHANGE" THEN Start ELSE UNCHANGED started
    /\ Become(q, Request(kind, sessions[s].actor, "TOUCH", s))
    /\ UNCHANGED <<now, passwords, sessions, events, drawn, spared, faults>>

\* authenticate: the idle time starts anew.
Touch(q) ==
    LET r == requests[q] IN
    /\ r.at \in {"TOUCH", "TOUCH_AGAIN"}
    /\ Connection
    /\ sessions' = [sessions EXCEPT
           ![r.session].idleExpiresAt = MinOf(now + Idle, sessions[r.session].absoluteExpiresAt),
           ![r.session].revived = @ \/ now >= sessions[r.session].idleExpiresAt]
    /\ \/ r.at = "TOUCH_AGAIN" /\ Become(q, [r EXCEPT !.at = "LOCK", !.snapshot = Len(events)])
       \/ r.at = "TOUCH" /\ r.kind = "USE" /\ End(q)
       \/ r.at = "TOUCH" /\ r.kind = "LOGOUT" /\ Goto(q, "LOGOUT")
       \/ r.at = "TOUCH" /\ r.kind = "CHANGE" /\ Goto(q, "CONNECT")
    /\ UNCHANGED <<now, passwords, events, drawn, spared, bounds>>

\* SessionService.revoke, of a session that is found valid once more
Logout(q) ==
    LET r == requests[q] IN
    /\ r.at = "LOGOUT"
    /\ Connection
    /\ sessions' = IF Valid(r.session, now) THEN [sessions EXCEPT ![r.session].revoked = TRUE] ELSE sessions
    /\ End(q)
    /\ UNCHANGED <<now, passwords, events, drawn, spared, bounds>>

\* PgTransactionManager.run takes a connection; a serializable transaction sees
\* what is committed by its first statement, which already asks for the row.
Connect(q) ==
    LET r == requests[q] IN
    /\ r.at = "CONNECT"
    /\ Connection
    /\ Become(q, [r EXCEPT !.connected = TRUE,
                           !.snapshot = IF Serializable(r) THEN Len(events) ELSE 0,
                           !.at = IF r.kind = "CHANGE" /\ r.actor # Owner THEN "FIND_AGAIN" ELSE "LOCK"])
    /\ UNCHANGED <<now, passwords, sessions, events, drawn, spared, bounds>>

\* changeContactPassword: authenticate, on another connection
FindAgain(q) ==
    LET r == requests[q] IN
    /\ r.at = "FIND_AGAIN"
    /\ Connection
    /\ IF Valid(r.session, now) THEN Goto(q, "TOUCH_AGAIN") ELSE End(q)
    /\ UNCHANGED <<now, passwords, sessions, events, drawn, spared, bounds>>

\* completePasswordReset also revokes the sessions it finds, in its transaction.
Revocable(r) ==
    IF r.kind = "RESET" THEN {s \in Rows : sessions[s].actor = r.actor /\ ~sessions[s].revoked} ELSE {}

\* Mutant: the row is read without a lock.
LockNothing(q) ==
    LET r == requests[q] IN
    /\ r.at = "LOCK"
    /\ IF r.kind = "RESET" \/ r.password = passwords[r.actor]
       THEN Become(q, [r EXCEPT !.locked = TRUE, !.at = "APPEND", !.doomed = Revocable(r)])
       ELSE End(q)
    /\ UNCHANGED <<now, passwords, sessions, events, drawn, spared, bounds>>

\* The row is locked and the password, but for a reset, compared.  Where the row
\* was written since, the password is the old one, or the snapshot is.
Lock(q) ==
    LET r == requests[q] IN
    /\ r.at = "LOCK"
    /\ ~Locked(r.actor)
    /\ IF r.kind = "RESET" \/ r.password = passwords[r.actor]
       THEN Become(q, [r EXCEPT !.locked = TRUE, !.at = "APPEND", !.doomed = Revocable(r)])
       ELSE End(q)
    /\ UNCHANGED <<now, passwords, sessions, events, drawn, spared, bounds>>

\* Mutant: the chain is not locked.
AppendUnlocked(q) ==
    LET r == requests[q] IN
    /\ r.at = "APPEND"
    /\ drawn' = drawn + 1
    /\ Become(q, [r EXCEPT !.row = <<Row(drawn + 1, Serializable(r), Visible(r))>>,
                           !.time = now,
                           !.at = IF r.kind = "LOGIN" /\ r.actor = Owner THEN "INSERT" ELSE "COMMIT"])
    /\ UNCHANGED <<now, passwords, sessions, events, spared, bounds>>

\* PgAuditWriter.append.  loginOwner then creates the session inside.
AppendEvent(q) ==
    LET r == requests[q] IN
    /\ r.at = "APPEND"
    /\ ~ChainLocked
    /\ drawn' = drawn + 1
    /\ Become(q, [r EXCEPT !.row = <<Row(drawn + 1, Serializable(r), Visible(r))>>,
                           !.time = now,
                           !.at = IF r.kind = "LOGIN" /\ r.actor = Owner THEN "INSERT" ELSE "COMMIT"])
    /\ UNCHANGED <<now, passwords, sessions, events, spared, bounds>>

\* Mutant: the connection is not given back.
CommitUnreleased(q) ==
    LET r == requests[q] IN
    /\ r.at = "COMMIT"
    /\ ~Conflicts(r)
    /\ events' = events \o r.row
    /\ passwords' = IF Replaces(r) THEN [passwords EXCEPT ![r.actor] = @ + 1] ELSE passwords
    /\ IF r.session # NoId /\ ~Replaces(r)
       THEN End(q) /\ sessions' = [sessions EXCEPT ![r.session].issued = TRUE]
       ELSE /\ sessions' = [s \in SessionIds |->
                   IF s \in r.doomed THEN [sessions[s] EXCEPT !.revoked = TRUE] ELSE sessions[s]]
            /\ Become(q, [r EXCEPT !.doomed = {}, !.locked = FALSE, !.row = <<>>, !.snapshot = 0, !.time = now,
                                   !.password = passwords'[r.actor],
                                   !.at = IF Replaces(r) THEN "LIST" ELSE "INSERT"])
    /\ UNCHANGED <<now, drawn, spared, bounds>>

\* What is still to do when the transaction is committed: loginOwner is done.
Commit(q) ==
    LET r == requests[q] IN
    /\ r.at = "COMMIT"
    /\ ~Conflicts(r)
    /\ events' = events \o r.row
    /\ passwords' = IF Replaces(r) THEN [passwords EXCEPT ![r.actor] = @ + 1] ELSE passwords
    /\ IF r.session # NoId /\ ~Replaces(r)
       THEN End(q) /\ sessions' = [sessions EXCEPT ![r.session].issued = TRUE]
       ELSE /\ sessions' = [s \in SessionIds |->
                   IF s \in r.doomed THEN [sessions[s] EXCEPT !.revoked = TRUE] ELSE sessions[s]]
            /\ Become(q, [r EXCEPT !.doomed = {}, !.connected = FALSE, !.locked = FALSE, !.row = <<>>, !.snapshot = 0, !.time = now,
                                     !.password = passwords'[r.actor],
                                     !.at = IF Replaces(r) THEN "LIST" ELSE "INSERT"])
    /\ UNCHANGED <<now, drawn, spared, bounds>>

\* SessionService.revokeAll: list, then revoke one after the other
ListAll(q) ==
    LET r == requests[q] IN
    /\ r.at = "LIST"
    /\ Connection
    /\ Become(q, [r EXCEPT !.doomed = ListActive(r.actor, now), !.at = "REVOKE_ALL"])
    /\ UNCHANGED <<now, passwords, sessions, events, drawn, spared, bounds>>

\* SessionService.create: the row, then the limit
InsertSession(q) ==
    LET r == requests[q] IN
    /\ r.at = "INSERT"
    /\ Connection
    /\ LET s == Cardinality(Rows) + 1
       IN  /\ sessions' = [sessions EXCEPT ![s] = NewSession(r)]
           /\ Become(q, [r EXCEPT !.session = s, !.at = "ENFORCE"])
    /\ UNCHANGED <<now, passwords, events, drawn, spared, bounds>>

EnforceLimit(q) ==
    LET r == requests[q] IN
    /\ r.at = "ENFORCE"
    /\ Connection
    /\ Become(q, [r EXCEPT !.doomed = Excess(r.actor, r.time), !.at = "REVOKE"])
    /\ UNCHANGED <<now, passwords, sessions, events, drawn, spared, bounds>>

RevokeOne(q) ==
    LET r == requests[q] IN
    /\ r.at \in {"REVOKE", "REVOKE_ALL"}
    /\ Connection
    /\ \E s \in r.doomed :
        /\ sessions' = [sessions EXCEPT ![s].revoked = TRUE]
        /\ Become(q, [r EXCEPT !.doomed = @ \ {s}])
    /\ UNCHANGED <<now, passwords, events, drawn, spared, bounds>>

\* The last one is revoked.
Revoked(q) ==
    LET r == requests[q] IN
    /\ r.at \in {"REVOKE", "REVOKE_ALL"}
    /\ r.doomed = {}
    /\ IF r.at = "REVOKE_ALL"
       THEN /\ IF r.kind = "CHANGE" THEN Become(q, [r EXCEPT !.at = "INSERT", !.time = now]) ELSE End(q)
            /\ UNCHANGED sessions
       ELSE IF r.connected
       THEN Goto(q, "COMMIT") /\ UNCHANGED sessions
       ELSE End(q) /\ sessions' = [sessions EXCEPT ![r.session].issued = TRUE]
    /\ UNCHANGED <<now, passwords, events, drawn, spared, bounds>>

\* The database refuses the commit of one of two conflicting transactions.
Refuse(q) ==
    /\ requests[q].at = "COMMIT"
    /\ Conflicts(requests[q])
    /\ End(q)
    /\ UNCHANGED <<now, passwords, sessions, events, drawn, spared, bounds>>

\* Those that have replaced a password and not yet revoked all sessions
Unfinished == {requests[q] : q \in {q \in Requests : requests[q].at \in {"LIST", "REVOKE_ALL"}}}

\* A statement or the commit is refused, or the process ends: a transaction is
\* rolled back, the number it has drawn and its session rows are not.
Fail(q) ==
    /\ requests[q] # Free
    /\ faults < MaxFaults
    /\ faults' = faults + 1
    /\ spared' = spared \cup {<<r.kind, r.actor>> : r \in {requests[q]} \cap Unfinished}
    /\ End(q)
    /\ UNCHANGED <<now, passwords, sessions, events, drawn, started>>

Work(q) ==
    \/ Touch(q) \/ Logout(q)
    \/ Connect(q) \/ FindAgain(q) \/ Lock(q) \/ AppendEvent(q) \/ Commit(q) \/ Refuse(q)
    \/ ListAll(q) \/ InsertSession(q) \/ EnforceLimit(q) \/ RevokeOne(q) \/ Revoked(q)

Next ==
    \/ Tick
    \/ \E q \in Requests :
        \/ \E a \in Actors, kind \in {"LOGIN", "RESET"} : BeginAccess(q, a, kind)
        \/ \E s \in SessionIds, kind \in {"USE", "LOGOUT", "CHANGE"} : FindSession(q, s, kind)
        \/ Work(q)
        \/ Fail(q)

Spec == Init /\ [][Next]_vars

-----------------------------------------------------------------------------
(* Properties *)

\* A changed or reset password ends the sessions of the old one, however logins,
\* changes and uses interleave with it (docs/03-database-design.md, 9.1), but
\* for those of a contact whose login was checked before and recorded after, of
\* an owner's change overtaken by another, those touched after their end, and
\* those left to what follows the transaction: to a change, which revokes nothing
\* in it, all of them, to a reset those a change has put in meanwhile
\* (changeOwnerPassword, changeContactPassword, completePasswordReset).
OldSessionsEnd ==
    LET left == spared \cup {<<r.kind, r.actor>> : r \in Unfinished} IN
    \A s \in Rows :
        Valid(s, now) /\ sessions[s].password < passwords[sessions[s].actor] =>
            \/ sessions[s].late /\ (sessions[s].actor = Owner => sessions[s].by = "CHANGE")
            \/ sessions[s].revived
            \/ <<"CHANGE", sessions[s].actor>> \in left
            \/ <<"RESET", sessions[s].actor>> \in left /\ sessions[s].by = "CHANGE"

\* Although every login inserts first and counts afterwards, outside of any
\* transaction, logins at the same time never leave an account more sessions
\* than its limit (SessionService.create).
SessionLimitHolds ==
    \A a \in Actors :
        Cardinality({s \in Rows : /\ sessions[s].actor = a
                                  /\ Valid(s, now)
                                  /\ sessions[s].issued /\ ~sessions[s].revived}) <= Limit

\* The private chain is in the order of its numbers and each event continues
\* the one before, but where a serializable transaction began before events of
\* READ COMMITTED ones: it continues the last event it could see
\* (PgAuditWriter.append).
AuditChainContinues ==
    \A i \in DOMAIN events :
        /\ i > 1 => events[i - 1].event.sequence < events[i].event.sequence
        /\ \E j \in 0..(i - 1) :
            /\ events[i].event.previous = LastHash(SubSeq(events, 1, j))
            /\ \A k \in (j + 1)..(i - 1) : events[i].event.content /\ ~events[k].event.content

\* What a request at its place waits for: a connection, its account's row, the chain.
NeedsConnection(r) ==
    \/ r.at \in {"TOUCH", "LOGOUT", "CONNECT", "FIND_AGAIN", "TOUCH_AGAIN", "LIST", "INSERT", "ENFORCE"}
    \/ r.at \in {"REVOKE", "REVOKE_ALL"} /\ r.doomed # {}

Waits(q) ==
    LET r == requests[q] IN
    \/ NeedsConnection(r) /\ ~Connection
    \/ r.at = "LOCK" /\ Locked(r.actor)
    \/ r.at = "APPEND" /\ ChainLocked

Busy == {q \in Requests : requests[q] # Free}

\* Every connection is held by a transaction, and one of them waits for a second
\* connection, which the session service takes (loginOwner, with the owner's row
\* and the audit chain locked meanwhile, and changeContactPassword).
SecondConnectionMissing ==
    /\ Cardinality(Holding) = PoolSize
    /\ \E q \in Holding :
        \/ requests[q].kind = "LOGIN" /\ requests[q].locked
           /\ requests[q].at \in {"INSERT", "ENFORCE", "REVOKE"}
        \/ requests[q].kind = "CHANGE" /\ requests[q].actor # Owner
           /\ requests[q].at \in {"FIND_AGAIN", "TOUCH_AGAIN"}

\* All requests at work wait only if a second connection is missing.
DeadlockExplained == Busy # {} /\ (\A q \in Busy : Waits(q)) => SecondConnectionMissing

\* A request cannot go on exactly while it waits, and requests wait for each
\* other, for good, in one way only: for a second connection of a pool that is
\* used up by transactions (PgTransactionManager.run, SessionService).
StuckOnlyForSecondConnection ==
    /\ \A q \in Busy : ENABLED Work(q) <=> ~Waits(q)
    /\ DeadlockExplained
=============================================================================
