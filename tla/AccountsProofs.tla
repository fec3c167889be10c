---------------------------- MODULE AccountsProofs ----------------------------
(***************************************************************************)
(* Proofs about module Accounts, for any accounts, passwords, requests     *)
(* and limits. The inductive invariant IInv says of the stored rows what   *)
(* every request under way still relies on: the audit row it carries       *)
(* continues the chain it can see; the password it has compared is still   *)
(* in force, because its account is locked; whichever of the requests      *)
(* that have counted the sessions end next, no more than the limit         *)
(* remain; and a session older than a change of password is one which      *)
(* that change will still find and end.  PoolInv adds the connections, for *)
(* who can wait for whom.                                                  *)
(*                                                                         *)
(* The last parts are about the operators of AuditChain and RateLimits:    *)
(* what the verifier accepts, and how long a refused caller has to wait.   *)
(***************************************************************************)
EXTENDS Accounts, RateLimits, FiniteSetTheorems, SequenceTheorems, WellFoundedInduction, TLAPS

-----------------------------------------------------------------------------
(* The chain as a sequence *)

\* Row i continues the one at j, and those between could not be seen.
ContinuesAt(rows, i, j) ==
    /\ rows[i].event.previous = LastHash(SubSeq(rows, 1, j))
    /\ \A k \in (j + 1)..(i - 1) : rows[i].event.content /\ ~rows[k].event.content

\* Every event continues an earlier one, see AuditChainContinues.
Continues(rows) ==
    \A i \in DOMAIN rows :
        /\ i > 1 => rows[i - 1].event.sequence < rows[i].event.sequence
        /\ \E j \in 0..(i - 1) : ContinuesAt(rows, i, j)

IsChain(rows) ==
    /\ rows \in Seq(Range(rows))
    /\ \A i \in DOMAIN rows :
           rows[i].event.sequence \in Nat /\ rows[i].event.content \in BOOLEAN
    /\ Continues(rows)

\* A chain has a length and that many places.
LEMMA ChainLength ==
    ASSUME NEW rows, IsChain(rows)
    PROVE  Len(rows) \in Nat /\ DOMAIN rows = 1..Len(rows)
  BY LenProperties DEF IsChain

\* What stays when one more row is added.
LEMMA OneMore ==
    ASSUME NEW rows, IsChain(rows), NEW row
    PROVE  LET longer == rows \o <<row>>
           IN  /\ longer \in Seq(Range(longer))
               /\ Len(longer) = Len(rows) + 1
               /\ DOMAIN longer = 1..(Len(rows) + 1)
               /\ longer[Len(rows) + 1] = row
               /\ \A i \in 1..Len(rows) : longer[i] = rows[i]
               /\ \A n \in 0..Len(rows) : SubSeq(longer, 1, n) = SubSeq(rows, 1, n)
<1> DEFINE S == Range(rows) \cup {row}
           longer == rows \o <<row>>
<1>1. rows \in Seq(S)
  BY SeqMonotonic DEF IsChain
<1>2. <<row>> \in Seq(S) /\ Len(<<row>>) = 1 /\ <<row>>[1] = row
  OBVIOUS
<1>3. Len(rows) \in Nat /\ DOMAIN rows = 1..Len(rows)
  BY ChainLength
<1>4. /\ longer \in Seq(S)
      /\ Len(longer) = Len(rows) + 1
      /\ \A i \in 1..(Len(rows) + 1) :
             longer[i] = IF i <= Len(rows) THEN rows[i] ELSE <<row>>[i - Len(rows)]
  BY <1>1, <1>2, ConcatProperties
<1>5. longer \in Seq(Range(longer))
  BY <1>4, SeqOfRange
<1>6. DOMAIN longer = 1..(Len(rows) + 1)
  BY <1>4, LenProperties
<1>7. longer[Len(rows) + 1] = row
  <2>1. longer[Len(rows) + 1] = <<row>>[Len(rows) + 1 - Len(rows)]
    BY <1>3, <1>4
  <2>2. Len(rows) + 1 - Len(rows) = 1
    BY <1>3
  <2> QED
    BY <1>2, <2>1, <2>2
<1>8. \A i \in 1..Len(rows) : longer[i] = rows[i]
  BY <1>3, <1>4
<1>9. ASSUME NEW n \in 0..Len(rows)
      PROVE  SubSeq(longer, 1, n) = SubSeq(rows, 1, n)
  <2>1. CASE n = 0
    BY <2>1, SubSeqEmpty
  <2>2. CASE n # 0
    BY <1>1, <1>2, <1>3, <2>2, SubSeqOfConcat1
  <2> QED
    BY <2>1, <2>2
<1> QED
  BY <1>4, <1>5, <1>6, <1>7, <1>8, <1>9

\* A row that continues one of the rows makes a chain of a chain, if those after
\* that one are none of its kind.
LEMMA ChainExtended ==
    ASSUME NEW rows, IsChain(rows), NEW row, NEW k \in 0..Len(rows),
           row.event.sequence \in Nat, row.event.content \in BOOLEAN,
           row.event.previous = LastHash(SubSeq(rows, 1, k)),
           \A i \in DOMAIN rows : rows[i].event.sequence < row.event.sequence,
           \A i \in (k + 1)..Len(rows) : row.event.content /\ ~rows[i].event.content
    PROVE  IsChain(rows \o <<row>>)
<1> DEFINE longer == rows \o <<row>>
           n == Len(rows)
<1>1. n \in Nat /\ DOMAIN rows = 1..n
  BY ChainLength
<1>2. /\ longer \in Seq(Range(longer))
      /\ DOMAIN longer = 1..(n + 1)
      /\ longer[n + 1] = row
      /\ \A i \in 1..n : longer[i] = rows[i]
      /\ \A m \in 0..n : SubSeq(longer, 1, m) = SubSeq(rows, 1, m)
  BY OneMore
<1> HIDE DEF longer
<1>3. \A i \in DOMAIN longer :
          longer[i].event.sequence \in Nat /\ longer[i].event.content \in BOOLEAN
  BY <1>1, <1>2 DEF IsChain
<1>4. ASSUME NEW i \in 1..n
      PROVE  /\ i > 1 => longer[i - 1].event.sequence < longer[i].event.sequence
             /\ \E j \in 0..(i - 1) : ContinuesAt(longer, i, j)
  <2>1. i > 1 => rows[i - 1].event.sequence < rows[i].event.sequence
    BY <1>1 DEF IsChain, Continues
  <2>2. PICK j \in 0..(i - 1) : ContinuesAt(rows, i, j)
    BY <1>1 DEF IsChain, Continues
  <2>3. longer[i] = rows[i] /\ \A l \in 1..(i - 1) : l \in 1..n /\ longer[l] = rows[l]
    BY <1>1, <1>2
  <2>4. SubSeq(longer, 1, j) = SubSeq(rows, 1, j)
    BY <1>1, <1>2
  <2>5. \A l \in (j + 1)..(i - 1) : l \in 1..(i - 1)
    BY <1>1
  <2>6. ContinuesAt(longer, i, j)
    BY <2>2, <2>3, <2>4, <2>5 DEF ContinuesAt
  <2>7. i > 1 => i - 1 \in 1..(i - 1)
    BY <1>1
  <2> QED
    BY <2>1, <2>3, <2>6, <2>7
<1>5. /\ n + 1 > 1 => longer[n].event.sequence < longer[n + 1].event.sequence
      /\ ContinuesAt(longer, n + 1, k)
  <2>1. SubSeq(longer, 1, k) = SubSeq(rows, 1, k)
    BY <1>2
  <2>2. \A l \in (k + 1)..n : l \in 1..n /\ longer[l] = rows[l]
    BY <1>1, <1>2
  <2>3. (n + 1) - 1 = n
    BY <1>1
  <2>4. ContinuesAt(longer, n + 1, k)
    BY <1>2, <2>1, <2>2, <2>3 DEF ContinuesAt
  <2>5. ASSUME n + 1 > 1
        PROVE  longer[n].event.sequence < longer[n + 1].event.sequence
    <3>1. n \in 1..n
      BY <1>1, <2>5
    <3> QED
      BY <1>1, <1>2, <3>1
  <2> QED
    BY <2>4, <2>5
<1>6. Continues(longer)
  <2> SUFFICES ASSUME NEW i \in 1..(n + 1)
               PROVE  /\ i > 1 => longer[i - 1].event.sequence < longer[i].event.sequence
                      /\ \E j \in 0..(i - 1) : ContinuesAt(longer, i, j)
    BY <1>2 DEF Continues
  <2>1. CASE i = n + 1
    <3>1. i - 1 = n
      BY <1>1, <2>1
    <3> QED
      BY <1>5, <2>1, <3>1
  <2>2. CASE i # n + 1
    <3>1. i \in 1..n
      BY <1>1, <2>2
    <3> QED
      BY <1>4, <3>1
  <2> QED
    BY <2>1, <2>2
<1> QED
  BY <1>2, <1>3, <1>6 DEF IsChain, longer

-----------------------------------------------------------------------------
(* Shapes *)

Kinds == {"LOGIN", "RESET", "USE", "LOGOUT", "CHANGE"}

Places ==
    {"TOUCH", "LOGOUT", "CONNECT", "FIND_AGAIN", "TOUCH_AGAIN", "LOCK", "APPEND", "COMMIT",
     "LIST", "REVOKE_ALL", "INSERT", "ENFORCE", "REVOKE"}

\* Rows of the chain contain the chain before them: the row a request carries has
\* no set to be in but its own.
RequestType(rows) ==
    [at : Places, kind : Kinds, actor : Actors, password : Nat, connected : BOOLEAN,
     locked : BOOLEAN, snapshot : Nat, row : rows, session : Nat, time : Nat,
     doomed : SUBSET SessionIds]

Typed(r) == r \in RequestType({r.row})

SessionType ==
    [actor : Actors, password : Nat, createdAt : Nat, idleExpiresAt : Nat,
     absoluteExpiresAt : Nat, revoked : BOOLEAN, by : Kinds, late : BOOLEAN, revived : BOOLEAN,
     issued : BOOLEAN]

\* Where the steps of the session service are part of loginOwner's transaction
Inside(r) == r.kind = "LOGIN" /\ r.actor = Owner

\* Which kind of request comes to which place, and with what.
Placed(r) ==
    /\ r.kind = "RESET" => r.actor = Owner
    /\ r.at \in {"CONNECT", "LOCK", "APPEND", "COMMIT"} => r.kind \in {"LOGIN", "RESET", "CHANGE"}
    /\ r.at \in {"FIND_AGAIN", "TOUCH_AGAIN"} => r.kind = "CHANGE"
    /\ r.at \in {"LIST", "REVOKE_ALL"} => r.kind \in {"RESET", "CHANGE"} /\ ~r.connected
    /\ r.at \in {"INSERT", "ENFORCE", "REVOKE"} =>
           r.kind \in {"LOGIN", "CHANGE"} /\ (r.connected <=> Inside(r))
    /\ r.at \in {"FIND_AGAIN", "TOUCH_AGAIN", "LOCK", "APPEND", "COMMIT"} => r.connected
    /\ r.at \in {"APPEND", "COMMIT"} => r.locked
    /\ r.at \in {"INSERT", "ENFORCE", "REVOKE"} /\ Inside(r) => r.locked
    /\ r.kind = "LOGIN" /\ r.at \in {"CONNECT", "LOCK", "APPEND"} => r.session = NoId
    /\ r.kind = "LOGIN" /\ r.at = "COMMIT" => (r.session # NoId <=> Inside(r))
    /\ r.kind = "LOGIN" /\ r.at \in {"APPEND", "COMMIT"} => r.doomed = {}

\* A session that the request may take to be its own: it was found or inserted.
\* (Beyond the bound on what is started there are no rows.)
Owned(r) ==
    \/ r.session \in Rows /\ sessions[r.session].actor = r.actor
    \/ r.session # NoId /\ r.session \notin SessionIds

\* How the request and the rows it knows of are related.
Related(r) ==
    /\ r.time <= now
    /\ r.doomed \subseteq Rows
    /\ r.at \in {"TOUCH", "LOGOUT", "FIND_AGAIN", "TOUCH_AGAIN"} => r.session \in Rows
    /\ r.at = "CONNECT" /\ r.kind = "CHANGE" => r.session \in Rows
    /\ r.at \in {"ENFORCE", "REVOKE"} => Owned(r)
    /\ r.at = "COMMIT" /\ Inside(r) => Owned(r)

Working(q) == requests[q] # Free

RequestInv(q) == Working(q) => Typed(requests[q]) /\ Placed(requests[q]) /\ Related(requests[q])

TypeInv ==
    /\ now \in Nat
    /\ passwords \in [Actors -> Nat]
    /\ sessions \in [SessionIds -> SessionType \cup {NoSession}]
    /\ \E n \in 0..MaxStarts : Rows = 1..n
    /\ requests \in [Requests -> {requests[q] : q \in Requests}]
    /\ \A q \in Requests : RequestInv(q)

-----------------------------------------------------------------------------
(* The inductive invariant *)

\* The event a request is about to commit: numbered after all others, and as it
\* could see the chain.
Carries(q) ==
    \E n \in 1..drawn :
        /\ requests[q].row = <<Row(n, Serializable(requests[q]), Visible(requests[q]))>>
        /\ \A i \in DOMAIN events : events[i].event.sequence < n

RowInv(q) ==
    Working(q) =>
        /\ requests[q].snapshot <= Len(events)
        /\ requests[q].row # <<>> =>
              /\ requests[q].at \in {"INSERT", "ENFORCE", "REVOKE", "COMMIT"}
              /\ Carries(q)

OneRow ==
    \A p, q \in Requests :
        Working(p) /\ Working(q) /\ requests[p].row # <<>> /\ requests[q].row # <<>> => p = q

ChainInv ==
    /\ IsChain(events)
    /\ drawn \in Nat
    /\ \A i \in DOMAIN events : events[i].event.sequence <= drawn
    /\ \A q \in Requests : RowInv(q)
    /\ OneRow

\* A row lock keeps everybody else from the password, and from logging the owner in.
OneLock ==
    \A p, q \in Requests :
        /\ Working(p) /\ Working(q) /\ p # q
        /\ requests[p].locked /\ requests[q].locked
        => requests[p].actor # requests[q].actor

Compared(r) == r.locked /\ r.kind # "RESET" => r.password = passwords[r.actor]

\* What a reset does not find was inserted by a change since.
Swept(r) ==
    r.kind = "RESET" /\ r.at \in {"APPEND", "COMMIT"} =>
        \A s \in Rows :
            sessions[s].actor = r.actor /\ ~sessions[s].revoked /\ s \notin r.doomed =>
                sessions[s].by = "CHANGE"

LockInv ==
    /\ OneLock
    /\ \A q \in Requests : Working(q) => Compared(requests[q]) /\ Swept(requests[q])

\* A login that has counted will keep to what it counted.
Enforced(q) ==
    /\ Working(q)
    /\ \/ requests[q].at = "REVOKE"
       \/ requests[q].at = "COMMIT" /\ Inside(requests[q])

Live(s) == Valid(s, now) /\ ~sessions[s].revived

\* The sessions of an account if, of those that have counted, the requests F are
\* heard of next and finish their revocations.
Standing(a, F) ==
    {s \in Rows :
        /\ sessions[s].actor = a /\ Live(s)
        /\ sessions[s].issued \/ \E q \in F : Enforced(q) /\ requests[q].session = s
        /\ \A q \in F : Enforced(q) => s \notin requests[q].doomed}

LimitInv == \A a \in Actors, F \in SUBSET Requests : Cardinality(Standing(a, F)) <= Limit

\* A session under a replaced password that nothing excuses
Old(s) ==
    /\ Live(s)
    /\ sessions[s].password < passwords[sessions[s].actor]
    /\ ~(sessions[s].late /\ (sessions[s].actor = Owner => sessions[s].by = "CHANGE"))

\* Who replaced the password has yet to find or to revoke the session.
Hunts(q, s) ==
    /\ Working(q)
    /\ requests[q].actor = sessions[s].actor
    /\ \/ requests[q].at = "LIST"
       \/ requests[q].at = "REVOKE_ALL" /\ s \in requests[q].doomed
    /\ \/ requests[q].kind = "CHANGE"
       \/ requests[q].kind = "RESET" /\ sessions[s].by = "CHANGE"

Spared(s) ==
    \/ <<"CHANGE", sessions[s].actor>> \in spared
    \/ <<"RESET", sessions[s].actor>> \in spared /\ sessions[s].by = "CHANGE"

OldInv == \A s \in Rows : Old(s) => Spared(s) \/ \E q \in Requests : Hunts(q, s)

IInv == TypeInv /\ ChainInv /\ LockInv /\ LimitInv /\ OldInv

\* Free is at a place of its own.
LEMMA FreeIsAt == Free.at = "FREE"
  BY DEF Free

\* Who is at a place is at work.
LEMMA AtWork ==
    ASSUME NEW q \in Requests, requests[q].at \in Places
    PROVE  Working(q)
  BY FreeIsAt DEF Working, Places

\* No session looks like the absence of one.
LEMMA NoSessionType == NoSession \notin SessionType
  BY DEF NoSession, SessionType

\* The bound on what is started is a bound on sessions.
LEMMA BoundType == MaxStarts \in Nat /\ Idle \in Nat /\ Absolute \in Nat /\ Limit \in Nat \ {0}
  BY AccountsAssumption

\* A row's fields
LEMMA RowType ==
    ASSUME TypeInv, NEW s \in Rows
    PROVE  s \in SessionIds /\ s \in Nat \ {0} /\ sessions[s] \in SessionType
  BY BoundType DEF TypeInv, Rows, SessionIds

\* One request goes on, the others stay.
LEMMA Becomes ==
    ASSUME TypeInv, NEW q \in Requests, NEW r, Become(q, r)
    PROVE  /\ requests' \in [Requests -> {requests'[p] : p \in Requests}]
           /\ requests'[q] = r
           /\ \A p \in Requests : p # q => requests'[p] = requests[p]
<1> DEFINE S == {requests[p] : p \in Requests} \cup {r}
<1>1. requests \in [Requests -> S]
  BY DEF TypeInv
<1>2. requests' = [requests EXCEPT ![q] = r]
  BY DEF Become
<1>3. /\ requests' \in [Requests -> S]
      /\ requests'[q] = r
      /\ \A p \in Requests : p # q => requests'[p] = requests[p]
  BY <1>1, <1>2
<1> QED
  BY <1>3

\* A request with these fields
Is(r, at, kind, actor, password, connected, locked, snapshot, row, session, time, doomed) ==
    /\ Typed(r)
    /\ r.at = at /\ r.kind = kind /\ r.actor = actor /\ r.password = password
    /\ r.connected = connected /\ r.locked = locked /\ r.snapshot = snapshot
    /\ r.row = row /\ r.session = session /\ r.time = time /\ r.doomed = doomed

\* What an update of some fields leaves of a request.
LEMMA Gone ==
    ASSUME NEW r, Typed(r), NEW xAt \in Places,
           NEW t, t = [r EXCEPT !.at = xAt]
    PROVE  Is(t, xAt, r.kind, r.actor, r.password, r.connected, r.locked,
              r.snapshot, r.row, r.session, r.time, r.doomed)
  BY DEF Is, Typed, RequestType

LEMMA GoneSeen ==
    ASSUME NEW r, Typed(r), NEW xAt \in Places, NEW xSnapshot \in Nat,
           NEW t, t = [r EXCEPT !.at = xAt, !.snapshot = xSnapshot]
    PROVE  Is(t, xAt, r.kind, r.actor, r.password, r.connected, r.locked,
              xSnapshot, r.row, r.session, r.time, r.doomed)
  BY DEF Is, Typed, RequestType

LEMMA GoneIn ==
    ASSUME NEW r, Typed(r), NEW xConnected \in BOOLEAN, NEW xSnapshot \in Nat, NEW xAt \in Places,
           NEW t, t = [r EXCEPT !.connected = xConnected, !.snapshot = xSnapshot, !.at = xAt]
    PROVE  Is(t, xAt, r.kind, r.actor, r.password, xConnected, r.locked,
              xSnapshot, r.row, r.session, r.time, r.doomed)
  BY DEF Is, Typed, RequestType

LEMMA GoneLocked ==
    ASSUME NEW r, Typed(r), NEW xLocked \in BOOLEAN, NEW xAt \in Places, NEW xDoomed \in SUBSET SessionIds,
           NEW t, t = [r EXCEPT !.locked = xLocked, !.at = xAt, !.doomed = xDoomed]
    PROVE  Is(t, xAt, r.kind, r.actor, r.password, r.connected, xLocked,
              r.snapshot, r.row, r.session, r.time, xDoomed)
  BY DEF Is, Typed, RequestType

LEMMA GoneWith ==
    ASSUME NEW r, Typed(r), NEW xRow, NEW xTime \in Nat, NEW xAt \in Places,
           NEW t, t = [r EXCEPT !.row = xRow, !.time = xTime, !.at = xAt]
    PROVE  Is(t, xAt, r.kind, r.actor, r.password, r.connected, r.locked,
              r.snapshot, xRow, r.session, xTime, r.doomed)
  BY DEF Is, Typed, RequestType

LEMMA GoneDoomed ==
    ASSUME NEW r, Typed(r), NEW xDoomed \in SUBSET SessionIds, NEW xAt \in Places,
           NEW t, t = [r EXCEPT !.doomed = xDoomed, !.at = xAt]
    PROVE  Is(t, xAt, r.kind, r.actor, r.password, r.connected, r.locked,
              r.snapshot, r.row, r.session, r.time, xDoomed)
  BY DEF Is, Typed, RequestType

LEMMA GoneSession ==
    ASSUME NEW r, Typed(r), NEW xSession \in Nat, NEW xAt \in Places,
           NEW t, t = [r EXCEPT !.session = xSession, !.at = xAt]
    PROVE  Is(t, xAt, r.kind, r.actor, r.password, r.connected, r.locked,
              r.snapshot, r.row, xSession, r.time, r.doomed)
  BY DEF Is, Typed, RequestType

LEMMA GoneTime ==
    ASSUME NEW r, Typed(r), NEW xAt \in Places, NEW xTime \in Nat,
           NEW t, t = [r EXCEPT !.at = xAt, !.time = xTime]
    PROVE  Is(t, xAt, r.kind, r.actor, r.password, r.connected, r.locked,
              r.snapshot, r.row, r.session, xTime, r.doomed)
  BY DEF Is, Typed, RequestType

LEMMA GoneLess ==
    ASSUME NEW r, Typed(r), NEW xDoomed \in SUBSET SessionIds,
           NEW t, t = [r EXCEPT !.doomed = xDoomed]
    PROVE  Is(t, r.at, r.kind, r.actor, r.password, r.connected, r.locked,
              r.snapshot, r.row, r.session, r.time, xDoomed)
  BY DEF Is, Typed, RequestType

LEMMA GoneOn ==
    ASSUME NEW r, Typed(r), NEW xDoomed \in SUBSET SessionIds, NEW xConnected \in BOOLEAN,
           NEW xLocked \in BOOLEAN, NEW xRow, NEW xSnapshot \in Nat, NEW xTime \in Nat,
           NEW xPassword \in Nat, NEW xAt \in Places,
           NEW t, t = [r EXCEPT !.doomed = xDoomed, !.connected = xConnected, !.locked = xLocked,
                                !.row = xRow, !.snapshot = xSnapshot, !.time = xTime,
                                !.password = xPassword, !.at = xAt]
    PROVE  Is(t, xAt, r.kind, r.actor, xPassword, xConnected, xLocked, xSnapshot, xRow, r.session,
              xTime, xDoomed)
<1> DEFINE u == [r EXCEPT !.doomed = xDoomed, !.connected = xConnected, !.locked = xLocked]
           v == [u EXCEPT !.row = xRow, !.snapshot = xSnapshot, !.time = xTime]
<1>1. /\ Typed(u)
      /\ u.at = r.at /\ u.kind = r.kind /\ u.actor = r.actor /\ u.password = r.password
      /\ u.connected = xConnected /\ u.locked = xLocked /\ u.snapshot = r.snapshot
      /\ u.row = r.row /\ u.session = r.session /\ u.time = r.time /\ u.doomed = xDoomed
  BY DEF Typed, RequestType
<1>2. t = [v EXCEPT !.password = xPassword, !.at = xAt]
  OBVIOUS
<1> HIDE DEF u
<1>3. /\ Typed(v)
      /\ v.at = u.at /\ v.kind = u.kind /\ v.actor = u.actor /\ v.password = u.password
      /\ v.connected = u.connected /\ v.locked = u.locked /\ v.snapshot = xSnapshot
      /\ v.row = xRow /\ v.session = u.session /\ v.time = xTime /\ v.doomed = u.doomed
  BY <1>1 DEF Typed, RequestType
<1> HIDE DEF v
<1>4. /\ Typed(t)
      /\ t.at = xAt /\ t.kind = v.kind /\ t.actor = v.actor /\ t.password = xPassword
      /\ t.connected = v.connected /\ t.locked = v.locked /\ t.snapshot = v.snapshot
      /\ t.row = v.row /\ t.session = v.session /\ t.time = v.time /\ t.doomed = v.doomed
  BY <1>2, <1>3 DEF Typed, RequestType
<1> QED
  BY <1>1, <1>3, <1>4 DEF Is

LEMMA Begun ==
    ASSUME TypeInv, NEW kind \in Kinds, NEW actor \in Actors, NEW xAt \in Places, NEW s \in Nat,
           NEW t, t = Request(kind, actor, xAt, s)
    PROVE  Is(t, xAt, kind, actor, passwords[actor], FALSE, FALSE, 0, <<>>, s, 0, {})
<1>1. passwords[actor] \in Nat
  BY DEF TypeInv
<1> QED
  BY <1>1 DEF Request, Is, Typed, RequestType

-----------------------------------------------------------------------------
(* What each step makes of its request *)

\* The other requests stay.
OthersStay(q) == \A p \in Requests : p # q => requests'[p] = requests[p]

BecomesOneOf(q) ==
    /\ requests' \in [Requests -> {requests'[p] : p \in Requests}]
    /\ OthersStay(q)

\* A request that is at a place is one.
LEMMA Placing ==
    ASSUME TypeInv, NEW q \in Requests, requests[q].at \in Places
    PROVE  Working(q) /\ Typed(requests[q]) /\ Placed(requests[q]) /\ Related(requests[q])
  BY AtWork DEF TypeInv, RequestInv

LEMMA EndMoves ==
    ASSUME TypeInv, NEW q \in Requests, End(q)
    PROVE  BecomesOneOf(q) /\ requests'[q] = Free
  BY Becomes DEF End, BecomesOneOf, OthersStay

LEMMA BeginAccessMoves ==
    ASSUME TypeInv, NEW q \in Requests, NEW a \in Actors, NEW kind \in {"LOGIN", "RESET"},
           BeginAccess(q, a, kind)
    PROVE  /\ BecomesOneOf(q)
           /\ kind = "RESET" => a = Owner
           /\ Is(requests'[q], "CONNECT", kind, a, passwords[a], FALSE, FALSE, 0, <<>>, NoId, 0, {})
<1>1. Become(q, Request(kind, a, "CONNECT", NoId)) /\ (kind = "RESET" => a = Owner)
  BY DEF BeginAccess
<1>2. Is(Request(kind, a, "CONNECT", NoId),
         "CONNECT", kind, a, passwords[a], FALSE, FALSE, 0, <<>>, NoId, 0, {})
  BY Begun DEF Kinds, Places, NoId
<1> QED
  BY <1>1, <1>2, Becomes DEF BecomesOneOf, OthersStay

LEMMA FindSessionMoves ==
    ASSUME TypeInv, NEW q \in Requests, NEW s \in SessionIds,
           NEW kind \in {"USE", "LOGOUT", "CHANGE"}, FindSession(q, s, kind)
    PROVE  /\ BecomesOneOf(q)
           /\ s \in Rows
           /\ Is(requests'[q], "TOUCH", kind, sessions[s].actor, passwords[sessions[s].actor],
                 FALSE, FALSE, 0, <<>>, s, 0, {})
<1>1. Become(q, Request(kind, sessions[s].actor, "TOUCH", s)) /\ s \in Rows
  BY DEF FindSession, Valid, Rows
<1>2. sessions[s].actor \in Actors /\ s \in Nat
  BY <1>1, RowType DEF SessionType
<1>3. Is(Request(kind, sessions[s].actor, "TOUCH", s),
         "TOUCH", kind, sessions[s].actor, passwords[sessions[s].actor],
         FALSE, FALSE, 0, <<>>, s, 0, {})
  BY <1>2, Begun DEF Kinds, Places
<1> QED
  BY <1>1, <1>3, Becomes DEF BecomesOneOf, OthersStay

LEMMA TouchMoves ==
    ASSUME TypeInv, IsChain(events), NEW q \in Requests, NEW r, r = requests[q], Touch(q)
    PROVE  /\ BecomesOneOf(q) /\ Typed(r) /\ Placed(r) /\ Related(r) /\ Working(q)
           /\ r.at \in {"TOUCH", "TOUCH_AGAIN"}
           /\ \/ /\ r.at = "TOUCH_AGAIN"
                 /\ Is(requests'[q], "LOCK", r.kind, r.actor, r.password, r.connected, r.locked,
                       Len(events), r.row, r.session, r.time, r.doomed)
              \/ requests'[q] = Free
              \/ /\ r.at = "TOUCH" /\ r.kind = "LOGOUT"
                 /\ Is(requests'[q], "LOGOUT", r.kind, r.actor, r.password, r.connected, r.locked,
                       r.snapshot, r.row, r.session, r.time, r.doomed)
              \/ /\ r.at = "TOUCH" /\ r.kind = "CHANGE"
                 /\ Is(requests'[q], "CONNECT", r.kind, r.actor, r.password, r.connected, r.locked,
                       r.snapshot, r.row, r.session, r.time, r.doomed)
<1>1. r.at \in {"TOUCH", "TOUCH_AGAIN"} /\ Typed(r) /\ Placed(r) /\ Related(r) /\ Working(q)
  BY Placing DEF Touch, Places
<1>2. Len(events) \in Nat
  BY ChainLength
<1>3. CASE r.at = "TOUCH_AGAIN"
  <2>1. Become(q, [r EXCEPT !.at = "LOCK", !.snapshot = Len(events)])
    BY <1>3 DEF Touch
  <2> QED
    BY <1>1, <1>2, <1>3, <2>1, Becomes, GoneSeen DEF BecomesOneOf, OthersStay, Places
<1>4. CASE r.at = "TOUCH"
  <2>1. CASE End(q)
    BY <1>1, <2>1, EndMoves
  <2>2. CASE r.kind = "LOGOUT" /\ Become(q, [r EXCEPT !.at = "LOGOUT"])
    BY <1>1, <1>4, <2>2, Becomes, Gone DEF BecomesOneOf, OthersStay, Places
  <2>3. CASE r.kind = "CHANGE" /\ Become(q, [r EXCEPT !.at = "CONNECT"])
    BY <1>1, <1>4, <2>3, Becomes, Gone DEF BecomesOneOf, OthersStay, Places
  <2> QED
    BY <1>4, <2>1, <2>2, <2>3 DEF Touch, Goto
<1> QED
  BY <1>1, <1>3, <1>4

LEMMA LogoutMoves ==
    ASSUME TypeInv, NEW q \in Requests, NEW r, r = requests[q], Logout(q)
    PROVE  /\ BecomesOneOf(q) /\ Typed(r) /\ Placed(r) /\ Related(r) /\ Working(q)
           /\ r.at = "LOGOUT" /\ requests'[q] = Free
  BY Placing, EndMoves DEF Logout, Places

LEMMA ConnectMoves ==
    ASSUME TypeInv, IsChain(events), NEW q \in Requests, NEW r, r = requests[q], Connect(q)
    PROVE  /\ BecomesOneOf(q) /\ Typed(r) /\ Placed(r) /\ Related(r) /\ Working(q)
           /\ r.at = "CONNECT"
           /\ \E at \in {"FIND_AGAIN", "LOCK"}, n \in 0..Len(events) :
                  /\ at = "FIND_AGAIN" => r.kind = "CHANGE"
                  /\ Is(requests'[q], at, r.kind, r.actor, r.password, TRUE, r.locked,
                        n, r.row, r.session, r.time, r.doomed)
<1> DEFINE at == IF r.kind = "CHANGE" /\ r.actor # Owner THEN "FIND_AGAIN" ELSE "LOCK"
           n == IF Serializable(r) THEN Len(events) ELSE 0
<1>1. r.at = "CONNECT" /\ Typed(r) /\ Placed(r) /\ Related(r) /\ Working(q)
  BY Placing DEF Connect, Places
<1>2. Len(events) \in Nat
  BY ChainLength
<1>3. n \in 0..Len(events) /\ n \in Nat
  BY <1>2
<1>4. at \in {"FIND_AGAIN", "LOCK"} /\ at \in Places /\ (at = "FIND_AGAIN" => r.kind = "CHANGE")
  BY DEF Places
<1>5. Become(q, [r EXCEPT !.connected = TRUE, !.snapshot = n, !.at = at])
  BY DEF Connect
<1> HIDE DEF at, n
<1>6. Is([r EXCEPT !.connected = TRUE, !.snapshot = n, !.at = at],
         at, r.kind, r.actor, r.password, TRUE, r.locked, n, r.row, r.session, r.time, r.doomed)
  BY <1>1, <1>3, <1>4, GoneIn
<1> QED
  BY <1>1, <1>3, <1>4, <1>5, <1>6, Becomes DEF BecomesOneOf, OthersStay

LEMMA FindAgainMoves ==
    ASSUME TypeInv, NEW q \in Requests, NEW r, r = requests[q], FindAgain(q)
    PROVE  /\ BecomesOneOf(q) /\ Typed(r) /\ Placed(r) /\ Related(r) /\ Working(q)
           /\ r.at = "FIND_AGAIN"
           /\ \/ requests'[q] = Free
              \/ /\ r.session \in Rows
                 /\ Is(requests'[q], "TOUCH_AGAIN", r.kind, r.actor, r.password, r.connected,
                       r.locked, r.snapshot, r.row, r.session, r.time, r.doomed)
<1>1. r.at = "FIND_AGAIN" /\ Typed(r) /\ Placed(r) /\ Related(r) /\ Working(q)
  BY Placing DEF FindAgain, Places
<1>2. CASE End(q)
  BY <1>1, <1>2, EndMoves
<1>3. CASE r.session \in Rows /\ Become(q, [r EXCEPT !.at = "TOUCH_AGAIN"])
  BY <1>1, <1>3, Becomes, Gone DEF BecomesOneOf, OthersStay, Places
<1>4. r.session \in Rows
  BY <1>1 DEF Related
<1> QED
  BY <1>2, <1>3, <1>4 DEF FindAgain, Goto

LEMMA LockMoves ==
    ASSUME TypeInv, NEW q \in Requests, NEW r, r = requests[q], Lock(q)
    PROVE  /\ BecomesOneOf(q) /\ Typed(r) /\ Placed(r) /\ Related(r) /\ Working(q)
           /\ r.at = "LOCK" /\ ~Locked(r.actor)
           /\ \/ requests'[q] = Free
              \/ /\ r.kind = "RESET" \/ r.password = passwords[r.actor]
                 /\ Is(requests'[q], "APPEND", r.kind, r.actor, r.password, r.connected, TRUE,
                       r.snapshot, r.row, r.session, r.time, Revocable(r))
<1>1. r.at = "LOCK" /\ Typed(r) /\ Placed(r) /\ Related(r) /\ Working(q) /\ ~Locked(r.actor)
  BY Placing DEF Lock, Places
<1>2. CASE End(q)
  BY <1>1, <1>2, EndMoves
<1>3. CASE /\ r.kind = "RESET" \/ r.password = passwords[r.actor]
           /\ Become(q, [r EXCEPT !.locked = TRUE, !.at = "APPEND", !.doomed = Revocable(r)])
  <2>1. Revocable(r) \in SUBSET SessionIds
    BY DEF Revocable, Rows
  <2>2. Is([r EXCEPT !.locked = TRUE, !.at = "APPEND", !.doomed = Revocable(r)],
           "APPEND", r.kind, r.actor, r.password, r.connected, TRUE,
           r.snapshot, r.row, r.session, r.time, Revocable(r))
    BY <1>1, <2>1, GoneLocked DEF Places
  <2> QED
    BY <1>1, <1>3, <2>2, Becomes DEF BecomesOneOf, OthersStay
<1> QED
  BY <1>2, <1>3 DEF Lock

LEMMA AppendEventMoves ==
    ASSUME TypeInv, NEW q \in Requests, NEW r, r = requests[q], AppendEvent(q)
    PROVE  /\ BecomesOneOf(q) /\ Typed(r) /\ Placed(r) /\ Related(r) /\ Working(q)
           /\ r.at = "APPEND" /\ ~ChainLocked /\ drawn' = drawn + 1
           /\ Is(requests'[q], IF Inside(r) THEN "INSERT" ELSE "COMMIT", r.kind, r.actor, r.password,
                 r.connected, r.locked, r.snapshot,
                 <<Row(drawn + 1, Serializable(r), Visible(r))>>, r.session, now, r.doomed)
<1> DEFINE at == IF Inside(r) THEN "INSERT" ELSE "COMMIT"
           row == <<Row(drawn + 1, Serializable(r), Visible(r))>>
<1>1. r.at = "APPEND" /\ Typed(r) /\ Placed(r) /\ Related(r) /\ Working(q)
      /\ ~ChainLocked /\ drawn' = drawn + 1
  BY Placing DEF AppendEvent, Places
<1>2. at \in Places /\ now \in Nat
  BY DEF Places, TypeInv
<1>3. Become(q, [r EXCEPT !.row = row, !.time = now, !.at = at])
  BY DEF AppendEvent, Inside
<1> HIDE DEF at, row
<1>4. Is([r EXCEPT !.row = row, !.time = now, !.at = at],
         at, r.kind, r.actor, r.password, r.connected, r.locked, r.snapshot,
         row, r.session, now, r.doomed)
  BY <1>1, <1>2, GoneWith
<1> QED
  BY <1>1, <1>3, <1>4, Becomes DEF BecomesOneOf, OthersStay, at, row

LEMMA CommitMoves ==
    ASSUME TypeInv, NEW q \in Requests, NEW r, r = requests[q], Commit(q)
    PROVE  /\ BecomesOneOf(q) /\ Typed(r) /\ Placed(r) /\ Related(r) /\ Working(q)
           /\ r.at = "COMMIT" /\ ~Conflicts(r) /\ events' = events \o r.row
           /\ IF Inside(r)
              THEN /\ requests'[q] = Free
                   /\ passwords' = passwords
                   /\ sessions' = [sessions EXCEPT ![r.session].issued = TRUE]
              ELSE /\ passwords' = IF Replaces(r) THEN [passwords EXCEPT ![r.actor] = @ + 1] ELSE passwords
                   /\ sessions' = [s \in SessionIds |->
                          IF s \in r.doomed THEN [sessions[s] EXCEPT !.revoked = TRUE] ELSE sessions[s]]
                   /\ Is(requests'[q], IF Replaces(r) THEN "LIST" ELSE "INSERT", r.kind, r.actor,
                         passwords'[r.actor], FALSE, FALSE, 0, <<>>, r.session, now, {})
<1> DEFINE at == IF Replaces(r) THEN "LIST" ELSE "INSERT"
<1>1. /\ r.at = "COMMIT" /\ Typed(r) /\ Placed(r) /\ Related(r) /\ Working(q)
      /\ ~Conflicts(r) /\ events' = events \o r.row
  BY Placing DEF Commit, Places
<1>2. Inside(r) <=> r.session # NoId /\ ~Replaces(r)
  BY <1>1 DEF Placed, Inside, Replaces
<1>3. passwords' = IF Replaces(r) THEN [passwords EXCEPT ![r.actor] = @ + 1] ELSE passwords
  BY DEF Commit
<1>4. CASE Inside(r)
  <2>1. End(q) /\ sessions' = [sessions EXCEPT ![r.session].issued = TRUE]
    BY <1>2, <1>4 DEF Commit
  <2>2. ~Replaces(r)
    BY <1>2, <1>4
  <2> QED
    BY <1>1, <1>3, <1>4, <2>1, <2>2, EndMoves
<1>5. CASE ~Inside(r)
  <2>1. /\ sessions' = [s \in SessionIds |->
               IF s \in r.doomed THEN [sessions[s] EXCEPT !.revoked = TRUE] ELSE sessions[s]]
        /\ Become(q, [r EXCEPT !.doomed = {}, !.connected = FALSE, !.locked = FALSE, !.row = <<>>, !.snapshot = 0,
                               !.time = now, !.password = passwords'[r.actor], !.at = at])
    BY <1>2, <1>5 DEF Commit
  <2>2. at \in Places /\ now \in Nat
    BY DEF Places, TypeInv
  <2>3. passwords'[r.actor] \in Nat
    <3>1. r.actor \in Actors /\ passwords \in [Actors -> Nat]
      BY <1>1 DEF Typed, RequestType, TypeInv
    <3> QED
      BY <1>3, <3>1
  <2> HIDE DEF at
  <2>4. Is([r EXCEPT !.doomed = {}, !.connected = FALSE, !.locked = FALSE, !.row = <<>>, !.snapshot = 0,
                     !.time = now, !.password = passwords'[r.actor], !.at = at],
           at, r.kind, r.actor, passwords'[r.actor], FALSE, FALSE, 0, <<>>, r.session, now, {})
    <3>1. {} \in SUBSET SessionIds /\ FALSE \in BOOLEAN /\ 0 \in Nat
      OBVIOUS
    <3> QED
      BY <1>1, <2>2, <2>3, <3>1, GoneOn
  <2> QED
    BY <1>1, <1>3, <1>5, <2>1, <2>4, Becomes DEF BecomesOneOf, OthersStay, at
<1> QED
  BY <1>4, <1>5

LEMMA RefuseMoves ==
    ASSUME TypeInv, NEW q \in Requests, NEW r, r = requests[q], Refuse(q)
    PROVE  /\ BecomesOneOf(q) /\ Typed(r) /\ Placed(r) /\ Related(r) /\ Working(q)
           /\ r.at = "COMMIT" /\ requests'[q] = Free
  BY Placing, EndMoves DEF Refuse, Places

LEMMA ListAllMoves ==
    ASSUME TypeInv, NEW q \in Requests, NEW r, r = requests[q], ListAll(q)
    PROVE  /\ BecomesOneOf(q) /\ Typed(r) /\ Placed(r) /\ Related(r) /\ Working(q)
           /\ r.at = "LIST"
           /\ Is(requests'[q], "REVOKE_ALL", r.kind, r.actor, r.password, r.connected, r.locked,
                 r.snapshot, r.row, r.session, r.time, ListActive(r.actor, now))
<1>1. r.at = "LIST" /\ Typed(r) /\ Placed(r) /\ Related(r) /\ Working(q)
  BY Placing DEF ListAll, Places
<1>2. ListActive(r.actor, now) \in SUBSET SessionIds /\ "REVOKE_ALL" \in Places
  BY DEF ListActive, Rows, Places
<1>3. Become(q, [r EXCEPT !.doomed = ListActive(r.actor, now), !.at = "REVOKE_ALL"])
  BY DEF ListAll
<1>4. Is([r EXCEPT !.doomed = ListActive(r.actor, now), !.at = "REVOKE_ALL"],
         "REVOKE_ALL", r.kind, r.actor, r.password, r.connected, r.locked,
         r.snapshot, r.row, r.session, r.time, ListActive(r.actor, now))
  BY <1>1, <1>2, GoneDoomed
<1> QED
  BY <1>1, <1>3, <1>4, Becomes DEF BecomesOneOf, OthersStay

LEMMA InsertSessionMoves ==
    ASSUME TypeInv, NEW q \in Requests, NEW r, r = requests[q], InsertSession(q)
    PROVE  /\ BecomesOneOf(q) /\ Typed(r) /\ Placed(r) /\ Related(r) /\ Working(q)
           /\ r.at = "INSERT"
           /\ \E n \in 0..MaxStarts :
                  /\ Rows = 1..n
                  /\ sessions' = [sessions EXCEPT ![n + 1] = NewSession(r)]
                  /\ Is(requests'[q], "ENFORCE", r.kind, r.actor, r.password, r.connected, r.locked,
                        r.snapshot, r.row, n + 1, r.time, r.doomed)
<1>1. r.at = "INSERT" /\ Typed(r) /\ Placed(r) /\ Related(r) /\ Working(q)
  BY Placing DEF InsertSession, Places
<1>2. PICK n \in 0..MaxStarts : Rows = 1..n
  BY DEF TypeInv
<1>3. n \in Nat /\ Cardinality(Rows) = n
  BY <1>2, BoundType, FS_Interval
<1>4. /\ sessions' = [sessions EXCEPT ![n + 1] = NewSession(r)]
      /\ Become(q, [r EXCEPT !.session = n + 1, !.at = "ENFORCE"])
  BY <1>3 DEF InsertSession
<1>5. Is([r EXCEPT !.session = n + 1, !.at = "ENFORCE"],
         "ENFORCE", r.kind, r.actor, r.password, r.connected, r.locked,
         r.snapshot, r.row, n + 1, r.time, r.doomed)
  <2>1. n + 1 \in Nat /\ "ENFORCE" \in Places
    BY <1>3 DEF Places
  <2> QED
    BY <1>1, <2>1, GoneSession
<1> QED
  BY <1>1, <1>2, <1>4, <1>5, Becomes DEF BecomesOneOf, OthersStay

LEMMA EnforceLimitMoves ==
    ASSUME TypeInv, NEW q \in Requests, NEW r, r = requests[q], EnforceLimit(q)
    PROVE  /\ BecomesOneOf(q) /\ Typed(r) /\ Placed(r) /\ Related(r) /\ Working(q)
           /\ r.at = "ENFORCE"
           /\ Is(requests'[q], "REVOKE", r.kind, r.actor, r.password, r.connected, r.locked,
                 r.snapshot, r.row, r.session, r.time, Excess(r.actor, r.time))
<1>1. r.at = "ENFORCE" /\ Typed(r) /\ Placed(r) /\ Related(r) /\ Working(q)
  BY Placing DEF EnforceLimit, Places
<1>2. Excess(r.actor, r.time) \in SUBSET SessionIds /\ "REVOKE" \in Places
  BY DEF Excess, ListActive, Rows, Places
<1>3. Become(q, [r EXCEPT !.doomed = Excess(r.actor, r.time), !.at = "REVOKE"])
  BY DEF EnforceLimit
<1>4. Is([r EXCEPT !.doomed = Excess(r.actor, r.time), !.at = "REVOKE"],
         "REVOKE", r.kind, r.actor, r.password, r.connected, r.locked,
         r.snapshot, r.row, r.session, r.time, Excess(r.actor, r.time))
  BY <1>1, <1>2, GoneDoomed
<1> QED
  BY <1>1, <1>3, <1>4, Becomes DEF BecomesOneOf, OthersStay

LEMMA RevokeOneMoves ==
    ASSUME TypeInv, NEW q \in Requests, NEW r, r = requests[q], RevokeOne(q)
    PROVE  /\ BecomesOneOf(q) /\ Typed(r) /\ Placed(r) /\ Related(r) /\ Working(q)
           /\ r.at \in {"REVOKE", "REVOKE_ALL"}
           /\ \E s \in r.doomed :
                  /\ sessions' = [sessions EXCEPT ![s].revoked = TRUE]
                  /\ Is(requests'[q], r.at, r.kind, r.actor, r.password, r.connected, r.locked,
                        r.snapshot, r.row, r.session, r.time, r.doomed \ {s})
<1>1. r.at \in {"REVOKE", "REVOKE_ALL"} /\ Typed(r) /\ Placed(r) /\ Related(r) /\ Working(q)
  BY Placing DEF RevokeOne, Places
<1>2. PICK s \in r.doomed : /\ sessions' = [sessions EXCEPT ![s].revoked = TRUE]
                            /\ Become(q, [r EXCEPT !.doomed = @ \ {s}])
  BY DEF RevokeOne
<1>3. r.doomed \ {s} \in SUBSET SessionIds
  BY <1>1 DEF Typed, RequestType
<1>4. Is([r EXCEPT !.doomed = r.doomed \ {s}],
         r.at, r.kind, r.actor, r.password, r.connected, r.locked,
         r.snapshot, r.row, r.session, r.time, r.doomed \ {s})
  BY <1>1, <1>3, GoneLess
<1> QED
  BY <1>1, <1>2, <1>4, Becomes DEF BecomesOneOf, OthersStay

LEMMA RevokedMoves ==
    ASSUME TypeInv, NEW q \in Requests, NEW r, r = requests[q], Revoked(q)
    PROVE  /\ BecomesOneOf(q) /\ Typed(r) /\ Placed(r) /\ Related(r) /\ Working(q)
           /\ r.doomed = {}
           /\ \/ r.at = "REVOKE_ALL" /\ sessions' = sessions /\ requests'[q] = Free
              \/ /\ r.at = "REVOKE_ALL" /\ r.kind = "CHANGE" /\ sessions' = sessions
                 /\ Is(requests'[q], "INSERT", r.kind, r.actor, r.password, r.connected, r.locked,
                       r.snapshot, r.row, r.session, now, r.doomed)
              \/ /\ r.at = "REVOKE" /\ Inside(r) /\ sessions' = sessions
                 /\ Is(requests'[q], "COMMIT", r.kind, r.actor, r.password, r.connected, r.locked,
                       r.snapshot, r.row, r.session, r.time, r.doomed)
              \/ /\ r.at = "REVOKE" /\ ~Inside(r) /\ requests'[q] = Free
                 /\ sessions' = [sessions EXCEPT ![r.session].issued = TRUE]
<1>1. /\ r.at \in {"REVOKE", "REVOKE_ALL"} /\ Typed(r) /\ Placed(r) /\ Related(r) /\ Working(q)
      /\ r.doomed = {}
  BY Placing DEF Revoked, Places
<1>2. now \in Nat
  BY DEF TypeInv
<1>3. CASE r.at = "REVOKE_ALL" /\ r.kind = "CHANGE"
  <2>1. sessions' = sessions /\ Become(q, [r EXCEPT !.at = "INSERT", !.time = now])
    BY <1>3 DEF Revoked
  <2> QED
    BY <1>1, <1>2, <1>3, <2>1, Becomes, GoneTime DEF BecomesOneOf, OthersStay, Places
<1>4. CASE r.at = "REVOKE_ALL" /\ r.kind # "CHANGE"
  BY <1>1, <1>4, EndMoves DEF Revoked
<1>5. CASE r.at = "REVOKE" /\ r.connected
  <2>1. sessions' = sessions /\ Become(q, [r EXCEPT !.at = "COMMIT"])
    BY <1>5 DEF Revoked, Goto
  <2>2. Inside(r)
    BY <1>1, <1>5 DEF Placed
  <2> QED
    BY <1>1, <1>5, <2>1, <2>2, Becomes, Gone DEF BecomesOneOf, OthersStay, Places
<1>6. CASE r.at = "REVOKE" /\ ~r.connected
  <2>1. ~Inside(r)
    BY <1>1, <1>6 DEF Placed
  <2>2. End(q) /\ sessions' = [sessions EXCEPT ![r.session].issued = TRUE]
    BY <1>6 DEF Revoked
  <2> QED
    BY <1>1, <1>6, <2>1, <2>2, EndMoves
<1>7. r.connected \in BOOLEAN
  BY <1>1 DEF Typed, RequestType
<1> QED
  BY <1>1, <1>3, <1>4, <1>5, <1>6, <1>7

LEMMA FailMoves ==
    ASSUME TypeInv, NEW q \in Requests, Fail(q)
    PROVE  /\ BecomesOneOf(q) /\ Working(q) /\ requests'[q] = Free
           /\ Typed(requests[q]) /\ Placed(requests[q]) /\ Related(requests[q])
  BY EndMoves DEF Fail, Working, TypeInv, RequestInv

-----------------------------------------------------------------------------
(* What each step makes of the session rows *)

\* A row stays one of the same login, and comes to life no more.
Endures(s) ==
    /\ s \in Rows' /\ sessions'[s] \in SessionType
    /\ sessions'[s].actor = sessions[s].actor /\ sessions'[s].password = sessions[s].password
    /\ sessions'[s].by = sessions[s].by /\ sessions'[s].late = sessions[s].late
    /\ sessions[s].revoked => sessions'[s].revoked
    /\ Live(s)' => Live(s)

Grown ==
    /\ now' \in Nat /\ now <= now'
    /\ sessions' \in [SessionIds -> SessionType \cup {NoSession}]
    /\ \A s \in Rows : Endures(s)

Lasting == Grown /\ Rows' = Rows

\* Tokens are answered for this session at most.
IssuesOnly(s) == \A t \in Rows : sessions'[t].issued => sessions[t].issued \/ t = s

LEMMA RowsStay ==
    ASSUME TypeInv, UNCHANGED <<now, sessions>>
    PROVE  Lasting /\ \A s : IssuesOnly(s)
<1>1. Rows' = Rows /\ \A s \in Rows : Live(s)' = Live(s)
  BY DEF Rows, Live, Valid
<1> QED
  BY <1>1, RowType DEF Lasting, Grown, Endures, IssuesOnly, TypeInv

LEMMA RowsAge ==
    ASSUME TypeInv, Tick
    PROVE  Lasting /\ \A s : IssuesOnly(s)
<1>1. now \in Nat /\ now' = now + 1 /\ sessions' = sessions
  BY DEF TypeInv, Tick
<1>2. Rows' = Rows
  BY <1>1 DEF Rows
<1>3. ASSUME NEW s \in Rows, Live(s)'
      PROVE  Live(s)
  <2>1. sessions[s].idleExpiresAt \in Nat /\ sessions[s].absoluteExpiresAt \in Nat
    BY RowType DEF SessionType
  <2> QED
    BY <1>1, <1>3, <2>1 DEF Live, Valid
<1> QED
  BY <1>1, <1>2, <1>3, RowType DEF Lasting, Grown, Endures, IssuesOnly, TypeInv

\* One row is replaced by another one of the same login.
LEMMA RowsReplaced ==
    ASSUME TypeInv, UNCHANGED now, NEW s \in Rows, NEW t \in SessionType,
           t.actor = sessions[s].actor, t.password = sessions[s].password,
           t.by = sessions[s].by, t.late = sessions[s].late,
           sessions[s].revoked => t.revoked,
           sessions' = [sessions EXCEPT ![s] = t],
           ~t.revoked /\ now < t.idleExpiresAt /\ now < t.absoluteExpiresAt /\ ~t.revived => Live(s)
    PROVE  Lasting /\ (t.issued = sessions[s].issued => \A u : IssuesOnly(u)) /\ IssuesOnly(s)
<1>1. /\ sessions \in [SessionIds -> SessionType \cup {NoSession}]
      /\ s \in SessionIds /\ s \in Rows /\ sessions[s] \in SessionType
      /\ now \in Nat
  BY RowType DEF TypeInv
<1>2. /\ sessions' \in [SessionIds -> SessionType \cup {NoSession}]
      /\ sessions'[s] = t
      /\ \A u \in SessionIds : u # s => sessions'[u] = sessions[u]
  BY <1>1
<1>3. t # NoSession
  BY NoSessionType
<1>4. Rows' = Rows
  BY <1>1, <1>2, <1>3 DEF Rows
<1>5. ASSUME NEW u \in Rows
      PROVE  Endures(u) /\ (t.issued = sessions[s].issued => sessions'[u].issued = sessions[u].issued)
                        /\ (u # s => sessions'[u].issued = sessions[u].issued)
  <2>1. u \in SessionIds /\ sessions[u] \in SessionType
    BY RowType
  <2>2. CASE u = s
    <3>1. Live(u)' => Live(u)
      BY <1>2, <2>2 DEF Live, Valid
    <3> QED
      BY <1>2, <1>4, <2>2, <3>1 DEF Endures
  <2>3. CASE u # s
    <3>1. Live(u)' => Live(u)
      BY <1>2, <2>1, <2>3 DEF Live, Valid
    <3> QED
      BY <1>2, <1>4, <2>1, <2>3, <3>1 DEF Endures
  <2> QED
    BY <2>2, <2>3
<1>6. Lasting
  BY <1>1, <1>2, <1>4, <1>5 DEF Lasting, Grown
<1> QED
  BY <1>5, <1>6 DEF IssuesOnly

LEMMA RowsTouched ==
    ASSUME TypeInv, UNCHANGED now, NEW s \in Rows,
           sessions' = [sessions EXCEPT
               ![s].idleExpiresAt = MinOf(now + Idle, sessions[s].absoluteExpiresAt),
               ![s].revived = @ \/ now >= sessions[s].idleExpiresAt]
    PROVE  Lasting /\ \A u : IssuesOnly(u)
<1> DEFINE old == sessions[s]
           idle == MinOf(now + Idle, old.absoluteExpiresAt)
           revived == old.revived \/ now >= old.idleExpiresAt
           t == [old EXCEPT !.idleExpiresAt = idle, !.revived = revived]
<1>1. old \in SessionType /\ s \in SessionIds /\ now \in Nat
  BY RowType DEF TypeInv
<1>2. idle \in Nat /\ revived \in BOOLEAN
  <2>1. old.absoluteExpiresAt \in Nat /\ now + Idle \in Nat
    BY <1>1, BoundType DEF SessionType
  <2> QED
    BY <2>1 DEF MinOf
<1>3. sessions \in [SessionIds -> SessionType \cup {NoSession}]
  BY DEF TypeInv
<1>4. sessions' = [sessions EXCEPT ![s] = t]
  BY <1>1, <1>3
<1> HIDE DEF idle
<1>5. /\ t \in SessionType
      /\ t.actor = old.actor /\ t.password = old.password /\ t.by = old.by /\ t.late = old.late
      /\ t.revoked = old.revoked /\ t.absoluteExpiresAt = old.absoluteExpiresAt
      /\ t.issued = old.issued /\ t.revived = revived
  <2> HIDE DEF revived
  <2> QED
    BY <1>1, <1>2 DEF SessionType
<1>6. ~t.revoked /\ now < t.absoluteExpiresAt /\ ~t.revived => Live(s)
  <2>1. old # NoSession /\ old.idleExpiresAt \in Nat /\ old.revived \in BOOLEAN
    BY <1>1, NoSessionType DEF SessionType
  <2>2. ~revived => ~old.revived /\ now < old.idleExpiresAt
    BY <1>1, <2>1
  <2> HIDE DEF t, revived
  <2> QED
    BY <1>5, <2>1, <2>2 DEF Live, Valid
<1> HIDE DEF t, revived
<1> QED
  BY <1>4, <1>5, <1>6, RowsReplaced

LEMMA RowsRevoked ==
    ASSUME TypeInv, UNCHANGED now, NEW s \in Rows,
           sessions' = [sessions EXCEPT ![s].revoked = TRUE]
    PROVE  /\ Lasting /\ \A u : IssuesOnly(u)
           /\ sessions'[s].revoked
<1> DEFINE t == [sessions[s] EXCEPT !.revoked = TRUE]
<1>1. sessions[s] \in SessionType /\ s \in SessionIds
  BY RowType
<1>2. sessions \in [SessionIds -> SessionType \cup {NoSession}]
  BY DEF TypeInv
<1>3. sessions' = [sessions EXCEPT ![s] = t]
  BY <1>1, <1>2
<1>4. /\ t \in SessionType
      /\ t.actor = sessions[s].actor /\ t.password = sessions[s].password
      /\ t.by = sessions[s].by /\ t.late = sessions[s].late
      /\ t.revoked /\ t.issued = sessions[s].issued
  BY <1>1 DEF SessionType
<1> HIDE DEF t
<1> QED
  BY <1>1, <1>2, <1>3, <1>4, RowsReplaced

LEMMA RowsIssued ==
    ASSUME TypeInv, UNCHANGED now, NEW s, s \in Rows \/ s \notin SessionIds,
           sessions' = [sessions EXCEPT ![s].issued = TRUE]
    PROVE  Lasting /\ IssuesOnly(s)
<1> DEFINE t == [sessions[s] EXCEPT !.issued = TRUE]
<1>1. sessions \in [SessionIds -> SessionType \cup {NoSession}]
  BY DEF TypeInv
<1>2. CASE s \notin SessionIds
  <2>1. sessions' = sessions
    BY <1>1, <1>2
  <2> QED
    BY <2>1, RowsStay
<1>3. CASE s \in Rows
  <2>1. sessions[s] \in SessionType /\ s \in SessionIds
    BY <1>3, RowType
  <2>2. sessions' = [sessions EXCEPT ![s] = t]
    BY <1>1, <2>1
  <2>3. /\ t \in SessionType
        /\ t.actor = sessions[s].actor /\ t.password = sessions[s].password
        /\ t.by = sessions[s].by /\ t.late = sessions[s].late
        /\ t.revoked = sessions[s].revoked /\ t.idleExpiresAt = sessions[s].idleExpiresAt
        /\ t.absoluteExpiresAt = sessions[s].absoluteExpiresAt /\ t.revived = sessions[s].revived
    BY <2>1 DEF SessionType
  <2>4. sessions[s] # NoSession
    BY <2>1, NoSessionType
  <2> HIDE DEF t
  <2>5. ~t.revoked /\ now < t.idleExpiresAt /\ now < t.absoluteExpiresAt /\ ~t.revived => Live(s)
    BY <2>3, <2>4 DEF Live, Valid
  <2> QED
    BY <1>3, <2>2, <2>3, <2>5, RowsReplaced
<1> QED
  BY <1>2, <1>3

LEMMA RowsSwept ==
    ASSUME TypeInv, UNCHANGED now, NEW D \in SUBSET Rows,
           sessions' = [s \in SessionIds |->
               IF s \in D THEN [sessions[s] EXCEPT !.revoked = TRUE] ELSE sessions[s]]
    PROVE  /\ Lasting /\ \A u : IssuesOnly(u)
           /\ \A s \in D : sessions'[s].revoked
<1>1. sessions \in [SessionIds -> SessionType \cup {NoSession}] /\ now \in Nat
  BY DEF TypeInv
<1>2. ASSUME NEW s \in D
      PROVE  /\ s \in Rows /\ s \in SessionIds
             /\ sessions'[s] \in SessionType /\ sessions'[s] # NoSession
             /\ sessions'[s].actor = sessions[s].actor /\ sessions'[s].password = sessions[s].password
             /\ sessions'[s].by = sessions[s].by /\ sessions'[s].late = sessions[s].late
             /\ sessions'[s].revoked /\ sessions'[s].issued = sessions[s].issued
  <2>1. s \in Rows /\ s \in SessionIds /\ sessions[s] \in SessionType
    BY RowType
  <2>2. sessions'[s] = [sessions[s] EXCEPT !.revoked = TRUE]
    BY <2>1
  <2>3. sessions'[s] \in SessionType
    BY <2>1, <2>2 DEF SessionType
  <2> QED
    BY <2>1, <2>2, <2>3, NoSessionType DEF SessionType
<1>3. \A s \in SessionIds : s \notin D => sessions'[s] = sessions[s]
  OBVIOUS
<1>4. sessions' \in [SessionIds -> SessionType \cup {NoSession}]
  BY <1>1, <1>2, <1>3
<1>5. Rows' = Rows
  BY <1>2, <1>3 DEF Rows
<1>6. ASSUME NEW s \in Rows
      PROVE  Endures(s) /\ sessions'[s].issued = sessions[s].issued
  <2>1. s \in SessionIds /\ sessions[s] \in SessionType
    BY RowType
  <2>2. CASE s \in D
    BY <1>2, <1>5, <2>2 DEF Endures, Live, Valid
  <2>3. CASE s \notin D
    <3>1. Live(s)' = Live(s)
      BY <1>3, <2>1, <2>3 DEF Live, Valid
    <3> QED
      BY <1>3, <1>5, <2>1, <2>3, <3>1 DEF Endures
  <2> QED
    BY <2>2, <2>3
<1>7. now' \in Nat /\ now <= now'
  BY <1>1
<1>8. Lasting
  BY <1>4, <1>5, <1>6, <1>7 DEF Lasting, Grown
<1> QED
  BY <1>2, <1>6, <1>8 DEF IssuesOnly

\* A new row, unless the bound on what is started is reached.
LEMMA RowsInserted ==
    ASSUME TypeInv, UNCHANGED now, NEW r, Typed(r), NEW n \in 0..MaxStarts, Rows = 1..n,
           sessions' = [sessions EXCEPT ![n + 1] = NewSession(r)]
    PROVE  /\ Grown /\ \A s : IssuesOnly(s)
           /\ n + 1 \notin Rows
           /\ \/ n + 1 \in Rows' /\ Rows' = Rows \cup {n + 1} /\ sessions'[n + 1] = NewSession(r)
                 /\ NewSession(r) \in SessionType
              \/ n + 1 \notin SessionIds /\ Rows' = Rows
           /\ \E m \in 0..MaxStarts : Rows' = 1..m
<1>1. /\ sessions \in [SessionIds -> SessionType \cup {NoSession}]
      /\ passwords \in [Actors -> Nat] /\ now \in Nat /\ n \in Nat /\ MaxStarts \in Nat
  BY BoundType DEF TypeInv
<1>2. n + 1 \notin Rows
  BY <1>1
<1>3. CASE n + 1 \notin SessionIds
  <2>1. sessions' = sessions
    BY <1>1, <1>3
  <2>2. Rows' = Rows
    BY <2>1 DEF Rows
  <2> QED
    BY <1>2, <1>3, <2>1, <2>2, RowsStay DEF Lasting
<1>4. CASE n + 1 \in SessionIds
  <2> DEFINE t == NewSession(r)
  <2>1. t \in SessionType
    <3>1. /\ r.actor \in Actors /\ r.password \in Nat /\ r.time \in Nat /\ r.kind \in Kinds
      BY DEF Typed, RequestType
    <3>2. r.time + Idle \in Nat /\ r.time + Absolute \in Nat
      BY <3>1, BoundType
    <3>3. MinOf(r.time + Idle, r.time + Absolute) \in Nat
      BY <3>2 DEF MinOf
    <3>4. (r.password < passwords[r.actor]) \in BOOLEAN
      OBVIOUS
    <3> QED
      BY <3>1, <3>2, <3>3, <3>4 DEF NewSession, SessionType
  <2>2. t # NoSession
    BY <2>1, NoSessionType
  <2> HIDE DEF t
  <2>3. /\ sessions' \in [SessionIds -> SessionType \cup {NoSession}]
        /\ sessions'[n + 1] = t
        /\ \A s \in SessionIds : s # n + 1 => sessions'[s] = sessions[s]
    BY <1>1, <1>4, <2>1 DEF t
  <2>4. Rows' = Rows \cup {n + 1}
    BY <1>4, <2>2, <2>3 DEF Rows
  <2>5. n + 1 \in 0..MaxStarts /\ Rows' = 1..(n + 1)
    BY <1>1, <1>4, <2>4 DEF SessionIds
  <2>6. ASSUME NEW s \in Rows
        PROVE  Endures(s) /\ sessions'[s].issued = sessions[s].issued
    <3>1. s \in SessionIds /\ s # n + 1 /\ sessions[s] \in SessionType
      BY <1>2, RowType
    <3>2. Live(s)' = Live(s)
      BY <2>3, <3>1 DEF Live, Valid
    <3> QED
      BY <2>3, <2>4, <3>1, <3>2 DEF Endures
  <2> QED
    BY <1>1, <1>2, <2>1, <2>3, <2>4, <2>5, <2>6 DEF Grown, IssuesOnly, t
<1> QED
  BY <1>3, <1>4

-----------------------------------------------------------------------------
(* Type correctness *)

LEMMA OthersPlaced ==
    ASSUME TypeInv, Grown, NEW q \in Requests, OthersStay(q), NEW p \in Requests, p # q
    PROVE  RequestInv(p)'
<1> SUFFICES ASSUME Working(p)'
             PROVE  RequestInv(p)'
  BY DEF RequestInv
<1> DEFINE r == requests[p]
<1>1. requests'[p] = r
  BY DEF OthersStay
<1>2. Typed(r) /\ Placed(r) /\ Related(r)
  BY <1>1 DEF TypeInv, RequestInv, Working
<1>3. /\ now \in Nat /\ now' \in Nat /\ now <= now' /\ r.time \in Nat
      /\ \A s \in Rows : s \in Rows' /\ sessions'[s].actor = sessions[s].actor
  BY <1>2 DEF TypeInv, Grown, Endures, Typed, RequestType
<1> HIDE DEF r
<1>4. Typed(requests'[p]) /\ Placed(requests'[p])
  BY <1>1, <1>2
<1>5. Related(requests[p])'
  <2>1. r.time <= now'
    BY <1>2, <1>3 DEF Related
  <2>2. r.doomed \subseteq Rows'
    BY <1>2, <1>3 DEF Related
  <2>3. Owned(r) => Owned(requests[p])'
    BY <1>1, <1>3 DEF Owned
  <2>4. \A s \in Rows : s \in Rows'
    BY <1>3
  <2> QED
    BY <1>1, <1>2, <2>1, <2>2, <2>3, <2>4 DEF Related
<1> QED
  BY <1>4, <1>5 DEF RequestInv, Typed, Placed, Inside

LEMMA TypeKept ==
    ASSUME TypeInv, Grown, \E n \in 0..MaxStarts : Rows' = 1..n, passwords' \in [Actors -> Nat],
           NEW q \in Requests, BecomesOneOf(q), RequestInv(q)'
    PROVE  TypeInv'
<1>1. \A p \in Requests : RequestInv(p)'
  BY OthersPlaced DEF BecomesOneOf
<1> QED
  BY <1>1 DEF TypeInv, BecomesOneOf, Grown

LEMMA FreeFits ==
    ASSUME NEW q, requests'[q] = Free
    PROVE  RequestInv(q)'
  BY DEF RequestInv, Working

LEMMA LastingRows ==
    ASSUME TypeInv, Lasting
    PROVE  Grown /\ Rows' = Rows /\ \E n \in 0..MaxStarts : Rows' = 1..n
  BY DEF TypeInv, Lasting

\* Most steps leave the place of a request related to the rows as it was.
LEMMA Relates ==
    ASSUME TypeInv, Grown, NEW q \in Requests, Typed(requests'[q]), Placed(requests'[q]),
           NEW r, Typed(r), Related(r),
           requests'[q].kind = r.kind, requests'[q].actor = r.actor,
           requests'[q].session = r.session,
           requests'[q].time = r.time \/ requests'[q].time = now,
           requests'[q].doomed \subseteq Rows,
           requests'[q].at \in {"TOUCH", "LOGOUT", "FIND_AGAIN", "TOUCH_AGAIN"} => r.session \in Rows,
           requests'[q].at = "CONNECT" /\ r.kind = "CHANGE" => r.session \in Rows,
           requests'[q].at \in {"ENFORCE", "REVOKE"} => Owned(r),
           requests'[q].at = "COMMIT" /\ Inside(r) => Owned(r)
    PROVE  RequestInv(q)'
<1> DEFINE t == requests'[q]
<1>3. /\ now \in Nat /\ now' \in Nat /\ now <= now' /\ r.time \in Nat
      /\ \A s \in Rows : s \in Rows' /\ sessions'[s].actor = sessions[s].actor
  BY DEF TypeInv, Grown, Endures, Typed, RequestType
<1>1. t.time <= now'
  BY <1>3 DEF Related
<1>2. t.doomed \subseteq Rows'
  BY <1>3
<1>4. Owned(r) => Owned(requests[q])'
  BY <1>3 DEF Owned
<1>5. r.session \in Rows => t.session \in Rows'
  BY <1>3
<1>6. Inside(requests[q])' <=> Inside(r)
  BY DEF Inside
<1>7. Related(requests[q])'
  <2> HIDE DEF t
  <2>1. /\ t.at \in {"TOUCH", "LOGOUT", "FIND_AGAIN", "TOUCH_AGAIN"} => t.session \in Rows'
        /\ t.at = "CONNECT" /\ t.kind = "CHANGE" => t.session \in Rows'
    BY <1>5 DEF t
  <2>2. /\ t.at \in {"ENFORCE", "REVOKE"} => Owned(requests[q])'
        /\ t.at = "COMMIT" /\ Inside(requests[q])' => Owned(requests[q])'
    BY <1>4, <1>6 DEF t
  <2> QED
    BY <1>1, <1>2, <2>1, <2>2 DEF Related, t
<1> QED
  BY <1>7 DEF RequestInv, Typed, Placed, Inside

-----------------------------------------------------------------------------
(* ... in each step *)

LEMMA BeginAccessType ==
    ASSUME TypeInv, NEW q \in Requests, NEW a \in Actors, NEW kind \in {"LOGIN", "RESET"},
           BeginAccess(q, a, kind)
    PROVE  Lasting /\ TypeInv'
<1> DEFINE t == requests'[q]
<1>1. /\ BecomesOneOf(q) /\ (kind = "RESET" => a = Owner)
      /\ Is(t, "CONNECT", kind, a, passwords[a], FALSE, FALSE, 0, <<>>, NoId, 0, {})
  BY BeginAccessMoves
<1>2. Lasting /\ UNCHANGED passwords
  BY RowsStay DEF BeginAccess
<1>3. Typed(t) /\ Placed(t)
  BY <1>1 DEF Is, Placed, Inside
<1>4. Related(requests[q])'
  <2>1. 0 <= now'
    BY <1>2 DEF Lasting, Grown
  <2> QED
    BY <1>1, <2>1 DEF Is, Related
<1>5. RequestInv(q)'
  BY <1>3, <1>4 DEF RequestInv, Typed, Placed, Inside
<1> QED
  BY <1>1, <1>2, <1>5, TypeKept, LastingRows DEF TypeInv

LEMMA FindSessionType ==
    ASSUME TypeInv, NEW q \in Requests, NEW s \in SessionIds,
           NEW kind \in {"USE", "LOGOUT", "CHANGE"}, FindSession(q, s, kind)
    PROVE  Lasting /\ TypeInv'
<1> DEFINE t == requests'[q]
<1>1. /\ BecomesOneOf(q) /\ s \in Rows
      /\ Is(t, "TOUCH", kind, sessions[s].actor, passwords[sessions[s].actor],
            FALSE, FALSE, 0, <<>>, s, 0, {})
  BY FindSessionMoves
<1>2. Lasting /\ UNCHANGED passwords
  BY RowsStay DEF FindSession
<1>3. Typed(t) /\ Placed(t)
  BY <1>1 DEF Is, Placed, Inside
<1>4. Related(requests[q])'
  <2>1. 0 <= now' /\ s \in Rows'
    BY <1>1, <1>2 DEF Lasting, Grown
  <2> QED
    BY <1>1, <2>1 DEF Is, Related
<1>5. RequestInv(q)'
  BY <1>3, <1>4 DEF RequestInv, Typed, Placed, Inside
<1> QED
  BY <1>1, <1>2, <1>5, TypeKept, LastingRows DEF TypeInv

LEMMA TouchType ==
    ASSUME TypeInv, IsChain(events), NEW q \in Requests, Touch(q)
    PROVE  Lasting /\ TypeInv'
<1> DEFINE r == requests[q]
           t == requests'[q]
<1>1. /\ BecomesOneOf(q) /\ Typed(r) /\ Placed(r) /\ Related(r)
  BY TouchMoves
<1>2. Lasting /\ UNCHANGED passwords
  <2>1. r.session \in Rows
    BY <1>1, TouchMoves DEF Related
  <2> QED
    BY <2>1, RowsTouched DEF Touch
<1>3. RequestInv(q)'
  <2>1. CASE t = Free
    BY <2>1, FreeFits
  <2>2. CASE t # Free
    <3>1. /\ Typed(t) /\ Placed(t)
          /\ t.kind = r.kind /\ t.actor = r.actor /\ t.session = r.session
          /\ t.time = r.time \/ t.time = now
          /\ t.doomed \subseteq Rows
          /\ t.at \in {"TOUCH", "LOGOUT", "FIND_AGAIN", "TOUCH_AGAIN"} => r.session \in Rows
          /\ t.at = "CONNECT" /\ r.kind = "CHANGE" => r.session \in Rows
          /\ t.at \in {"ENFORCE", "REVOKE"} => Owned(r)
          /\ t.at = "COMMIT" /\ Inside(r) => Owned(r)
      BY <1>1, <2>2, TouchMoves DEF Is, Placed, Related, Inside
    <3> QED
      BY <1>1, <1>2, <3>1, Relates DEF Lasting
  <2> QED
    BY <2>1, <2>2
<1> QED
  BY <1>1, <1>2, <1>3, TypeKept, LastingRows DEF TypeInv

LEMMA LogoutType ==
    ASSUME TypeInv, NEW q \in Requests, Logout(q)
    PROVE  Lasting /\ TypeInv'
<1> DEFINE r == requests[q]
           t == requests'[q]
<1>1. /\ BecomesOneOf(q) /\ Typed(r) /\ Placed(r) /\ Related(r)
  BY LogoutMoves
<1>2. Lasting /\ UNCHANGED passwords
  <2>1. r.session \in Rows
    BY <1>1, LogoutMoves DEF Related
  <2> QED
    BY <2>1, RowsRevoked, RowsStay DEF Logout
<1>3. RequestInv(q)'
  BY LogoutMoves, FreeFits
<1> QED
  BY <1>1, <1>2, <1>3, TypeKept, LastingRows DEF TypeInv

LEMMA RefuseType ==
    ASSUME TypeInv, NEW q \in Requests, Refuse(q)
    PROVE  Lasting /\ TypeInv'
<1> DEFINE r == requests[q]
           t == requests'[q]
<1>1. /\ BecomesOneOf(q) /\ Typed(r) /\ Placed(r) /\ Related(r)
  BY RefuseMoves
<1>2. Lasting /\ UNCHANGED passwords
  BY RowsStay DEF Refuse
<1>3. RequestInv(q)'
  BY RefuseMoves, FreeFits
<1> QED
  BY <1>1, <1>2, <1>3, TypeKept, LastingRows DEF TypeInv

LEMMA FailType ==
    ASSUME TypeInv, NEW q \in Requests, Fail(q)
    PROVE  Lasting /\ TypeInv'
<1> DEFINE r == requests[q]
           t == requests'[q]
<1>1. /\ BecomesOneOf(q) /\ Typed(r) /\ Placed(r) /\ Related(r)
  BY FailMoves
<1>2. Lasting /\ UNCHANGED passwords
  BY RowsStay DEF Fail
<1>3. RequestInv(q)'
  BY FailMoves, FreeFits
<1> QED
  BY <1>1, <1>2, <1>3, TypeKept, LastingRows DEF TypeInv

LEMMA ConnectType ==
    ASSUME TypeInv, IsChain(events), NEW q \in Requests, Connect(q)
    PROVE  Lasting /\ TypeInv'
<1> DEFINE r == requests[q]
           t == requests'[q]
<1>1. /\ BecomesOneOf(q) /\ Typed(r) /\ Placed(r) /\ Related(r)
  BY ConnectMoves
<1>2. Lasting /\ UNCHANGED passwords
  BY RowsStay DEF Connect
<1>3. RequestInv(q)'
  <2>1. CASE t = Free
    BY <2>1, FreeFits
  <2>2. CASE t # Free
    <3>2. r.at = "CONNECT"
      BY ConnectMoves
    <3>3. PICK at \in {"FIND_AGAIN", "LOCK"}, n \in 0..Len(events) :
              /\ at = "FIND_AGAIN" => r.kind = "CHANGE"
              /\ Is(t, at, r.kind, r.actor, r.password, TRUE, r.locked,
                    n, r.row, r.session, r.time, r.doomed)
      BY ConnectMoves
    <3>1. /\ Typed(t) /\ Placed(t)
          /\ t.kind = r.kind /\ t.actor = r.actor /\ t.session = r.session
          /\ t.time = r.time \/ t.time = now
          /\ t.doomed \subseteq Rows
          /\ t.at \in {"TOUCH", "LOGOUT", "FIND_AGAIN", "TOUCH_AGAIN"} => r.session \in Rows
          /\ t.at = "CONNECT" /\ r.kind = "CHANGE" => r.session \in Rows
          /\ t.at \in {"ENFORCE", "REVOKE"} => Owned(r)
          /\ t.at = "COMMIT" /\ Inside(r) => Owned(r)
      <4> HIDE DEF r, t
      <4> QED
        BY <1>1, <3>2, <3>3 DEF Is, Placed, Related, Inside
    <3> QED
      BY <1>1, <1>2, <3>1, Relates DEF Lasting
  <2> QED
    BY <2>1, <2>2
<1> QED
  BY <1>1, <1>2, <1>3, TypeKept, LastingRows DEF TypeInv

LEMMA FindAgainType ==
    ASSUME TypeInv, NEW q \in Requests, FindAgain(q)
    PROVE  Lasting /\ TypeInv'
<1> DEFINE r == requests[q]
           t == requests'[q]
<1>1. /\ BecomesOneOf(q) /\ Typed(r) /\ Placed(r) /\ Related(r)
  BY FindAgainMoves
<1>2. Lasting /\ UNCHANGED passwords
  BY RowsStay DEF FindAgain
<1>3. RequestInv(q)'
  <2>1. CASE t = Free
    BY <2>1, FreeFits
  <2>2. CASE t # Free
    <3>1. /\ Typed(t) /\ Placed(t)
          /\ t.kind = r.kind /\ t.actor = r.actor /\ t.session = r.session
          /\ t.time = r.time \/ t.time = now
          /\ t.doomed \subseteq Rows
          /\ t.at \in {"TOUCH", "LOGOUT", "FIND_AGAIN", "TOUCH_AGAIN"} => r.session \in Rows
          /\ t.at = "CONNECT" /\ r.kind = "CHANGE" => r.session \in Rows
          /\ t.at \in {"ENFORCE", "REVOKE"} => Owned(r)
          /\ t.at = "COMMIT" /\ Inside(r) => Owned(r)
      BY <1>1, <2>2, FindAgainMoves DEF Is, Placed, Related, Inside
    <3> QED
      BY <1>1, <1>2, <3>1, Relates DEF Lasting
  <2> QED
    BY <2>1, <2>2
<1> QED
  BY <1>1, <1>2, <1>3, TypeKept, LastingRows DEF TypeInv

LEMMA LockType ==
    ASSUME TypeInv, NEW q \in Requests, Lock(q)
    PROVE  Lasting /\ TypeInv'
<1> DEFINE r == requests[q]
           t == requests'[q]
<1>1. /\ BecomesOneOf(q) /\ Typed(r) /\ Placed(r) /\ Related(r)
  BY LockMoves
<1>2. Lasting /\ UNCHANGED passwords
  BY RowsStay DEF Lock
<1>3. RequestInv(q)'
  <2>1. CASE t = Free
    BY <2>1, FreeFits
  <2>2. CASE t # Free
    <3>2. /\ r.at = "LOCK"
          /\ Is(t, "APPEND", r.kind, r.actor, r.password, r.connected, TRUE,
                r.snapshot, r.row, r.session, r.time, Revocable(r))
      BY <2>2, LockMoves
    <3>3. Revocable(r) \subseteq Rows /\ (r.kind = "LOGIN" => Revocable(r) = {})
      BY DEF Revocable
    <3>1. /\ Typed(t) /\ Placed(t)
          /\ t.kind = r.kind /\ t.actor = r.actor /\ t.session = r.session
          /\ t.time = r.time \/ t.time = now
          /\ t.doomed \subseteq Rows
          /\ t.at \in {"TOUCH", "LOGOUT", "FIND_AGAIN", "TOUCH_AGAIN"} => r.session \in Rows
          /\ t.at = "CONNECT" /\ r.kind = "CHANGE" => r.session \in Rows
          /\ t.at \in {"ENFORCE", "REVOKE"} => Owned(r)
          /\ t.at = "COMMIT" /\ Inside(r) => Owned(r)
      <4> HIDE DEF r, t
      <4> QED
        BY <1>1, <3>2, <3>3 DEF Is, Placed, Related, Inside
    <3> QED
      BY <1>1, <1>2, <3>1, Relates DEF Lasting
  <2> QED
    BY <2>1, <2>2
<1> QED
  BY <1>1, <1>2, <1>3, TypeKept, LastingRows DEF TypeInv

LEMMA AppendEventType ==
    ASSUME TypeInv, NEW q \in Requests, AppendEvent(q)
    PROVE  Lasting /\ TypeInv'
<1> DEFINE r == requests[q]
           t == requests'[q]
<1>1. /\ BecomesOneOf(q) /\ Typed(r) /\ Placed(r) /\ Related(r)
  BY AppendEventMoves
<1>2. Lasting /\ UNCHANGED passwords
  BY RowsStay DEF AppendEvent
<1>3. RequestInv(q)'
  <2>1. CASE t = Free
    BY <2>1, FreeFits
  <2>2. CASE t # Free
    <3>1. /\ Typed(t) /\ Placed(t)
          /\ t.kind = r.kind /\ t.actor = r.actor /\ t.session = r.session
          /\ t.time = r.time \/ t.time = now
          /\ t.doomed \subseteq Rows
          /\ t.at \in {"TOUCH", "LOGOUT", "FIND_AGAIN", "TOUCH_AGAIN"} => r.session \in Rows
          /\ t.at = "CONNECT" /\ r.kind = "CHANGE" => r.session \in Rows
          /\ t.at \in {"ENFORCE", "REVOKE"} => Owned(r)
          /\ t.at = "COMMIT" /\ Inside(r) => Owned(r)
      BY <1>1, <2>2, AppendEventMoves DEF Is, Placed, Related, Inside
    <3> QED
      BY <1>1, <1>2, <3>1, Relates DEF Lasting
  <2> QED
    BY <2>1, <2>2
<1> QED
  BY <1>1, <1>2, <1>3, TypeKept, LastingRows DEF TypeInv

LEMMA ListAllType ==
    ASSUME TypeInv, NEW q \in Requests, ListAll(q)
    PROVE  Lasting /\ TypeInv'
<1> DEFINE r == requests[q]
           t == requests'[q]
<1>1. /\ BecomesOneOf(q) /\ Typed(r) /\ Placed(r) /\ Related(r)
  BY ListAllMoves
<1>2. Lasting /\ UNCHANGED passwords
  BY RowsStay DEF ListAll
<1>3. RequestInv(q)'
  <2>1. CASE t = Free
    BY <2>1, FreeFits
  <2>2. CASE t # Free
    <3>1. /\ Typed(t) /\ Placed(t)
          /\ t.kind = r.kind /\ t.actor = r.actor /\ t.session = r.session
          /\ t.time = r.time \/ t.time = now
          /\ t.doomed \subseteq Rows
          /\ t.at \in {"TOUCH", "LOGOUT", "FIND_AGAIN", "TOUCH_AGAIN"} => r.session \in Rows
          /\ t.at = "CONNECT" /\ r.kind = "CHANGE" => r.session \in Rows
          /\ t.at \in {"ENFORCE", "REVOKE"} => Owned(r)
          /\ t.at = "COMMIT" /\ Inside(r) => Owned(r)
      BY <1>1, <2>2, ListAllMoves DEF Is, Placed, Related, Inside, ListActive
    <3> QED
      BY <1>1, <1>2, <3>1, Relates DEF Lasting
  <2> QED
    BY <2>1, <2>2
<1> QED
  BY <1>1, <1>2, <1>3, TypeKept, LastingRows DEF TypeInv

LEMMA EnforceLimitType ==
    ASSUME TypeInv, NEW q \in Requests, EnforceLimit(q)
    PROVE  Lasting /\ TypeInv'
<1> DEFINE r == requests[q]
           t == requests'[q]
<1>1. /\ BecomesOneOf(q) /\ Typed(r) /\ Placed(r) /\ Related(r)
  BY EnforceLimitMoves
<1>2. Lasting /\ UNCHANGED passwords
  BY RowsStay DEF EnforceLimit
<1>3. RequestInv(q)'
  <2>1. CASE t = Free
    BY <2>1, FreeFits
  <2>2. CASE t # Free
    <3>1. /\ Typed(t) /\ Placed(t)
          /\ t.kind = r.kind /\ t.actor = r.actor /\ t.session = r.session
          /\ t.time = r.time \/ t.time = now
          /\ t.doomed \subseteq Rows
          /\ t.at \in {"TOUCH", "LOGOUT", "FIND_AGAIN", "TOUCH_AGAIN"} => r.session \in Rows
          /\ t.at = "CONNECT" /\ r.kind = "CHANGE" => r.session \in Rows
          /\ t.at \in {"ENFORCE", "REVOKE"} => Owned(r)
          /\ t.at = "COMMIT" /\ Inside(r) => Owned(r)
      BY <1>1, <2>2, EnforceLimitMoves DEF Is, Placed, Related, Inside, ListActive, Excess
    <3> QED
      BY <1>1, <1>2, <3>1, Relates DEF Lasting
  <2> QED
    BY <2>1, <2>2
<1> QED
  BY <1>1, <1>2, <1>3, TypeKept, LastingRows DEF TypeInv

LEMMA RevokeOneType ==
    ASSUME TypeInv, NEW q \in Requests, RevokeOne(q)
    PROVE  Lasting /\ TypeInv'
<1> DEFINE r == requests[q]
           t == requests'[q]
<1>1. /\ BecomesOneOf(q) /\ Typed(r) /\ Placed(r) /\ Related(r)
  BY RevokeOneMoves
<1>2. Lasting /\ UNCHANGED passwords
  <2>1. r.doomed \subseteq Rows
    BY <1>1 DEF Related
  <2>2. PICK s \in r.doomed : sessions' = [sessions EXCEPT ![s].revoked = TRUE]
    BY RevokeOneMoves
  <2> QED
    BY <2>1, <2>2, RowsRevoked DEF RevokeOne
<1>3. RequestInv(q)'
  <2>1. CASE t = Free
    BY <2>1, FreeFits
  <2>2. CASE t # Free
    <3>1. /\ Typed(t) /\ Placed(t)
          /\ t.kind = r.kind /\ t.actor = r.actor /\ t.session = r.session
          /\ t.time = r.time \/ t.time = now
          /\ t.doomed \subseteq Rows
          /\ t.at \in {"TOUCH", "LOGOUT", "FIND_AGAIN", "TOUCH_AGAIN"} => r.session \in Rows
          /\ t.at = "CONNECT" /\ r.kind = "CHANGE" => r.session \in Rows
          /\ t.at \in {"ENFORCE", "REVOKE"} => Owned(r)
          /\ t.at = "COMMIT" /\ Inside(r) => Owned(r)
      BY <1>1, <2>2, RevokeOneMoves DEF Is, Placed, Related, Inside
    <3> QED
      BY <1>1, <1>2, <3>1, Relates DEF Lasting
  <2> QED
    BY <2>1, <2>2
<1> QED
  BY <1>1, <1>2, <1>3, TypeKept, LastingRows DEF TypeInv

LEMMA RevokedType ==
    ASSUME TypeInv, NEW q \in Requests, Revoked(q)
    PROVE  Lasting /\ TypeInv'
<1> DEFINE r == requests[q]
           t == requests'[q]
<1>1. /\ BecomesOneOf(q) /\ Typed(r) /\ Placed(r) /\ Related(r)
  BY RevokedMoves
<1>2. Lasting /\ UNCHANGED passwords
  <2>1. CASE sessions' = sessions
    BY <2>1, RowsStay DEF Revoked
  <2>2. CASE sessions' # sessions
    <3>1. r.at = "REVOKE" /\ sessions' = [sessions EXCEPT ![r.session].issued = TRUE]
      BY <2>2, RevokedMoves
    <3>2. r.session \in Rows \/ r.session \notin SessionIds
      BY <1>1, <3>1 DEF Related, Owned
    <3> QED
      BY <3>1, <3>2, RowsIssued DEF Revoked
  <2> QED
    BY <2>1, <2>2
<1>3. RequestInv(q)'
  <2>1. CASE t = Free
    BY <2>1, FreeFits
  <2>2. CASE t # Free
    <3>2. \/ /\ r.at = "REVOKE_ALL" /\ r.kind = "CHANGE"
             /\ Is(t, "INSERT", r.kind, r.actor, r.password, r.connected, r.locked,
                   r.snapshot, r.row, r.session, now, r.doomed)
          \/ /\ r.at = "REVOKE" /\ Inside(r)
             /\ Is(t, "COMMIT", r.kind, r.actor, r.password, r.connected, r.locked,
                   r.snapshot, r.row, r.session, r.time, r.doomed)
      BY <2>2, RevokedMoves
    <3>3. r.doomed = {}
      BY RevokedMoves
    <3>1. /\ Typed(t) /\ Placed(t)
          /\ t.kind = r.kind /\ t.actor = r.actor /\ t.session = r.session
          /\ t.time = r.time \/ t.time = now
          /\ t.doomed \subseteq Rows
          /\ t.at \in {"TOUCH", "LOGOUT", "FIND_AGAIN", "TOUCH_AGAIN"} => r.session \in Rows
          /\ t.at = "CONNECT" /\ r.kind = "CHANGE" => r.session \in Rows
          /\ t.at \in {"ENFORCE", "REVOKE"} => Owned(r)
          /\ t.at = "COMMIT" /\ Inside(r) => Owned(r)
      <4> HIDE DEF r, t
      <4>1. CASE r.at = "REVOKE_ALL"
        BY <1>1, <3>2, <3>3, <4>1 DEF Is, Placed, Related, Inside
      <4>2. CASE r.at = "REVOKE"
        <5>1. Owned(r) /\ r.session # NoId
          BY <1>1, <4>2, RowType DEF Related, Owned, NoId
        <5>2. t.connected /\ t.locked /\ Placed(r)
          BY <1>1, <3>2, <4>2 DEF Is, Placed
        <5> QED
          BY <1>1, <3>2, <3>3, <4>2, <5>1, <5>2 DEF Is, Placed, Related, Inside
      <4> QED
        BY <3>2, <4>1, <4>2
    <3> QED
      BY <1>1, <1>2, <3>1, Relates DEF Lasting
  <2> QED
    BY <2>1, <2>2
<1> QED
  BY <1>1, <1>2, <1>3, TypeKept, LastingRows DEF TypeInv

LEMMA CommitType ==
    ASSUME TypeInv, NEW q \in Requests, Commit(q)
    PROVE  Lasting /\ TypeInv'
<1> DEFINE r == requests[q]
           t == requests'[q]
<1>1. /\ BecomesOneOf(q) /\ Typed(r) /\ Placed(r) /\ Related(r)
  BY CommitMoves
<1>2. Lasting /\ passwords' \in [Actors -> Nat]
  <2>1. UNCHANGED now /\ r.at = "COMMIT"
    BY CommitMoves DEF Commit
  <2>2. CASE Inside(r)
    <3>1. sessions' = [sessions EXCEPT ![r.session].issued = TRUE] /\ UNCHANGED passwords
      BY <2>2, CommitMoves
    <3>2. r.session \in Rows \/ r.session \notin SessionIds
      BY <1>1, <2>1, <2>2 DEF Related, Owned
    <3> QED
      BY <2>1, <3>1, <3>2, RowsIssued DEF TypeInv
  <2>3. CASE ~Inside(r)
    <3>1. /\ sessions' = [s \in SessionIds |->
                 IF s \in r.doomed THEN [sessions[s] EXCEPT !.revoked = TRUE] ELSE sessions[s]]
          /\ passwords' = IF Replaces(r) THEN [passwords EXCEPT ![r.actor] = @ + 1] ELSE passwords
      BY <2>3, CommitMoves
    <3>2. r.doomed \in SUBSET Rows
      BY <1>1 DEF Related
    <3>3. r.actor \in Actors /\ passwords \in [Actors -> Nat]
      BY <1>1 DEF Typed, RequestType, TypeInv
    <3>4. passwords' \in [Actors -> Nat]
      BY <3>1, <3>3
    <3> QED
      BY <2>1, <3>1, <3>2, <3>4, RowsSwept
  <2> QED
    BY <2>2, <2>3
<1>3. RequestInv(q)'
  <2>1. CASE t = Free
    BY <2>1, FreeFits
  <2>2. CASE t # Free
    <3>2. /\ r.at = "COMMIT" /\ ~Inside(r)
          /\ Is(t, IF Replaces(r) THEN "LIST" ELSE "INSERT", r.kind, r.actor,
                passwords'[r.actor], FALSE, FALSE, 0, <<>>, r.session, now, {})
      BY <2>2, CommitMoves
    <3>1. /\ Typed(t) /\ Placed(t)
          /\ t.kind = r.kind /\ t.actor = r.actor /\ t.session = r.session
          /\ t.time = r.time \/ t.time = now
          /\ t.doomed \subseteq Rows
          /\ t.at \in {"TOUCH", "LOGOUT", "FIND_AGAIN", "TOUCH_AGAIN"} => r.session \in Rows
          /\ t.at = "CONNECT" /\ r.kind = "CHANGE" => r.session \in Rows
          /\ t.at \in {"ENFORCE", "REVOKE"} => Owned(r)
          /\ t.at = "COMMIT" /\ Inside(r) => Owned(r)
      <4> HIDE DEF r, t
      <4> QED
        BY <1>1, <3>2 DEF Is, Placed, Related, Inside, Replaces
    <3> QED
      BY <1>1, <1>2, <3>1, Relates DEF Lasting
  <2> QED
    BY <2>1, <2>2
<1> QED
  BY <1>1, <1>2, <1>3, TypeKept, LastingRows DEF TypeInv

LEMMA InsertSessionType ==
    ASSUME TypeInv, NEW q \in Requests, InsertSession(q)
    PROVE  Grown /\ TypeInv'
<1> DEFINE r == requests[q]
           t == requests'[q]
<1>1. /\ BecomesOneOf(q) /\ Typed(r) /\ Placed(r) /\ Related(r) /\ r.at = "INSERT"
  BY InsertSessionMoves
<1>2. UNCHANGED <<now, passwords>>
  BY DEF InsertSession
<1>3. PICK n \in 0..MaxStarts :
          /\ Rows = 1..n
          /\ sessions' = [sessions EXCEPT ![n + 1] = NewSession(r)]
          /\ Is(t, "ENFORCE", r.kind, r.actor, r.password, r.connected, r.locked,
                r.snapshot, r.row, n + 1, r.time, r.doomed)
  BY InsertSessionMoves
<1>4. /\ Grown
      /\ \/ n + 1 \in Rows' /\ sessions'[n + 1] = NewSession(r)
         \/ n + 1 \notin SessionIds
      /\ \E m \in 0..MaxStarts : Rows' = 1..m
  BY <1>1, <1>2, <1>3, RowsInserted
<1>5. Typed(t) /\ Placed(t)
  BY <1>1, <1>3 DEF Is, Placed, Inside
<1>6. Related(requests[q])'
  <2>1. Owned(requests[q])'
    <3>1. n + 1 # NoId
      BY BoundType DEF NoId
    <3> QED
      BY <1>3, <1>4, <3>1 DEF Is, Owned, NewSession
  <2>2. t.time <= now'
    BY <1>1, <1>2, <1>3 DEF Is, Related
  <2>3. t.doomed \subseteq Rows'
    BY <1>1, <1>3, <1>4 DEF Is, Related, Grown, Endures
  <2> QED
    BY <1>3, <2>1, <2>2, <2>3 DEF Is, Related
<1>7. RequestInv(q)'
  BY <1>5, <1>6 DEF RequestInv, Typed, Placed, Inside
<1> QED
  BY <1>1, <1>2, <1>4, <1>7, TypeKept DEF TypeInv

LEMMA AllStay ==
    ASSUME TypeInv, Lasting, UNCHANGED <<passwords, requests>>
    PROVE  TypeInv'
<1>1. ASSUME NEW q \in Requests
      PROVE  RequestInv(q)'
  <2>1. CASE requests[q] = Free
    BY <2>1, FreeFits
  <2>2. CASE requests[q] # Free
    <3> DEFINE r == requests[q]
    <3>1. requests'[q] = r /\ Typed(r) /\ Placed(r) /\ Related(r) /\ Grown
      BY <2>2 DEF TypeInv, RequestInv, Working, Lasting
    <3>2. /\ r.doomed \subseteq Rows
          /\ r.at \in {"TOUCH", "LOGOUT", "FIND_AGAIN", "TOUCH_AGAIN"} => r.session \in Rows
          /\ r.at = "CONNECT" /\ r.kind = "CHANGE" => r.session \in Rows
          /\ r.at \in {"ENFORCE", "REVOKE"} => Owned(r)
          /\ r.at = "COMMIT" /\ Inside(r) => Owned(r)
      BY <3>1 DEF Related
    <3> HIDE DEF r
    <3> QED
      BY <3>1, <3>2, Relates
  <2> QED
    BY <2>1, <2>2
<1> QED
  BY <1>1, LastingRows DEF TypeInv, Grown

LEMMA TickType ==
    ASSUME TypeInv, Tick
    PROVE  Lasting /\ TypeInv'
  BY RowsAge, AllStay DEF Tick

-----------------------------------------------------------------------------
(* The chain is kept *)

\* A request goes on with the row it carries, if any.
KeepsRow(q) ==
    LET r == requests[q]
        t == requests'[q]
    IN  /\ Working(q)
        /\ t.row = r.row /\ t.snapshot = r.snapshot /\ t.kind = r.kind /\ t.actor = r.actor
        /\ r.row # <<>> => t.at \in {"INSERT", "ENFORCE", "REVOKE", "COMMIT"}

LEMMA ChainStays ==
    ASSUME ChainInv, UNCHANGED <<events, drawn>>, NEW q \in Requests, OthersStay(q),
           \/ requests'[q] = Free
           \/ requests'[q].row = <<>> /\ requests'[q].snapshot <= Len(events)
           \/ KeepsRow(q)
    PROVE  ChainInv'
<1>1. ASSUME NEW p \in Requests, p # q
      PROVE  RowInv(p)' /\ (Working(p)' <=> Working(p)) /\ requests'[p] = requests[p]
  <2>1. requests'[p] = requests[p] /\ RowInv(p)
    BY <1>1 DEF OthersStay, ChainInv
  <2>2. Carries(p)' <=> Carries(p)
    BY <2>1 DEF Carries, Serializable, Visible
  <2> QED
    BY <2>1, <2>2 DEF RowInv, Working
<1>2. /\ RowInv(q)'
      /\ Working(q)' /\ requests'[q].row # <<>> => Working(q) /\ requests[q].row # <<>>
  <2>1. CASE requests'[q] = Free
    BY <2>1 DEF RowInv, Working
  <2>2. CASE requests'[q].row = <<>> /\ requests'[q].snapshot <= Len(events)
    BY <2>2 DEF RowInv
  <2>3. CASE KeepsRow(q)
    <3>1. RowInv(q) /\ Working(q)
      BY <2>3 DEF KeepsRow, ChainInv
    <3>2. Carries(q) => Carries(q)'
      BY <2>3 DEF Carries, KeepsRow, Serializable, Visible
    <3> QED
      BY <2>3, <3>1, <3>2 DEF RowInv, KeepsRow
  <2> QED
    BY <2>1, <2>2, <2>3
<1>3. OneRow'
  BY <1>1, <1>2 DEF ChainInv, OneRow
<1>4. \A p \in Requests : RowInv(p)'
  BY <1>1, <1>2
<1>5. IsChain(events)' /\ (drawn \in Nat)' /\ (\A i \in DOMAIN events : events[i].event.sequence <= drawn)'
  BY DEF ChainInv, IsChain, Continues, ContinuesAt
<1> QED
  BY <1>3, <1>4, <1>5 DEF ChainInv

\* A request on the way to its event carries none.
LEMMA NoRowYet ==
    ASSUME ChainInv, NEW q \in Requests, Working(q),
           requests[q].at \notin {"INSERT", "ENFORCE", "REVOKE", "COMMIT"}
    PROVE  requests[q].row = <<>>
  BY DEF ChainInv, RowInv

LEMMA AppendEventChain ==
    ASSUME TypeInv, ChainInv, NEW q \in Requests, AppendEvent(q)
    PROVE  ChainInv'
<1> DEFINE r == requests[q]
           t == requests'[q]
           row == <<Row(drawn + 1, Serializable(r), Visible(r))>>
<1>1. /\ OthersStay(q) /\ Working(q) /\ ~ChainLocked /\ drawn' = drawn + 1
      /\ t.at \in {"INSERT", "COMMIT"} /\ t.kind = r.kind /\ t.actor = r.actor
      /\ t.snapshot = r.snapshot /\ t.row = row
  BY AppendEventMoves DEF BecomesOneOf, Is
<1>2. events' = events
  BY DEF AppendEvent
<1>3. drawn \in Nat /\ \A i \in DOMAIN events : events[i].event.sequence \in Nat /\ events[i].event.sequence <= drawn
  BY DEF ChainInv, IsChain
<1>4. \A i \in DOMAIN events : events[i].event.sequence < drawn + 1 /\ events[i].event.sequence <= drawn + 1
  BY <1>3
<1>5. RowInv(q)'
  <2>1. drawn + 1 \in 1..(drawn + 1)
    BY <1>3
  <2>2. Carries(q)'
    BY <1>1, <1>2, <1>4, <2>1 DEF Carries, Serializable, Visible
  <2>3. t.snapshot <= Len(events')
    BY <1>1, <1>2 DEF ChainInv, RowInv
  <2> QED
    BY <1>1, <2>2, <2>3 DEF RowInv
<1>6. ASSUME NEW p \in Requests, p # q
      PROVE  RowInv(p)' /\ (Working(p)' => requests'[p].row = <<>>)
  <2>1. requests'[p] = requests[p] /\ (Working(p) => requests[p].row = <<>>) /\ RowInv(p)
    BY <1>1, <1>6 DEF OthersStay, ChainLocked, Working, ChainInv
  <2> QED
    BY <1>2, <2>1 DEF RowInv, Working
<1>7. OneRow'
  BY <1>6 DEF OneRow
<1>8. IsChain(events)' /\ (drawn \in Nat)' /\ (\A i \in DOMAIN events : events[i].event.sequence <= drawn)'
  BY <1>1, <1>2, <1>3, <1>4 DEF ChainInv, IsChain, Continues, ContinuesAt
<1> QED
  BY <1>5, <1>6, <1>7, <1>8 DEF ChainInv

LEMMA CommitChain ==
    ASSUME TypeInv, ChainInv, NEW q \in Requests, Commit(q)
    PROVE  ChainInv'
<1> DEFINE r == requests[q]
           t == requests'[q]
<1>1. /\ OthersStay(q) /\ Working(q) /\ Typed(r) /\ ~Conflicts(r) /\ events' = events \o r.row
      /\ \/ t = Free
         \/ t.row = <<>> /\ t.snapshot = 0
  <2>1. OthersStay(q) /\ Working(q) /\ Typed(r) /\ ~Conflicts(r) /\ events' = events \o r.row
    BY CommitMoves DEF BecomesOneOf
  <2>2. CASE Inside(r)
    <3>1. t = Free
      BY <2>2, CommitMoves
    <3> QED
      BY <2>1, <3>1
  <2>3. CASE ~Inside(r)
    <3>1. Is(t, IF Replaces(r) THEN "LIST" ELSE "INSERT", r.kind, r.actor,
             passwords'[r.actor], FALSE, FALSE, 0, <<>>, r.session, now, {})
      BY <2>3, CommitMoves
    <3> QED
      BY <2>1, <3>1 DEF Is
  <2> QED
    BY <2>2, <2>3
<1>2. drawn' = drawn
  BY DEF Commit
<1>3. /\ IsChain(events) /\ drawn \in Nat /\ RowInv(q)
      /\ \A i \in DOMAIN events : events[i].event.sequence <= drawn
  BY DEF ChainInv
<1>4. Len(events) \in Nat /\ DOMAIN events = 1..Len(events) /\ r.snapshot \in Nat
  BY <1>1, <1>3, ChainLength DEF Typed, RequestType
<1>5. CASE r.row = <<>>
  <2>1. events' = events
    BY <1>1, <1>3, <1>5, ConcatEmptySeq DEF IsChain
  <2> QED
    BY <1>1, <1>2, <1>4, <2>1, ChainStays
<1>6. CASE r.row # <<>>
  <2>1. PICK n \in 1..drawn :
            /\ r.row = <<Row(n, Serializable(r), Visible(r))>>
            /\ \A i \in DOMAIN events : events[i].event.sequence < n
    BY <1>1, <1>3, <1>6 DEF RowInv, Carries
  <2> DEFINE row == Row(n, Serializable(r), Visible(r))
  <2>2. /\ row.event.sequence = n /\ row.event.content = Serializable(r)
        /\ row.event.previous = LastHash(Visible(r))
    BY DEF Row
  <2>3. n \in Nat /\ n <= drawn /\ Serializable(r) \in BOOLEAN
    BY <1>3 DEF Serializable
  <2> HIDE DEF row
  <2>4. events' = events \o <<row>>
    BY <1>1, <2>1 DEF row
  <2>5. IsChain(events')
    <3>1. PICK k \in 0..Len(events) :
              /\ Visible(r) = SubSeq(events, 1, k)
              /\ \A i \in (k + 1)..Len(events) : Serializable(r) /\ ~events[i].event.content
      <4>1. CASE Serializable(r)
        <5>1. r.snapshot \in 0..Len(events) /\ Visible(r) = SubSeq(events, 1, r.snapshot)
          BY <1>1, <1>3, <1>4, <4>1 DEF RowInv, Visible
        <5>2. \A i \in (r.snapshot + 1)..Len(events) : ~events[i].event.content
          BY <1>1, <1>4, <4>1 DEF Conflicts
        <5> QED
          BY <4>1, <5>1, <5>2
      <4>2. CASE ~Serializable(r)
        <5>1. Visible(r) = SubSeq(events, 1, Len(events))
          BY <1>3, <4>2, SubSeqFull DEF Visible, IsChain
        <5>2. /\ Len(events) \in 0..Len(events)
              /\ \A i \in (Len(events) + 1)..Len(events) : FALSE
          BY <1>4
        <5> QED
          BY <5>1, <5>2
      <4> QED
        BY <4>1, <4>2
    <3>2. row.event.previous = LastHash(SubSeq(events, 1, k))
      BY <2>2, <3>1
    <3>3. IsChain(events \o <<row>>)
      BY <1>3, <2>1, <2>2, <2>3, <3>1, <3>2, ChainExtended
    <3> QED
      BY <2>4, <3>3
  <2>6. /\ Len(events') = Len(events) + 1 /\ DOMAIN events' = 1..(Len(events) + 1)
        /\ events'[Len(events) + 1] = row
        /\ \A i \in 1..Len(events) : events'[i] = events[i]
    BY <1>3, <2>4, OneMore
  <2>7. \A i \in DOMAIN events' : events'[i].event.sequence <= drawn'
    <3> TAKE i \in DOMAIN events'
    <3>1. CASE i = Len(events) + 1
      BY <1>2, <2>2, <2>3, <2>6, <3>1
    <3>2. CASE i # Len(events) + 1
      <4>1. i \in 1..Len(events)
        BY <1>4, <2>6, <3>2
      <4> QED
        BY <1>2, <1>3, <1>4, <2>6, <4>1
    <3> QED
      BY <3>1, <3>2
  <2>8. ASSUME NEW p \in Requests
        PROVE  RowInv(p)' /\ (Working(p)' => requests'[p].row = <<>>)
    <3>1. CASE p = q
      BY <1>1, <1>4, <2>6, <3>1 DEF RowInv, Working
    <3>2. CASE p # q
      <4>1. requests'[p] = requests[p] /\ RowInv(p) /\ (Working(p) => requests[p].row = <<>>)
        BY <1>1, <1>6, <3>2 DEF OthersStay, ChainInv, OneRow
      <4>2. Working(p) => requests[p].snapshot <= Len(events) + 1
        <5>1. Working(p) => requests[p].snapshot \in Nat
          BY DEF TypeInv, RequestInv, Typed, RequestType
        <5> QED
          BY <1>4, <4>1, <5>1 DEF RowInv
      <4> QED
        BY <2>6, <4>1, <4>2 DEF RowInv, Working
    <3> QED
      BY <3>1, <3>2
  <2>9. OneRow'
    BY <2>8 DEF OneRow
  <2> QED
    BY <1>2, <1>3, <2>5, <2>7, <2>8, <2>9 DEF ChainInv
<1> QED
  BY <1>5, <1>6

-----------------------------------------------------------------------------
(* ... by the steps that do not extend it *)

LEMMA TickChain ==
    ASSUME ChainInv, Tick
    PROVE  ChainInv'
<1>1. UNCHANGED <<events, drawn, requests>>
  BY DEF Tick
<1>2. \A q \in Requests : RowInv(q)'
  BY <1>1 DEF ChainInv, RowInv, Carries, Working, Serializable, Visible
<1>3. OneRow'
  BY <1>1 DEF ChainInv, OneRow, Working
<1>4. IsChain(events)' /\ (drawn \in Nat)' /\ (\A i \in DOMAIN events : events[i].event.sequence <= drawn)'
  BY <1>1 DEF ChainInv, IsChain, Continues, ContinuesAt
<1> QED
  BY <1>2, <1>3, <1>4 DEF ChainInv

\* A request that has drawn no number may be at any place.
LEMMA EmptyHanded ==
    ASSUME TypeInv, ChainInv, NEW q \in Requests, Working(q),
           requests[q].at \notin {"INSERT", "ENFORCE", "REVOKE", "COMMIT"},
           requests'[q].row = requests[q].row,
           \/ requests'[q].snapshot = requests[q].snapshot
           \/ requests'[q].snapshot \in 0..Len(events)
    PROVE  requests'[q].row = <<>> /\ requests'[q].snapshot <= Len(events)
<1>1. Len(events) \in Nat
  BY ChainLength DEF ChainInv
<1>2. requests[q].snapshot <= Len(events)
  BY DEF ChainInv, RowInv
<1> QED
  BY <1>1, <1>2, NoRowYet

LEMMA BeginAccessChain ==
    ASSUME TypeInv, ChainInv, NEW q \in Requests, NEW a \in Actors, NEW kind \in {"LOGIN", "RESET"},
           BeginAccess(q, a, kind)
    PROVE  ChainInv'
<1>1. OthersStay(q) /\ requests'[q].row = <<>> /\ requests'[q].snapshot = 0
  <2>1. /\ BecomesOneOf(q)
        /\ Is(requests'[q], "CONNECT", kind, a, passwords[a], FALSE, FALSE, 0, <<>>, NoId, 0, {})
    BY BeginAccessMoves
  <2> QED
    BY <2>1 DEF BecomesOneOf, Is
<1>2. 0 <= Len(events) /\ UNCHANGED <<events, drawn>>
  BY ChainLength DEF ChainInv, BeginAccess
<1> QED
  BY <1>1, <1>2, ChainStays

LEMMA FindSessionChain ==
    ASSUME TypeInv, ChainInv, NEW q \in Requests, NEW s \in SessionIds,
           NEW kind \in {"USE", "LOGOUT", "CHANGE"}, FindSession(q, s, kind)
    PROVE  ChainInv'
<1>1. OthersStay(q) /\ requests'[q].row = <<>> /\ requests'[q].snapshot = 0
  <2>1. /\ BecomesOneOf(q)
        /\ Is(requests'[q], "TOUCH", kind, sessions[s].actor, passwords[sessions[s].actor],
              FALSE, FALSE, 0, <<>>, s, 0, {})
    BY FindSessionMoves
  <2> QED
    BY <2>1 DEF BecomesOneOf, Is
<1>2. 0 <= Len(events) /\ UNCHANGED <<events, drawn>>
  BY ChainLength DEF ChainInv, FindSession
<1> QED
  BY <1>1, <1>2, ChainStays

LEMMA LogoutChain ==
    ASSUME TypeInv, ChainInv, NEW q \in Requests, Logout(q)
    PROVE  ChainInv'
<1>1. OthersStay(q) /\ requests'[q] = Free
  BY LogoutMoves DEF BecomesOneOf
<1>2. UNCHANGED <<events, drawn>>
  BY DEF Logout
<1> QED
  BY <1>1, <1>2, ChainStays

LEMMA RefuseChain ==
    ASSUME TypeInv, ChainInv, NEW q \in Requests, Refuse(q)
    PROVE  ChainInv'
<1>1. OthersStay(q) /\ requests'[q] = Free
  BY RefuseMoves DEF BecomesOneOf
<1>2. UNCHANGED <<events, drawn>>
  BY DEF Refuse
<1> QED
  BY <1>1, <1>2, ChainStays

LEMMA FailChain ==
    ASSUME TypeInv, ChainInv, NEW q \in Requests, Fail(q)
    PROVE  ChainInv'
<1>1. OthersStay(q) /\ requests'[q] = Free
  BY FailMoves DEF BecomesOneOf
<1>2. UNCHANGED <<events, drawn>>
  BY DEF Fail
<1> QED
  BY <1>1, <1>2, ChainStays

LEMMA TouchChain ==
    ASSUME TypeInv, ChainInv, NEW q \in Requests, Touch(q)
    PROVE  ChainInv'
<1>1. OthersStay(q) /\ Working(q) /\ requests[q].at \in {"TOUCH", "TOUCH_AGAIN"} /\ Len(events) \in Nat
  BY TouchMoves, ChainLength DEF BecomesOneOf, ChainInv
<1>2. UNCHANGED <<events, drawn>>
  BY DEF Touch
<1>3. \/ requests'[q] = Free
      \/ /\ requests'[q].row = requests[q].row
         /\ \/ requests'[q].snapshot = requests[q].snapshot
            \/ requests'[q].snapshot \in 0..Len(events)
  BY <1>1, TouchMoves DEF Is, ChainInv
<1>4. \/ requests'[q] = Free
      \/ /\ requests'[q].row = <<>>
         /\ requests'[q].snapshot <= Len(events)
  BY <1>1, <1>3, EmptyHanded
<1> QED
  BY <1>1, <1>2, <1>4, ChainStays

LEMMA ConnectChain ==
    ASSUME TypeInv, ChainInv, NEW q \in Requests, Connect(q)
    PROVE  ChainInv'
<1>1. OthersStay(q) /\ Working(q) /\ requests[q].at \in {"CONNECT"} /\ Len(events) \in Nat
  BY ConnectMoves, ChainLength DEF BecomesOneOf, ChainInv
<1>2. UNCHANGED <<events, drawn>>
  BY DEF Connect
<1>3. \/ requests'[q] = Free
      \/ /\ requests'[q].row = requests[q].row
         /\ \/ requests'[q].snapshot = requests[q].snapshot
            \/ requests'[q].snapshot \in 0..Len(events)
  BY <1>1, ConnectMoves DEF Is, ChainInv
<1>4. \/ requests'[q] = Free
      \/ /\ requests'[q].row = <<>>
         /\ requests'[q].snapshot <= Len(events)
  BY <1>1, <1>3, EmptyHanded
<1> QED
  BY <1>1, <1>2, <1>4, ChainStays

LEMMA FindAgainChain ==
    ASSUME TypeInv, ChainInv, NEW q \in Requests, FindAgain(q)
    PROVE  ChainInv'
<1>1. OthersStay(q) /\ Working(q) /\ requests[q].at \in {"FIND_AGAIN"} /\ Len(events) \in Nat
  BY FindAgainMoves, ChainLength DEF BecomesOneOf, ChainInv
<1>2. UNCHANGED <<events, drawn>>
  BY DEF FindAgain
<1>3. \/ requests'[q] = Free
      \/ /\ requests'[q].row = requests[q].row
         /\ requests'[q].snapshot = requests[q].snapshot
  BY <1>1, FindAgainMoves DEF Is
<1>4. \/ requests'[q] = Free
      \/ /\ requests'[q].row = <<>>
         /\ requests'[q].snapshot <= Len(events)
  BY <1>1, <1>3, EmptyHanded
<1> QED
  BY <1>1, <1>2, <1>4, ChainStays

LEMMA LockChain ==
    ASSUME TypeInv, ChainInv, NEW q \in Requests, Lock(q)
    PROVE  ChainInv'
<1>1. OthersStay(q) /\ Working(q) /\ requests[q].at \in {"LOCK"} /\ Len(events) \in Nat
  BY LockMoves, ChainLength DEF BecomesOneOf, ChainInv
<1>2. UNCHANGED <<events, drawn>>
  BY DEF Lock
<1>3. \/ requests'[q] = Free
      \/ /\ requests'[q].row = requests[q].row
         /\ requests'[q].snapshot = requests[q].snapshot
  BY <1>1, LockMoves DEF Is
<1>4. \/ requests'[q] = Free
      \/ /\ requests'[q].row = <<>>
         /\ requests'[q].snapshot <= Len(events)
  BY <1>1, <1>3, EmptyHanded
<1> QED
  BY <1>1, <1>2, <1>4, ChainStays

LEMMA ListAllChain ==
    ASSUME TypeInv, ChainInv, NEW q \in Requests, ListAll(q)
    PROVE  ChainInv'
<1>1. OthersStay(q) /\ Working(q) /\ requests[q].at \in {"LIST"} /\ Len(events) \in Nat
  BY ListAllMoves, ChainLength DEF BecomesOneOf, ChainInv
<1>2. UNCHANGED <<events, drawn>>
  BY DEF ListAll
<1>3. \/ requests'[q] = Free
      \/ /\ requests'[q].row = requests[q].row
         /\ requests'[q].snapshot = requests[q].snapshot
  BY <1>1, ListAllMoves DEF Is
<1>4. \/ requests'[q] = Free
      \/ /\ requests'[q].row = <<>>
         /\ requests'[q].snapshot <= Len(events)
  BY <1>1, <1>3, EmptyHanded
<1> QED
  BY <1>1, <1>2, <1>4, ChainStays

LEMMA InsertSessionChain ==
    ASSUME TypeInv, ChainInv, NEW q \in Requests, InsertSession(q)
    PROVE  ChainInv'
<1>1. OthersStay(q) /\ Working(q)
  BY InsertSessionMoves DEF BecomesOneOf
<1>2. UNCHANGED <<events, drawn>>
  BY DEF InsertSession
<1>3. requests'[q] = Free \/ KeepsRow(q)
  BY <1>1, InsertSessionMoves DEF Is, KeepsRow
<1> QED
  BY <1>1, <1>2, <1>3, ChainStays

LEMMA EnforceLimitChain ==
    ASSUME TypeInv, ChainInv, NEW q \in Requests, EnforceLimit(q)
    PROVE  ChainInv'
<1>1. OthersStay(q) /\ Working(q)
  BY EnforceLimitMoves DEF BecomesOneOf
<1>2. UNCHANGED <<events, drawn>>
  BY DEF EnforceLimit
<1>3. requests'[q] = Free \/ KeepsRow(q)
  BY <1>1, EnforceLimitMoves DEF Is, KeepsRow
<1> QED
  BY <1>1, <1>2, <1>3, ChainStays

LEMMA RevokeOneChain ==
    ASSUME TypeInv, ChainInv, NEW q \in Requests, RevokeOne(q)
    PROVE  ChainInv'
<1>1. OthersStay(q) /\ Working(q)
  BY RevokeOneMoves DEF BecomesOneOf
<1>2. UNCHANGED <<events, drawn>>
  BY DEF RevokeOne
<1>3. requests'[q] = Free \/ KeepsRow(q)
  <2>1. requests[q].at # "REVOKE" => requests[q].row = <<>>
    BY <1>1, RevokeOneMoves, NoRowYet
  <2> QED
    BY <1>1, <2>1, RevokeOneMoves DEF Is, KeepsRow
<1> QED
  BY <1>1, <1>2, <1>3, ChainStays

LEMMA RevokedChain ==
    ASSUME TypeInv, ChainInv, NEW q \in Requests, Revoked(q)
    PROVE  ChainInv'
<1>1. OthersStay(q) /\ Working(q)
  BY RevokedMoves DEF BecomesOneOf
<1>2. UNCHANGED <<events, drawn>>
  BY DEF Revoked
<1>3. requests'[q] = Free \/ KeepsRow(q)
  BY <1>1, RevokedMoves DEF Is, KeepsRow
<1> QED
  BY <1>1, <1>2, <1>3, ChainStays

-----------------------------------------------------------------------------
(* The locks are kept *)

\* A request neither takes a lock nor comes to hold one for another comparison.
KeepsLock(q) ==
    LET r == requests[q]
        t == requests'[q]
    IN  /\ t.locked =>
               /\ Working(q) /\ r.locked /\ t.actor = r.actor /\ t.kind = r.kind
               /\ t.password = r.password
        /\ t.kind = "RESET" /\ t.at \in {"APPEND", "COMMIT"} =>
               /\ Working(q) /\ r.kind = "RESET" /\ r.at \in {"APPEND", "COMMIT"}
               /\ r.actor = t.actor /\ r.doomed = t.doomed

\* Only who holds the lock writes the row, and gives the lock back with it.
WritesLocked(q) ==
    \A a \in Actors :
        \/ passwords'[a] = passwords[a]
        \/ /\ Working(q) /\ requests[q].locked /\ requests[q].actor = a
           /\ requests'[q] = Free \/ ~requests'[q].locked

LEMMA LockStays ==
    ASSUME TypeInv, LockInv, Lasting, NEW q \in Requests, OthersStay(q), WritesLocked(q),
           requests'[q] = Free \/ KeepsLock(q)
    PROVE  LockInv'
<1>1. ASSUME NEW p \in Requests, p # q, Working(p)'
      PROVE  /\ Working(p) /\ requests'[p] = requests[p]
             /\ Compared(requests[p]) /\ Swept(requests[p]) /\ requests[p].actor \in Actors
             /\ Placed(requests[p])
  BY <1>1 DEF OthersStay, Working, LockInv, TypeInv, RequestInv, Typed, RequestType
<1>2. \A s \in Rows' :
          /\ s \in Rows
          /\ sessions'[s].actor = sessions[s].actor /\ sessions'[s].by = sessions[s].by
          /\ sessions[s].revoked => sessions'[s].revoked
  BY DEF Lasting, Grown, Endures
<1>3. ASSUME NEW p \in Requests, Working(p)', p # q
      PROVE  Compared(requests[p])' /\ Swept(requests[p])'
  <2> DEFINE r == requests[p]
  <2>1. requests'[p] = r /\ Compared(r) /\ Swept(r) /\ r.actor \in Actors /\ Working(p)
    BY <1>1, <1>3
  <2>2. r.locked => passwords'[r.actor] = passwords[r.actor]
    BY <1>3, <2>1 DEF WritesLocked, LockInv, OneLock
  <2> HIDE DEF r
  <2>3. Compared(requests[p])'
    BY <2>1, <2>2 DEF Compared
  <2>4. Swept(requests[p])'
    BY <1>2, <2>1 DEF Swept
  <2> QED
    BY <2>3, <2>4
<1>4. ASSUME Working(q)'
      PROVE  Compared(requests[q])' /\ Swept(requests[q])'
  <2> DEFINE r == requests[q]
             t == requests'[q]
  <2>1. /\ KeepsLock(q)
        /\ Working(q) => Compared(r) /\ Swept(r) /\ r.actor \in Actors
    BY <1>4 DEF Working, LockInv, TypeInv, RequestInv, Typed, RequestType
  <2>2. t # Free
    BY <1>4 DEF Working
  <2>3. t.locked => passwords'[r.actor] = passwords[r.actor]
    BY <2>1, <2>2 DEF WritesLocked, KeepsLock
  <2>4. Compared(requests[q])'
    BY <2>1, <2>3 DEF Compared, KeepsLock
  <2>5. Swept(requests[q])'
    BY <1>2, <2>1 DEF Swept, KeepsLock
  <2> QED
    BY <2>4, <2>5
<1>5. OneLock'
  <2>1. \A p \in Requests : p # q /\ Working(p)' => Working(p) /\ requests'[p] = requests[p]
    BY <1>1
  <2>2. Working(q)' /\ requests'[q].locked =>
            Working(q) /\ requests[q].locked /\ requests'[q].actor = requests[q].actor
    BY DEF Working, KeepsLock
  <2> QED
    BY <2>1, <2>2 DEF LockInv, OneLock
<1> QED
  BY <1>3, <1>4, <1>5 DEF LockInv

\* Where no password is written.
LEMMA NothingWritten ==
    ASSUME UNCHANGED passwords, NEW q \in Requests
    PROVE  WritesLocked(q)
  BY DEF WritesLocked

LEMMA TickLock ==
    ASSUME TypeInv, LockInv, Tick
    PROVE  LockInv'
<1>1. UNCHANGED <<passwords, requests, sessions>> /\ Rows' = Rows
  BY DEF Tick, Rows
<1> QED
  BY <1>1 DEF LockInv, OneLock, Compared, Swept, Working

LEMMA BeginAccessLock ==
    ASSUME TypeInv, LockInv, NEW q \in Requests, NEW a \in Actors, NEW kind \in {"LOGIN", "RESET"},
           BeginAccess(q, a, kind)
    PROVE  LockInv'
<1>1. /\ BecomesOneOf(q)
      /\ Is(requests'[q], "CONNECT", kind, a, passwords[a], FALSE, FALSE, 0, <<>>, NoId, 0, {})
  BY BeginAccessMoves
<1>2. KeepsLock(q) /\ OthersStay(q)
  BY <1>1 DEF Is, KeepsLock, BecomesOneOf
<1>3. UNCHANGED passwords
  BY DEF BeginAccess
<1> QED
  BY <1>2, <1>3, BeginAccessType, NothingWritten, LockStays

LEMMA FindSessionLock ==
    ASSUME TypeInv, LockInv, NEW q \in Requests, NEW s \in SessionIds,
           NEW kind \in {"USE", "LOGOUT", "CHANGE"}, FindSession(q, s, kind)
    PROVE  LockInv'
<1>1. /\ BecomesOneOf(q)
      /\ Is(requests'[q], "TOUCH", kind, sessions[s].actor, passwords[sessions[s].actor],
            FALSE, FALSE, 0, <<>>, s, 0, {})
  BY FindSessionMoves
<1>2. KeepsLock(q) /\ OthersStay(q)
  BY <1>1 DEF Is, KeepsLock, BecomesOneOf
<1>3. UNCHANGED passwords
  BY DEF FindSession
<1> QED
  BY <1>2, <1>3, FindSessionType, NothingWritten, LockStays

LEMMA LogoutLock ==
    ASSUME TypeInv, LockInv, NEW q \in Requests, Logout(q)
    PROVE  LockInv'
<1>1. OthersStay(q)
  BY LogoutMoves DEF BecomesOneOf
<1>2. UNCHANGED passwords
  BY DEF Logout
<1>3. requests'[q] = Free \/ KeepsLock(q)
  BY LogoutMoves
<1> QED
  BY <1>1, <1>2, <1>3, LogoutType, NothingWritten, LockStays

LEMMA RefuseLock ==
    ASSUME TypeInv, LockInv, NEW q \in Requests, Refuse(q)
    PROVE  LockInv'
<1>1. OthersStay(q)
  BY RefuseMoves DEF BecomesOneOf
<1>2. UNCHANGED passwords
  BY DEF Refuse
<1>3. requests'[q] = Free \/ KeepsLock(q)
  BY RefuseMoves
<1> QED
  BY <1>1, <1>2, <1>3, RefuseType, NothingWritten, LockStays

LEMMA FailLock ==
    ASSUME TypeInv, LockInv, NEW q \in Requests, Fail(q)
    PROVE  LockInv'
<1>1. OthersStay(q)
  BY FailMoves DEF BecomesOneOf
<1>2. UNCHANGED passwords
  BY DEF Fail
<1>3. requests'[q] = Free \/ KeepsLock(q)
  BY FailMoves
<1> QED
  BY <1>1, <1>2, <1>3, FailType, NothingWritten, LockStays

LEMMA TouchLock ==
    ASSUME TypeInv, IsChain(events), LockInv, NEW q \in Requests, Touch(q)
    PROVE  LockInv'
<1>1. OthersStay(q)
  BY TouchMoves DEF BecomesOneOf
<1>2. UNCHANGED passwords
  BY DEF Touch
<1>3. requests'[q] = Free \/ KeepsLock(q)
  BY TouchMoves DEF Is, KeepsLock
<1> QED
  BY <1>1, <1>2, <1>3, TouchType, NothingWritten, LockStays

LEMMA ConnectLock ==
    ASSUME TypeInv, IsChain(events), LockInv, NEW q \in Requests, Connect(q)
    PROVE  LockInv'
<1>1. OthersStay(q)
  BY ConnectMoves DEF BecomesOneOf
<1>2. UNCHANGED passwords
  BY DEF Connect
<1>3. requests'[q] = Free \/ KeepsLock(q)
  BY ConnectMoves DEF Is, KeepsLock
<1> QED
  BY <1>1, <1>2, <1>3, ConnectType, NothingWritten, LockStays

LEMMA FindAgainLock ==
    ASSUME TypeInv, LockInv, NEW q \in Requests, FindAgain(q)
    PROVE  LockInv'
<1>1. OthersStay(q)
  BY FindAgainMoves DEF BecomesOneOf
<1>2. UNCHANGED passwords
  BY DEF FindAgain
<1>3. requests'[q] = Free \/ KeepsLock(q)
  BY FindAgainMoves DEF Is, KeepsLock
<1> QED
  BY <1>1, <1>2, <1>3, FindAgainType, NothingWritten, LockStays

LEMMA AppendEventLock ==
    ASSUME TypeInv, LockInv, NEW q \in Requests, AppendEvent(q)
    PROVE  LockInv'
<1>1. OthersStay(q)
  BY AppendEventMoves DEF BecomesOneOf
<1>2. UNCHANGED passwords
  BY DEF AppendEvent
<1>3. requests'[q] = Free \/ KeepsLock(q)
  BY AppendEventMoves DEF Is, KeepsLock, Inside
<1> QED
  BY <1>1, <1>2, <1>3, AppendEventType, NothingWritten, LockStays

LEMMA ListAllLock ==
    ASSUME TypeInv, LockInv, NEW q \in Requests, ListAll(q)
    PROVE  LockInv'
<1>1. OthersStay(q)
  BY ListAllMoves DEF BecomesOneOf
<1>2. UNCHANGED passwords
  BY DEF ListAll
<1>3. requests'[q] = Free \/ KeepsLock(q)
  BY ListAllMoves DEF Is, KeepsLock
<1> QED
  BY <1>1, <1>2, <1>3, ListAllType, NothingWritten, LockStays

LEMMA EnforceLimitLock ==
    ASSUME TypeInv, LockInv, NEW q \in Requests, EnforceLimit(q)
    PROVE  LockInv'
<1>1. OthersStay(q)
  BY EnforceLimitMoves DEF BecomesOneOf
<1>2. UNCHANGED passwords
  BY DEF EnforceLimit
<1>3. requests'[q] = Free \/ KeepsLock(q)
  BY EnforceLimitMoves DEF Is, KeepsLock
<1> QED
  BY <1>1, <1>2, <1>3, EnforceLimitType, NothingWritten, LockStays

LEMMA RevokeOneLock ==
    ASSUME TypeInv, LockInv, NEW q \in Requests, RevokeOne(q)
    PROVE  LockInv'
<1>1. OthersStay(q)
  BY RevokeOneMoves DEF BecomesOneOf
<1>2. UNCHANGED passwords
  BY DEF RevokeOne
<1>3. requests'[q] = Free \/ KeepsLock(q)
  BY RevokeOneMoves DEF Is, KeepsLock
<1> QED
  BY <1>1, <1>2, <1>3, RevokeOneType, NothingWritten, LockStays

LEMMA RevokedLock ==
    ASSUME TypeInv, LockInv, NEW q \in Requests, Revoked(q)
    PROVE  LockInv'
<1>1. OthersStay(q)
  BY RevokedMoves DEF BecomesOneOf
<1>2. UNCHANGED passwords
  BY DEF Revoked
<1>3. requests'[q] = Free \/ KeepsLock(q)
  BY RevokedMoves DEF Is, KeepsLock, Inside
<1> QED
  BY <1>1, <1>2, <1>3, RevokedType, NothingWritten, LockStays

LEMMA LockLock ==
    ASSUME TypeInv, LockInv, NEW q \in Requests, Lock(q)
    PROVE  LockInv'
<1> DEFINE r == requests[q]
           t == requests'[q]
<1>1. OthersStay(q) /\ Working(q) /\ ~Locked(r.actor)
  BY LockMoves DEF BecomesOneOf
<1>2. UNCHANGED <<passwords, sessions>> /\ Rows' = Rows
  BY DEF Lock, Rows
<1>3. CASE t = Free
  BY <1>1, <1>2, <1>3, LockType, NothingWritten, LockStays
<1>4. CASE t # Free
  <2>1. /\ r.kind = "RESET" \/ r.password = passwords[r.actor]
        /\ Is(t, "APPEND", r.kind, r.actor, r.password, r.connected, TRUE,
              r.snapshot, r.row, r.session, r.time, Revocable(r))
    BY <1>4, LockMoves
  <2>2. Compared(requests[q])' /\ Swept(requests[q])'
    BY <1>2, <2>1 DEF Is, Compared, Swept, Revocable
  <2>3. ASSUME NEW p \in Requests, p # q, Working(p)'
        PROVE  /\ Working(p) /\ requests'[p] = requests[p]
               /\ Compared(requests[p])' /\ Swept(requests[p])'
               /\ requests[p].locked => requests[p].actor # r.actor
    <3>1. /\ Working(p) /\ requests'[p] = requests[p]
          /\ Compared(requests[p]) /\ Swept(requests[p])
      BY <1>1, <2>3 DEF OthersStay, Working, LockInv
    <3>2. requests[p].locked => requests[p].actor # r.actor
      BY <1>1, <3>1 DEF Locked, Working
    <3> QED
      BY <1>2, <3>1, <3>2 DEF Compared, Swept
  <2>4. OneLock'
    <3>1. t.actor = r.actor
      BY <2>1 DEF Is
    <3> QED
      BY <2>3, <3>1 DEF LockInv, OneLock
  <2> QED
    BY <2>2, <2>3, <2>4 DEF LockInv
<1> QED
  BY <1>3, <1>4

LEMMA CommitLock ==
    ASSUME TypeInv, LockInv, NEW q \in Requests, Commit(q)
    PROVE  LockInv'
<1> DEFINE r == requests[q]
           t == requests'[q]
<1>1. OthersStay(q) /\ Working(q) /\ Typed(r) /\ Placed(r) /\ r.at = "COMMIT"
  BY CommitMoves DEF BecomesOneOf
<1>2. CASE Inside(r)
  <2>1. t = Free /\ UNCHANGED passwords
    BY <1>2, CommitMoves
  <2> QED
    BY <1>1, <2>1, CommitType, NothingWritten, LockStays
<1>3. CASE ~Inside(r)
  <2>1. /\ passwords' = IF Replaces(r) THEN [passwords EXCEPT ![r.actor] = @ + 1] ELSE passwords
        /\ Is(t, IF Replaces(r) THEN "LIST" ELSE "INSERT", r.kind, r.actor,
              passwords'[r.actor], FALSE, FALSE, 0, <<>>, r.session, now, {})
    BY <1>3, CommitMoves
  <2>2. r.locked /\ passwords \in [Actors -> Nat]
    BY <1>1 DEF Placed, TypeInv
  <2>3. WritesLocked(q)
    <3>1. ~t.locked
      BY <2>1 DEF Is
    <3>2. \A a \in Actors : a # r.actor => passwords'[a] = passwords[a]
      BY <2>1, <2>2
    <3> QED
      BY <1>1, <2>2, <3>1, <3>2 DEF WritesLocked
  <2>4. KeepsLock(q)
    BY <2>1 DEF Is, KeepsLock
  <2> QED
    BY <1>1, <2>3, <2>4, CommitType, LockStays
<1> QED
  BY <1>2, <1>3

LEMMA InsertSessionLock ==
    ASSUME TypeInv, LockInv, NEW q \in Requests, InsertSession(q)
    PROVE  LockInv'
<1> DEFINE r == requests[q]
           t == requests'[q]
<1>1. OthersStay(q) /\ Working(q) /\ Typed(r) /\ Placed(r) /\ r.at = "INSERT"
  BY InsertSessionMoves DEF BecomesOneOf
<1>2. PICK n \in 0..MaxStarts :
          /\ Rows = 1..n
          /\ sessions' = [sessions EXCEPT ![n + 1] = NewSession(r)]
          /\ Is(t, "ENFORCE", r.kind, r.actor, r.password, r.connected, r.locked,
                r.snapshot, r.row, n + 1, r.time, r.doomed)
  BY InsertSessionMoves
<1>3. UNCHANGED <<now, passwords>>
  BY DEF InsertSession
<1>4. /\ Grown
      /\ \/ Rows' = Rows \cup {n + 1} /\ sessions'[n + 1] = NewSession(r)
         \/ Rows' = Rows
  BY <1>1, <1>2, <1>3, RowsInserted
<1>5. ASSUME NEW p \in Requests, p # q, Working(p)'
      PROVE  Working(p) /\ requests'[p] = requests[p]
  BY <1>1, <1>5 DEF OthersStay, Working
<1>6. Compared(requests[q])' /\ Swept(requests[q])'
  <2>1. Compared(r)
    BY <1>1 DEF LockInv
  <2> QED
    BY <1>2, <1>3, <2>1 DEF Is, Compared, Swept
<1>7. ASSUME NEW p \in Requests, p # q, Working(p)'
      PROVE  Compared(requests[p])' /\ Swept(requests[p])'
  <2> DEFINE u == requests[p]
  <2>1. /\ Working(p) /\ requests'[p] = u /\ Compared(u) /\ Swept(u) /\ Placed(u)
    BY <1>5, <1>7 DEF LockInv, TypeInv, RequestInv
  <2>2. Compared(requests[p])'
    BY <1>3, <2>1 DEF Compared
  <2>3. ASSUME u.kind = "RESET", u.at \in {"APPEND", "COMMIT"}, NEW s \in Rows',
               sessions'[s].actor = u.actor, ~sessions'[s].revoked, s \notin u.doomed
        PROVE  sessions'[s].by = "CHANGE"
    <3>1. CASE s \in Rows
      <4>1. sessions[s].actor = u.actor /\ ~sessions[s].revoked /\ sessions'[s].by = sessions[s].by
        BY <1>4, <2>3, <3>1 DEF Grown, Endures
      <4> QED
        BY <2>1, <2>3, <3>1, <4>1 DEF Swept
    <3>2. CASE s \notin Rows
      <4>1. sessions'[s] = NewSession(r)
        BY <1>4, <2>3, <3>2
      <4>2. u.actor = Owner /\ u.locked /\ r.actor = Owner
        BY <2>1, <2>3, <4>1 DEF Placed, NewSession
      <4>3. ~r.locked
        BY <1>1, <1>7, <2>1, <4>2 DEF LockInv, OneLock
      <4>4. r.kind = "CHANGE"
        BY <1>1, <4>2, <4>3 DEF Placed, Inside
      <4> QED
        BY <4>1, <4>4 DEF NewSession
    <3> QED
      BY <3>1, <3>2
  <2>4. Swept(requests[p])'
    BY <2>1, <2>3 DEF Swept
  <2> QED
    BY <2>2, <2>4
<1>8. OneLock'
  <2>1. t.locked = r.locked /\ t.actor = r.actor
    BY <1>2 DEF Is
  <2> QED
    BY <1>1, <1>5, <2>1 DEF LockInv, OneLock
<1> QED
  BY <1>6, <1>7, <1>8 DEF LockInv

-----------------------------------------------------------------------------
(* Old sessions are hunted, or spared *)

\* A row that is there to stay is old only if it was.
LEMMA OldBefore ==
    ASSUME Grown, UNCHANGED passwords, NEW s \in Rows, Old(s)'
    PROVE  Old(s)
  BY DEF Grown, Endures, Old

LEMMA SparedStays ==
    ASSUME Grown, spared \subseteq spared', NEW s \in Rows, Spared(s)
    PROVE  Spared(s)'
  BY DEF Grown, Endures, Spared

LEMMA OthersHunt ==
    ASSUME Grown, NEW s \in Rows, NEW q \in Requests, OthersStay(q),
           NEW p \in Requests, p # q, Hunts(p, s)
    PROVE  Hunts(p, s)'
<1>1. requests'[p] = requests[p] /\ sessions'[s].actor = sessions[s].actor /\ sessions'[s].by = sessions[s].by
  BY DEF Grown, Endures, OthersStay
<1> QED
  BY <1>1 DEF Hunts, Working

LEMMA OldStays ==
    ASSUME OldInv, Lasting, UNCHANGED passwords, spared \subseteq spared', NEW q \in Requests, OthersStay(q),
           \A s \in Rows : Old(s) /\ Old(s)' /\ Hunts(q, s) => Spared(s)' \/ Hunts(q, s)'
    PROVE  OldInv'
<1> SUFFICES ASSUME NEW s \in Rows', Old(s)'
             PROVE  Spared(s)' \/ \E p \in Requests : Hunts(p, s)'
  BY DEF OldInv
<1>1. s \in Rows /\ Grown
  BY DEF Lasting
<1>2. Old(s)
  BY <1>1, OldBefore
<1>3. CASE Spared(s)
  BY <1>1, <1>3, SparedStays
<1>4. ASSUME NEW p \in Requests, Hunts(p, s)
      PROVE  Spared(s)' \/ \E u \in Requests : Hunts(u, s)'
  <2>1. CASE p = q
    BY <1>1, <1>2, <1>4, <2>1
  <2>2. CASE p # q
    BY <1>1, <1>4, <2>2, OthersHunt
  <2> QED
    BY <2>1, <2>2
<1> QED
  BY <1>1, <1>2, <1>3, <1>4 DEF OldInv

\* A request that revokes nothing hunts nothing.
LEMMA NoHunter ==
    ASSUME NEW q \in Requests, requests[q].at \notin {"LIST", "REVOKE_ALL"}, NEW s
    PROVE  ~Hunts(q, s)
  BY DEF Hunts

LEMMA TickOld ==
    ASSUME TypeInv, OldInv, Tick
    PROVE  OldInv'
<1>1. UNCHANGED <<passwords, requests, sessions, spared>>
  BY DEF Tick
<1>2. Lasting
  BY TickType
<1> SUFFICES ASSUME NEW s \in Rows', Old(s)'
             PROVE  Spared(s)' \/ \E p \in Requests : Hunts(p, s)'
  BY DEF OldInv
<1>3. s \in Rows /\ Old(s)
  BY <1>1, <1>2, OldBefore DEF Lasting
<1> QED
  BY <1>1, <1>3 DEF OldInv, Spared, Hunts, Working

LEMMA BeginAccessOld ==
    ASSUME TypeInv, OldInv, NEW q \in Requests, NEW a \in Actors, NEW kind \in {"LOGIN", "RESET"},
           BeginAccess(q, a, kind)
    PROVE  OldInv'
<1>1. OthersStay(q) /\ Lasting
  BY BeginAccessMoves, BeginAccessType DEF BecomesOneOf
<1>2. UNCHANGED <<passwords, spared>> /\ ~Working(q)
  BY DEF BeginAccess, Working
<1>3. \A s : ~Hunts(q, s)
  BY <1>2 DEF Hunts
<1> QED
  BY <1>1, <1>2, <1>3, OldStays

LEMMA FindSessionOld ==
    ASSUME TypeInv, OldInv, NEW q \in Requests, NEW s \in SessionIds,
           NEW kind \in {"USE", "LOGOUT", "CHANGE"}, FindSession(q, s, kind)
    PROVE  OldInv'
<1>1. OthersStay(q) /\ Lasting
  BY FindSessionMoves, FindSessionType DEF BecomesOneOf
<1>2. UNCHANGED <<passwords, spared>> /\ ~Working(q)
  BY DEF FindSession, Working
<1>3. \A t : ~Hunts(q, t)
  BY <1>2 DEF Hunts
<1> QED
  BY <1>1, <1>2, <1>3, OldStays

LEMMA TouchOld ==
    ASSUME TypeInv, IsChain(events), OldInv, NEW q \in Requests, Touch(q)
    PROVE  OldInv'
<1>1. OthersStay(q) /\ Lasting /\ requests[q].at \notin {"LIST", "REVOKE_ALL"}
  BY TouchMoves, TouchType DEF BecomesOneOf
<1>2. UNCHANGED <<passwords, spared>>
  BY DEF Touch
<1> QED
  BY <1>1, <1>2, NoHunter, OldStays

LEMMA LogoutOld ==
    ASSUME TypeInv, OldInv, NEW q \in Requests, Logout(q)
    PROVE  OldInv'
<1>1. OthersStay(q) /\ Lasting /\ requests[q].at \notin {"LIST", "REVOKE_ALL"}
  BY LogoutMoves, LogoutType DEF BecomesOneOf
<1>2. UNCHANGED <<passwords, spared>>
  BY DEF Logout
<1> QED
  BY <1>1, <1>2, NoHunter, OldStays

LEMMA RefuseOld ==
    ASSUME TypeInv, OldInv, NEW q \in Requests, Refuse(q)
    PROVE  OldInv'
<1>1. OthersStay(q) /\ Lasting /\ requests[q].at \notin {"LIST", "REVOKE_ALL"}
  BY RefuseMoves, RefuseType DEF BecomesOneOf
<1>2. UNCHANGED <<passwords, spared>>
  BY DEF Refuse
<1> QED
  BY <1>1, <1>2, NoHunter, OldStays

LEMMA ConnectOld ==
    ASSUME TypeInv, IsChain(events), OldInv, NEW q \in Requests, Connect(q)
    PROVE  OldInv'
<1>1. OthersStay(q) /\ Lasting /\ requests[q].at \notin {"LIST", "REVOKE_ALL"}
  BY ConnectMoves, ConnectType DEF BecomesOneOf
<1>2. UNCHANGED <<passwords, spared>>
  BY DEF Connect
<1> QED
  BY <1>1, <1>2, NoHunter, OldStays

LEMMA FindAgainOld ==
    ASSUME TypeInv, OldInv, NEW q \in Requests, FindAgain(q)
    PROVE  OldInv'
<1>1. OthersStay(q) /\ Lasting /\ requests[q].at \notin {"LIST", "REVOKE_ALL"}
  BY FindAgainMoves, FindAgainType DEF BecomesOneOf
<1>2. UNCHANGED <<passwords, spared>>
  BY DEF FindAgain
<1> QED
  BY <1>1, <1>2, NoHunter, OldStays

LEMMA LockOld ==
    ASSUME TypeInv, OldInv, NEW q \in Requests, Lock(q)
    PROVE  OldInv'
<1>1. OthersStay(q) /\ Lasting /\ requests[q].at \notin {"LIST", "REVOKE_ALL"}
  BY LockMoves, LockType DEF BecomesOneOf
<1>2. UNCHANGED <<passwords, spared>>
  BY DEF Lock
<1> QED
  BY <1>1, <1>2, NoHunter, OldStays

LEMMA AppendEventOld ==
    ASSUME TypeInv, OldInv, NEW q \in Requests, AppendEvent(q)
    PROVE  OldInv'
<1>1. OthersStay(q) /\ Lasting /\ requests[q].at \notin {"LIST", "REVOKE_ALL"}
  BY AppendEventMoves, AppendEventType DEF BecomesOneOf
<1>2. UNCHANGED <<passwords, spared>>
  BY DEF AppendEvent
<1> QED
  BY <1>1, <1>2, NoHunter, OldStays

LEMMA EnforceLimitOld ==
    ASSUME TypeInv, OldInv, NEW q \in Requests, EnforceLimit(q)
    PROVE  OldInv'
<1>1. OthersStay(q) /\ Lasting /\ requests[q].at \notin {"LIST", "REVOKE_ALL"}
  BY EnforceLimitMoves, EnforceLimitType DEF BecomesOneOf
<1>2. UNCHANGED <<passwords, spared>>
  BY DEF EnforceLimit
<1> QED
  BY <1>1, <1>2, NoHunter, OldStays

LEMMA ListAllOld ==
    ASSUME TypeInv, OldInv, NEW q \in Requests, ListAll(q)
    PROVE  OldInv'
<1> DEFINE r == requests[q]
<1>1. OthersStay(q) /\ Lasting /\ Working(q)
  BY ListAllMoves, ListAllType DEF BecomesOneOf
<1>2. UNCHANGED <<passwords, spared, sessions, now>>
  BY DEF ListAll
<1>3. Is(requests'[q], "REVOKE_ALL", r.kind, r.actor, r.password, r.connected, r.locked,
         r.snapshot, r.row, r.session, r.time, ListActive(r.actor, now))
  BY ListAllMoves
<1>4. ASSUME NEW s \in Rows, Old(s), Hunts(q, s)
      PROVE  Hunts(q, s)'
  <2>1. s \in ListActive(r.actor, now)
    BY <1>4 DEF ListActive, Old, Live, Hunts
  <2>2. requests'[q] # Free
    BY <1>3 DEF Is, Free
  <2> QED
    BY <1>2, <1>3, <1>4, <2>1, <2>2 DEF Is, Hunts, Working
<1> QED
  BY <1>1, <1>2, <1>4, OldStays

LEMMA RevokeOneOld ==
    ASSUME TypeInv, OldInv, NEW q \in Requests, RevokeOne(q)
    PROVE  OldInv'
<1> DEFINE r == requests[q]
<1>1. OthersStay(q) /\ Lasting /\ Working(q) /\ Related(r)
  BY RevokeOneMoves, RevokeOneType DEF BecomesOneOf
<1>2. UNCHANGED <<passwords, spared, now>>
  BY DEF RevokeOne
<1>3. PICK u \in r.doomed :
          /\ sessions' = [sessions EXCEPT ![u].revoked = TRUE]
          /\ Is(requests'[q], r.at, r.kind, r.actor, r.password, r.connected, r.locked,
                r.snapshot, r.row, r.session, r.time, r.doomed \ {u})
  BY RevokeOneMoves
<1>4. sessions'[u].revoked
  <2>1. u \in Rows
    BY <1>1 DEF Related
  <2> QED
    BY <1>2, <1>3, <2>1, RowsRevoked
<1>5. ASSUME NEW s \in Rows, Old(s)', Hunts(q, s)
      PROVE  Hunts(q, s)'
  <2>1. s # u
    BY <1>4, <1>5 DEF Old, Live, Valid
  <2>2. requests'[q] # Free
    BY <1>3, <1>5 DEF Is, Free, Hunts
  <2>3. sessions'[s].actor = sessions[s].actor /\ sessions'[s].by = sessions[s].by
    BY <1>1 DEF Lasting, Grown, Endures
  <2> QED
    BY <1>3, <1>5, <2>1, <2>2, <2>3 DEF Is, Hunts, Working
<1> QED
  BY <1>1, <1>2, <1>5, OldStays

LEMMA RevokedOld ==
    ASSUME TypeInv, OldInv, NEW q \in Requests, Revoked(q)
    PROVE  OldInv'
<1>1. OthersStay(q) /\ Lasting /\ requests[q].doomed = {} /\ requests[q].at \in {"REVOKE", "REVOKE_ALL"}
  BY RevokedMoves, RevokedType DEF BecomesOneOf
<1>2. UNCHANGED <<passwords, spared>>
  BY DEF Revoked
<1>3. \A s : ~Hunts(q, s)
  BY <1>1 DEF Hunts
<1> QED
  BY <1>1, <1>2, <1>3, OldStays

LEMMA FailOld ==
    ASSUME TypeInv, OldInv, NEW q \in Requests, Fail(q)
    PROVE  OldInv'
<1> DEFINE r == requests[q]
<1>1. OthersStay(q) /\ Lasting
  BY FailMoves, FailType DEF BecomesOneOf
<1>2. /\ UNCHANGED <<passwords, sessions>>
      /\ spared' = spared \cup {<<u.kind, u.actor>> : u \in {r} \cap Unfinished}
  BY DEF Fail
<1>3. ASSUME NEW s \in Rows, Hunts(q, s)
      PROVE  Spared(s)'
  <2>1. r.at \in {"LIST", "REVOKE_ALL"} /\ r.actor = sessions[s].actor
    BY <1>3 DEF Hunts
  <2>2. r \in Unfinished
    BY <2>1 DEF Unfinished
  <2>3. <<r.kind, r.actor>> \in spared'
    BY <1>2, <2>2
  <2> QED
    BY <1>2, <1>3, <2>1, <2>3 DEF Spared, Hunts
<1> QED
  BY <1>1, <1>2, <1>3, OldStays

LEMMA InsertSessionOld ==
    ASSUME TypeInv, LockInv, OldInv, NEW q \in Requests, InsertSession(q)
    PROVE  OldInv'
<1> DEFINE r == requests[q]
<1>1. OthersStay(q) /\ Working(q) /\ Typed(r) /\ Placed(r) /\ r.at = "INSERT" /\ Compared(r)
  BY InsertSessionMoves DEF BecomesOneOf, LockInv
<1>2. PICK n \in 0..MaxStarts :
          /\ Rows = 1..n
          /\ sessions' = [sessions EXCEPT ![n + 1] = NewSession(r)]
  BY InsertSessionMoves
<1>3. UNCHANGED <<now, passwords, spared>>
  BY DEF InsertSession
<1>4. /\ Grown
      /\ \/ Rows' = Rows \cup {n + 1} /\ sessions'[n + 1] = NewSession(r)
         \/ Rows' = Rows
  BY <1>1, <1>2, <1>3, RowsInserted
<1> SUFFICES ASSUME NEW s \in Rows', Old(s)'
             PROVE  Spared(s)' \/ \E p \in Requests : Hunts(p, s)'
  BY DEF OldInv
<1>5. CASE s \in Rows
  <2>1. Old(s)
    BY <1>3, <1>4, <1>5, OldBefore
  <2>2. CASE Spared(s)
    BY <1>3, <1>4, <1>5, <2>2, SparedStays
  <2>3. CASE \E p \in Requests : Hunts(p, s)
    <3>1. PICK p \in Requests : Hunts(p, s)
      BY <2>3
    <3>2. p # q
      BY <1>1, <3>1, NoHunter
    <3> QED
      BY <1>1, <1>4, <1>5, <3>1, <3>2, OthersHunt
  <2> QED
    BY <1>5, <2>1, <2>2, <2>3 DEF OldInv
<1>6. CASE s \notin Rows
  <2>1. sessions'[s] = NewSession(r)
    BY <1>4, <1>6
  <2>2. /\ r.password < passwords[r.actor]
        /\ ~((r.password < passwords[r.actor]) /\ (r.actor = Owner => r.kind = "CHANGE"))
    <3> DEFINE t == NewSession(r)
    <3>1. /\ t.actor = r.actor /\ t.password = r.password /\ t.by = r.kind
          /\ t.late = (r.password < passwords[r.actor])
      BY DEF NewSession
    <3> HIDE DEF t
    <3>2. sessions'[s] = t
      BY <2>1 DEF t
    <3> QED
      BY <1>3, <3>1, <3>2 DEF Old
  <2>3. r.kind = "LOGIN" /\ r.actor = Owner
    BY <1>1, <2>2 DEF Placed
  <2>4. r.locked
    BY <1>1, <2>3 DEF Placed, Inside
  <2>5. r.password = passwords[r.actor] /\ r.password \in Nat
    BY <1>1, <2>3, <2>4 DEF Compared, Typed, RequestType
  <2> QED
    BY <2>2, <2>5
<1> QED
  BY <1>5, <1>6

LEMMA CommitOld ==
    ASSUME TypeInv, LockInv, OldInv, NEW q \in Requests, Commit(q)
    PROVE  OldInv'
<1> DEFINE r == requests[q]
           t == requests'[q]
<1>1. /\ OthersStay(q) /\ Working(q) /\ Typed(r) /\ Placed(r) /\ r.at = "COMMIT"
      /\ Lasting /\ Swept(r) /\ Related(r)
  BY CommitMoves, CommitType DEF BecomesOneOf, LockInv
<1>2. UNCHANGED <<now, spared>>
  BY DEF Commit
<1>3. \A s : ~Hunts(q, s)
  BY <1>1, NoHunter
<1>4. CASE UNCHANGED passwords
  BY <1>1, <1>2, <1>3, <1>4, OldStays
<1>5. CASE passwords' # passwords
  <2>1. ~Inside(r)
    <3>1. Inside(r) => passwords' = passwords
      BY CommitMoves
    <3> QED
      BY <1>5, <3>1
  <2>2. /\ passwords' = IF Replaces(r) THEN [passwords EXCEPT ![r.actor] = @ + 1] ELSE passwords
        /\ sessions' = [s \in SessionIds |->
               IF s \in r.doomed THEN [sessions[s] EXCEPT !.revoked = TRUE] ELSE sessions[s]]
        /\ Is(t, IF Replaces(r) THEN "LIST" ELSE "INSERT", r.kind, r.actor,
              passwords'[r.actor], FALSE, FALSE, 0, <<>>, r.session, now, {})
    BY <2>1, CommitMoves
  <2>3. Replaces(r) /\ t.at = "LIST" /\ t.kind = r.kind /\ t.actor = r.actor /\ t # Free
    BY <1>5, <2>2 DEF Is, Free
  <2>4. \A s \in r.doomed : sessions'[s].revoked
    BY <1>1, <1>2, <2>2, RowsSwept DEF Related
  <2> SUFFICES ASSUME NEW s \in Rows', Old(s)'
               PROVE  Spared(s)' \/ \E p \in Requests : Hunts(p, s)'
    BY DEF OldInv
  <2>5. /\ s \in Rows /\ s \in SessionIds /\ sessions[s] \in SessionType
        /\ sessions'[s].actor = sessions[s].actor /\ sessions'[s].by = sessions[s].by
        /\ Grown /\ Endures(s)
    BY <1>1, RowType DEF Lasting, Grown, Endures
  <2>6. CASE sessions[s].actor = r.actor
    <3>1. CASE r.kind = "CHANGE"
      <4>1. Hunts(q, s)'
        BY <2>3, <2>5, <2>6, <3>1 DEF Hunts, Working
      <4> QED
        BY <4>1
    <3>2. CASE r.kind = "RESET"
      <4>1. s \notin r.doomed
        BY <2>4 DEF Old, Live, Valid
      <4>2. ~sessions[s].revoked
        BY <2>5 DEF Old, Live, Valid, Endures
      <4>3. sessions[s].by = "CHANGE"
        BY <1>1, <2>5, <2>6, <3>2, <4>1, <4>2 DEF Swept
      <4>4. Hunts(q, s)'
        BY <2>3, <2>5, <2>6, <3>2, <4>3 DEF Hunts, Working
      <4> QED
        BY <4>4
    <3> QED
      BY <2>3, <3>1, <3>2 DEF Replaces
  <2>7. CASE sessions[s].actor # r.actor
    <3>1. sessions[s].actor \in Actors /\ passwords \in [Actors -> Nat]
      BY <2>5 DEF SessionType, TypeInv
    <3>2. passwords'[sessions[s].actor] = passwords[sessions[s].actor]
      BY <2>2, <2>3, <2>7, <3>1
    <3>3. Old(s)
      BY <2>5, <3>2 DEF Old, Endures
    <3>4. CASE Spared(s)
      BY <1>2, <2>5, <3>4, SparedStays
    <3>5. CASE \E p \in Requests : Hunts(p, s)
      <4>1. PICK p \in Requests : Hunts(p, s)
        BY <3>5
      <4>2. p # q
        BY <1>3, <4>1
      <4> QED
        BY <1>1, <2>5, <4>1, <4>2, OthersHunt
    <3> QED
      BY <2>5, <3>3, <3>4, <3>5 DEF OldInv
  <2> QED
    BY <2>6, <2>7
<1> QED
  BY <1>4, <1>5

-----------------------------------------------------------------------------
(* The limit is kept *)

LEMMA RowsFinite ==
    ASSUME TypeInv
    PROVE  IsFiniteSet(Rows)
<1>1. PICK n \in 0..MaxStarts : Rows = 1..n
  BY DEF TypeInv
<1> QED
  BY <1>1, BoundType, FS_Interval

\* The least of some numbers
LEMMA Least ==
    ASSUME NEW S \in SUBSET Nat, S # {}
    PROVE  \E m \in S : \A n \in S : m <= n
<1>1. IsWellFoundedOn({ss \in Nat \X Nat : ss[1] < ss[2]}, Nat)
  BY NatLessThanWellFounded DEF OpToRel
<1>2. PICK m \in S : \A n \in S : ~ <<n, m>> \in {ss \in Nat \X Nat : ss[1] < ss[2]}
  BY <1>1, WFMin
<1>3. ASSUME NEW n \in S, n < m
      PROVE  FALSE
  <2> DEFINE ss == <<n, m>>
  <2>1. ss[1] = n /\ ss[2] = m /\ ss \in Nat \X Nat
    OBVIOUS
  <2> QED
    BY <1>2, <1>3, <2>1
<1>4. m \in Nat /\ \A n \in S : n \in Nat
  OBVIOUS
<1> QED
  BY <1>3, <1>4

Younger(A, s) == {t \in A : Older(s, t)}

\* #enforceLimit: of the sessions of an account, those with fewer than Limit
\* younger ones are no more than Limit.
LEMMA FewYounger ==
    ASSUME TypeInv, NEW A \in SUBSET Rows
    PROVE  /\ IsFiniteSet({s \in A : Cardinality(Younger(A, s)) < Limit})
           /\ Cardinality({s \in A : Cardinality(Younger(A, s)) < Limit}) <= Limit
<1> DEFINE n(s) == Cardinality(Younger(A, s))
           K == {s \in A : n(s) < Limit}
<1>1. /\ Limit \in Nat /\ IsFiniteSet(A) /\ IsFiniteSet(K)
      /\ \A s : IsFiniteSet(Younger(A, s)) /\ n(s) \in Nat
  <2>1. IsFiniteSet(A)
    BY RowsFinite, FS_Subset
  <2>2. \A s : Younger(A, s) \in SUBSET A
    BY DEF Younger
  <2>3. \A s : IsFiniteSet(Younger(A, s))
    BY <2>1, <2>2, FS_Subset
  <2>4. \A s : n(s) \in Nat
    BY <2>3, FS_CardinalityType
  <2>5. IsFiniteSet(K)
    <3>1. K \in SUBSET A
      OBVIOUS
    <3> QED
      BY <2>1, <3>1, FS_Subset
  <2> QED
    BY <2>1, <2>3, <2>4, <2>5, BoundType
<1>2. CASE K = {}
  BY <1>1, <1>2, FS_EmptySet
<1>3. CASE K # {}
  <2> HIDE DEF n
  <2> DEFINE room == {Limit - n(s) : s \in K}
  <2>1. room \in SUBSET Nat /\ room # {}
    BY <1>1, <1>3
  <2>2. PICK m \in room : \A i \in room : m <= i
    BY <2>1, Least
  <2>3. PICK s \in K : m = Limit - n(s)
    BY <2>2
  <2>4. \A t \in K : n(t) <= n(s)
    <3> TAKE t \in K
    <3>1. m <= Limit - n(t)
      BY <2>2
    <3> QED
      BY <1>1, <2>3, <3>1
  <2>5. ASSUME NEW t \in K, t # s
        PROVE  t \in Younger(A, s)
    <3>1. /\ s \in Nat /\ t \in Nat /\ s \in A /\ t \in A
          /\ sessions[s].createdAt \in Nat /\ sessions[t].createdAt \in Nat
      BY RowType DEF SessionType
    <3>2. CASE Older(s, t)
      BY <3>1, <3>2 DEF Younger
    <3>3. CASE ~Older(s, t)
      <4>1. Older(t, s)
        BY <2>5, <3>1, <3>3 DEF Older
      <4>2. \A u \in A : Older(s, u) => Older(t, u)
        <5> TAKE u \in A
        <5>1. u \in Nat /\ sessions[u].createdAt \in Nat
          BY RowType DEF SessionType
        <5> QED
          BY <3>1, <4>1, <5>1 DEF Older
      <4>3. ~Older(s, s)
        BY <3>1 DEF Older
      <4>4. Younger(A, s) \cup {s} \in SUBSET Younger(A, t) /\ s \notin Younger(A, s)
        BY <3>1, <4>1, <4>2, <4>3 DEF Younger
      <4>5. Cardinality(Younger(A, s) \cup {s}) = n(s) + 1
        BY <1>1, <4>4, FS_AddElement DEF n
      <4>6. Cardinality(Younger(A, s) \cup {s}) <= n(t)
        BY <1>1, <4>4, FS_Subset DEF n
      <4>7. n(t) <= n(s)
        BY <2>4
      <4> QED
        BY <1>1, <4>5, <4>6, <4>7
    <3> QED
      BY <3>2, <3>3
  <2>6. K \in SUBSET (Younger(A, s) \cup {s})
    BY <2>5
  <2>7. /\ IsFiniteSet(Younger(A, s) \cup {s})
        /\ Cardinality(Younger(A, s) \cup {s}) <= n(s) + 1
    <3>1. /\ IsFiniteSet(Younger(A, s) \cup {s})
          /\ \/ Cardinality(Younger(A, s) \cup {s}) = n(s)
             \/ Cardinality(Younger(A, s) \cup {s}) = n(s) + 1
      BY <1>1, FS_AddElement DEF n
    <3>2. n(s) \in Nat
      BY <1>1
    <3> QED
      BY <3>1, <3>2
  <2>8. Cardinality(K) <= Cardinality(Younger(A, s) \cup {s})
    BY <2>6, <2>7, FS_Subset
  <2>9. Cardinality(K) \in Nat /\ Cardinality(Younger(A, s) \cup {s}) \in Nat
    BY <1>1, <2>7, FS_CardinalityType
  <2>10. n(s) < Limit
    OBVIOUS
  <2>11. Cardinality(K) <= Limit
    <3> HIDE DEF K
    <3> QED
      BY <1>1, <2>7, <2>8, <2>9, <2>10
  <2> QED
    BY <1>1, <2>11 DEF n
<1> QED
  BY <1>2, <1>3

\* What stands of an account does not become more.
LEMMA LimitStays ==
    ASSUME TypeInv, LimitInv,
           \A a \in Actors, F \in SUBSET Requests :
               \E G \in SUBSET Requests : Standing(a, F)' \subseteq Standing(a, G)
    PROVE  LimitInv'
<1> SUFFICES ASSUME NEW a \in Actors, NEW F \in SUBSET Requests
             PROVE  Cardinality(Standing(a, F)') <= Limit
  BY DEF LimitInv
<1>1. PICK G \in SUBSET Requests : Standing(a, F)' \subseteq Standing(a, G)
  OBVIOUS
<1>2. Standing(a, G) \in SUBSET Rows
  BY DEF Standing
<1>3. IsFiniteSet(Standing(a, G))
  BY <1>2, RowsFinite, FS_Subset
<1>4. /\ Cardinality(Standing(a, F)') \in Nat /\ Cardinality(Standing(a, G)) \in Nat
      /\ Cardinality(Standing(a, F)') <= Cardinality(Standing(a, G))
  BY <1>1, <1>3, FS_Subset, FS_CardinalityType
<1>5. Cardinality(Standing(a, G)) <= Limit /\ Limit \in Nat
  BY BoundType DEF LimitInv
<1> QED
  BY <1>4, <1>5

\* Who is counted after a step was counted before.
LEMMA StoodBefore ==
    ASSUME TypeInv, Grown, NEW q \in Requests, OthersStay(q), NEW a \in Actors,
           NEW F \in SUBSET Requests, NEW G \in SUBSET Requests,
           \A p \in Requests : p # q => (p \in F <=> p \in G),
           NEW s \in Rows, s \in Standing(a, F)',
           sessions'[s].issued =>
               \/ sessions[s].issued
               \/ q \in G /\ Enforced(q) /\ requests[q].session = s,
           q \in F /\ Enforced(q)' /\ requests'[q].session = s =>
               q \in G /\ Enforced(q) /\ requests[q].session = s,
           q \in G /\ Enforced(q) /\ s \in requests[q].doomed =>
               q \in F /\ Enforced(q)' /\ s \in requests'[q].doomed
    PROVE  s \in Standing(a, G)
<1>1. sessions[s].actor = a /\ Live(s)
  BY DEF Standing, Grown, Endures
<1>2. \A p \in Requests : p # q => requests'[p] = requests[p] /\ (Enforced(p)' <=> Enforced(p))
  BY DEF OthersStay, Enforced, Working, Inside
<1>3. sessions[s].issued \/ \E p \in G : Enforced(p) /\ requests[p].session = s
  <2>1. CASE sessions'[s].issued
    BY <2>1
  <2>2. CASE ~sessions'[s].issued
    <3>1. PICK p \in F : Enforced(p)' /\ requests'[p].session = s
      BY <2>2 DEF Standing
    <3>2. CASE p = q
      BY <3>1, <3>2
    <3>3. CASE p # q
      BY <1>2, <3>1, <3>3
    <3> QED
      BY <3>2, <3>3
  <2> QED
    BY <2>1, <2>2
<1>4. ASSUME NEW p \in G, Enforced(p), s \in requests[p].doomed
      PROVE  FALSE
  <2>1. \A u \in F : Enforced(u)' => s \notin requests'[u].doomed
    BY DEF Standing
  <2>2. CASE p = q
    BY <1>4, <2>1, <2>2
  <2>3. CASE p # q
    BY <1>2, <1>4, <2>1, <2>3
  <2> QED
    BY <2>2, <2>3
<1> QED
  BY <1>1, <1>3, <1>4 DEF Standing

\* A request that has not counted yet, or is heard of no more
LEMMA LimitIdle ==
    ASSUME TypeInv, LimitInv, Lasting, \A s : IssuesOnly(s), NEW q \in Requests, OthersStay(q),
           ~Enforced(q)'
    PROVE  LimitInv'
<1>1. ASSUME NEW a \in Actors, NEW F \in SUBSET Requests
      PROVE  Standing(a, F)' \subseteq Standing(a, F \ {q})
  <2> SUFFICES ASSUME NEW s \in Standing(a, F)'
               PROVE  s \in Standing(a, F \ {q})
    OBVIOUS
  <2>1. s \in Rows /\ Grown
    BY DEF Standing, Lasting
  <2>2. sessions'[s].issued => sessions[s].issued
    <3>1. IssuesOnly(0)
      OBVIOUS
    <3>2. s # 0
      BY <2>1, RowType
    <3> QED
      BY <2>1, <3>1, <3>2 DEF IssuesOnly
  <2> DEFINE G == F \ {q}
  <2>3. G \in SUBSET Requests /\ q \notin G /\ \A p \in Requests : p # q => (p \in F <=> p \in G)
    OBVIOUS
  <2> HIDE DEF G
  <2>4. s \in Standing(a, G)
    BY <2>1, <2>2, <2>3, StoodBefore
  <2> QED
    BY <2>4 DEF G
<1>2. \A F \in SUBSET Requests : F \ {q} \in SUBSET Requests
  OBVIOUS
<1> QED
  BY <1>1, <1>2, LimitStays

\* A request that hears of its session
LEMMA LimitIssues ==
    ASSUME TypeInv, LimitInv, Lasting, NEW q \in Requests, OthersStay(q), IssuesOnly(requests[q].session),
           Enforced(q), requests[q].doomed = {}, ~Enforced(q)'
    PROVE  LimitInv'
<1>1. ASSUME NEW a \in Actors, NEW F \in SUBSET Requests
      PROVE  Standing(a, F)' \subseteq Standing(a, F \cup {q})
  <2> SUFFICES ASSUME NEW s \in Standing(a, F)'
               PROVE  s \in Standing(a, F \cup {q})
    OBVIOUS
  <2>1. s \in Rows /\ Grown
    BY DEF Standing, Lasting
  <2>2. sessions'[s].issued => sessions[s].issued \/ requests[q].session = s
    BY <2>1 DEF IssuesOnly
  <2> DEFINE G == F \cup {q}
  <2>3. G \in SUBSET Requests /\ q \in G /\ \A p \in Requests : p # q => (p \in F <=> p \in G)
    OBVIOUS
  <2> HIDE DEF G
  <2>4. s \in Standing(a, G)
    BY <2>1, <2>2, <2>3, StoodBefore
  <2> QED
    BY <2>4 DEF G
<1>2. \A F \in SUBSET Requests : F \cup {q} \in SUBSET Requests
  OBVIOUS
<1> QED
  BY <1>1, <1>2, LimitStays

\* A request that goes on with what it has counted
LEMMA LimitGoesOn ==
    ASSUME TypeInv, LimitInv, Lasting, \A s : IssuesOnly(s), NEW q \in Requests, OthersStay(q),
           Enforced(q), Enforced(q)', requests'[q].session = requests[q].session,
           \A s \in requests[q].doomed : s \in requests'[q].doomed \/ sessions'[s].revoked
    PROVE  LimitInv'
<1>1. ASSUME NEW a \in Actors, NEW F \in SUBSET Requests
      PROVE  Standing(a, F)' \subseteq Standing(a, F)
  <2> SUFFICES ASSUME NEW s \in Standing(a, F)'
               PROVE  s \in Standing(a, F)
    OBVIOUS
  <2>1. s \in Rows /\ Grown /\ ~sessions'[s].revoked
    BY DEF Standing, Lasting, Live, Valid
  <2>2. sessions'[s].issued => sessions[s].issued
    <3>1. IssuesOnly(0)
      OBVIOUS
    <3>2. s # 0
      BY <2>1, RowType
    <3> QED
      BY <2>1, <3>1, <3>2 DEF IssuesOnly
  <2> QED
    BY <2>1, <2>2, StoodBefore
<1> QED
  BY <1>1, LimitStays

LEMMA TickLimit ==
    ASSUME TypeInv, LimitInv, Tick
    PROVE  LimitInv'
<1>1. UNCHANGED <<requests, sessions>> /\ Lasting
  BY RowsAge DEF Tick
<1>2. ASSUME NEW a \in Actors, NEW F \in SUBSET Requests
      PROVE  Standing(a, F)' \subseteq Standing(a, F)
  BY <1>1 DEF Standing, Lasting, Grown, Endures, Enforced, Working, Inside
<1> QED
  BY <1>2, LimitStays

LEMMA BeginAccessLimit ==
    ASSUME TypeInv, LimitInv, NEW q \in Requests, NEW a \in Actors, NEW kind \in {"LOGIN", "RESET"},
           BeginAccess(q, a, kind)
    PROVE  LimitInv'
<1>1. /\ BecomesOneOf(q)
      /\ Is(requests'[q], "CONNECT", kind, a, passwords[a], FALSE, FALSE, 0, <<>>, NoId, 0, {})
  BY BeginAccessMoves
<1>2. OthersStay(q) /\ ~Enforced(q)'
  BY <1>1 DEF Is, Enforced, BecomesOneOf
<1>3. Lasting /\ \A s : IssuesOnly(s)
  BY RowsStay DEF BeginAccess
<1> QED
  BY <1>2, <1>3, LimitIdle

LEMMA FindSessionLimit ==
    ASSUME TypeInv, LimitInv, NEW q \in Requests, NEW s \in SessionIds,
           NEW kind \in {"USE", "LOGOUT", "CHANGE"}, FindSession(q, s, kind)
    PROVE  LimitInv'
<1>1. /\ BecomesOneOf(q)
      /\ Is(requests'[q], "TOUCH", kind, sessions[s].actor, passwords[sessions[s].actor],
            FALSE, FALSE, 0, <<>>, s, 0, {})
  BY FindSessionMoves
<1>2. OthersStay(q) /\ ~Enforced(q)'
  BY <1>1 DEF Is, Enforced, BecomesOneOf
<1>3. Lasting /\ \A t : IssuesOnly(t)
  BY RowsStay DEF FindSession
<1> QED
  BY <1>2, <1>3, LimitIdle

LEMMA RefuseLimit ==
    ASSUME TypeInv, LimitInv, NEW q \in Requests, Refuse(q)
    PROVE  LimitInv'
<1>1. OthersStay(q) /\ Related(requests[q])
  BY RefuseMoves DEF BecomesOneOf
<1>2. ~Enforced(q)'
  BY RefuseMoves DEF Enforced, Working
<1>3. Lasting /\ \A s : IssuesOnly(s)
  BY RowsStay DEF Refuse
<1> QED
  BY <1>1, <1>2, <1>3, LimitIdle

LEMMA FailLimit ==
    ASSUME TypeInv, LimitInv, NEW q \in Requests, Fail(q)
    PROVE  LimitInv'
<1>1. OthersStay(q) /\ Related(requests[q])
  BY FailMoves DEF BecomesOneOf
<1>2. ~Enforced(q)'
  BY FailMoves DEF Enforced, Working
<1>3. Lasting /\ \A s : IssuesOnly(s)
  BY RowsStay DEF Fail
<1> QED
  BY <1>1, <1>2, <1>3, LimitIdle

LEMMA LogoutLimit ==
    ASSUME TypeInv, LimitInv, NEW q \in Requests, Logout(q)
    PROVE  LimitInv'
<1>1. OthersStay(q) /\ Related(requests[q])
  BY LogoutMoves DEF BecomesOneOf
<1>2. ~Enforced(q)'
  BY LogoutMoves DEF Enforced, Working
<1>3. Lasting /\ \A s : IssuesOnly(s)
  <2>1. requests[q].session \in Rows
    BY <1>1, LogoutMoves DEF Related
  <2> QED
    BY <2>1, RowsRevoked, RowsStay DEF Logout
<1> QED
  BY <1>1, <1>2, <1>3, LimitIdle

LEMMA TouchLimit ==
    ASSUME TypeInv, IsChain(events), LimitInv, NEW q \in Requests, Touch(q)
    PROVE  LimitInv'
<1>1. OthersStay(q) /\ Related(requests[q])
  BY TouchMoves DEF BecomesOneOf
<1>2. ~Enforced(q)'
  BY TouchMoves DEF Is, Enforced, Working
<1>3. Lasting /\ \A s : IssuesOnly(s)
  <2>1. requests[q].session \in Rows
    BY <1>1, TouchMoves DEF Related
  <2> QED
    BY <2>1, RowsTouched DEF Touch
<1> QED
  BY <1>1, <1>2, <1>3, LimitIdle

LEMMA ConnectLimit ==
    ASSUME TypeInv, IsChain(events), LimitInv, NEW q \in Requests, Connect(q)
    PROVE  LimitInv'
<1>1. OthersStay(q) /\ Related(requests[q])
  BY ConnectMoves DEF BecomesOneOf
<1>2. ~Enforced(q)'
  BY ConnectMoves DEF Is, Enforced, Working
<1>3. Lasting /\ \A s : IssuesOnly(s)
  BY RowsStay DEF Connect
<1> QED
  BY <1>1, <1>2, <1>3, LimitIdle

LEMMA FindAgainLimit ==
    ASSUME TypeInv, LimitInv, NEW q \in Requests, FindAgain(q)
    PROVE  LimitInv'
<1>1. OthersStay(q) /\ Related(requests[q])
  BY FindAgainMoves DEF BecomesOneOf
<1>2. ~Enforced(q)'
  BY FindAgainMoves DEF Is, Enforced, Working
<1>3. Lasting /\ \A s : IssuesOnly(s)
  BY RowsStay DEF FindAgain
<1> QED
  BY <1>1, <1>2, <1>3, LimitIdle

LEMMA LockLimit ==
    ASSUME TypeInv, LimitInv, NEW q \in Requests, Lock(q)
    PROVE  LimitInv'
<1>1. OthersStay(q) /\ Related(requests[q])
  BY LockMoves DEF BecomesOneOf
<1>2. ~Enforced(q)'
  BY LockMoves DEF Is, Enforced, Working
<1>3. Lasting /\ \A s : IssuesOnly(s)
  BY RowsStay DEF Lock
<1> QED
  BY <1>1, <1>2, <1>3, LimitIdle

LEMMA ListAllLimit ==
    ASSUME TypeInv, LimitInv, NEW q \in Requests, ListAll(q)
    PROVE  LimitInv'
<1>1. OthersStay(q) /\ Related(requests[q])
  BY ListAllMoves DEF BecomesOneOf
<1>2. ~Enforced(q)'
  BY ListAllMoves DEF Is, Enforced, Working
<1>3. Lasting /\ \A s : IssuesOnly(s)
  BY RowsStay DEF ListAll
<1> QED
  BY <1>1, <1>2, <1>3, LimitIdle

LEMMA AppendEventLimit ==
    ASSUME TypeInv, LimitInv, NEW q \in Requests, AppendEvent(q)
    PROVE  LimitInv'
<1>1. OthersStay(q) /\ Related(requests[q])
  BY AppendEventMoves DEF BecomesOneOf
<1>2. ~Enforced(q)'
  <2> DEFINE r == requests[q]
  <2>1. Is(requests'[q], IF Inside(r) THEN "INSERT" ELSE "COMMIT", r.kind, r.actor, r.password,
           r.connected, r.locked, r.snapshot,
           <<Row(drawn + 1, Serializable(r), Visible(r))>>, r.session, now, r.doomed)
    BY AppendEventMoves
  <2> QED
    BY <2>1 DEF Is, Enforced, Inside
<1>3. Lasting /\ \A s : IssuesOnly(s)
  BY RowsStay DEF AppendEvent
<1> QED
  BY <1>1, <1>2, <1>3, LimitIdle

LEMMA CommitLimit ==
    ASSUME TypeInv, LimitInv, NEW q \in Requests, Commit(q)
    PROVE  LimitInv'
<1> DEFINE r == requests[q]
           t == requests'[q]
<1>1. /\ OthersStay(q) /\ Working(q) /\ Typed(r) /\ Placed(r) /\ Related(r) /\ r.at = "COMMIT"
      /\ Lasting /\ now' = now
  BY CommitMoves, CommitType DEF BecomesOneOf, Commit
<1>2. CASE Inside(r)
  <2>1. t = Free /\ sessions' = [sessions EXCEPT ![r.session].issued = TRUE]
    BY <1>2, CommitMoves
  <2>2. Enforced(q) /\ r.doomed = {} /\ Owned(r)
    BY <1>1, <1>2 DEF Enforced, Placed, Inside, Related
  <2>3. ~Enforced(q)'
    BY <2>1 DEF Enforced, Working
  <2>4. IssuesOnly(r.session)
    BY <1>1, <2>1, <2>2, RowsIssued DEF Owned
  <2> QED
    BY <1>1, <2>2, <2>3, <2>4, LimitIssues
<1>3. CASE ~Inside(r)
  <2>1. /\ sessions' = [s \in SessionIds |->
               IF s \in r.doomed THEN [sessions[s] EXCEPT !.revoked = TRUE] ELSE sessions[s]]
        /\ Is(t, IF Replaces(r) THEN "LIST" ELSE "INSERT", r.kind, r.actor,
              passwords'[r.actor], FALSE, FALSE, 0, <<>>, r.session, now, {})
    BY <1>3, CommitMoves
  <2>2. r.doomed \in SUBSET Rows
    BY <1>1 DEF Related
  <2>3. \A s : IssuesOnly(s)
    BY <1>1, <2>1, <2>2, RowsSwept
  <2>4. ~Enforced(q)'
    BY <2>1 DEF Is, Enforced
  <2> QED
    BY <1>1, <2>3, <2>4, LimitIdle
<1> QED
  BY <1>2, <1>3

LEMMA RevokeOneLimit ==
    ASSUME TypeInv, LimitInv, NEW q \in Requests, RevokeOne(q)
    PROVE  LimitInv'
<1> DEFINE r == requests[q]
           t == requests'[q]
<1>1. /\ OthersStay(q) /\ Working(q) /\ Related(r) /\ r.at \in {"REVOKE", "REVOKE_ALL"}
      /\ now' = now
  BY RevokeOneMoves DEF BecomesOneOf, RevokeOne
<1>2. PICK u \in r.doomed :
          /\ sessions' = [sessions EXCEPT ![u].revoked = TRUE]
          /\ Is(t, r.at, r.kind, r.actor, r.password, r.connected, r.locked,
                r.snapshot, r.row, r.session, r.time, r.doomed \ {u})
  BY RevokeOneMoves
<1>3. Lasting /\ (\A s : IssuesOnly(s)) /\ sessions'[u].revoked
  <2>1. u \in Rows
    BY <1>1 DEF Related
  <2> QED
    BY <1>1, <1>2, <2>1, RowsRevoked
<1>4. t.at = r.at /\ t.session = r.session /\ t.doomed = r.doomed \ {u} /\ t # Free
  <2>1. t.at \in Places
    BY <1>2 DEF Is, Typed, RequestType
  <2> QED
    BY <1>2, <2>1 DEF Is, Free, Places
<1>5. CASE r.at = "REVOKE"
  <2>1. Enforced(q) /\ Enforced(q)'
    BY <1>1, <1>4, <1>5 DEF Enforced, Working
  <2> QED
    BY <1>1, <1>3, <1>4, <2>1, LimitGoesOn
<1>6. CASE r.at = "REVOKE_ALL"
  <2>1. ~Enforced(q)'
    BY <1>4, <1>6 DEF Enforced
  <2> QED
    BY <1>1, <1>3, <2>1, LimitIdle
<1> QED
  BY <1>1, <1>5, <1>6

LEMMA RevokedLimit ==
    ASSUME TypeInv, LimitInv, NEW q \in Requests, Revoked(q)
    PROVE  LimitInv'
<1> DEFINE r == requests[q]
           t == requests'[q]
<1>1. /\ OthersStay(q) /\ Working(q) /\ Related(r) /\ r.doomed = {}
      /\ UNCHANGED now
  BY RevokedMoves DEF BecomesOneOf, Revoked
<1>2. CASE r.at = "REVOKE_ALL" /\ sessions' = sessions /\ t = Free
  <2>1. ~Enforced(q)'
    BY <1>2 DEF Enforced, Working
  <2> QED
    BY <1>1, <1>2, <2>1, RowsStay, LimitIdle
<1>3. CASE /\ r.at = "REVOKE_ALL" /\ r.kind = "CHANGE" /\ sessions' = sessions
           /\ Is(t, "INSERT", r.kind, r.actor, r.password, r.connected, r.locked,
                 r.snapshot, r.row, r.session, now, r.doomed)
  <2>1. ~Enforced(q)'
    BY <1>3 DEF Is, Enforced
  <2> QED
    BY <1>1, <1>3, <2>1, RowsStay, LimitIdle
<1>4. CASE /\ r.at = "REVOKE" /\ Inside(r) /\ sessions' = sessions
           /\ Is(t, "COMMIT", r.kind, r.actor, r.password, r.connected, r.locked,
                 r.snapshot, r.row, r.session, r.time, r.doomed)
  <2>1. Enforced(q) /\ Enforced(q)' /\ t.session = r.session
    BY <1>1, <1>4 DEF Is, Enforced, Working, Free, Inside
  <2> QED
    BY <1>1, <1>4, <2>1, RowsStay, LimitGoesOn
<1>5. CASE /\ r.at = "REVOKE" /\ ~Inside(r) /\ t = Free
           /\ sessions' = [sessions EXCEPT ![r.session].issued = TRUE]
  <2>1. Enforced(q) /\ ~Enforced(q)' /\ Owned(r)
    BY <1>1, <1>5 DEF Enforced, Working, Related
  <2>2. Lasting /\ IssuesOnly(r.session)
    BY <1>1, <1>5, <2>1, RowsIssued DEF Owned
  <2> QED
    BY <1>1, <2>1, <2>2, LimitIssues
<1> QED
  BY <1>2, <1>3, <1>4, <1>5, RevokedMoves

LEMMA InsertSessionLimit ==
    ASSUME TypeInv, LimitInv, NEW q \in Requests, InsertSession(q)
    PROVE  LimitInv'
<1> DEFINE r == requests[q]
           t == requests'[q]
<1>1. OthersStay(q) /\ Working(q) /\ Typed(r) /\ now' = now
  BY InsertSessionMoves DEF BecomesOneOf, InsertSession
<1>2. PICK n \in 0..MaxStarts :
          /\ Rows = 1..n
          /\ sessions' = [sessions EXCEPT ![n + 1] = NewSession(r)]
          /\ Is(t, "ENFORCE", r.kind, r.actor, r.password, r.connected, r.locked,
                r.snapshot, r.row, n + 1, r.time, r.doomed)
  BY InsertSessionMoves
<1>3. /\ Grown /\ \A s : IssuesOnly(s)
      /\ \/ Rows' = Rows \cup {n + 1} /\ sessions'[n + 1] = NewSession(r)
         \/ Rows' = Rows
  BY <1>1, <1>2, RowsInserted
<1>4. ~Enforced(q)'
  BY <1>2 DEF Is, Enforced
<1>5. ASSUME NEW a \in Actors, NEW F \in SUBSET Requests, NEW s \in Standing(a, F)'
      PROVE  s \in Rows
  <2> SUFFICES ASSUME s \notin Rows
               PROVE  FALSE
    OBVIOUS
  <2>1. s \in Rows' /\ s \in SessionIds
    BY <1>5 DEF Standing, Rows
  <2>2. sessions'[s] = NewSession(r)
    BY <1>3, <2>1
  <2>3. ~sessions'[s].issued
    BY <2>2 DEF NewSession
  <2>4. PICK p \in F : Enforced(p)' /\ requests'[p].session = s
    BY <1>5, <2>3 DEF Standing
  <2>5. p \in Requests /\ p # q
    BY <1>4, <2>4
  <2>6. requests'[p] = requests[p] /\ Enforced(p)
    BY <1>1, <2>4, <2>5 DEF OthersStay, Enforced, Working, Inside
  <2>7. Owned(requests[p])
    BY <2>5, <2>6 DEF Enforced, TypeInv, RequestInv, Related
  <2> QED
    BY <2>1, <2>4, <2>6, <2>7 DEF Owned
<1>6. ASSUME NEW a \in Actors, NEW F \in SUBSET Requests
      PROVE  Standing(a, F)' \subseteq Standing(a, F \ {q})
  <2> SUFFICES ASSUME NEW s \in Standing(a, F)'
               PROVE  s \in Standing(a, F \ {q})
    OBVIOUS
  <2>1. s \in Rows
    BY <1>5
  <2>2. sessions'[s].issued => sessions[s].issued
    <3>1. IssuesOnly(0) /\ s # 0
      BY <1>3, <2>1, RowType
    <3> QED
      BY <2>1, <3>1 DEF IssuesOnly
  <2> DEFINE G == F \ {q}
  <2>3. G \in SUBSET Requests /\ q \notin G /\ \A p \in Requests : p # q => (p \in F <=> p \in G)
    OBVIOUS
  <2> HIDE DEF G
  <2>4. s \in Standing(a, G)
    BY <1>1, <1>3, <1>4, <2>1, <2>2, <2>3, StoodBefore
  <2> QED
    BY <2>4 DEF G
<1>7. \A F \in SUBSET Requests : F \ {q} \in SUBSET Requests
  OBVIOUS
<1> QED
  BY <1>6, <1>7, LimitStays

LEMMA EnforceLimitLimit ==
    ASSUME TypeInv, LimitInv, NEW q \in Requests, EnforceLimit(q)
    PROVE  LimitInv'
<1> DEFINE r == requests[q]
           t == requests'[q]
<1>1. /\ OthersStay(q) /\ Working(q) /\ Typed(r) /\ Related(r) /\ r.at = "ENFORCE"
      /\ UNCHANGED <<now, sessions>>
      /\ Is(t, "REVOKE", r.kind, r.actor, r.password, r.connected, r.locked,
            r.snapshot, r.row, r.session, r.time, Excess(r.actor, r.time))
  BY EnforceLimitMoves DEF BecomesOneOf, EnforceLimit
<1>2. Lasting /\ \A s : IssuesOnly(s)
  BY <1>1, RowsStay
<1>3. /\ Enforced(q)' /\ ~Enforced(q)
      /\ t.session = r.session /\ t.doomed = Excess(r.actor, r.time)
  BY <1>1 DEF Is, Enforced, Working, Free
<1> SUFFICES ASSUME NEW a \in Actors, NEW F \in SUBSET Requests
             PROVE  Cardinality(Standing(a, F)') <= Limit
  BY DEF LimitInv
<1>4. CASE q \in F /\ a = r.actor
  <2> DEFINE A == ListActive(a, r.time)
             K == {s \in A : Cardinality(Younger(A, s)) < Limit}
  <2>1. A \in SUBSET Rows
    BY DEF ListActive
  <2>2. Standing(a, F)' \subseteq K
    <3> SUFFICES ASSUME NEW s \in Standing(a, F)'
                 PROVE  s \in K
      OBVIOUS
    <3>1. /\ s \in Rows /\ sessions[s].actor = a /\ Live(s)
          /\ s \notin t.doomed
      BY <1>1, <1>2, <1>3, <1>4 DEF Standing, Lasting, Live, Valid
    <3>2. s \in A
      <4>1. /\ sessions[s].idleExpiresAt \in Nat /\ sessions[s].absoluteExpiresAt \in Nat
            /\ r.time \in Nat /\ now \in Nat /\ r.time <= now
        BY <1>1, <3>1, RowType DEF SessionType, Typed, RequestType, TypeInv, Related
      <4> QED
        BY <3>1, <4>1 DEF Live, Valid, ListActive
    <3>3. ~(Cardinality({u \in A : Older(s, u)}) >= Limit)
      BY <1>3, <1>4, <3>1, <3>2 DEF Excess
    <3>4. Cardinality({u \in A : Older(s, u)}) \in Nat /\ Limit \in Nat
      <4>1. {u \in A : Older(s, u)} \in SUBSET Rows
        BY <2>1
      <4> QED
        BY <4>1, RowsFinite, FS_Subset, FS_CardinalityType, BoundType
    <3>5. Younger(A, s) = {u \in A : Older(s, u)}
      BY DEF Younger
    <3> HIDE DEF A
    <3> QED
      BY <3>2, <3>3, <3>4, <3>5
  <2>3. IsFiniteSet(K) /\ Cardinality(K) <= Limit
    BY <2>1, FewYounger
  <2> HIDE DEF K
  <2>4. /\ Cardinality(Standing(a, F)') \in Nat /\ Cardinality(K) \in Nat
        /\ Cardinality(Standing(a, F)') <= Cardinality(K)
    BY <2>2, <2>3, FS_Subset, FS_CardinalityType
  <2> QED
    BY <2>3, <2>4, BoundType
<1>5. CASE ~(q \in F /\ a = r.actor)
  <2> DEFINE G == F \ {q}
  <2>1. G \in SUBSET Requests /\ q \notin G /\ \A p \in Requests : p # q => (p \in F <=> p \in G)
    OBVIOUS
  <2>2. Standing(a, F)' \subseteq Standing(a, G)
    <3> HIDE DEF G
    <3> SUFFICES ASSUME NEW s \in Standing(a, F)'
                 PROVE  s \in Standing(a, G)
      OBVIOUS
    <3>1. s \in Rows /\ Grown /\ sessions[s].actor = a
      BY <1>1, <1>2 DEF Standing, Lasting
    <3>2. q \in F => t.session # s
      <4>1. Owned(r)
        BY <1>1 DEF Related
      <4> QED
        BY <1>3, <1>5, <3>1, <4>1, RowType DEF Owned
    <3> QED
      BY <1>1, <1>3, <2>1, <3>1, <3>2, StoodBefore
  <2>3. Standing(a, G) \in SUBSET Rows
    BY DEF Standing
  <2> HIDE DEF G
  <2>4. IsFiniteSet(Standing(a, G))
    BY <2>3, RowsFinite, FS_Subset
  <2>5. /\ Cardinality(Standing(a, F)') \in Nat /\ Cardinality(Standing(a, G)) \in Nat
        /\ Cardinality(Standing(a, F)') <= Cardinality(Standing(a, G))
    BY <2>2, <2>4, FS_Subset, FS_CardinalityType
  <2>6. Cardinality(Standing(a, G)) <= Limit
    BY <2>1 DEF LimitInv
  <2> QED
    BY <2>5, <2>6, BoundType
<1> QED
  BY <1>4, <1>5

-----------------------------------------------------------------------------
(* The invariant is inductive *)

LEMMA InitIInv == Init => IInv
<1> SUFFICES ASSUME Init
             PROVE  IInv
  OBVIOUS
<1>1. \A s \in SessionIds : sessions[s] = NoSession
  BY DEF Init
<1>2. Rows = {}
  BY <1>1 DEF Rows
<1>3. \A q \in Requests : ~Working(q)
  BY DEF Init, Working
<1>4. TypeInv
  <2>1. \E n \in 0..MaxStarts : Rows = 1..n
    <3>1. 0 \in 0..MaxStarts /\ Rows = 1..0
      BY <1>2, BoundType
    <3> QED
      BY <3>1
  <2>2. \A q \in Requests : RequestInv(q)
    BY <1>3 DEF RequestInv
  <2>3. requests \in [Requests -> {requests[q] : q \in Requests}]
    BY DEF Init
  <2>4. now \in Nat /\ passwords \in [Actors -> Nat]
    BY DEF Init
  <2>5. sessions \in [SessionIds -> SessionType \cup {NoSession}]
    BY DEF Init
  <2> QED
    BY <2>1, <2>2, <2>3, <2>4, <2>5 DEF TypeInv
<1>5. ChainInv
  <2>1. events = <<>> /\ drawn = 0
    BY DEF Init
  <2>2. DOMAIN events = {} /\ events \in Seq(Range(events))
    BY <2>1
  <2>3. IsChain(events)
    BY <2>2 DEF IsChain, Continues
  <2>4. OneRow /\ \A q \in Requests : RowInv(q)
    BY <1>3 DEF OneRow, RowInv
  <2> QED
    BY <2>1, <2>2, <2>3, <2>4 DEF ChainInv
<1>6. LockInv
  BY <1>3 DEF LockInv, OneLock
<1>7. LimitInv
  <2>1. ASSUME NEW a \in Actors, NEW F \in SUBSET Requests
        PROVE  Standing(a, F) = {}
    BY <1>2 DEF Standing
  <2> QED
    BY <2>1, FS_EmptySet, BoundType DEF LimitInv
<1>8. OldInv
  BY <1>2 DEF OldInv
<1> QED
  BY <1>4, <1>5, <1>6, <1>7, <1>8 DEF IInv

LEMMA StutterIInv ==
    ASSUME IInv, UNCHANGED vars
    PROVE  IInv'
<1>1. UNCHANGED <<now, passwords, sessions, events, drawn, requests, spared>> /\ Rows' = Rows
  BY DEF vars, Rows
<1>2. /\ \A q \in Requests : Working(q)' = Working(q) /\ Enforced(q)' = Enforced(q)
      /\ \A s \in Rows : Live(s)' = Live(s)
  BY <1>1 DEF Working, Enforced, Inside, Live, Valid
<1>3. TypeInv'
  BY <1>1, RowsStay, AllStay DEF IInv
<1>4. ChainInv'
  <2>1. \A q \in Requests : RowInv(q)'
    BY <1>1, <1>2 DEF IInv, ChainInv, RowInv, Carries, Serializable, Visible
  <2> QED
    BY <1>1, <1>2, <2>1 DEF IInv, ChainInv, OneRow, IsChain, Continues, ContinuesAt
<1>5. LockInv'
  BY <1>1, <1>2 DEF IInv, LockInv, OneLock, Compared, Swept
<1>6. LimitInv'
  <2>1. \A a \in Actors, F \in SUBSET Requests : Standing(a, F)' = Standing(a, F)
    BY <1>1, <1>2 DEF Standing
  <2> QED
    BY <2>1 DEF IInv, LimitInv
<1>7. OldInv'
  <2>1. \A s \in Rows : /\ Old(s)' = Old(s) /\ Spared(s)' = Spared(s)
                        /\ \A q \in Requests : Hunts(q, s)' = Hunts(q, s)
    BY <1>1, <1>2 DEF Old, Spared, Hunts
  <2> QED
    BY <1>1, <2>1 DEF IInv, OldInv
<1> QED
  BY <1>3, <1>4, <1>5, <1>6, <1>7 DEF IInv

LEMMA NextIInv == IInv /\ [Next]_vars => IInv'
<1> SUFFICES ASSUME IInv, [Next]_vars
             PROVE  IInv'
  OBVIOUS
<1>1. TypeInv /\ IsChain(events) /\ ChainInv /\ LockInv /\ LimitInv /\ OldInv
  BY DEF IInv, ChainInv
<1>2. CASE UNCHANGED vars
  BY <1>2, StutterIInv
<1>3. CASE Tick
  BY <1>1, <1>3, TickType, TickChain, TickLock, TickLimit, TickOld DEF IInv
<1>4. ASSUME NEW q \in Requests, NEW a \in Actors, NEW kind \in {"LOGIN", "RESET"},
             BeginAccess(q, a, kind)
      PROVE  IInv'
  BY <1>1, <1>4, BeginAccessType, BeginAccessChain, BeginAccessLock, BeginAccessLimit,
     BeginAccessOld DEF IInv
<1>5. ASSUME NEW q \in Requests, NEW s \in SessionIds, NEW kind \in {"USE", "LOGOUT", "CHANGE"},
             FindSession(q, s, kind)
      PROVE  IInv'
  BY <1>1, <1>5, FindSessionType, FindSessionChain, FindSessionLock, FindSessionLimit,
     FindSessionOld DEF IInv
<1>6. ASSUME NEW q \in Requests, Fail(q)
      PROVE  IInv'
  BY <1>1, <1>6, FailType, FailChain, FailLock, FailLimit, FailOld DEF IInv
<1>7. ASSUME NEW q \in Requests, Work(q)
      PROVE  IInv'
  <2>1. CASE Touch(q)
    BY <1>1, <2>1, TouchType, TouchChain, TouchLock, TouchLimit,
       TouchOld DEF IInv
  <2>2. CASE Logout(q)
    BY <1>1, <2>2, LogoutType, LogoutChain, LogoutLock, LogoutLimit,
       LogoutOld DEF IInv
  <2>3. CASE Connect(q)
    BY <1>1, <2>3, ConnectType, ConnectChain, ConnectLock, ConnectLimit,
       ConnectOld DEF IInv
  <2>4. CASE FindAgain(q)
    BY <1>1, <2>4, FindAgainType, FindAgainChain, FindAgainLock, FindAgainLimit,
       FindAgainOld DEF IInv
  <2>5. CASE Lock(q)
    BY <1>1, <2>5, LockType, LockChain, LockLock, LockLimit,
       LockOld DEF IInv
  <2>6. CASE AppendEvent(q)
    BY <1>1, <2>6, AppendEventType, AppendEventChain, AppendEventLock, AppendEventLimit,
       AppendEventOld DEF IInv
  <2>7. CASE Commit(q)
    BY <1>1, <2>7, CommitType, CommitChain, CommitLock, CommitLimit,
       CommitOld DEF IInv
  <2>8. CASE Refuse(q)
    BY <1>1, <2>8, RefuseType, RefuseChain, RefuseLock, RefuseLimit,
       RefuseOld DEF IInv
  <2>9. CASE ListAll(q)
    BY <1>1, <2>9, ListAllType, ListAllChain, ListAllLock, ListAllLimit,
       ListAllOld DEF IInv
  <2>10. CASE InsertSession(q)
    BY <1>1, <2>10, InsertSessionType, InsertSessionChain, InsertSessionLock, InsertSessionLimit,
       InsertSessionOld DEF IInv
  <2>11. CASE EnforceLimit(q)
    BY <1>1, <2>11, EnforceLimitType, EnforceLimitChain, EnforceLimitLock, EnforceLimitLimit,
       EnforceLimitOld DEF IInv
  <2>12. CASE RevokeOne(q)
    BY <1>1, <2>12, RevokeOneType, RevokeOneChain, RevokeOneLock, RevokeOneLimit,
       RevokeOneOld DEF IInv
  <2>13. CASE Revoked(q)
    BY <1>1, <2>13, RevokedType, RevokedChain, RevokedLock, RevokedLimit,
       RevokedOld DEF IInv
  <2> QED
    BY <1>7, <2>1, <2>2, <2>3, <2>4, <2>5, <2>6, <2>7, <2>8, <2>9, <2>10, <2>11, <2>12, <2>13 DEF Work
<1> QED
  BY <1>2, <1>3, <1>4, <1>5, <1>6, <1>7 DEF Next

LEMMA Inductive == Spec => []IInv
  BY InitIInv, NextIInv, PTL DEF Spec

-----------------------------------------------------------------------------
(* Who waits for whom *)

\* Where a request may be with or without a connection, a lock and a row.
Seated(r) ==
    /\ r.at \in {"TOUCH", "LOGOUT", "CONNECT"} => ~r.connected
    /\ r.at \in {"FIND_AGAIN", "TOUCH_AGAIN"} => r.actor # Owner
    /\ r.locked => /\ r.connected
                   /\ \/ r.at \in {"APPEND", "COMMIT"}
                      \/ r.at \in {"INSERT", "ENFORCE", "REVOKE"} /\ Inside(r)
    /\ r.row # <<>> => r.locked

\* No more transactions hold a connection than the pool has.
PoolInv ==
    /\ IsFiniteSet(Holding) /\ Cardinality(Holding) <= PoolSize
    /\ \A q \in Requests : Working(q) => Seated(requests[q])

\* A request without a connection before has none afterwards: the pool is kept.
LEMMA PoolStays ==
    ASSUME PoolInv, NEW q \in Requests, OthersStay(q),
           requests'[q] = Free \/ Seated(requests'[q]),
           requests'[q] # Free /\ requests'[q].connected => Working(q) /\ requests[q].connected
    PROVE  PoolInv'
<1>1. Holding' \subseteq Holding
  BY DEF Holding, OthersStay, Working
<1>2. IsFiniteSet(Holding') /\ Cardinality(Holding') <= Cardinality(Holding)
  BY <1>1, FS_Subset DEF PoolInv
<1>3. Cardinality(Holding) \in Nat /\ Cardinality(Holding') \in Nat /\ PoolSize \in Nat
  BY <1>2, FS_CardinalityType, AccountsAssumption DEF PoolInv
<1>4. Cardinality(Holding') <= PoolSize
  BY <1>2, <1>3 DEF PoolInv
<1>5. ASSUME NEW p \in Requests, requests'[p] # Free
      PROVE  Seated(requests'[p])
  BY <1>5 DEF PoolInv, OthersStay, Working
<1> QED
  BY <1>2, <1>4, <1>5 DEF PoolInv, Working, Seated, Inside

\* A transaction that begins takes a connection that is free.
LEMMA ConnectPool ==
    ASSUME TypeInv, IsChain(events), PoolInv, NEW q \in Requests, Connect(q)
    PROVE  PoolInv'
<1> DEFINE r == requests[q]
           t == requests'[q]
<1>1. /\ OthersStay(q) /\ Typed(r) /\ Working(q) /\ r.at = "CONNECT"
      /\ t.at \in {"FIND_AGAIN", "LOCK"} /\ t.row = r.row /\ t.locked = r.locked
      /\ t.actor = r.actor
  BY ConnectMoves DEF Is, BecomesOneOf
<1>2. t.at = "FIND_AGAIN" => t.actor # Owner
  <2>1. Become(q, [r EXCEPT !.connected = TRUE,
                           !.snapshot = IF Serializable(r) THEN Len(events) ELSE 0,
                           !.at = IF r.kind = "CHANGE" /\ r.actor # Owner THEN "FIND_AGAIN" ELSE "LOCK"])
    BY DEF Connect
  <2>2. t = [r EXCEPT !.connected = TRUE,
                      !.snapshot = IF Serializable(r) THEN Len(events) ELSE 0,
                      !.at = IF r.kind = "CHANGE" /\ r.actor # Owner THEN "FIND_AGAIN" ELSE "LOCK"]
    BY <2>1, Becomes
  <2>3. t.at = IF r.kind = "CHANGE" /\ r.actor # Owner THEN "FIND_AGAIN" ELSE "LOCK"
    BY <1>1, <2>2 DEF Typed, RequestType
  <2> QED
    BY <1>1, <2>3
<1>3. Seated(r)
  BY <1>1 DEF PoolInv
<1>4. Seated(t)
  BY <1>1, <1>2, <1>3 DEF Seated
<1>5. Holding' \subseteq Holding \cup {q}
  BY <1>1 DEF Holding, OthersStay
<1>6. q \notin Holding
  BY <1>1, <1>3 DEF Holding, Seated
<1>7. /\ IsFiniteSet(Holding \cup {q})
      /\ Cardinality(Holding \cup {q}) = Cardinality(Holding) + 1
  BY <1>6, FS_AddElement DEF PoolInv
<1>8. IsFiniteSet(Holding') /\ Cardinality(Holding') <= Cardinality(Holding) + 1
  BY <1>5, <1>7, FS_Subset
<1>9. Cardinality(Holding) < PoolSize
  BY DEF Connect, Connection
<1>10. Cardinality(Holding) \in Nat /\ Cardinality(Holding') \in Nat /\ PoolSize \in Nat
  BY <1>8, FS_CardinalityType, AccountsAssumption DEF PoolInv
<1>11. Cardinality(Holding') <= PoolSize
  BY <1>8, <1>9, <1>10
<1>12. \A p \in Requests : requests'[p] # Free => Seated(requests'[p])
  BY <1>1, <1>4 DEF PoolInv, OthersStay, Working
<1> QED
  BY <1>8, <1>11, <1>12 DEF PoolInv, Working, Seated, Inside

LEMMA InitPool == Init => PoolInv
<1> SUFFICES ASSUME Init
             PROVE  PoolInv
  OBVIOUS
<1>1. \A q \in Requests : requests[q] = Free
  BY DEF Init
<1>2. Holding = {}
  BY <1>1 DEF Holding
<1>3. PoolSize \in Nat
  BY AccountsAssumption
<1> QED
  BY <1>1, <1>2, <1>3, FS_EmptySet DEF PoolInv, Working

LEMMA NextPool == IInv /\ PoolInv /\ [Next]_vars => PoolInv'
<1> SUFFICES ASSUME IInv, PoolInv, [Next]_vars
             PROVE  PoolInv'
  OBVIOUS
<1>1. TypeInv /\ IsChain(events) /\ \A q \in Requests : RowInv(q)
  BY DEF IInv, ChainInv
<1>2. CASE UNCHANGED requests
  BY <1>2 DEF PoolInv, Holding, Working, Seated, Inside
<1>3. ASSUME NEW q \in Requests, NEW a \in Actors, NEW kind \in {"LOGIN", "RESET"},
             BeginAccess(q, a, kind)
      PROVE  PoolInv'
  <2>1. OthersStay(q) /\ Seated(requests'[q]) /\ ~requests'[q].connected
    BY <1>1, <1>3, BeginAccessMoves DEF Is, Seated, BecomesOneOf
  <2> QED
    BY <2>1, PoolStays
<1>4. ASSUME NEW q \in Requests, NEW s \in SessionIds, NEW kind \in {"USE", "LOGOUT", "CHANGE"},
             FindSession(q, s, kind)
      PROVE  PoolInv'
  <2>1. /\ OthersStay(q)
        /\ Is(requests'[q], "TOUCH", kind, sessions[s].actor, passwords[sessions[s].actor],
              FALSE, FALSE, 0, <<>>, s, 0, {})
    BY <1>1, <1>4, FindSessionMoves DEF BecomesOneOf
  <2>2. Seated(requests'[q]) /\ ~requests'[q].connected
    BY <2>1 DEF Is, Seated
  <2> QED
    BY <2>1, <2>2, PoolStays
<1>5. ASSUME NEW q \in Requests, Fail(q)
      PROVE  PoolInv'
  <2>1. OthersStay(q) /\ requests'[q] = Free
    BY <1>1, <1>5, FailMoves DEF BecomesOneOf
  <2> QED
    BY <2>1, PoolStays
<1>6. ASSUME NEW q \in Requests, Work(q)
      PROVE  PoolInv'
  <2> DEFINE r == requests[q]
             t == requests'[q]
  <2>1. Working(q) => Seated(r)
    BY DEF PoolInv
  <2>2. CASE Connect(q)
    BY <1>1, <2>2, ConnectPool
  <2>3. CASE Touch(q)
    <3>1. OthersStay(q) /\ (t = Free \/ (Seated(t) /\ (t.connected => Working(q) /\ r.connected)))
      BY <1>1, <2>1, <2>3, TouchMoves DEF Is, Seated, Placed, Inside, BecomesOneOf
    <3> QED
      BY <3>1, PoolStays
  <2>4. CASE Logout(q)
    <3>1. OthersStay(q) /\ (t = Free \/ (Seated(t) /\ (t.connected => Working(q) /\ r.connected)))
      BY <1>1, <2>1, <2>4, LogoutMoves DEF Is, Seated, Placed, Inside, BecomesOneOf
    <3> QED
      BY <3>1, PoolStays
  <2>5. CASE FindAgain(q)
    <3>1. OthersStay(q) /\ (t = Free \/ (Seated(t) /\ (t.connected => Working(q) /\ r.connected)))
      BY <1>1, <2>1, <2>5, FindAgainMoves DEF Is, Seated, Placed, Inside, BecomesOneOf
    <3> QED
      BY <3>1, PoolStays
  <2>6. CASE Lock(q)
    <3>1. OthersStay(q) /\ (t = Free \/ (Seated(t) /\ (t.connected => Working(q) /\ r.connected)))
      BY <1>1, <2>1, <2>6, LockMoves DEF Is, Seated, Placed, Inside, BecomesOneOf
    <3> QED
      BY <3>1, PoolStays
  <2>7. CASE AppendEvent(q)
    <3>1. OthersStay(q) /\ (t = Free \/ (Seated(t) /\ (t.connected => Working(q) /\ r.connected)))
      BY <1>1, <2>1, <2>7, AppendEventMoves DEF Is, Seated, Placed, Inside, BecomesOneOf
    <3> QED
      BY <3>1, PoolStays
  <2>8. CASE Commit(q)
    <3>1. OthersStay(q) /\ (t = Free \/ (Seated(t) /\ (t.connected => Working(q) /\ r.connected)))
      BY <1>1, <2>1, <2>8, CommitMoves DEF Is, Seated, Placed, Inside, BecomesOneOf
    <3> QED
      BY <3>1, PoolStays
  <2>9. CASE Refuse(q)
    <3>1. OthersStay(q) /\ (t = Free \/ (Seated(t) /\ (t.connected => Working(q) /\ r.connected)))
      BY <1>1, <2>1, <2>9, RefuseMoves DEF Is, Seated, Placed, Inside, BecomesOneOf
    <3> QED
      BY <3>1, PoolStays
  <2>10. CASE ListAll(q)
    <3>1. OthersStay(q) /\ (t = Free \/ (Seated(t) /\ (t.connected => Working(q) /\ r.connected)))
      BY <1>1, <2>1, <2>10, ListAllMoves DEF Is, Seated, Placed, Inside, BecomesOneOf
    <3> QED
      BY <3>1, PoolStays
  <2>11. CASE InsertSession(q)
    <3>1. OthersStay(q) /\ (t = Free \/ (Seated(t) /\ (t.connected => Working(q) /\ r.connected)))
      BY <1>1, <2>1, <2>11, InsertSessionMoves DEF Is, Seated, Placed, Inside, BecomesOneOf
    <3> QED
      BY <3>1, PoolStays
  <2>12. CASE EnforceLimit(q)
    <3>1. OthersStay(q) /\ (t = Free \/ (Seated(t) /\ (t.connected => Working(q) /\ r.connected)))
      BY <1>1, <2>1, <2>12, EnforceLimitMoves DEF Is, Seated, Placed, Inside, BecomesOneOf
    <3> QED
      BY <3>1, PoolStays
  <2>13. CASE RevokeOne(q)
    <3>1. OthersStay(q) /\ (t = Free \/ (Seated(t) /\ (t.connected => Working(q) /\ r.connected)))
      BY <1>1, <2>1, <2>13, RevokeOneMoves DEF Is, Seated, Placed, Inside, BecomesOneOf
    <3> QED
      BY <3>1, PoolStays
  <2>14. CASE Revoked(q)
    <3>1. OthersStay(q) /\ (t = Free \/ (Seated(t) /\ (t.connected => Working(q) /\ r.connected)))
      BY <1>1, <2>1, <2>14, RevokedMoves DEF Is, Seated, Placed, Inside, BecomesOneOf
    <3> QED
      BY <3>1, PoolStays
  <2> QED
    BY <1>6, <2>2, <2>3, <2>4, <2>5, <2>6, <2>7, <2>8, <2>9, <2>10, <2>11, <2>12, <2>13, <2>14 DEF Work
<1>7. Tick => UNCHANGED requests
  BY DEF Tick
<1>8. UNCHANGED vars => UNCHANGED requests
  BY DEF vars
<1> QED
  BY <1>2, <1>3, <1>4, <1>5, <1>6, <1>7, <1>8 DEF Next

\* Who waits takes no step.
LEMMA WhoWaitsStays ==
    ASSUME NEW q \in Requests, Waits(q)
    PROVE  ~Work(q)
<1> DEFINE r == requests[q]
<1>1. CASE NeedsConnection(r) /\ ~Connection
  BY <1>1 DEF NeedsConnection, Work, Touch, Logout, Connect, FindAgain, Lock, AppendEvent, Commit, Refuse,
              ListAll, InsertSession, EnforceLimit, RevokeOne, Revoked
<1>2. CASE r.at = "LOCK" /\ Locked(r.actor)
  BY <1>2 DEF Work, Touch, Logout, Connect, FindAgain, Lock, AppendEvent, Commit, Refuse,
              ListAll, InsertSession, EnforceLimit, RevokeOne, Revoked
<1>3. CASE r.at = "APPEND" /\ ChainLocked
  BY <1>3 DEF Work, Touch, Logout, Connect, FindAgain, Lock, AppendEvent, Commit, Refuse,
              ListAll, InsertSession, EnforceLimit, RevokeOne, Revoked
<1> QED
  BY <1>1, <1>2, <1>3 DEF Waits

\* Who waits inside a transaction for a connection waits for a second one.
LEMMA SecondConnection ==
    ASSUME IInv, PoolInv, ~Connection, NEW q \in Holding, NeedsConnection(requests[q])
    PROVE  SecondConnectionMissing
<1> DEFINE r == requests[q]
<1>1. Working(q) /\ r.connected /\ q \in Requests
  BY DEF Holding, Working
<1>2. Placed(r) /\ Seated(r)
  BY <1>1 DEF IInv, TypeInv, RequestInv, PoolInv
<1>3. Cardinality(Holding) = PoolSize
  <2>1. Cardinality(Holding) \in Nat /\ PoolSize \in Nat
    BY FS_CardinalityType, AccountsAssumption DEF PoolInv
  <2> QED
    BY <2>1 DEF PoolInv, Connection
<1>4. \/ r.kind = "LOGIN" /\ r.locked /\ r.at \in {"INSERT", "ENFORCE", "REVOKE"}
      \/ r.kind = "CHANGE" /\ r.actor # Owner /\ r.at \in {"FIND_AGAIN", "TOUCH_AGAIN"}
  BY <1>1, <1>2 DEF NeedsConnection, Placed, Seated, Inside
<1> QED
  BY <1>3, <1>4 DEF SecondConnectionMissing

\* Where all wait, who holds the chain waits for a connection, not for a lock.
LEMMA ChainHolderWaits ==
    ASSUME IInv, PoolInv, \A p \in Busy : Waits(p), ChainLocked
    PROVE  SecondConnectionMissing
<1>1. PICK q \in Requests : Working(q) /\ requests[q].row # <<>>
  BY DEF ChainLocked, Working
<1>2. /\ requests[q].at \in {"INSERT", "ENFORCE", "REVOKE", "COMMIT"}
      /\ Seated(requests[q]) /\ Waits(q)
  BY <1>1 DEF IInv, ChainInv, RowInv, PoolInv, Busy, Working
<1>3. q \in Holding
  BY <1>1, <1>2 DEF Holding, Seated, Working
<1>4. NeedsConnection(requests[q]) /\ ~Connection
  BY <1>2 DEF Waits
<1> QED
  BY <1>3, <1>4, SecondConnection

\* Where all wait, who holds an account's row waits for the chain or for a
\* connection.
LEMMA RowHolderWaits ==
    ASSUME IInv, PoolInv, \A p \in Busy : Waits(p), NEW a, Locked(a)
    PROVE  SecondConnectionMissing
<1>1. PICK q \in Requests : Working(q) /\ requests[q].locked
  BY DEF Locked, Working
<1>2. Seated(requests[q]) /\ Waits(q)
  BY <1>1 DEF PoolInv, Busy, Working
<1>3. q \in Holding
  BY <1>1, <1>2 DEF Holding, Seated, Working
<1>4. CASE ChainLocked
  BY <1>4, ChainHolderWaits
<1>5. CASE ~ChainLocked
  <2>1. requests[q].at # "LOCK"
    BY <1>1, <1>2 DEF Seated
  <2>2. NeedsConnection(requests[q]) /\ ~Connection
    BY <1>2, <1>5, <2>1 DEF Waits
  <2> QED
    BY <1>3, <2>2, SecondConnection
<1> QED
  BY <1>4, <1>5

\* Whoever waits, somebody inside a transaction waits for a second connection.
LEMMA PoolUsedUp == IInv /\ PoolInv => DeadlockExplained
<1> SUFFICES ASSUME IInv, PoolInv, Busy # {}, \A q \in Busy : Waits(q)
             PROVE  SecondConnectionMissing
  BY DEF DeadlockExplained
<1>1. CASE Connection
  <2>1. PICK q \in Busy : Waits(q)
    OBVIOUS
  <2>2. Locked(requests[q].actor) \/ ChainLocked
    BY <1>1, <2>1 DEF Waits
  <2> QED
    BY <2>2, RowHolderWaits, ChainHolderWaits
<1>2. CASE ~Connection
  <2>1. PICK q \in Holding : TRUE
    <3>1. Holding # {}
      BY <1>2, FS_EmptySet, AccountsAssumption DEF Connection
    <3> QED
      BY <3>1
  <2>2. Waits(q)
    BY <2>1 DEF Holding, Busy
  <2>3. CASE NeedsConnection(requests[q])
    BY <1>2, <2>3, SecondConnection
  <2>4. CASE Locked(requests[q].actor) \/ ChainLocked
    BY <2>4, RowHolderWaits, ChainHolderWaits
  <2> QED
    BY <2>2, <2>3, <2>4 DEF Waits
<1> QED
  BY <1>1, <1>2

-----------------------------------------------------------------------------
(* Theorems *)

\* What Accounts keeps of accounts, sessions and requests is well formed, and a
\* request is only where its kind and its actor may come to, with the row of its
\* session in place (loginOwner, loginContact, changeOwnerPassword,
\* changeContactPassword, completePasswordReset, SessionService).
THEOREM AccountsTypeCorrect == Spec => []TypeInv
  BY Inductive, PTL DEF IInv

\* The private chain continues, whatever is at work at the same time
\* (PgAuditWriter.append).
THEOREM ChainCorrect == Spec => []AuditChainContinues
<1>1. IInv => AuditChainContinues
  BY DEF IInv, ChainInv, IsChain, Continues, ContinuesAt, AuditChainContinues
<1> QED
  BY <1>1, Inductive, PTL

\* A row lock keeps all others from comparing or replacing that password, until
\* the end of the transaction: who holds it still has the password it compared,
\* and what a reset does not find among the sessions a change has put in.
THEOREM LocksCorrect == Spec => []LockInv
  BY Inductive, PTL DEF IInv

\* An account never has more sessions than its limit (SessionService.create).
THEOREM LimitCorrect == Spec => []SessionLimitHolds
<1>1. IInv => SessionLimitHolds
  <2> SUFFICES ASSUME IInv, NEW a \in Actors
               PROVE  Cardinality({s \in Rows : /\ sessions[s].actor = a
                                                /\ Valid(s, now)
                                                /\ sessions[s].issued /\ ~sessions[s].revived}) <= Limit
    BY DEF SessionLimitHolds
  <2>1. Standing(a, {}) = {s \in Rows : /\ sessions[s].actor = a
                                        /\ Valid(s, now)
                                        /\ sessions[s].issued /\ ~sessions[s].revived}
    BY DEF Standing, Live
  <2>2. Cardinality(Standing(a, {})) <= Limit
    <3>1. {} \in SUBSET Requests
      OBVIOUS
    <3> QED
      BY <3>1 DEF IInv, LimitInv
  <2> QED
    BY <2>1, <2>2
<1> QED
  BY <1>1, Inductive, PTL

\* A changed or reset password ends the sessions of the old one (docs/03, 9.1),
\* with the exceptions OldSessionsEnd names.
THEOREM OldSessionsCorrect == Spec => []OldSessionsEnd
<1>1. IInv => OldSessionsEnd
  <2> DEFINE left == spared \cup {<<r.kind, r.actor>> : r \in Unfinished}
  <2> SUFFICES ASSUME IInv, NEW s \in Rows, Valid(s, now),
                      sessions[s].password < passwords[sessions[s].actor],
                      ~(sessions[s].late /\ (sessions[s].actor = Owner => sessions[s].by = "CHANGE")),
                      ~sessions[s].revived
               PROVE  \/ <<"CHANGE", sessions[s].actor>> \in left
                      \/ <<"RESET", sessions[s].actor>> \in left /\ sessions[s].by = "CHANGE"
    BY DEF OldSessionsEnd
  <2>1. Old(s)
    BY DEF Old, Live
  <2>2. CASE Spared(s)
    BY <2>2 DEF Spared
  <2>3. CASE \E q \in Requests : Hunts(q, s)
    <3>1. PICK q \in Requests : Hunts(q, s)
      BY <2>3
    <3>2. requests[q] \in Unfinished /\ requests[q].actor = sessions[s].actor
      BY <3>1 DEF Hunts, Unfinished
    <3>3. <<requests[q].kind, sessions[s].actor>> \in left
      BY <3>2
    <3> QED
      BY <3>1, <3>3 DEF Hunts
  <2> QED
    BY <2>1, <2>2, <2>3 DEF IInv, OldInv
<1> QED
  BY <1>1, Inductive, PTL

\* Requests wait for each other, for good, only where every connection is held by
\* a transaction and one of them waits for a second one: never for each other's
\* account and the chain, although each is held while the other is asked for
\* (PgTransactionManager.run, PgAuditWriter.append, SessionService). Who waits
\* takes no step.
THEOREM DeadlockCorrect ==
    Spec => []DeadlockExplained /\ [][\A q \in Requests : Waits(q) => ~Work(q)]_vars
<1>1. Spec => []PoolInv
  BY InitPool, NextPool, Inductive, PTL DEF Spec
<1>2. \A q \in Requests : Waits(q) => ~Work(q)
  BY WhoWaitsStays
<1>3. [\A q \in Requests : Waits(q) => ~Work(q)]_vars
  BY <1>2
<1> QED
  BY <1>1, <1>3, PoolUsedUp, Inductive, PTL
-----------------------------------------------------------------------------
(* What the verifier accepts *)

\* Rows as audit-verifier.ts reads them
AreRows(rows) ==
    /\ rows \in Seq(Range(rows))
    /\ \A i \in DOMAIN rows :
           LET event == rows[i].event
           IN  rows[i] = [event |-> [sequence |-> event.sequence, content |-> event.content,
                                     previous |-> event.previous],
                          hash |-> rows[i].hash]

\* The last hash is that of the row before, or the one of no row.
LEMMA LastHashOf ==
    ASSUME NEW rows, AreRows(rows)
    PROVE  /\ Len(rows) \in Nat /\ DOMAIN rows = 1..Len(rows)
           /\ \A n \in 1..Len(rows) : LastHash(SubSeq(rows, 1, n)) = rows[n].hash
           /\ LastHash(SubSeq(rows, 1, 0)) = ZeroHash
           /\ Len(rows) # 0 => LastHash(rows) = rows[Len(rows)].hash
           /\ Len(rows) = 0 => LastHash(rows) = ZeroHash /\ rows = <<>>
<1>1. Len(rows) \in Nat /\ DOMAIN rows = 1..Len(rows)
  BY LenProperties DEF AreRows
<1>2. ASSUME NEW n \in 1..Len(rows)
      PROVE  LastHash(SubSeq(rows, 1, n)) = rows[n].hash
  <2> DEFINE first == SubSeq(rows, 1, n)
  <2>1. first \in Seq(Range(rows)) /\ Len(first) = n /\ first[n] = rows[n]
    BY <1>1, SubSeqProperties DEF AreRows
  <2>2. first # <<>> /\ Last(first) = rows[n]
    BY <1>1, <2>1 DEF Last
  <2> QED
    BY <2>2 DEF LastHash
<1>3. SubSeq(rows, 1, 0) = <<>>
  BY SubSeqEmpty
<1>4. rows # <<>> <=> Len(rows) # 0
  BY <1>1, EmptySeq DEF AreRows
<1> QED
  BY <1>1, <1>2, <1>3, <1>4 DEF LastHash, Last

LEMMA Triples ==
    ASSUME NEW u, NEW v, NEW w, NEW x, NEW y, NEW z
    PROVE  /\ <<u, v, w>> = <<x, y, z>> => u = x /\ v = y /\ w = z
           /\ <<u, v, w>> # <<>>
<1>1. <<u, v, w>> # <<>>
  <2>1. 1 \in DOMAIN <<u, v, w>> /\ 1 \notin DOMAIN <<>>
    OBVIOUS
  <2> QED
    BY <2>1
<1>2. <<u, v, w>>[1] = u /\ <<u, v, w>>[2] = v /\ <<u, v, w>>[3] = w
  OBVIOUS
<1>3. <<x, y, z>>[1] = x /\ <<x, y, z>>[2] = y /\ <<x, y, z>>[3] = z
  OBVIOUS
<1> QED
  BY <1>1, <1>2, <1>3, Zenon

\* Rows of equal hash are equal, if the hash is that of the row.
LEMMA SameHash ==
    ASSUME NEW a, AreRows(a), VerifyAuditChain(a), NEW b, AreRows(b), VerifyAuditChain(b),
           NEW i \in DOMAIN a, NEW j \in DOMAIN b, a[i].hash = b[j].hash
    PROVE  i = j /\ a[i] = b[j] /\ LastHash(SubSeq(a, 1, i - 1)) = LastHash(SubSeq(b, 1, j - 1))
<1>1. /\ a[i].event.sequence = i
      /\ a[i].event.previous = LastHash(SubSeq(a, 1, i - 1))
      /\ a[i].hash = <<a[i].event.sequence, a[i].event.content, a[i].event.previous>>
  BY DEF VerifyAuditChain, HashAuditEvent
<1>2. /\ b[j].event.sequence = j
      /\ b[j].event.previous = LastHash(SubSeq(b, 1, j - 1))
      /\ b[j].hash = <<b[j].event.sequence, b[j].event.content, b[j].event.previous>>
  BY DEF VerifyAuditChain, HashAuditEvent
<1>3. /\ a[i].event.sequence = b[j].event.sequence
      /\ a[i].event.content = b[j].event.content
      /\ a[i].event.previous = b[j].event.previous
  <2>1. <<a[i].event.sequence, a[i].event.content, a[i].event.previous>>
            = <<b[j].event.sequence, b[j].event.content, b[j].event.previous>>
    BY <1>1, <1>2
  <2> QED
    BY <2>1, Triples
<1>4. a[i] = b[j]
  BY <1>3 DEF AreRows
<1> QED
  BY <1>1, <1>2, <1>3, <1>4

\* Whoever has kept the last hash of a chain has kept the chain: of two chains
\* that verifyAuditChain accepts, whatever their lengths, with the same last hash,
\* every row is the same. No row can be altered, left out, put in or cut off
\* without moving it, as long as no two events have the same hash.
THEOREM LastHashDecidesChain ==
    ASSUME NEW a, AreRows(a), VerifyAuditChain(a), NEW b, AreRows(b), VerifyAuditChain(b),
           LastHash(a) = LastHash(b)
    PROVE  a = b
<1> DEFINE n == Len(a)
<1>1. /\ n \in Nat /\ DOMAIN a = 1..n /\ (n # 0 => LastHash(a) = a[n].hash)
      /\ n = 0 => LastHash(a) = ZeroHash /\ a = <<>>
  BY LastHashOf
<1>2. /\ Len(b) \in Nat /\ DOMAIN b = 1..Len(b) /\ (Len(b) # 0 => LastHash(b) = b[Len(b)].hash)
      /\ Len(b) = 0 => LastHash(b) = ZeroHash /\ b = <<>>
  BY LastHashOf
<1>3. /\ \A i \in DOMAIN a : a[i].hash # ZeroHash
      /\ \A i \in DOMAIN b : b[i].hash # ZeroHash
  <2>1. ASSUME NEW rows, VerifyAuditChain(rows), NEW i \in DOMAIN rows
        PROVE  rows[i].hash # ZeroHash
    <3>1. rows[i].hash = <<rows[i].event.sequence, rows[i].event.content, rows[i].event.previous>>
      BY <2>1 DEF VerifyAuditChain, HashAuditEvent
    <3>2. <<rows[i].event.sequence, rows[i].event.content, rows[i].event.previous>> # <<>>
      BY Triples
    <3> QED
      BY <3>1, <3>2 DEF ZeroHash
  <2> QED
    BY <2>1
<1>4. n = 0 <=> Len(b) = 0
  BY <1>1, <1>2, <1>3
<1>5. CASE n = 0
  BY <1>1, <1>2, <1>4, <1>5
<1>6. CASE n # 0
  <2>1. n \in DOMAIN a /\ Len(b) \in DOMAIN b /\ a[n].hash = b[Len(b)].hash
    BY <1>1, <1>2, <1>4, <1>6
  <2>2. Len(b) = n
    BY <2>1, SameHash
  <2> HIDE DEF n
  <2> DEFINE Differ == {k \in 0..(n - 1) : a[n - k].hash # b[n - k].hash}
  <2>3. Differ = {}
    <3> SUFFICES ASSUME Differ # {}
                 PROVE  FALSE
      OBVIOUS
    <3>1. PICK k \in Differ : \A l \in Differ : k <= l
      <4>1. Differ \in SUBSET Nat
        OBVIOUS
      <4> QED
        BY <4>1, Least
    <3>2. k \in Nat /\ k \in 0..(n - 1) /\ a[n - k].hash # b[n - k].hash
      OBVIOUS
    <3>3. k # 0
      BY <1>1, <2>1, <2>2, <3>2
    <3>4. k - 1 \in 0..(n - 1) /\ k - 1 \notin Differ
      <4>1. k - 1 \in Nat /\ k - 1 <= n - 1 /\ ~(k <= k - 1)
        BY <1>1, <3>2, <3>3
      <4>2. k - 1 \in 0..(n - 1)
        BY <1>1, <4>1
      <4>3. k - 1 \notin Differ
        BY <3>1, <4>1
      <4> QED
        BY <4>2, <4>3
    <3> DEFINE i == n - (k - 1)
    <3>5. a[i].hash = b[i].hash /\ i \in DOMAIN a /\ i \in DOMAIN b /\ i - 1 \in 1..n /\ i - 1 = n - k
      BY <1>1, <1>2, <2>2, <3>2, <3>3, <3>4
    <3> HIDE DEF i
    <3>6. LastHash(SubSeq(a, 1, i - 1)) = LastHash(SubSeq(b, 1, i - 1))
      BY <3>5, SameHash
    <3>7. /\ LastHash(SubSeq(a, 1, i - 1)) = a[i - 1].hash
          /\ LastHash(SubSeq(b, 1, i - 1)) = b[i - 1].hash
      BY <2>2, <3>5, LastHashOf DEF n
    <3> QED
      BY <3>2, <3>5, <3>6, <3>7
  <2>4. ASSUME NEW i \in 1..n
        PROVE  a[i] = b[i]
    <3>1. n - i \in 0..(n - 1) /\ n - (n - i) = i
      BY <1>1
    <3>2. a[i].hash = b[i].hash
      BY <2>3, <3>1
    <3> QED
      BY <1>1, <1>2, <2>2, <3>2, SameHash
  <2>5. Len(a) = Len(b)
    BY <2>2 DEF n
  <2> QED
    BY <1>1, <2>4, <2>5, SeqEqual DEF AreRows
<1> QED
  BY <1>5, <1>6

\* appendPublicAuditEvent, and finalizePublication for the rows it computes on its
\* own, continue an accepted chain to an accepted one.
THEOREM PublicAppendVerifies ==
    ASSUME NEW rows, AreRows(rows), VerifyAuditChain(rows), NEW input
    PROVE  LET longer == AppendPublicAuditEvent(rows, input)
           IN  AreRows(longer) /\ VerifyAuditChain(longer)
<1> DEFINE row == Row(Len(rows) + 1, ProjectPublicEvent(input), rows)
           longer == AppendPublicAuditEvent(rows, input)
           n == Len(rows)
<1>1. /\ n \in Nat /\ DOMAIN rows = 1..n
      /\ \A m \in 1..n : LastHash(SubSeq(rows, 1, m)) = rows[m].hash
      /\ LastHash(SubSeq(rows, 1, 0)) = ZeroHash
      /\ n # 0 => LastHash(rows) = rows[n].hash
      /\ n = 0 => LastHash(rows) = ZeroHash /\ rows = <<>>
  BY LastHashOf
<1>2. (IF rows = <<>> THEN 1 ELSE Last(rows).event.sequence + 1) = n + 1
  <2>1. CASE rows = <<>>
    <3>1. n = 0
      BY <2>1, EmptySeq
    <3> QED
      BY <2>1, <3>1
  <2>2. CASE rows # <<>>
    <3>1. n # 0
      BY <1>1, <2>2
    <3>2. rows[n].event.sequence = n
      BY <1>1, <3>1 DEF VerifyAuditChain
    <3> QED
      BY <2>2, <3>2 DEF Last
  <2> QED
    BY <2>1, <2>2
<1>3. longer = Append(rows, row)
  BY <1>2 DEF AppendPublicAuditEvent
<1> HIDE DEF longer, row
<1> DEFINE S == Range(rows) \cup {row}
<1>4. rows \in Seq(S) /\ row \in S
  BY SeqMonotonic DEF AreRows
<1>5. /\ longer \in Seq(S) /\ Len(longer) = n + 1
      /\ \A i \in 1..n : longer[i] = rows[i]
      /\ longer[n + 1] = row
  BY <1>3, <1>4, AppendProperties
<1>6. longer \in Seq(Range(longer)) /\ DOMAIN longer = 1..(n + 1)
  BY <1>5, SeqOfRange, LenProperties
<1>7. row.event = [sequence |-> n + 1, content |-> ProjectPublicEvent(input), previous |-> LastHash(rows)]
      /\ row = [event |-> row.event, hash |-> HashAuditEvent(row.event)]
  <2> DEFINE event == [sequence |-> n + 1, content |-> ProjectPublicEvent(input), previous |-> LastHash(rows)]
  <2>1. row = [event |-> event, hash |-> HashAuditEvent(event)]
    BY DEF row, Row
  <2> HIDE DEF event
  <2>2. row.event = event
    BY <2>1
  <2> QED
    BY <2>1, <2>2 DEF event
<1>8. AreRows(longer)
  <2> SUFFICES ASSUME NEW i \in 1..(n + 1)
               PROVE  LET event == longer[i].event
                      IN  longer[i] = [event |-> [sequence |-> event.sequence, content |-> event.content,
                                                  previous |-> event.previous],
                                       hash |-> longer[i].hash]
    BY <1>6 DEF AreRows
  <2>1. CASE i = n + 1
    BY <1>5, <1>7, <2>1
  <2>2. CASE i # n + 1
    <3>1. i \in 1..n
      BY <1>1, <2>2
    <3> QED
      BY <1>1, <1>5, <3>1 DEF AreRows
  <2> QED
    BY <2>1, <2>2
<1>9. VerifyAuditChain(longer)
  <2> SUFFICES ASSUME NEW i \in 1..(n + 1)
               PROVE  /\ longer[i].event.sequence = i
                      /\ longer[i].event.previous = LastHash(SubSeq(longer, 1, i - 1))
                      /\ longer[i].hash = HashAuditEvent(longer[i].event)
    BY <1>6 DEF VerifyAuditChain
  <2>1. LastHash(SubSeq(longer, 1, i - 1)) = LastHash(SubSeq(rows, 1, i - 1))
    <3>1. /\ \A m \in 1..(n + 1) : LastHash(SubSeq(longer, 1, m)) = longer[m].hash
          /\ LastHash(SubSeq(longer, 1, 0)) = ZeroHash
      BY <1>5, <1>8, LastHashOf
    <3>2. i - 1 = 0 \/ (i - 1 \in 1..(n + 1) /\ i - 1 \in 1..n)
      BY <1>1
    <3> QED
      BY <1>1, <1>5, <3>1, <3>2
  <2>2. CASE i = n + 1
    <3>1. LastHash(SubSeq(rows, 1, n)) = LastHash(rows)
      BY <1>1
    <3>2. i - 1 = n
      BY <1>1, <2>2
    <3>3. /\ row.event.sequence = n + 1 /\ row.event.previous = LastHash(rows)
          /\ row.hash = HashAuditEvent(row.event)
      BY <1>7
    <3> QED
      BY <1>5, <2>1, <2>2, <3>1, <3>2, <3>3
  <2>3. CASE i # n + 1
    <3>1. i \in 1..n
      BY <1>1, <2>3
    <3> QED
      BY <1>1, <1>5, <2>1, <3>1 DEF VerifyAuditChain
  <2> QED
    BY <2>2, <2>3
<1> QED
  BY <1>8, <1>9 DEF longer

-----------------------------------------------------------------------------
(* The limits of requests *)

LimitType == [windowMs : Nat, maxAttempts : Nat \ {0}]

BucketType == [start : Nat, attempts : Nat]

LEMMA MaxOfTwo ==
    ASSUME NEW x \in Int, NEW y \in Int
    PROVE  Max({x, y}) \in {x, y} /\ Max({x, y}) >= x /\ Max({x, y}) >= y
<1>1. \E m \in {x, y} : \A n \in {x, y} : m >= n
  <2>1. CASE x >= y
    BY <2>1
  <2>2. CASE y >= x
    BY <2>2
  <2> QED
    BY <2>1, <2>2
<1> QED
  BY <1>1 DEF Max

\* Rounded up, and at least one
LEMMA SecondsCover ==
    ASSUME NEW ms \in Int
    PROVE  /\ Seconds(ms) \in Nat \ {0} /\ ms <= 1000 * Seconds(ms)
           /\ ms > 0 => 1000 * Seconds(ms) < ms + 1000
<1> DEFINE s == (ms + 999) \div 1000
<1>1. s \in Int /\ ms <= 1000 * s /\ 1000 * s < ms + 1000
  OBVIOUS
<1> HIDE DEF s
<1>2. Max({1, s}) \in {1, s} /\ Max({1, s}) >= 1 /\ Max({1, s}) >= s
  BY <1>1, MaxOfTwo
<1>3. Seconds(ms) = Max({1, s})
  BY DEF Seconds, s
<1>4. /\ Seconds(ms) \in Nat \ {0} /\ Seconds(ms) >= s
      /\ Seconds(ms) = 1 \/ Seconds(ms) = s
  BY <1>1, <1>2, <1>3
<1> HIDE DEF s
<1>5. ms > 0 => 1000 * Seconds(ms) < ms + 1000
  BY <1>1, <1>4
<1> QED
  BY <1>1, <1>4, <1>5

LEMMA Decided ==
    ASSUME NEW bucket, NEW limit, NEW time
    PROVE  /\ Decision(bucket, limit, time).allowed <=> bucket.attempts <= limit.maxAttempts
           /\ Decision(bucket, limit, time).retryAfterSeconds
                  = Seconds(bucket.start + limit.windowMs - time)
  BY Zenon DEF Decision

LEMMA LimitersAlike ==
    ASSUME NEW limit \in LimitType, NEW bucket \in BucketType, NEW time \in Nat
    PROVE  /\ Upserted(bucket, limit, time) \in BucketType
           /\ Consumed(bucket, limit, time) = Upserted(bucket, limit, time)
<1>1. NoBucket \in BucketType
  BY DEF NoBucket, BucketType
<1> QED
  BY <1>1 DEF LimitType, BucketType, Consumed, Upserted, NoBucket

\* What a refusal says of the bucket
LEMMA RefusedBucket ==
    ASSUME NEW limit \in LimitType, NEW before \in BucketType, NEW time \in Nat,
           NEW bucket, bucket = Upserted(before, limit, time),
           ~Decision(bucket, limit, time).allowed
    PROVE  /\ bucket \in BucketType /\ bucket # NoBucket
           /\ bucket.attempts > limit.maxAttempts
           /\ time < bucket.start + limit.windowMs
<1>1. bucket \in BucketType
  BY LimitersAlike
<1>2. bucket.attempts > limit.maxAttempts
  BY <1>1, Decided DEF LimitType, BucketType
<1>3. bucket # NoBucket
  BY <1>2 DEF NoBucket, LimitType
<1>4. bucket.attempts # 1
  BY <1>1, <1>2 DEF LimitType, BucketType
<1>5. before # NoBucket /\ ~(time - before.start >= limit.windowMs)
  BY <1>4 DEF Upserted
<1>6. bucket.start = before.start
  BY <1>5 DEF Upserted
<1> QED
  BY <1>1, <1>2, <1>3, <1>5, <1>6 DEF LimitType, BucketType

\* From the end of its window on, a bucket lets the next request through; before,
\* one that has refused refuses it.
LEMMA WindowEnds ==
    ASSUME NEW limit \in LimitType, NEW bucket \in BucketType, NEW time \in Nat,
           bucket # NoBucket
    PROVE  /\ time >= bucket.start + limit.windowMs =>
                  Decision(Upserted(bucket, limit, time), limit, time).allowed
           /\ time < bucket.start + limit.windowMs /\ bucket.attempts > limit.maxAttempts =>
                  ~Decision(Upserted(bucket, limit, time), limit, time).allowed
<1>1. CASE time >= bucket.start + limit.windowMs
  <2>1. Upserted(bucket, limit, time).attempts = 1
    BY <1>1 DEF Upserted, LimitType, BucketType
  <2> QED
    BY <1>1, <2>1, Decided DEF LimitType, BucketType
<1>2. CASE time < bucket.start + limit.windowMs
  <2>1. Upserted(bucket, limit, time).attempts = bucket.attempts + 1
    BY <1>2 DEF Upserted, LimitType, BucketType
  <2> QED
    BY <1>2, <2>1, Decided DEF LimitType, BucketType
<1> QED
  BY <1>1, <1>2 DEF LimitType, BucketType

\* The limiter in memory and the one in the database decide alike (RateLimiter,
\* PostgresRateLimiter), and a refusal names the right time: who comes again then
\* or later is let through, who comes a second or more before is refused again.
THEOREM RefusalIsExact ==
    ASSUME NEW limit \in LimitType, NEW before \in BucketType, NEW time \in Nat
    PROVE  LET bucket == Upserted(before, limit, time)
               refusal == Decision(bucket, limit, time)
               later == time + 1000 * refusal.retryAfterSeconds
               Again(t) == Decision(Upserted(bucket, limit, t), limit, t)
           IN  /\ Consumed(before, limit, time) = bucket
               /\ ~refusal.allowed =>
                      \A t \in Nat : /\ t >= later => Again(t).allowed
                                     /\ t <= later - 1000 => ~Again(t).allowed
<1> DEFINE bucket == Upserted(before, limit, time)
           refusal == Decision(bucket, limit, time)
           end == bucket.start + limit.windowMs
           later == time + 1000 * refusal.retryAfterSeconds
           Again(t) == Decision(Upserted(bucket, limit, t), limit, t)
<1>1. bucket \in BucketType /\ Consumed(before, limit, time) = bucket
  BY LimitersAlike
<1>2. ASSUME ~refusal.allowed, NEW t \in Nat
      PROVE  /\ t >= later => Again(t).allowed
             /\ t <= later - 1000 => ~Again(t).allowed
  <2>1. bucket # NoBucket /\ bucket.attempts > limit.maxAttempts /\ time < end
    BY <1>2, RefusedBucket
  <2>2. end \in Nat
    BY <1>1 DEF LimitType, BucketType
  <2>3. refusal.retryAfterSeconds = Seconds(end - time)
    <3> HIDE DEF bucket
    <3>1. Decision(bucket, limit, time).retryAfterSeconds
              = Seconds(bucket.start + limit.windowMs - time)
      BY Decided
    <3>2. bucket.start + limit.windowMs - time = end - time
      BY <1>1 DEF LimitType, BucketType
    <3> QED
      BY <3>1, <3>2
  <2> HIDE DEF end, refusal
  <2>4. /\ refusal.retryAfterSeconds \in Nat
        /\ end - time <= 1000 * refusal.retryAfterSeconds
        /\ 1000 * refusal.retryAfterSeconds < end - time + 1000
    BY <2>1, <2>2, <2>3, SecondsCover
  <2>5. (t >= later => t >= end) /\ (t <= later - 1000 => t < end)
    BY <2>2, <2>4
  <2> HIDE DEF later, bucket
  <2>6. (t >= end => Again(t).allowed) /\ (t < end => ~Again(t).allowed)
    BY <1>1, <2>1, WindowEnds DEF end
  <2> QED
    BY <2>5, <2>6
<1> QED
  BY <1>1, <1>2

LEMMA DecisionType ==
    ASSUME NEW limit \in LimitType, NEW bucket \in BucketType, NEW time \in Nat
    PROVE  Decision(bucket, limit, time) \in [allowed : BOOLEAN, retryAfterSeconds : Nat]
<1>1. bucket.start + limit.windowMs - time \in Int
  BY DEF LimitType, BucketType
<1>2. Seconds(bucket.start + limit.windowMs - time) \in Nat
  BY <1>1, SecondsCover
<1> QED
  BY <1>2 DEF Decision

\* The guard in front of a request with a session consumes the bucket of the
\* address and the one of the actor, and refuses if one of them does
\* (RateLimitGuard.canActivate). Whoever waits as long as it says is refused again
\* by a bucket only that was not exceeded but used up by the first refusal, and
\* whose window, of which that refusal says nothing, still runs.
THEOREM GuardLetsThrough ==
    ASSUME NEW limit \in LimitType, NEW time \in Nat, NEW Keys, NEW ip \in Keys, NEW actor \in Keys,
           NEW buckets \in [Keys -> BucketType]
    PROVE  LET guarded == Guarded(buckets, {ip, actor}, limit, time)
               later == time + 1000 * guarded.retryAfterSeconds
           IN  /\ guarded.passes <=>
                      \A k \in {ip, actor} : Decision(guarded.buckets[k], limit, time).allowed
               /\ ~guarded.passes =>
                      \A t \in Nat : t >= later =>
                          \/ Guarded(guarded.buckets, {ip, actor}, limit, t).passes
                          \/ \E k \in {ip, actor} :
                                /\ guarded.buckets[k].attempts = limit.maxAttempts
                                /\ t < guarded.buckets[k].start + limit.windowMs
<1> DEFINE guarded == Guarded(buckets, {ip, actor}, limit, time)
           after == [k \in DOMAIN buckets |->
                        IF k \in {ip, actor} THEN Upserted(buckets[k], limit, time) ELSE buckets[k]]
           Told(k) == Decision(after[k], limit, time)
           blocked == {Told(k) : k \in {ip, actor}} \cap [allowed : {FALSE}, retryAfterSeconds : Nat]
           later == time + 1000 * guarded.retryAfterSeconds
           Full(k, t) == /\ after[k].attempts = limit.maxAttempts
                         /\ t < after[k].start + limit.windowMs
<1>1. \A k \in {ip, actor} : after[k] = Upserted(buckets[k], limit, time) /\ after[k] \in BucketType
  BY LimitersAlike
<1>2. /\ guarded.buckets = after
      /\ guarded.passes <=> blocked = {}
      /\ blocked # {} => guarded.retryAfterSeconds = Max({d.retryAfterSeconds : d \in blocked})
  BY Zenon DEF Guarded
<1> HIDE DEF after, guarded
<1>3. ASSUME NEW k \in {ip, actor}
      PROVE  Told(k) \in [allowed : BOOLEAN, retryAfterSeconds : Nat]
  BY <1>1, DecisionType
<1> HIDE DEF Told
<1>4. \A k \in {ip, actor} :
          /\ Told(k).allowed \in BOOLEAN /\ Told(k).retryAfterSeconds \in Nat
          /\ Told(k) \in blocked <=> ~Told(k).allowed
  <2> SUFFICES ASSUME NEW k \in {ip, actor}
               PROVE  /\ Told(k).allowed \in BOOLEAN /\ Told(k).retryAfterSeconds \in Nat
                      /\ Told(k) \in blocked <=> ~Told(k).allowed
    OBVIOUS
  <2>1. Told(k).allowed \in BOOLEAN /\ Told(k).retryAfterSeconds \in Nat
    BY <1>3
  <2>2. Told(k) \in [allowed : {FALSE}, retryAfterSeconds : Nat] <=> ~Told(k).allowed
    BY <1>3
  <2> QED
    BY <2>1, <2>2
<1>5. blocked \subseteq {Told(ip), Told(actor)}
  OBVIOUS
<1> HIDE DEF blocked
<1>6. guarded.passes <=> \A k \in {ip, actor} : Told(k).allowed
  <2>1. (\A k \in {ip, actor} : Told(k).allowed) => blocked = {}
    BY <1>4, <1>5
  <2>2. blocked = {} => \A k \in {ip, actor} : Told(k).allowed
    BY <1>4
  <2> QED
    BY <1>2, <2>1, <2>2
<1>7. ASSUME ~guarded.passes, NEW k \in {ip, actor}, ~Told(k).allowed
      PROVE  /\ guarded.retryAfterSeconds \in Nat
             /\ guarded.retryAfterSeconds >= Told(k).retryAfterSeconds
  <2> DEFINE x == Told(ip).retryAfterSeconds
             y == Told(actor).retryAfterSeconds
             S == {d.retryAfterSeconds : d \in blocked}
  <2>1. Told(k) \in blocked /\ x \in Nat /\ y \in Nat
    BY <1>4, <1>7
  <2>2. S \subseteq {x, y} /\ Told(k).retryAfterSeconds \in S
    BY <1>5, <2>1
  <2>3. guarded.retryAfterSeconds = Max(S)
    BY <1>2, <2>1
  <2> HIDE DEF S, x, y, blocked
  <2>4. S = {x} \/ S = {y} \/ S = {x, y}
    BY <2>2
  <2>5. Max(S) \in S /\ \A n \in S : Max(S) >= n
    <3>1. S = {x, x} \/ S = {y, y} \/ S = {x, y}
      BY <2>4
    <3>2. ASSUME NEW u \in {x, y}, NEW v \in {x, y}, S = {u, v}
          PROVE  Max(S) \in S /\ \A n \in S : Max(S) >= n
      <4>1. Max({u, v}) \in {u, v} /\ Max({u, v}) >= u /\ Max({u, v}) >= v
        BY <2>1, <3>2, MaxOfTwo
      <4> QED
        BY <3>2, <4>1
    <3> QED
      BY <3>1, <3>2
  <2> QED
    BY <2>1, <2>2, <2>3, <2>5
<1>8. ASSUME ~guarded.passes, NEW t \in Nat, t >= later
      PROVE  \/ Guarded(guarded.buckets, {ip, actor}, limit, t).passes
             \/ \E k \in {ip, actor} : Full(k, t)
  <2> DEFINE again == [k \in DOMAIN after |->
                          IF k \in {ip, actor} THEN Upserted(after[k], limit, t) ELSE after[k]]
             Then(k) == Decision(again[k], limit, t)
  <2>1. Guarded(after, {ip, actor}, limit, t).passes <=>
            {Then(k) : k \in {ip, actor}} \cap [allowed : {FALSE}, retryAfterSeconds : Nat] = {}
    BY Zenon DEF Guarded
  <2>2. ASSUME NEW k \in {ip, actor}
        PROVE  Then(k).allowed \/ Full(k, t)
    <3> DEFINE bucket == after[k]
               end == bucket.start + limit.windowMs
    <3>1. bucket \in BucketType /\ bucket = Upserted(buckets[k], limit, time) /\ buckets[k] \in BucketType
      BY <1>1
    <3>2. Then(k) = Decision(Upserted(bucket, limit, t), limit, t)
      BY DEF after
    <3>3. guarded.retryAfterSeconds \in Nat
      BY <1>6, <1>7, <1>8
    <3>4. t >= time
      BY <1>8, <3>3
    <3>5. bucket # NoBucket
      BY <3>1 DEF Upserted, NoBucket, LimitType, BucketType
    <3> HIDE DEF bucket
    <3>6. CASE ~Told(k).allowed
      <4>1. time < end
        BY <3>1, <3>6, RefusedBucket DEF bucket, Told
      <4>2. Told(k).retryAfterSeconds = Seconds(end - time)
        <5>1. Told(k).retryAfterSeconds = Seconds(bucket.start + limit.windowMs - time)
          BY Decided DEF bucket, Told
        <5>2. bucket.start + limit.windowMs - time = end - time
          BY <3>1 DEF LimitType, BucketType
        <5> QED
          BY <5>1, <5>2
      <4>3. end \in Nat
        BY <3>1 DEF LimitType, BucketType
      <4> HIDE DEF end
      <4>4. Told(k).retryAfterSeconds \in Nat /\ end - time <= 1000 * Told(k).retryAfterSeconds
        BY <4>2, <4>3, SecondsCover
      <4>5. guarded.retryAfterSeconds >= Told(k).retryAfterSeconds
        BY <1>7, <1>8, <3>6
      <4>6. t >= end
        BY <1>8, <3>3, <4>3, <4>4, <4>5
      <4> QED
        BY <3>1, <3>2, <3>5, <4>6, WindowEnds DEF end
    <3>7. CASE Told(k).allowed
      <4>1. bucket.attempts <= limit.maxAttempts
        BY <3>7, Decided DEF bucket, Told
      <4>2. CASE t >= end
        BY <3>1, <3>2, <3>5, <4>2, WindowEnds
      <4>3. CASE t < end
        <5>1. Upserted(bucket, limit, t).attempts = bucket.attempts + 1
          BY <3>1, <3>5, <4>3 DEF Upserted, LimitType, BucketType
        <5>2. Then(k).allowed \/ bucket.attempts = limit.maxAttempts
          BY <3>1, <3>2, <4>1, <5>1, Decided DEF LimitType, BucketType
        <5> QED
          BY <4>3, <5>2 DEF bucket
      <4>4. end \in Nat
        BY <3>1 DEF LimitType, BucketType
      <4> QED
        BY <4>2, <4>3, <4>4
    <3> QED
      BY <3>6, <3>7
  <2> QED
    BY <1>2, <2>1, <2>2
<1> QED
  BY <1>2, <1>6, <1>8 DEF guarded, Told
=============================================================================
