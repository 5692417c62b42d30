----------------------------- MODULE DeviceLogin -----------------------------
(***************************************************************************)
(* The CLI device flow (`physalis login`): a terminal opens a              *)
(* CliDeviceAuthorization, a signed-in user approves or refuses it in the  *)
(* browser, the terminal polls, and the first poll after an approval turns *)
(* the authorization into one CliSession.  lib/cli-session.ts and          *)
(* app/api/cli/.                                                           *)
(*                                                                         *)
(* A poll reads the row and writes it later in the same READ COMMITTED     *)
(* transaction, so polls of one authorization, decisions and account       *)
(* changes interleave between its read and its write.                      *)
(***************************************************************************)
EXTENDS Naturals

CONSTANTS
    User,         \* accounts
    Device,       \* authorizations, by deviceCodeHash
    Session,      \* CliSession ids
    Poller,       \* poll requests that may be in flight together
    NoUser,       \* userId IS NULL
    NoDevice,     \* an unused CliSession id
    DeviceTTL,    \* DEVICE_CODE_TTL_SECONDS, in ticks
    SessionTTL,   \* CLI_SESSION_TTL_SECONDS, in ticks
    PollInterval, \* DEVICE_POLL_INTERVAL_SECONDS, in ticks
    Tolerance,    \* the second granted for network jitter
    Backoff,      \* what slow_down adds to the interval
    MaxTime,      \* bound: the clock stops here
    MaxInterval   \* bound: an interval stops growing here

ASSUME DeviceLoginAssumption ==
    /\ NoUser \notin User
    /\ NoDevice \notin Device
    /\ DeviceTTL \in Nat /\ SessionTTL \in Nat /\ PollInterval \in Nat
    /\ Tolerance \in Nat /\ Backoff \in Nat
    /\ MaxTime \in Nat /\ MaxInterval \in Nat

VARIABLES
    now,      \* the server's clock
    device,   \* CliDeviceAuthorization rows
    session,  \* CliSession rows
    account,  \* the User columns the flow reads
    poll      \* transactions of /api/cli/device/poll in flight

vars == <<now, device, session, account, poll>>

Kind == {"HUMAN", "AI"}

\* "ABSENT": not created yet. "PURGED": deleted with its user's account.
Status == {"ABSENT", "PENDING", "APPROVED", "DENIED", "CONSUMED", "PURGED"}

DeviceRow ==
    [status: Status, user: User \cup {NoUser}, kind: Kind, scoped: BOOLEAN,
     interval: Nat, lastPolled: Nat, polled: BOOLEAN, decided: Nat, expires: Nat]

SessionRow ==
    [device: Device \cup {NoDevice}, user: User \cup {NoUser}, kind: Kind,
     scoped: BOOLEAN, created: Nat, expires: Nat, revoked: BOOLEAN]

AccountRow == [exists: BOOLEAN, leaving: BOOLEAN, validFrom: Nat]

NewDevice ==
    [status |-> "ABSENT", user |-> NoUser, kind |-> "HUMAN", scoped |-> FALSE,
     interval |-> PollInterval, lastPolled |-> 0, polled |-> FALSE,
     decided |-> 0, expires |-> 0]

NoSession ==
    [device |-> NoDevice, user |-> NoUser, kind |-> "HUMAN", scoped |-> FALSE,
     created |-> 0, expires |-> 0, revoked |-> FALSE]

NoPoll == [busy |-> FALSE]
PollState ==
    [busy: {FALSE}] \cup [busy: {TRUE}, device: Device, row: DeviceRow, at: Nat]

TypeOK ==
    /\ now \in Nat
    /\ device \in [Device -> DeviceRow]
    /\ session \in [Session -> SessionRow]
    /\ account \in [User -> AccountRow]
    /\ poll \in [Poller -> PollState]

Init ==
    /\ now = 0
    /\ device = [d \in Device |-> NewDevice]
    /\ session = [s \in Session |-> NoSession]
    /\ account = [u \in User |-> [exists |-> TRUE, leaving |-> FALSE, validFrom |-> 0]]
    /\ poll = [p \in Poller |-> NoPoll]

Live(s) == session[s].device # NoDevice

-----------------------------------------------------------------------------
(* The terminal and the browser.                                           *)

StartDevice(d, kind) ==
    /\ device[d].status = "ABSENT"
    /\ device' = [device EXCEPT ![d] =
                    [NewDevice EXCEPT !.status = "PENDING", !.kind = kind,
                                      !.expires = now + DeviceTTL]]
    /\ UNCHANGED <<now, session, account, poll>>

\* Mutant of Decide: an update by id, without the status condition.
DecideAgain(d, u, approve, scope) ==
    /\ account[u].exists
    /\ ~(approve /\ device[d].kind = "AI" /\ ~scope)
    /\ device[d].status \notin {"ABSENT", "PURGED"}
    /\ device[d].expires > now
    /\ device' = [device EXCEPT ![d] = [@ EXCEPT
                    !.status = IF approve THEN "APPROVED" ELSE "DENIED",
                    !.user = u,
                    !.decided = now,
                    !.scoped = approve /\ device[d].kind = "AI" /\ scope]]
    /\ UNCHANGED <<now, session, account, poll>>

\* decideDevice: one conditional update, so only a PENDING, unexpired row is
\* decided. An AI authorization is never approved without the scope the human
\* ticked; `scope` says whether the browser sent a valid one.
Decide(d, u, approve, scope) ==
    /\ account[u].exists
    /\ ~(approve /\ device[d].kind = "AI" /\ ~scope)
    /\ device[d].status = "PENDING"
    /\ device[d].expires > now
    /\ device' = [device EXCEPT ![d] = [@ EXCEPT
                    !.status = IF approve THEN "APPROVED" ELSE "DENIED",
                    !.user = u,
                    !.decided = now,
                    !.scoped = approve /\ device[d].kind = "AI" /\ scope]]
    /\ UNCHANGED <<now, session, account, poll>>

-----------------------------------------------------------------------------
(* pollDevice: the read, then one of its writes.                           *)

\* A row that is missing, consumed or expired is answered at once.
PollRead(p, d) ==
    /\ ~poll[p].busy
    /\ device[d].status \in {"PENDING", "APPROVED", "DENIED"}
    /\ device[d].expires > now
    /\ poll' = [poll EXCEPT ![p] =
                  [busy |-> TRUE, device |-> d, row |-> device[d], at |-> now]]
    /\ UNCHANGED <<now, device, session, account>>

TooFast(q) ==
    /\ q.row.polled
    /\ q.at + Tolerance < q.row.lastPolled + q.row.interval

Answer(p) == poll' = [poll EXCEPT ![p] = NoPoll]

\* A write by id to a row deleted meanwhile throws: the transaction aborts.
PollAborted(p) ==
    /\ poll[p].busy
    /\ device[poll[p].device].status = "PURGED"
    /\ Answer(p)
    /\ UNCHANGED <<now, device, session, account>>

PollSlowDown(p) ==
    LET q == poll[p] IN
    /\ q.busy
    /\ TooFast(q)
    /\ q.row.interval < MaxInterval
    /\ device[q.device].status # "PURGED"
    /\ device' = [device EXCEPT ![q.device] =
                    [@ EXCEPT !.interval = q.row.interval + Backoff, !.lastPolled = q.at]]
    /\ Answer(p)
    /\ UNCHANGED <<now, session, account>>

PollPending(p) ==
    LET q == poll[p] IN
    /\ q.busy
    /\ ~TooFast(q)
    /\ q.row.status = "PENDING"
    /\ device[q.device].status # "PURGED"
    /\ device' = [device EXCEPT ![q.device] =
                    [@ EXCEPT !.lastPolled = q.at, !.polled = TRUE]]
    /\ Answer(p)
    /\ UNCHANGED <<now, session, account>>

\* Mutant of Consume: the answer is recorded, the authorization not spent.
Touch(d, at) ==
    [device EXCEPT ![d] = [@ EXCEPT !.lastPolled = at, !.polled = TRUE]]

Consume(d, at) ==
    [device EXCEPT ![d] =
       [@ EXCEPT !.status = "CONSUMED", !.lastPolled = at, !.polled = TRUE]]

PollDenied(p) ==
    LET q == poll[p] IN
    /\ q.busy
    /\ ~TooFast(q)
    /\ q.row.status = "DENIED"
    /\ device[q.device].status # "PURGED"
    /\ device' = Consume(q.device, q.at)
    /\ Answer(p)
    /\ UNCHANGED <<now, session, account>>

\* APPROVED -> CONSUMED is conditional on the row as it is now; the loser of
\* two polls answers "expired".
PollTooLate(p) ==
    LET q == poll[p] IN
    /\ q.busy
    /\ ~TooFast(q)
    /\ q.row.status = "APPROVED"
    /\ device[q.device].status # "APPROVED"
    /\ Answer(p)
    /\ UNCHANGED <<now, device, session, account>>

\* The account asked for its deletion: the authorization is spent, no session.
PollLeaving(p) ==
    LET q == poll[p] IN
    /\ q.busy
    /\ ~TooFast(q)
    /\ q.row.status = "APPROVED"
    /\ device[q.device].status = "APPROVED"
    /\ account[q.row.user].leaving
    /\ device' = Consume(q.device, q.at)
    /\ Answer(p)
    /\ UNCHANGED <<now, session, account>>

\* Mutant of PollApproved: the status is the one the poll read, not the row's.
PollApprovedStale(p, s) ==
    LET q == poll[p] IN
    /\ q.busy
    /\ ~TooFast(q)
    /\ q.row.status = "APPROVED"
    /\ account[q.row.user].exists
    /\ ~account[q.row.user].leaving
    /\ ~Live(s)
    /\ device' = Consume(q.device, q.at)
    /\ session' = [session EXCEPT ![s] =
                     [device |-> q.device, user |-> q.row.user, kind |-> q.row.kind,
                      scoped |-> q.row.scoped, created |-> now,
                      expires |-> q.at + SessionTTL, revoked |-> FALSE]]
    /\ Answer(p)
    /\ UNCHANGED <<now, account>>

\* The session is created in the transaction that spends the authorization.
PollApproved(p, s) ==
    LET q == poll[p] IN
    /\ q.busy
    /\ ~TooFast(q)
    /\ q.row.status = "APPROVED"
    /\ device[q.device].status = "APPROVED"
    /\ account[q.row.user].exists
    /\ ~account[q.row.user].leaving
    /\ ~Live(s)
    /\ device' = Consume(q.device, q.at)
    /\ \E created \in {q.at, now} :
         session' = [session EXCEPT ![s] =
                       [device |-> q.device, user |-> q.row.user, kind |-> q.row.kind,
                        scoped |-> q.row.scoped, created |-> created,
                        expires |-> q.at + SessionTTL, revoked |-> FALSE]]
    /\ Answer(p)
    /\ UNCHANGED <<now, account>>

-----------------------------------------------------------------------------
(* Using and ending a session, and what happens to the account meanwhile.  *)

\* validateCliSession: what a Bearer sv_cli_ must satisfy on every request.
Usable(s) ==
    LET row == session[s] IN
    /\ Live(s)
    /\ ~row.revoked
    /\ row.expires > now
    /\ account[row.user].exists
    /\ ~account[row.user].leaving
    /\ ~(account[row.user].validFrom > row.created)

\* `physalis logout` authenticates with the session it revokes; /account
\* revokes any session of its user.
Logout(s) ==
    /\ Usable(s)
    /\ session' = [session EXCEPT ![s].revoked = TRUE]
    /\ UNCHANGED <<now, device, account, poll>>

RevokeFromAccount(u, s) ==
    /\ Live(s)
    /\ session[s].user = u
    /\ session' = [session EXCEPT ![s].revoked = TRUE]
    /\ UNCHANGED <<now, device, account, poll>>

\* A password reset moves sessionsValidFrom to now.
ResetPassword(u) ==
    /\ account[u].exists
    /\ account' = [account EXCEPT ![u].validFrom = now]
    /\ UNCHANGED <<now, device, session, poll>>

RequestDeletion(u) ==
    /\ account[u].exists /\ ~account[u].leaving
    /\ account' = [account EXCEPT ![u].leaving = TRUE]
    /\ UNCHANGED <<now, device, session, poll>>

CancelDeletion(u) ==
    /\ account[u].exists /\ account[u].leaving
    /\ account' = [account EXCEPT ![u].leaving = FALSE]
    /\ UNCHANGED <<now, device, session, poll>>

\* Deleting the User row cascades to its authorizations and its sessions: its
\* owner's POST /api/me/delete/now, the platform's admin page (which waits for no
\* request), the purge of an account that left its last organisation.
DeleteAccount(u) ==
    /\ account[u].exists
    /\ account' = [account EXCEPT ![u].exists = FALSE]
    /\ device' = [d \in Device |->
                    IF device[d].user = u
                    THEN [device[d] EXCEPT !.status = "PURGED"] ELSE device[d]]
    /\ session' = [s \in Session |->
                     IF session[s].user = u THEN NoSession ELSE session[s]]
    /\ UNCHANGED <<now, poll>>

Tick ==
    /\ now < MaxTime
    /\ now' = now + 1
    /\ UNCHANGED <<device, session, account, poll>>

-----------------------------------------------------------------------------
PollStep(p) ==
    \/ \E d \in Device : PollRead(p, d)
    \/ PollAborted(p)
    \/ PollSlowDown(p)
    \/ PollPending(p)
    \/ PollDenied(p)
    \/ PollTooLate(p)
    \/ PollLeaving(p)
    \/ \E s \in Session : PollApproved(p, s)

Next ==
    \/ \E d \in Device, kind \in Kind : StartDevice(d, kind)
    \/ \E d \in Device, u \in User, approve, scope \in BOOLEAN :
         Decide(d, u, approve, scope)
    \/ \E p \in Poller : PollStep(p)
    \/ \E s \in Session : Logout(s)
    \/ \E u \in User, s \in Session : RevokeFromAccount(u, s)
    \/ \E u \in User : ResetPassword(u)
    \/ \E u \in User : RequestDeletion(u)
    \/ \E u \in User : CancelDeletion(u)
    \/ \E u \in User : DeleteAccount(u)
    \/ Tick

Spec == Init /\ [][Next]_vars

-----------------------------------------------------------------------------
(* Properties.                                                             *)

\* However many polls of one authorization are in flight, at most one of them
\* mints a session: "deux polls simultanes ne frappent pas deux sessions".
OneSessionPerAuthorization ==
    \A s, t \in Session :
        Live(s) /\ Live(t) /\ session[s].device = session[t].device => s = t

\* A session exists only for the user who approved its authorization, which is
\* spent, and an AI session carries the scope that user ticked: the poll's
\* stale row never hands a session to anyone else.
SessionFollowsApproval ==
    \A s \in Session : Live(s) =>
        LET d == session[s].device IN
        /\ device[d].status = "CONSUMED"
        /\ session[s].user = device[d].user
        /\ session[s].kind = device[d].kind
        /\ (session[s].kind = "AI" => session[s].scoped)

\* A decision is taken once: the user it was attributed to and the moment it
\* was taken never change, and a refused or spent authorization never becomes
\* approved again, whatever late write a poll makes.
DecisionIsFinal ==
    [][\A d \in Device : device[d].status \notin {"ABSENT", "PENDING"} =>
         /\ device'[d].user = device[d].user
         /\ device'[d].decided = device[d].decided
         /\ device'[d].status = "APPROVED" => device[d].status = "APPROVED"]_vars

\* What the header of lib/cli-session.ts promises of a password reset: it cuts
\* the CLI. No session minted after a reset rests on an approval given before
\* it, by whoever held the account then.
ResetCutsCli ==
    \A s \in Session : Usable(s) =>
        LET d == session[s].device
            reset == account[session[s].user].validFrom
        IN session[s].created > reset => device[d].decided >= reset

-----------------------------------------------------------------------------
(* The flow implements DeviceGrant.                                        *)

PhaseOf(status) ==
    CASE status = "ABSENT"   -> "new"
      [] status = "PENDING"  -> "open"
      [] status = "APPROVED" -> "granted"
      [] status = "DENIED"   -> "refused"
      [] OTHER               -> "closed"

Grant == INSTANCE DeviceGrant WITH
    phase  <- [d \in Device |-> PhaseOf(device[d].status)],
    holder <- [d \in Device |-> device[d].user],
    minted <- [d \in Device |-> {s \in Session : session[s].device = d}]

\* Every step of the flow, its overlapping polls included, is a step of the
\* grant or changes nothing the grant sees.
ImplementsDeviceGrant == Grant!Spec
=============================================================================
