----------------------------- MODULE AccountAuth -----------------------------
(***************************************************************************)
(* How one account proves who it is: password, second factor, backup       *)
(* codes, the sessions they open (JWT of the web, PluginToken of the       *)
(* extension), the bound that cuts sessions, and the reset of a password.  *)
(* lib/auth.ts, lib/totp.ts, app/api/me/2fa/, app/api/plugin/,             *)
(* reset-password/ and forgot-password/.                                   *)
(*                                                                         *)
(* A request reads the account, awaits (bcrypt, a mail, another query) and *)
(* writes; only a time step and a backup code are taken by conditional or  *)
(* relative updates.  Requests never share more than one account.          *)
(***************************************************************************)
EXTENDS Naturals, FiniteSets

CONSTANTS
    Request,      \* requests that may be in flight together
    ResetToken,   \* PasswordResetToken ids, never used twice
    Period,       \* ticks of the clock in a TOTP time step
    BatchSize,    \* BACKUP_CODES_COUNT
    MaxNow,       \* bound: the clock stops here
    MaxSession,   \* bound: sessions at a time
    MaxPassword,  \* bound: passwords the account has had
    MaxEnrolment  \* bound: secrets generated, and enrolments confirmed

ASSUME AccountAuthAssumption ==
    /\ Period \in Nat \ {0} /\ BatchSize \in Nat
    /\ MaxNow \in Nat /\ MaxSession \in Nat /\ MaxPassword \in Nat /\ MaxEnrolment \in Nat

VARIABLES
    now,         \* the server's clock
    account,     \* the User row
    session,     \* JWTs and PluginTokens not expired nor revoked
    resetToken,  \* PasswordResetToken rows
    req,         \* requests in flight
    secrets,     \* TOTP secrets generated so far
    batches,     \* batches of backup codes generated so far
    uses,        \* history: uses of each TOTP code since lastStep was last replaced
    burns,       \* history: uses of each backup code
    verified,    \* history: the secret whose code confirmed the last enrolment
    stale        \* history: reset tokens known when a reset ended

enrolment == <<secrets, batches, verified>>
vars == <<now, account, session, resetToken, req, enrolment, uses, burns, stale>>

Secret == 1..MaxEnrolment
BackupCode == 1..(MaxEnrolment * BatchSize)

\* The time step of the clock; 0 stands for a null lastTotpTimeStep.
TimeStep == 1 + now \div Period
Step == 1..(2 + MaxNow \div Period)

\* password counts the passwords so far, 0 is a null secret or sessionsValidFrom.
AccountRow ==
    [password: Nat, validFrom: Nat, enabled: BOOLEAN, secret: Nat,
     backup: SUBSET BackupCode, lastStep: Nat]

NewAccount ==
    [password |-> 1, validFrom |-> 0, enabled |-> FALSE, secret |-> 0,
     backup |-> {}, lastStep |-> 0]

\* password is the password that was current when its holder proved it.
Session == [kind: {"WEB", "PLUGIN"}, at: Nat, password: Nat]

TokenState == {"NONE", "OPEN", "EXPIRED", "USED", "GONE"}

\* What a login keeps of the account it read, until it has its second factor.
Seen == [password: Nat, secret: Nat, backup: SUBSET BackupCode, lastStep: Nat]

Idle == [at |-> "idle"]
RequestState ==
    [at: {"idle", "setup"}]
    \cup [at: {"login", "plugin"}, seen: Seen, since: Nat]
    \cup [at: {"sign", "issue"}, password: Nat]
    \cup [at: {"verify"}, secret: Nat, step: Nat]
    \cup [at: {"disable"}, from: Nat]
    \cup [at: {"reset", "mark", "purge"}, token: ResetToken]

TypeOK ==
    /\ now \in Nat
    /\ account \in AccountRow
    /\ session \in SUBSET Session
    /\ resetToken \in [ResetToken -> TokenState]
    /\ req \in [Request -> RequestState]
    /\ secrets \in Nat /\ batches \in Nat /\ verified \in Nat
    /\ uses \in [Secret \X Step -> Nat]
    /\ burns \in [BackupCode -> Nat]
    /\ stale \in SUBSET ResetToken

Init ==
    /\ now = 1
    /\ account = NewAccount
    /\ session = {}
    /\ resetToken = [t \in ResetToken |-> "NONE"]
    /\ req = [r \in Request |-> Idle]
    /\ secrets = 0 /\ batches = 0 /\ verified = 0
    /\ uses = [c \in Secret \X Step |-> 0]
    /\ burns = [b \in BackupCode |-> 0]
    /\ stale = {}

Enter(r, state) == req' = [req EXCEPT ![r] = state]
Leave(r) == Enter(r, Idle)

Tick ==
    /\ now < MaxNow
    /\ now' = now + 1
    /\ UNCHANGED <<account, session, resetToken, req, enrolment, uses, burns, stale>>

-----------------------------------------------------------------------------
(* Sessions.                                                               *)

\* ~isSessionInvalidated: the comparison is strict.
Live(s) == ~(account.validFrom > s.at)

\* Revocation of a PluginToken, expiry of either kind.
EndSession(s) ==
    /\ session' = session \ {s}
    /\ UNCHANGED <<now, account, resetToken, req, enrolment, uses, burns, stale>>

Room == Cardinality(session) < MaxSession

\* POST /api/plugin/issue: a web session stands for the password and the code.
AskIssue(r, s) ==
    /\ req[r] = Idle
    /\ s.kind = "WEB" /\ Live(s)
    /\ Enter(r, [at |-> "issue", password |-> s.password])
    /\ UNCHANGED <<now, account, session, resetToken, enrolment, uses, burns, stale>>

Issue(r) ==
    /\ req[r].at = "issue" /\ Room
    /\ session' = session \cup
                    {[kind |-> "PLUGIN", at |-> now, password |-> req[r].password]}
    /\ Leave(r)
    /\ UNCHANGED <<now, account, resetToken, enrolment, uses, burns, stale>>

-----------------------------------------------------------------------------
(* Login on the web (authorize, then the jwt callback) and in the          *)
(* extension (POST /api/plugin/auth, one transaction).                     *)

Seeing == [password |-> account.password, secret |-> account.secret,
           backup |-> account.backup, lastStep |-> account.lastStep]

\* The password given is the one read; a wrong one changes nothing.
ReadLogin(r) ==
    /\ req[r] = Idle
    /\ Enter(r, IF account.enabled
                  THEN [at |-> "login", seen |-> Seeing, since |-> now]
                  ELSE [at |-> "sign", password |-> account.password])
    /\ UNCHANGED <<now, account, session, resetToken, enrolment, uses, burns, stale>>

\* The extension refuses an account without second factor.
ReadPlugin(r) ==
    /\ req[r] = Idle
    /\ account.enabled /\ account.secret # 0
    /\ Enter(r, [at |-> "plugin", seen |-> Seeing, since |-> now])
    /\ UNCHANGED <<now, account, session, resetToken, enrolment, uses, burns, stale>>

\* verifyTotp: a window of one step on either side, after what was consumed.
AcceptedSteps(after) ==
    {c \in Step : c > after /\ c + 1 >= TimeStep /\ c <= TimeStep + 1}

\* A login goes on to sign; the extension's token commits with its code, dated
\* somewhere between the start of the transaction and now.
Proven(r) ==
    \/ /\ req[r].at = "login"
       /\ Enter(r, [at |-> "sign", password |-> req[r].seen.password])
       /\ UNCHANGED session
    \/ /\ req[r].at = "plugin" /\ Room
       /\ \E t \in req[r].since..now :
            session' = session \cup
              {[kind |-> "PLUGIN", at |-> t, password |-> req[r].seen.password]}
       /\ Leave(r)

\* Mutant of Unconsumed: the update has no condition on lastTotpTimeStep.
UnconsumedUnchecked(c) == TRUE

\* The condition of consumeTotpTimeStep.
Unconsumed(c) == account.lastStep < c

TakeTotp(r, c) ==
    /\ req[r].at \in {"login", "plugin"}
    /\ req[r].seen.secret # 0
    /\ c \in AcceptedSteps(req[r].seen.lastStep) /\ Unconsumed(c)
    /\ account' = [account EXCEPT !.lastStep = c]
    /\ uses' = [uses EXCEPT ![<<req[r].seen.secret, c>>] = @ + 1]
    /\ Proven(r)
    /\ UNCHANGED <<now, resetToken, enrolment, burns, stale>>

\* Mutant of Remaining: the array read is written back without the code.
RemainingOfRead(r, b) == req[r].seen.backup \ {b}

\* array_remove, on the array as it is.
Remaining(r, b) == account.backup \ {b}

TakeBackup(r, b) ==
    /\ req[r].at \in {"login", "plugin"}
    /\ req[r].seen.secret # 0
    /\ b \in req[r].seen.backup
    /\ account' = [account EXCEPT !.backup = Remaining(r, b)]
    /\ burns' = [burns EXCEPT ![b] = @ + 1]
    /\ Proven(r)
    /\ UNCHANGED <<now, resetToken, enrolment, uses, stale>>

\* loginAt is the instant of the signature, not that of the password read.
Sign(r) ==
    /\ req[r].at = "sign" /\ Room
    /\ session' = session \cup
                    {[kind |-> "WEB", at |-> now, password |-> req[r].password]}
    /\ Leave(r)
    /\ UNCHANGED <<now, account, resetToken, enrolment, uses, burns, stale>>

-----------------------------------------------------------------------------
(* The second factor: POST /api/me/2fa/setup, POST /api/me/2fa/verify and  *)
(* DELETE /api/me/2fa, for a live web session.                             *)

MayEnrol(s) == s.kind = "WEB" /\ Live(s) /\ ~account.enabled

AskSetup(r, s) ==
    /\ req[r] = Idle /\ MayEnrol(s)
    /\ Enter(r, [at |-> "setup"])
    /\ UNCHANGED <<now, account, session, resetToken, enrolment, uses, burns, stale>>

Setup(r) ==
    /\ req[r].at = "setup" /\ secrets < MaxEnrolment
    /\ secrets' = secrets + 1
    /\ account' = [account EXCEPT !.secret = secrets + 1]
    /\ Leave(r)
    /\ UNCHANGED <<now, session, resetToken, batches, verified, uses, burns, stale>>

\* No afterTimeStep: a secret being enrolled has no step behind it.
AskVerify(r, s, c) ==
    /\ req[r] = Idle /\ MayEnrol(s)
    /\ account.secret # 0 /\ c \in AcceptedSteps(0)
    /\ Enter(r, [at |-> "verify", secret |-> account.secret, step |-> c])
    /\ UNCHANGED <<now, account, session, resetToken, enrolment, uses, burns, stale>>

Batch(n) == (n * BatchSize + 1)..(n * BatchSize + BatchSize)

\* Mutant of EnrolledStep: the step of the code that enrols is not kept.
EnrolledStepForgotten(r) == account.lastStep

EnrolledStep(r) == req[r].step

\* By id: the secret in force may not be the one verified.
Verify(r) ==
    /\ req[r].at = "verify" /\ batches < MaxEnrolment
    /\ batches' = batches + 1
    /\ account' = [account EXCEPT !.enabled = TRUE, !.backup = Batch(batches),
                                  !.lastStep = EnrolledStep(r)]
    /\ verified' = req[r].secret
    /\ uses' = [c \in Secret \X Step |-> IF c = <<req[r].secret, req[r].step>> THEN 1 ELSE 0]
    /\ Leave(r)
    /\ UNCHANGED <<now, session, resetToken, secrets, burns, stale>>

\* A code that has not been consumed, or a backup code; neither is consumed, for
\* both are about to go.
AskDisable(r, s) ==
    /\ req[r] = Idle
    /\ s.kind = "WEB" /\ Live(s)
    /\ account.enabled /\ account.secret # 0
    /\ AcceptedSteps(account.lastStep) # {} \/ account.backup # {}
    /\ Enter(r, [at |-> "disable", from |-> s.at])
    /\ UNCHANGED <<now, account, session, resetToken, enrolment, uses, burns, stale>>

\* Mutant of CutBefore: the bound is lifted with the second factor.
CutBeforeNothing(r) == 0

\* Sessions older than the caller's are cut, the caller's is not.
CutBefore(r) == req[r].from

Disable(r) ==
    /\ req[r].at = "disable"
    /\ account' = [account EXCEPT !.enabled = FALSE, !.secret = 0, !.backup = {},
                                  !.lastStep = 0, !.validFrom = CutBefore(r)]
    /\ uses' = [c \in Secret \X Step |-> 0]
    /\ Leave(r)
    /\ UNCHANGED <<now, session, resetToken, enrolment, burns, stale>>

-----------------------------------------------------------------------------
(* The reset of a forgotten password.                                      *)

Forget(t) ==
    /\ resetToken[t] = "NONE"
    /\ resetToken' = [resetToken EXCEPT ![t] = "OPEN"]
    /\ UNCHANGED <<now, account, session, req, enrolment, uses, burns, stale>>

ExpireToken(t) ==
    /\ resetToken[t] = "OPEN"
    /\ resetToken' = [resetToken EXCEPT ![t] = "EXPIRED"]
    /\ UNCHANGED <<now, account, session, req, enrolment, uses, burns, stale>>

AskReset(r, t) ==
    /\ req[r] = Idle /\ resetToken[t] = "OPEN"
    /\ Enter(r, [at |-> "reset", token |-> t])
    /\ UNCHANGED <<now, account, session, resetToken, enrolment, uses, burns, stale>>

\* The password is written first, and the token marked after.
Reset(r) ==
    /\ req[r].at = "reset" /\ account.password < MaxPassword
    /\ account' = [account EXCEPT !.password = @ + 1, !.validFrom = now]
    /\ Enter(r, [req[r] EXCEPT !.at = "mark"])
    /\ UNCHANGED <<now, session, resetToken, enrolment, uses, burns, stale>>

MarkUsed(r) ==
    /\ req[r].at = "mark"
    /\ resetToken[req[r].token] # "GONE"
    /\ resetToken' = [resetToken EXCEPT ![req[r].token] = "USED"]
    /\ Enter(r, [req[r] EXCEPT !.at = "purge"])
    /\ UNCHANGED <<now, account, session, enrolment, uses, burns, stale>>

\* Mutant of Unused: the other tokens of the user are left.
UnusedNot(t) == FALSE

Unused(t) == resetToken[t] \in {"OPEN", "EXPIRED"}

PurgeSiblings(r) ==
    /\ req[r].at = "purge"
    /\ resetToken' = [t \in ResetToken |-> IF Unused(t) THEN "GONE" ELSE resetToken[t]]
    /\ stale' = {t \in ResetToken : resetToken[t] # "NONE"}
    /\ Leave(r)
    /\ UNCHANGED <<now, account, session, enrolment, uses, burns>>

\* A wrong code, an update that finds no row, a request that stops on the way.
Abandon(r) ==
    /\ req[r] # Idle
    /\ Leave(r)
    /\ UNCHANGED <<now, account, session, resetToken, enrolment, uses, burns, stale>>

Next ==
    \/ Tick
    \/ \E s \in session :
         \/ EndSession(s)
         \/ \E r \in Request :
              \/ AskIssue(r, s) \/ AskSetup(r, s) \/ AskDisable(r, s)
              \/ \E c \in Step : AskVerify(r, s, c)
    \/ \E t \in ResetToken :
         \/ Forget(t) \/ ExpireToken(t)
         \/ \E r \in Request : AskReset(r, t)
    \/ \E r \in Request :
         \/ ReadLogin(r) \/ ReadPlugin(r) \/ Sign(r) \/ Issue(r)
         \/ \E c \in Step : TakeTotp(r, c)
         \/ \E b \in BackupCode : TakeBackup(r, b)
         \/ Setup(r) \/ Verify(r) \/ Disable(r)
         \/ Reset(r) \/ MarkUsed(r) \/ PurgeSiblings(r) \/ Abandon(r)

Spec == Init /\ [][Next]_vars

-----------------------------------------------------------------------------
(* Properties.                                                             *)

\* A TOTP code opens one session at most, and none if it confirmed the enrolment,
\* for as long as lastTotpTimeStep is only moved by consumptions: in the 90 s
\* during which the code is valid, however the requests overlap.
CodeOpensOnce == \A c \in Secret \X Step : uses[c] <= 1

\* A backup code that has been used is not in the account again, although the
\* requests that use different codes all read the same array.
BurntStaysBurnt == \A b \in account.backup : burns[b] = 0

\* "a usage unique" (security.md): a backup code opens one session at most.
BackupOpensOnce == \A b \in BackupCode : burns[b] <= 1

\* An account that asks for a second factor has the secret that was verified.
EnrolmentWorks == account.enabled => account.secret # 0 /\ account.secret = verified

\* "couper toutes les sessions emises avant le reset": no session lives that
\* proved another password than the account's.
ResetEvicts == \A s \in session : Live(s) => s.password = account.password

\* "avance la borne" (security.md): a session that was cut stays cut.
BoundAdvances == [][account'.validFrom >= account.validFrom]_vars

\* Once a reset has ended, neither its link nor those sent before it reset the
\* password again.
OldLinksAreDead ==
    [][\A r \in Request :
         req[r].at = "reset" /\ req'[r].at = "mark" => req[r].token \notin stale]_vars
=============================================================================
