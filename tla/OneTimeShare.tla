---------------------------- MODULE OneTimeShare ----------------------------
(***************************************************************************)
(* One-time shares: a ciphertext behind a link that opens once, with an    *)
(* optional password, an expiry and a revocation.  app/api/share/ and      *)
(* app/api/me/shares/.                                                     *)
(*                                                                         *)
(* Every statement is its own transaction: a request reads the row once,   *)
(* then counts an attempt, compares without the database, revokes or       *)
(* consumes by separate writes, and only the consumption looks at the row  *)
(* again.  It stops, or others go on, between any two of these.            *)
(***************************************************************************)
EXTENDS Naturals, FiniteSets

CONSTANTS
    Share,        \* OneTimeShare ids, never used twice
    Request,      \* requests that may be in flight together
    Nobody,       \* no request
    MaxAttempts,  \* MAX_PASSWORD_ATTEMPTS
    AttemptBound  \* bound: passwordAttempts stops here

ASSUME OneTimeShareAssumption ==
    /\ MaxAttempts \in Nat \ {0} /\ AttemptBound \in Nat
    /\ Nobody \notin Request /\ IsFiniteSet(Request)

VARIABLES
    share,   \* OneTimeShare rows
    req,     \* requests in flight
    tried,   \* history: password comparisons made on each share
    failed,  \* history: those that failed
    lost,    \* history: attempts counted whose request stopped before comparing
    taker,   \* history: the request whose conditional update consumed it
    handed   \* history: answers that carried its ciphertext

shareVars == <<share, req, tried, failed, lost, taker, handed>>

\* "FREE": not created yet. "GONE": deleted with its creator's account.
\* revoked is revokedAt, with whom set it last.
ShareRow ==
    [state: {"FREE", "LIVE", "GONE"}, locked: BOOLEAN, sealed: BOOLEAN, attempts: Nat,
     consumed: BOOLEAN, expired: BOOLEAN, revoked: {"NO", "OWNER", "GATE"}]

NewShare ==
    [state |-> "FREE", locked |-> FALSE, sealed |-> FALSE, attempts |-> 0,
     consumed |-> FALSE, expired |-> FALSE, revoked |-> "NO"]

\* seen is the passwordAttempts the request read, then what its increment returned;
\* guess the password it carries.
Guess == {"NONE", "WRONG", "RIGHT"}
Idle == [at |-> "idle"]
RequestState ==
    [at: {"idle"}]
    \cup [at: {"gate", "compare", "revoke", "consume", "answer", "close"},
          share: Share, seen: Nat, guess: Guess]

ShareTypeOK ==
    /\ share \in [Share -> ShareRow]
    /\ req \in [Request -> RequestState]
    /\ tried \in [Share -> Nat]
    /\ failed \in [Share -> Nat]
    /\ lost \in [Share -> Nat]
    /\ taker \in [Share -> Request \cup {Nobody}]
    /\ handed \in [Share -> Nat]

ShareInit ==
    /\ share = [s \in Share |-> NewShare]
    /\ req = [r \in Request |-> Idle]
    /\ tried = [s \in Share |-> 0]
    /\ failed = [s \in Share |-> 0]
    /\ lost = [s \in Share |-> 0]
    /\ taker = [s \in Share |-> Nobody]
    /\ handed = [s \in Share |-> 0]

LiveShare(s) == share[s].state = "LIVE"
Open(row) == row.state = "LIVE" /\ row.revoked = "NO" /\ ~row.consumed /\ ~row.expired

Enter(r, at) == req' = [req EXCEPT ![r] = [@ EXCEPT !.at = at]]

Leave(r) == req' = [req EXCEPT ![r] = Idle]

-----------------------------------------------------------------------------
(* The creator: POST /api/share, DELETE /api/me/shares/[id], the deletion  *)
(* of the account.                                                         *)

CreateShare(s, locked) ==
    /\ share[s].state = "FREE"
    /\ share' = [share EXCEPT ![s] =
                   [NewShare EXCEPT !.state = "LIVE", !.sealed = TRUE, !.locked = locked]]
    /\ UNCHANGED <<req, tried, failed, lost, taker, handed>>

\* A share closed already answers alreadyClosed and writes nothing.
AskRevoke(r, s) ==
    /\ req[r] = Idle
    /\ LiveShare(s) /\ share[s].revoked = "NO" /\ ~share[s].consumed
    /\ req' = [req EXCEPT ![r] =
                 [at |-> "close", share |-> s, seen |-> share[s].attempts, guess |-> "NONE"]]
    /\ UNCHANGED <<share, tried, failed, lost, taker, handed>>

\* Mutant of Erased: the revocation keeps the ciphertext.
ErasedNot(s, by) == [share EXCEPT ![s] = [@ EXCEPT !.revoked = by]]

\* Both revocations update by id, whatever happened to the row since it was read.
Erased(s, by) == [share EXCEPT ![s] = [@ EXCEPT !.revoked = by, !.sealed = FALSE]]

RevokeShare(r) ==
    /\ req[r].at = "close" /\ LiveShare(req[r].share)
    /\ share' = Erased(req[r].share, "OWNER")
    /\ Leave(r)
    /\ UNCHANGED <<tried, failed, lost, taker, handed>>

DeleteCreator(s) ==
    /\ LiveShare(s)
    /\ share' = [share EXCEPT ![s] = [NewShare EXCEPT !.state = "GONE"]]
    /\ UNCHANGED <<req, tried, failed, lost, taker, handed>>

Expire(s) ==
    /\ LiveShare(s) /\ ~share[s].expired
    /\ share' = [share EXCEPT ![s] = [@ EXCEPT !.expired = TRUE]]
    /\ UNCHANGED <<req, tried, failed, lost, taker, handed>>

-----------------------------------------------------------------------------
(* POST /api/share/[token].                                                *)

\* The other answers of this step (404, requiresPassword) change nothing.
ReadShare(r, s, g) ==
    /\ req[r] = Idle
    /\ Open(share[s])
    /\ share[s].locked => g # "NONE"
    /\ req' = [req EXCEPT ![r] =
                 [at |-> IF share[s].locked THEN "gate" ELSE "consume",
                  share |-> s, seen |-> share[s].attempts, guess |-> g]]
    /\ UNCHANGED <<share, tried, failed, lost, taker, handed>>

\* Mutant of Counted: the count is the one read before, plus one.
CountedFromRead(r) == req[r].seen + 1

\* What the atomic increment returns.
Counted(r) == share[req[r].share].attempts + 1

\* Mutant of Passes: the last attempt is refused without a comparison.
PassesTooFew(n) == n < MaxAttempts

\* Is the attempt counted n-th compared?
Passes(n) == n <= MaxAttempts

\* The increment is committed before the comparison, or instead of it.
CountAttempt(r) ==
    LET s == req[r].share
        n == Counted(r)
    IN  /\ req[r].at = "gate" /\ LiveShare(s)
        /\ n <= AttemptBound
        /\ share' = [share EXCEPT ![s] = [@ EXCEPT !.attempts = n]]
        /\ req' = [req EXCEPT ![r] =
                     [@ EXCEPT !.at = IF Passes(n) THEN "compare" ELSE "revoke", !.seen = n]]
        /\ UNCHANGED <<tried, failed, lost, taker, handed>>

\* bcrypt, with the hash read at the start: the row may be closed, or gone.
MatchPassword(r) ==
    /\ req[r].at = "compare" /\ req[r].guess = "RIGHT"
    /\ tried' = [tried EXCEPT ![req[r].share] = @ + 1]
    /\ Enter(r, "consume")
    /\ UNCHANGED <<share, failed, lost, taker, handed>>

MissPassword(r) ==
    /\ req[r].at = "compare" /\ req[r].guess = "WRONG"
    /\ tried' = [tried EXCEPT ![req[r].share] = @ + 1]
    /\ failed' = [failed EXCEPT ![req[r].share] = @ + 1]
    /\ IF req[r].seen >= MaxAttempts THEN Enter(r, "revoke") ELSE Leave(r)
    /\ UNCHANGED <<share, lost, taker, handed>>

RevokeByGate(r) ==
    /\ req[r].at = "revoke" /\ LiveShare(req[r].share)
    /\ share' = Erased(req[r].share, "GATE")
    /\ Leave(r)
    /\ UNCHANGED <<tried, failed, lost, taker, handed>>

\* Mutant of StillOpen: the update is by id, on the strength of the read.
StillOpenUnchecked(r) == LiveShare(req[r].share)

\* Mutant of StillOpen: revokedAt is not in the condition.
StillOpenRevoked(r) ==
    LET row == share[req[r].share] IN row.state = "LIVE" /\ ~row.consumed /\ ~row.expired

\* The condition of the update that consumes.
StillOpen(r) == Open(share[req[r].share])

ConsumeShare(r) ==
    /\ req[r].at = "consume" /\ StillOpen(r)
    /\ share' = [share EXCEPT ![req[r].share] =
                   [@ EXCEPT !.consumed = TRUE, !.sealed = FALSE]]
    /\ taker' = [taker EXCEPT ![req[r].share] = r]
    /\ Enter(r, "answer")
    /\ UNCHANGED <<tried, failed, lost, handed>>

\* The answer carries the ciphertext read at the start: the row's is erased.
AnswerShare(r) ==
    /\ req[r].at = "answer"
    /\ handed' = [handed EXCEPT ![req[r].share] = @ + 1]
    /\ Leave(r)
    /\ UNCHANGED <<share, tried, failed, lost, taker>>

\* An update that finds nothing to update (404 or P2025), or a request that
\* stops on the way.
Abandon(r) ==
    /\ req[r] # Idle
    /\ lost' = IF req[r].at = "compare"
               THEN [lost EXCEPT ![req[r].share] = @ + 1] ELSE lost
    /\ Leave(r)
    /\ UNCHANGED <<share, tried, failed, taker, handed>>

ShareNext ==
    \/ \E s \in Share :
         \/ \E locked \in BOOLEAN : CreateShare(s, locked)
         \/ DeleteCreator(s) \/ Expire(s)
         \/ \E r \in Request : AskRevoke(r, s) \/ \E g \in Guess : ReadShare(r, s, g)
    \/ \E r \in Request :
         \/ RevokeShare(r) \/ CountAttempt(r) \/ MatchPassword(r) \/ MissPassword(r)
         \/ RevokeByGate(r) \/ ConsumeShare(r) \/ AnswerShare(r) \/ Abandon(r)

ShareSpec == ShareInit /\ [][ShareNext]_shareVars

-----------------------------------------------------------------------------
(* Properties.                                                             *)

\* A share is answered with its ciphertext once at most, however many requests
\* read it open: the "consume atomique" of share/[token].
DeliveredOnce == \A s \in Share : handed[s] <= 1

\* "C'est la base qui compte et qui decide": the gate compares MaxAttempts
\* passwords with a share's at most, however the requests overlap.
GuessesAreBounded == \A s \in Share : tried[s] <= MaxAttempts

\* The requests about to compare a password with that of s, their attempt counted.
Comparing(s) == {r \in Request : req[r].at = "compare" /\ req[r].share = s}

\* The attempts at s that were admitted: compared, about to be, or lost with their request.
Admitted(s) == tried[s] + Cardinality(Comparing(s)) + lost[s]

\* The gate takes no attempt away: it closes a share only once MaxAttempts are admitted.
\* The last ones may still be compared when another request, one too many, closes it.
GateGrantsEveryAttempt ==
    \A s \in Share : share[s].revoked = "GATE" => Admitted(s) = MaxAttempts

\* The five attempts are exactly five: the sixth is not compared, and no closing by the
\* gate comes before the fifth is admitted, however many requests are counted while others
\* compare or stop.
GateIsExact == GuessesAreBounded /\ GateGrantsEveryAttempt

\* A consumed or revoked share keeps no ciphertext, whichever request closed it
\* first and whichever wrote last.
ClosedIsErased ==
    \A s \in Share : share[s].consumed \/ share[s].revoked # "NO" => ~share[s].sealed

\* "Revocation UNIQUEMENT sur echec": a share the gate revoked was missed
\* MaxAttempts times.
OnlyFailuresRevoke ==
    \A s \in Share : share[s].revoked = "GATE" => failed[s] = MaxAttempts

\* "Un utilisateur legitime qui se trompe 4 fois puis saisit le bon mot de passe au 5e
\* essai doit passer": the gate does not close a share on a right password it admitted.
RightGuessPasses ==
    \A r \in Request : req[r].at \in {"compare", "consume"} /\ req[r].guess = "RIGHT" =>
        share[req[r].share].revoked # "GATE"

\* A share shown as revoked to its creator (me/shares ranks revoked before
\* consumed) was not handed to anyone.
RevokedWasNotRead ==
    \A s \in Share : share[s].revoked = "OWNER" => taker[s] = Nobody

Phase(row) ==
    IF row.state = "FREE" THEN "new" ELSE IF Open(row) THEN "open" ELSE "closed"

Promise == INSTANCE Handover WITH
    Item <- Share, phase <- [s \in Share |-> Phase(share[s])]

\* Offered once, taken by one request or closed untaken, never reopened.
ImplementsHandover == Promise!Spec
=============================================================================
