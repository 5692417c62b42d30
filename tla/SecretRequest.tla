---------------------------- MODULE SecretRequest ----------------------------
(***************************************************************************)
(* Secrets asked of a third party: a member creates a request, whoever     *)
(* holds its link submits one ciphertext, members reveal it, import it     *)
(* into a project, or revoke the request.  app/api/secret-requests/ and    *)
(* app/api/public/secret-requests/.                                        *)
(*                                                                         *)
(* Only the submission is a conditional write; revealing, importing and    *)
(* revoking read the row, await, and write by id.                          *)
(***************************************************************************)
EXTENDS Naturals, FiniteSets

CONSTANTS
    Ask,      \* SecretRequest ids, never used twice
    Request,  \* requests of members that may be in flight together
    Blob,     \* ciphertexts a third party may submit
    NoBlob,   \* encryptedSecret IS NULL
    MaxCopies \* bound: imports of one request stop here

ASSUME SecretRequestAssumption ==
    NoBlob \notin Blob /\ MaxCopies \in Nat

VARIABLES
    ask,         \* SecretRequest rows
    project,     \* the project they are for exists
    collection,  \* its vault has the collection of imported secrets
    req,         \* requests in flight
    landed,      \* history: writes of each request's secret to its destination
    shown        \* history: ciphertexts answered to a reveal

vars == <<ask, project, collection, req, landed, shown>>

\* "HALF": an environment without a key, or a key without an environment.
Target == {"ENV", "VAULT", "HALF"}

\* "GONE": deleted with its organisation.  scoped is projectId IS NOT NULL.
AskRow ==
    [state: {"FREE", "LIVE", "GONE"}, scoped: BOOLEAN, target: Target,
     blob: Blob \cup {NoBlob}, submitted: BOOLEAN, viewed: BOOLEAN,
     imported: BOOLEAN, revoked: BOOLEAN, expired: BOOLEAN]

NewAsk ==
    [state |-> "FREE", scoped |-> FALSE, target |-> "VAULT", blob |-> NoBlob,
     submitted |-> FALSE, viewed |-> FALSE, imported |-> FALSE, revoked |-> FALSE,
     expired |-> FALSE]

\* row is what the request read.
Idle == [at |-> "idle"]
RequestState ==
    [at: {"idle"}]
    \cup [at: {"view", "answer", "collect", "import", "revoke"}, ask: Ask, row: AskRow]

TypeOK ==
    /\ ask \in [Ask -> AskRow]
    /\ project \in BOOLEAN /\ collection \in BOOLEAN
    /\ req \in [Request -> RequestState]
    /\ landed \in [Ask -> Nat]
    /\ shown \in [Ask -> SUBSET Blob]

Init ==
    /\ ask = [s \in Ask |-> NewAsk]
    /\ project = TRUE /\ collection = FALSE
    /\ req = [r \in Request |-> Idle]
    /\ landed = [s \in Ask |-> 0]
    /\ shown = [s \in Ask |-> {}]

Live(s) == ask[s].state = "LIVE"

Begin(r, s, at) == req' = [req EXCEPT ![r] = [at |-> at, ask |-> s, row |-> ask[s]]]
Enter(r, at) == req' = [req EXCEPT ![r] = [@ EXCEPT !.at = at]]

Leave(r) == req' = [req EXCEPT ![r] = Idle]

-----------------------------------------------------------------------------
(* Creation, submission, expiry, and what befalls the row from outside.    *)

CreateAsk(s, scoped, target) ==
    /\ ask[s].state = "FREE"
    /\ scoped => project
    /\ ask' = [ask EXCEPT ![s] =
                 [NewAsk EXCEPT !.state = "LIVE", !.scoped = scoped, !.target = target]]
    /\ UNCHANGED <<project, collection, req, landed, shown>>

\* Mutant of Pending: revokedAt is not in the condition.
PendingIfRevoked(s) == Live(s) /\ ~ask[s].submitted /\ ~ask[s].expired

\* Mutant of Pending: submittedAt is not in the condition.
PendingIfSubmitted(s) == Live(s) /\ ~ask[s].revoked /\ ~ask[s].expired

\* The condition of the update that submits.
Pending(s) == Live(s) /\ ~ask[s].revoked /\ ~ask[s].submitted /\ ~ask[s].expired

Submit(s, b) ==
    /\ Pending(s)
    /\ ask' = [ask EXCEPT ![s] = [@ EXCEPT !.blob = b, !.submitted = TRUE]]
    /\ UNCHANGED <<project, collection, req, landed, shown>>

Expire(s) ==
    /\ Live(s) /\ ~ask[s].expired
    /\ ask' = [ask EXCEPT ![s] = [@ EXCEPT !.expired = TRUE]]
    /\ UNCHANGED <<project, collection, req, landed, shown>>

DeleteOrganization(s) ==
    /\ Live(s)
    /\ ask' = [ask EXCEPT ![s] = [NewAsk EXCEPT !.state = "GONE"]]
    /\ UNCHANGED <<project, collection, req, landed, shown>>

\* The requests of a deleted project stay, without project.
DeleteProject ==
    /\ project
    /\ project' = FALSE /\ collection' = FALSE
    /\ ask' = [s \in Ask |-> [ask[s] EXCEPT !.scoped = FALSE]]
    /\ UNCHANGED <<req, landed, shown>>

-----------------------------------------------------------------------------
(* POST [id]/reveal.                                                       *)

\* 410 if revoked, 404 if nothing is there.
AskReveal(r, s) ==
    /\ req[r] = Idle
    /\ Live(s) /\ ~ask[s].revoked /\ ask[s].submitted /\ ask[s].blob # NoBlob
    /\ Begin(r, s, IF ask[s].viewed THEN "answer" ELSE "view")
    /\ UNCHANGED <<ask, project, collection, landed, shown>>

MarkViewed(r) ==
    /\ req[r].at = "view" /\ Live(req[r].ask)
    /\ ask' = [ask EXCEPT ![req[r].ask] = [@ EXCEPT !.viewed = TRUE]]
    /\ Enter(r, "answer")
    /\ UNCHANGED <<project, collection, landed, shown>>

AnswerReveal(r) ==
    /\ req[r].at = "answer"
    /\ shown' = [shown EXCEPT ![req[r].ask] = @ \cup {req[r].row.blob}]
    /\ Leave(r)
    /\ UNCHANGED <<ask, project, collection, landed>>

-----------------------------------------------------------------------------
(* POST [id]/import.  The value comes from the caller, who deciphered it.  *)

\* Mutant of Importable: a second import is not refused.
ImportableAgain(row) ==
    ~row.revoked /\ row.submitted /\ row.scoped /\ row.target # "HALF"

\* 410, 400, 400, 400 and 409 in the order of the code.
Importable(row) ==
    ~row.revoked /\ row.submitted /\ row.scoped /\ row.target # "HALF" /\ ~row.imported

AskImport(r, s) ==
    /\ req[r] = Idle
    /\ Live(s) /\ Importable(ask[s])
    /\ Begin(r, s, IF ask[s].target = "VAULT" THEN "collect" ELSE "import")
    /\ UNCHANGED <<ask, project, collection, landed, shown>>

\* An upsert with an empty update.
OpenCollection(r) ==
    /\ req[r].at = "collect" /\ project
    /\ collection' = TRUE
    /\ Enter(r, "import")
    /\ UNCHANGED <<ask, project, landed, shown>>

\* What closeRequest writes, whatever the row has become since it was read.
Closed(s) == [ask EXCEPT ![s] = [@ EXCEPT !.imported = TRUE, !.blob = NoBlob]]

\* Mutant of CommitImport: the request is closed although its destination is gone.
CommitImportAnyway(r) ==
    /\ req[r].at = "import" /\ Live(req[r].ask)
    /\ landed[req[r].ask] < MaxCopies
    /\ ask' = Closed(req[r].ask)
    /\ landed' = IF project THEN [landed EXCEPT ![req[r].ask] = @ + 1] ELSE landed
    /\ Leave(r)
    /\ UNCHANGED <<project, collection, shown>>

\* One transaction: the secret or the vault entry, and the end of the request.
CommitImport(r) ==
    /\ req[r].at = "import" /\ Live(req[r].ask) /\ project
    /\ req[r].row.target = "VAULT" => collection
    /\ landed[req[r].ask] < MaxCopies
    /\ ask' = Closed(req[r].ask)
    /\ landed' = [landed EXCEPT ![req[r].ask] = @ + 1]
    /\ Leave(r)
    /\ UNCHANGED <<project, collection, shown>>

-----------------------------------------------------------------------------
(* DELETE [id].                                                            *)

AskRevoke(r, s) ==
    /\ req[r] = Idle
    /\ Live(s)
    /\ Begin(r, s, "revoke")
    /\ UNCHANGED <<ask, project, collection, landed, shown>>

CommitRevoke(r) ==
    /\ req[r].at = "revoke" /\ Live(req[r].ask)
    /\ ask' = [ask EXCEPT ![req[r].ask] = [@ EXCEPT !.revoked = TRUE, !.blob = NoBlob]]
    /\ Leave(r)
    /\ UNCHANGED <<project, collection, landed, shown>>

\* A write that finds no row, a transaction that fails and is rolled back, or a
\* request that stops on the way.
Abandon(r) ==
    /\ req[r] # Idle
    /\ Leave(r)
    /\ UNCHANGED <<ask, project, collection, landed, shown>>

Next ==
    \/ \E s \in Ask :
         \/ \E scoped \in BOOLEAN, target \in Target : CreateAsk(s, scoped, target)
         \/ \E b \in Blob : Submit(s, b)
         \/ Expire(s) \/ DeleteOrganization(s)
         \/ \E r \in Request : AskReveal(r, s) \/ AskImport(r, s) \/ AskRevoke(r, s)
    \/ DeleteProject
    \/ \E r \in Request :
         \/ MarkViewed(r) \/ AnswerReveal(r) \/ OpenCollection(r) \/ CommitImport(r)
         \/ CommitRevoke(r) \/ Abandon(r)

Spec == Init /\ [][Next]_vars

-----------------------------------------------------------------------------
(* Properties.                                                             *)

\* "Efface apres import/revoke": the ciphertext of a request that is over is
\* gone for good, although the submission does not look at importedAt.
OverIsErased ==
    \A s \in Ask : ask[s].imported \/ ask[s].revoked => ask[s].blob = NoBlob

\* Everyone who reveals a request is shown the same ciphertext: what was
\* submitted first is never replaced.
OneCiphertext == \A s \in Ask : Cardinality(shown[s]) <= 1

\* The ciphertext is not erased by an import unless the secret was written to its
\* destination by the same transaction.
ImportedIsWritten == \A s \in Ask : ask[s].imported => landed[s] > 0

\* "Sans cette garde, un second appel dupliquerait l'entree": one import each.
ImportedOnce == \A s \in Ask : landed[s] <= 1

\* A revoked request (410) is not imported any more.
RevokedIsNotImported ==
    [][\A s \in Ask : ask[s].revoked => landed'[s] = landed[s]]_vars
=============================================================================
