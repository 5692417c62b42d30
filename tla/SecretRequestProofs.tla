------------------------- MODULE SecretRequestProofs -------------------------
(***************************************************************************)
(* SecretRequest and OutboundSync for any number of requests for secrets,  *)
(* of members' requests in flight and of ciphertexts, and of               *)
(* synchronisations, environments, keys, projects and places.              *)
(*                                                                         *)
(* The writes by id hold only because the submission is conditional: Rows  *)
(* says that whatever closes a row finds it submitted, so that nothing can *)
(* be submitted to it again, and Known gathers the ciphertexts a row, an   *)
(* answer on its way and the answers given can be of.                      *)
(*                                                                         *)
(* Deletions on a platform are by the ids of a list read before: SyncFits  *)
(* says that these ids carry the mark until they are gone.  What is proved *)
(* of a serial regime has an invariant of its own: ImportInv, PushedInv.   *)
(***************************************************************************)
EXTENDS MCSecretRequest, FiniteSetTheorems, TLAPS

\* What was stored or imported was submitted.
Rows ==
    \A s \in Ask :
        /\ ask[s].imported => ask[s].submitted
        /\ ask[s].blob # NoBlob => ask[s].submitted /\ ask[s].state = "LIVE"

\* A request is about a row that was created, and that was submitted unless it is
\* to be revoked.
Pend ==
    \A r \in Request : req[r] # Idle =>
        /\ ask[req[r].ask].state # "FREE"
        /\ req[r].at # "revoke" /\ ask[req[r].ask].state = "LIVE"
             => ask[req[r].ask].submitted
        /\ req[r].at \in {"view", "answer"} => req[r].row.blob \in Blob

\* A ciphertext that is stored for s, was shown or is about to be.
Answering(r, s, b) ==
    req[r] # Idle /\ req[r].at \in {"view", "answer"} /\ req[r].ask = s /\ req[r].row.blob = b

Known(s, b) ==
    \/ ask[s].blob = b
    \/ b \in shown[s]
    \/ \E r \in Request : Answering(r, s, b)

OneKnown == \A s \in Ask : \A b, c \in Blob : Known(s, b) /\ Known(s, c) => b = c

ShownIsSubmitted ==
    \A s \in Ask : shown[s] # {} =>
        /\ ask[s].state # "FREE"
        /\ ask[s].state = "LIVE" => ask[s].submitted

IInv ==
    /\ TypeOK /\ Rows /\ Pend /\ OneKnown /\ ShownIsSubmitted
    /\ OverIsErased /\ ImportedIsWritten

\* The initial state satisfies the inductive invariant.
LEMMA InitIInv == Init => IInv
<1> SUFFICES ASSUME Init PROVE IInv
  OBVIOUS
<1> USE SecretRequestAssumption
<1>1. TypeOK
  BY DEF Init, TypeOK, NewAsk, AskRow, Target, Idle, RequestState
<1>2. Rows /\ Pend /\ OneKnown /\ ShownIsSubmitted /\ OverIsErased /\ ImportedIsWritten
  BY DEF Init, Rows, Pend, OneKnown, Known, Answering, ShownIsSubmitted, OverIsErased,
         ImportedIsWritten, NewAsk, Idle
<1> QED
  BY <1>1, <1>2 DEF IInv

-----------------------------------------------------------------------------
(* Types.                                                                  *)

\* A request that is not idle has a row id and what it read.
LEMMA BusyRequest ==
    ASSUME TypeOK, NEW r \in Request, req[r] # Idle
    PROVE  /\ req[r] \in [at: {"view", "answer", "collect", "import", "revoke"},
                          ask: Ask, row: AskRow]
           /\ req[r].ask \in Ask /\ req[r].row \in AskRow
           /\ req[r].at \in {"view", "answer", "collect", "import", "revoke"}
<1>1. req[r] \in RequestState
  BY DEF TypeOK
<1>2. req[r] \notin [at: {"idle"}]
  BY DEF Idle
<1> QED
  BY <1>1, <1>2 DEF RequestState

\* What Begin, Enter and Leave do to the requests.
LEMMA Begun ==
    ASSUME TypeOK, NEW r \in Request, NEW s \in Ask,
           NEW at \in {"view", "answer", "collect", "import", "revoke"}, Begin(r, s, at)
    PROVE  /\ req' \in [Request -> RequestState]
           /\ req'[r] # Idle /\ req'[r].at = at /\ req'[r].ask = s /\ req'[r].row = ask[s]
           /\ \A q \in Request \ {r} : req'[q] = req[q]
<1>1. [at |-> at, ask |-> s, row |-> ask[s]] \in RequestState
  BY DEF TypeOK, RequestState
<1>2. [at |-> at, ask |-> s, row |-> ask[s]] # Idle
  BY DEF Idle
<1>3. req' = [req EXCEPT ![r] = [at |-> at, ask |-> s, row |-> ask[s]]]
  BY DEF Begin
<1> QED
  BY <1>1, <1>2, <1>3 DEF TypeOK

LEMMA Entered ==
    ASSUME TypeOK, NEW r \in Request, req[r] # Idle,
           NEW at \in {"view", "answer", "collect", "import", "revoke"}, Enter(r, at)
    PROVE  /\ req' \in [Request -> RequestState]
           /\ req'[r] # Idle /\ req'[r].at = at /\ req'[r].ask = req[r].ask
           /\ req'[r].row = req[r].row
           /\ \A q \in Request \ {r} : req'[q] = req[q]
<1>1. req[r] \in [at: {"view", "answer", "collect", "import", "revoke"},
                  ask: Ask, row: AskRow]
  BY BusyRequest
<1> DEFINE moved == [req[r] EXCEPT !.at = at]
<1>2. /\ moved \in [at: {"view", "answer", "collect", "import", "revoke"},
                    ask: Ask, row: AskRow]
      /\ moved.at = at /\ moved.ask = req[r].ask /\ moved.row = req[r].row
  BY <1>1
<1>3. moved \in RequestState /\ moved # Idle
  BY <1>2 DEF RequestState, Idle
<1>4. req' = [req EXCEPT ![r] = moved]
  BY DEF Enter
<1> HIDE DEF moved
<1> QED
  BY <1>2, <1>3, <1>4 DEF TypeOK

LEMMA Left ==
    ASSUME TypeOK, NEW r \in Request, Leave(r)
    PROVE  /\ req' \in [Request -> RequestState]
           /\ req'[r] = Idle /\ \A q \in Request \ {r} : req'[q] = req[q]
  BY DEF Leave, TypeOK, RequestState, Idle

\* A write to the row of s, with a new row that is of the type of rows.
LEMMA Written ==
    ASSUME TypeOK, NEW s \in Ask, NEW row \in AskRow, ask' = [ask EXCEPT ![s] = row]
    PROVE  /\ ask' \in [Ask -> AskRow]
           /\ ask'[s] = row /\ \A x \in Ask \ {s} : ask'[x] = ask[x]
  BY DEF TypeOK

LEMMA RowType == ASSUME TypeOK, NEW s \in Ask PROVE ask[s] \in AskRow
  BY DEF TypeOK

\* Every step preserves types.
LEMMA TypeStep == TypeOK /\ Pend /\ [Next]_vars => TypeOK'
<1> SUFFICES ASSUME TypeOK, Pend, [Next]_vars PROVE TypeOK'
  OBVIOUS
<1> USE SecretRequestAssumption
<1>n. NewAsk \in AskRow
  BY DEF NewAsk, AskRow, Target
<1>1. ASSUME NEW s \in Ask, NEW scoped \in BOOLEAN, NEW to \in Target,
             CreateAsk(s, scoped, to)
      PROVE  TypeOK'
  <2>1. [NewAsk EXCEPT !.state = "LIVE", !.scoped = scoped, !.target = to] \in AskRow
    BY <1>n DEF AskRow
  <2> QED
    BY <1>1, <2>1 DEF CreateAsk, TypeOK
<1>2. ASSUME NEW s \in Ask, NEW b \in Blob, Submit(s, b) PROVE TypeOK'
  <2>1. [ask[s] EXCEPT !.blob = b, !.submitted = TRUE] \in AskRow
    BY RowType DEF AskRow
  <2> QED
    BY <1>2, <2>1 DEF Submit, TypeOK
<1>3. ASSUME NEW s \in Ask, Expire(s) PROVE TypeOK'
  <2>1. [ask[s] EXCEPT !.expired = TRUE] \in AskRow
    BY RowType DEF AskRow
  <2> QED
    BY <1>3, <2>1 DEF Expire, TypeOK
<1>4. ASSUME NEW s \in Ask, DeleteOrganization(s) PROVE TypeOK'
  <2>1. [NewAsk EXCEPT !.state = "GONE"] \in AskRow
    BY <1>n DEF AskRow
  <2> QED
    BY <1>4, <2>1 DEF DeleteOrganization, TypeOK
<1>5. ASSUME NEW s \in Ask, NEW r \in Request,
             AskReveal(r, s) \/ AskImport(r, s) \/ AskRevoke(r, s)
      PROVE  TypeOK'
  <2>1. PICK at \in {"view", "answer", "collect", "import", "revoke"} : Begin(r, s, at)
    BY <1>5 DEF AskReveal, AskImport, AskRevoke
  <2>2. req' \in [Request -> RequestState]
    BY <2>1, Begun
  <2> QED
    BY <1>5, <2>2 DEF AskReveal, AskImport, AskRevoke, TypeOK
<1>6. ASSUME DeleteProject PROVE TypeOK'
  <2>1. \A s \in Ask : [ask[s] EXCEPT !.scoped = FALSE] \in AskRow
    BY RowType DEF AskRow
  <2> QED
    BY <1>6, <2>1 DEF DeleteProject, TypeOK
<1>7. ASSUME NEW r \in Request, MarkViewed(r) PROVE TypeOK'
  <2>1. req[r] # Idle
    BY <1>7 DEF MarkViewed, Idle
  <2>2. req' \in [Request -> RequestState] /\ req[r].ask \in Ask
    BY <1>7, <2>1, Entered, BusyRequest DEF MarkViewed
  <2>3. [ask[req[r].ask] EXCEPT !.viewed = TRUE] \in AskRow
    BY <2>2, RowType DEF AskRow
  <2> QED
    BY <1>7, <2>2, <2>3 DEF MarkViewed, TypeOK
<1>8. ASSUME NEW r \in Request, AnswerReveal(r) PROVE TypeOK'
  <2>1. req[r] # Idle /\ req[r].at = "answer"
    BY <1>8 DEF AnswerReveal, Idle
  <2>2. req' \in [Request -> RequestState] /\ req[r].ask \in Ask
    BY <1>8, <2>1, Left, BusyRequest DEF AnswerReveal
  <2>3. req[r].row.blob \in Blob
    BY <2>1 DEF Pend
  <2> QED
    BY <1>8, <2>2, <2>3 DEF AnswerReveal, TypeOK
<1>9. ASSUME NEW r \in Request, OpenCollection(r) PROVE TypeOK'
  <2>1. req[r] # Idle
    BY <1>9 DEF OpenCollection, Idle
  <2>2. req' \in [Request -> RequestState]
    BY <1>9, <2>1, Entered DEF OpenCollection
  <2> QED
    BY <1>9, <2>2 DEF OpenCollection, TypeOK
<1>10. ASSUME NEW r \in Request, CommitImport(r) PROVE TypeOK'
  <2>1. req[r] # Idle
    BY <1>10 DEF CommitImport, Idle
  <2>2. req' \in [Request -> RequestState] /\ req[r].ask \in Ask
    BY <1>10, <2>1, Left, BusyRequest DEF CommitImport
  <2>a. \A row \in AskRow : [row EXCEPT !.imported = TRUE, !.blob = NoBlob] \in AskRow
    BY DEF AskRow
  <2>3. [ask[req[r].ask] EXCEPT !.imported = TRUE, !.blob = NoBlob] \in AskRow
    <3>1. ask[req[r].ask] \in AskRow
      BY <2>2, RowType
    <3> QED
      BY <3>1, <2>a, Zenon
  <2>4. landed' \in [Ask -> Nat]
    BY <1>10, <2>2 DEF CommitImport, TypeOK
  <2> QED
    BY <1>10, <2>2, <2>3, <2>4 DEF CommitImport, Closed, TypeOK
<1>11. ASSUME NEW r \in Request, CommitRevoke(r) PROVE TypeOK'
  <2>1. req[r] # Idle
    BY <1>11 DEF CommitRevoke, Idle
  <2>2. req' \in [Request -> RequestState] /\ req[r].ask \in Ask
    BY <1>11, <2>1, Left, BusyRequest DEF CommitRevoke
  <2>a. \A row \in AskRow : [row EXCEPT !.revoked = TRUE, !.blob = NoBlob] \in AskRow
    BY DEF AskRow
  <2>3. [ask[req[r].ask] EXCEPT !.revoked = TRUE, !.blob = NoBlob] \in AskRow
    <3>1. ask[req[r].ask] \in AskRow
      BY <2>2, RowType
    <3> QED
      BY <3>1, <2>a, Zenon
  <2> QED
    BY <1>11, <2>2, <2>3 DEF CommitRevoke, TypeOK
<1>12. ASSUME NEW r \in Request, Abandon(r) PROVE TypeOK'
  BY <1>12, Left DEF Abandon, TypeOK
<1>13. CASE UNCHANGED vars
  BY <1>13 DEF vars, TypeOK
<1> QED
  BY <1>1, <1>2, <1>3, <1>4, <1>5, <1>6, <1>7, <1>8, <1>9, <1>10, <1>11, <1>12, <1>13
  DEF Next

-----------------------------------------------------------------------------
(* The requests and the ciphertexts known.                                 *)

\* A row that nothing was submitted to: what it stores is forgotten or kept, and it
\* does not come back.
Quiet ==
    \A s \in Ask :
        /\ ask'[s].blob \in {ask[s].blob, NoBlob}
        /\ ask[s].state # "FREE" =>
             /\ ask'[s].state # "FREE"
             /\ ask'[s].state = "LIVE" => ask[s].state = "LIVE"
             /\ ask'[s].state = "LIVE" /\ ask[s].submitted => ask'[s].submitted

\* A request that ends, stays or goes on with what it read.
Onward ==
    \A r \in Request :
        \/ req'[r] = Idle
        \/ /\ req[r] # Idle /\ req'[r].ask = req[r].ask /\ req'[r].row = req[r].row
           /\ req'[r].at = "revoke" <=> req[r].at = "revoke"
           /\ req'[r].at \in {"view", "answer"} => req[r].at \in {"view", "answer"}

\* An answer shows what the request read.
Told ==
    \A s \in Ask : shown'[s] = shown[s] \/ \E r \in Request, b \in Blob :
        Answering(r, s, b) /\ req[r].at = "answer" /\ shown'[s] = shown[s] \cup {b}

LEMMA QuietKeeps ==
    ASSUME TypeOK, TypeOK', Pend, OneKnown, ShownIsSubmitted, Quiet, Onward, Told
    PROVE  Pend' /\ OneKnown' /\ ShownIsSubmitted'
<1> USE SecretRequestAssumption
<1>b. \A r \in Request : req[r] # Idle => req[r].ask \in Ask
  BY BusyRequest
<1>1. Pend'
  BY <1>b DEF Pend, Onward, Quiet
<1>2. \A s \in Ask, b \in Blob : Known(s, b)' => Known(s, b)
  <2> SUFFICES ASSUME NEW s \in Ask, NEW b \in Blob, Known(s, b)' PROVE Known(s, b)
    OBVIOUS
  <2>1. CASE ask'[s].blob = b
    BY <2>1 DEF Quiet, Known
  <2>2. CASE b \in shown'[s]
    BY <2>2 DEF Told, Known, Answering
  <2>3. CASE \E r \in Request : Answering(r, s, b)'
    BY <2>3 DEF Onward, Known, Answering
  <2> QED
    BY <2>1, <2>2, <2>3 DEF Known
<1>3. OneKnown'
  BY <1>2 DEF OneKnown
<1>4. ShownIsSubmitted'
  <2> SUFFICES ASSUME NEW s \in Ask, shown'[s] # {}
               PROVE  ask'[s].state # "FREE" /\ (ask'[s].state = "LIVE" => ask'[s].submitted)
    BY DEF ShownIsSubmitted
  <2>1. ask[s].state # "FREE" /\ (ask[s].state = "LIVE" => ask[s].submitted)
    BY DEF Told, Answering, ShownIsSubmitted, Pend
  <2> QED
    BY <2>1 DEF Quiet
<1> QED
  BY <1>1, <1>3, <1>4

\* A request that begins has read the row.
LEMMA BeginKeeps ==
    ASSUME TypeOK, Pend, OneKnown, ShownIsSubmitted,
           NEW r \in Request, NEW s \in Ask,
           NEW at \in {"view", "answer", "collect", "import", "revoke"}, Begin(r, s, at),
           ask[s].state = "LIVE", at # "revoke" => ask[s].submitted,
           at \in {"view", "answer"} => ask[s].blob # NoBlob,
           ask' = ask, shown' = shown
    PROVE  Pend' /\ OneKnown' /\ ShownIsSubmitted'
<1>1. /\ req'[r] # Idle /\ req'[r].at = at /\ req'[r].ask = s /\ req'[r].row = ask[s]
      /\ \A q \in Request \ {r} : req'[q] = req[q]
  BY Begun
<1>2. Pend'
  BY <1>1, RowType DEF Pend, AskRow
<1>3. \A x \in Ask, b \in Blob : Known(x, b)' => Known(x, b)
  BY <1>1 DEF Known, Answering
<1> QED
  BY <1>2, <1>3 DEF OneKnown, ShownIsSubmitted

\* A submission makes known a ciphertext where none was.
LEMMA SubmitKeeps ==
    ASSUME IInv, NEW s \in Ask, NEW b \in Blob, Submit(s, b)
    PROVE  Pend' /\ OneKnown' /\ ShownIsSubmitted'
<1> USE SecretRequestAssumption
<1>1. /\ ask'[s].state = "LIVE" /\ ask'[s].submitted /\ ask'[s].blob = b
      /\ ask[s].state = "LIVE" /\ ~ask[s].submitted
      /\ \A x \in Ask \ {s} : ask'[x] = ask[x]
      /\ req' = req /\ shown' = shown
  BY RowType DEF IInv, Submit, Pending, Live, TypeOK, AskRow
<1>2. \A c \in Blob : ~Known(s, c)
  BY <1>1 DEF IInv, Known, Answering, Rows, Pend, ShownIsSubmitted
<1>3. \A x \in Ask, c \in Blob : Known(x, c)' => Known(x, c) \/ (x = s /\ c = b)
  BY <1>1 DEF Known, Answering
<1>4. OneKnown'
  BY <1>2, <1>3 DEF IInv, OneKnown
<1>5. \A r \in Request : req[r] # Idle => req[r].ask \in Ask
  BY BusyRequest DEF IInv
<1>6. Pend'
  BY <1>1, <1>5 DEF IInv, Pend
<1>7. ShownIsSubmitted'
  BY <1>1 DEF IInv, ShownIsSubmitted
<1> QED
  BY <1>4, <1>6, <1>7

-----------------------------------------------------------------------------
(* Every step preserves the inductive invariant.                           *)

Erasure == Rows /\ OverIsErased /\ ImportedIsWritten

LEMMA Step == IInv /\ [Next]_vars => IInv'
<1> SUFFICES ASSUME IInv, [Next]_vars PROVE IInv'
  OBVIOUS
<1> USE SecretRequestAssumption
<1>i. TypeOK /\ Pend /\ OneKnown /\ ShownIsSubmitted /\ Rows /\ OverIsErased /\ ImportedIsWritten
  BY DEF IInv
<1>t. TypeOK'
  BY <1>i, TypeStep
<1>r. \A s \in Ask : ask[s] \in AskRow
  BY <1>i DEF TypeOK
<1>k. ASSUME Quiet, Onward, Told PROVE Pend' /\ OneKnown' /\ ShownIsSubmitted'
  BY <1>k, <1>i, <1>t, QuietKeeps
<1>o. req' = req => Onward
  BY DEF Onward, Idle
<1>l. ASSUME NEW r \in Request, Leave(r) PROVE Onward
  BY <1>l, <1>i, Left DEF Onward
<1>s. shown' = shown => Told
  BY DEF Told
<1>1. ASSUME NEW s \in Ask, NEW scoped \in BOOLEAN, NEW to \in Target,
             CreateAsk(s, scoped, to)
      PROVE  IInv'
  <2>1. /\ ask[s].state = "FREE" /\ req' = req /\ shown' = shown /\ landed' = landed
        /\ ask'[s].state = "LIVE" /\ ask'[s].blob = NoBlob
        /\ ~ask'[s].imported /\ ~ask'[s].revoked
        /\ \A x \in Ask \ {s} : ask'[x] = ask[x]
    BY <1>1, <1>i DEF CreateAsk, TypeOK, NewAsk
  <2>2. Quiet
    BY <2>1 DEF Quiet
  <2>3. Erasure'
    BY <2>1, <1>i DEF Erasure, Rows, OverIsErased, ImportedIsWritten
  <2> QED
    BY <2>1, <2>2, <2>3, <1>k, <1>o, <1>s, <1>t DEF IInv, Erasure
<1>2. ASSUME NEW s \in Ask, NEW b \in Blob, Submit(s, b) PROVE IInv'
  <2>1. /\ ask'[s].state = "LIVE" /\ ask'[s].submitted /\ landed' = landed
        /\ ~ask[s].submitted /\ ~ask[s].revoked
        /\ ask'[s].imported = ask[s].imported /\ ask'[s].revoked = ask[s].revoked
        /\ \A x \in Ask \ {s} : ask'[x] = ask[x]
    BY <1>2, <1>i, <1>r DEF Submit, Pending, Live, TypeOK, AskRow
  <2>2. Erasure'
    BY <2>1, <1>i DEF Erasure, Rows, OverIsErased, ImportedIsWritten
  <2> QED
    BY <1>2, <2>2, <1>t, SubmitKeeps DEF IInv, Erasure
<1>3. ASSUME NEW s \in Ask, Expire(s) PROVE IInv'
  <2>1. /\ req' = req /\ shown' = shown /\ landed' = landed
        /\ ask'[s].state = ask[s].state /\ ask'[s].blob = ask[s].blob
        /\ ask'[s].submitted = ask[s].submitted
        /\ ask'[s].imported = ask[s].imported /\ ask'[s].revoked = ask[s].revoked
        /\ \A x \in Ask \ {s} : ask'[x] = ask[x]
    BY <1>3, <1>i, <1>r DEF Expire, TypeOK, AskRow
  <2>2. Quiet
    BY <2>1 DEF Quiet
  <2>3. Erasure'
    BY <2>1, <1>i DEF Erasure, Rows, OverIsErased, ImportedIsWritten
  <2> QED
    BY <2>1, <2>2, <2>3, <1>k, <1>o, <1>s, <1>t DEF IInv, Erasure
<1>4. ASSUME NEW s \in Ask, DeleteOrganization(s) PROVE IInv'
  <2>1. /\ req' = req /\ shown' = shown /\ landed' = landed
        /\ ask'[s].state = "GONE" /\ ask'[s].blob = NoBlob
        /\ ~ask'[s].imported /\ ~ask'[s].revoked
        /\ \A x \in Ask \ {s} : ask'[x] = ask[x]
    BY <1>4, <1>i DEF DeleteOrganization, TypeOK, NewAsk
  <2>2. Quiet
    BY <2>1 DEF Quiet
  <2>3. Erasure'
    BY <2>1, <1>i DEF Erasure, Rows, OverIsErased, ImportedIsWritten
  <2> QED
    BY <2>1, <2>2, <2>3, <1>k, <1>o, <1>s, <1>t DEF IInv, Erasure
<1>5. ASSUME NEW s \in Ask, NEW r \in Request,
             AskReveal(r, s) \/ AskImport(r, s) \/ AskRevoke(r, s)
      PROVE  IInv'
  <2>1. ask' = ask /\ shown' = shown /\ landed' = landed /\ ask[s].state = "LIVE"
    BY <1>5 DEF AskReveal, AskImport, AskRevoke, Live
  <2>2. PICK at \in {"view", "answer", "collect", "import", "revoke"} :
          /\ Begin(r, s, at)
          /\ at # "revoke" => ask[s].submitted
          /\ at \in {"view", "answer"} => ask[s].blob # NoBlob
    BY <1>5 DEF AskReveal, AskImport, AskRevoke, Importable
  <2>3. Pend' /\ OneKnown' /\ ShownIsSubmitted'
    BY <2>1, <2>2, <1>i, BeginKeeps
  <2>4. Erasure'
    BY <2>1, <1>i DEF Erasure, Rows, OverIsErased, ImportedIsWritten
  <2> QED
    BY <2>3, <2>4, <1>t DEF IInv, Erasure
<1>6. ASSUME DeleteProject PROVE IInv'
  <2>1. /\ req' = req /\ shown' = shown /\ landed' = landed
        /\ \A s \in Ask :
             /\ ask'[s].state = ask[s].state /\ ask'[s].blob = ask[s].blob
             /\ ask'[s].submitted = ask[s].submitted
             /\ ask'[s].imported = ask[s].imported /\ ask'[s].revoked = ask[s].revoked
    BY <1>6, <1>r DEF DeleteProject, AskRow
  <2>2. Quiet
    BY <2>1 DEF Quiet
  <2>3. Erasure'
    BY <2>1, <1>i DEF Erasure, Rows, OverIsErased, ImportedIsWritten
  <2> QED
    BY <2>1, <2>2, <2>3, <1>k, <1>o, <1>s, <1>t DEF IInv, Erasure
<1>7. ASSUME NEW r \in Request, MarkViewed(r) PROVE IInv'
  <2>1. req[r] # Idle /\ Enter(r, "answer") /\ req[r].at = "view"
    BY <1>7 DEF MarkViewed, Idle
  <2>2. PICK s \in Ask : s = req[r].ask
    BY <2>1, <1>i, BusyRequest
  <2>3. /\ shown' = shown /\ landed' = landed
        /\ ask'[s].state = ask[s].state /\ ask'[s].blob = ask[s].blob
        /\ ask'[s].submitted = ask[s].submitted
        /\ ask'[s].imported = ask[s].imported /\ ask'[s].revoked = ask[s].revoked
        /\ \A x \in Ask \ {s} : ask'[x] = ask[x]
    BY <1>7, <2>2, <1>i, <1>r DEF MarkViewed, TypeOK, AskRow
  <2>4. Quiet
    BY <2>3 DEF Quiet
  <2>5. Onward
    BY <2>1, <1>i, Entered DEF Onward
  <2>6. Erasure'
    BY <2>3, <1>i DEF Erasure, Rows, OverIsErased, ImportedIsWritten
  <2> QED
    BY <2>3, <2>4, <2>5, <2>6, <1>k, <1>s, <1>t DEF IInv, Erasure
<1>8. ASSUME NEW r \in Request, AnswerReveal(r) PROVE IInv'
  <2>1. req[r] # Idle /\ Leave(r) /\ req[r].at = "answer" /\ ask' = ask /\ landed' = landed
    BY <1>8 DEF AnswerReveal, Idle
  <2>2. PICK s \in Ask, b \in Blob : s = req[r].ask /\ b = req[r].row.blob
    BY <2>1, <1>i, BusyRequest DEF Pend
  <2>3. shown'[s] = shown[s] \cup {b} /\ \A x \in Ask \ {s} : shown'[x] = shown[x]
    BY <1>8, <2>2, <1>i DEF AnswerReveal, TypeOK
  <2>4. Told
    BY <2>1, <2>2, <2>3 DEF Told, Answering
  <2>5. Quiet
    BY <2>1 DEF Quiet
  <2>6. Erasure'
    BY <2>1, <1>i DEF Erasure, Rows, OverIsErased, ImportedIsWritten
  <2> QED
    BY <2>1, <2>4, <2>5, <2>6, <1>k, <1>l, <1>t DEF IInv, Erasure
<1>9. ASSUME NEW r \in Request, OpenCollection(r) PROVE IInv'
  <2>1. /\ req[r] # Idle /\ Enter(r, "import") /\ req[r].at = "collect"
        /\ ask' = ask /\ shown' = shown /\ landed' = landed
    BY <1>9 DEF OpenCollection, Idle
  <2>2. Onward
    BY <2>1, <1>i, Entered DEF Onward
  <2>3. Quiet
    BY <2>1 DEF Quiet
  <2>4. Erasure'
    BY <2>1, <1>i DEF Erasure, Rows, OverIsErased, ImportedIsWritten
  <2> QED
    BY <2>1, <2>2, <2>3, <2>4, <1>k, <1>s, <1>t DEF IInv, Erasure
<1>10. ASSUME NEW r \in Request, CommitImport(r) PROVE IInv'
  <2>1. req[r] # Idle /\ Leave(r) /\ req[r].at = "import" /\ Live(req[r].ask)
    BY <1>10 DEF CommitImport, Idle
  <2>2. PICK s \in Ask : s = req[r].ask
    BY <2>1, <1>i, BusyRequest
  <2>3. ask[s].submitted /\ ask[s].state = "LIVE"
    BY <2>1, <2>2, <1>i DEF Pend, Live
  <2>4. /\ shown' = shown
        /\ ask'[s].state = ask[s].state /\ ask'[s].blob = NoBlob /\ ask'[s].imported
        /\ ask'[s].submitted = ask[s].submitted /\ ask'[s].revoked = ask[s].revoked
        /\ \A x \in Ask \ {s} : ask'[x] = ask[x]
    BY <1>10, <2>2, <1>i, <1>r DEF CommitImport, Closed, TypeOK, AskRow
  <2>5. landed'[s] > 0 /\ \A x \in Ask \ {s} : landed'[x] = landed[x]
    BY <1>10, <2>2, <1>i DEF CommitImport, TypeOK
  <2>6. Quiet
    BY <2>4 DEF Quiet
  <2>7. Erasure'
    BY <2>3, <2>4, <2>5, <1>i DEF Erasure, Rows, OverIsErased, ImportedIsWritten
  <2> QED
    BY <2>1, <2>4, <2>6, <2>7, <1>k, <1>l, <1>s, <1>t DEF IInv, Erasure
<1>11. ASSUME NEW r \in Request, CommitRevoke(r) PROVE IInv'
  <2>1. req[r] # Idle /\ Leave(r)
    BY <1>11 DEF CommitRevoke, Idle
  <2>2. PICK s \in Ask : s = req[r].ask
    BY <2>1, <1>i, BusyRequest
  <2>3. /\ shown' = shown /\ landed' = landed
        /\ ask'[s].state = ask[s].state /\ ask'[s].blob = NoBlob
        /\ ask'[s].submitted = ask[s].submitted /\ ask'[s].imported = ask[s].imported
        /\ \A x \in Ask \ {s} : ask'[x] = ask[x]
    BY <1>11, <2>2, <1>i, <1>r DEF CommitRevoke, TypeOK, AskRow
  <2>4. Quiet
    BY <2>3 DEF Quiet
  <2>5. Erasure'
    BY <2>3, <1>i DEF Erasure, Rows, OverIsErased, ImportedIsWritten
  <2> QED
    BY <2>1, <2>3, <2>4, <2>5, <1>k, <1>l, <1>s, <1>t DEF IInv, Erasure
<1>12. ASSUME NEW r \in Request, Abandon(r) PROVE IInv'
  <2>1. Leave(r) /\ ask' = ask /\ shown' = shown /\ landed' = landed
    BY <1>12 DEF Abandon
  <2>2. Quiet
    BY <2>1 DEF Quiet
  <2>3. Erasure'
    BY <2>1, <1>i DEF Erasure, Rows, OverIsErased, ImportedIsWritten
  <2> QED
    BY <2>1, <2>2, <2>3, <1>k, <1>l, <1>s, <1>t DEF IInv, Erasure
<1>13. CASE UNCHANGED vars
  <2>1. ask' = ask /\ req' = req /\ shown' = shown /\ landed' = landed
    BY <1>13 DEF vars
  <2>2. Quiet
    BY <2>1 DEF Quiet
  <2>3. Erasure'
    BY <2>1, <1>i DEF Erasure, Rows, OverIsErased, ImportedIsWritten
  <2> QED
    BY <2>1, <2>2, <2>3, <1>k, <1>o, <1>s, <1>t DEF IInv, Erasure
<1> QED
  BY <1>1, <1>2, <1>3, <1>4, <1>5, <1>6, <1>7, <1>8, <1>9, <1>10, <1>11, <1>12, <1>13
  DEF Next

\* The inductive invariant holds of every behaviour.
LEMMA Inductive == Spec => []IInv
  BY InitIInv, Step, PTL DEF Spec

-----------------------------------------------------------------------------
(* The results.                                                            *)

\* Every variable keeps its type, and a request that ends is idle.
THEOREM TypeCorrect == Spec => []TypeOK
<1>1. IInv => TypeOK
  BY DEF IInv
<1> QED
  BY <1>1, Inductive, PTL

\* Once imported or revoked, a request for a secret holds no ciphertext, and no
\* submission puts one back.
THEOREM Erased == Spec => []OverIsErased
<1>1. IInv => OverIsErased
  BY DEF IInv
<1> QED
  BY <1>1, Inductive, PTL

\* However many submit, reveal, import and revoke at once, one ciphertext is shown.
THEOREM ShownIsOne == Spec => []OneCiphertext
<1>1. IInv => OneCiphertext
  <2> SUFFICES ASSUME IInv, NEW s \in Ask PROVE Cardinality(shown[s]) <= 1
    BY DEF OneCiphertext
  <2>1. shown[s] \subseteq Blob
    BY DEF IInv, TypeOK
  <2>2. \A b, c \in shown[s] : b = c
    BY <2>1 DEF IInv, OneKnown, Known
  <2>3. CASE shown[s] = {}
    BY <2>3, FS_EmptySet
  <2>4. CASE shown[s] # {}
    <3>1. PICK b \in shown[s] : TRUE
      BY <2>4
    <3>2. shown[s] = {b}
      BY <3>1, <2>2
    <3>3. Cardinality(shown[s]) = 1
      BY <3>2, FS_Singleton, Zenon
    <3> QED
      BY <3>3
  <2> QED
    BY <2>3, <2>4
<1> QED
  BY <1>1, Inductive, PTL

\* No import erases the ciphertext without having written the secret.
THEOREM Landed == Spec => []ImportedIsWritten
<1>1. IInv => ImportedIsWritten
  BY DEF IInv
<1> QED
  BY <1>1, Inductive, PTL

-----------------------------------------------------------------------------
(* Requests that do not overlap.                                           *)

\* What was written to its destination is marked, while its row exists; and while
\* requests do not overlap, one that goes on importing finds nothing written.
ImportInv ==
    /\ IInv
    /\ \A s \in Ask : landed[s] > 0 =>
         ask[s].state = "GONE" \/ (ask[s].state = "LIVE" /\ ask[s].imported)
    /\ serial =>
         /\ OneByOne /\ ImportedOnce
         /\ \A r \in Request : req[r].at \in {"collect", "import"} => landed[req[r].ask] = 0

\* A step of requests, and what it leaves to prove.
Receives == Next /\ UNCHANGED serial /\ (serial => OneByOne') /\ ImportInv /\ IInv'

\* A step that writes no secret and begins no import.
LEMMA ReceivesQuietly ==
    ASSUME Receives, landed' = landed,
           \A s \in Ask :
             /\ ask'[s].imported = ask[s].imported \/ ask'[s].state = "GONE" \/ landed[s] = 0
             /\ ask'[s].state = ask[s].state \/ ask'[s].state = "GONE" \/ landed[s] = 0,
           \A r \in Request : req'[r].at \in {"collect", "import"} =>
             req[r].at \in {"collect", "import"} /\ req'[r].ask = req[r].ask
    PROVE  ImportInv'
  BY DEF Receives, ImportInv, ImportedOnce

LEMMA ImportBegins ==
    ASSUME Receives, NEW s \in Ask, NEW r \in Request, AskImport(r, s)
    PROVE  ImportInv'
<1>1. PICK at \in {"collect", "import"} : Begin(r, s, at)
  BY DEF AskImport
<1>2. /\ req'[r].at = at /\ req'[r].ask = s
      /\ \A q \in Request \ {r} : req'[q] = req[q]
  BY <1>1, Begun DEF Receives, ImportInv, IInv
<1>3. landed[s] = 0
  BY DEF AskImport, Live, Importable, Receives, ImportInv, IInv, TypeOK
<1>4. ask' = ask /\ landed' = landed
  BY DEF AskImport
<1> QED
  BY <1>2, <1>3, <1>4 DEF Receives, ImportInv, ImportedOnce

\* The one write: alone in flight, it finds nothing written.
LEMMA ImportCommits ==
    ASSUME Receives, NEW r \in Request, CommitImport(r)
    PROVE  ImportInv'
<1>1. req[r] # Idle /\ Leave(r) /\ req[r].at = "import" /\ Live(req[r].ask)
  BY DEF CommitImport, Idle
<1>2. PICK s \in Ask : s = req[r].ask
  BY <1>1, BusyRequest DEF Receives, ImportInv, IInv
<1>3. /\ ask'[s].state = "LIVE" /\ ask'[s].imported
      /\ \A x \in Ask \ {s} : ask'[x] = ask[x]
  BY <1>1, <1>2 DEF CommitImport, Closed, Live, Receives, ImportInv, IInv, TypeOK, AskRow
<1>4. /\ landed \in [Ask -> Nat] /\ landed' = [landed EXCEPT ![s] = @ + 1]
  BY <1>2 DEF CommitImport, Receives, ImportInv, IInv, TypeOK
<1>5. req'[r] = Idle /\ \A q \in Request \ {r} : req'[q] = req[q]
  BY <1>1, Left DEF Receives, ImportInv, IInv
<1>6. serial => \A q \in Request : req'[q].at \notin {"collect", "import"}
  <2> SUFFICES ASSUME serial, NEW q \in Request
               PROVE  req'[q].at \notin {"collect", "import"}
    OBVIOUS
  <2>1. q # r => req[q] = Idle
    BY <1>1 DEF Receives, ImportInv, OneByOne
  <2> QED
    BY <2>1, <1>5 DEF Idle
<1>7. serial => ImportedOnce'
  BY <1>1, <1>2, <1>4 DEF Receives, ImportInv, ImportedOnce
<1>8. \A x \in Ask : landed'[x] > 0 =>
         ask'[x].state = "GONE" \/ (ask'[x].state = "LIVE" /\ ask'[x].imported)
  BY <1>3, <1>4 DEF Receives, ImportInv
<1> QED
  BY <1>6, <1>7, <1>8 DEF Receives, ImportInv

LEMMA ReceivesNext == Receives => ImportInv'
<1> SUFFICES ASSUME Receives PROVE ImportInv'
  OBVIOUS
<1>i. TypeOK /\ Next /\ \A s \in Ask : ask[s] \in AskRow
  BY DEF Receives, ImportInv, IInv, TypeOK
<1>1. ASSUME NEW s \in Ask, NEW scoped \in BOOLEAN, NEW to \in Target,
             CreateAsk(s, scoped, to)
      PROVE  ImportInv'
  <2>1. /\ landed' = landed /\ req' = req /\ ask[s].state = "FREE"
        /\ \A x \in Ask \ {s} : ask'[x] = ask[x]
    BY <1>1, <1>i DEF CreateAsk, TypeOK
  <2>2. landed[s] = 0
    BY <2>1 DEF Receives, ImportInv, IInv, TypeOK
  <2> QED
    BY <2>1, <2>2, ReceivesQuietly
<1>2. ASSUME NEW s \in Ask, Expire(s) \/ DeleteOrganization(s) \/ \E b \in Blob : Submit(s, b)
      PROVE  ImportInv'
  <2>1. /\ landed' = landed /\ req' = req
        /\ \A x \in Ask \ {s} : ask'[x] = ask[x]
        /\ ask'[s].state = "GONE"
             \/ (ask'[s].state = ask[s].state /\ ask'[s].imported = ask[s].imported)
    <3>1. CASE \E b \in Blob : Submit(s, b)
      BY <3>1, <1>i DEF Submit, TypeOK, AskRow
    <3>2. CASE Expire(s)
      BY <3>2, <1>i DEF Expire, TypeOK, AskRow
    <3>3. CASE DeleteOrganization(s)
      BY <3>3, <1>i DEF DeleteOrganization, TypeOK, NewAsk
    <3> QED
      BY <1>2, <3>1, <3>2, <3>3
  <2> QED
    BY <2>1, ReceivesQuietly
<1>3. ASSUME NEW s \in Ask, NEW r \in Request, AskReveal(r, s) \/ AskRevoke(r, s)
      PROVE  ImportInv'
  <2>1. PICK at \in {"view", "answer", "revoke"} : Begin(r, s, at)
    BY <1>3 DEF AskReveal, AskRevoke
  <2>2. req'[r].at = at /\ \A q \in Request \ {r} : req'[q] = req[q]
    BY <2>1, <1>i, Begun
  <2>3. landed' = landed /\ ask' = ask
    BY <1>3 DEF AskReveal, AskRevoke
  <2> QED
    BY <2>2, <2>3, ReceivesQuietly
<1>4. ASSUME DeleteProject PROVE ImportInv'
  <2>1. /\ landed' = landed /\ req' = req
        /\ \A x \in Ask : ask'[x].state = ask[x].state /\ ask'[x].imported = ask[x].imported
    BY <1>4, <1>i DEF DeleteProject, AskRow
  <2> QED
    BY <2>1, ReceivesQuietly
<1>5. ASSUME NEW r \in Request, MarkViewed(r) PROVE ImportInv'
  <2>1. req[r] # Idle /\ Enter(r, "answer")
    BY <1>5 DEF MarkViewed, Idle
  <2>2. PICK s \in Ask : s = req[r].ask
    BY <2>1, <1>i, BusyRequest
  <2>3. /\ landed' = landed
        /\ ask'[s].state = ask[s].state /\ ask'[s].imported = ask[s].imported
        /\ \A x \in Ask \ {s} : ask'[x] = ask[x]
    BY <1>5, <2>2, <1>i DEF MarkViewed, TypeOK, AskRow
  <2>4. req'[r].at = "answer" /\ \A q \in Request \ {r} : req'[q] = req[q]
    BY <2>1, <1>i, Entered
  <2> QED
    BY <2>3, <2>4, ReceivesQuietly
<1>6. ASSUME NEW r \in Request, AnswerReveal(r) \/ Abandon(r) PROVE ImportInv'
  <2>1. Leave(r) /\ landed' = landed /\ ask' = ask
    BY <1>6 DEF AnswerReveal, Abandon
  <2>2. req'[r] = Idle /\ \A q \in Request \ {r} : req'[q] = req[q]
    BY <2>1, <1>i, Left
  <2> QED
    BY <2>1, <2>2, ReceivesQuietly DEF Idle
<1>7. ASSUME NEW r \in Request, OpenCollection(r) PROVE ImportInv'
  <2>1. /\ req[r] # Idle /\ Enter(r, "import") /\ req[r].at = "collect"
        /\ landed' = landed /\ ask' = ask
    BY <1>7 DEF OpenCollection, Idle
  <2>2. req'[r].ask = req[r].ask /\ \A q \in Request \ {r} : req'[q] = req[q]
    BY <2>1, <1>i, Entered
  <2> QED
    BY <2>1, <2>2, ReceivesQuietly
<1>8. ASSUME NEW r \in Request, CommitRevoke(r) PROVE ImportInv'
  <2>1. req[r] # Idle /\ Leave(r)
    BY <1>8 DEF CommitRevoke, Idle
  <2>2. PICK s \in Ask : s = req[r].ask
    BY <2>1, <1>i, BusyRequest
  <2>3. /\ landed' = landed
        /\ ask'[s].state = ask[s].state /\ ask'[s].imported = ask[s].imported
        /\ \A x \in Ask \ {s} : ask'[x] = ask[x]
    BY <1>8, <2>2, <1>i DEF CommitRevoke, TypeOK, AskRow
  <2>4. req'[r] = Idle /\ \A q \in Request \ {r} : req'[q] = req[q]
    BY <2>1, <1>i, Left
  <2> QED
    BY <2>3, <2>4, ReceivesQuietly DEF Idle
<1> QED
  BY <1>i, <1>1, <1>2, <1>3, <1>4, <1>5, <1>6, <1>7, <1>8, ImportBegins, ImportCommits
  DEF Next

LEMMA ImportAlways == MCSpec => []ImportInv
<1>1. MCInit => ImportInv
  <2> SUFFICES ASSUME MCInit PROVE ImportInv
    OBVIOUS
  <2>1. Init
    BY DEF MCInit
  <2> QED
    BY <2>1, InitIInv DEF Init, ImportInv, OneByOne, ImportedOnce, Idle
<1>2. ImportInv /\ [MCNext]_<<vars, outbound, side, serial>> => ImportInv'
  <2> SUFFICES ASSUME ImportInv, [MCNext]_<<vars, outbound, side, serial>>
               PROVE  ImportInv'
    OBVIOUS
  <2>1. CASE Next /\ UNCHANGED serial /\ (serial => OneByOne')
    <3>1. IInv'
      BY <2>1, Step DEF ImportInv
    <3> QED
      BY <2>1, <3>1, ReceivesNext DEF Receives
  <2>2. CASE UNCHANGED vars /\ UNCHANGED serial
    <3>1. IInv'
      BY <2>2, Step DEF ImportInv
    <3>2. ask' = ask /\ req' = req /\ landed' = landed /\ serial' = serial
      BY <2>2 DEF vars
    <3> QED
      BY <3>1, <3>2 DEF ImportInv, OneByOne, ImportedOnce
  <2>3. MCNext => \/ Next /\ UNCHANGED serial /\ (serial => OneByOne')
                  \/ UNCHANGED vars /\ UNCHANGED serial
    BY DEF MCNext
  <2> QED
    BY <2>1, <2>2, <2>3
<1> QED
  BY <1>1, <1>2, PTL DEF MCSpec

\* While members' requests do not overlap, no secret is written twice to its
\* destination: whoever imports it next finds importedAt.
THEOREM ImportedOnceWhenSerial == MCSpec => []SerialImportedOnce
<1>1. ImportInv => SerialImportedOnce
  BY DEF ImportInv, SerialImportedOnce
<1> QED
  BY <1>1, ImportAlways, PTL

-----------------------------------------------------------------------------
(* What is pushed to platforms (OutboundSync).                             *)

\* What a synchronisation read of a row it may still write to: the row is there, or
\* the synchronisation was told that it is not.
RowRead(s, aim) ==
    aim \in S!Aim /\ (aim.platform \in s.dead \/ target[s.env][aim.platform] # None)

\* A variable of Physalis on Vercel, by its id.
OursAt(id) == \E v \in remote : S!IdOf(v) = id /\ v.ours /\ v.project \in Marked

\* Where a synchronisation has read its targets, and where it is at one of them.
Past(r) == sync[r].at \notin {"idle", "targets"}
Pushing(r) == sync[r].at \in {"list", "delete", "status"}

\* What a synchronisation holds was read of rows that exist, or that it is told are gone;
\* what it is about to delete of Vercel carries the mark.
SyncFits(r) ==
    /\ Past(r) => \A aim \in sync[r].todo : RowRead(sync[r], aim)
    /\ Pushing(r) => RowRead(sync[r], sync[r].cur)
    /\ sync[r].at \in {"list", "delete"} => sync[r].cur.platform = "vercel"
    /\ sync[r].at = "delete" => \A id \in sync[r].doomed \ sync[r].gone : OursAt(id)

\* The inductive invariant of the outbound side, in every regime.
SyncInv ==
    /\ S!TypeOK
    /\ \A e \in Env, p \in S!Platform : target[e][p] # None => target[e][p].aim.platform = p
    /\ \A r \in Req : SyncFits(r)

\* What carries the mark at the place of an aim, and what should be there.
Of(aim) == {v \in remote : v.project = aim.project /\ v.place = aim.place /\ v.ours}

Wanted(r) == S!Desired(sync[r].secrets, sync[r].cur)

\* How far the aim a synchronisation pushes to is from what it desires.
Stage(r) ==
    /\ sync[r].at \in {"list", "delete"} => Wanted(r) \subseteq remote
    /\ sync[r].at = "delete" =>
         /\ \A v \in Of(sync[r].cur) \ Wanted(r) : S!IdOf(v) \in sync[r].doomed
         /\ \A v \in Wanted(r) : S!IdOf(v) \notin sync[r].doomed
         /\ \A id \in sync[r].doomed : id[1] = sync[r].cur.project
    /\ sync[r].at = "status" /\ sync[r].ok => Of(sync[r].cur) = Wanted(r)

\* The aims a synchronisation has still to answer for.
Aims(r) == sync[r].todo \cup IF Pushing(r) THEN {sync[r].cur} ELSE {}

\* An aim of a synchronisation is what its row says, unless the row is gone, and no
\* other environment pushes there.
AimHolds(r, aim) ==
    /\ target[sync[r].env][aim.platform] # None =>
         target[sync[r].env][aim.platform].aim = aim
    /\ \A d \in Env \ {sync[r].env}, p \in S!Platform : target[d][p] # None =>
         target[d][p].aim.project # aim.project

\* A synchronisation that is alone: its aims are as their rows say, it holds the secrets
\* there are, and each target is one it has still to answer for, or honest already.
Underway(r) ==
    /\ \A p \in sync[r].dead : target[sync[r].env][p] = None
    /\ \A aim \in Aims(r) : AimHolds(r, aim)
    /\ sync[r].at # "secrets" => sync[r].secrets = secret[sync[r].env] /\ Stage(r)
    /\ \A p \in S!Platform : target[sync[r].env][p] # None =>
         \/ target[sync[r].env][p].aim \in Aims(r)
         \/ sync[r].at # "secrets" /\ S!Honest(sync[r].env, p)

\* The serial regime: one synchronisation, and no project of two environments.
Alone == \A q, r \in Req : sync[q] # S!Idle /\ sync[r] # S!Idle => q = r

ProjectsApart ==
    \A d, e \in Env : d # e => \A p, q \in S!Platform :
        target[d][p] # None /\ target[e][q] # None => target[d][p].aim.project # target[e][q].aim.project

\* The inductive invariant of the serial regime.
PushedInv ==
    /\ SyncInv /\ Alone /\ ProjectsApart
    /\ \A v \in remote : v.ours
    /\ \A e \in Env, p \in S!Platform :
         (\A r \in Req : sync[r] # S!Idle => sync[r].env # e) => S!Honest(e, p)
    /\ \A r \in Req : Past(r) => Underway(r)

-----------------------------------------------------------------------------
(* Types of the synchronisations.                                          *)

\* A synchronisation past its two reads.
Running ==
    [at: {"next", "list", "delete", "status"}, env: Env, dead: SUBSET S!Platform,
     todo: SUBSET S!Aim, secrets: [Key -> S!Secret \cup {None}], cur: S!Aim \cup {None},
     doomed: SUBSET S!Id, gone: SUBSET S!Id, ok: BOOLEAN]

\* What an aim pushes to, by its platform.
LEMMA AimPlatform ==
    \A aim \in S!Aim : /\ aim.platform \in S!Platform /\ aim.filtered \in BOOLEAN
                       /\ aim.platform = "vercel" => aim.project \in Marked
                       /\ aim.platform = "replaced" => aim.project \in Whole
  BY DEF S!Aim, S!Platform

\* What a synchronisation is, by where it is.
LEMMA SyncOf ==
    ASSUME S!TypeOK, NEW r \in Req
    PROVE  /\ sync[r] # S!Idle <=> sync[r].at # "idle"
           /\ sync[r].at \in {"idle", "targets", "secrets", "next", "list", "delete", "status"}
           /\ sync[r] # S!Idle => sync[r].env \in Env
           /\ Past(r) => /\ sync[r].dead \subseteq S!Platform /\ sync[r].todo \subseteq S!Aim
                         /\ sync[r] # S!Idle
           /\ Past(r) /\ sync[r].at # "secrets" => sync[r] \in Running
           /\ sync[r].at = "secrets" =>
                sync[r] \in [at: {"secrets"}, env: Env, dead: SUBSET S!Platform,
                             todo: SUBSET S!Aim]
<1>1. sync[r] \in S!Sync
  BY DEF S!TypeOK
<1>2. CASE sync[r] = S!Idle
  BY <1>2 DEF S!Idle, Past
<1>3. CASE sync[r] \in [at: {"targets"}, env: Env]
  BY <1>3 DEF S!Idle, Past
<1>4. CASE sync[r] \in [at: {"secrets"}, env: Env, dead: SUBSET S!Platform, todo: SUBSET S!Aim]
  BY <1>4 DEF S!Idle, Past
<1>5. CASE sync[r] \in Running
  BY <1>5 DEF S!Idle, Past, Running
<1> QED
  BY <1>1, <1>2, <1>3, <1>4, <1>5 DEF S!Sync, Running

\* What is a synchronisation.
LEMMA IsSync ==
    /\ S!Idle \in S!Sync
    /\ Running \subseteq S!Sync
    /\ [at: {"targets"}, env: Env] \subseteq S!Sync
    /\ [at: {"secrets"}, env: Env, dead: SUBSET S!Platform, todo: SUBSET S!Aim] \subseteq S!Sync
  BY DEF S!Sync, Running

\* A synchronisation that moves is the only one that does.
LEMMA Moved ==
    ASSUME S!TypeOK, NEW r \in Req, NEW s \in S!Sync, sync' = [sync EXCEPT ![r] = s]
    PROVE  /\ sync' \in [Req -> S!Sync]
           /\ sync'[r] = s /\ \A q \in Req \ {r} : sync'[q] = sync[q]
  BY DEF S!TypeOK

\* Widowed changes what is dead.
LEMMA WidowedFits ==
    ASSUME S!TypeOK, NEW r \in Req, Past(r), NEW p \in S!Platform
    PROVE  LET t == S!Widowed(sync[r], p) IN
           /\ t \in S!Sync /\ t.at = sync[r].at /\ t.env = sync[r].env
           /\ t.dead = sync[r].dead \cup {p} /\ t.todo = sync[r].todo
           /\ sync[r].at # "secrets" =>
                /\ t.secrets = sync[r].secrets /\ t.cur = sync[r].cur /\ t.ok = sync[r].ok
                /\ t.doomed = sync[r].doomed /\ t.gone = sync[r].gone
<1>1. CASE sync[r].at = "secrets"
  BY <1>1, SyncOf, IsSync DEF S!Widowed
<1>2. CASE sync[r].at # "secrets"
  <2>1. sync[r] \in Running
    BY <1>2, SyncOf
  <2>2. S!Widowed(sync[r], p) \in Running
    BY <2>1 DEF S!Widowed, Running
  <2> QED
    BY <2>1, <2>2, IsSync DEF S!Widowed, Running
<1> QED
  BY <1>1, <1>2

\* The variables desired are of the aim, one by key, and carry the mark.
LEMMA DesiredFits ==
    ASSUME NEW secrets \in [Key -> S!Secret \cup {None}], NEW aim \in S!Aim
    PROVE  /\ S!Desired(secrets, aim) \subseteq S!Variable
           /\ \A v \in S!Desired(secrets, aim) :
                v.ours /\ v.project = aim.project /\ v.place = aim.place
           /\ \A v, w \in S!Desired(secrets, aim) : S!IdOf(v) = S!IdOf(w) => v = w
<1>1. \/ aim.project \in Marked /\ aim.place \in Place
      \/ aim.project \in Whole /\ aim.place = None
  BY DEF S!Aim
<1>2. \A v \in S!Desired(secrets, aim) : \E k \in Key :
        /\ secrets[k] # None
        /\ v = [project |-> aim.project, key |-> k, place |-> aim.place,
                value |-> secrets[k].value, ours |-> TRUE]
  BY DEF S!Desired
<1>3. \A k \in Key : secrets[k] # None => secrets[k].value \in Value
  BY DEF S!Secret
<1>4. ASSUME NEW v \in S!Desired(secrets, aim)
      PROVE  v \in S!Variable /\ v.ours /\ v.project = aim.project /\ v.place = aim.place
  <2>1. PICK k \in Key : /\ secrets[k] # None
                         /\ v = [project |-> aim.project, key |-> k, place |-> aim.place,
                                 value |-> secrets[k].value, ours |-> TRUE]
    BY <1>2
  <2> QED
    BY <2>1, <1>1, <1>3 DEF S!Variable
<1>5. ASSUME NEW v \in S!Desired(secrets, aim), NEW w \in S!Desired(secrets, aim),
             S!IdOf(v) = S!IdOf(w)
      PROVE  v = w
  <2>1. v.key = w.key
    BY <1>5 DEF S!IdOf
  <2>2. PICK k \in Key : v = [project |-> aim.project, key |-> k, place |-> aim.place,
                              value |-> secrets[k].value, ours |-> TRUE]
    BY <1>2
  <2>3. PICK l \in Key : w = [project |-> aim.project, key |-> l, place |-> aim.place,
                              value |-> secrets[l].value, ours |-> TRUE]
    BY <1>2
  <2>4. k = l
    BY <2>1, <2>2, <2>3
  <2> QED
    BY <2>2, <2>3, <2>4
<1> QED
  BY <1>4, <1>5

\* Variables of one id are one variable.
Unique(variables) == \A v, w \in variables : S!IdOf(v) = S!IdOf(w) => v = w

\* An upsert keeps ids apart and removes no mark.
LEMMA UpsertedFits ==
    ASSUME S!TypeOK, NEW new, new \subseteq S!Variable, Unique(new), \A v \in new : v.ours
    PROVE  /\ S!Upserted(new) \subseteq S!Variable /\ Unique(S!Upserted(new))
           /\ \A id : OursAt(id) => \E v \in S!Upserted(new) :
                S!IdOf(v) = id /\ v.ours /\ v.project \in Marked
<1>1. S!Upserted(new) \subseteq S!Variable /\ Unique(S!Upserted(new))
  BY DEF S!Upserted, Unique, S!TypeOK
<1>2. ASSUME NEW id, OursAt(id)
      PROVE  \E v \in S!Upserted(new) : S!IdOf(v) = id /\ v.ours /\ v.project \in Marked
  <2>1. PICK v \in remote : S!IdOf(v) = id /\ v.ours /\ v.project \in Marked
    BY <1>2 DEF OursAt
  <2>2. CASE \E w \in new : S!IdOf(w) = id
    BY <2>1, <2>2 DEF S!Upserted, S!IdOf
  <2>3. CASE \A w \in new : S!IdOf(w) # id
    BY <2>1, <2>3 DEF S!Upserted
  <2> QED
    BY <2>2, <2>3
<1> QED
  BY <1>1, <1>2

\* Render and Railway: nothing of Vercel is touched.
LEMMA ReplacedFits ==
    ASSUME S!TypeOK, NEW new, new \subseteq S!Variable, Unique(new), NEW whole \in Whole,
           \A v \in new : v.project = whole
    PROVE  LET all == {v \in remote : v.project # whole} \cup new IN
           /\ all \subseteq S!Variable /\ Unique(all)
           /\ \A id : OursAt(id) => \E v \in all :
                S!IdOf(v) = id /\ v.ours /\ v.project \in Marked
  BY OutboundAssumption DEF Unique, S!TypeOK, S!IdOf, OursAt

-----------------------------------------------------------------------------
(* Every step keeps what synchronisations rely on.                         *)

\* What stays as it was, while rows appear and marks stay, still fits.
LEMMA SyncKeeps ==
    ASSUME SyncInv, S!TypeOK', \A q \in Req : sync'[q] = sync[q] \/ SyncFits(q)',
           \A e \in Env, p \in S!Platform :
             /\ target[e][p] # None => target'[e][p] # None
             /\ target'[e][p] # None => target'[e][p].aim.platform = p,
           \A id : OursAt(id) => \E v \in remote' :
             S!IdOf(v) = id /\ v.ours /\ v.project \in Marked
    PROVE  SyncInv'
<1>1. ASSUME NEW q \in Req, sync'[q] = sync[q] PROVE SyncFits(q)'
  <2>1. sync'[q] = sync[q] /\ SyncFits(q)
    BY <1>1 DEF SyncInv
  <2>2. Past(q) => sync[q].env \in Env
    BY SyncOf DEF SyncInv
  <2>3. \A aim \in S!Aim : Past(q) /\ target[sync[q].env][aim.platform] # None
          => target'[sync'[q].env][aim.platform] # None
    BY <2>1, <2>2, AimPlatform
  <2>4. \A id : OursAt(id) => OursAt(id)'
    BY DEF OursAt
  <2>5. \A aim : Past(q) /\ RowRead(sync[q], aim) => aim \in S!Aim /\
          (aim.platform \in sync'[q].dead \/ target'[sync'[q].env][aim.platform] # None)
    BY <2>1, <2>3 DEF RowRead
  <2> QED
    BY <2>1, <2>4, <2>5 DEF SyncFits, RowRead, Past, Pushing
<1> QED
  BY <1>1 DEF SyncInv

\* What starts a synchronisation leaves the others alone.
LEMMA Triggered ==
    ASSUME SyncInv, NEW r \in Req, NEW e \in Env, S!Trigger(r, e)
    PROVE  /\ sync' \in [Req -> S!Sync]
           /\ sync'[r].at = "targets" /\ sync'[r].env = e /\ sync'[r] # S!Idle
           /\ sync[r] = S!Idle
           /\ \A q \in Req : sync'[q] = sync[q] \/ SyncFits(q)'
           /\ \A q \in Req \ {r} : sync'[q] = sync[q]
<1> DEFINE s == [at |-> "targets", env |-> e]
<1>1. s \in S!Sync /\ s.at = "targets" /\ s.env = e /\ s # S!Idle
  BY IsSync DEF S!Idle
<1>2. sync[r] = S!Idle /\ sync' = [sync EXCEPT ![r] = s]
  BY DEF S!Trigger
<1> HIDE DEF s
<1>3. /\ sync' \in [Req -> S!Sync]
      /\ sync'[r] = s /\ \A q \in Req \ {r} : sync'[q] = sync[q]
  BY <1>1, <1>2, Moved DEF SyncInv
<1>4. SyncFits(r)'
  BY <1>1, <1>3 DEF SyncFits, Past, Pushing
<1> QED
  BY <1>1, <1>2, <1>3, <1>4

\* Rows of targets that are written, and what is kept of them.
LEMMA RowWritten ==
    ASSUME SyncInv, NEW e \in Env, NEW p \in S!Platform, NEW row \in S!Target,
           row.aim.platform = p, target' = [target EXCEPT ![e][p] = row]
    PROVE  /\ target' \in [Env -> [S!Platform -> S!Target \cup {None}]]
           /\ target'[e][p] = row
           /\ \A d \in Env, q \in S!Platform : d # e \/ q # p => target'[d][q] = target[d][q]
           /\ \A d \in Env, q \in S!Platform :
                /\ target[d][q] # None => target'[d][q] # None
                /\ target'[d][q] # None => target'[d][q].aim.platform = q
<1>1. row # None
  BY OutboundAssumption
<1>2. target \in [Env -> [S!Platform -> S!Target \cup {None}]]
  BY DEF SyncInv, S!TypeOK
<1> QED
  BY <1>1, <1>2 DEF SyncInv

\* A secret written is of its environment only.
LEMMA SecretWritten ==
    ASSUME SyncInv, NEW e \in Env, NEW k \in Key, NEW s \in S!Secret \cup {None},
           secret' = [secret EXCEPT ![e][k] = s]
    PROVE  /\ secret' \in [Env -> [Key -> S!Secret \cup {None}]]
           /\ \A d \in Env \ {e} : secret'[d] = secret[d]
  BY DEF SyncInv, S!TypeOK

\* A write of Physalis to its own tables, of the environment of the synchronisation
\* it starts.
Starts(r, e) ==
    \/ \E k \in Key, s \in S!Secret \cup {None} : S!Write(r, e, k, s)
    \/ \E k, new \in Key : S!Rename(r, e, k, new)
    \/ \E aim \in S!Aim : S!CreateTarget(r, e, aim) \/ S!PatchTarget(r, e, aim)
    \/ S!Resync(r, e)

\* A write of Physalis touches the rows of one environment.
LEMMA StartsFit ==
    ASSUME SyncInv, NEW r \in Req, NEW e \in Env, Starts(r, e)
    PROVE  /\ S!Trigger(r, e) /\ remote' = remote
           /\ \A d \in Env \ {e} : secret'[d] = secret[d] /\ target'[d] = target[d]
           /\ SyncInv'
<1>1. S!Trigger(r, e) /\ remote' = remote
  BY DEF Starts, S!Write, S!Rename, S!CreateTarget, S!PatchTarget, S!Resync
<1>2. /\ sync' \in [Req -> S!Sync]
      /\ \A q \in Req : sync'[q] = sync[q] \/ SyncFits(q)'
  BY <1>1, Triggered
<1>3. S!TypeOK
  BY DEF SyncInv
<1>g. ASSUME secret' \in [Env -> [Key -> S!Secret \cup {None}]],
             \A d \in Env \ {e} : secret'[d] = secret[d],
             target' \in [Env -> [S!Platform -> S!Target \cup {None}]],
             \A d \in Env \ {e} : target'[d] = target[d],
             \A d \in Env, p \in S!Platform :
               /\ target[d][p] # None => target'[d][p] # None
               /\ target'[d][p] # None => target'[d][p].aim.platform = p
      PROVE  (\A d \in Env \ {e} : secret'[d] = secret[d] /\ target'[d] = target[d]) /\ SyncInv'
  <2>1. S!TypeOK'
    BY <1>g, <1>1, <1>2, <1>3 DEF S!TypeOK
  <2>2. \A id : OursAt(id) => \E v \in remote' :
          S!IdOf(v) = id /\ v.ours /\ v.project \in Marked
    BY <1>1 DEF OursAt
  <2> QED
    BY <2>1, <2>2, <1>2, <1>g, SyncKeeps
<1>t. target' = target => /\ target' \in [Env -> [S!Platform -> S!Target \cup {None}]]
                          /\ \A d \in Env, p \in S!Platform :
                               target'[d][p] # None => target'[d][p].aim.platform = p
  BY DEF SyncInv, S!TypeOK
<1>s. secret' = secret => secret' \in [Env -> [Key -> S!Secret \cup {None}]]
  BY <1>3 DEF S!TypeOK
<1>4. ASSUME NEW k \in Key, NEW s \in S!Secret \cup {None}, S!Write(r, e, k, s)
      PROVE  (\A d \in Env \ {e} : secret'[d] = secret[d] /\ target'[d] = target[d]) /\ SyncInv'
  <2>1. secret' = [secret EXCEPT ![e][k] = s] /\ target' = target
    BY <1>4 DEF S!Write
  <2> QED
    BY <2>1, <1>t, <1>g, SecretWritten
<1>5. ASSUME NEW k \in Key, NEW new \in Key, S!Rename(r, e, k, new)
      PROVE  (\A d \in Env \ {e} : secret'[d] = secret[d] /\ target'[d] = target[d]) /\ SyncInv'
  <2>1. /\ secret' = [secret EXCEPT ![e] = [secret[e] EXCEPT ![k] = None, ![new] = secret[e][k]]]
        /\ target' = target
    BY <1>5 DEF S!Rename
  <2>2. secret \in [Env -> [Key -> S!Secret \cup {None}]]
    BY <1>3 DEF S!TypeOK
  <2>3. [secret[e] EXCEPT ![k] = None, ![new] = secret[e][k]] \in [Key -> S!Secret \cup {None}]
    BY <2>2
  <2>4. /\ secret' \in [Env -> [Key -> S!Secret \cup {None}]]
        /\ \A d \in Env \ {e} : secret'[d] = secret[d]
    BY <2>1, <2>2, <2>3
  <2> QED
    BY <2>1, <2>4, <1>t, <1>g
<1>6. ASSUME NEW aim \in S!Aim, S!CreateTarget(r, e, aim)
      PROVE  (\A d \in Env \ {e} : secret'[d] = secret[d] /\ target'[d] = target[d]) /\ SyncInv'
  <2>1. /\ target' = [target EXCEPT ![e][aim.platform] = [aim |-> aim, status |-> None]]
        /\ secret' = secret
    BY <1>6 DEF S!CreateTarget
  <2>2. /\ [aim |-> aim, status |-> None] \in S!Target
        /\ [aim |-> aim, status |-> None].aim.platform = aim.platform
        /\ aim.platform \in S!Platform
    BY AimPlatform DEF S!Target
  <2>3. target' \in [Env -> [S!Platform -> S!Target \cup {None}]]
        /\ \A d \in Env, q \in S!Platform :
             /\ target[d][q] # None => target'[d][q] # None
             /\ target'[d][q] # None => target'[d][q].aim.platform = q
    BY <2>1, <2>2, RowWritten
  <2>4. \A d \in Env \ {e} : target'[d] = target[d]
    BY <2>1, <1>3 DEF S!TypeOK
  <2> QED
    BY <2>1, <2>3, <2>4, <1>s, <1>g
<1>7. ASSUME NEW aim \in S!Aim, S!PatchTarget(r, e, aim)
      PROVE  (\A d \in Env \ {e} : secret'[d] = secret[d] /\ target'[d] = target[d]) /\ SyncInv'
  <2> DEFINE row == [target[e][aim.platform] EXCEPT !.aim = aim]
  <2>1. /\ target' = [target EXCEPT ![e][aim.platform] = row]
        /\ secret' = secret /\ target[e][aim.platform] # None
    BY <1>7 DEF S!PatchTarget
  <2>a. target[e][aim.platform] \in S!Target
    BY <2>1, <1>3, AimPlatform DEF S!TypeOK
  <2>2. row \in S!Target /\ row.aim.platform = aim.platform /\ aim.platform \in S!Platform
    BY <2>a, AimPlatform DEF S!Target
  <2> HIDE DEF row
  <2>3. target' \in [Env -> [S!Platform -> S!Target \cup {None}]]
        /\ \A d \in Env, q \in S!Platform :
             /\ target[d][q] # None => target'[d][q] # None
             /\ target'[d][q] # None => target'[d][q].aim.platform = q
    BY <2>1, <2>2, RowWritten
  <2>4. \A d \in Env \ {e} : target'[d] = target[d]
    BY <2>1, <1>3 DEF S!TypeOK
  <2> QED
    BY <2>1, <2>3, <2>4, <1>s, <1>g
<1>8. ASSUME S!Resync(r, e)
      PROVE  (\A d \in Env \ {e} : secret'[d] = secret[d] /\ target'[d] = target[d]) /\ SyncInv'
  BY <1>8, <1>s, <1>t, <1>g DEF S!Resync
<1> QED
  BY <1>1, <1>4, <1>5, <1>6, <1>7, <1>8 DEF Starts

\* Every variable that carries the mark is still there.
MarksStay ==
    \A id : OursAt(id) => \E v \in remote' : S!IdOf(v) = id /\ v.ours /\ v.project \in Marked

\* What a step leaves on the platforms is still variables, one by id, and no mark goes.
RemoteKept == remote' \subseteq S!Variable /\ Unique(remote') /\ MarksStay

\* One synchronisation goes on to s, which fits what it read and what is left remotely.
LEMMA OneMoves ==
    ASSUME SyncInv, NEW r \in Req, NEW s \in S!Sync, sync' = [sync EXCEPT ![r] = s],
           secret' = secret, target' = target,
           RemoteKept,
           s.at \notin {"idle", "targets"} => \A aim \in s.todo : RowRead(s, aim),
           s.at \in {"list", "delete", "status"} => RowRead(s, s.cur),
           s.at \in {"list", "delete"} => s.cur.platform = "vercel",
           s.at = "delete" => \A id \in s.doomed \ s.gone : OursAt(id)
    PROVE  SyncInv'
<1>1. /\ sync' \in [Req -> S!Sync]
      /\ sync'[r] = s /\ \A q \in Req \ {r} : sync'[q] = sync[q]
  BY Moved DEF SyncInv
<1>2. S!TypeOK'
  BY <1>1 DEF SyncInv, S!TypeOK, Unique, RemoteKept
<1>3. \A id : OursAt(id) => OursAt(id)'
  BY DEF OursAt, RemoteKept, MarksStay
<1>4. SyncFits(r)'
  BY <1>1, <1>3 DEF SyncFits, RowRead, Past, Pushing
<1>5. \A e \in Env, p \in S!Platform :
        /\ target[e][p] # None => target'[e][p] # None
        /\ target'[e][p] # None => target'[e][p].aim.platform = p
  BY DEF SyncInv
<1> QED
  BY <1>1, <1>2, <1>4, <1>5, SyncKeeps DEF RemoteKept, MarksStay

\* A step that changes no variable of the platforms.
LEMMA Quietly ==
    ASSUME SyncInv, remote' = remote
    PROVE  RemoteKept
  BY DEF SyncInv, S!TypeOK, Unique, OursAt, RemoteKept, MarksStay

\* One lemma for each step of a synchronisation: the invariant holds after it.
LEMMA ReadsTargets ==
    ASSUME SyncInv, NEW r \in Req, S!ReadTargets(r)
    PROVE  /\ S!TargetsOf(sync[r].env) = {} => sync' = [sync EXCEPT ![r] = S!Idle]
           /\ S!TargetsOf(sync[r].env) # {} =>
                \E s \in S!Sync :
                  /\ sync' = [sync EXCEPT ![r] = s] /\ s.at = "secrets" /\ s.env = sync[r].env
                  /\ s.dead = {}
                  /\ s.todo = {target[sync[r].env][p].aim : p \in S!TargetsOf(sync[r].env)}
           /\ sync[r].env \in Env /\ sync[r].at = "targets"
           /\ SyncInv'
<1>1. sync[r].at = "targets" /\ sync[r].env \in Env
  BY SyncOf DEF S!ReadTargets, SyncInv
<1>2. secret' = secret /\ target' = target /\ remote' = remote
  BY DEF S!ReadTargets
<1> DEFINE e == sync[r].env
           s == [at |-> "secrets", env |-> e, dead |-> {},
                 todo |-> {target[e][p].aim : p \in S!TargetsOf(e)}]
<1>3. CASE S!TargetsOf(e) = {}
  <2>1. sync' = [sync EXCEPT ![r] = S!Idle]
    BY <1>3 DEF S!ReadTargets
  <2>2. SyncInv'
    BY <2>1, <1>2, OneMoves, Quietly, IsSync DEF S!Idle
  <2> QED
    BY <2>1, <2>2, <1>1, <1>3
<1>4. CASE S!TargetsOf(e) # {}
  <2>1. sync' = [sync EXCEPT ![r] = s]
    BY <1>4 DEF S!ReadTargets
  <2>2. \A p \in S!TargetsOf(e) :
          /\ p \in S!Platform /\ target[e][p] # None
          /\ target[e][p].aim \in S!Aim /\ target[e][p].aim.platform = p
    BY <1>1 DEF S!TargetsOf, SyncInv, S!TypeOK, S!Target
  <2>3. {target[e][p].aim : p \in S!TargetsOf(e)} \subseteq S!Aim
    BY <2>2
  <2>4. /\ s \in [at: {"secrets"}, env: Env, dead: SUBSET S!Platform, todo: SUBSET S!Aim]
        /\ s.at = "secrets" /\ s.env = e /\ s.dead = {}
        /\ s.todo = {target[e][p].aim : p \in S!TargetsOf(e)}
    BY <1>1, <2>3
  <2>5. s \in S!Sync
    BY <2>4, IsSync
  <2>6. \A aim \in s.todo : RowRead(s, aim)
    BY <2>2, <2>4 DEF RowRead
  <2> HIDE DEF s
  <2>7. SyncInv'
    BY <2>1, <2>4, <2>5, <2>6, <1>2, OneMoves, Quietly
  <2> QED
    BY <2>1, <2>4, <2>5, <2>7, <1>1, <1>4
<1> QED
  BY <1>3, <1>4

LEMMA ReadsSecrets ==
    ASSUME SyncInv, NEW r \in Req, S!ReadSecrets(r)
    PROVE  /\ \E s \in Running :
                /\ sync' = [sync EXCEPT ![r] = s] /\ s.at = "next" /\ s.env = sync[r].env
                /\ s.dead = sync[r].dead /\ s.todo = sync[r].todo
                /\ s.secrets = secret[s.env]
           /\ sync[r].env \in Env /\ sync[r].at = "secrets"
           /\ SyncInv'
<1>1. sync[r].at = "secrets" /\ sync[r].env \in Env
  BY SyncOf DEF S!ReadSecrets, SyncInv, S!Idle
<1>2. secret' = secret /\ target' = target /\ remote' = remote
  BY DEF S!ReadSecrets
<1> DEFINE s == [at |-> "next", env |-> sync[r].env, dead |-> sync[r].dead,
                 todo |-> sync[r].todo, secrets |-> secret[sync[r].env],
                 cur |-> None, doomed |-> {}, gone |-> {}, ok |-> TRUE]
<1>3. sync' = [sync EXCEPT ![r] = s]
  BY DEF S!ReadSecrets
<1>4. /\ sync[r].dead \subseteq S!Platform /\ sync[r].todo \subseteq S!Aim
      /\ secret[sync[r].env] \in [Key -> S!Secret \cup {None}]
  BY <1>1, SyncOf DEF SyncInv, S!TypeOK, Past
<1>5. s \in Running
  BY <1>1, <1>4 DEF Running
<1>6. /\ s.at = "next" /\ s.env = sync[r].env /\ s.dead = sync[r].dead
      /\ s.todo = sync[r].todo /\ s.secrets = secret[s.env]
  OBVIOUS
<1> HIDE DEF s
<1>7. \A aim \in s.todo : RowRead(s, aim)
  BY <1>1, <1>6 DEF SyncInv, SyncFits, Past, RowRead
<1>8. SyncInv'
  BY <1>2, <1>3, <1>5, <1>6, <1>7, OneMoves, Quietly, IsSync
<1> QED
  BY <1>1, <1>3, <1>5, <1>6, <1>8

\* A push, and what the synchronisation becomes: the next place in the same row.
LEMMA Pushes ==
    ASSUME SyncInv, NEW r \in Req, sync[r] \in Running, NEW aim \in S!Aim \cup {None},
           NEW at \in {"next", "list", "status"}, NEW ok \in BOOLEAN,
           NEW s, s = S!Onward(sync[r], aim, at, ok), sync' = [sync EXCEPT ![r] = s],
           at # "next" => RowRead(sync[r], aim),
           at = "list" => aim.platform = "vercel",
           secret' = secret, target' = target,
           RemoteKept
    PROVE  SyncInv'
<1>1. /\ s \in Running /\ s.at = at /\ s.env = sync[r].env /\ s.dead = sync[r].dead
      /\ s.todo = sync[r].todo \ {aim} /\ s.cur = aim
  BY DEF Running, S!Onward
<1>2. s \in S!Sync
  BY <1>1, IsSync
<1>4. \A a \in s.todo : RowRead(s, a)
  BY <1>1 DEF SyncInv, SyncFits, Past, RowRead, Running
<1>5. s.at \in {"list", "delete", "status"} => RowRead(s, s.cur)
  BY <1>1 DEF RowRead
<1> QED
  BY <1>1, <1>2, <1>4, <1>5, OneMoves

\* Where a synchronisation reads an aim next, and what it desires there.
LEMMA AtNext ==
    ASSUME SyncInv, NEW r \in Req, NEW aim \in S!Aim, S!Next1(r, aim)
    PROVE  /\ sync[r] \in Running /\ sync[r].at = "next" /\ RowRead(sync[r], aim)
           /\ aim \in sync[r].todo
           /\ S!Desired(sync[r].secrets, aim) \subseteq S!Variable
           /\ Unique(S!Desired(sync[r].secrets, aim))
           /\ \A v \in S!Desired(sync[r].secrets, aim) :
                v.ours /\ v.project = aim.project /\ v.place = aim.place
<1>1. sync[r] \in Running /\ sync[r].at = "next" /\ Past(r) /\ aim \in sync[r].todo
  BY SyncOf DEF S!Next1, SyncInv, Past
<1>2. sync[r].secrets \in [Key -> S!Secret \cup {None}]
  BY <1>1 DEF Running
<1>3. RowRead(sync[r], aim)
  BY <1>1 DEF SyncInv, SyncFits
<1> QED
  BY <1>1, <1>2, <1>3, DesiredFits DEF Unique

\* Where it pushes: the aim it pushes to.
LEMMA AtPush ==
    ASSUME SyncInv, NEW r \in Req, Pushing(r)
    PROVE  /\ sync[r] \in Running /\ RowRead(sync[r], sync[r].cur) /\ sync[r].cur \in S!Aim
           /\ sync[r].at \in {"list", "delete"} => sync[r].cur.project \in Marked
           /\ S!Desired(sync[r].secrets, sync[r].cur) \subseteq S!Variable
           /\ Unique(S!Desired(sync[r].secrets, sync[r].cur))
           /\ \A v \in S!Desired(sync[r].secrets, sync[r].cur) :
                v.ours /\ v.project = sync[r].cur.project /\ v.place = sync[r].cur.place
<1>1. sync[r] \in Running
  BY SyncOf DEF Pushing, SyncInv, Past
<1>2. sync[r].secrets \in [Key -> S!Secret \cup {None}]
  BY <1>1 DEF Running
<1>3. RowRead(sync[r], sync[r].cur) /\ sync[r].cur \in S!Aim
  BY DEF SyncInv, SyncFits, RowRead
<1>4. sync[r].at \in {"list", "delete"} => sync[r].cur.project \in Marked
  BY <1>3, AimPlatform DEF SyncInv, SyncFits
<1> QED
  BY <1>1, <1>2, <1>3, <1>4, DesiredFits DEF Unique

LEMMA UpsertFits ==
    ASSUME SyncInv, NEW r \in Req, NEW aim \in S!Aim, S!Upsert(r, aim)
    PROVE  SyncInv'
<1>1. S!Next1(r, aim) /\ aim.platform = "vercel" /\ secret' = secret /\ target' = target
  BY DEF S!Upsert
<1> DEFINE new == S!Desired(sync[r].secrets, aim)
<1>2. \/ S!Step(r, aim, "list") /\ remote' = remote
      \/ S!Step(r, aim, "list") /\ remote' = S!Upserted(new)
      \/ S!Fail(r, aim) /\ remote' \in {remote, S!Upserted(new)}
  BY DEF S!Upsert
<1>3. /\ sync[r] \in Running /\ RowRead(sync[r], aim)
      /\ new \subseteq S!Variable /\ Unique(new) /\ \A v \in new : v.ours
  BY <1>1, AtNext
<1> HIDE DEF new
<1>4. RemoteKept
  <2>1. CASE remote' = remote
    BY <2>1, Quietly
  <2>2. CASE remote' = S!Upserted(new)
    BY <2>2, <1>3, UpsertedFits DEF RemoteKept, MarksStay, SyncInv
  <2> QED
    BY <1>2, <2>1, <2>2
<1>5. sync[r].ok \in BOOLEAN
  BY <1>3 DEF Running
<1>6. CASE S!Step(r, aim, "list")
  BY <1>1, <1>3, <1>4, <1>5, <1>6, Pushes DEF S!Step
<1>7. CASE S!Fail(r, aim)
  BY <1>1, <1>3, <1>4, <1>7, Pushes DEF S!Fail
<1> QED
  BY <1>2, <1>6, <1>7

LEMMA ReplaceFits ==
    ASSUME SyncInv, NEW r \in Req, NEW aim \in S!Aim, S!Replace(r, aim)
    PROVE  SyncInv'
<1>1. S!Next1(r, aim) /\ aim.platform = "replaced" /\ secret' = secret /\ target' = target
  BY DEF S!Replace
<1> DEFINE new == S!Desired(sync[r].secrets, aim)
           all == {v \in remote : v.project # aim.project} \cup new
<1>2. \/ S!Step(r, aim, "status") /\ remote' = all
      \/ S!Fail(r, aim) /\ remote' \in {remote, all}
  BY DEF S!Replace
<1>3. /\ sync[r] \in Running /\ RowRead(sync[r], aim)
      /\ new \subseteq S!Variable /\ Unique(new) /\ \A v \in new : v.project = aim.project
  BY <1>1, AtNext
<1>m. aim.project \in Whole
  BY <1>1, AimPlatform
<1> HIDE DEF new
<1>4. RemoteKept
  <2>1. CASE remote' = remote
    BY <2>1, Quietly
  <2>2. CASE remote' = all
    BY <2>2, <1>3, <1>m, ReplacedFits DEF RemoteKept, MarksStay, SyncInv
  <2> QED
    BY <1>2, <2>1, <2>2
<1>5. sync[r].ok \in BOOLEAN
  BY <1>3 DEF Running
<1>6. CASE S!Step(r, aim, "status")
  BY <1>1, <1>3, <1>4, <1>5, <1>6, Pushes DEF S!Step
<1>7. CASE S!Fail(r, aim)
  BY <1>1, <1>3, <1>4, <1>7, Pushes DEF S!Fail
<1> QED
  BY <1>2, <1>6, <1>7

\* A failure on the way, that changes nothing remotely.
LEMMA FailFits ==
    ASSUME SyncInv, NEW r \in Req, Pushing(r), S!Fail(r, sync[r].cur),
           UNCHANGED <<secret, target, remote>>
    PROVE  SyncInv'
<1>1. sync[r] \in Running /\ RowRead(sync[r], sync[r].cur) /\ sync[r].cur \in S!Aim
  BY AtPush
<1> QED
  BY <1>1, Quietly, Pushes DEF S!Fail

LEMMA ListFits ==
    ASSUME SyncInv, NEW r \in Req, S!List(r)
    PROVE  SyncInv'
<1>1. /\ sync[r].at = "list" /\ Pushing(r) /\ secret' = secret /\ target' = target
      /\ remote' = remote
  BY DEF S!List, Pushing
<1>2. CASE S!Fail(r, sync[r].cur)
  BY <1>1, <1>2, FailFits
<1> DEFINE ids == {S!IdOf(v) : v \in S!Doomed(r)}
           s == [sync[r] EXCEPT !.at = "delete", !.doomed = ids]
<1>3. CASE sync' = [sync EXCEPT ![r] = s]
  <2>1. /\ sync[r] \in Running /\ RowRead(sync[r], sync[r].cur) /\ sync[r].cur \in S!Aim
        /\ sync[r].cur.project \in Marked
    BY <1>1, AtPush
  <2>2. \A v \in S!Doomed(r) : OursAt(S!IdOf(v)) /\ S!IdOf(v) \in S!Id
    <3> SUFFICES ASSUME NEW v \in S!Doomed(r) PROVE OursAt(S!IdOf(v)) /\ S!IdOf(v) \in S!Id
      OBVIOUS
    <3>1. v \in remote /\ v.ours /\ v.project \in Marked
      BY <2>1 DEF S!Doomed
    <3>2. v.key \in Key /\ v.place \in Place
      BY <3>1, OutboundAssumption DEF SyncInv, S!TypeOK, S!Variable
    <3> QED
      BY <3>1, <3>2 DEF OursAt, S!IdOf, S!Id
  <2>3. ids \subseteq S!Id /\ \A id \in ids : OursAt(id)
    BY <2>2
  <2> HIDE DEF ids
  <2>4. /\ s \in Running /\ s.at = "delete" /\ s.env = sync[r].env /\ s.dead = sync[r].dead
        /\ s.todo = sync[r].todo /\ s.cur = sync[r].cur /\ s.doomed = ids
    BY <2>1, <2>3 DEF Running
  <2> HIDE DEF s
  <2>5. \A aim \in s.todo : RowRead(s, aim)
    BY <1>1, <2>4 DEF SyncInv, SyncFits, Past, RowRead
  <2>6. RowRead(s, s.cur) /\ s.cur.platform = "vercel"
    BY <1>1, <2>1, <2>4 DEF SyncInv, SyncFits, RowRead
  <2> QED
    BY <1>1, <1>3, <2>3, <2>4, <2>5, <2>6, OneMoves, Quietly, IsSync
<1> QED
  BY <1>2, <1>3 DEF S!List

LEMMA DeletedFits ==
    ASSUME SyncInv, NEW r \in Req, S!Deleted(r)
    PROVE  SyncInv'
<1>1. /\ sync[r].at = "delete" /\ Pushing(r) /\ secret' = secret /\ target' = target
      /\ remote' = remote /\ S!Step(r, sync[r].cur, "status")
  BY DEF S!Deleted, Pushing
<1>2. /\ sync[r] \in Running /\ RowRead(sync[r], sync[r].cur) /\ sync[r].cur \in S!Aim
  BY <1>1, AtPush
<1>3. sync[r].ok \in BOOLEAN
  BY <1>2 DEF Running
<1> QED
  BY <1>1, <1>2, <1>3, Quietly, Pushes DEF S!Step

LEMMA StopFits ==
    ASSUME SyncInv, NEW r \in Req, S!Stop(r)
    PROVE  SyncInv'
  BY OneMoves, Quietly, IsSync DEF S!Stop, S!Idle

\* What Tell writes to the row, if it was not deleted.
LEMMA Tells ==
    ASSUME SyncInv, NEW r \in Req, S!Tell(r)
    PROVE  /\ sync[r].at = "status" /\ sync[r] \in Running /\ sync[r].cur \in S!Aim
           /\ remote' = remote /\ secret' = secret
           /\ sync[r].cur.platform \in sync[r].dead => target' = target
           /\ sync[r].cur.platform \notin sync[r].dead =>
                \E row \in S!Target :
                  /\ target' = [target EXCEPT ![sync[r].env][sync[r].cur.platform] = row]
                  /\ row.aim = target[sync[r].env][sync[r].cur.platform].aim
                  /\ row.aim.platform = sync[r].cur.platform
                  /\ row.status = "success" => sync[r].ok
                  /\ target[sync[r].env][sync[r].cur.platform] # None
           /\ \E s \in S!Sync :
                /\ sync' = [sync EXCEPT ![r] = s]
                /\ sync[r].todo = {} => s = S!Idle
                /\ sync[r].todo # {} =>
                     /\ s.at = "next" /\ s.env = sync[r].env /\ s.dead = sync[r].dead
                     /\ s.todo = sync[r].todo /\ s.secrets = sync[r].secrets
<1>1. sync[r].at = "status" /\ remote' = remote /\ secret' = secret /\ Pushing(r)
  BY DEF S!Tell, Pushing
<1>2. sync[r] \in Running /\ sync[r].cur \in S!Aim /\ RowRead(sync[r], sync[r].cur)
  BY <1>1, AtPush
<1> DEFINE p == sync[r].cur.platform
           e == sync[r].env
           word == IF sync[r].ok THEN "success" ELSE "error"
           row == [target[e][p] EXCEPT !.status = word]
<1>3. /\ p \in sync[r].dead => target' = target
      /\ p \notin sync[r].dead => target' = [target EXCEPT ![e][p] = row]
  BY DEF S!Tell
<1>4. e \in Env /\ p \in S!Platform
  BY <1>2, AimPlatform DEF Running
<1>5. ASSUME p \notin sync[r].dead
      PROVE  /\ target[e][p] # None /\ target[e][p] \in S!Target
             /\ target[e][p].aim.platform = p
  BY <1>5, <1>2, <1>4 DEF RowRead, SyncInv, S!TypeOK
<1>6. ASSUME p \notin sync[r].dead
      PROVE  /\ row \in S!Target /\ row.aim = target[e][p].aim
             /\ row.status = word
  <2>1. word \in {"success", "error", None}
    OBVIOUS
  <2>2. \A t \in S!Target, w \in {"success", "error", None} :
          LET u == [t EXCEPT !.status = w] IN
          u \in S!Target /\ u.aim = t.aim /\ u.status = w
    BY DEF S!Target
  <2>3. target[e][p] \in S!Target
    BY <1>5, <1>6
  <2> QED
    BY <2>1, <2>2, <2>3, Zenon
<1> DEFINE s == S!Onward(sync[r], None, "next", TRUE)
<1>7. /\ s \in Running /\ s.at = "next" /\ s.env = sync[r].env /\ s.dead = sync[r].dead
      /\ s.todo = sync[r].todo \ {None} /\ s.secrets = sync[r].secrets
  BY <1>2 DEF Running, S!Onward
<1>8. sync[r].todo \ {None} = sync[r].todo
  BY <1>2, OutboundAssumption DEF Running
<1>9. sync' = [sync EXCEPT ![r] = IF sync[r].todo = {} THEN S!Idle ELSE s]
  BY DEF S!Tell
<1> HIDE DEF s, row
<1>w. word = "success" => sync[r].ok
  OBVIOUS
<1> HIDE DEF word
<1>10. \E t \in S!Sync :
         /\ sync' = [sync EXCEPT ![r] = t]
         /\ sync[r].todo = {} => t = S!Idle
         /\ sync[r].todo # {} =>
              /\ t.at = "next" /\ t.env = sync[r].env /\ t.dead = sync[r].dead
              /\ t.todo = sync[r].todo /\ t.secrets = sync[r].secrets
  <2>1. CASE sync[r].todo = {}
    BY <2>1, <1>9, IsSync
  <2>2. CASE sync[r].todo # {}
    BY <2>2, <1>7, <1>8, <1>9, IsSync
  <2> QED
    BY <2>1, <2>2
<1> QED
  BY <1>1, <1>2, <1>3, <1>5, <1>6, <1>w, <1>10

LEMMA TellFits ==
    ASSUME SyncInv, NEW r \in Req, S!Tell(r)
    PROVE  SyncInv'
<1> DEFINE p == sync[r].cur.platform
           e == sync[r].env
<1>1. /\ sync[r].at = "status" /\ sync[r] \in Running /\ sync[r].cur \in S!Aim
      /\ remote' = remote /\ secret' = secret
  BY Tells
<1>2. e \in Env /\ p \in S!Platform
  BY <1>1, AimPlatform DEF Running
<1>3. /\ target' \in [Env -> [S!Platform -> S!Target \cup {None}]]
      /\ \A d \in Env, q \in S!Platform :
           /\ target[d][q] # None => target'[d][q] # None
           /\ target'[d][q] # None => target'[d][q].aim.platform = q
  <2>1. CASE p \in sync[r].dead
    <3>1. target' = target
      BY <2>1, Tells
    <3> QED
      BY <3>1 DEF SyncInv, S!TypeOK
  <2>2. CASE p \notin sync[r].dead
    <3>1. PICK row \in S!Target : /\ target' = [target EXCEPT ![e][p] = row]
                                  /\ row.aim.platform = p
      BY <2>2, Tells
    <3> QED
      BY <3>1, <1>2, RowWritten
  <2> QED
    BY <2>1, <2>2
<1>4. PICK s \in S!Sync :
        /\ sync' = [sync EXCEPT ![r] = s]
        /\ sync[r].todo = {} => s = S!Idle
        /\ sync[r].todo # {} =>
             /\ s.at = "next" /\ s.env = sync[r].env /\ s.dead = sync[r].dead
             /\ s.todo = sync[r].todo
  BY Tells
<1>5. /\ sync' \in [Req -> S!Sync]
      /\ sync'[r] = s /\ \A q \in Req \ {r} : sync'[q] = sync[q]
  BY <1>4, Moved DEF SyncInv
<1>6. S!TypeOK'
  BY <1>1, <1>3, <1>5 DEF SyncInv, S!TypeOK
<1>7. SyncFits(r)'
  <2>1. CASE sync[r].todo = {}
    BY <2>1, <1>4, <1>5 DEF SyncFits, Past, Pushing, S!Idle
  <2>2. CASE sync[r].todo # {}
    <3>1. \A aim \in sync[r].todo : RowRead(sync[r], aim)
      BY <1>1 DEF SyncInv, SyncFits, Past
    <3>2. \A aim \in sync[r].todo : aim \in S!Aim /\
            (aim.platform \in sync[r].dead \/ target'[sync[r].env][aim.platform] # None)
      BY <3>1, <1>2, <1>3, AimPlatform DEF RowRead
    <3> QED
      BY <2>2, <3>2, <1>4, <1>5 DEF SyncFits, Past, Pushing, RowRead
  <2> QED
    BY <2>1, <2>2
<1>8. RemoteKept
  BY <1>1, Quietly
<1> QED
  BY <1>3, <1>5, <1>6, <1>7, <1>8, SyncKeeps DEF RemoteKept, MarksStay

\* What a deletion does to the synchronisations, and what they know of it.
LEMMA Deletes ==
    ASSUME SyncInv, NEW r \in Req, NEW id \in S!Id, S!Delete(r, id), ~S!Fail(r, sync[r].cur)
    PROVE  /\ remote' = S!Without(id) /\ sync' \in [Req -> S!Sync]
           /\ sync'[r].doomed = sync[r].doomed \ {id} /\ sync'[r].gone = sync[r].gone
           /\ \A q \in Req :
                /\ sync'[q].at = sync[q].at
                /\ sync'[q].at # "idle" => sync'[q].env = sync[q].env
                /\ Past(q) => sync'[q].dead = sync[q].dead /\ sync'[q].todo = sync[q].todo
                /\ Past(q) /\ sync[q].at # "secrets" =>
                     /\ sync'[q].cur = sync[q].cur /\ sync'[q].secrets = sync[q].secrets
                     /\ sync'[q].ok = sync[q].ok
                /\ sync[q].at = "delete" =>
                     sync'[q].doomed \ sync'[q].gone = (sync[q].doomed \ sync[q].gone) \ {id}
<1>1. /\ sync[r].at = "delete" /\ id \in sync[r].doomed /\ id \notin sync[r].gone
      /\ remote' = S!Without(id)
      /\ sync' = [q \in Req |-> IF q = r THEN [sync[r] EXCEPT !.doomed = sync[r].doomed \ {id}]
                                ELSE S!Told(sync[q], id)]
  BY DEF S!Delete
<1>2. sync[r] \in Running
  BY <1>1, SyncOf DEF SyncInv, Past
<1> DEFINE s == [sync[r] EXCEPT !.doomed = sync[r].doomed \ {id}]
<1>3. /\ s \in S!Sync /\ s.at = sync[r].at /\ s.env = sync[r].env /\ s.dead = sync[r].dead
      /\ s.todo = sync[r].todo /\ s.cur = sync[r].cur /\ s.secrets = sync[r].secrets
      /\ s.ok = sync[r].ok /\ s.doomed = sync[r].doomed \ {id} /\ s.gone = sync[r].gone
  <2>1. s \in Running
    BY <1>2 DEF Running
  <2> QED
    BY <2>1, <1>2, IsSync DEF Running
<1>4. ASSUME NEW q \in Req, NEW t, t = S!Told(sync[q], id)
      PROVE  /\ t \in S!Sync /\ t.at = sync[q].at
             /\ t.at # "idle" => t.env = sync[q].env
             /\ Past(q) => t.dead = sync[q].dead /\ t.todo = sync[q].todo
             /\ Past(q) /\ sync[q].at # "secrets" =>
                  t.cur = sync[q].cur /\ t.secrets = sync[q].secrets /\ t.ok = sync[q].ok
             /\ sync[q].at = "delete" =>
                  t.doomed \ t.gone = (sync[q].doomed \ sync[q].gone) \ {id}
  <2>1. CASE sync[q].at = "delete" /\ id \in sync[q].doomed
    <3>1. t = [sync[q] EXCEPT !.gone = sync[q].gone \cup {id}]
      BY <1>4, <2>1 DEF S!Told
    <3>2. sync[q] \in Running
      BY <2>1, SyncOf DEF SyncInv, Past
    <3>3. t \in Running
      BY <3>1, <3>2 DEF Running
    <3> QED
      BY <3>1, <3>2, <3>3, IsSync DEF Running
  <2>2. CASE ~(sync[q].at = "delete" /\ id \in sync[q].doomed)
    <3>1. t = sync[q]
      BY <1>4, <2>2 DEF S!Told
    <3> QED
      BY <3>1, <2>2 DEF SyncInv, S!TypeOK
  <2> QED
    BY <2>1, <2>2
<1>5. sync'[r] = s /\ \A q \in Req \ {r} : sync'[q] = S!Told(sync[q], id)
  BY <1>1
<1> HIDE DEF s
<1>6. sync' \in [Req -> S!Sync]
  <2>1. \A q \in Req : sync'[q] \in S!Sync
    BY <1>3, <1>4, <1>5
  <2>2. DOMAIN sync' = Req /\ sync' = [q \in Req |-> sync'[q]]
    BY <1>1
  <2> QED
    BY <2>1, <2>2
<1>7. s.doomed \ s.gone = (sync[r].doomed \ sync[r].gone) \ {id}
  BY <1>3
<1>8. ASSUME NEW q \in Req
      PROVE  /\ sync'[q].at = sync[q].at
             /\ sync'[q].at # "idle" => sync'[q].env = sync[q].env
             /\ Past(q) => sync'[q].dead = sync[q].dead /\ sync'[q].todo = sync[q].todo
             /\ Past(q) /\ sync[q].at # "secrets" =>
                  /\ sync'[q].cur = sync[q].cur /\ sync'[q].secrets = sync[q].secrets
                  /\ sync'[q].ok = sync[q].ok
             /\ sync[q].at = "delete" =>
                  sync'[q].doomed \ sync'[q].gone = (sync[q].doomed \ sync[q].gone) \ {id}
  <2>1. CASE q = r
    BY <2>1, <1>3, <1>5, <1>7
  <2>2. CASE q # r
    <3>1. sync'[q] = S!Told(sync[q], id)
      BY <2>2, <1>5
    <3> QED
      BY <3>1, <1>4
  <2> QED
    BY <2>1, <2>2
<1>9. sync'[r].doomed = sync[r].doomed \ {id} /\ sync'[r].gone = sync[r].gone
  BY <1>3, <1>5
<1> QED
  BY <1>1, <1>6, <1>8, <1>9

LEMMA DeleteFits ==
    ASSUME SyncInv, NEW r \in Req, NEW id \in S!Id, S!Delete(r, id)
    PROVE  SyncInv'
<1>1. secret' = secret /\ target' = target
  BY DEF S!Delete
<1>2. CASE S!Fail(r, sync[r].cur)
  <2>1. CASE remote' = remote
    BY <1>1, <1>2, <2>1, FailFits DEF S!Delete, Pushing
  <2>2. CASE remote' # remote
    <3>1. sync' = [q \in Req |-> IF q = r THEN [sync[r] EXCEPT !.doomed = sync[r].doomed \ {id}]
                                ELSE S!Told(sync[q], id)]
      BY <2>2 DEF S!Delete
    <3>2. sync[r] \in Running /\ sync[r].at = "delete"
      BY SyncOf DEF SyncInv, Past, S!Delete
    <3>3. sync'[r].at = "delete"
      BY <3>1, <3>2 DEF Running
    <3>4. sync'[r].at = "status"
      BY <1>2, <3>2 DEF S!Fail, S!Onward, Running, SyncInv, S!TypeOK
    <3> QED
      BY <3>3, <3>4
  <2> QED
    BY <2>1, <2>2
<1>3. CASE ~S!Fail(r, sync[r].cur)
  <2>1. /\ remote' = S!Without(id) /\ sync' \in [Req -> S!Sync]
        /\ \A q \in Req :
             /\ sync'[q].at = sync[q].at
             /\ sync'[q].at # "idle" => sync'[q].env = sync[q].env
             /\ Past(q) => sync'[q].dead = sync[q].dead /\ sync'[q].todo = sync[q].todo
             /\ Past(q) /\ sync[q].at # "secrets" => sync'[q].cur = sync[q].cur
             /\ sync[q].at = "delete" =>
                  sync'[q].doomed \ sync'[q].gone = (sync[q].doomed \ sync[q].gone) \ {id}
    BY <1>3, Deletes
  <2>2. S!TypeOK'
    BY <2>1, <1>1 DEF SyncInv, S!TypeOK, S!Without
  <2>3. \A i : OursAt(i) /\ i # id => OursAt(i)'
    BY <2>1 DEF OursAt, S!Without
  <2>4. ASSUME NEW q \in Req PROVE SyncFits(q)'
    <3>1. SyncFits(q)
      BY DEF SyncInv
    <3>2. \A aim : Past(q) /\ RowRead(sync[q], aim) => aim \in S!Aim /\
            (aim.platform \in sync'[q].dead \/ target'[sync'[q].env][aim.platform] # None)
      BY <2>1, <1>1 DEF RowRead, Past
    <3>3. sync'[q].at = "delete" => \A i \in sync'[q].doomed \ sync'[q].gone : OursAt(i)'
      BY <2>1, <2>3, <3>1 DEF SyncFits
    <3>4. Past(q)' => \A aim \in sync'[q].todo : aim \in S!Aim /\
            (aim.platform \in sync'[q].dead \/ target'[sync'[q].env][aim.platform] # None)
      BY <2>1, <3>1, <3>2 DEF SyncFits, Past
    <3>5. Pushing(q)' => /\ sync'[q].cur \in S!Aim
            /\ (sync'[q].cur.platform \in sync'[q].dead
                  \/ target'[sync'[q].env][sync'[q].cur.platform] # None)
      BY <2>1, <3>1, <3>2 DEF SyncFits, Past, Pushing
    <3>6. sync'[q].at \in {"list", "delete"} => sync'[q].cur.platform = "vercel"
      BY <2>1, <3>1 DEF SyncFits, Past
    <3> QED
      BY <3>3, <3>4, <3>5, <3>6 DEF SyncFits, RowRead
  <2>5. \A e \in Env, p \in S!Platform : target'[e][p] # None => target'[e][p].aim.platform = p
    BY <1>1 DEF SyncInv
  <2> QED
    BY <2>2, <2>4, <2>5 DEF SyncInv
<1> QED
  BY <1>2, <1>3

\* The row of a target goes, and the synchronisations of its environment are told.
LEMMA RowGoes ==
    ASSUME SyncInv, NEW e \in Env, NEW p \in S!Platform, S!DeleteTarget(e, p)
    PROVE  /\ remote' = remote /\ secret' = secret
           /\ target' \in [Env -> [S!Platform -> S!Target \cup {None}]]
           /\ target'[e][p] = None /\ target[e][p] # None
           /\ \A d \in Env, q \in S!Platform : d # e \/ q # p => target'[d][q] = target[d][q]
           /\ sync' \in [Req -> S!Sync]
           /\ \A r \in Req : ~Past(r) \/ sync[r].env # e => sync'[r] = sync[r]
           /\ \A r \in Req : Past(r) /\ sync[r].env = e =>
                /\ sync'[r].at = sync[r].at /\ sync'[r].env = e /\ sync'[r].todo = sync[r].todo
                /\ sync'[r].dead = sync[r].dead \cup {p}
                /\ sync[r].at # "secrets" =>
                     /\ sync'[r].secrets = sync[r].secrets /\ sync'[r].cur = sync[r].cur
                     /\ sync'[r].ok = sync[r].ok
                     /\ sync'[r].doomed = sync[r].doomed /\ sync'[r].gone = sync[r].gone
<1>1. /\ remote' = remote /\ secret' = secret /\ target[e][p] # None
      /\ target' = [target EXCEPT ![e][p] = None]
      /\ sync' = [r \in Req |->
                    IF sync[r].at \notin {"idle", "targets"} /\ sync[r].env = e
                    THEN S!Widowed(sync[r], p) ELSE sync[r]]
  BY DEF S!DeleteTarget
<1>2. /\ target' \in [Env -> [S!Platform -> S!Target \cup {None}]]
      /\ target'[e][p] = None
      /\ \A d \in Env, q \in S!Platform : d # e \/ q # p => target'[d][q] = target[d][q]
  BY <1>1 DEF SyncInv, S!TypeOK
<1>3. \A r \in Req : sync'[r] = IF Past(r) /\ sync[r].env = e THEN S!Widowed(sync[r], p)
                                ELSE sync[r]
  BY <1>1 DEF Past
<1>4. ASSUME NEW r \in Req, Past(r), sync[r].env = e
      PROVE  /\ sync'[r] \in S!Sync
             /\ sync'[r].at = sync[r].at /\ sync'[r].env = e /\ sync'[r].todo = sync[r].todo
             /\ sync'[r].dead = sync[r].dead \cup {p}
             /\ sync[r].at # "secrets" =>
                  /\ sync'[r].secrets = sync[r].secrets /\ sync'[r].cur = sync[r].cur
                  /\ sync'[r].ok = sync[r].ok
                  /\ sync'[r].doomed = sync[r].doomed /\ sync'[r].gone = sync[r].gone
  <2>1. sync'[r] = S!Widowed(sync[r], p)
    BY <1>3, <1>4
  <2> QED
    BY <2>1, <1>4, WidowedFits DEF SyncInv
<1>5. ASSUME NEW r \in Req, ~Past(r) \/ sync[r].env # e PROVE sync'[r] = sync[r]
  BY <1>3, <1>5
<1>6. sync' \in [Req -> S!Sync]
  <2>1. \A r \in Req : sync'[r] \in S!Sync
    BY <1>4, <1>5 DEF SyncInv, S!TypeOK
  <2>2. DOMAIN sync' = Req /\ sync' = [r \in Req |-> sync'[r]]
    BY <1>1
  <2> QED
    BY <2>1, <2>2
<1> QED
  BY <1>1, <1>2, <1>4, <1>5, <1>6

LEMMA RowGoesFits ==
    ASSUME SyncInv, NEW e \in Env, NEW p \in S!Platform, S!DeleteTarget(e, p)
    PROVE  SyncInv'
<1>1. /\ remote' = remote /\ secret' = secret
      /\ target' \in [Env -> [S!Platform -> S!Target \cup {None}]]
      /\ target'[e][p] = None
      /\ \A d \in Env, q \in S!Platform : d # e \/ q # p => target'[d][q] = target[d][q]
      /\ sync' \in [Req -> S!Sync]
  BY RowGoes
<1>2. S!TypeOK'
  BY <1>1 DEF SyncInv, S!TypeOK
<1>3. \A d \in Env, q \in S!Platform : target'[d][q] # None => target'[d][q].aim.platform = q
  BY <1>1 DEF SyncInv
<1>4. \A id : OursAt(id) => OursAt(id)'
  BY <1>1 DEF OursAt
<1>5. ASSUME NEW r \in Req PROVE SyncFits(r)'
  <2>0. SyncFits(r) /\ (Past(r) => sync[r].env \in Env)
    BY SyncOf DEF SyncInv
  <2>1. CASE Past(r) /\ sync[r].env = e
    <3>1. /\ sync'[r].at = sync[r].at /\ sync'[r].env = e /\ sync'[r].todo = sync[r].todo
          /\ sync'[r].dead = sync[r].dead \cup {p}
          /\ sync[r].at # "secrets" =>
               /\ sync'[r].cur = sync[r].cur
               /\ sync'[r].doomed = sync[r].doomed /\ sync'[r].gone = sync[r].gone
      BY <2>1, RowGoes
    <3>2. \A aim : RowRead(sync[r], aim) => aim \in S!Aim /\
            (aim.platform \in sync'[r].dead \/ target'[e][aim.platform] # None)
      BY <2>1, <3>1, <1>1, AimPlatform DEF RowRead
    <3> QED
      BY <2>0, <3>1, <3>2, <1>4 DEF SyncFits, RowRead, Past, Pushing
  <2>2. CASE Past(r) /\ sync[r].env # e
    <3>1. sync'[r] = sync[r]
      BY <2>2, RowGoes
    <3>2. \A aim : RowRead(sync[r], aim) => aim \in S!Aim /\
            (aim.platform \in sync'[r].dead \/ target'[sync'[r].env][aim.platform] # None)
      BY <2>0, <2>2, <3>1, <1>1, AimPlatform DEF RowRead
    <3> QED
      BY <2>0, <3>1, <3>2, <1>4 DEF SyncFits, RowRead, Past, Pushing
  <2>3. CASE ~Past(r)
    <3>1. sync'[r] = sync[r]
      BY <2>3, RowGoes
    <3> QED
      BY <2>3, <3>1 DEF SyncFits, Past, Pushing
  <2> QED
    BY <2>1, <2>2, <2>3
<1> QED
  BY <1>2, <1>3, <1>5 DEF SyncInv

\* What no synchronisation does.
Outside ==
    \/ \E e \in Env, k \in Key, v \in Value : S!ImportRequest(e, k, v)
    \/ \E id \in S!Id, v \in Value : S!EnterByHand(id, v)
    \/ \E v \in remote : S!RemoveByHand(v)

\* Whoever enters or removes variables by hand touches none with the mark.
LEMMA OutsideFits == ASSUME SyncInv, Outside PROVE SyncInv'
<1>1. sync' = sync /\ target' = target
  BY DEF Outside, S!ImportRequest, S!EnterByHand, S!RemoveByHand
<1>2. secret' \in [Env -> [Key -> S!Secret \cup {None}]]
  <2>1. ASSUME NEW e \in Env, NEW k \in Key, NEW v \in Value, S!ImportRequest(e, k, v)
        PROVE  secret' \in [Env -> [Key -> S!Secret \cup {None}]]
    <3> DEFINE tag == IF secret[e][k] = None THEN FALSE ELSE secret[e][k].tagged
    <3>1. tag \in BOOLEAN
      <4>1. secret[e][k] \in S!Secret \cup {None}
        BY DEF SyncInv, S!TypeOK
      <4>2. CASE secret[e][k] = None
        BY <4>2
      <4>3. CASE secret[e][k] # None
        <5>1. tag = secret[e][k].tagged /\ secret[e][k] \in S!Secret
          BY <4>1, <4>3
        <5> QED
          BY <5>1, Zenon DEF S!Secret
      <4> QED
        BY <4>2, <4>3
    <3>2. secret' = [secret EXCEPT ![e][k] = [value |-> v, tagged |-> tag]]
      BY <2>1 DEF S!ImportRequest
    <3> HIDE DEF tag
    <3>3. [value |-> v, tagged |-> tag] \in S!Secret
      BY <3>1 DEF S!Secret
    <3> QED
      BY <3>2, <3>3, SecretWritten
  <2> QED
    BY <2>1 DEF Outside, S!EnterByHand, S!RemoveByHand, SyncInv, S!TypeOK
<1>3. RemoteKept
  <2>1. ASSUME NEW id \in S!Id, NEW v \in Value, S!EnterByHand(id, v) PROVE RemoteKept
    <3> DEFINE w == [project |-> id[1], key |-> id[2], place |-> id[3], value |-> v, ours |-> FALSE]
    <3>1. id \notin {S!IdOf(u) : u \in remote} /\ remote' = remote \cup {w}
      BY <2>1 DEF S!EnterByHand
    <3>2. w \in S!Variable
      BY DEF S!Id, S!Variable
    <3>3. S!IdOf(w) = id
      BY DEF S!IdOf, S!Id
    <3> HIDE DEF w
    <3>4. \A u \in remote : S!IdOf(u) # S!IdOf(w)
      BY <3>1, <3>3
    <3> QED
      BY <3>1, <3>2, <3>4 DEF RemoteKept, MarksStay, Unique, OursAt, SyncInv, S!TypeOK
  <2>2. ASSUME NEW v \in remote, S!RemoveByHand(v) PROVE RemoteKept
    BY <2>2 DEF S!RemoveByHand, S!Without, RemoteKept, MarksStay, Unique, OursAt, SyncInv,
                S!TypeOK
  <2>3. CASE remote' = remote
    BY <2>3, Quietly
  <2> QED
    BY <2>1, <2>2, <2>3 DEF Outside, S!ImportRequest
<1>4. S!TypeOK'
  BY <1>1, <1>2, <1>3 DEF RemoteKept, Unique, SyncInv, S!TypeOK
<1>5. \A e \in Env, p \in S!Platform : target'[e][p] # None => target'[e][p].aim.platform = p
  BY <1>1 DEF SyncInv
<1> QED
  BY <1>1, <1>3, <1>4, <1>5, SyncKeeps DEF RemoteKept, MarksStay

\* The steps of one synchronisation.
Moves(r) ==
    \/ S!ReadTargets(r) \/ S!ReadSecrets(r)
    \/ \E aim \in S!Aim : S!Upsert(r, aim) \/ S!Replace(r, aim)
    \/ S!List(r) \/ (\E id \in S!Id : S!Delete(r, id)) \/ S!Deleted(r)
    \/ S!Tell(r)

\* The steps of the outbound side, by who makes them.
LEMMA Kinds ==
    S!Next => \/ \E r \in Req, e \in Env : Starts(r, e)
              \/ \E r \in Req : Moves(r) \/ S!Stop(r)
              \/ \E e \in Env, p \in S!Platform : S!DeleteTarget(e, p)
              \/ Outside
  BY DEF S!Next, Starts, Moves, Outside

\* The invariant of the outbound side is inductive.
LEMMA SyncNext == SyncInv /\ S!Next => SyncInv'
<1> SUFFICES ASSUME SyncInv, S!Next PROVE SyncInv'
  OBVIOUS
<1>1. ASSUME NEW r \in Req, Moves(r) PROVE SyncInv'
  BY <1>1, ReadsTargets, ReadsSecrets, UpsertFits, ReplaceFits, ListFits, DeleteFits,
     DeletedFits, TellFits DEF Moves
<1> QED
  BY <1>1, Kinds, StartsFit, StopFits, RowGoesFits, OutsideFits

LEMMA SyncInit == S!Init => SyncInv
<1> SUFFICES ASSUME S!Init PROVE SyncInv
  OBVIOUS
<1>1. S!TypeOK
  BY IsSync DEF S!Init, S!TypeOK
<1> QED
  BY <1>1 DEF S!Init, SyncInv, SyncFits, Past, Pushing, S!Idle

LEMMA SyncAlways == S!Spec => []SyncInv
<1>1. SyncInv /\ [S!Next]_S!vars => SyncInv'
  <2> SUFFICES ASSUME SyncInv, [S!Next]_S!vars PROVE SyncInv'
    OBVIOUS
  <2>1. CASE UNCHANGED S!vars
    <3>1. secret' = secret /\ target' = target /\ remote' = remote /\ sync' = sync
      BY <2>1 DEF S!vars
    <3>2. S!TypeOK'
      BY <3>1 DEF SyncInv, S!TypeOK
    <3> QED
      BY <3>1, <3>2, Quietly, SyncKeeps DEF SyncInv, RemoteKept, MarksStay
  <2> QED
    BY <2>1, SyncNext
<1> QED
  BY SyncInit, <1>1, PTL DEF S!Spec

\* Beside the requests of third parties, and under its regimes, the outbound side is a
\* behaviour of OutboundSync.
LEMMA PushesAreOutbound == MCSpec => S!Spec
<1>1. MCInit => S!Init
  BY DEF MCInit
<1>2. [MCNext]_<<vars, outbound, side, serial>> => [S!Next]_S!vars
  BY DEF MCNext, outbound, S!vars
<1> QED
  BY <1>1, <1>2, PTL DEF MCSpec, S!Spec

-----------------------------------------------------------------------------
(* What is entered by hand.                                                *)

\* What HandMadeIsSpared says of one step.
Spared ==
    \A v \in remote : ~v.ours /\ v.project \in Marked =>
        \E w \in remote' : S!IdOf(w) = S!IdOf(v) /\ (w = v \/ w.ours)

LEMMA MovesSpare ==
    ASSUME SyncInv, NEW r \in Req, Moves(r)
    PROVE  Spared
<1>1. ASSUME NEW aim \in S!Aim, S!Upsert(r, aim) PROVE Spared
  <2> DEFINE new == S!Desired(sync[r].secrets, aim)
  <2>1. remote' \in {remote, S!Upserted(new)}
    BY <1>1 DEF S!Upsert
  <2>2. \A v \in new : v.ours
    BY <1>1, AtNext DEF S!Upsert
  <2> HIDE DEF new
  <2> QED
    BY <2>1, <2>2 DEF Spared, S!Upserted
<1>2. ASSUME NEW aim \in S!Aim, S!Replace(r, aim) PROVE Spared
  <2> DEFINE all == {v \in remote : v.project # aim.project} \cup S!Desired(sync[r].secrets, aim)
  <2>1. remote' \in {remote, all}
    BY <1>2 DEF S!Replace
  <2>2. aim.project \notin Marked
    BY <1>2, AimPlatform, OutboundAssumption DEF S!Replace
  <2> QED
    BY <2>1, <2>2 DEF Spared
<1>3. ASSUME NEW id \in S!Id, S!Delete(r, id) PROVE Spared
  <2>1. CASE remote' = remote
    BY <2>1 DEF Spared
  <2>2. CASE remote' # remote
    <3>1. /\ remote' = S!Without(id) /\ id \in sync[r].doomed \ sync[r].gone
          /\ sync[r].at = "delete"
      BY <1>3, <2>2 DEF S!Delete
    <3>2. OursAt(id)
      BY <3>1 DEF SyncInv, SyncFits
    <3>3. \A v \in remote : S!IdOf(v) = id => v.ours
      BY <3>2 DEF OursAt, SyncInv, S!TypeOK
    <3> QED
      BY <3>1, <3>3 DEF Spared, S!Without
  <2> QED
    BY <2>1, <2>2
<1>4. CASE remote' = remote
  BY <1>4 DEF Spared
<1> QED
  BY <1>1, <1>2, <1>3, <1>4
  DEF Moves, S!ReadTargets, S!ReadSecrets, S!List, S!Deleted, S!Tell

\* On Vercel, whatever synchronisations are in flight, overlap, fail or stop, none of them
\* makes a variable that was entered by hand disappear.
THEOREM HandMadeAlwaysSpared == S!Spec => S!HandMadeIsSpared
<1>1. SyncInv /\ [S!Next]_S!vars => [sync' # sync => Spared]_S!vars
  <2> SUFFICES ASSUME SyncInv, S!Next, sync' # sync PROVE Spared
    BY DEF S!vars
  <2>1. ASSUME remote' = remote PROVE Spared
    BY <2>1 DEF Spared
  <2>2. ASSUME NEW r \in Req, NEW e \in Env, Starts(r, e) PROVE Spared
    BY <2>1, <2>2, StartsFit
  <2>3. ASSUME NEW e \in Env, NEW p \in S!Platform, S!DeleteTarget(e, p) PROVE Spared
    BY <2>1, <2>3, RowGoes
  <2>4. ~Outside
    BY DEF Outside, S!ImportRequest, S!EnterByHand, S!RemoveByHand
  <2>5. ASSUME NEW r \in Req, S!Stop(r) PROVE Spared
    BY <2>1, <2>5 DEF S!Stop
  <2> QED
    BY <2>2, <2>3, <2>4, <2>5, Kinds, MovesSpare
<1>2. S!HandMadeIsSpared <=> [][sync' # sync => Spared]_S!vars
  BY DEF S!HandMadeIsSpared, Spared
<1> QED
  BY <1>1, <1>2, SyncAlways, PTL DEF S!Spec

\* So it is in every regime of the run.
THEOREM HandMadeSpared == MCSpec => HandMadeIsSpared
  BY PushesAreOutbound, HandMadeAlwaysSpared DEF HandMadeIsSpared

-----------------------------------------------------------------------------
(* Synchronisations one at a time.                                         *)

\* A step of the serial regime.
Pushed == S!Next /\ S!Serial /\ S!Unshared /\ PushedInv /\ SyncInv'

\* What the regime gives to a step.
LEMMA SerialGives ==
    ASSUME Pushed
    PROVE  Alone' /\ ProjectsApart' /\ (\A v \in remote' : v.ours) /\ SyncInv /\ SyncInv'
  BY DEF Pushed, S!Serial, S!Unshared, Alone, ProjectsApart, PushedInv

\* A target stays honest when its row, its secrets and its project are not touched.
Untouched(d, p) ==
    /\ target'[d][p] = target[d][p] /\ secret'[d] = secret[d]
    /\ target[d][p] # None => \A v : v.project = target[d][p].aim.project =>
         (v \in remote' <=> v \in remote)

\* A target stays honest while its row, its secrets and its place stay.
LEMMA HonestStays ==
    ASSUME NEW d \in Env, NEW p \in S!Platform, Untouched(d, p), S!Honest(d, p)
    PROVE  S!Honest(d, p)'
<1>1. CASE target'[d][p] # None /\ target'[d][p].status = "success"
  <2> DEFINE aim == target[d][p].aim
  <2>1. target'[d][p] = target[d][p] /\ secret'[d] = secret[d] /\ target[d][p] # None
    BY <1>1 DEF Untouched
  <2>2. {v \in remote' : v.project = aim.project /\ v.place = aim.place /\ v.ours}
          = {v \in remote : v.project = aim.project /\ v.place = aim.place /\ v.ours}
    BY <2>1 DEF Untouched
  <2>3. {v \in remote : v.project = aim.project /\ v.place = aim.place /\ v.ours}
          = S!Desired(secret[d], aim)
    BY <1>1, <2>1 DEF S!Honest
  <2> QED
    BY <2>1, <2>2, <2>3 DEF S!Honest
<1>2. CASE ~(target'[d][p] # None /\ target'[d][p].status = "success")
  BY <1>2 DEF S!Honest
<1> QED
  BY <1>1, <1>2

\* What starts a synchronisation starts the only one.
LEMMA StartsSerially ==
    ASSUME Pushed, NEW r \in Req, NEW e \in Env, Starts(r, e)
    PROVE  PushedInv'
<1>1. /\ sync'[r].at = "targets" /\ sync'[r].env = e /\ sync'[r] # S!Idle /\ sync[r] = S!Idle
      /\ \A q \in Req \ {r} : sync'[q] = sync[q]
      /\ remote' = remote
      /\ \A d \in Env \ {e} : secret'[d] = secret[d] /\ target'[d] = target[d]
  BY SerialGives, StartsFit, Triggered
<1>2. \A q \in Req : sync[q] = S!Idle
  BY <1>1, SerialGives DEF Alone
<1>3. \A d \in Env, p \in S!Platform : S!Honest(d, p)
  BY <1>2 DEF Pushed, PushedInv
<1>4. \A d \in Env, p \in S!Platform :
        (\A q \in Req : sync'[q] # S!Idle => sync'[q].env # d) => S!Honest(d, p)'
  <2> SUFFICES ASSUME NEW d \in Env, NEW p \in S!Platform, d # e PROVE S!Honest(d, p)'
    BY <1>1
  <2>1. Untouched(d, p)
    BY <1>1 DEF Untouched
  <2> QED
    BY <2>1, <1>3, HonestStays
<1>5. \A q \in Req : ~Past(q)'
  BY <1>1, <1>2 DEF Past, S!Idle
<1> QED
  BY <1>4, <1>5, SerialGives DEF PushedInv

\* What no synchronisation does waits until none is in flight, and changes nothing then.
LEMMA OutsideSerially ==
    ASSUME Pushed, Outside
    PROVE  PushedInv'
<1>1. /\ sync' = sync /\ target' = target /\ secret' = secret
      /\ \A r \in Req : sync[r] = S!Idle
  BY DEF Outside, S!ImportRequest, S!EnterByHand, S!RemoveByHand, Pushed, S!Serial
<1>2. remote' = remote
  <2>1. ASSUME NEW id \in S!Id, NEW v \in Value, S!EnterByHand(id, v) PROVE FALSE
    <3>1. [project |-> id[1], key |-> id[2], place |-> id[3], value |-> v, ours |-> FALSE]
            \in remote'
      BY <2>1 DEF S!EnterByHand
    <3>2. \A w \in remote' : w.ours
      BY SerialGives
    <3> QED
      BY <3>1, <3>2
  <2>2. ASSUME NEW v \in remote, S!RemoveByHand(v) PROVE FALSE
    BY <2>2 DEF S!RemoveByHand, Pushed, PushedInv
  <2> QED
    BY <2>1, <2>2 DEF Outside, S!ImportRequest
<1>3. \A d \in Env, p \in S!Platform : S!Honest(d, p)
  BY <1>1 DEF Pushed, PushedInv
<1>4. \A d \in Env, p \in S!Platform : S!Honest(d, p)'
  BY <1>1, <1>2, <1>3 DEF S!Honest
<1>5. \A q \in Req : ~Past(q)'
  BY <1>1 DEF Past, S!Idle
<1> QED
  BY <1>4, <1>5, SerialGives DEF PushedInv

\* A row that goes takes its aim away from whoever is under way.
LEMMA RowGoesSerially ==
    ASSUME Pushed, NEW e \in Env, NEW p \in S!Platform, S!DeleteTarget(e, p)
    PROVE  PushedInv'
<1>1. /\ remote' = remote /\ secret' = secret /\ target'[e][p] = None
      /\ \A d \in Env, q \in S!Platform : d # e \/ q # p => target'[d][q] = target[d][q]
  BY SerialGives, RowGoes
<1>2. ASSUME NEW r \in Req
      PROVE  /\ (sync'[r] # S!Idle <=> sync[r] # S!Idle) /\ (Past(r)' <=> Past(r))
             /\ sync[r] # S!Idle => sync'[r].env = sync[r].env
             /\ Past(r) =>
                  /\ sync'[r].at = sync[r].at /\ sync'[r].todo = sync[r].todo
                  /\ \A q \in sync'[r].dead : q \in sync[r].dead \/ (sync[r].env = e /\ q = p)
                  /\ sync[r].at # "secrets" =>
                       /\ sync'[r].secrets = sync[r].secrets /\ sync'[r].cur = sync[r].cur
                       /\ sync'[r].ok = sync[r].ok /\ sync'[r].doomed = sync[r].doomed
  <2>1. CASE ~Past(r) \/ sync[r].env # e
    <3>1. sync'[r] = sync[r]
      BY <2>1, SerialGives, RowGoes
    <3> QED
      BY <3>1 DEF Past
  <2>2. CASE Past(r) /\ sync[r].env = e
    BY <2>2, SerialGives, RowGoes DEF Past, S!Idle
  <2> QED
    BY <2>1, <2>2
<1>3. ASSUME NEW d \in Env, NEW q \in S!Platform, S!Honest(d, q) PROVE S!Honest(d, q)'
  <2>1. CASE d = e /\ q = p
    BY <2>1, <1>1 DEF S!Honest
  <2>2. CASE d # e \/ q # p
    BY <2>2, <1>1, <1>3, HonestStays DEF Untouched
  <2> QED
    BY <2>1, <2>2
<1>4. \A d \in Env, q \in S!Platform :
        (\A r \in Req : sync'[r] # S!Idle => sync'[r].env # d) => S!Honest(d, q)'
  BY <1>2, <1>3 DEF Pushed, PushedInv
<1>5. ASSUME NEW r \in Req, Past(r)' PROVE Underway(r)'
  <2>1. Past(r) /\ Underway(r) /\ sync[r].env \in Env /\ sync[r].dead \subseteq S!Platform
        /\ sync'[r].env = sync[r].env /\ sync[r].todo \subseteq S!Aim
    BY <1>2, <1>5, SyncOf, SerialGives DEF Pushed, PushedInv, SyncInv
  <2>2. \A q \in sync'[r].dead : target'[sync'[r].env][q] = None
    BY <2>1, <1>1, <1>2 DEF Underway
  <2>3. Aims(r)' = Aims(r)
    BY <2>1, <1>2 DEF Aims, Pushing
  <2>a. Aims(r) \subseteq S!Aim
    BY <2>1, AtPush, SerialGives DEF Aims
  <2>4. \A aim \in Aims(r) :
          /\ target'[sync'[r].env][aim.platform] # None =>
               target'[sync'[r].env][aim.platform].aim = aim
          /\ \A d \in Env \ {sync'[r].env}, q \in S!Platform : target'[d][q] # None =>
               target'[d][q].aim.project # aim.project
    BY <2>1, <2>a, <1>1, AimPlatform DEF Underway, AimHolds
  <2>5. sync'[r].at # "secrets" => sync'[r].secrets = secret'[sync'[r].env] /\ Stage(r)'
    BY <2>1, <1>1, <1>2 DEF Underway, Stage, Wanted, Of
  <2>6. \A q \in S!Platform : target'[sync'[r].env][q] # None =>
          \/ target'[sync'[r].env][q].aim \in Aims(r)
          \/ sync'[r].at # "secrets" /\ S!Honest(sync[r].env, q)'
    BY <2>1, <1>1, <1>2, <1>3 DEF Underway
  <2> QED
    BY <2>1, <2>2, <2>3, <2>4, <2>5, <2>6 DEF Underway, AimHolds, S!Honest
<1> QED
  BY <1>4, <1>5, SerialGives DEF PushedInv

\* Aims of two platforms are of two projects.
LEMMA PlatformsApart ==
    \A a, b \in S!Aim : a.platform # b.platform => a.project # b.project
  BY AimPlatform, OutboundAssumption DEF S!Platform

\* What a synchronisation does concerns the rows of its environment e and what is of no
\* other's projects: the others stay honest.
LEMMA MovesSerially ==
    ASSUME Pushed, NEW r \in Req, sync[r] # S!Idle, NEW e \in Env, e = sync[r].env,
           \A q \in Req \ {r} : sync'[q] = sync[q],
           secret' = secret,
           \A d \in Env \ {e} : target'[d] = target[d],
           \A d \in Env \ {e}, p \in S!Platform : target[d][p] # None =>
             \A v : v.project = target[d][p].aim.project => (v \in remote' <=> v \in remote),
           \/ sync'[r] = S!Idle /\ \A p \in S!Platform : S!Honest(e, p)'
           \/ sync'[r].env = e /\ sync'[r] # S!Idle /\ (Past(r)' => Underway(r)')
    PROVE  PushedInv'
<1>1. \A q \in Req \ {r} : sync'[q] = S!Idle /\ sync[q] = S!Idle
  BY DEF Pushed, PushedInv, Alone
<1>2. ASSUME NEW d \in Env, d # e, NEW p \in S!Platform PROVE S!Honest(d, p)'
  <2>1. S!Honest(d, p)
    BY <1>1, <1>2 DEF Pushed, PushedInv
  <2>2. Untouched(d, p)
    BY <1>2 DEF Untouched
  <2> QED
    BY <2>1, <2>2, HonestStays
<1>3. \A d \in Env, p \in S!Platform :
        (\A q \in Req : sync'[q] # S!Idle => sync'[q].env # d) => S!Honest(d, p)'
  BY <1>2
<1>4. \A q \in Req : Past(q)' => Underway(q)'
  <2> SUFFICES ASSUME NEW q \in Req, Past(q)' PROVE Underway(q)'
    OBVIOUS
  <2>1. q = r /\ sync'[r] # S!Idle
    BY <1>1 DEF Past, S!Idle
  <2> QED
    BY <2>1
<1> QED
  BY <1>3, <1>4, SerialGives DEF PushedInv

\* In the serial regime, one lemma for each step again.
LEMMA ReadsTargetsSerially ==
    ASSUME Pushed, NEW r \in Req, S!ReadTargets(r)
    PROVE  PushedInv'
<1>0. SyncInv
  BY SerialGives
<1>1. /\ sync[r].at = "targets" /\ sync[r].env \in Env
      /\ secret' = secret /\ target' = target /\ remote' = remote
  BY <1>0, ReadsTargets DEF S!ReadTargets
<1>i. sync[r] # S!Idle
  BY <1>1 DEF S!Idle
<1> PICK e \in Env : e = sync[r].env
  BY <1>1
<1>2. CASE S!TargetsOf(e) = {}
  <2>1. sync' = [sync EXCEPT ![r] = S!Idle]
    BY <1>2, <1>0, ReadsTargets
  <2>2. sync'[r] = S!Idle /\ \A q \in Req \ {r} : sync'[q] = sync[q]
    BY <2>1, <1>0, Moved, IsSync DEF SyncInv
  <2>3. \A p \in S!Platform : S!Honest(e, p)'
    BY <1>1, <1>2 DEF S!Honest, S!TargetsOf
  <2> QED
    BY <1>1, <1>i, <2>2, <2>3, MovesSerially
<1>3. CASE S!TargetsOf(e) # {}
  <2>1. PICK s \in S!Sync : /\ sync' = [sync EXCEPT ![r] = s] /\ s.at = "secrets"
                            /\ s.env = e /\ s.dead = {}
                            /\ s.todo = {target[e][p].aim : p \in S!TargetsOf(e)}
    BY <1>3, <1>0, ReadsTargets
  <2>2. sync'[r] = s /\ \A q \in Req \ {r} : sync'[q] = sync[q]
    BY <2>1, <1>0, Moved DEF SyncInv
  <2>3. Aims(r)' = s.todo
    BY <2>1, <2>2 DEF Aims, Pushing
  <2>4. \A p \in S!Platform : target[e][p] # None => target[e][p].aim \in s.todo
    BY <2>1 DEF S!TargetsOf
  <2>5. ASSUME NEW aim \in s.todo
        PROVE  /\ target[e][aim.platform] # None => target[e][aim.platform].aim = aim
               /\ \A d \in Env \ {e}, p \in S!Platform : target[d][p] # None =>
                    target[d][p].aim.project # aim.project
    <3>1. PICK p \in S!Platform : target[e][p] # None /\ aim = target[e][p].aim
      BY <2>1 DEF S!TargetsOf
    <3>2. aim.platform = p
      BY <3>1, <1>0 DEF SyncInv
    <3> QED
      BY <3>1, <3>2 DEF Pushed, PushedInv, ProjectsApart
  <2>6. Underway(r)'
    BY <1>1, <2>1, <2>2, <2>3, <2>4, <2>5 DEF Underway, AimHolds
  <2> QED
    BY <1>1, <1>i, <2>1, <2>2, <2>6, MovesSerially DEF S!Idle
<1> QED
  BY <1>2, <1>3

LEMMA ReadsSecretsSerially ==
    ASSUME Pushed, NEW r \in Req, S!ReadSecrets(r)
    PROVE  PushedInv'
<1>0. SyncInv
  BY SerialGives
<1>1. /\ sync[r].at = "secrets" /\ sync[r].env \in Env
      /\ secret' = secret /\ target' = target /\ remote' = remote
  BY <1>0, ReadsSecrets DEF S!ReadSecrets
<1>i. sync[r] # S!Idle /\ Past(r) /\ Underway(r)
  BY <1>1 DEF S!Idle, Past, Pushed, PushedInv
<1> PICK e \in Env : e = sync[r].env
  BY <1>1
<1>2. PICK s \in Running : /\ sync' = [sync EXCEPT ![r] = s] /\ s.at = "next" /\ s.env = e
                           /\ s.dead = sync[r].dead /\ s.todo = sync[r].todo
                           /\ s.secrets = secret[s.env]
  BY <1>0, ReadsSecrets
<1>3. sync'[r] = s /\ \A q \in Req \ {r} : sync'[q] = sync[q]
  BY <1>2, <1>0, Moved, IsSync DEF SyncInv
<1>4. Aims(r)' = Aims(r)
  BY <1>1, <1>2, <1>3 DEF Aims, Pushing
<1>5. Stage(r)'
  BY <1>2, <1>3 DEF Stage
<1>6. Underway(r)'
  BY <1>1, <1>i, <1>2, <1>3, <1>4, <1>5 DEF Underway, AimHolds
<1> QED
  BY <1>1, <1>i, <1>2, <1>3, <1>6, MovesSerially DEF S!Idle

\* A push at one of its aims, the last one read: the other rows of the environment, as
\* those of others, are not concerned.
LEMMA PushesSerially ==
    ASSUME Pushed, NEW r \in Req, sync[r] \in Running, NEW aim \in Aims(r),
           \A q \in Req \ {r} : sync'[q] = sync[q],
           sync'[r].at \in {"list", "delete", "status"}, sync'[r].env = sync[r].env,
           sync'[r].dead = sync[r].dead, sync'[r].secrets = sync[r].secrets,
           sync'[r].cur = aim, sync'[r].todo \cup {aim} = Aims(r),
           secret' = secret, target' = target,
           \A v : v.project # aim.project => (v \in remote' <=> v \in remote),
           Stage(r)'
    PROVE  PushedInv'
<1>1. /\ sync[r].env \in Env /\ Past(r) /\ sync[r] # S!Idle /\ sync[r].at # "secrets"
      /\ sync[r].todo \subseteq S!Aim
  BY DEF Running, Past, S!Idle
<1>2. Underway(r) /\ SyncInv
  BY <1>1 DEF Pushed, PushedInv
<1> PICK e \in Env : e = sync[r].env
  BY <1>1
<1>3. Aims(r) \subseteq S!Aim
  BY <1>1, <1>2, AtPush DEF Aims
<1>4. Aims(r)' = Aims(r)
  BY DEF Aims, Pushing
<1>5. AimHolds(r, aim)
  BY <1>2 DEF Underway
<1>6. ASSUME NEW p \in S!Platform, target[e][p] # None, target[e][p].aim \notin Aims(r)
      PROVE  S!Honest(e, p)'
  <2>1. S!Honest(e, p) /\ target[e][p].aim.platform = p /\ target[e][p].aim \in S!Aim
    BY <1>2, <1>6 DEF Underway, SyncInv, S!TypeOK, S!Target
  <2>2. p # aim.platform
    BY <1>5, <1>6 DEF AimHolds
  <2>3. target[e][p].aim.project # aim.project
    BY <2>1, <2>2, <1>3, PlatformsApart
  <2>4. Untouched(e, p)
    BY <2>3 DEF Untouched
  <2> QED
    BY <2>1, <2>4, HonestStays
<1>7. Underway(r)'
  <2>1. \A a \in Aims(r)' : AimHolds(r, a)'
    BY <1>2, <1>4 DEF Underway, AimHolds
  <2>2. \A p \in S!Platform : target'[e][p] # None =>
          target'[e][p].aim \in Aims(r)' \/ S!Honest(e, p)'
    BY <1>4, <1>6
  <2>3. sync'[r].env = e /\ sync'[r].at # "secrets" /\ secret' = secret
    OBVIOUS
  <2>4. (\A p \in sync'[r].dead : target'[e][p] = None) /\ sync'[r].secrets = secret'[e]
    BY <1>1, <1>2 DEF Underway
  <2>5. \A p \in S!Platform : target'[sync'[r].env][p] # None =>
          target'[sync'[r].env][p].aim \in Aims(r)' \/ S!Honest(sync[r].env, p)'
    BY <2>2, <2>3
  <2> QED
    BY <2>1, <2>3, <2>4, <2>5 DEF Underway
<1>8. \A d \in Env \ {e}, p \in S!Platform : target[d][p] # None =>
        \A v : v.project = target[d][p].aim.project => (v \in remote' <=> v \in remote)
  BY <1>5 DEF AimHolds
<1> QED
  BY <1>1, <1>7, <1>8, MovesSerially DEF S!Idle

\* What Onward makes of a synchronisation, of its aims in particular.
LEMMA OnwardAims ==
    ASSUME SyncInv, NEW r \in Req, sync[r] \in Running, NEW aim \in Aims(r),
           Pushing(r) => aim = sync[r].cur,
           NEW at \in {"list", "status"}, NEW ok \in BOOLEAN,
           sync' = [sync EXCEPT ![r] = S!Onward(sync[r], aim, at, ok)]
    PROVE  /\ \A q \in Req \ {r} : sync'[q] = sync[q]
           /\ sync'[r].at = at /\ sync'[r].env = sync[r].env /\ sync'[r].ok = ok
           /\ sync'[r].dead = sync[r].dead /\ sync'[r].secrets = sync[r].secrets
           /\ sync'[r].cur = aim /\ sync'[r].todo \cup {aim} = Aims(r)
<1>1. aim \in S!Aim
  BY AtPush DEF Aims, Running
<1> DEFINE s == S!Onward(sync[r], aim, at, ok)
<1>2. /\ s \in Running /\ s.at = at /\ s.env = sync[r].env /\ s.dead = sync[r].dead
      /\ s.todo = sync[r].todo \ {aim} /\ s.cur = aim /\ s.secrets = sync[r].secrets
      /\ s.ok = ok
  BY <1>1 DEF Running, S!Onward
<1>3. sync' = [sync EXCEPT ![r] = s] /\ sync \in [Req -> S!Sync]
  BY DEF SyncInv, S!TypeOK
<1> HIDE DEF s
<1>4. sync'[r] = s /\ \A q \in Req \ {r} : sync'[q] = sync[q]
  BY <1>3
<1>5. s.todo \cup {aim} = Aims(r)
  BY <1>2 DEF Aims
<1> QED
  BY <1>2, <1>4, <1>5

\* A call that fails says so in the end.
LEMMA FailsSerially ==
    ASSUME Pushed, NEW r \in Req, sync[r] \in Running, NEW aim \in Aims(r),
           Pushing(r) => aim = sync[r].cur, S!Fail(r, aim),
           secret' = secret, target' = target,
           \A v : v.project # aim.project => (v \in remote' <=> v \in remote)
    PROVE  PushedInv'
<1>0. SyncInv
  BY SerialGives
<1>1. /\ \A q \in Req \ {r} : sync'[q] = sync[q]
      /\ sync'[r].at = "status" /\ sync'[r].env = sync[r].env /\ sync'[r].ok = FALSE
      /\ sync'[r].dead = sync[r].dead /\ sync'[r].secrets = sync[r].secrets
      /\ sync'[r].cur = aim /\ sync'[r].todo \cup {aim} = Aims(r)
  BY <1>0, OnwardAims DEF S!Fail
<1>2. Stage(r)'
  BY <1>1 DEF Stage
<1> QED
  BY <1>1, <1>2, PushesSerially

LEMMA UpsertSerially ==
    ASSUME Pushed, NEW r \in Req, NEW aim \in S!Aim, S!Upsert(r, aim)
    PROVE  PushedInv'
<1> DEFINE new == S!Desired(sync[r].secrets, aim)
<1>0. SyncInv /\ S!Next1(r, aim)
  BY SerialGives DEF S!Upsert
<1>1. /\ secret' = secret /\ target' = target
      /\ \/ new = {} /\ S!Step(r, aim, "list") /\ remote' = remote
         \/ S!Step(r, aim, "list") /\ remote' = S!Upserted(new)
         \/ S!Fail(r, aim) /\ remote' \in {remote, S!Upserted(new)}
  BY DEF S!Upsert
<1>2. /\ sync[r] \in Running /\ sync[r].at = "next" /\ aim \in sync[r].todo
      /\ \A v \in new : v.project = aim.project
  BY <1>0, AtNext
<1>3. aim \in Aims(r) /\ ~Pushing(r) /\ sync[r].ok \in BOOLEAN
  BY <1>2 DEF Aims, Pushing, Running
<1> HIDE DEF new
<1>4. \A v : v.project # aim.project => (v \in remote' <=> v \in remote)
  <2>1. \A v : v.project # aim.project => (v \in S!Upserted(new) <=> v \in remote)
    BY <1>2 DEF S!Upserted, S!IdOf
  <2> QED
    BY <1>1, <2>1
<1>5. CASE S!Fail(r, aim)
  BY <1>1, <1>2, <1>3, <1>4, <1>5, FailsSerially
<1>6. CASE S!Step(r, aim, "list") /\ new \subseteq remote'
  <2>1. /\ \A q \in Req \ {r} : sync'[q] = sync[q]
        /\ sync'[r].at = "list" /\ sync'[r].env = sync[r].env
        /\ sync'[r].dead = sync[r].dead /\ sync'[r].secrets = sync[r].secrets
        /\ sync'[r].cur = aim /\ sync'[r].todo \cup {aim} = Aims(r)
    BY <1>0, <1>2, <1>3, <1>6, OnwardAims DEF S!Step
  <2>2. Stage(r)'
    BY <2>1, <1>6 DEF Stage, Wanted, new
  <2> QED
    BY <1>1, <1>2, <1>3, <1>4, <2>1, <2>2, PushesSerially
<1> QED
  BY <1>1, <1>5, <1>6 DEF S!Upserted

LEMMA ReplaceSerially ==
    ASSUME Pushed, NEW r \in Req, NEW aim \in S!Aim, S!Replace(r, aim)
    PROVE  PushedInv'
<1> DEFINE new == S!Desired(sync[r].secrets, aim)
           all == {v \in remote : v.project # aim.project} \cup new
<1>0. SyncInv /\ S!Next1(r, aim)
  BY SerialGives DEF S!Replace
<1>1. /\ secret' = secret /\ target' = target
      /\ \/ S!Step(r, aim, "status") /\ remote' = all
         \/ S!Fail(r, aim) /\ remote' \in {remote, all}
  BY DEF S!Replace
<1>2. /\ sync[r] \in Running /\ sync[r].at = "next" /\ aim \in sync[r].todo
      /\ \A v \in new : v.ours /\ v.project = aim.project /\ v.place = aim.place
  BY <1>0, AtNext
<1>3. aim \in Aims(r) /\ ~Pushing(r) /\ sync[r].ok \in BOOLEAN
  BY <1>2 DEF Aims, Pushing, Running
<1> HIDE DEF new
<1>4. \A v : v.project # aim.project => (v \in remote' <=> v \in remote)
  BY <1>1, <1>2
<1>5. CASE S!Fail(r, aim)
  BY <1>1, <1>2, <1>3, <1>4, <1>5, FailsSerially
<1>6. CASE S!Step(r, aim, "status") /\ remote' = all
  <2>1. /\ \A q \in Req \ {r} : sync'[q] = sync[q]
        /\ sync'[r].at = "status" /\ sync'[r].env = sync[r].env
        /\ sync'[r].dead = sync[r].dead /\ sync'[r].secrets = sync[r].secrets
        /\ sync'[r].cur = aim /\ sync'[r].todo \cup {aim} = Aims(r)
    BY <1>0, <1>2, <1>3, <1>6, OnwardAims DEF S!Step
  <2>2. {v \in remote' : v.project = aim.project /\ v.place = aim.place /\ v.ours} = new
    BY <1>2, <1>6
  <2>3. Stage(r)'
    BY <2>1, <2>2 DEF Stage, Wanted, Of, new
  <2> QED
    BY <1>1, <1>2, <1>3, <1>4, <2>1, <2>3, PushesSerially
<1> QED
  BY <1>1, <1>5, <1>6

\* While it pushes, a synchronisation is past its readings and at one of its aims.
LEMMA WhilePushing ==
    ASSUME Pushed, NEW r \in Req, Pushing(r)
    PROVE  /\ SyncInv /\ sync[r] \in Running /\ sync[r].cur \in Aims(r)
           /\ sync[r].cur \in S!Aim /\ sync[r].todo \cup {sync[r].cur} = Aims(r)
           /\ Stage(r) /\ Underway(r)
           /\ Wanted(r) \subseteq S!Variable
           /\ \A v \in Wanted(r) : v.ours /\ v.project = sync[r].cur.project
                                          /\ v.place = sync[r].cur.place
           /\ \A v, w \in remote : S!IdOf(v) = S!IdOf(w) => v = w
<1>1. SyncInv /\ Past(r) /\ sync[r].at # "secrets"
  BY SerialGives DEF Pushing, Past
<1>2. Underway(r)
  BY <1>1 DEF Pushed, PushedInv
<1>3. Stage(r)
  BY <1>1, <1>2 DEF Underway
<1>4. sync[r].cur \in Aims(r) /\ sync[r].todo \cup {sync[r].cur} = Aims(r)
  BY DEF Aims
<1>5. \A v, w \in remote : S!IdOf(v) = S!IdOf(w) => v = w
  BY <1>1 DEF SyncInv, S!TypeOK
<1> QED
  BY <1>1, <1>2, <1>3, <1>4, <1>5, AtPush DEF Wanted

LEMMA ListSerially ==
    ASSUME Pushed, NEW r \in Req, S!List(r)
    PROVE  PushedInv'
<1>1. /\ sync[r].at = "list" /\ Pushing(r) /\ secret' = secret /\ target' = target
      /\ remote' = remote
  BY DEF S!List, Pushing
<1>2. /\ SyncInv /\ sync[r] \in Running /\ sync[r].cur \in Aims(r)
      /\ sync[r].todo \cup {sync[r].cur} = Aims(r) /\ Stage(r)
      /\ \A v \in Wanted(r) : v.ours /\ v.project = sync[r].cur.project
                                     /\ v.place = sync[r].cur.place
      /\ \A v, w \in remote : S!IdOf(v) = S!IdOf(w) => v = w
  BY <1>1, WhilePushing
<1>3. CASE S!Fail(r, sync[r].cur)
  BY <1>1, <1>2, <1>3, FailsSerially
<1> DEFINE ids == {S!IdOf(v) : v \in S!Doomed(r)}
           s == [sync[r] EXCEPT !.at = "delete", !.doomed = ids]
<1>4. CASE sync' = [sync EXCEPT ![r] = s]
  <2>1. \A v \in S!Doomed(r) : /\ v \in remote /\ v.project = sync[r].cur.project
                               /\ \A w \in Wanted(r) : v.key # w.key
    BY DEF S!Doomed, S!Keys, Wanted
  <2>2. \A v \in remote : v.project = sync[r].cur.project /\ v.ours
          /\ (\A w \in Wanted(r) : v.key # w.key) => v \in S!Doomed(r)
    BY DEF S!Doomed, S!Keys, Wanted
  <2>3. Wanted(r) \subseteq remote
    BY <1>1, <1>2 DEF Stage
  <2>4. \A v \in Of(sync[r].cur) \ Wanted(r) : S!IdOf(v) \in ids
    <3> SUFFICES ASSUME NEW v \in Of(sync[r].cur), v \notin Wanted(r) PROVE S!IdOf(v) \in ids
      OBVIOUS
    <3>1. /\ v \in remote /\ v.project = sync[r].cur.project /\ v.ours
          /\ v.place = sync[r].cur.place
      BY DEF Of
    <3>2. ASSUME NEW w \in Wanted(r), v.key = w.key PROVE FALSE
      <4>1. S!IdOf(v) = S!IdOf(w)
        BY <1>2, <3>1, <3>2 DEF S!IdOf
      <4>2. v = w
        BY <4>1, <1>2, <2>3, <3>1
      <4> QED
        BY <4>2
    <3> QED
      BY <2>2, <3>1, <3>2
  <2>5. \A v \in Wanted(r) : S!IdOf(v) \notin ids
    BY <2>1 DEF S!IdOf
  <2>6. \A id \in ids : id[1] = sync[r].cur.project
    BY <2>1 DEF S!IdOf
  <2> HIDE DEF ids
  <2>7. /\ s.at = "delete" /\ s.env = sync[r].env /\ s.dead = sync[r].dead
        /\ s.todo = sync[r].todo /\ s.cur = sync[r].cur /\ s.secrets = sync[r].secrets
        /\ s.doomed = ids
    BY <1>2 DEF Running
  <2> HIDE DEF s
  <2>8. sync'[r] = s /\ \A q \in Req \ {r} : sync'[q] = sync[q]
    BY <1>2, <1>4 DEF SyncInv, S!TypeOK
  <2>9. Stage(r)'
    BY <1>1, <2>3, <2>4, <2>5, <2>6, <2>7, <2>8 DEF Stage, Wanted, Of
  <2> QED
    BY <1>1, <1>2, <2>7, <2>8, <2>9, PushesSerially
<1> QED
  BY <1>3, <1>4 DEF S!List

LEMMA DeleteSerially ==
    ASSUME Pushed, NEW r \in Req, NEW id \in S!Id, S!Delete(r, id)
    PROVE  PushedInv'
<1>1. /\ sync[r].at = "delete" /\ id \in sync[r].doomed /\ Pushing(r)
      /\ secret' = secret /\ target' = target
  BY DEF S!Delete, Pushing
<1>2. /\ SyncInv /\ sync[r] \in Running /\ sync[r].cur \in Aims(r)
      /\ sync[r].todo \cup {sync[r].cur} = Aims(r) /\ Stage(r)
  BY <1>1, WhilePushing
<1>3. id[1] = sync[r].cur.project /\ \A v \in Wanted(r) : S!IdOf(v) # id
  BY <1>1, <1>2 DEF Stage
<1>4. \A v : v.project # sync[r].cur.project => (v \in remote' <=> v \in remote)
  <2>1. \A v : S!IdOf(v) = id => v.project = sync[r].cur.project
    BY <1>3 DEF S!IdOf
  <2> QED
    BY <2>1 DEF S!Delete, S!Without
<1>5. CASE S!Fail(r, sync[r].cur)
  BY <1>1, <1>2, <1>4, <1>5, FailsSerially
<1>6. CASE ~S!Fail(r, sync[r].cur)
  <2>1. /\ remote' = S!Without(id)
        /\ sync'[r].doomed = sync[r].doomed \ {id}
        /\ sync'[r].at = sync[r].at /\ sync'[r].env = sync[r].env
        /\ sync'[r].dead = sync[r].dead /\ sync'[r].todo = sync[r].todo
        /\ sync'[r].cur = sync[r].cur /\ sync'[r].secrets = sync[r].secrets
    <3>1. sync'[r].at # "idle" /\ Past(r) /\ sync[r].at # "secrets"
      BY <1>1, <1>2, <1>6, Deletes DEF Past
    <3> QED
      BY <3>1, <1>2, <1>6, Deletes
  <2>2. ASSUME NEW q \in Req, q # r PROVE sync'[q] = sync[q]
    <3>1. sync[q] = S!Idle
      BY <1>1, <2>2 DEF Pushed, PushedInv, Alone, S!Idle
    <3>2. sync' = [x \in Req |-> IF x = r THEN [sync[r] EXCEPT !.doomed = sync[r].doomed \ {id}]
                                 ELSE S!Told(sync[x], id)]
      BY <1>6 DEF S!Delete
    <3> QED
      BY <2>2, <3>1, <3>2 DEF S!Told, S!Idle
  <2>3. Stage(r)'
    <3>1. Wanted(r)' = Wanted(r)
      BY <2>1 DEF Wanted
    <3>2. Wanted(r) \subseteq remote'
      BY <1>1, <1>2, <1>3, <2>1 DEF Stage, S!Without
    <3>3. \A v \in Of(sync[r].cur)' : v \in Of(sync[r].cur) /\ S!IdOf(v) # id
      BY <2>1 DEF Of, S!Without
    <3>4. \A v \in Of(sync[r].cur)' \ Wanted(r) : S!IdOf(v) \in sync'[r].doomed
      BY <1>1, <1>2, <2>1, <3>3 DEF Stage
    <3>5. /\ \A v \in Wanted(r) : S!IdOf(v) \notin sync'[r].doomed
          /\ \A i \in sync'[r].doomed : i[1] = sync'[r].cur.project
      BY <1>1, <1>2, <2>1 DEF Stage
    <3> QED
      BY <1>1, <2>1, <3>1, <3>2, <3>4, <3>5 DEF Stage, Of
  <2> QED
    BY <1>1, <1>2, <1>4, <2>1, <2>2, <2>3, PushesSerially
<1> QED
  BY <1>5, <1>6

LEMMA DeletedSerially ==
    ASSUME Pushed, NEW r \in Req, S!Deleted(r)
    PROVE  PushedInv'
<1>1. /\ sync[r].at = "delete" /\ Pushing(r) /\ secret' = secret /\ target' = target
      /\ remote' = remote /\ sync[r].doomed = {} /\ S!Step(r, sync[r].cur, "status")
  BY DEF S!Deleted, Pushing
<1>2. /\ SyncInv /\ sync[r] \in Running /\ sync[r].cur \in Aims(r) /\ Stage(r)
      /\ \A v \in Wanted(r) : v.ours /\ v.project = sync[r].cur.project
                                     /\ v.place = sync[r].cur.place
  BY <1>1, WhilePushing
<1>3. Of(sync[r].cur) = Wanted(r)
  BY <1>1, <1>2 DEF Stage, Of
<1>4. /\ \A q \in Req \ {r} : sync'[q] = sync[q]
      /\ sync'[r].at = "status" /\ sync'[r].env = sync[r].env
      /\ sync'[r].dead = sync[r].dead /\ sync'[r].secrets = sync[r].secrets
      /\ sync'[r].cur = sync[r].cur /\ sync'[r].todo \cup {sync[r].cur} = Aims(r)
  <2>1. sync[r].ok \in BOOLEAN
    BY <1>2 DEF Running
  <2>2. sync' = [sync EXCEPT ![r] = S!Onward(sync[r], sync[r].cur, "status", sync[r].ok)]
    BY <1>1 DEF S!Step
  <2>3. PICK aim \in Aims(r) : aim = sync[r].cur
    BY <1>2
  <2> QED
    BY <1>2, <2>1, <2>2, <2>3, OnwardAims
<1>5. Stage(r)'
  BY <1>1, <1>3, <1>4 DEF Stage, Wanted, Of
<1> QED
  BY <1>1, <1>2, <1>4, <1>5, PushesSerially

LEMMA TellSerially ==
    ASSUME Pushed, NEW r \in Req, S!Tell(r)
    PROVE  PushedInv'
<1>1. /\ sync[r].at = "status" /\ sync[r] \in Running /\ sync[r].cur \in S!Aim
      /\ remote' = remote /\ secret' = secret /\ Pushing(r)
  BY SerialGives, Tells DEF Pushing
<1>2. SyncInv /\ Underway(r) /\ Stage(r) /\ sync[r].cur \in Aims(r)
      /\ sync[r].todo \cup {sync[r].cur} = Aims(r)
  BY <1>1, WhilePushing
<1>3. sync[r].env \in Env /\ sync[r].cur.platform \in S!Platform /\ sync[r].todo \subseteq S!Aim
  BY <1>1, AimPlatform DEF Running
<1> PICK e \in Env : e = sync[r].env
  BY <1>3
<1> PICK p \in S!Platform : p = sync[r].cur.platform
  BY <1>3
<1>4. PICK s \in S!Sync :
        /\ sync' = [sync EXCEPT ![r] = s]
        /\ sync[r].todo = {} => s = S!Idle
        /\ sync[r].todo # {} =>
             /\ s.at = "next" /\ s.env = sync[r].env /\ s.dead = sync[r].dead
             /\ s.todo = sync[r].todo /\ s.secrets = sync[r].secrets
  BY <1>2, Tells
<1>5. sync'[r] = s /\ \A q \in Req \ {r} : sync'[q] = sync[q]
  BY <1>2, <1>4, Moved DEF SyncInv
\* What is told is the aim that was pushed, and what it desired is what is secret.
<1>6. /\ \A d \in Env, q \in S!Platform : d # e \/ q # p => target'[d][q] = target[d][q]
      /\ \A d \in Env \ {e} : target'[d] = target[d]
      /\ target'[e][p] # None => /\ target[e][p] # None
                                 /\ target'[e][p].aim = target[e][p].aim
                                 /\ target'[e][p].status = "success" => sync[r].ok
  <2>1. CASE p \in sync[r].dead
    <3>1. target' = target /\ target[e][p] = None
      BY <2>1, <1>2, Tells DEF Underway
    <3> QED
      BY <3>1
  <2>2. CASE p \notin sync[r].dead
    <3>0. sync[r].cur.platform \notin sync[r].dead
      BY <2>2
    <3>a. PICK row \in S!Target :
            /\ target' = [target EXCEPT ![sync[r].env][sync[r].cur.platform] = row]
            /\ row.aim = target[sync[r].env][sync[r].cur.platform].aim
            /\ row.aim.platform = sync[r].cur.platform
            /\ row.status = "success" => sync[r].ok
            /\ target[sync[r].env][sync[r].cur.platform] # None
      BY <3>0, <1>2, Tells, Zenon
    <3>1. target' = [target EXCEPT ![e][p] = row] /\ row.aim.platform = p
      BY <3>a, Zenon
    <3>4. row.aim = target[e][p].aim /\ target[e][p] # None
      BY <3>a, Zenon
    <3>5. row.status = "success" => sync[r].ok
      BY <3>a, Zenon
    <3> HIDE <3>a
    <3>2. /\ target'[e][p] = row
          /\ \A d \in Env, q \in S!Platform : d # e \/ q # p => target'[d][q] = target[d][q]
      <4>1. target \in [Env -> [S!Platform -> S!Target \cup {None}]]
        BY <1>2 DEF SyncInv, S!TypeOK
      <4> QED
        BY <4>1, <3>1, <1>2
    <3>3. \A d \in Env \ {e} : target'[d] = target[d]
      BY <3>1, <1>2 DEF SyncInv, S!TypeOK
    <3>6. target'[e][p].status = "success" => sync[r].ok
      BY <3>2, <3>5
    <3> QED
      BY <3>2, <3>3, <3>4, <3>6
  <2> QED
    BY <2>1, <2>2
<1>7. S!Honest(e, p)'
  <2> SUFFICES ASSUME target'[e][p] # None, target'[e][p].status = "success"
               PROVE  S!Honest(e, p)'
    BY DEF S!Honest
  <2>1. target[e][p] # None /\ target'[e][p].aim = target[e][p].aim /\ sync[r].ok
    BY <1>6
  <2>2. target'[e][p].aim = sync[r].cur
    <3>1. AimHolds(r, sync[r].cur)
      BY <1>2 DEF Underway
    <3> QED
      BY <3>1, <2>1 DEF AimHolds
  <2>3. Of(sync[r].cur) = S!Desired(secret[e], sync[r].cur)
    <3>1. sync[r].secrets = secret[e]
      BY <1>1, <1>2 DEF Underway
    <3> QED
      BY <3>1, <2>1, <1>1, <1>2 DEF Stage, Wanted
  <2> QED
    BY <2>2, <2>3, <1>1 DEF S!Honest, Of
<1>8. ASSUME NEW q \in S!Platform, target'[e][q] # None
      PROVE  target'[e][q].aim \in sync[r].todo \/ S!Honest(e, q)'
  <2>1. CASE q = p
    BY <2>1, <1>7
  <2>2. CASE q # p
    <3>1. target'[e][q] = target[e][q] /\ target[e][q].aim.platform = q
      BY <2>2, <1>2, <1>6, <1>8 DEF SyncInv
    <3>2. target[e][q].aim \in Aims(r) \/ S!Honest(e, q)
      BY <3>1, <1>2, <1>8 DEF Underway
    <3>3. target[e][q].aim # sync[r].cur
      BY <2>2, <3>1
    <3>4. S!Honest(e, q) => S!Honest(e, q)'
      BY <3>1, <1>1, HonestStays DEF Untouched
    <3> QED
      BY <3>1, <3>2, <3>3, <3>4, <1>2
  <2> QED
    BY <2>1, <2>2
<1>9. CASE sync[r].todo = {}
  <2>1. \A q \in S!Platform : S!Honest(e, q)'
    BY <1>8, <1>9 DEF S!Honest
  <2>2. sync'[r] = S!Idle
    BY <1>4, <1>5, <1>9
  <2> QED
    BY <2>1, <2>2, <1>1, <1>5, <1>6, MovesSerially DEF S!Idle
<1>10. CASE sync[r].todo # {}
  <2>1. /\ sync'[r].at = "next" /\ sync'[r].env = e /\ sync'[r].dead = sync[r].dead
        /\ sync'[r].todo = sync[r].todo /\ sync'[r].secrets = sync[r].secrets
    BY <1>4, <1>5, <1>10
  <2>2. Aims(r)' = sync[r].todo
    BY <2>1 DEF Aims, Pushing
  <2>3. \A q \in sync'[r].dead : target'[e][q] = None
    BY <2>1, <1>2, <1>3, <1>6, <1>1 DEF Underway, Running
  <2>4. ASSUME NEW aim \in sync[r].todo PROVE AimHolds(r, aim)'
    <3>1. AimHolds(r, aim) /\ aim.platform \in S!Platform
      BY <1>2, <1>3, AimPlatform DEF Underway
    <3>2. target'[e][aim.platform] # None => target'[e][aim.platform].aim = aim
      BY <3>1, <1>6 DEF AimHolds
    <3>3. \A d \in Env \ {e}, q \in S!Platform : target'[d][q] # None =>
            target'[d][q].aim.project # aim.project
      BY <3>1, <1>6 DEF AimHolds
    <3> QED
      BY <2>1, <3>2, <3>3 DEF AimHolds
  <2>5. sync'[r].secrets = secret'[e] /\ Stage(r)'
    BY <2>1, <1>1, <1>2 DEF Underway, Stage
  <2>6. \A q \in S!Platform : target'[sync'[r].env][q] # None =>
          target'[sync'[r].env][q].aim \in Aims(r)' \/ S!Honest(sync[r].env, q)'
    BY <1>8, <2>1, <2>2
  <2>7. Underway(r)'
    BY <2>1, <2>2, <2>3, <2>4, <2>5, <2>6 DEF Underway
  <2> QED
    BY <2>1, <2>7, <1>1, <1>5, <1>6, MovesSerially DEF S!Idle
<1> QED
  BY <1>9, <1>10

LEMMA PushedNext == Pushed => PushedInv'
<1> SUFFICES ASSUME Pushed PROVE PushedInv'
  OBVIOUS
<1>1. ASSUME NEW r \in Req, Moves(r) PROVE PushedInv'
  BY <1>1, ReadsTargetsSerially, ReadsSecretsSerially, UpsertSerially, ReplaceSerially,
     ListSerially, DeleteSerially, DeletedSerially, TellSerially DEF Moves
<1>2. ASSUME NEW r \in Req, S!Stop(r) PROVE Moves(r)
  BY <1>2 DEF Moves, Pushed, S!Serial, S!Stops
<1> QED
  BY <1>1, <1>2, Kinds, StartsSerially, RowGoesSerially, OutsideSerially DEF Pushed

PushedOk == serial => PushedInv

LEMMA PushedAlways == MCSpec => []PushedOk
<1>1. MCInit => PushedOk
  <2> SUFFICES ASSUME MCInit, SyncInv PROVE PushedInv
    BY SyncInit DEF PushedOk, MCInit
  <2>1. S!Init
    BY DEF MCInit
  <2> QED
    BY <2>1 DEF S!Init, PushedInv, Alone, ProjectsApart, S!Honest, Past, S!Idle
<1>2. SyncInv' /\ PushedOk /\ [MCNext]_<<vars, outbound, side, serial>> => PushedOk'
  <2> SUFFICES ASSUME SyncInv', PushedOk, [MCNext]_<<vars, outbound, side, serial>>, serial'
               PROVE  PushedInv'
    BY DEF PushedOk
  <2>a. serial' = serial
    <3>1. CASE MCNext
      BY <3>1 DEF MCNext
    <3>2. CASE UNCHANGED <<vars, outbound, side, serial>>
      BY <3>2
    <3> QED
      BY <3>1, <3>2
  <2>b. serial
    BY <2>a, Zenon
  <2>0. serial /\ PushedInv
    BY <2>b, Zenon DEF PushedOk
  <2>1. (S!Next /\ S!Serial /\ S!Unshared) \/ UNCHANGED outbound
    <3>1. CASE MCNext
      BY <2>0, <3>1, Zenon DEF MCNext
    <3>2. CASE UNCHANGED <<vars, outbound, side, serial>>
      BY <3>2
    <3> QED
      BY <3>1, <3>2
  <2>2. CASE S!Next /\ S!Serial /\ S!Unshared
    BY <2>0, <2>2, PushedNext DEF Pushed
  <2>3. CASE UNCHANGED outbound
    <3>1. secret' = secret /\ target' = target /\ remote' = remote /\ sync' = sync
      BY <2>3 DEF outbound
    <3>2. Alone' /\ ProjectsApart'
      BY <2>0, <3>1 DEF PushedInv, Alone, ProjectsApart
    <3>3. \A d \in Env, p \in S!Platform : S!Honest(d, p) => S!Honest(d, p)'
      BY <3>1 DEF S!Honest
    <3>4. ASSUME NEW r \in Req, Underway(r) PROVE Underway(r)'
      <4>1. Aims(r)' = Aims(r) /\ Stage(r)' = Stage(r)
        BY <3>1 DEF Aims, Pushing, Stage, Wanted, Of
      <4>2. \A aim : AimHolds(r, aim) => AimHolds(r, aim)'
        BY <3>1 DEF AimHolds
      <4>3. \A p \in S!Platform : S!Honest(sync[r].env, p) => S!Honest(sync[r].env, p)'
        BY <3>1 DEF S!Honest
      <4> QED
        BY <3>1, <3>4, <4>1, <4>2, <4>3 DEF Underway
    <3>5. \A r \in Req : Past(r)' => Past(r)
      BY <3>1 DEF Past
    <3> QED
      BY <2>0, <3>1, <3>2, <3>3, <3>4, <3>5 DEF PushedInv
  <2> QED
    BY <2>1, <2>2, <2>3
<1> QED
  BY <1>1, <1>2, SyncAlways, PushesAreOutbound, PTL DEF MCSpec

\* While synchronisations do not overlap, none stops or is forgotten and no two
\* environments push to one project, once none is in flight every target that says
\* "success" holds the secrets of its environment, all of them and nothing else of Physalis.
THEOREM HonestWhenSerial == MCSpec => []SerialSuccessIsHonest
<1>1. PushedOk => SerialSuccessIsHonest
  BY DEF PushedOk, SerialSuccessIsHonest, S!SuccessIsHonest, PushedInv
<1> QED
  BY <1>1, PushedAlways, PTL
=============================================================================
