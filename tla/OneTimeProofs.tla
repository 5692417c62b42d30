---------------------------- MODULE OneTimeProofs ----------------------------
(***************************************************************************)
(* What is taken once: the authorization of a CLI (DeviceLogin), for any   *)
(* number of accounts, sessions and concurrent polls and any durations,    *)
(* and a one-time share (OneTimeShare), for any number of shares and       *)
(* concurrent requests and any limit of attempts.                          *)
(*                                                                         *)
(* The safety invariants of the first are not inductive: a poll writes     *)
(* what it read some steps ago.  RowsAgree says what a row read earlier    *)
(* still tells of the stored one, and ScopedApproval that an approved AI   *)
(* authorization has its scope and one not yet opened has no user.         *)
(*                                                                         *)
(* DeliveredOnce, GuessesAreBounded and GateGrantsEveryAttempt speak of    *)
(* what requests already past a check will do: Counts ties the stored      *)
(* count to the attempts compared, about to be compared or lost, and       *)
(* Pending says what a request waiting to write or to answer still stands  *)
(* on.                                                                     *)
(***************************************************************************)
EXTENDS DeviceLogin, OneTimeShare, FiniteSetTheorems, TLAPS

-----------------------------------------------------------------------------
(* The authorization of a CLI.                                             *)

\* A snapshot keeps the immutable kind; once it shows a decision, the stored
\* row still shows the same user, and has at most been spent or purged.
RowsAgree ==
    \A p \in Poller : poll[p].busy =>
        LET row == poll[p].row
            stored == device[poll[p].device] IN
        /\ stored.status # "ABSENT"
        /\ row.kind = stored.kind
        /\ row.status \in {"APPROVED", "DENIED"} => stored.status # "PENDING"
        /\ row.status = "APPROVED" =>
             /\ row.user = stored.user
             /\ row.kind = "AI" => row.scoped

ScopedApproval ==
    \A d \in Device :
        /\ device[d].status = "APPROVED" /\ device[d].kind = "AI" => device[d].scoped
        /\ device[d].status = "ABSENT" => device[d].user = NoUser

IInv ==
    /\ TypeOK
    /\ OneSessionPerAuthorization
    /\ SessionFollowsApproval
    /\ RowsAgree
    /\ ScopedApproval

\* The initial state satisfies the inductive invariant.
LEMMA InitIInv == Init => IInv
  BY DeviceLoginAssumption
  DEF Init, IInv, TypeOK, OneSessionPerAuthorization, SessionFollowsApproval,
      RowsAgree, ScopedApproval, Live, DeviceRow, SessionRow, AccountRow, PollState,
      NewDevice, NoSession, NoPoll, Kind, Status

\* Every step preserves types.
LEMMA TypeStep == TypeOK /\ [Next]_vars => TypeOK'
<1> SUFFICES ASSUME TypeOK, [Next]_vars PROVE TypeOK'
  OBVIOUS
<1> USE DeviceLoginAssumption DEF TypeOK
<1>1. ASSUME NEW d \in Device, NEW kind \in Kind, StartDevice(d, kind)
      PROVE  TypeOK'
  <2>1. NewDevice \in DeviceRow
    BY DEF DeviceRow, NewDevice, Status, Kind
  <2>2. now + DeviceTTL \in Nat
    OBVIOUS
  <2>3. [NewDevice EXCEPT !.status = "PENDING", !.kind = kind, !.expires = now + DeviceTTL]
          \in DeviceRow
    BY <2>1, <2>2 DEF DeviceRow, Status
  <2> QED
    BY <1>1, <2>3 DEF StartDevice
<1>2. ASSUME NEW d \in Device, NEW u \in User, NEW approve \in BOOLEAN,
             NEW scope \in BOOLEAN, Decide(d, u, approve, scope)
      PROVE  TypeOK'
  <2>1. device[d] \in DeviceRow
    OBVIOUS
  <2>2. [device[d] EXCEPT
           !.status = IF approve THEN "APPROVED" ELSE "DENIED", !.user = u, !.decided = now,
           !.scoped = approve /\ device[d].kind = "AI" /\ scope] \in DeviceRow
    BY <2>1 DEF DeviceRow, Status
  <2> QED
    BY <1>2, <2>2 DEF Decide
<1>3. ASSUME NEW p \in Poller, PollStep(p)
      PROVE  TypeOK'
  <2>0. poll[p] \in PollState
    OBVIOUS
  <2>1. ASSUME NEW d \in Device, PollRead(p, d) PROVE TypeOK'
    BY <2>1 DEF PollRead, PollState
  <2> DEFINE q == poll[p]
  <2>q. q.busy => q.device \in Device /\ q.row \in DeviceRow /\ q.at \in Nat
    BY <2>0 DEF PollState
  <2>c. ASSUME q.busy PROVE Consume(q.device, q.at) \in [Device -> DeviceRow]
    <3>1. [device[q.device] EXCEPT !.status = "CONSUMED", !.lastPolled = q.at,
             !.polled = TRUE] \in DeviceRow
      BY <2>c, <2>q DEF DeviceRow, Status
    <3> QED
      BY <3>1 DEF Consume
  <2>n. Answer(p) => poll' \in [Poller -> PollState]
    <3>1. NoPoll \in PollState
      BY DEF NoPoll, PollState
    <3> QED
      BY <3>1 DEF Answer
  <2>2. CASE PollAborted(p)
    BY <2>2, <2>n DEF PollAborted
  <2>3. CASE PollSlowDown(p)
    <3>1. q.row.interval + Backoff \in Nat
      BY <2>3, <2>q DEF PollSlowDown, DeviceRow
    <3>2. [device[q.device] EXCEPT !.interval = q.row.interval + Backoff,
             !.lastPolled = q.at] \in DeviceRow
      BY <2>3, <2>q, <3>1 DEF PollSlowDown, DeviceRow
    <3> QED
      BY <2>3, <2>n, <3>2 DEF PollSlowDown
  <2>4. CASE PollPending(p)
    BY <2>4, <2>n, <2>q DEF PollPending, DeviceRow
  <2>5. CASE PollDenied(p)
    BY <2>5, <2>n, <2>c DEF PollDenied
  <2>6. CASE PollTooLate(p)
    BY <2>6, <2>n DEF PollTooLate
  <2>7. CASE PollLeaving(p)
    BY <2>7, <2>n, <2>c DEF PollLeaving
  <2>8. ASSUME NEW s \in Session, PollApproved(p, s) PROVE TypeOK'
    <3>1. device' \in [Device -> DeviceRow]
      BY <2>8, <2>c DEF PollApproved
    <3>2. session' \in [Session -> SessionRow]
      BY <2>8, <2>q DEF PollApproved, DeviceRow, SessionRow
    <3> QED
      BY <2>8, <2>n, <3>1, <3>2 DEF PollApproved
  <2> QED
    BY <1>3, <2>1, <2>2, <2>3, <2>4, <2>5, <2>6, <2>7, <2>8 DEF PollStep
<1>4. ASSUME NEW s \in Session, Logout(s) PROVE TypeOK'
  BY <1>4 DEF Logout, SessionRow
<1>5. ASSUME NEW u \in User, NEW s \in Session, RevokeFromAccount(u, s)
      PROVE  TypeOK'
  BY <1>5 DEF RevokeFromAccount, SessionRow
<1>6. ASSUME NEW u \in User,
             ResetPassword(u) \/ RequestDeletion(u) \/ CancelDeletion(u)
      PROVE  TypeOK'
  BY <1>6 DEF ResetPassword, RequestDeletion, CancelDeletion, AccountRow
<1>7. ASSUME NEW u \in User, DeleteAccount(u) PROVE TypeOK'
  <2>1. \A d \in Device : [device[d] EXCEPT !.status = "PURGED"] \in DeviceRow
    BY DEF DeviceRow, Status
  <2>2. NoSession \in SessionRow
    BY DEF NoSession, SessionRow, Kind
  <2>3. account' \in [User -> AccountRow]
    BY <1>7 DEF DeleteAccount, AccountRow
  <2> QED
    BY <1>7, <2>1, <2>2, <2>3 DEF DeleteAccount
<1>8. CASE Tick
  BY <1>8 DEF Tick
<1>9. CASE UNCHANGED vars
  BY <1>9 DEF vars
<1> QED
  BY <1>1, <1>2, <1>3, <1>4, <1>5, <1>6, <1>7, <1>8, <1>9 DEF Next

\* Type correctness for every value of the constants.
THEOREM TypeCorrect == Spec => []TypeOK
<1>1. Init => TypeOK
  BY InitIInv DEF IInv
<1> QED
  BY <1>1, TypeStep, PTL DEF Spec

-----------------------------------------------------------------------------
\* A live session's authorization is never ABSENT, so a new authorization has
\* no session.
LEMMA NoSessionBeforeStart ==
  ASSUME IInv, NEW d \in Device, device[d].status # "CONSUMED", NEW s \in Session
  PROVE  session[s].device # d
BY DeviceLoginAssumption DEF IInv, SessionFollowsApproval, Live

\* What most steps do: they leave every decision as it is, at most spend a
\* decided authorization, mint nothing, and end polls rather than start them.
Quiet ==
    /\ \A d \in Device :
         /\ device'[d].kind = device[d].kind
         /\ device'[d].user = device[d].user
         /\ device'[d].scoped = device[d].scoped
         /\ device'[d].decided = device[d].decided
         /\ \/ device'[d].status = device[d].status
            \/ /\ device'[d].status = "CONSUMED"
               /\ device[d].status \notin {"ABSENT", "PENDING"}
    /\ \A s \in Session :
         /\ session'[s].device = session[s].device
         /\ session'[s].user = session[s].user
         /\ session'[s].kind = session[s].kind
         /\ session'[s].scoped = session[s].scoped
    /\ \A p \in Poller : poll'[p] = poll[p] \/ ~poll'[p].busy

\* A quiet step preserves the inductive invariant.
LEMMA QuietStep ==
  ASSUME IInv, TypeOK', Quiet
  PROVE  IInv'
<1>1. OneSessionPerAuthorization'
  BY DEF Quiet, IInv, OneSessionPerAuthorization, Live
<1>2. SessionFollowsApproval'
  <2> SUFFICES ASSUME NEW s \in Session, Live(s)'
               PROVE  LET d == session'[s].device IN
                      /\ device'[d].status = "CONSUMED"
                      /\ session'[s].user = device'[d].user
                      /\ session'[s].kind = device'[d].kind
                      /\ (session'[s].kind = "AI" => session'[s].scoped)
    BY DEF SessionFollowsApproval
  <2>1. Live(s) /\ session[s].device \in Device
    BY DEF Quiet, Live, IInv, TypeOK, SessionRow
  <2> QED
    BY <2>1 DEF Quiet, IInv, SessionFollowsApproval
<1>3. RowsAgree'
  <2> SUFFICES ASSUME NEW p \in Poller, poll'[p].busy
               PROVE  /\ device'[poll'[p].device].status # "ABSENT"
                      /\ poll'[p].row.kind = device'[poll'[p].device].kind
                      /\ poll'[p].row.status \in {"APPROVED", "DENIED"} =>
                           device'[poll'[p].device].status # "PENDING"
                      /\ poll'[p].row.status = "APPROVED" =>
                           /\ poll'[p].row.user = device'[poll'[p].device].user
                           /\ poll'[p].row.kind = "AI" => poll'[p].row.scoped
    BY DEF RowsAgree
  <2>1. poll'[p] = poll[p] /\ poll[p].device \in Device
    BY DEF Quiet, IInv, TypeOK, PollState
  <2> QED
    BY <2>1 DEF Quiet, IInv, RowsAgree
<1>4. ScopedApproval'
  BY DEF Quiet, IInv, ScopedApproval
<1> QED
  BY <1>1, <1>2, <1>3, <1>4 DEF IInv

\* A poll that answers without minting is quiet.
LEMMA QuietPoll ==
  ASSUME IInv, NEW p \in Poller,
         \/ PollAborted(p) \/ PollSlowDown(p) \/ PollPending(p)
         \/ PollDenied(p) \/ PollTooLate(p) \/ PollLeaving(p)
  PROVE  Quiet
<1> DEFINE q == poll[p]
<1>t. TypeOK
  BY DEF IInv
<1>q. q.busy /\ q.device \in Device
  BY <1>t DEF PollAborted, PollSlowDown, PollPending, PollDenied, PollTooLate, PollLeaving,
     TypeOK, PollState
<1>1. session' = session
  BY DEF PollAborted, PollSlowDown, PollPending, PollDenied, PollTooLate, PollLeaving
<1>2. \A r \in Poller : poll'[r] = poll[r] \/ ~poll'[r].busy
  BY <1>t DEF PollAborted, PollSlowDown, PollPending, PollDenied, PollTooLate, PollLeaving,
     Answer, NoPoll, TypeOK
<1>3. \A d \in Device :
         /\ device'[d].kind = device[d].kind
         /\ device'[d].user = device[d].user
         /\ device'[d].scoped = device[d].scoped
         /\ device'[d].decided = device[d].decided
         /\ \/ device'[d].status = device[d].status
            \/ /\ device'[d].status = "CONSUMED"
               /\ device[d].status \notin {"ABSENT", "PENDING"}
  <2>d. device \in [Device -> DeviceRow]
    BY <1>t DEF TypeOK
  <2>1. CASE PollAborted(p) \/ PollTooLate(p)
    BY <2>1 DEF PollAborted, PollTooLate
  <2>2. CASE PollSlowDown(p)
    <3>1. device' = [device EXCEPT ![q.device] =
             [device[q.device] EXCEPT !.interval = q.row.interval + Backoff,
                                      !.lastPolled = q.at]]
      BY <2>2 DEF PollSlowDown
    <3> QED
      BY <3>1, <2>d, <1>q DEF DeviceRow
  <2>4. CASE PollPending(p)
    <3>1. device' = [device EXCEPT ![q.device] =
             [device[q.device] EXCEPT !.lastPolled = q.at, !.polled = TRUE]]
      BY <2>4 DEF PollPending
    <3> QED
      BY <3>1, <2>d, <1>q DEF DeviceRow
  <2>3. CASE PollDenied(p) \/ PollLeaving(p)
    <3>1. device' = Consume(q.device, q.at)
      BY <2>3 DEF PollDenied, PollLeaving
    <3>2. device[q.device].status \notin {"ABSENT", "PENDING"}
      BY <2>3, <1>q DEF PollDenied, PollLeaving, IInv, RowsAgree
    <3> QED
      BY <3>1, <3>2, <2>d, <1>q DEF Consume, DeviceRow
  <2> QED
    BY <2>1, <2>2, <2>3, <2>4
<1> QED
  BY <1>1, <1>2, <1>3 DEF Quiet

-----------------------------------------------------------------------------
\* Opening an authorization: it has no session and no poll has seen it.
LEMMA StartStep ==
  ASSUME IInv, TypeOK', NEW d \in Device, NEW kind \in Kind, StartDevice(d, kind)
  PROVE  IInv'
<1>t. TypeOK
  BY DEF IInv
<1>1. /\ device[d].status = "ABSENT"
      /\ device'[d].status = "PENDING"
      /\ \A e \in Device \ {d} : device'[e] = device[e]
      /\ session' = session /\ poll' = poll
  BY <1>t DEF StartDevice, TypeOK, NewDevice
<1>2. \A s \in Session : session[s].device # d
  BY <1>1, NoSessionBeforeStart
<1>3. \A p \in Poller : poll[p].busy => poll[p].device \in Device \ {d}
  BY <1>1, <1>t DEF IInv, RowsAgree, TypeOK, PollState
<1>4. OneSessionPerAuthorization'
  BY <1>1 DEF IInv, OneSessionPerAuthorization, Live
<1>5. SessionFollowsApproval'
  BY <1>1, <1>2, <1>t DEF IInv, SessionFollowsApproval, Live, TypeOK, SessionRow
<1>6. RowsAgree'
  BY <1>1, <1>3 DEF IInv, RowsAgree
<1>7. ScopedApproval'
  BY <1>1 DEF IInv, ScopedApproval
<1> QED
  BY <1>4, <1>5, <1>6, <1>7 DEF IInv

\* A decision: only a PENDING row takes one, so no snapshot showing a decision
\* is contradicted.
LEMMA DecideStep ==
  ASSUME IInv, TypeOK', NEW d \in Device, NEW u \in User, NEW approve \in BOOLEAN,
         NEW scope \in BOOLEAN, Decide(d, u, approve, scope)
  PROVE  IInv'
<1>t. TypeOK
  BY DEF IInv
<1>0. device[d] \in DeviceRow
  BY <1>t DEF TypeOK
<1>1. /\ device[d].status = "PENDING"
      /\ device'[d].status \in {"APPROVED", "DENIED"}
      /\ device'[d].kind = device[d].kind
      /\ \A e \in Device \ {d} : device'[e] = device[e]
      /\ session' = session /\ poll' = poll
  BY <1>t, <1>0 DEF Decide, TypeOK, DeviceRow
<1>2. device'[d].status = "APPROVED" /\ device'[d].kind = "AI" => device'[d].scoped
  <2>1. device' = [device EXCEPT ![d] = [device[d] EXCEPT
                    !.status = IF approve THEN "APPROVED" ELSE "DENIED",
                    !.user = u,
                    !.decided = now,
                    !.scoped = approve /\ device[d].kind = "AI" /\ scope]]
    BY DEF Decide
  <2>2. approve /\ device[d].kind = "AI" => scope
    BY DEF Decide
  <2> QED
    BY <2>1, <2>2, <1>t, <1>0 DEF TypeOK, DeviceRow
<1>3. \A s \in Session : session[s].device # d
  BY <1>1, NoSessionBeforeStart
<1>4. OneSessionPerAuthorization'
  BY <1>1 DEF IInv, OneSessionPerAuthorization, Live
<1>5. SessionFollowsApproval'
  BY <1>1, <1>3, <1>t DEF IInv, SessionFollowsApproval, Live, TypeOK, SessionRow
<1>6. RowsAgree'
  <2> SUFFICES ASSUME NEW p \in Poller, poll[p].busy
               PROVE  /\ device'[poll[p].device].status # "ABSENT"
                      /\ poll[p].row.kind = device'[poll[p].device].kind
                      /\ poll[p].row.status \in {"APPROVED", "DENIED"} =>
                           device'[poll[p].device].status # "PENDING"
                      /\ poll[p].row.status = "APPROVED" =>
                           /\ poll[p].row.user = device'[poll[p].device].user
                           /\ poll[p].row.kind = "AI" => poll[p].row.scoped
    BY <1>1 DEF RowsAgree
  <2>1. poll[p].device \in Device
    BY <1>t DEF TypeOK, PollState
  <2>2. poll[p].device = d => poll[p].row.status \notin {"APPROVED", "DENIED"}
    BY <1>1 DEF IInv, RowsAgree
  <2> QED
    BY <1>1, <2>1, <2>2 DEF IInv, RowsAgree
<1>7. ScopedApproval'
  BY <1>1, <1>2 DEF IInv, ScopedApproval
<1> QED
  BY <1>4, <1>5, <1>6, <1>7 DEF IInv

\* A poll's read takes the row as it stands.
LEMMA ReadStep ==
  ASSUME IInv, TypeOK', NEW p \in Poller, NEW d \in Device, PollRead(p, d)
  PROVE  IInv'
<1>t. TypeOK
  BY DEF IInv
<1>1. /\ device' = device /\ session' = session
      /\ device[d].status \in {"PENDING", "APPROVED", "DENIED"}
      /\ poll'[p] = [busy |-> TRUE, device |-> d, row |-> device[d], at |-> now]
      /\ \A r \in Poller \ {p} : poll'[r] = poll[r]
  BY <1>t DEF PollRead, TypeOK
<1>2. RowsAgree'
  BY <1>1 DEF IInv, RowsAgree, ScopedApproval
<1> QED
  BY <1>1, <1>2 DEF IInv, OneSessionPerAuthorization, SessionFollowsApproval,
     ScopedApproval, Live

\* The step that mints: it needs the row APPROVED as stored, which no live
\* session's row is, and spends it.
LEMMA MintStep ==
  ASSUME IInv, TypeOK', NEW p \in Poller, NEW s \in Session, PollApproved(p, s)
  PROVE  IInv'
<1> DEFINE q == poll[p]
           d == q.device
<1>t. TypeOK
  BY DEF IInv
<1>q. q.busy /\ d \in Device /\ q.row \in DeviceRow
  BY <1>t DEF PollApproved, TypeOK, PollState
<1>1. /\ device[d].status = "APPROVED" /\ q.row.status = "APPROVED"
      /\ ~Live(s)
      /\ device' = Consume(d, q.at)
      /\ \A r \in Poller : poll'[r] = poll[r] \/ ~poll'[r].busy
  BY <1>t DEF PollApproved, Answer, NoPoll, TypeOK
<1>2. /\ device'[d].status = "CONSUMED"
      /\ device'[d].kind = device[d].kind
      /\ device'[d].user = device[d].user
      /\ \A e \in Device \ {d} : device'[e] = device[e]
  BY <1>1, <1>q, <1>t DEF Consume, TypeOK, DeviceRow
<1>3. /\ session'[s].device = d
      /\ session'[s].user = q.row.user
      /\ session'[s].kind = q.row.kind
      /\ session'[s].scoped = q.row.scoped
      /\ \A r \in Session \ {s} : session'[r] = session[r]
  BY <1>t DEF PollApproved, TypeOK
<1>4. \A r \in Session : session[r].device # d
  BY <1>1, <1>q, NoSessionBeforeStart
<1>5. /\ q.row.user = device[d].user
      /\ q.row.kind = device[d].kind
      /\ q.row.kind = "AI" => q.row.scoped
  BY <1>1, <1>q DEF IInv, RowsAgree
<1>6. OneSessionPerAuthorization'
  BY <1>3, <1>4 DEF IInv, OneSessionPerAuthorization, Live
<1>7. SessionFollowsApproval'
  <2> SUFFICES ASSUME NEW r \in Session, Live(r)'
               PROVE  LET e == session'[r].device IN
                      /\ device'[e].status = "CONSUMED"
                      /\ session'[r].user = device'[e].user
                      /\ session'[r].kind = device'[e].kind
                      /\ (session'[r].kind = "AI" => session'[r].scoped)
    BY DEF SessionFollowsApproval
  <2>1. CASE r = s
    BY <2>1, <1>2, <1>3, <1>5
  <2>2. CASE r # s
    <3>1. Live(r) /\ session[r].device \in Device \ {d} /\ session'[r] = session[r]
      BY <2>2, <1>3, <1>4, <1>t DEF Live, TypeOK, SessionRow
    <3> QED
      BY <3>1, <1>2 DEF IInv, SessionFollowsApproval
  <2> QED
    BY <2>1, <2>2
<1>8. RowsAgree'
  <2> SUFFICES ASSUME NEW r \in Poller, poll'[r].busy
               PROVE  /\ device'[poll'[r].device].status # "ABSENT"
                      /\ poll'[r].row.kind = device'[poll'[r].device].kind
                      /\ poll'[r].row.status \in {"APPROVED", "DENIED"} =>
                           device'[poll'[r].device].status # "PENDING"
                      /\ poll'[r].row.status = "APPROVED" =>
                           /\ poll'[r].row.user = device'[poll'[r].device].user
                           /\ poll'[r].row.kind = "AI" => poll'[r].row.scoped
    BY DEF RowsAgree
  <2>1. poll'[r] = poll[r] /\ poll[r].device \in Device
    BY <1>1, <1>t DEF TypeOK, PollState
  <2> QED
    BY <2>1, <1>2 DEF IInv, RowsAgree
<1>9. ScopedApproval'
  BY <1>2 DEF IInv, ScopedApproval
<1> QED
  BY <1>6, <1>7, <1>8, <1>9 DEF IInv

\* Deleting an account purges its authorizations together with its sessions.
LEMMA DeleteStep ==
  ASSUME IInv, TypeOK', NEW u \in User, DeleteAccount(u)
  PROVE  IInv'
<1>t. TypeOK
  BY DEF IInv
<1>1. \A d \in Device :
        /\ device'[d].kind = device[d].kind
        /\ device'[d].user = device[d].user
        /\ device'[d].scoped = device[d].scoped
        /\ device[d].user = u => device'[d].status = "PURGED"
        /\ device[d].user # u => device'[d].status = device[d].status
  BY <1>t DEF DeleteAccount, TypeOK, DeviceRow
<1>2. /\ \A s \in Session :
           IF session[s].user = u THEN session'[s] = NoSession ELSE session'[s] = session[s]
      /\ poll' = poll
  BY <1>t DEF DeleteAccount, TypeOK
<1>3. \A s \in Session : Live(s)' =>
        /\ Live(s) /\ session'[s] = session[s]
        /\ session[s].device \in Device
        /\ device'[session[s].device].status = device[session[s].device].status
  BY <1>1, <1>2, <1>t DEF Live, NoSession, IInv, SessionFollowsApproval, TypeOK, SessionRow
<1>4. OneSessionPerAuthorization'
  BY <1>3 DEF IInv, OneSessionPerAuthorization
<1>5. SessionFollowsApproval'
  BY <1>1, <1>3 DEF IInv, SessionFollowsApproval
<1>6. RowsAgree'
  <2>1. \A p \in Poller : poll[p].busy => poll[p].device \in Device
    BY <1>t DEF TypeOK, PollState
  <2> QED
    BY <1>1, <1>2, <2>1 DEF IInv, RowsAgree
<1>7. ScopedApproval'
  BY <1>1 DEF IInv, ScopedApproval
<1> QED
  BY <1>4, <1>5, <1>6, <1>7 DEF IInv

\* Revocations, account changes and the clock are quiet.
LEMMA QuietRest ==
  ASSUME TypeOK,
         \/ \E s \in Session : Logout(s)
         \/ \E u \in User, s \in Session : RevokeFromAccount(u, s)
         \/ \E u \in User : ResetPassword(u) \/ RequestDeletion(u) \/ CancelDeletion(u)
         \/ Tick
         \/ UNCHANGED vars
  PROVE  Quiet
<1>1. device' = device /\ poll' = poll
  BY DEF Logout, RevokeFromAccount, ResetPassword, RequestDeletion, CancelDeletion, Tick, vars
<1>2. \A s \in Session :
         /\ session'[s].device = session[s].device
         /\ session'[s].user = session[s].user
         /\ session'[s].kind = session[s].kind
         /\ session'[s].scoped = session[s].scoped
  BY DEF TypeOK, SessionRow, Logout, RevokeFromAccount, ResetPassword, RequestDeletion,
     CancelDeletion, Tick, vars
<1> QED
  BY <1>1, <1>2 DEF Quiet

\* Every step preserves the inductive invariant.
LEMMA SafetyStep == IInv /\ [Next]_vars => IInv'
<1> SUFFICES ASSUME IInv, [Next]_vars PROVE IInv'
  OBVIOUS
<1>t. TypeOK
  BY DEF IInv
<1>u. TypeOK'
  BY <1>t, TypeStep
<1>1. ASSUME NEW d \in Device, NEW kind \in Kind, StartDevice(d, kind) PROVE IInv'
  BY <1>1, <1>u, StartStep
<1>2. ASSUME NEW d \in Device, NEW u \in User, NEW approve \in BOOLEAN,
             NEW scope \in BOOLEAN, Decide(d, u, approve, scope)
      PROVE  IInv'
  BY <1>2, <1>u, DecideStep
<1>3. ASSUME NEW p \in Poller, PollStep(p) PROVE IInv'
  <2>1. ASSUME NEW d \in Device, PollRead(p, d) PROVE IInv'
    BY <2>1, <1>u, ReadStep
  <2>2. ASSUME NEW s \in Session, PollApproved(p, s) PROVE IInv'
    BY <2>2, <1>u, MintStep
  <2>3. CASE \/ PollAborted(p) \/ PollSlowDown(p) \/ PollPending(p)
             \/ PollDenied(p) \/ PollTooLate(p) \/ PollLeaving(p)
    BY <2>3, <1>u, QuietPoll, QuietStep
  <2> QED
    BY <1>3, <2>1, <2>2, <2>3 DEF PollStep
<1>4. ASSUME NEW u \in User, DeleteAccount(u) PROVE IInv'
  BY <1>4, <1>u, DeleteStep
<1>5. CASE \/ \E s \in Session : Logout(s)
           \/ \E u \in User, s \in Session : RevokeFromAccount(u, s)
           \/ \E u \in User : ResetPassword(u) \/ RequestDeletion(u) \/ CancelDeletion(u)
           \/ Tick
           \/ UNCHANGED vars
  BY <1>5, <1>t, <1>u, QuietRest, QuietStep
<1> QED
  BY <1>1, <1>2, <1>3, <1>4, <1>5 DEF Next

\* The inductive invariant holds throughout.
LEMMA Inductive == Spec => []IInv
  BY InitIInv, SafetyStep, PTL DEF Spec

\* Any number of concurrent polls of an authorization mint at most one session.
THEOREM MintedOnce == Spec => []OneSessionPerAuthorization
<1>1. IInv => OneSessionPerAuthorization
  BY DEF IInv
<1> QED
  BY <1>1, Inductive, PTL

\* A session belongs to the approver and carries what was approved.
THEOREM MintedForTheApprover == Spec => []SessionFollowsApproval
<1>1. IInv => SessionFollowsApproval
  BY DEF IInv
<1> QED
  BY <1>1, Inductive, PTL

\* No step rewrites a decision.
THEOREM DecidedOnce == Spec => DecisionIsFinal
<1> DEFINE Final ==
      \A d \in Device : device[d].status \notin {"ABSENT", "PENDING"} =>
         /\ device'[d].user = device[d].user
         /\ device'[d].decided = device[d].decided
         /\ device'[d].status = "APPROVED" => device[d].status = "APPROVED"
<1>1. ASSUME IInv, [Next]_vars PROVE [Final]_vars
  <2>t. TypeOK
    BY <1>1 DEF IInv
  <2>1. ASSUME NEW d \in Device, NEW kind \in Kind, StartDevice(d, kind) PROVE Final
    BY <2>1, <2>t DEF StartDevice, TypeOK
  <2>2. ASSUME NEW d \in Device, NEW u \in User, NEW approve \in BOOLEAN,
               NEW scope \in BOOLEAN, Decide(d, u, approve, scope)
        PROVE  Final
    BY <2>2, <2>t DEF Decide, TypeOK
  <2>q. Quiet => Final
    BY DEF Quiet
  <2>3. ASSUME NEW p \in Poller, PollStep(p) PROVE Final
    <3>1. CASE \E d \in Device : PollRead(p, d)
      BY <3>1 DEF PollRead
    <3>2. ASSUME NEW s \in Session, PollApproved(p, s) PROVE Final
      <4>1. poll[p].device \in Device /\ device' = Consume(poll[p].device, poll[p].at)
        BY <3>2, <2>t DEF PollApproved, TypeOK, PollState
      <4> QED
        BY <4>1, <2>t DEF Consume, TypeOK, DeviceRow
    <3>3. CASE \/ PollAborted(p) \/ PollSlowDown(p) \/ PollPending(p)
               \/ PollDenied(p) \/ PollTooLate(p) \/ PollLeaving(p)
      BY <1>1, <3>3, <2>q, QuietPoll
    <3> QED
      BY <2>3, <3>1, <3>2, <3>3 DEF PollStep
  <2>4. ASSUME NEW u \in User, DeleteAccount(u) PROVE Final
    BY <2>4, <2>t DEF DeleteAccount, TypeOK, DeviceRow
  <2>5. CASE \/ \E s \in Session : Logout(s)
             \/ \E u \in User, s \in Session : RevokeFromAccount(u, s)
             \/ \E u \in User : ResetPassword(u) \/ RequestDeletion(u) \/ CancelDeletion(u)
             \/ Tick
             \/ UNCHANGED vars
    BY <2>5, <2>t, <2>q, QuietRest
  <2> QED
    BY <1>1, <2>1, <2>2, <2>3, <2>4, <2>5 DEF Next
<1>2. IInv /\ [Next]_vars => [Final]_vars
  BY <1>1
<1> QED
  BY <1>2, Inductive, PTL DEF Spec, DecisionIsFinal

-----------------------------------------------------------------------------
(* DeviceLogin implements DeviceGrant.                                     *)

\* The initial state maps to the grant's initial state.
LEMMA InitRefines == Init => Grant!Init
<1> SUFFICES ASSUME Init PROVE Grant!Init
  OBVIOUS
<1>1. \A s \in Session, d \in Device : session[s].device # d
  BY DeviceLoginAssumption DEF Init, NoSession
<1> QED
  BY <1>1 DEF Init, NewDevice, PhaseOf, Grant!Init

\* A step that changes neither statuses, users nor sessions is invisible.
LEMMA Invisible ==
  ASSUME \A d \in Device : /\ device'[d].status = device[d].status
                           /\ device'[d].user = device[d].user,
         \A s \in Session : session'[s].device = session[s].device
  PROVE  UNCHANGED Grant!vars
BY DEF Grant!vars

\* Every step maps to a step of the grant or to a stutter.
LEMMA StepRefines == IInv /\ [Next]_vars => [Grant!Next]_(Grant!vars)
<1> SUFFICES ASSUME IInv, [Next]_vars PROVE [Grant!Next]_(Grant!vars)
  OBVIOUS
<1>t. TypeOK
  BY DEF IInv
<1>d. device \in [Device -> DeviceRow] /\ session \in [Session -> SessionRow]
  BY <1>t DEF TypeOK
<1>1. ASSUME NEW d \in Device, NEW kind \in Kind, StartDevice(d, kind)
      PROVE  Grant!Open(d)
  <2>1. /\ device[d].status = "ABSENT" /\ device'[d].status = "PENDING"
        /\ device'[d].user = device[d].user
        /\ \A e \in Device \ {d} : device'[e] = device[e]
        /\ session' = session
    BY <1>1, <1>d DEF StartDevice, NewDevice, IInv, ScopedApproval
  <2> QED
    BY <2>1 DEF PhaseOf, Grant!Open
<1>2. ASSUME NEW d \in Device, NEW u \in User, NEW approve \in BOOLEAN,
             NEW scope \in BOOLEAN, Decide(d, u, approve, scope)
      PROVE  Grant!Rule(d, u, IF approve THEN "granted" ELSE "refused")
  <2>1. /\ device[d].status = "PENDING"
        /\ device'[d].status = IF approve THEN "APPROVED" ELSE "DENIED"
        /\ device'[d].user = u
        /\ \A e \in Device \ {d} : device'[e] = device[e]
        /\ session' = session
    BY <1>2, <1>d DEF Decide, DeviceRow
  <2> QED
    BY <2>1 DEF PhaseOf, Grant!Rule
<1>3. ASSUME NEW p \in Poller, NEW s \in Session, PollApproved(p, s),
             NEW d \in Device, poll[p].device = d
      PROVE  Grant!Mint(d, s)
  <2>1. /\ device[d].status = "APPROVED" /\ device' = Consume(d, poll[p].at)
        /\ ~Live(s)
    BY <1>3, <1>t DEF PollApproved, TypeOK, PollState
  <2>2. /\ device'[d].status = "CONSUMED" /\ device'[d].user = device[d].user
        /\ \A e \in Device \ {d} : device'[e] = device[e]
    BY <2>1, <1>d DEF Consume, DeviceRow
  <2>3. /\ session'[s].device = d
        /\ \A r \in Session \ {s} : session'[r] = session[r]
        /\ \A e \in Device : session[s].device # e
    BY <1>3, <1>d, <2>1, DeviceLoginAssumption DEF PollApproved, Live
  <2>4. \A r \in Session : session[r].device # d
    BY <2>1, NoSessionBeforeStart
  <2>5. [e \in Device |-> {r \in Session : session'[r].device = e}]
          = [[e \in Device |-> {r \in Session : session[r].device = e}] EXCEPT ![d] = {s}]
    <3>1. \A e \in Device \ {d} :
             {r \in Session : session'[r].device = e} = {r \in Session : session[r].device = e}
      BY <2>3
    <3>2. {r \in Session : session'[r].device = d} = {s}
      BY <2>3, <2>4
    <3> QED
      BY <3>1, <3>2, <2>1
  <2> QED
    <3> DEFINE ph(st) == PhaseOf(st)
    <3>1. /\ ph(device[d].status) = "granted" /\ ph(device'[d].status) = "closed"
          /\ \A e \in Device \ {d} : ph(device'[e].status) = ph(device[e].status)
      BY <2>1, <2>2 DEF PhaseOf
    <3> HIDE DEF ph
    <3>2. [e \in Device |-> ph(device'[e].status)]
             = [[e \in Device |-> ph(device[e].status)] EXCEPT ![d] = "closed"]
      BY <3>1, <2>1
    <3>3. [e \in Device |-> device'[e].user] = [e \in Device |-> device[e].user]
      BY <2>1, <2>2
    <3>4. \A e \in Device : s \notin [f \in Device |-> {r \in Session : session[r].device = f}][e]
      BY <2>3
    <3>5. [e \in Device |-> ph(device[e].status)][d] = "granted"
      BY <3>1, <2>1
    <3> QED
      BY <3>2, <3>3, <3>4, <3>5, <2>5 DEF ph, Grant!Mint
<1>4. ASSUME NEW p \in Poller, PollDenied(p) \/ PollLeaving(p)
      PROVE  [Grant!Close(poll[p].device)]_(Grant!vars)
  <2> DEFINE d == poll[p].device
  <2>1. /\ d \in Device /\ device' = Consume(d, poll[p].at) /\ session' = session
        /\ device[d].status \notin {"ABSENT", "PENDING"}
    <3>1. poll[p].busy /\ poll[p].row.status \in {"APPROVED", "DENIED"}
      BY <1>4 DEF PollDenied, PollLeaving
    <3>2. poll[p].device \in Device
      BY <3>1, <1>t DEF TypeOK, PollState
    <3> QED
      BY <1>4, <3>1, <3>2 DEF PollDenied, PollLeaving, IInv, RowsAgree
  <2>2. /\ device'[d].status = "CONSUMED" /\ device'[d].user = device[d].user
        /\ \A e \in Device \ {d} : device'[e] = device[e]
    BY <2>1, <1>d DEF Consume, DeviceRow
  <2>3. CASE device[d].status \in {"APPROVED", "DENIED"}
    BY <2>1, <2>2, <2>3 DEF PhaseOf, Grant!Close
  <2>4. CASE device[d].status \in {"CONSUMED", "PURGED"}
    BY <2>1, <2>2, <2>4 DEF PhaseOf, Grant!vars
  <2> QED
    BY <2>1, <2>3, <2>4, <1>d DEF DeviceRow, Status
<1>5. ASSUME NEW p \in Poller,
             \/ \E d \in Device : PollRead(p, d)
             \/ PollAborted(p) \/ PollSlowDown(p) \/ PollPending(p) \/ PollTooLate(p)
      PROVE  UNCHANGED Grant!vars
  <2>1. session' = session
    BY <1>5 DEF PollRead, PollAborted, PollSlowDown, PollPending, PollTooLate
  <2>2. \A d \in Device : /\ device'[d].status = device[d].status
                          /\ device'[d].user = device[d].user
    <3>1. CASE PollSlowDown(p)
      BY <3>1, <1>d, <1>t DEF PollSlowDown, DeviceRow, TypeOK, PollState
    <3>2. CASE PollPending(p)
      BY <3>2, <1>d, <1>t DEF PollPending, DeviceRow, TypeOK, PollState
    <3> QED
      BY <1>5, <3>1, <3>2 DEF PollRead, PollAborted, PollTooLate
  <2> QED
    BY <2>1, <2>2, Invisible
<1>6. ASSUME NEW u \in User, DeleteAccount(u)
      PROVE  Grant!Forget(u)
  <2>1. \A d \in Device : /\ device'[d].user = device[d].user
                          /\ device[d].user = u => device'[d].status = "PURGED"
                          /\ device[d].user # u => device'[d].status = device[d].status
    BY <1>6, <1>d DEF DeleteAccount, DeviceRow
  <2>2. \A s \in Session :
           IF session[s].user = u THEN session'[s] = NoSession ELSE session'[s] = session[s]
    BY <1>6, <1>d DEF DeleteAccount
  <2>3. \A s \in Session, d \in Device :
           session[s].device = d => session[s].user = device[d].user
    BY DeviceLoginAssumption DEF IInv, SessionFollowsApproval, Live
  <2>4. \A d \in Device : {s \in Session : session'[s].device = d}
           = IF device[d].user = u THEN {} ELSE {s \in Session : session[s].device = d}
    BY <2>2, <2>3, DeviceLoginAssumption DEF NoSession
  <2> QED
    <3> DEFINE ph(st) == PhaseOf(st)
    <3>1. \A d \in Device : ph(device'[d].status)
             = IF device[d].user = u THEN "closed" ELSE ph(device[d].status)
      BY <2>1 DEF PhaseOf
    <3> HIDE DEF ph
    <3>2. [d \in Device |-> ph(device'[d].status)]
             = [d \in Device |-> IF [e \in Device |-> device[e].user][d] = u THEN "closed"
                                 ELSE [e \in Device |-> ph(device[e].status)][d]]
      BY <3>1
    <3>3. [d \in Device |-> {s \in Session : session'[s].device = d}]
             = [d \in Device |-> IF [e \in Device |-> device[e].user][d] = u THEN {}
                  ELSE [e \in Device |-> {s \in Session : session[s].device = e}][d]]
      BY <2>4
    <3>4. [d \in Device |-> device'[d].user] = [d \in Device |-> device[d].user]
      BY <2>1
    <3> QED
      BY <3>2, <3>3, <3>4 DEF ph, Grant!Forget
<1>7. ASSUME \/ \E s \in Session : Logout(s)
             \/ \E u \in User, s \in Session : RevokeFromAccount(u, s)
             \/ \E u \in User : ResetPassword(u) \/ RequestDeletion(u) \/ CancelDeletion(u)
             \/ Tick
             \/ UNCHANGED vars
      PROVE  UNCHANGED Grant!vars
  <2>1. device' = device
    BY <1>7 DEF Logout, RevokeFromAccount, ResetPassword, RequestDeletion, CancelDeletion,
       Tick, vars
  <2>2. \A s \in Session : session'[s].device = session[s].device
    BY <1>7, <1>t, QuietRest DEF Quiet
  <2> QED
    BY <2>1, <2>2, Invisible
<1>8. ASSUME NEW p \in Poller, PollStep(p) PROVE [Grant!Next]_(Grant!vars)
  <2>1. ASSUME NEW s \in Session, PollApproved(p, s) PROVE Grant!Next
    <3>1. poll[p].device \in Device
      BY <2>1, <1>t DEF PollApproved, TypeOK, PollState
    <3>2. PICK d \in Device : d = poll[p].device
      BY <3>1
    <3>3. Grant!Mint(d, s)
      BY <2>1, <1>3, <3>2, <3>1
    <3> QED
      BY <2>1, <3>3 DEF Grant!Next
  <2>2. CASE PollDenied(p) \/ PollLeaving(p)
    <3>1. poll[p].device \in Device
      BY <2>2, <1>t DEF PollDenied, PollLeaving, TypeOK, PollState
    <3>2. [Grant!Close(poll[p].device)]_(Grant!vars)
      BY <2>2, <1>4
    <3> QED
      BY <3>1, <3>2 DEF Grant!Next
  <2> QED
    BY <1>8, <1>5, <2>1, <2>2 DEF PollStep
<1>9. ASSUME NEW d \in Device, NEW u \in User, NEW approve \in BOOLEAN,
             NEW scope \in BOOLEAN, Decide(d, u, approve, scope)
      PROVE  Grant!Next
  BY <1>9, <1>2 DEF Grant!Next
<1> QED
  BY <1>1, <1>6, <1>7, <1>8, <1>9 DEF Next, Grant!Next

\* The flow implements the grant, for every value of the constants.
THEOREM Refinement == Spec => ImplementsDeviceGrant
  BY InitRefines, StepRefines, Inductive, PTL DEF Spec, ImplementsDeviceGrant, Grant!Spec

-----------------------------------------------------------------------------
(* A one-time share.                                                       *)

\* The attempts admitted are the attempts counted, up to the limit.
Counts ==
    \A s \in Share :
        /\ Admitted(s) <= MaxAttempts
        /\ share[s].state = "FREE" => Admitted(s) = 0
        /\ share[s].state = "LIVE" =>
             Admitted(s) = IF share[s].attempts <= MaxAttempts
                           THEN share[s].attempts ELSE MaxAttempts

\* A share not consumed was handed to nobody.
Unspent ==
    \A s \in Share :
        share[s].state # "GONE" /\ ~share[s].consumed => taker[s] = Nobody /\ handed[s] = 0

\* A request is about a share that was created; one about to revoke, or to compare the
\* last attempt, knows that every attempt is admitted, and one about to answer took the
\* share and has not answered.
Pending ==
    \A r \in Request : req[r] # Idle =>
        /\ share[req[r].share].state # "FREE"
        /\ req[r].at = "revoke" => Admitted(req[r].share) = MaxAttempts
        /\ req[r].at = "compare" /\ req[r].seen >= MaxAttempts =>
             Admitted(req[r].share) = MaxAttempts
        /\ req[r].at = "answer" => taker[req[r].share] = r /\ handed[req[r].share] = 0

\* Rows that were never created, or went with their account, are blank.
Blank == \A s \in Share : share[s].state # "LIVE" => share[s] = [NewShare EXCEPT !.state = share[s].state]

ShareInv ==
    /\ ShareTypeOK /\ Counts /\ Unspent /\ Pending /\ Blank
    /\ DeliveredOnce /\ GateGrantsEveryAttempt /\ ClosedIsErased

\* The initial state satisfies the inductive invariant.
LEMMA InitShareInv == ShareInit => ShareInv
<1> SUFFICES ASSUME ShareInit PROVE ShareInv
  OBVIOUS
<1>1. \A s \in Share : Admitted(s) = 0
  <2>1. \A s \in Share : Comparing(s) = {}
    BY DEF Comparing, ShareInit, Idle
  <2> QED
    BY <2>1, FS_EmptySet DEF Admitted, ShareInit
<1>2. /\ ShareTypeOK /\ Unspent /\ Pending /\ Blank
      /\ DeliveredOnce /\ GateGrantsEveryAttempt /\ ClosedIsErased
  BY OneTimeShareAssumption
  DEF ShareInit, ShareTypeOK, Unspent, Pending, Blank, DeliveredOnce,
      GateGrantsEveryAttempt, ClosedIsErased, NewShare, ShareRow, Idle, RequestState
<1>3. Counts
  BY <1>1, OneTimeShareAssumption DEF ShareInit, Counts, NewShare
<1> QED
  BY <1>2, <1>3 DEF ShareInv

\* A request that is not idle has a share, a count and a guess.
LEMMA BusyRequest ==
    ASSUME ShareTypeOK, NEW r \in Request, req[r] # Idle
    PROVE  /\ req[r].at \in {"gate", "compare", "revoke", "consume", "answer", "close"}
           /\ req[r].share \in Share
           /\ req[r].guess \in Guess /\ req[r].seen \in Nat
  BY DEF ShareTypeOK, RequestState, Idle

\* What Enter and Leave do to the requests.
LEMMA Moved ==
    ASSUME ShareTypeOK, NEW r \in Request, req[r] # Idle, NEW at, Enter(r, at)
    PROVE  /\ req'[r] = [req[r] EXCEPT !.at = at]
           /\ req'[r].at = at /\ req'[r].share = req[r].share
           /\ \A q \in Request \ {r} : req'[q] = req[q]
  <1>1. req[r] \in [at: {"gate", "compare", "revoke", "consume", "answer", "close"},
                    share: Share, seen: Nat, guess: Guess]
    BY DEF ShareTypeOK, RequestState, Idle
  <1> QED
    BY <1>1 DEF Enter, ShareTypeOK

LEMMA Left ==
    ASSUME ShareTypeOK, NEW r \in Request, Leave(r)
    PROVE  req'[r] = Idle /\ \A q \in Request \ {r} : req'[q] = req[q]
  BY DEF Leave, ShareTypeOK

\* Every step preserves types.
LEMMA ShareTypeStep == ShareTypeOK /\ [ShareNext]_shareVars => ShareTypeOK'
<1> SUFFICES ASSUME ShareTypeOK, [ShareNext]_shareVars PROVE ShareTypeOK'
  OBVIOUS
<1> USE OneTimeShareAssumption
<1>n. NewShare \in ShareRow
  BY DEF NewShare, ShareRow
<1>i. \A r \in Request : Leave(r) => req' \in [Request -> RequestState]
  BY DEF Leave, ShareTypeOK, RequestState, Idle
<1>e. ASSUME NEW r \in Request, req[r] # Idle,
             NEW at \in {"gate", "compare", "revoke", "consume", "answer", "close"}, Enter(r, at)
      PROVE  req' \in [Request -> RequestState]
  <2>1. [req[r] EXCEPT !.at = at] \in RequestState
    BY <1>e DEF ShareTypeOK, RequestState, Idle
  <2> QED
    BY <1>e, <2>1 DEF Enter, ShareTypeOK
<1>s. \A s \in Share : share[s] \in ShareRow
  BY DEF ShareTypeOK
<1>r. ASSUME NEW s \in Share, NEW by \in {"OWNER", "GATE"}
      PROVE  Erased(s, by) \in [Share -> ShareRow]
  <2>1. [share[s] EXCEPT !.revoked = by, !.sealed = FALSE] \in ShareRow
    BY <1>s DEF ShareRow
  <2> QED
    BY <2>1 DEF Erased, ShareTypeOK
<1>1. ASSUME NEW s \in Share, NEW locked \in BOOLEAN, CreateShare(s, locked) PROVE ShareTypeOK'
  <2>1. [NewShare EXCEPT !.state = "LIVE", !.sealed = TRUE, !.locked = locked] \in ShareRow
    BY <1>n DEF ShareRow
  <2> QED
    BY <1>1, <2>1 DEF CreateShare, ShareTypeOK
<1>2. ASSUME NEW s \in Share, DeleteCreator(s) PROVE ShareTypeOK'
  <2>1. [NewShare EXCEPT !.state = "GONE"] \in ShareRow
    BY <1>n DEF ShareRow
  <2> QED
    BY <1>2, <2>1 DEF DeleteCreator, ShareTypeOK
<1>3. ASSUME NEW s \in Share, Expire(s) PROVE ShareTypeOK'
  <2>1. [share[s] EXCEPT !.expired = TRUE] \in ShareRow
    BY <1>s DEF ShareRow
  <2> QED
    BY <1>3, <2>1 DEF Expire, ShareTypeOK
<1>4. ASSUME NEW r \in Request, NEW s \in Share, AskRevoke(r, s) PROVE ShareTypeOK'
  <2>1. [at |-> "close", share |-> s, seen |-> share[s].attempts, guess |-> "NONE"]
          \in RequestState
    BY <1>s DEF RequestState, ShareRow, Guess
  <2> QED
    BY <1>4, <2>1 DEF AskRevoke, ShareTypeOK
<1>5. ASSUME NEW r \in Request, NEW s \in Share, NEW g \in Guess, ReadShare(r, s, g)
      PROVE  ShareTypeOK'
  <2>1. \A at \in {"gate", "consume"} :
           [at |-> at, share |-> s, seen |-> share[s].attempts, guess |-> g] \in RequestState
    BY <1>s DEF RequestState, ShareRow
  <2> QED
    BY <1>5, <2>1 DEF ReadShare, ShareTypeOK
<1>6. ASSUME NEW r \in Request, RevokeShare(r) \/ RevokeByGate(r) PROVE ShareTypeOK'
  <2>1. req[r] # Idle
    BY <1>6 DEF RevokeShare, RevokeByGate, Idle
  <2> QED
    BY <1>6, <2>1, <1>i, <1>r, BusyRequest DEF RevokeShare, RevokeByGate, ShareTypeOK
<1>7. ASSUME NEW r \in Request, CountAttempt(r) PROVE ShareTypeOK'
  <2>1. req[r] # Idle
    BY <1>7 DEF CountAttempt, Idle
  <2>2. req[r].share \in Share
    BY <2>1, BusyRequest
  <2>3. Counted(r) \in Nat
    BY <2>2, <1>s DEF Counted, ShareRow
  <2>4. [share[req[r].share] EXCEPT !.attempts = Counted(r)] \in ShareRow
    BY <2>2, <2>3, <1>s DEF ShareRow
  <2>5. share' \in [Share -> ShareRow]
    BY <1>7, <2>4 DEF CountAttempt, ShareTypeOK
  <2>6. \A at \in {"compare", "revoke"} :
           [req[r] EXCEPT !.at = at, !.seen = Counted(r)] \in RequestState
    BY <2>1, <2>3 DEF ShareTypeOK, RequestState, Idle
  <2>7. [req[r] EXCEPT !.at = IF Passes(Counted(r)) THEN "compare" ELSE "revoke",
                       !.seen = Counted(r)] \in RequestState
    BY <2>6
  <2>8. req' \in [Request -> RequestState]
    BY <1>7, <2>7 DEF CountAttempt, ShareTypeOK
  <2> QED
    BY <1>7, <2>5, <2>8 DEF CountAttempt, ShareTypeOK
<1>8. ASSUME NEW r \in Request, MatchPassword(r) PROVE ShareTypeOK'
  <2>1. req[r] # Idle
    BY <1>8 DEF MatchPassword, Idle
  <2>2. tried' \in [Share -> Nat]
    BY <1>8, <2>1, BusyRequest DEF MatchPassword, ShareTypeOK
  <2> QED
    BY <1>8, <2>1, <2>2, <1>e DEF MatchPassword, ShareTypeOK
<1>9. ASSUME NEW r \in Request, MissPassword(r) PROVE ShareTypeOK'
  <2>1. req[r] # Idle
    BY <1>9 DEF MissPassword, Idle
  <2>2. tried' \in [Share -> Nat] /\ failed' \in [Share -> Nat]
    BY <1>9, <2>1, BusyRequest DEF MissPassword, ShareTypeOK
  <2>3. req' \in [Request -> RequestState]
    BY <1>9, <2>1, <1>e, <1>i DEF MissPassword
  <2> QED
    BY <1>9, <2>1, <2>2, <2>3 DEF MissPassword, ShareTypeOK
<1>10. ASSUME NEW r \in Request, ConsumeShare(r) PROVE ShareTypeOK'
  <2>1. req[r] # Idle
    BY <1>10 DEF ConsumeShare, Idle
  <2>2. req[r].share \in Share
    BY <2>1, BusyRequest
  <2>3. [share[req[r].share] EXCEPT !.consumed = TRUE, !.sealed = FALSE] \in ShareRow
    BY <2>2, <1>s DEF ShareRow
  <2> QED
    BY <1>10, <2>1, <2>2, <2>3, <1>e DEF ConsumeShare, ShareTypeOK
<1>11. ASSUME NEW r \in Request, AnswerShare(r) PROVE ShareTypeOK'
  <2>1. req[r] # Idle
    BY <1>11 DEF AnswerShare, Idle
  <2>2. handed' \in [Share -> Nat]
    BY <1>11, <2>1, BusyRequest DEF AnswerShare, ShareTypeOK
  <2> QED
    BY <1>11, <2>2, <1>i DEF AnswerShare, ShareTypeOK
<1>12. ASSUME NEW r \in Request, Abandon(r) PROVE ShareTypeOK'
  <2>1. lost' \in [Share -> Nat]
    BY <1>12, BusyRequest DEF Abandon, ShareTypeOK
  <2> QED
    BY <1>12, <2>1, <1>i DEF Abandon, ShareTypeOK
<1>13. CASE UNCHANGED shareVars
  BY <1>13 DEF shareVars, ShareTypeOK
<1> QED
  BY <1>1, <1>2, <1>3, <1>4, <1>5, <1>6, <1>7, <1>8, <1>9, <1>10, <1>11, <1>12, <1>13 DEF ShareNext

\* What the steps that write a row write, row by row.
LEMMA RowOf ==
    ASSUME ShareTypeOK, NEW s \in Share
    PROVE  /\ share[s] \in ShareRow /\ tried[s] \in Nat /\ handed[s] \in Nat
           /\ share[s].attempts \in Nat
  BY DEF ShareTypeOK, ShareRow

\* Revoking changes the revocation and the ciphertext of one live row.
LEMMA ErasedRow ==
    ASSUME ShareTypeOK, NEW s \in Share, NEW by \in {"OWNER", "GATE"}, share' = Erased(s, by)
    PROVE  /\ share'[s] = [share[s] EXCEPT !.revoked = by, !.sealed = FALSE]
           /\ share'[s].state = share[s].state /\ share'[s].attempts = share[s].attempts
           /\ share'[s].consumed = share[s].consumed /\ share'[s].revoked = by
           /\ ~share'[s].sealed
           /\ \A x \in Share \ {s} : share'[x] = share[x]
  <1>1. share[s] \in ShareRow
    BY RowOf
  <1> QED
    BY <1>1 DEF Erased, ShareTypeOK, ShareRow

\* Counting an attempt changes nothing else of the row, and tells the request where
\* to go on.
LEMMA CountedRow ==
    ASSUME ShareTypeOK, NEW r \in Request, req[r] # Idle, CountAttempt(r)
    PROVE  LET s == req[r].share
               n == share[s].attempts + 1
           IN
           /\ share'[s].attempts = n
           /\ share'[s].state = share[s].state /\ share'[s].consumed = share[s].consumed
           /\ share'[s].revoked = share[s].revoked /\ share'[s].sealed = share[s].sealed
           /\ share'[s].expired = share[s].expired
           /\ \A x \in Share \ {s} : share'[x] = share[x]
           /\ req'[r].at = IF Passes(n) THEN "compare" ELSE "revoke"
           /\ req'[r].share = s /\ req'[r].seen = n
           /\ \A q \in Request \ {r} : req'[q] = req[q]
  <1>1. req[r].share \in Share
    BY BusyRequest
  <1>2. share[req[r].share] \in ShareRow
    BY <1>1, RowOf
  <1>3. req[r] \in [at: {"gate", "compare", "revoke", "consume", "answer", "close"},
                    share: Share, seen: Nat, guess: Guess]
    BY DEF ShareTypeOK, RequestState, Idle
  <1> QED
    BY <1>1, <1>2, <1>3 DEF CountAttempt, Counted, ShareTypeOK, ShareRow

-----------------------------------------------------------------------------
(* The attempts admitted, as requests move.                                *)

LEMMA AdmittedType ==
    ASSUME ShareTypeOK, NEW s \in Share
    PROVE  /\ IsFiniteSet(Comparing(s)) /\ Cardinality(Comparing(s)) \in Nat
           /\ tried[s] \in Nat /\ lost[s] \in Nat /\ Admitted(s) \in Nat
           /\ tried[s] <= Admitted(s)
  <1>1. IsFiniteSet(Comparing(s))
    <2>1. Comparing(s) \in SUBSET Request
      BY DEF Comparing
    <2> QED
      BY <2>1, OneTimeShareAssumption, FS_Subset
  <1>2. Cardinality(Comparing(s)) \in Nat
    BY <1>1, FS_CardinalityType
  <1>3. tried[s] \in Nat /\ lost[s] \in Nat
    BY DEF ShareTypeOK
  <1> QED
    BY <1>1, <1>2, <1>3 DEF Admitted

\* A step that brings no request to or from a comparison admits nothing.
LEMMA AdmittedSame ==
    ASSUME tried' = tried, lost' = lost,
           \A q \in Request :
              \/ req'[q] = req[q]
              \/ req[q].at # "compare" /\ req'[q].at # "compare"
    PROVE  \A s \in Share : Admitted(s)' = Admitted(s)
  <1>1. \A s \in Share : Comparing(s)' = Comparing(s)
    BY DEF Comparing
  <1> QED
    BY <1>1 DEF Admitted

\* A request that comes to a comparison is one attempt more at its share.
LEMMA AdmittedOneMore ==
    ASSUME ShareTypeOK, tried' = tried, lost' = lost,
           NEW r \in Request, NEW s \in Share,
           req[r].at # "compare", req'[r].at = "compare", req'[r].share = s,
           \A q \in Request \ {r} : req'[q] = req[q]
    PROVE  /\ Admitted(s)' = Admitted(s) + 1
           /\ \A x \in Share \ {s} : Admitted(x)' = Admitted(x)
  <1>1. Comparing(s)' = Comparing(s) \cup {r} /\ r \notin Comparing(s)
    BY DEF Comparing
  <1>2. Cardinality(Comparing(s) \cup {r}) = Cardinality(Comparing(s)) + 1
    BY <1>1, AdmittedType, FS_AddElement
  <1>3. Admitted(s)' = Admitted(s) + 1
    BY <1>1, <1>2, AdmittedType DEF Admitted
  <1>4. \A x \in Share \ {s} : Comparing(x)' = Comparing(x)
    BY DEF Comparing
  <1> QED
    BY <1>3, <1>4 DEF Admitted

\* An attempt compared, or lost with its request, is still the attempt it was.
LEMMA AdmittedStill ==
    ASSUME ShareTypeOK, NEW r \in Request, NEW s \in Share,
           req[r].at = "compare", req[r].share = s, req'[r].at # "compare",
           \A q \in Request \ {r} : req'[q] = req[q],
           \/ tried' = [tried EXCEPT ![s] = @ + 1] /\ lost' = lost
           \/ lost' = [lost EXCEPT ![s] = @ + 1] /\ tried' = tried
    PROVE  \A x \in Share : Admitted(x)' = Admitted(x)
  <1>1. Comparing(s)' = Comparing(s) \ {r} /\ r \in Comparing(s)
    BY DEF Comparing
  <1>2. Cardinality(Comparing(s) \ {r}) = Cardinality(Comparing(s)) - 1
    BY <1>1, AdmittedType, FS_RemoveElement
  <1>3. /\ tried'[s] + lost'[s] = tried[s] + lost[s] + 1
        /\ tried'[s] \in Nat /\ lost'[s] \in Nat
    BY AdmittedType DEF ShareTypeOK
  <1>4. Admitted(s)' = Admitted(s)
    BY <1>1, <1>2, <1>3, AdmittedType DEF Admitted
  <1>5. \A x \in Share \ {s} : Comparing(x)' = Comparing(x)
    BY DEF Comparing
  <1>6. \A x \in Share \ {s} : tried'[x] = tried[x] /\ lost'[x] = lost[x]
    BY DEF ShareTypeOK
  <1> QED
    BY <1>4, <1>5, <1>6 DEF Admitted

\* Every step preserves the inductive invariant.
LEMMA StepIInv == ShareInv /\ [ShareNext]_shareVars => ShareInv'
<1> SUFFICES ASSUME ShareInv, [ShareNext]_shareVars PROVE ShareInv'
  OBVIOUS
<1> USE OneTimeShareAssumption
<1>t. ShareTypeOK /\ ShareTypeOK'
  BY ShareTypeStep DEF ShareInv
<1>w. \A s \in Share : share[s] \in ShareRow /\ tried[s] \in Nat /\ handed[s] \in Nat
                       /\ share[s].attempts \in Nat
  BY <1>t, RowOf
<1>b. \A r \in Request : req[r] # Idle => req[r].share \in Share
  BY <1>t, BusyRequest
<1>a. \A s \in Share : Admitted(s) \in Nat
  BY <1>t, AdmittedType
<1> DEFINE Rest == /\ Counts' /\ Unspent' /\ Pending' /\ Blank'
                   /\ DeliveredOnce' /\ GateGrantsEveryAttempt' /\ ClosedIsErased'
<1>1. ASSUME NEW s \in Share, NEW locked \in BOOLEAN, CreateShare(s, locked)
      PROVE  Rest
  <2>1. /\ share[s].state = "FREE"
        /\ share'[s].state = "LIVE" /\ share'[s].attempts = 0 /\ ~share'[s].consumed
        /\ share'[s].revoked = "NO"
        /\ \A x \in Share \ {s} : share'[x] = share[x]
        /\ UNCHANGED <<req, tried, failed, lost, taker, handed>>
    BY <1>1, <1>t DEF CreateShare, ShareTypeOK, NewShare
  <2>2. ~share[s].consumed
    BY <2>1 DEF ShareInv, Blank, NewShare
  <2>9. \A x \in Share : Admitted(x)' = Admitted(x)
    BY <2>1, AdmittedSame
  <2>10. Counts'
    BY <2>9, <1>a, <2>1, <2>2, <1>w, <1>b DEF ShareInv, Counts
  <2>11. Unspent'
    BY <2>1, <2>2, <1>w, <1>b DEF ShareInv, Unspent
  <2>12. Pending'
    BY <2>9, <1>a, <2>1, <2>2, <1>w, <1>b DEF ShareInv, Pending
  <2>13. Blank'
    BY <2>1, <2>2, <1>w, <1>b DEF ShareInv, Blank
  <2>14. DeliveredOnce'
    BY <2>1, <2>2, <1>w, <1>b DEF ShareInv, DeliveredOnce
  <2>15. GateGrantsEveryAttempt'
    BY <2>9, <1>a, <2>1, <2>2, <1>w, <1>b DEF ShareInv, GateGrantsEveryAttempt
  <2>16. ClosedIsErased'
    BY <2>1, <2>2, <1>w, <1>b DEF ShareInv, ClosedIsErased
  <2> QED
    BY <2>10, <2>11, <2>12, <2>13, <2>14, <2>15, <2>16
<1>2. ASSUME NEW s \in Share, DeleteCreator(s)
      PROVE  Rest
  <2>1. share'[s] = [NewShare EXCEPT !.state = "GONE"]
    BY <1>2, <1>t DEF DeleteCreator, ShareTypeOK
  <2>2. /\ share[s].state = "LIVE"
        /\ share'[s].state = "GONE" /\ ~share'[s].consumed /\ share'[s].revoked = "NO"
        /\ \A x \in Share \ {s} : share'[x] = share[x]
        /\ UNCHANGED <<req, tried, failed, lost, taker, handed>>
    BY <1>2, <1>t DEF DeleteCreator, ShareTypeOK, NewShare, LiveShare
  <2>9. \A x \in Share : Admitted(x)' = Admitted(x)
    BY <2>2, AdmittedSame
  <2>10. Counts'
    BY <2>9, <1>a, <2>2, <1>w, <1>b DEF ShareInv, Counts
  <2>11. Unspent'
    BY <2>2, <1>w, <1>b DEF ShareInv, Unspent
  <2>12. Pending'
    BY <2>9, <1>a, <2>2, <1>w, <1>b DEF ShareInv, Pending
  <2>13. Blank'
    BY <2>1, <2>2, <1>w, <1>b DEF ShareInv, Blank
  <2>14. DeliveredOnce'
    BY <2>2, <1>w, <1>b DEF ShareInv, DeliveredOnce
  <2>15. GateGrantsEveryAttempt'
    BY <2>9, <1>a, <2>2, <1>w, <1>b DEF ShareInv, GateGrantsEveryAttempt
  <2>16. ClosedIsErased'
    BY <2>2, <1>w, <1>b DEF ShareInv, ClosedIsErased
  <2> QED
    BY <2>10, <2>11, <2>12, <2>13, <2>14, <2>15, <2>16
<1>3. ASSUME NEW s \in Share, Expire(s)
      PROVE  Rest
  <2>1. /\ share[s].state = "LIVE" /\ share'[s].state = "LIVE"
        /\ share'[s].attempts = share[s].attempts /\ share'[s].consumed = share[s].consumed
        /\ share'[s].revoked = share[s].revoked /\ share'[s].sealed = share[s].sealed
        /\ \A x \in Share \ {s} : share'[x] = share[x]
        /\ UNCHANGED <<req, tried, failed, lost, taker, handed>>
    BY <1>3, <1>t, <1>w DEF Expire, ShareTypeOK, ShareRow, LiveShare
  <2>9. \A x \in Share : Admitted(x)' = Admitted(x)
    BY <2>1, AdmittedSame
  <2>10. Counts'
    BY <2>9, <1>a, <2>1, <1>w, <1>b DEF ShareInv, Counts
  <2>11. Unspent'
    BY <2>1, <1>w, <1>b DEF ShareInv, Unspent
  <2>12. Pending'
    BY <2>9, <1>a, <2>1, <1>w, <1>b DEF ShareInv, Pending
  <2>13. Blank'
    BY <2>1, <1>w, <1>b DEF ShareInv, Blank
  <2>14. DeliveredOnce'
    BY <2>1, <1>w, <1>b DEF ShareInv, DeliveredOnce
  <2>15. GateGrantsEveryAttempt'
    BY <2>9, <1>a, <2>1, <1>w, <1>b DEF ShareInv, GateGrantsEveryAttempt
  <2>16. ClosedIsErased'
    BY <2>1, <1>w, <1>b DEF ShareInv, ClosedIsErased
  <2> QED
    BY <2>10, <2>11, <2>12, <2>13, <2>14, <2>15, <2>16
<1>4. ASSUME NEW r \in Request, NEW s \in Share,
             AskRevoke(r, s) \/ \E g \in Guess : ReadShare(r, s, g)
      PROVE  Rest
  <2>1. /\ share[s].state = "LIVE" /\ req'[r].share = s
        /\ req[r].at # "compare" /\ req'[r].at \notin {"revoke", "compare", "answer"}
        /\ \A q \in Request \ {r} : req'[q] = req[q]
        /\ UNCHANGED <<share, tried, failed, lost, taker, handed>>
    BY <1>4, <1>t DEF AskRevoke, ReadShare, ShareTypeOK, LiveShare, Open, Idle
  <2>9. \A x \in Share : Admitted(x)' = Admitted(x)
    BY <2>1, AdmittedSame
  <2>10. Counts'
    BY <2>9, <1>a, <2>1, <1>w, <1>b DEF ShareInv, Counts
  <2>11. Unspent'
    BY <2>1, <1>w, <1>b DEF ShareInv, Unspent
  <2>12. Pending'
    BY <2>9, <1>a, <2>1, <1>w, <1>b DEF ShareInv, Pending
  <2>13. Blank'
    BY <2>1, <1>w, <1>b DEF ShareInv, Blank
  <2>14. DeliveredOnce'
    BY <2>1, <1>w, <1>b DEF ShareInv, DeliveredOnce
  <2>15. GateGrantsEveryAttempt'
    BY <2>9, <1>a, <2>1, <1>w, <1>b DEF ShareInv, GateGrantsEveryAttempt
  <2>16. ClosedIsErased'
    BY <2>1, <1>w, <1>b DEF ShareInv, ClosedIsErased
  <2> QED
    BY <2>10, <2>11, <2>12, <2>13, <2>14, <2>15, <2>16
<1>5. ASSUME NEW r \in Request, RevokeShare(r) \/ RevokeByGate(r)
      PROVE  Rest
  <2>1. PICK by \in {"OWNER", "GATE"} :
             /\ share' = Erased(req[r].share, by)
             /\ by = "GATE" => req[r].at = "revoke"
    BY <1>5 DEF RevokeShare, RevokeByGate
  <2>2. /\ req[r] # Idle /\ share[req[r].share].state = "LIVE" /\ Leave(r)
        /\ UNCHANGED <<tried, failed, lost, taker, handed>>
    BY <1>5 DEF RevokeShare, RevokeByGate, Idle, LiveShare
  <2>3. PICK s \in Share : s = req[r].share
    BY <2>2, <1>b
  <2>4. /\ share[s].state = "LIVE" /\ share'[s].state = "LIVE"
        /\ share'[s].attempts = share[s].attempts /\ share'[s].consumed = share[s].consumed
        /\ share'[s].revoked = by /\ ~share'[s].sealed
        /\ \A x \in Share \ {s} : share'[x] = share[x]
    BY <2>1, <2>2, <2>3, <1>t, ErasedRow
  <2>5. req'[r] = Idle /\ \A q \in Request \ {r} : req'[q] = req[q]
    BY <2>2, <1>t, Left
  <2>6. by = "GATE" => Admitted(s) = MaxAttempts
    BY <2>1, <2>2, <2>3 DEF ShareInv, Pending
  <2>7. req[r].at # "compare"
    BY <1>5 DEF RevokeShare, RevokeByGate
  <2>9. \A x \in Share : Admitted(x)' = Admitted(x)
    BY <2>2, <2>5, <2>7, AdmittedSame DEF Idle
  <2>10. Counts'
    BY <2>9, <1>a, <2>2, <2>4, <2>5, <2>6, <1>w, <1>b DEF ShareInv, Counts
  <2>11. Unspent'
    BY <2>2, <2>4, <2>5, <2>6, <1>w, <1>b DEF ShareInv, Unspent
  <2>12. Pending'
    BY <2>9, <1>a, <2>2, <2>4, <2>5, <2>6, <1>w, <1>b DEF ShareInv, Pending
  <2>13. Blank'
    BY <2>2, <2>4, <2>5, <2>6, <1>w, <1>b DEF ShareInv, Blank
  <2>14. DeliveredOnce'
    BY <2>2, <2>4, <2>5, <2>6, <1>w, <1>b DEF ShareInv, DeliveredOnce
  <2>15. GateGrantsEveryAttempt'
    BY <2>9, <1>a, <2>2, <2>4, <2>5, <2>6, <1>w, <1>b DEF ShareInv, GateGrantsEveryAttempt
  <2>16. ClosedIsErased'
    BY <2>2, <2>4, <2>5, <2>6, <1>w, <1>b DEF ShareInv, ClosedIsErased
  <2> QED
    BY <2>10, <2>11, <2>12, <2>13, <2>14, <2>15, <2>16
<1>6. ASSUME NEW r \in Request, CountAttempt(r)
      PROVE  Rest
  <2>1. /\ req[r] # Idle /\ req[r].at = "gate" /\ share[req[r].share].state = "LIVE"
        /\ UNCHANGED <<tried, failed, lost, taker, handed>>
    BY <1>6 DEF CountAttempt, Idle, LiveShare
  <2>2. PICK s \in Share : s = req[r].share
    BY <2>1, <1>b
  <2>3. /\ share[s].state = "LIVE" /\ share'[s].state = "LIVE"
        /\ share'[s].attempts = share[s].attempts + 1
        /\ share'[s].consumed = share[s].consumed
        /\ share'[s].revoked = share[s].revoked /\ share'[s].sealed = share[s].sealed
        /\ \A x \in Share \ {s} : share'[x] = share[x]
    BY <1>6, <2>1, <2>2, <1>t, CountedRow
  <2>4. /\ req'[r].at = IF share[s].attempts + 1 <= MaxAttempts THEN "compare" ELSE "revoke"
        /\ req'[r].share = s /\ req'[r].seen = share[s].attempts + 1
        /\ \A q \in Request \ {r} : req'[q] = req[q]
    BY <1>6, <2>1, <2>2, <1>t, CountedRow DEF Passes
  <2>5. Admitted(s) = IF share[s].attempts <= MaxAttempts THEN share[s].attempts
                                                         ELSE MaxAttempts
    BY <2>3 DEF ShareInv, Counts
  <2>6. Admitted(s)' = IF share[s].attempts + 1 <= MaxAttempts
                       THEN share[s].attempts + 1 ELSE MaxAttempts
    <3>1. CASE share[s].attempts + 1 <= MaxAttempts
      <4>1. req'[r].at = "compare"
        BY <3>1, <2>4
      <4>2. Admitted(s)' = Admitted(s) + 1
        BY <4>1, <2>1, <2>4, <1>t, AdmittedOneMore
      <4> QED
        BY <3>1, <4>2, <2>5, <1>w
    <3>2. CASE ~(share[s].attempts + 1 <= MaxAttempts)
      <4>1. req'[r].at # "compare"
        BY <3>2, <2>4
      <4>2. Admitted(s)' = Admitted(s)
        BY <4>1, <2>1, <2>4, AdmittedSame
      <4> QED
        BY <3>2, <4>2, <2>5, <1>w
    <3> QED
      BY <3>1, <3>2
  <2>7. \A x \in Share \ {s} : Admitted(x)' = Admitted(x)
    <3>1. CASE req'[r].at = "compare"
      BY <3>1, <2>1, <2>4, <1>t, AdmittedOneMore
    <3>2. CASE req'[r].at # "compare"
      BY <3>2, <2>1, <2>4, AdmittedSame
    <3> QED
      BY <3>1, <3>2
  <2>8. Admitted(s) = MaxAttempts => Admitted(s)' = MaxAttempts
    BY <2>5, <2>6, <1>w
  <2>9. \A x \in Share : Admitted(x) = MaxAttempts => Admitted(x)' = MaxAttempts
    BY <2>7, <2>8
  <2>10. Counts'
    BY <2>3, <2>6, <2>7, <1>w, <1>a DEF ShareInv, Counts
  <2>11. Unspent'
    BY <2>1, <2>3 DEF ShareInv, Unspent
  <2>12. Pending'
    <3>1. \A q \in Request \ {r} : req[q] # Idle =>
            share'[req[q].share].state # "FREE"
      BY <2>3, <1>b DEF ShareInv, Pending
    <3>2. /\ req'[r].at = "revoke" => Admitted(s)' = MaxAttempts
          /\ req'[r].at = "compare" /\ req'[r].seen >= MaxAttempts =>
               Admitted(s)' = MaxAttempts
      BY <2>4, <2>6, <1>w
    <3>3. req'[r].at # "answer"
      BY <2>4
    <3> QED
      BY <2>1, <2>3, <2>4, <2>9, <3>1, <3>2, <3>3, <1>b DEF ShareInv, Pending
  <2>13. Blank'
    BY <2>3, <1>w DEF ShareInv, Blank
  <2>14. DeliveredOnce'
    BY <2>1, <1>w DEF ShareInv, DeliveredOnce
  <2>15. GateGrantsEveryAttempt'
    BY <2>3, <2>9 DEF ShareInv, GateGrantsEveryAttempt
  <2>16. ClosedIsErased'
    BY <2>3, <1>w DEF ShareInv, ClosedIsErased
  <2> QED
    BY <2>10, <2>11, <2>12, <2>13, <2>14, <2>15, <2>16
<1>7. ASSUME NEW r \in Request, MatchPassword(r) \/ MissPassword(r)
      PROVE  Rest
  <2>1. /\ req[r] # Idle /\ req[r].at = "compare"
        /\ tried' = [tried EXCEPT ![req[r].share] = @ + 1]
        /\ UNCHANGED <<share, lost, taker, handed>>
        /\ \/ Enter(r, "consume") \/ Leave(r)
           \/ req[r].seen >= MaxAttempts /\ Enter(r, "revoke")
    BY <1>7 DEF MatchPassword, MissPassword, Idle
  <2>2. PICK s \in Share : s = req[r].share
    BY <2>1, <1>b
  <2>3. /\ \/ req'[r] = Idle
           \/ req'[r].share = s /\ req'[r].at = "consume"
           \/ req'[r].share = s /\ req'[r].at = "revoke" /\ req[r].seen >= MaxAttempts
        /\ \A q \in Request \ {r} : req'[q] = req[q]
    <3>1. CASE Enter(r, "consume")
      BY <3>1, <2>1, <2>2, <1>t, Moved
    <3>2. CASE Leave(r)
      BY <3>2, <1>t, Left
    <3>3. CASE req[r].seen >= MaxAttempts /\ Enter(r, "revoke")
      BY <3>3, <2>1, <2>2, <1>t, Moved
    <3> QED
      BY <2>1, <3>1, <3>2, <3>3
  <2>4. req'[r].at # "compare"
    BY <2>3 DEF Idle
  <2>9. \A x \in Share : Admitted(x)' = Admitted(x)
    BY <2>1, <2>2, <2>3, <2>4, <1>t, AdmittedStill
  <2>10. Counts'
    BY <2>1, <2>9 DEF ShareInv, Counts
  <2>11. Unspent'
    BY <2>1 DEF ShareInv, Unspent
  <2>12. Pending'
    BY <2>1, <2>2, <2>3, <2>9, <1>b DEF ShareInv, Pending
  <2>13. Blank'
    BY <2>1 DEF ShareInv, Blank
  <2>14. DeliveredOnce'
    BY <2>1 DEF ShareInv, DeliveredOnce
  <2>15. GateGrantsEveryAttempt'
    BY <2>1, <2>9 DEF ShareInv, GateGrantsEveryAttempt
  <2>16. ClosedIsErased'
    BY <2>1 DEF ShareInv, ClosedIsErased
  <2> QED
    BY <2>10, <2>11, <2>12, <2>13, <2>14, <2>15, <2>16
<1>8. ASSUME NEW r \in Request, ConsumeShare(r)
      PROVE  Rest
  <2>1. /\ req[r] # Idle /\ StillOpen(r) /\ Enter(r, "answer")
        /\ UNCHANGED <<tried, failed, lost, handed>>
    BY <1>8 DEF ConsumeShare, Idle
  <2>2. PICK s \in Share : s = req[r].share
    BY <2>1, <1>b
  <2>3. /\ share[s].state = "LIVE" /\ ~share[s].consumed /\ share[s].revoked = "NO"
        /\ share'[s].state = "LIVE" /\ share'[s].attempts = share[s].attempts
        /\ share'[s].consumed /\ share'[s].revoked = "NO" /\ ~share'[s].sealed
        /\ \A x \in Share \ {s} : share'[x] = share[x]
        /\ taker'[s] = r /\ \A x \in Share \ {s} : taker'[x] = taker[x]
    BY <1>8, <2>1, <2>2, <1>t, <1>w DEF ConsumeShare, StillOpen, Open, ShareTypeOK, ShareRow
  <2>4. /\ req'[r].at = "answer" /\ req'[r].share = s
        /\ \A q \in Request \ {r} : req'[q] = req[q]
    BY <2>1, <2>2, <1>t, Moved
  <2>5. taker[s] = Nobody /\ handed[s] = 0
    BY <2>3 DEF ShareInv, Unspent
  <2>6. req[r].at # "compare"
    BY <1>8 DEF ConsumeShare
  <2>9. \A x \in Share : Admitted(x)' = Admitted(x)
    BY <2>1, <2>4, <2>6, AdmittedSame
  <2>10. Counts'
    BY <2>9, <1>a, <2>1, <2>3, <2>4, <2>5, <1>w, <1>b DEF ShareInv, Counts
  <2>11. Unspent'
    BY <2>1, <2>3, <2>4, <2>5, <1>w, <1>b DEF ShareInv, Unspent
  <2>12. Pending'
    BY <2>9, <1>a, <2>1, <2>3, <2>4, <2>5, <1>w, <1>b DEF ShareInv, Pending
  <2>13. Blank'
    BY <2>1, <2>3, <2>4, <2>5, <1>w, <1>b DEF ShareInv, Blank
  <2>14. DeliveredOnce'
    BY <2>1, <2>3, <2>4, <2>5, <1>w, <1>b DEF ShareInv, DeliveredOnce
  <2>15. GateGrantsEveryAttempt'
    BY <2>9, <1>a, <2>1, <2>3, <2>4, <2>5, <1>w, <1>b DEF ShareInv, GateGrantsEveryAttempt
  <2>16. ClosedIsErased'
    BY <2>1, <2>3, <2>4, <2>5, <1>w, <1>b DEF ShareInv, ClosedIsErased
  <2> QED
    BY <2>10, <2>11, <2>12, <2>13, <2>14, <2>15, <2>16
<1>9. ASSUME NEW r \in Request, AnswerShare(r)
      PROVE  Rest
  <2>1. /\ req[r] # Idle /\ req[r].at = "answer" /\ Leave(r)
        /\ handed' = [handed EXCEPT ![req[r].share] = @ + 1]
        /\ UNCHANGED <<share, tried, failed, lost, taker>>
    BY <1>9 DEF AnswerShare, Idle
  <2>2. PICK s \in Share : s = req[r].share
    BY <2>1, <1>b
  <2>3. taker[s] = r /\ handed[s] = 0
    BY <2>1, <2>2 DEF ShareInv, Pending
  <2>4. handed'[s] = 1 /\ \A x \in Share \ {s} : handed'[x] = handed[x]
    BY <2>1, <2>2, <2>3, <1>t DEF ShareTypeOK
  <2>5. req'[r] = Idle /\ \A q \in Request \ {r} : req'[q] = req[q]
    BY <2>1, <1>t, Left
  <2>9. \A x \in Share : Admitted(x)' = Admitted(x)
    BY <2>1, <2>5, AdmittedSame DEF Idle
  <2>10. Counts'
    BY <2>9, <1>a, <2>1, <2>3, <2>4, <2>5, <1>w, <1>b DEF ShareInv, Counts
  <2>11. Unspent'
    BY <2>1, <2>3, <2>4, <2>5, <1>w, <1>b DEF ShareInv, Unspent
  <2>12. Pending'
    BY <2>9, <1>a, <2>1, <2>3, <2>4, <2>5, <1>w, <1>b DEF ShareInv, Pending
  <2>13. Blank'
    BY <2>1, <2>3, <2>4, <2>5, <1>w, <1>b DEF ShareInv, Blank
  <2>14. DeliveredOnce'
    BY <2>1, <2>3, <2>4, <2>5, <1>w, <1>b DEF ShareInv, DeliveredOnce
  <2>15. GateGrantsEveryAttempt'
    BY <2>9, <1>a, <2>1, <2>3, <2>4, <2>5, <1>w, <1>b DEF ShareInv, GateGrantsEveryAttempt
  <2>16. ClosedIsErased'
    BY <2>1, <2>3, <2>4, <2>5, <1>w, <1>b DEF ShareInv, ClosedIsErased
  <2> QED
    BY <2>10, <2>11, <2>12, <2>13, <2>14, <2>15, <2>16
<1>10. ASSUME NEW r \in Request, Abandon(r)
      PROVE  Rest
  <2>1. /\ req'[r] = Idle /\ \A q \in Request \ {r} : req'[q] = req[q]
        /\ req[r] # Idle
        /\ UNCHANGED <<share, tried, failed, taker, handed>>
    BY <1>10, <1>t, Left DEF Abandon
  <2>9. \A x \in Share : Admitted(x)' = Admitted(x)
    <3>1. CASE req[r].at = "compare"
      <4>1. lost' = [lost EXCEPT ![req[r].share] = @ + 1] /\ req[r].share \in Share
        BY <1>10, <2>1, <3>1, <1>b DEF Abandon
      <4>2. req'[r].at # "compare"
        BY <2>1 DEF Idle
      <4> QED
        BY <2>1, <3>1, <4>1, <4>2, <1>t, AdmittedStill
    <3>2. CASE req[r].at # "compare"
      <4>1. lost' = lost
        BY <1>10, <3>2 DEF Abandon
      <4> QED
        BY <2>1, <3>2, <4>1, AdmittedSame DEF Idle
    <3> QED
      BY <3>1, <3>2
  <2>10. Counts'
    BY <2>9, <1>a, <2>1, <1>w, <1>b DEF ShareInv, Counts
  <2>11. Unspent'
    BY <2>1, <1>w, <1>b DEF ShareInv, Unspent
  <2>12. Pending'
    BY <2>9, <1>a, <2>1, <1>w, <1>b DEF ShareInv, Pending
  <2>13. Blank'
    BY <2>1, <1>w, <1>b DEF ShareInv, Blank
  <2>14. DeliveredOnce'
    BY <2>1, <1>w, <1>b DEF ShareInv, DeliveredOnce
  <2>15. GateGrantsEveryAttempt'
    BY <2>9, <1>a, <2>1, <1>w, <1>b DEF ShareInv, GateGrantsEveryAttempt
  <2>16. ClosedIsErased'
    BY <2>1, <1>w, <1>b DEF ShareInv, ClosedIsErased
  <2> QED
    BY <2>10, <2>11, <2>12, <2>13, <2>14, <2>15, <2>16
<1>11. ASSUME UNCHANGED shareVars
      PROVE  Rest
  <2>1. UNCHANGED <<share, req, tried, failed, lost, taker, handed>>
    BY <1>11 DEF shareVars
  <2>9. \A x \in Share : Admitted(x)' = Admitted(x)
    BY <2>1, AdmittedSame
  <2>10. Counts'
    BY <2>9, <2>1 DEF ShareInv, Counts
  <2>11. Unspent'
    BY <2>1 DEF ShareInv, Unspent
  <2>12. Pending'
    BY <2>9, <2>1, <1>b DEF ShareInv, Pending
  <2>13. Blank'
    BY <2>1 DEF ShareInv, Blank
  <2>14. DeliveredOnce'
    BY <2>1 DEF ShareInv, DeliveredOnce
  <2>15. GateGrantsEveryAttempt'
    BY <2>9, <2>1 DEF ShareInv, GateGrantsEveryAttempt
  <2>16. ClosedIsErased'
    BY <2>1 DEF ShareInv, ClosedIsErased
  <2> QED
    BY <2>10, <2>11, <2>12, <2>13, <2>14, <2>15, <2>16
<1>12. Rest
  <2> HIDE DEF Rest
  <2> QED
    BY <1>1, <1>2, <1>3, <1>4, <1>5, <1>6, <1>7, <1>8, <1>9, <1>10, <1>11 DEF ShareNext
<1> QED
  BY <1>12, <1>t DEF ShareInv

LEMMA ShareInductive == ShareSpec => []ShareInv
  BY InitShareInv, StepIInv, PTL DEF ShareSpec

\* Rows and requests keep their types, for any number of both.
THEOREM SharesTyped == ShareSpec => []ShareTypeOK
<1>1. ShareInv => ShareTypeOK
  BY DEF ShareInv
<1> QED
  BY <1>1, ShareInductive, PTL

\* No share is handed over twice, however many requests read it open.
THEOREM HandedOnce == ShareSpec => []DeliveredOnce
<1>1. ShareInv => DeliveredOnce
  BY DEF ShareInv
<1> QED
  BY <1>1, ShareInductive, PTL

\* The limit of attempts bounds the comparisons of any number of overlapping requests,
\* and the gate revokes no share before the last attempt allowed is admitted: compared,
\* about to be, or lost with the request that was to compare it.
THEOREM GateExact == ShareSpec => []GateIsExact
<1>1. ASSUME ShareInv PROVE GuessesAreBounded
  <2>1. \A s \in Share : /\ Admitted(s) <= MaxAttempts /\ tried[s] <= Admitted(s)
                         /\ tried[s] \in Nat /\ Admitted(s) \in Nat
    BY <1>1, AdmittedType DEF ShareInv, Counts
  <2> QED
    BY <2>1, OneTimeShareAssumption DEF GuessesAreBounded
<1>2. ShareInv => GateIsExact
  BY <1>1 DEF ShareInv, GateIsExact
<1> QED
  BY <1>2, ShareInductive, PTL

\* A closed share has no ciphertext left.
THEOREM Erasure == ShareSpec => []ClosedIsErased
<1>1. ShareInv => ClosedIsErased
  BY DEF ShareInv
<1> QED
  BY <1>1, ShareInductive, PTL

-----------------------------------------------------------------------------
(* The shares implement Handover.                                          *)

LEMMA ShareInitRefines == ShareInit => Promise!Init
  BY DEF ShareInit, Promise!Init, Phase, NewShare

\* A step that leaves every phase and every taker alone is no step of Handover.
LEMMA InvisibleToHandover ==
    ASSUME taker' = taker, \A s \in Share : Phase(share[s])' = Phase(share[s])
    PROVE  UNCHANGED Promise!vars
  BY DEF Promise!vars

\* A step that closes at most one phase, and hands nothing over, is Close or none.
LEMMA ClosesOne ==
    ASSUME taker' = taker, NEW s \in Share, share'[s].state = "LIVE" \/ share'[s].state = "GONE",
           share[s].state = "LIVE", Open(share'[s]) => Open(share[s]),
           \A x \in Share \ {s} : share'[x] = share[x]
    PROVE  [Promise!Next]_(Promise!vars)
  <1>1. \A x \in Share \ {s} : Phase(share'[x]) = Phase(share[x])
    OBVIOUS
  <1>2. CASE Phase(share'[s]) = Phase(share[s])
    BY <1>1, <1>2 DEF Promise!vars
  <1>3. CASE Phase(share'[s]) # Phase(share[s])
    <2>1. Phase(share[s]) = "open" /\ Phase(share'[s]) = "closed"
      BY <1>3 DEF Phase
    <2> DEFINE ph == [x \in Share |-> Phase(share[x])]
               phn == [x \in Share |-> Phase(share'[x])]
    <2>2. ph[s] = "open" /\ phn = [ph EXCEPT ![s] = "closed"]
      BY <1>1, <2>1
    <2> QED
      BY <2>2 DEF Promise!Close, Promise!Next
  <1> QED
    BY <1>2, <1>3

\* Every step is a step of Handover or changes nothing it sees.
LEMMA ShareStepRefines == ShareInv /\ [ShareNext]_shareVars => [Promise!Next]_(Promise!vars)
<1> SUFFICES ASSUME ShareInv, [ShareNext]_shareVars PROVE [Promise!Next]_(Promise!vars)
  OBVIOUS
<1> USE OneTimeShareAssumption
<1>t. ShareTypeOK
  BY DEF ShareInv
<1>w. \A s \in Share : share[s] \in ShareRow
  BY <1>t, RowOf
<1>b. \A r \in Request : req[r] # Idle => req[r].share \in Share
  BY <1>t, BusyRequest
<1>1. ASSUME NEW s \in Share, NEW locked \in BOOLEAN, CreateShare(s, locked)
      PROVE  Promise!Next
  <2>1. /\ Phase(share[s]) = "new" /\ Phase(share'[s]) = "open"
        /\ \A x \in Share \ {s} : share'[x] = share[x]
        /\ taker' = taker
    BY <1>1, <1>t DEF CreateShare, ShareTypeOK, NewShare, Phase, Open
  <2> DEFINE ph == [x \in Share |-> Phase(share[x])]
             phn == [x \in Share |-> Phase(share'[x])]
  <2>2. \A x \in Share \ {s} : Phase(share'[x]) = Phase(share[x])
    BY <2>1
  <2>6. ph[s] = "new" /\ phn = [ph EXCEPT ![s] = "open"]
    BY <2>1, <2>2
  <2> QED
    BY <2>1, <2>6 DEF Promise!Offer, Promise!Next
<1>2. ASSUME NEW s \in Share, DeleteCreator(s) \/ Expire(s)
      PROVE  [Promise!Next]_(Promise!vars)
  <2>1. /\ share[s].state = "LIVE" /\ taker' = taker
        /\ share'[s].state \in {"LIVE", "GONE"} /\ ~Open(share'[s])
        /\ \A x \in Share \ {s} : share'[x] = share[x]
    BY <1>2, <1>t, <1>w DEF DeleteCreator, Expire, LiveShare, NewShare, Open, ShareTypeOK, ShareRow
  <2> QED
    BY <2>1, ClosesOne
<1>3. ASSUME NEW r \in Request, RevokeShare(r) \/ RevokeByGate(r)
      PROVE  [Promise!Next]_(Promise!vars)
  <2>1. PICK by \in {"OWNER", "GATE"} : share' = Erased(req[r].share, by)
    BY <1>3 DEF RevokeShare, RevokeByGate
  <2>2. req[r] # Idle /\ share[req[r].share].state = "LIVE" /\ taker' = taker
    BY <1>3 DEF RevokeShare, RevokeByGate, Idle, LiveShare
  <2>3. PICK s \in Share : s = req[r].share
    BY <2>2, <1>b
  <2>4. /\ share'[s].state = "LIVE" /\ ~Open(share'[s])
        /\ \A x \in Share \ {s} : share'[x] = share[x]
    BY <2>1, <2>2, <2>3, <1>t, ErasedRow DEF Open
  <2> QED
    BY <2>2, <2>3, <2>4, ClosesOne
<1>4. ASSUME NEW r \in Request, CountAttempt(r)
      PROVE  [Promise!Next]_(Promise!vars)
  <2>1. req[r] # Idle /\ share[req[r].share].state = "LIVE" /\ taker' = taker
    BY <1>4 DEF CountAttempt, Idle, LiveShare
  <2>2. PICK s \in Share : s = req[r].share
    BY <2>1, <1>b
  <2>3. /\ share'[s].state = "LIVE" /\ Open(share'[s]) => Open(share[s])
        /\ \A x \in Share \ {s} : share'[x] = share[x]
    BY <1>4, <2>1, <2>2, <1>t, CountedRow DEF Open
  <2>4. share[s].state = "LIVE" /\ share'[s].state = "LIVE"
    BY <1>4, <2>1, <2>2, <1>t, CountedRow
  <2> QED
    BY <2>1, <2>2, <2>3, <2>4, ClosesOne
<1>5. ASSUME NEW r \in Request, ConsumeShare(r)
      PROVE  Promise!Next
  <2>1. req[r] # Idle /\ Open(share[req[r].share])
    BY <1>5 DEF ConsumeShare, StillOpen, Idle
  <2>2. PICK s \in Share : s = req[r].share
    BY <2>1, <1>b
  <2>3. /\ Phase(share[s]) = "open" /\ Phase(share'[s]) = "closed"
        /\ \A x \in Share \ {s} : share'[x] = share[x]
    BY <1>5, <2>1, <2>2, <1>t, <1>w DEF ConsumeShare, Phase, Open, ShareTypeOK, ShareRow
  <2>4. taker' = [taker EXCEPT ![s] = r]
    BY <1>5, <2>2 DEF ConsumeShare
  <2> DEFINE ph == [x \in Share |-> Phase(share[x])]
             phn == [x \in Share |-> Phase(share'[x])]
  <2>5. \A x \in Share \ {s} : Phase(share'[x]) = Phase(share[x])
    BY <2>3
  <2>6. ph[s] = "open" /\ phn = [ph EXCEPT ![s] = "closed"]
    BY <2>3, <2>5
  <2> QED
    BY <2>4, <2>6 DEF Promise!Take, Promise!Next
<1>6. ASSUME \/ \E r \in Request, s \in Share :
                   AskRevoke(r, s) \/ \E g \in Guess : ReadShare(r, s, g)
             \/ \E r \in Request :
                   \/ MatchPassword(r) \/ MissPassword(r)
                   \/ AnswerShare(r) \/ Abandon(r)
             \/ UNCHANGED shareVars
      PROVE  UNCHANGED Promise!vars
  <2>1. share' = share /\ taker' = taker
    BY <1>6 DEF AskRevoke, ReadShare, MatchPassword, MissPassword, AnswerShare, Abandon,
                shareVars
  <2> QED
    BY <2>1, InvisibleToHandover
<1> QED
  BY <1>1, <1>2, <1>3, <1>4, <1>5, <1>6 DEF ShareNext

\* Reads, attempts, refusals and deletions included, a share is offered once and
\* then taken by one request or closed untaken, for every value of the constants.
THEOREM ShareRefinement == ShareSpec => ImplementsHandover
  BY ShareInitRefines, ShareStepRefines, ShareInductive, PTL DEF ShareSpec, ImplementsHandover, Promise!Spec
=============================================================================
