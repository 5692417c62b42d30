-------------------------- MODULE AccountAuthProofs --------------------------
(***************************************************************************)
(* AccountAuth for any number of concurrent requests and reset tokens, any *)
(* TOTP period and any number of backup codes: a TOTP code opens one       *)
(* session at most, and a backup code that was used does not come back.    *)
(*                                                                         *)
(* CodeOpensOnce alone is not inductive: StepsBehind says that what was    *)
(* used is not ahead of lastTotpTimeStep.  Nor is BurntStaysBurnt: codes   *)
(* of a new batch must never have been used, which Generated gives.        *)
(*                                                                         *)
(* Then the two behaviours of MCAccountAuth: an account whose requests do  *)
(* not overlap (a reset cuts the sessions and kills the links before it),  *)
(* and the rotation of the key in maintenance windows, for any number of   *)
(* rows, keys and requests and any size of batch.                          *)
(***************************************************************************)
EXTENDS MCAccountAuth, FiniteSetTheorems, WellFoundedInduction, TLAPS

\* A used code is of a step already consumed.
StepsBehind == \A c \in Secret \X Step : uses[c] > 0 => c[2] <= account.lastStep

\* The last backup code generated.
Last == batches * BatchSize

\* The codes in the account, those used and those a request has read come from
\* the batches generated so far.
Generated ==
    /\ \A b \in account.backup : b <= Last
    /\ \A b \in BackupCode : burns[b] > 0 => b <= Last
    /\ \A r \in Request : req[r].at \in {"login", "plugin"} =>
         \A b \in req[r].seen.backup : b <= Last

IInv == TypeOK /\ StepsBehind /\ CodeOpensOnce /\ Generated /\ BurntStaysBurnt

\* The last code of n batches is below the last code of n + 1, which is a backup
\* code as long as n is below the bound.
LEMMA BatchGrows ==
    ASSUME NEW n \in Nat
    PROVE  /\ n * BatchSize \in Nat
           /\ (n + 1) * BatchSize = n * BatchSize + BatchSize
           /\ n < MaxEnrolment => (n + 1) * BatchSize <= MaxEnrolment * BatchSize
<1> USE AccountAuthAssumption
<1>1. n * BatchSize \in Nat /\ (n + 1) * BatchSize = n * BatchSize + BatchSize
  OBVIOUS
<1>2. ASSUME n < MaxEnrolment
      PROVE  (n + 1) * BatchSize <= MaxEnrolment * BatchSize
  <2>1. PICK k \in Nat : MaxEnrolment = (n + 1) + k
    <3>1. MaxEnrolment - (n + 1) \in Nat /\ MaxEnrolment = (n + 1) + (MaxEnrolment - (n + 1))
      BY <1>2
    <3> QED
      BY <3>1
  <2>2. MaxEnrolment * BatchSize = (n + 1) * BatchSize + k * BatchSize
    BY <2>1
  <2>3. k * BatchSize \in Nat
    OBVIOUS
  <2> QED
    BY <2>2, <2>3
<1> QED
  BY <1>1, <1>2

\* The initial state satisfies the inductive invariant.
LEMMA InitIInv == Init => IInv
<1> SUFFICES ASSUME Init PROVE IInv
  OBVIOUS
<1> USE AccountAuthAssumption DEF Init
<1>1. TypeOK
  BY DEF TypeOK, NewAccount, AccountRow, Idle, RequestState, TokenState
<1>2. Generated
  BY DEF Generated, NewAccount, Idle
<1> QED
  BY <1>1, <1>2 DEF IInv, StepsBehind, CodeOpensOnce, BurntStaysBurnt, NewAccount

\* A request enters a state of its type.
LEMMA Entered ==
    ASSUME TypeOK, NEW r \in Request, NEW state, Enter(r, state)
    PROVE  /\ req'[r] = state
           /\ \A q \in Request \ {r} : req'[q] = req[q]
           /\ state \in RequestState => req' \in [Request -> RequestState]
  BY DEF Enter, TypeOK

\* A request that ends goes idle.
LEMMA Left ==
    ASSUME TypeOK, NEW r \in Request, Leave(r)
    PROVE  /\ req'[r] = Idle
           /\ \A q \in Request \ {r} : req'[q] = req[q]
           /\ req' \in [Request -> RequestState]
<1>1. Idle \in RequestState
  BY DEF Idle, RequestState
<1> QED
  BY <1>1, Entered DEF Leave

\* What a request past its read carries.
LEMMA Carried ==
    ASSUME TypeOK, NEW r \in Request
    PROVE  /\ req[r].at \in {"login", "plugin"} => req[r].seen \in Seen /\ req[r].since \in Nat
           /\ req[r].at \in {"sign", "issue"} => req[r].password \in Nat
           /\ req[r].at = "verify" => req[r].secret \in Nat /\ req[r].step \in Nat
           /\ req[r].at = "disable" => req[r].from \in Nat
           /\ req[r].at \in {"reset", "mark", "purge"} => req[r].token \in ResetToken
<1>1. req[r] \in RequestState
  BY DEF TypeOK
<1> QED
  BY <1>1 DEF RequestState

\* The steps a code is accepted for are numbers.
LEMMA StepsAreNat == \A after : AcceptedSteps(after) \subseteq Step /\ Step \subseteq Nat
  BY AccountAuthAssumption DEF AcceptedSteps, Step

\* Once a second factor was taken, the request signs, or its token is created.
LEMMA ProvenStep ==
    ASSUME TypeOK, NEW r \in Request, Proven(r)
    PROVE  /\ session' \in SUBSET Session
           /\ req' \in [Request -> RequestState]
           /\ req'[r].at \in {"sign", "idle"}
           /\ \A q \in Request \ {r} : req'[q] = req[q]
<1>1. CASE req[r].at = "login"
  <2>1. req[r].seen.password \in Nat
    BY <1>1, Carried DEF Seen
  <2>2. [at |-> "sign", password |-> req[r].seen.password] \in RequestState
    BY <2>1 DEF RequestState
  <2>3. Enter(r, [at |-> "sign", password |-> req[r].seen.password]) /\ UNCHANGED session
    BY <1>1 DEF Proven
  <2> QED
    BY <2>2, <2>3, Entered DEF TypeOK
<1>2. CASE req[r].at = "plugin"
  <2>1. req[r].seen.password \in Nat /\ req[r].since \in Nat /\ now \in Nat
    BY <1>2, Carried DEF Seen, TypeOK
  <2>2. PICK t \in req[r].since..now :
          session' = session \cup
            {[kind |-> "PLUGIN", at |-> t, password |-> req[r].seen.password]}
    BY <1>2 DEF Proven
  <2>3. t \in Nat
    BY <2>1
  <2>4. [kind |-> "PLUGIN", at |-> t, password |-> req[r].seen.password] \in Session
    BY <2>1, <2>3 DEF Session
  <2>5. Leave(r)
    BY <1>2 DEF Proven
  <2> QED
    BY <2>2, <2>4, <2>5, Left DEF TypeOK, Idle
<1> QED
  BY <1>1, <1>2 DEF Proven

\* Every step preserves types.
LEMMA TypeStep == TypeOK /\ [Next]_vars => TypeOK'
<1> SUFFICES ASSUME TypeOK, [Next]_vars PROVE TypeOK'
  OBVIOUS
<1> USE AccountAuthAssumption
<1>a. account \in AccountRow /\ now \in Nat
  BY DEF TypeOK
<1>p. account.password \in Nat /\ account.secret \in Nat /\ account.lastStep \in Nat
        /\ account.backup \in SUBSET BackupCode
  BY <1>a DEF AccountRow
<1>1. CASE Tick
  BY <1>1 DEF Tick, TypeOK, enrolment
<1>2. ASSUME NEW s \in session, EndSession(s) PROVE TypeOK'
  BY <1>2 DEF EndSession, TypeOK, enrolment
<1>3. ASSUME NEW r \in Request, NEW s \in session, AskIssue(r, s) PROVE TypeOK'
  <2>1. [at |-> "issue", password |-> s.password] \in RequestState
    BY DEF TypeOK, Session, RequestState
  <2> QED
    BY <1>3, <2>1, Entered DEF AskIssue, TypeOK, enrolment
<1>4. ASSUME NEW r \in Request, Issue(r) \/ Sign(r) PROVE TypeOK'
  <2>1. req[r].password \in Nat
    BY <1>4, Carried DEF Issue, Sign
  <2>2. \A k \in {"WEB", "PLUGIN"} :
          [kind |-> k, at |-> now, password |-> req[r].password] \in Session
    BY <1>a, <2>1 DEF Session
  <2>3. session' \in SUBSET Session
    BY <1>4, <2>2 DEF Issue, Sign, TypeOK
  <2> QED
    BY <1>4, <2>3, Left DEF Issue, Sign, TypeOK, enrolment
<1>5. ASSUME NEW r \in Request, ReadLogin(r) \/ ReadPlugin(r) PROVE TypeOK'
  <2>1. Seeing \in Seen
    BY <1>p DEF Seeing, Seen
  <2>2. \A at \in {"login", "plugin"} :
          [at |-> at, seen |-> Seeing, since |-> now] \in RequestState
    BY <2>1, <1>a DEF RequestState
  <2>3. [at |-> "sign", password |-> account.password] \in RequestState
    BY <1>p DEF RequestState
  <2>4. req' \in [Request -> RequestState]
    BY <1>5, <2>2, <2>3, Entered DEF ReadLogin, ReadPlugin
  <2> QED
    BY <1>5, <2>4 DEF ReadLogin, ReadPlugin, TypeOK, enrolment
<1>6. ASSUME NEW r \in Request, NEW c \in Step, TakeTotp(r, c) PROVE TypeOK'
  <2>1. c \in Nat
    BY StepsAreNat
  <2>2. account' \in AccountRow
    BY <1>6, <2>1, <1>a DEF TakeTotp, AccountRow
  <2>3. uses' \in [Secret \X Step -> Nat]
    <3> DEFINE i == <<req[r].seen.secret, c>>
    <3>1. uses' = [x \in Secret \X Step |-> IF x = i THEN uses[i] + 1 ELSE uses[x]]
      BY <1>6 DEF TakeTotp, TypeOK
    <3>2. \A x \in Secret \X Step : uses[x] \in Nat /\ uses[x] + 1 \in Nat
      BY DEF TypeOK
    <3> QED
      BY <3>1, <3>2
  <2> QED
    BY <1>6, <2>2, <2>3, ProvenStep DEF TakeTotp, TypeOK, enrolment
<1>7. ASSUME NEW r \in Request, NEW b \in BackupCode, TakeBackup(r, b) PROVE TypeOK'
  <2>1. account.backup \ {b} \in SUBSET BackupCode
    BY <1>p
  <2>2. account' \in AccountRow
    BY <1>7, <2>1, <1>a DEF TakeBackup, AccountRow, Remaining
  <2>3. burns' \in [BackupCode -> Nat]
    BY <1>7 DEF TakeBackup, TypeOK
  <2> QED
    BY <1>7, <2>2, <2>3, ProvenStep DEF TakeBackup, TypeOK, enrolment
<1>8. ASSUME NEW r \in Request, NEW s \in session, AskSetup(r, s) PROVE TypeOK'
  <2>1. [at |-> "setup"] \in RequestState
    BY DEF RequestState
  <2> QED
    BY <1>8, <2>1, Entered DEF AskSetup, TypeOK, enrolment
<1>9. ASSUME NEW r \in Request, Setup(r) PROVE TypeOK'
  <2>1. secrets' \in Nat /\ account' \in AccountRow
    BY <1>9, <1>a DEF Setup, TypeOK, AccountRow
  <2> QED
    BY <1>9, <2>1, Left DEF Setup, TypeOK
<1>10. ASSUME NEW r \in Request, NEW s \in session, NEW c \in Step, AskVerify(r, s, c)
       PROVE  TypeOK'
  <2>1. [at |-> "verify", secret |-> account.secret, step |-> c] \in RequestState
    BY <1>p, StepsAreNat DEF RequestState
  <2> QED
    BY <1>10, <2>1, Entered DEF AskVerify, TypeOK, enrolment
<1>11. ASSUME NEW r \in Request, Verify(r) PROVE TypeOK'
  <2>1. req[r].secret \in Nat /\ req[r].step \in Nat /\ batches \in Nat
    BY <1>11, Carried DEF Verify, TypeOK
  <2>2. Batch(batches) \in SUBSET BackupCode
    BY <1>11, <2>1, BatchGrows DEF Verify, Batch, BackupCode
  <2>3. account' \in AccountRow
    BY <1>11, <2>1, <2>2, <1>a DEF Verify, AccountRow, EnrolledStep
  <2>4. batches' \in Nat /\ verified' \in Nat
    BY <1>11, <2>1 DEF Verify
  <2>5. uses' \in [Secret \X Step -> Nat]
    BY <1>11 DEF Verify
  <2> QED
    BY <1>11, <2>3, <2>4, <2>5, Left DEF Verify, TypeOK
<1>12. ASSUME NEW r \in Request, NEW s \in session, AskDisable(r, s) PROVE TypeOK'
  <2>1. [at |-> "disable", from |-> s.at] \in RequestState
    BY DEF TypeOK, Session, RequestState
  <2> QED
    BY <1>12, <2>1, Entered DEF AskDisable, TypeOK, enrolment
<1>13. ASSUME NEW r \in Request, Disable(r) PROVE TypeOK'
  <2>1. req[r].from \in Nat
    BY <1>13, Carried DEF Disable
  <2>2. account' \in AccountRow
    BY <1>13, <2>1, <1>a DEF Disable, AccountRow, CutBefore
  <2>3. uses' \in [Secret \X Step -> Nat]
    BY <1>13 DEF Disable
  <2> QED
    BY <1>13, <2>2, <2>3, Left DEF Disable, TypeOK, enrolment
<1>14. ASSUME NEW t \in ResetToken, Forget(t) \/ ExpireToken(t) PROVE TypeOK'
  BY <1>14 DEF Forget, ExpireToken, TypeOK, TokenState, enrolment
<1>15. ASSUME NEW r \in Request, NEW t \in ResetToken, AskReset(r, t) PROVE TypeOK'
  <2>1. [at |-> "reset", token |-> t] \in RequestState
    BY DEF RequestState
  <2> QED
    BY <1>15, <2>1, Entered DEF AskReset, TypeOK, enrolment
<1>m. ASSUME NEW r \in Request, req[r].at \in {"reset", "mark", "purge"},
             NEW at \in {"reset", "mark", "purge"}
      PROVE  [req[r] EXCEPT !.at = at] \in RequestState
  <2>1. req[r] \in [at: {"reset", "mark", "purge"}, token: ResetToken]
    BY <1>m DEF TypeOK, RequestState
  <2>2. [req[r] EXCEPT !.at = at] \in [at: {"reset", "mark", "purge"}, token: ResetToken]
    BY <2>1
  <2> QED
    BY <2>2 DEF RequestState
<1>16. ASSUME NEW r \in Request, Reset(r) PROVE TypeOK'
  <2>1. req' \in [Request -> RequestState]
    BY <1>16, <1>m, Entered DEF Reset
  <2>2. account.password + 1 \in Nat
    BY <1>p
  <2>3. account' = [account EXCEPT !.password = account.password + 1, !.validFrom = now]
    BY <1>16 DEF Reset
  <2>4. account' \in AccountRow
    BY <2>2, <2>3, <1>a DEF AccountRow
  <2> QED
    BY <1>16, <2>1, <2>4 DEF Reset, TypeOK, enrolment
<1>17. ASSUME NEW r \in Request, MarkUsed(r) PROVE TypeOK'
  <2>1. req' \in [Request -> RequestState]
    BY <1>17, <1>m, Entered DEF MarkUsed
  <2> QED
    BY <1>17, <2>1 DEF MarkUsed, TypeOK, TokenState, enrolment
<1>18. ASSUME NEW r \in Request, PurgeSiblings(r) PROVE TypeOK'
  BY <1>18, Left DEF PurgeSiblings, TypeOK, TokenState, enrolment
<1>19. ASSUME NEW r \in Request, Abandon(r) PROVE TypeOK'
  BY <1>19, Left DEF Abandon, TypeOK, enrolment
<1>20. CASE UNCHANGED vars
  BY <1>20 DEF vars, enrolment, TypeOK
<1> QED
  BY <1>1, <1>2, <1>3, <1>4, <1>5, <1>6, <1>7, <1>8, <1>9, <1>10, <1>11, <1>12, <1>13,
     <1>14, <1>15, <1>16, <1>17, <1>18, <1>19, <1>20 DEF Next

\* Only three actions count a code or move lastTotpTimeStep.
LEMMA OtherSteps ==
    ASSUME TypeOK, [Next]_vars,
           ~\E r \in Request : Verify(r) \/ Disable(r) \/ \E c \in Step : TakeTotp(r, c)
    PROVE  uses' = uses /\ account'.lastStep = account.lastStep
<1>1. account \in AccountRow
  BY DEF TypeOK
<1>2. CASE UNCHANGED vars
  BY <1>2 DEF vars
<1>3. CASE \E r \in Request : Setup(r) \/ Reset(r) \/ \E b \in BackupCode : TakeBackup(r, b)
  BY <1>1, <1>3 DEF Setup, Reset, TakeBackup, AccountRow
<1>4. CASE account' = account /\ uses' = uses
  BY <1>4
<1> QED
  BY <1>2, <1>3, <1>4 DEF Next, Tick, EndSession, AskIssue, AskSetup, AskDisable, AskVerify,
     Forget, ExpireToken, AskReset, ReadLogin, ReadPlugin, Sign, Issue, MarkUsed,
     PurgeSiblings, Abandon

\* A step counts a code only if its time step was ahead, and leaves none ahead.
LEMMA CodesStep == IInv /\ [Next]_vars => StepsBehind' /\ CodeOpensOnce'
<1> SUFFICES ASSUME IInv, [Next]_vars PROVE StepsBehind' /\ CodeOpensOnce'
  OBVIOUS
<1> USE DEF IInv
<1>1. account \in AccountRow /\ account.lastStep \in Nat
  BY DEF TypeOK, AccountRow
<1>2. \A x \in Secret \X Step : uses[x] \in Nat /\ x[2] \in Nat
  BY StepsAreNat DEF TypeOK
<1>3. ASSUME NEW r \in Request, NEW c \in Step, TakeTotp(r, c)
      PROVE  StepsBehind' /\ CodeOpensOnce'
  <2> DEFINE i == <<req[r].seen.secret, c>>
  <2>1. c \in Nat /\ account.lastStep < c
    BY <1>3, StepsAreNat DEF TakeTotp, Unconsumed
  <2>2. account'.lastStep = c
    BY <1>3, <1>1 DEF TakeTotp, AccountRow
  <2>3. uses' = [x \in Secret \X Step |-> IF x = i THEN uses[i] + 1 ELSE uses[x]]
    BY <1>3 DEF TakeTotp, TypeOK
  <2>4. i \in Secret \X Step => uses[i] = 0
    <3>1. ASSUME i \in Secret \X Step, uses[i] > 0 PROVE FALSE
      <4>1. i[2] <= account.lastStep
        BY <3>1 DEF StepsBehind
      <4> QED
        BY <4>1, <2>1, <1>1
    <3> QED
      BY <3>1, <1>2
  <2>5. ASSUME NEW x \in Secret \X Step
        PROVE  uses'[x] <= 1 /\ (uses'[x] > 0 => x[2] <= c)
    <3>1. CASE x = i
      BY <3>1, <2>1, <2>3, <2>4
    <3>2. CASE x # i
      <4>1. uses'[x] = uses[x] /\ uses[x] <= 1
        BY <3>2, <2>3 DEF CodeOpensOnce
      <4>2. uses[x] > 0 => x[2] <= account.lastStep
        BY DEF StepsBehind
      <4> QED
        BY <4>1, <4>2, <2>1, <1>1, <1>2
    <3> QED
      BY <3>1, <3>2
  <2> QED
    BY <2>2, <2>5 DEF StepsBehind, CodeOpensOnce
<1>4. ASSUME NEW r \in Request, Verify(r) PROVE StepsBehind' /\ CodeOpensOnce'
  <2>1. account'.lastStep = req[r].step /\ req[r].step \in Nat
    BY <1>4, <1>1, Carried DEF Verify, EnrolledStep, AccountRow
  <2>2. ASSUME NEW x \in Secret \X Step
        PROVE  uses'[x] <= 1 /\ (uses'[x] > 0 => x[2] <= account'.lastStep)
    <3>1. uses'[x] = IF x = <<req[r].secret, req[r].step>> THEN 1 ELSE 0
      BY <1>4 DEF Verify
    <3> QED
      BY <3>1, <2>1
  <2> QED
    BY <2>2 DEF StepsBehind, CodeOpensOnce
<1>5. ASSUME NEW r \in Request, Disable(r) PROVE StepsBehind' /\ CodeOpensOnce'
  BY <1>5 DEF Disable, StepsBehind, CodeOpensOnce
<1>6. CASE uses' = uses /\ account'.lastStep = account.lastStep
  BY <1>6 DEF StepsBehind, CodeOpensOnce
<1> QED
  BY <1>3, <1>4, <1>5, <1>6, OtherSteps

\* Only three actions change the backup codes or count one.
LEMMA OtherBackups ==
    ASSUME TypeOK, [Next]_vars,
           ~\E r \in Request : Verify(r) \/ Disable(r) \/ \E b \in BackupCode : TakeBackup(r, b)
    PROVE  burns' = burns /\ batches' = batches /\ account'.backup = account.backup
<1>1. account \in AccountRow
  BY DEF TypeOK
<1>2. CASE UNCHANGED vars
  BY <1>2 DEF vars, enrolment
<1>3. CASE \E r \in Request : Setup(r) \/ Reset(r) \/ \E c \in Step : TakeTotp(r, c)
  BY <1>1, <1>3 DEF Setup, Reset, TakeTotp, AccountRow, enrolment
<1>4. CASE account' = account /\ burns' = burns /\ batches' = batches
  BY <1>4
<1> QED
  BY <1>2, <1>3, <1>4 DEF Next, Tick, EndSession, AskIssue, AskSetup, AskDisable, AskVerify,
     Forget, ExpireToken, AskReset, ReadLogin, ReadPlugin, Sign, Issue, MarkUsed,
     PurgeSiblings, Abandon, enrolment

\* The codes a request has read are those of the account, or those it had read.
LEMMA SeenStep ==
    ASSUME TypeOK, [Next]_vars, NEW q \in Request, req'[q].at \in {"login", "plugin"}
    PROVE  req'[q] = req[q] \/ req'[q].seen.backup = account.backup
<1> SUFFICES ASSUME req'[q] # req[q] PROVE req'[q].seen.backup = account.backup
  OBVIOUS
<1>1. ASSUME NEW r \in Request, NEW state, Enter(r, state),
             state.at \notin {"login", "plugin"}
      PROVE  FALSE
  BY <1>1, Entered
<1>2. ASSUME NEW r \in Request, Leave(r) PROVE FALSE
  BY <1>2, Left DEF Idle
<1>3. ASSUME NEW r \in Request, Proven(r) PROVE FALSE
  BY <1>3, ProvenStep
<1>4. ASSUME NEW r \in Request, ReadLogin(r) \/ ReadPlugin(r)
      PROVE  req'[q].seen.backup = account.backup
  <2>1. r = q
    BY <1>4, Entered DEF ReadLogin, ReadPlugin
  <2>2. \A at \in {"login", "plugin"} :
          Enter(r, [at |-> at, seen |-> Seeing, since |-> now])
            => req'[q].seen.backup = account.backup
    BY <2>1, Entered DEF Seeing
  <2>3. ~Enter(r, [at |-> "sign", password |-> account.password])
    BY <1>1
  <2> QED
    BY <1>4, <2>2, <2>3 DEF ReadLogin, ReadPlugin
<1>5. ASSUME NEW r \in Request, Reset(r) \/ MarkUsed(r) PROVE FALSE
  <2>1. \A at \in {"mark", "purge"} : [req[r] EXCEPT !.at = at].at = at
    <3>1. req[r] \in [at: {"reset", "mark", "purge"}, token: ResetToken]
      BY <1>5 DEF Reset, MarkUsed, TypeOK, RequestState
    <3> QED
      BY <3>1
  <2> QED
    BY <1>5, <2>1, <1>1 DEF Reset, MarkUsed
<1>6. req' # req
  BY DEF TypeOK
<1>7. ~\E t \in ResetToken : Forget(t) \/ ExpireToken(t)
  BY <1>6 DEF Forget, ExpireToken
<1>8. ~Tick /\ ~UNCHANGED vars /\ ~\E s \in session : EndSession(s)
  BY <1>6 DEF Tick, vars, EndSession
<1>9. ASSUME NEW r \in Request, NEW s \in session,
             AskIssue(r, s) \/ AskSetup(r, s) \/ AskDisable(r, s)
               \/ \E c \in Step : AskVerify(r, s, c)
      PROVE  FALSE
  BY <1>9, <1>1 DEF AskIssue, AskSetup, AskDisable, AskVerify
<1>10. ASSUME NEW r \in Request, NEW t \in ResetToken, AskReset(r, t) PROVE FALSE
  BY <1>10, <1>1 DEF AskReset
<1>11. ASSUME NEW r \in Request,
              Sign(r) \/ Issue(r) \/ Setup(r) \/ Verify(r) \/ Disable(r)
                \/ PurgeSiblings(r) \/ Abandon(r)
       PROVE  FALSE
  BY <1>11, <1>2 DEF Sign, Issue, Setup, Verify, Disable, PurgeSiblings, Abandon
<1>12. ASSUME NEW r \in Request,
              (\E c \in Step : TakeTotp(r, c)) \/ \E b \in BackupCode : TakeBackup(r, b)
       PROVE  FALSE
  BY <1>12, <1>3 DEF TakeTotp, TakeBackup
<1> QED
  BY <1>4, <1>5, <1>7, <1>8, <1>9, <1>10, <1>11, <1>12 DEF Next

\* A used code leaves the account, and a new batch has none that was used.
LEMMA BackupsStep == IInv /\ [Next]_vars => Generated' /\ BurntStaysBurnt'
<1> SUFFICES ASSUME IInv, [Next]_vars PROVE Generated' /\ BurntStaysBurnt'
  OBVIOUS
<1> USE DEF IInv
<1>1. account \in AccountRow /\ account.backup \in SUBSET BackupCode /\ batches \in Nat
  BY DEF TypeOK, AccountRow
<1>2. Last \in Nat
  BY <1>1, BatchGrows DEF Last
<1>3. BackupCode \subseteq Nat /\ \A b \in BackupCode : burns[b] \in Nat
  BY DEF TypeOK, BackupCode
<1>4. \A q \in Request : req[q].at \in {"login", "plugin"} =>
        req[q].seen.backup \in SUBSET BackupCode
  BY Carried DEF Seen
<1>5. \A q \in Request : req'[q].at \in {"login", "plugin"} =>
        \A b \in req'[q].seen.backup : b \in BackupCode /\ b <= Last
  BY <1>1, <1>4, SeenStep DEF Generated
<1>6. ASSUME Last' >= Last, Last' \in Nat,
             \A b \in account'.backup : b <= Last' /\ burns'[b] = 0,
             \A b \in BackupCode : burns'[b] > 0 => b <= Last'
      PROVE  Generated' /\ BurntStaysBurnt'
  <2>1. \A q \in Request : req'[q].at \in {"login", "plugin"} =>
          \A b \in req'[q].seen.backup : b <= Last'
    <3> SUFFICES ASSUME NEW q \in Request, req'[q].at \in {"login", "plugin"},
                        NEW b \in req'[q].seen.backup
                 PROVE  b <= Last'
      OBVIOUS
    <3>1. b \in Nat /\ b <= Last
      BY <1>3, <1>5
    <3> QED
      BY <3>1, <1>2, <1>6
  <2> QED
    BY <1>6, <2>1 DEF Generated, BurntStaysBurnt
<1>7. ASSUME NEW r \in Request, NEW b \in BackupCode, TakeBackup(r, b)
      PROVE  Generated' /\ BurntStaysBurnt'
  <2>1. Last' = Last
    BY <1>7 DEF TakeBackup, enrolment, Last
  <2>2. account'.backup = account.backup \ {b}
    BY <1>7, <1>1 DEF TakeBackup, Remaining, AccountRow
  <2>3. burns' = [x \in BackupCode |-> IF x = b THEN burns[b] + 1 ELSE burns[x]]
    BY <1>7 DEF TakeBackup, TypeOK
  <2>4. b <= Last
    BY <1>7 DEF TakeBackup, Generated
  <2>5. \A x \in account'.backup : x <= Last' /\ burns'[x] = 0
    BY <2>1, <2>2, <2>3, <1>1 DEF Generated, BurntStaysBurnt
  <2>6. \A x \in BackupCode : burns'[x] > 0 => x <= Last'
    BY <2>1, <2>3, <2>4 DEF Generated
  <2> QED
    BY <1>2, <1>6, <2>1, <2>5, <2>6
<1>8. ASSUME NEW r \in Request, Verify(r) PROVE Generated' /\ BurntStaysBurnt'
  <2>1. Last' = Last + BatchSize /\ BatchSize \in Nat
    BY <1>8, <1>1, BatchGrows, AccountAuthAssumption DEF Verify, Last
  <2>2. account'.backup = Batch(batches)
    BY <1>8, <1>1 DEF Verify, AccountRow
  <2>3. burns' = burns
    BY <1>8 DEF Verify
  <2>4. Batch(batches) \subseteq BackupCode
    BY <1>8, <1>1, BatchGrows, AccountAuthAssumption DEF Verify, Batch, BackupCode
  <2>5. \A x \in Batch(batches) : x > Last /\ x <= Last'
    BY <1>2, <2>1 DEF Batch, Last
  <2>6. \A x \in Batch(batches) : burns[x] = 0
    <3> SUFFICES ASSUME NEW x \in Batch(batches) PROVE burns[x] = 0
      OBVIOUS
    <3>1. x \in BackupCode /\ x > Last /\ x \in Nat
      BY <2>4, <2>5, <1>3
    <3> QED
      BY <3>1, <1>2, <1>3 DEF Generated
  <2>7. \A x \in BackupCode : burns'[x] > 0 => x <= Last'
    BY <1>2, <1>3, <2>1, <2>3 DEF Generated
  <2> QED
    BY <1>2, <1>6, <2>1, <2>2, <2>3, <2>5, <2>6, <2>7
<1>9. ASSUME NEW r \in Request, Disable(r) PROVE Generated' /\ BurntStaysBurnt'
  <2>1. account'.backup = {}
    BY <1>9, <1>1 DEF Disable, AccountRow
  <2>2. Last' = Last /\ burns' = burns
    BY <1>9 DEF Disable, enrolment, Last
  <2> QED
    BY <1>2, <1>6, <2>1, <2>2 DEF Generated
<1>10. CASE burns' = burns /\ batches' = batches /\ account'.backup = account.backup
  <2>1. Last' = Last
    BY <1>10 DEF Last
  <2> QED
    BY <1>2, <1>6, <1>10, <2>1 DEF Generated, BurntStaysBurnt
<1> QED
  BY <1>7, <1>8, <1>9, <1>10, OtherBackups

\* IInv holds in every reachable state.
LEMMA Inductive == Spec => []IInv
<1>1. IInv /\ [Next]_vars => IInv'
  BY TypeStep, CodesStep, BackupsStep DEF IInv
<1> QED
  BY InitIInv, <1>1, PTL DEF Spec

\* The account, its sessions, its reset links and the requests on it keep their
\* types.
THEOREM TypeCorrect == Spec => []TypeOK
<1>1. IInv => TypeOK
  BY DEF IInv
<1> QED
  BY Inductive, <1>1, PTL

\* A TOTP code opens one session at most between two rewritings of
\* lastTotpTimeStep, for any number of logins at once.
THEOREM CodeOnce == Spec => []CodeOpensOnce
<1>1. IInv => CodeOpensOnce
  BY DEF IInv
<1> QED
  BY Inductive, <1>1, PTL

\* array_remove keeps a used backup code out of the account for good, for any
\* number of logins at once and of enrolments.
THEOREM BurntOnce == Spec => []BurntStaysBurnt
<1>1. IInv => BurntStaysBurnt
  BY DEF IInv
<1> QED
  BY Inductive, <1>1, PTL

-----------------------------------------------------------------------------
(* The account, while requests do not overlap.                             *)

\* What a request in state c still knows of the account.
Fresh(c) ==
    /\ c.at \in {"sign", "issue"} => c.password = account.password
    /\ c.at \in {"login", "plugin"} => c.seen.password = account.password
    /\ c.at = "disable" => account.validFrom <= c.from
    /\ c.at = "reset" => c.token \notin stale

\* A link known when a reset ended is used or deleted.
DeadLinks == \A t \in stale : resetToken[t] \in {"USED", "GONE"}

SerialInv == serial => OneByOne /\ ResetEvicts /\ \A r \in Request : Fresh(req[r])

AccountInv == IInv /\ DeadLinks /\ SerialInv

LEMMA DeadInit == Init => DeadLinks
  BY DEF Init, DeadLinks

\* A reset that ends leaves no link open, and no link opens again.
LEMMA DeadStep == TypeOK /\ DeadLinks /\ [Next]_vars => DeadLinks'
<1> SUFFICES ASSUME TypeOK, DeadLinks, [Next]_vars PROVE DeadLinks'
  OBVIOUS
<1>1. ASSUME NEW t \in ResetToken, Forget(t) \/ ExpireToken(t) PROVE DeadLinks'
  BY <1>1 DEF Forget, ExpireToken, DeadLinks, TypeOK
<1>2. ASSUME NEW r \in Request, MarkUsed(r) PROVE DeadLinks'
  BY <1>2 DEF MarkUsed, DeadLinks, TypeOK
<1>3. ASSUME NEW r \in Request, PurgeSiblings(r) PROVE DeadLinks'
  BY <1>3 DEF PurgeSiblings, DeadLinks, TypeOK, Unused, TokenState
<1>4. CASE UNCHANGED <<resetToken, stale>>
  BY <1>4 DEF DeadLinks
<1>5. CASE UNCHANGED vars \/ Tick \/ \E s \in session : EndSession(s)
  BY <1>4, <1>5 DEF vars, Tick, EndSession
<1>6. ASSUME NEW r \in Request, NEW s \in session,
             AskIssue(r, s) \/ AskSetup(r, s) \/ AskDisable(r, s)
               \/ \E c \in Step : AskVerify(r, s, c)
      PROVE  DeadLinks'
  BY <1>4, <1>6 DEF AskIssue, AskSetup, AskDisable, AskVerify
<1>7. ASSUME NEW r \in Request,
             \/ ReadLogin(r) \/ ReadPlugin(r) \/ \E t \in ResetToken : AskReset(r, t)
             \/ Sign(r) \/ Issue(r) \/ Setup(r) \/ Verify(r) \/ Disable(r) \/ Reset(r)
             \/ Abandon(r)
      PROVE  DeadLinks'
  BY <1>4, <1>7 DEF AskReset, ReadLogin, ReadPlugin, Sign, Issue, Setup, Verify, Disable,
     Reset, Abandon
<1>8. ASSUME NEW r \in Request,
             (\E c \in Step : TakeTotp(r, c)) \/ \E b \in BackupCode : TakeBackup(r, b)
      PROVE  DeadLinks'
  BY <1>4, <1>8 DEF TakeTotp, TakeBackup
<1> QED
  BY <1>1, <1>2, <1>3, <1>5, <1>6, <1>7, <1>8 DEF Next

LEMMA IdleFresh == Fresh(Idle)
  BY DEF Fresh, Idle

\* No session is cut or opened with another password.
LEMMA EvictsStill ==
    ASSUME ResetEvicts, account'.password = account.password,
           account'.validFrom = account.validFrom,
           \A s \in session' : s \in session \/ s.password = account.password
    PROVE  ResetEvicts'
  BY DEF ResetEvicts, Live

\* A request goes on while the others are idle.
LEMMA SerialEnter ==
    ASSUME TypeOK, SerialInv, serial, UNCHANGED serial, OneByOne',
           NEW r \in Request, NEW c, Enter(r, c), req[r] # Idle \/ c # Idle, Fresh(c),
           ResetEvicts', account'.password = account.password,
           account'.validFrom = account.validFrom, stale' = stale
    PROVE  SerialInv'
<1>1. req'[r] = c /\ \A q \in Request \ {r} : req'[q] = req[q]
  BY Entered
<1>2. \A q \in Request \ {r} : req'[q] = Idle
  BY <1>1 DEF SerialInv, OneByOne
<1>3. ASSUME NEW q \in Request PROVE Fresh(req[q])'
  <2>1. CASE q = r
    BY <1>1, <2>1 DEF Fresh
  <2>2. CASE q # r
    BY <1>2, <2>2 DEF Fresh, Idle
  <2> QED
    BY <2>1, <2>2
<1> QED
  BY <1>3 DEF SerialInv

\* A request ends, and all are idle.
LEMMA SerialLeave ==
    ASSUME TypeOK, SerialInv, serial, UNCHANGED serial,
           NEW r \in Request, req[r] # Idle, Leave(r), ResetEvicts'
    PROVE  SerialInv'
<1>1. req'[r] = Idle /\ \A q \in Request \ {r} : req'[q] = req[q]
  BY Left
<1>2. \A q \in Request : req'[q] = Idle
  BY <1>1 DEF SerialInv, OneByOne
<1>3. \A q \in Request : Fresh(req[q])'
  BY <1>2 DEF Fresh, Idle
<1>4. OneByOne'
  BY <1>2 DEF OneByOne
<1> QED
  BY <1>3, <1>4 DEF SerialInv

\* A step of a request that asks for something.
LEMMA SerialAsk ==
    ASSUME TypeOK, SerialInv, serial, UNCHANGED serial, OneByOne',
           NEW r \in Request, NEW c, Enter(r, c), c # Idle, Fresh(c),
           UNCHANGED <<account, session, stale>>
    PROVE  SerialInv'
<1>1. ResetEvicts'
  BY EvictsStill DEF SerialInv
<1> QED
  BY <1>1, SerialEnter

\* What a serial step starts from.
Serially(A) ==
    /\ TypeOK /\ TypeOK' /\ DeadLinks /\ SerialInv /\ serial /\ UNCHANGED serial
    /\ OneByOne' /\ ResetRuns /\ A

LEMMA AskSerial ==
    ASSUME NEW r \in Request, NEW s \in session,
           Serially(AskIssue(r, s) \/ AskSetup(r, s) \/ AskDisable(r, s)
                      \/ \E c \in Step : AskVerify(r, s, c))
    PROVE  SerialInv'
<1> USE DEF Serially
<1>1. s.at \in Nat /\ account.validFrom \in Nat
  BY DEF TypeOK, Session, AccountRow
<1>2. CASE AskIssue(r, s)
  <2> DEFINE c == [at |-> "issue", password |-> s.password]
  <2>1. Fresh(c) /\ c # Idle
    BY <1>2 DEF AskIssue, SerialInv, ResetEvicts, Fresh, Idle
  <2> QED
    BY <1>2, <2>1, SerialAsk DEF AskIssue
<1>3. CASE AskSetup(r, s)
  <2> DEFINE c == [at |-> "setup"]
  <2>1. Fresh(c) /\ c # Idle
    BY DEF Fresh, Idle
  <2> QED
    BY <1>3, <2>1, SerialAsk DEF AskSetup
<1>4. CASE AskDisable(r, s)
  <2> DEFINE c == [at |-> "disable", from |-> s.at]
  <2>1. Fresh(c) /\ c # Idle
    BY <1>1, <1>4 DEF AskDisable, Live, Fresh, Idle
  <2> QED
    BY <1>4, <2>1, SerialAsk DEF AskDisable
<1>5. ASSUME NEW k \in Step, AskVerify(r, s, k) PROVE SerialInv'
  <2> DEFINE c == [at |-> "verify", secret |-> account.secret, step |-> k]
  <2>1. Fresh(c) /\ c # Idle
    BY DEF Fresh, Idle
  <2> QED
    BY <1>5, <2>1, SerialAsk DEF AskVerify
<1> QED
  BY <1>2, <1>3, <1>4, <1>5

LEMMA ReadSerial ==
    ASSUME NEW r \in Request,
           Serially(ReadLogin(r) \/ ReadPlugin(r) \/ \E t \in ResetToken : AskReset(r, t))
    PROVE  SerialInv'
<1> USE DEF Serially
<1>1. CASE ReadLogin(r) \/ ReadPlugin(r)
  <2>1. PICK c : /\ \/ c.at \in {"login", "plugin"} /\ c.seen = Seeing
                    \/ c.at = "sign" /\ c.password = account.password
                 /\ Enter(r, c)
    BY <1>1 DEF ReadLogin, ReadPlugin
  <2>2. Fresh(c) /\ c # Idle
    BY <2>1 DEF Fresh, Idle, Seeing
  <2> QED
    BY <1>1, <2>1, <2>2, SerialAsk DEF ReadLogin, ReadPlugin
<1>2. ASSUME NEW t \in ResetToken, AskReset(r, t) PROVE SerialInv'
  <2> DEFINE c == [at |-> "reset", token |-> t]
  <2>1. Fresh(c) /\ c # Idle
    BY <1>2 DEF AskReset, DeadLinks, Fresh, Idle
  <2> QED
    BY <1>2, <2>1, SerialAsk DEF AskReset
<1> QED
  BY <1>1, <1>2

\* A request opens a session with the password it has read, which is the account's.
LEMMA OpenSerial ==
    ASSUME NEW r \in Request, Serially(Issue(r) \/ Sign(r))
    PROVE  SerialInv'
<1> USE DEF Serially
<1>1. req[r] # Idle /\ Leave(r) /\ account' = account
  BY DEF Issue, Sign, Idle
<1>2. req[r].password = account.password
  BY DEF Issue, Sign, SerialInv, Fresh
<1>3. \A s \in session' : s \in session \/ s.password = account.password
  BY <1>2 DEF Issue, Sign
<1>4. ResetEvicts'
  BY <1>1, <1>3, EvictsStill DEF SerialInv
<1> QED
  BY <1>1, <1>4, SerialLeave

LEMMA FactorSerial ==
    ASSUME NEW r \in Request,
           Serially((\E c \in Step : TakeTotp(r, c)) \/ \E b \in BackupCode : TakeBackup(r, b))
    PROVE  SerialInv'
<1> USE DEF Serially
<1>1. /\ Proven(r) /\ req[r].at \in {"login", "plugin"} /\ req[r] # Idle /\ stale' = stale
      /\ account'.password = account.password /\ account'.validFrom = account.validFrom
  <2>1. account \in AccountRow
    BY DEF TypeOK
  <2>2. ASSUME NEW c \in Step, TakeTotp(r, c)
        PROVE  /\ Proven(r) /\ req[r].at \in {"login", "plugin"} /\ stale' = stale
               /\ account' = [account EXCEPT !.lastStep = c]
    BY <2>2 DEF TakeTotp
  <2>3. ASSUME NEW b \in BackupCode, TakeBackup(r, b)
        PROVE  /\ Proven(r) /\ req[r].at \in {"login", "plugin"} /\ stale' = stale
               /\ account' = [account EXCEPT !.backup = Remaining(r, b)]
    BY <2>3 DEF TakeBackup
  <2>4. req[r].at \in {"login", "plugin"} => req[r] # Idle
    BY DEF Idle
  <2>5. CASE \E c \in Step : TakeTotp(r, c)
    BY <2>1, <2>2, <2>4, <2>5 DEF AccountRow
  <2>6. CASE \E b \in BackupCode : TakeBackup(r, b)
    BY <2>1, <2>3, <2>4, <2>6 DEF AccountRow
  <2> QED
    BY <2>5, <2>6
<1>2. req[r].seen.password = account.password
  BY <1>1 DEF SerialInv, Fresh
<1>3. CASE req[r].at = "login"
  <2> DEFINE c == [at |-> "sign", password |-> req[r].seen.password]
  <2>1. Fresh(c) /\ c # Idle
    BY <1>2 DEF Fresh, Idle
  <2>2. Enter(r, c) /\ session' = session
    BY <1>1, <1>3 DEF Proven
  <2>3. ResetEvicts'
    BY <1>1, <2>2, EvictsStill DEF SerialInv
  <2> HIDE DEF c
  <2> QED
    BY <1>1, <2>1, <2>2, <2>3, SerialEnter
<1>4. CASE req[r].at = "plugin"
  <2>1. Leave(r) /\ \A s \in session' : s \in session \/ s.password = account.password
    BY <1>1, <1>2, <1>4 DEF Proven
  <2>2. ResetEvicts'
    BY <1>1, <2>1, EvictsStill DEF SerialInv
  <2> QED
    BY <1>1, <2>1, <2>2, SerialLeave
<1> QED
  BY <1>1, <1>3, <1>4

\* The bound does not go back: it becomes the instant of a session that lives.
LEMMA EndSerial ==
    ASSUME NEW r \in Request,
           Serially(Setup(r) \/ Verify(r) \/ Disable(r) \/ PurgeSiblings(r) \/ Abandon(r))
    PROVE  SerialInv'
<1> USE DEF Serially
<1>1. req[r] # Idle /\ Leave(r) /\ session' \subseteq session
  BY DEF Setup, Verify, Disable, PurgeSiblings, Abandon, Idle
<1>2. account'.password = account.password /\ account'.validFrom >= account.validFrom
  <2>1. account \in AccountRow /\ account.validFrom \in Nat
    BY DEF TypeOK, AccountRow
  <2>2. CASE Disable(r)
    <3>1. req[r].from >= account.validFrom /\ req[r].from \in Nat
      BY <2>1, <2>2, Carried DEF Disable, SerialInv, Fresh
    <3> QED
      BY <2>1, <2>2, <3>1 DEF Disable, CutBefore, AccountRow
  <2>3. CASE Setup(r) \/ Verify(r)
    <3>1. \/ account' = [account EXCEPT !.secret = secrets + 1]
          \/ account' = [account EXCEPT !.enabled = TRUE, !.backup = Batch(batches),
                                        !.lastStep = EnrolledStep(r)]
      BY <2>3 DEF Setup, Verify
    <3>2. account'.password = account.password /\ account'.validFrom = account.validFrom
      BY <2>1, <3>1 DEF AccountRow
    <3> QED
      BY <2>1, <3>2
  <2>4. CASE PurgeSiblings(r) \/ Abandon(r)
    BY <2>1, <2>4 DEF PurgeSiblings, Abandon
  <2> QED
    BY <2>2, <2>3, <2>4
<1>3. \A s \in session' : s.at \in Nat
  BY <1>1 DEF TypeOK, Session
<1>4. account.validFrom \in Nat /\ account'.validFrom \in Nat
  BY DEF TypeOK, AccountRow
<1>5. ResetEvicts'
  BY <1>1, <1>2, <1>3, <1>4 DEF SerialInv, ResetEvicts, Live
<1> QED
  BY <1>1, <1>5, SerialLeave

Onward(r, at) == [req[r] EXCEPT !.at = at]

\* A reset cuts all the sessions, which are older than the tick before it.
LEMMA ResetSerial ==
    ASSUME NEW r \in Request, Serially(Reset(r) \/ MarkUsed(r))
    PROVE  SerialInv'
<1> USE DEF Serially
<1>1. req[r].at \in {"reset", "mark"} /\ stale' = stale /\ session' = session
  BY DEF Reset, MarkUsed
<1>2. \A at \in {"mark", "purge"} : Onward(r, at).at = at
  BY <1>1 DEF TypeOK, RequestState, Onward
<1>3. PICK c : c.at \in {"mark", "purge"} /\ Enter(r, c)
  <2>1. CASE Reset(r)
    <3>1. Enter(r, Onward(r, "mark"))
      BY <2>1, Zenon DEF Reset, Onward
    <3> QED
      BY <1>2, <3>1
  <2>2. CASE MarkUsed(r)
    <3>1. Enter(r, Onward(r, "purge"))
      BY <2>2, Zenon DEF MarkUsed, Onward
    <3> QED
      BY <1>2, <3>1
  <2> QED
    BY <2>1, <2>2
<1>4. req'[r] = c /\ \A q \in Request \ {r} : req'[q] = req[q]
  BY <1>3, Entered
<1>5. \A q \in Request \ {r} : req'[q] = Idle
  BY <1>1, <1>4 DEF SerialInv, OneByOne, Idle
<1>6. ASSUME NEW q \in Request PROVE Fresh(req[q])'
  BY <1>3, <1>4, <1>5 DEF Fresh, Idle
<1>7. ResetEvicts'
  <2>1. CASE MarkUsed(r)
    BY <1>1, <2>1, EvictsStill DEF MarkUsed, SerialInv
  <2>2. CASE Reset(r)
    <3>1. req[r].at = "reset" /\ req'[r].at = "mark"
      BY <1>2, <2>2, Entered DEF Reset, Onward
    <3>2. \A s \in session : s.at < now
      BY <3>1 DEF ResetRuns
    <3>3. account'.validFrom = now
      BY <2>2 DEF Reset, TypeOK, AccountRow
    <3>4. now \in Nat /\ \A s \in session : s.at \in Nat
      BY DEF TypeOK, Session
    <3>5. \A s \in session' : ~Live(s)'
      BY <1>1, <3>2, <3>3, <3>4 DEF Live
    <3> QED
      BY <3>5 DEF ResetEvicts
  <2> QED
    BY <2>1, <2>2
<1> QED
  BY <1>6, <1>7 DEF SerialInv

LEMMA SerialNext ==
    ASSUME Serially(Next)
    PROVE  SerialInv'
<1>0. /\ TypeOK /\ TypeOK' /\ DeadLinks /\ SerialInv /\ serial /\ UNCHANGED serial
      /\ OneByOne' /\ ResetRuns /\ Next
  BY DEF Serially
<1>1. ASSUME UNCHANGED <<account, stale, req>>, session' \subseteq session PROVE SerialInv'
  BY <1>0, <1>1 DEF SerialInv, ResetEvicts, Live, Fresh
<1>2. CASE Tick
  BY <1>1, <1>2 DEF Tick
<1>3. ASSUME NEW s \in session, EndSession(s) PROVE SerialInv'
  BY <1>1, <1>3 DEF EndSession
<1>4. ASSUME NEW t \in ResetToken, Forget(t) \/ ExpireToken(t) PROVE SerialInv'
  BY <1>1, <1>4 DEF Forget, ExpireToken
<1>5. ASSUME NEW r \in Request, NEW s \in session,
             AskIssue(r, s) \/ AskSetup(r, s) \/ AskDisable(r, s)
               \/ \E c \in Step : AskVerify(r, s, c)
      PROVE  SerialInv'
  BY <1>0, <1>5, AskSerial DEF Serially
<1>6. ASSUME NEW r \in Request,
             ReadLogin(r) \/ ReadPlugin(r) \/ \E t \in ResetToken : AskReset(r, t)
      PROVE  SerialInv'
  BY <1>0, <1>6, ReadSerial DEF Serially
<1>7. ASSUME NEW r \in Request, Issue(r) \/ Sign(r) PROVE SerialInv'
  BY <1>0, <1>7, OpenSerial DEF Serially
<1>8. ASSUME NEW r \in Request,
             (\E c \in Step : TakeTotp(r, c)) \/ \E b \in BackupCode : TakeBackup(r, b)
      PROVE  SerialInv'
  BY <1>0, <1>8, FactorSerial DEF Serially
<1>9. ASSUME NEW r \in Request,
             Setup(r) \/ Verify(r) \/ Disable(r) \/ PurgeSiblings(r) \/ Abandon(r)
      PROVE  SerialInv'
  BY <1>0, <1>9, EndSerial DEF Serially
<1>10. ASSUME NEW r \in Request, Reset(r) \/ MarkUsed(r) PROVE SerialInv'
  BY <1>0, <1>10, ResetSerial DEF Serially
<1> QED
  BY <1>0, <1>2, <1>3, <1>4, <1>5, <1>6, <1>7, <1>8, <1>9, <1>10 DEF Next

\* AccountInv holds in every state of an account, in either regime.
LEMMA AccountAlways == MCSpec => []AccountInv
<1>1. MCInit => AccountInv
  <2> SUFFICES ASSUME MCInit PROVE AccountInv
    OBVIOUS
  <2>1. IInv /\ DeadLinks
    BY InitIInv, DeadInit DEF MCInit
  <2>2. OneByOne /\ ResetEvicts /\ \A r \in Request : Fresh(req[r])
    BY IdleFresh DEF MCInit, Init, OneByOne, ResetEvicts
  <2> QED
    BY <2>1, <2>2 DEF AccountInv, SerialInv
<1>2. AccountInv /\ [MCNext]_<<vars, keys, side, serial>> => AccountInv'
  <2> SUFFICES ASSUME AccountInv, [MCNext]_<<vars, keys, side, serial>> PROVE AccountInv'
    OBVIOUS
  <2>1. [Next]_vars /\ UNCHANGED serial
    BY DEF MCNext
  <2>2. IInv' /\ DeadLinks'
    BY <2>1, TypeStep, CodesStep, BackupsStep, DeadStep DEF AccountInv, IInv
  <2>3. CASE UNCHANGED vars
    <3>1. UNCHANGED <<account, session, req, stale>> /\ SerialInv
      BY <2>3 DEF vars, AccountInv
    <3>2. ResetEvicts => ResetEvicts'
      BY <3>1 DEF ResetEvicts, Live
    <3>3. \A q \in Request : Fresh(req[q]) => Fresh(req[q])'
      BY <3>1 DEF Fresh
    <3>4. OneByOne => OneByOne'
      BY <3>1 DEF OneByOne
    <3>5. SerialInv'
      BY <2>1, <3>1, <3>2, <3>3, <3>4 DEF SerialInv
    <3> QED
      BY <2>2, <3>5 DEF AccountInv
  <2>4. CASE serial /\ Next /\ ~UNCHANGED vars
    <3>1. OneByOne' /\ ResetRuns
      <4>1. MCNext
        <5>1. CASE UNCHANGED <<vars, keys, side, serial>>
          BY <2>4, <5>1
        <5>2. CASE MCNext
          BY <5>2
        <5> QED
          BY <5>1, <5>2
      <4>2. CASE side = "account" /\ Next /\ IF serial THEN OneByOne' /\ ResetRuns ELSE Overlapped
        BY <2>4, <4>2
      <4> QED
        BY <2>4, <4>1, <4>2, Zenon DEF MCNext
    <3> QED
      BY <2>1, <2>2, <2>4, <3>1, SerialNext DEF AccountInv, IInv, Serially
  <2>5. CASE ~serial
    BY <2>1, <2>2, <2>5 DEF AccountInv, SerialInv
  <2> QED
    BY <2>1, <2>2, <2>3, <2>4, <2>5 DEF AccountInv
<1> QED
  BY <1>1, <1>2, PTL DEF MCSpec

\* As long as requests do not overlap, a reset cuts every session opened with the
\* password it replaces, and neither an enrolment nor the lifting of the second
\* factor revives one.
THEOREM EvictsWhenSerial == MCSpec => []SerialResetEvicts
<1>1. AccountInv => SerialResetEvicts
  BY DEF AccountInv, SerialInv, SerialResetEvicts
<1> QED
  BY <1>1, AccountAlways, PTL

\* As long as requests do not overlap and resets end, no link sent before a reset
\* resets the password again.
THEOREM LinksDieWhenSerial == MCSpec => SerialOldLinksAreDead
<1>1. AccountInv => (serial => \A r \in Request :
         req[r].at = "reset" /\ req'[r].at = "mark" => req[r].token \notin stale)
  BY DEF AccountInv, SerialInv, Fresh
<1> QED
  BY <1>1, AccountAlways, PTL DEF SerialOldLinksAreDead

-----------------------------------------------------------------------------
(* The rotation of the key.                                                *)

\* A triplet opens, under the new key once a dry run found nothing left.
Sure(t) == K!Opens(t) /\ (clean => t.key = env.new)

\* So do the triplets that are stored, and those requests hold.
TripletsOpen ==
    /\ \A i \in K!Row : triplet[i] # None => Sure(triplet[i])
    /\ \A w \in Writer : /\ call[w].at \in {"read", "write"} => Sure(call[w].old)
                         /\ call[w].at = "write" => Sure(call[w].new)

\* The rows the run of the script is past.
Passed(i) ==
    \/ K!Table(i) < script.table
    \/ K!Table(i) = script.table /\ i <= script.last

\* As long as a run found nothing to write, what it is past is under the new key.
NothingLeft ==
    script # K!Idle /\ ~script.left =>
        \A i \in K!Row : Passed(i) /\ triplet[i] # None => triplet[i].key = env.new

\* What the script is about to write is what the rows hold, under the new key.
NextIsRekeyed ==
    script.at = "write" =>
        /\ script.left
        /\ \A i \in K!Row : script.next[i] # None =>
             /\ triplet[i] # None
             /\ script.next[i] = [key |-> env.new, plain |-> triplet[i].plain]

\* The application is down, and the outgoing key deployed, while the script runs.
Halted ==
    /\ K!Window /\ K!Covers
    /\ script # K!Idle => env.old # None
    /\ ~up => \A w \in Writer : call[w] = K!Idle

KeysInv == K!TypeOK /\ Halted /\ TripletsOpen /\ NothingLeft /\ NextIsRekeyed

\* The plaintexts that a step of the script leaves.
PlainsStay ==
    script' # script =>
        \A i \in K!Row : triplet[i] # None =>
            triplet'[i] # None /\ triplet'[i].plain = triplet[i].plain

\* What a step in a maintenance window starts from, and what it must show.
KeyStep(A) == KeysInv /\ K!Window' /\ K!Covers' /\ A
KeyKept == KeysInv' /\ PlainsStay

LEMMA KeyFacts ==
    /\ History \in Nat /\ Slice \in Nat /\ Slice > 0 /\ MaxKey \in Nat /\ MaxKey > 0
    /\ None \notin K!Triplet /\ None \notin 1..MaxKey
    /\ K!Row \subseteq Nat \ {0} /\ K!Current \in K!Row /\ IsFiniteSet(K!Row)
    /\ K!Versions \subseteq K!Row
    /\ \A i \in K!Row : K!Table(i) \in 1..2
<1>1. /\ History \in Nat /\ Slice \in Nat /\ Slice > 0 /\ MaxKey \in Nat /\ MaxKey > 0
      /\ None \notin K!Triplet /\ None \notin 1..MaxKey
  BY KeysAssumption
<1>2. /\ K!Row \subseteq Nat \ {0} /\ K!Current \in K!Row /\ K!Versions \subseteq K!Row
      /\ \A i \in K!Row : K!Table(i) \in 1..2
  BY <1>1 DEF K!Row, K!Current, K!Versions, K!Table
<1>3. IsFiniteSet(K!Row)
  BY <1>1, FS_Interval DEF K!Row
<1> QED
  BY <1>1, <1>2, <1>3

\* The columns of what runs.
LEMMA ScriptIs ==
    ASSUME K!TypeOK
    PROVE  /\ script = K!Idle \/ script \in K!ScriptRun
           /\ K!Idle.at = "idle"
           /\ script.at \in {"scan", "write"} => script # K!Idle /\ script \in K!ScriptRun
           /\ script # K!Idle => script.table \in 1..2 /\ script.last \in Nat
  BY DEF K!TypeOK, K!Idle, K!ScriptRun

LEMMA CallIs ==
    ASSUME K!TypeOK, NEW w \in Writer
    PROVE  /\ call[w].at \in {"read", "write"} => call[w].old \in K!Triplet
           /\ call[w].at = "write" => call[w].new \in K!Triplet
           /\ call[w] = K!Idle \/ call[w].at \in {"read", "write"}
           /\ K!Idle.at = "idle"
<1>1. call[w] \in K!InFlight
  BY DEF K!TypeOK
<1> QED
  BY <1>1 DEF K!InFlight, K!Idle

LEMMA TripletIs == \A t \in K!Triplet : t # None /\ t.key \in 1..MaxKey /\ t.plain \in Value
  BY KeyFacts DEF K!Triplet

LEMMA KeysInit == K!Init => KeysInv
<1> SUFFICES ASSUME K!Init PROVE KeysInv
  OBVIOUS
<1>1. PICK v \in Value :
        triplet = [i \in K!Row |-> IF i = K!Current THEN [key |-> 1, plain |-> v] ELSE None]
  BY DEF K!Init
<1>2. [key |-> 1, plain |-> v] \in K!Triplet
  BY KeyFacts DEF K!Triplet
<1>3. /\ triplet \in [K!Row -> K!Triplet \cup {None}] /\ triplet[K!Current] # None
      /\ \A i \in K!Row : triplet[i] # None => triplet[i].key = 1
  BY <1>1, <1>2, KeyFacts
<1>4. K!TypeOK
  <2>1. env \in [new: 1..MaxKey, old: 1..MaxKey \cup {None}]
    BY KeyFacts DEF K!Init
  <2>2. call \in [Writer -> K!InFlight] /\ script \in {K!Idle} \cup K!ScriptRun
    BY DEF K!Init, K!InFlight
  <2>3. up \in BOOLEAN /\ clean \in BOOLEAN
    BY DEF K!Init
  <2> QED
    BY <1>3, <2>1, <2>2, <2>3 DEF K!TypeOK
<1>5. \A w \in Writer : call[w].at = "idle"
  BY DEF K!Init, K!Idle
<1>6. TripletsOpen
  BY <1>3, <1>5 DEF TripletsOpen, Sure, K!Opens, K!Init
<1>7. script = K!Idle /\ K!Idle.at = "idle"
  BY DEF K!Init, K!Idle
<1> QED
  BY <1>4, <1>6, <1>7 DEF KeysInv, Halted, K!Window, K!Covers, NothingLeft, NextIsRekeyed, K!Init

\* A step that leaves the rows, the keys and the script.
LEMMA QuietKeeps ==
    ASSUME KeysInv, UNCHANGED <<triplet, env, script>>
    PROVE  NothingLeft' /\ NextIsRekeyed' /\ PlainsStay
  BY DEF KeysInv, NothingLeft, NextIsRekeyed, PlainsStay, Passed

LEMMA SureStays ==
    ASSUME env' = env, clean' = clean
    PROVE  \A t : Sure(t)' <=> Sure(t)
  BY DEF Sure, K!Opens

\* A request of the application goes on.
LEMMA CallKeeps ==
    ASSUME KeysInv, K!Window', K!Covers', NEW w \in Writer, NEW c \in K!InFlight,
           up, call' = [call EXCEPT ![w] = c], UNCHANGED <<triplet, env, up, script, clean>>,
           c.at \in {"read", "write"} => Sure(c.old),
           c.at = "write" => Sure(c.new)
    PROVE  KeyKept
<1>1. K!TypeOK'
  BY DEF KeysInv, K!TypeOK
<1>2. call'[w] = c /\ \A v \in Writer \ {w} : call'[v] = call[v]
  BY DEF KeysInv, K!TypeOK
<1>3. TripletsOpen'
  <2>1. \A i \in K!Row : triplet'[i] # None => Sure(triplet'[i])
    BY DEF KeysInv, TripletsOpen
  <2>2. \A v \in Writer : /\ call'[v].at \in {"read", "write"} => Sure(call'[v].old)
                          /\ call'[v].at = "write" => Sure(call'[v].new)
    BY <1>2 DEF KeysInv, TripletsOpen
  <2> QED
    BY <2>1, <2>2 DEF TripletsOpen, Sure, K!Opens
<1>4. Halted'
  BY DEF KeysInv, Halted
<1> QED
  BY <1>1, <1>3, <1>4, QuietKeeps DEF KeyKept, KeysInv

LEMMA AskWriteKeeps ==
    ASSUME NEW w \in Writer, KeyStep(K!AskWrite(w))
    PROVE  KeyKept
<1> USE DEF KeyStep
<1> DEFINE c == [at |-> "read", old |-> triplet[K!Current]]
<1>1. triplet[K!Current] \in K!Triplet /\ triplet[K!Current] # None
  BY KeyFacts DEF KeysInv, K!TypeOK
<1>2. c \in K!InFlight
  BY <1>1 DEF K!InFlight
<1>3. Sure(c.old) /\ c.at = "read"
  BY <1>1, KeyFacts DEF KeysInv, TripletsOpen
<1>4. up /\ call' = [call EXCEPT ![w] = c] /\ UNCHANGED <<triplet, env, up, script, clean>>
  BY DEF K!AskWrite
<1> HIDE DEF c
<1> QED
  BY <1>2, <1>3, <1>4, CallKeeps

LEMMA ChooseKeeps ==
    ASSUME NEW w \in Writer, NEW t \in K!Triplet, Sure(t), KeyStep(K!Choose(w, t))
    PROVE  KeyKept
<1> USE DEF KeyStep
<1> DEFINE c == [at |-> "write", old |-> call[w].old, new |-> t]
<1>1. call[w].at = "read"
  BY DEF K!Choose
<1>2. call[w].old \in K!Triplet /\ Sure(call[w].old)
  BY <1>1, CallIs DEF KeysInv, TripletsOpen
<1>3. c \in K!InFlight /\ c.at = "write" /\ Sure(c.old) /\ Sure(c.new)
  BY <1>2 DEF K!InFlight
<1>4. up
  BY <1>1, CallIs DEF KeysInv, Halted
<1>5. call' = [call EXCEPT ![w] = c] /\ UNCHANGED <<triplet, env, up, script, clean>>
  BY DEF K!Choose
<1> HIDE DEF c
<1> QED
  BY <1>3, <1>4, <1>5, CallKeeps

LEMMA CommitKeeps ==
    ASSUME NEW w \in Writer, KeyStep(K!Commit(w))
    PROVE  KeyKept
<1> USE DEF KeyStep
<1>1. call[w].at = "write" /\ UNCHANGED <<env, up, script, clean>>
  BY DEF K!Commit
<1>2. /\ call[w].old \in K!Triplet /\ call[w].new \in K!Triplet
      /\ Sure(call[w].old) /\ Sure(call[w].new)
  BY <1>1, CallIs DEF KeysInv, TripletsOpen
<1>3. up /\ script = K!Idle
  BY <1>1, CallIs DEF KeysInv, Halted, K!Window
<1>4. PICK i \in K!Versions :
        triplet' = [triplet EXCEPT ![K!Current] = call[w].new, ![i] = call[w].old]
  BY DEF K!Commit
<1>5. i \in K!Row /\ i # K!Current
  BY <1>4, KeyFacts DEF K!Versions
<1>6. /\ triplet' \in [K!Row -> K!Triplet \cup {None}]
      /\ triplet'[K!Current] = call[w].new
      /\ \A j \in K!Row : triplet'[j] # None =>
           triplet'[j] \in {call[w].new, call[w].old} \/ triplet'[j] = triplet[j]
  BY <1>2, <1>4, <1>5, KeyFacts DEF KeysInv, K!TypeOK
<1>7. call' = [call EXCEPT ![w] = K!Idle] /\ K!Idle \in K!InFlight /\ K!Idle.at = "idle"
  BY DEF K!Commit, K!InFlight, K!Idle
<1>8. K!TypeOK'
  BY <1>1, <1>2, <1>6, <1>7, TripletIs DEF KeysInv, K!TypeOK
<1>9. TripletsOpen'
  <2>1. \A j \in K!Row : triplet'[j] # None => Sure(triplet'[j])
    BY <1>2, <1>6 DEF KeysInv, TripletsOpen
  <2>2. \A v \in Writer : /\ call'[v].at \in {"read", "write"} => Sure(call'[v].old)
                          /\ call'[v].at = "write" => Sure(call'[v].new)
    BY <1>7 DEF KeysInv, TripletsOpen, K!TypeOK
  <2> QED
    BY <1>1, <2>1, <2>2 DEF TripletsOpen, Sure, K!Opens
<1> QED
  BY <1>1, <1>3, <1>7, <1>8, <1>9 DEF KeyKept, KeysInv, Halted, K!Window, NothingLeft,
     NextIsRekeyed, PlainsStay

\* The operator.
LEMMA OperatorKeeps ==
    ASSUME KeyStep(K!Halt \/ K!Launch \/ K!DeployKey \/ K!DropOld)
    PROVE  KeyKept
<1> USE DEF KeyStep
<1>1. UNCHANGED <<triplet, script>>
  BY DEF K!Halt, K!Launch, K!DeployKey, K!DropOld
<1>2. CASE K!Halt
  <2>1. UNCHANGED <<env, clean>> /\ up' = FALSE /\ \A w \in Writer : call'[w] = K!Idle
    BY <1>2 DEF K!Halt
  <2>2. K!Idle \in K!InFlight /\ K!Idle.at = "idle"
    BY DEF K!InFlight, K!Idle
  <2>3. K!TypeOK'
    BY <1>1, <1>2, <2>2 DEF K!Halt, KeysInv, K!TypeOK
  <2>4. TripletsOpen'
    BY <1>1, <2>1, <2>2 DEF KeysInv, TripletsOpen, Sure, K!Opens
  <2>5. Halted'
    BY <1>1, <2>1 DEF KeysInv, Halted
  <2> QED
    BY <1>1, <2>1, <2>3, <2>4, <2>5, QuietKeeps DEF KeyKept, KeysInv
<1>3. CASE K!Launch
  <2>1. UNCHANGED <<env, clean, call>> /\ up' = TRUE
    BY <1>3 DEF K!Launch
  <2>2. K!TypeOK' /\ TripletsOpen' /\ Halted'
    BY <1>1, <2>1 DEF KeysInv, K!TypeOK, TripletsOpen, Sure, K!Opens, Halted
  <2> QED
    BY <1>1, <2>1, <2>2, QuietKeeps DEF KeyKept, KeysInv
<1>4. CASE K!DeployKey
  <2>1. /\ UNCHANGED <<up, call>> /\ clean' = FALSE
        /\ env' = [new |-> env.new + 1, old |-> env.new] /\ env.old = None /\ env.new < MaxKey
    BY <1>4 DEF K!DeployKey
  <2>2. script = K!Idle /\ K!Idle.at = "idle"
    BY <2>1 DEF KeysInv, Halted, K!Idle
  <2>3. env.new \in 1..MaxKey
    BY DEF KeysInv, K!TypeOK
  <2>4. K!TypeOK'
    <3>1. env.new + 1 \in 1..MaxKey
      BY <2>1, <2>3, KeyFacts
    <3>2. env' \in [new: 1..MaxKey, old: 1..MaxKey \cup {None}]
      BY <2>1, <2>3, <3>1
    <3> QED
      BY <1>1, <2>1, <3>2 DEF KeysInv, K!TypeOK
  <2>5. \A t \in K!Triplet : Sure(t) => Sure(t)'
    BY <2>1, TripletIs, KeyFacts DEF Sure, K!Opens
  <2>6. \A i \in K!Row : triplet'[i] # None => Sure(triplet[i])'
    BY <1>1, <2>5 DEF KeysInv, TripletsOpen, K!TypeOK
  <2>7. ~up
    BY <1>4 DEF K!DeployKey
  <2>8. \A w \in Writer : call'[w] = K!Idle
    BY <2>1, <2>7 DEF KeysInv, Halted
  <2>9. TripletsOpen'
    BY <2>2, <2>6, <2>8 DEF TripletsOpen
  <2>10. Halted' /\ NothingLeft' /\ NextIsRekeyed' /\ PlainsStay
    BY <1>1, <2>2, <2>8 DEF Halted, NothingLeft, NextIsRekeyed, PlainsStay
  <2> QED
    BY <2>4, <2>9, <2>10 DEF KeyKept, KeysInv
<1>5. CASE K!DropOld
  <2>1. /\ UNCHANGED <<up, call, clean>> /\ clean /\ ~up /\ script = K!Idle
        /\ env' = [env EXCEPT !.old = None]
    BY <1>5 DEF K!DropOld
  <2>2. env'.new = env.new /\ env' \in [new: 1..MaxKey, old: 1..MaxKey \cup {None}]
    BY <2>1 DEF KeysInv, K!TypeOK
  <2>3. K!TypeOK'
    BY <1>1, <2>1, <2>2 DEF KeysInv, K!TypeOK
  <2>4. \A t : Sure(t) => Sure(t)'
    BY <2>1, <2>2 DEF Sure, K!Opens
  <2>5. K!Idle.at = "idle" /\ \A w \in Writer : call'[w] = K!Idle
    BY <2>1 DEF KeysInv, Halted, K!Idle
  <2>6. \A i \in K!Row : triplet'[i] # None => Sure(triplet[i])'
    BY <1>1, <2>4 DEF KeysInv, TripletsOpen
  <2>7. TripletsOpen'
    BY <2>5, <2>6 DEF TripletsOpen
  <2>8. Halted' /\ NothingLeft' /\ NextIsRekeyed' /\ PlainsStay
    BY <1>1, <2>1, <2>5 DEF Halted, NothingLeft, NextIsRekeyed, PlainsStay
  <2> QED
    BY <2>3, <2>7, <2>8 DEF KeyKept, KeysInv
<1> QED
  BY <1>2, <1>3, <1>4, <1>5

-----------------------------------------------------------------------------
(* The script.                                                             *)

\* What the script reads ends at the last row of the batch, and leaves none before.
LEMMA GreatestIs ==
    ASSUME NEW n \in Nat, NEW S \in SUBSET (1..n), S # {}
    PROVE  \E x \in S : \A y \in S : y <= x
<1> DEFINE T == {n - x : x \in S}
<1>1. T \in SUBSET Nat /\ T # {}
  <2>1. \A x \in S : n - x \in Nat
    OBVIOUS
  <2> QED
    BY <2>1
<1> DEFINE less == {ss \in Nat \X Nat : ss[1] < ss[2]}
<1>2. \A x, y \in Nat : <<x, y>> \in less <=> x < y
  OBVIOUS
<1>3. IsWellFoundedOn(less, Nat)
  BY NatLessThanWellFounded DEF OpToRel
<1> HIDE DEF less
<1>4. PICK m \in T : \A y \in T : ~(<<y, m>> \in less)
  BY <1>1, <1>3, WFMin
<1>5. PICK x \in S : m = n - x
  BY <1>4
<1>6. ASSUME NEW y \in S PROVE y <= x
  <2>1. n - y \in T /\ n - y \in Nat /\ m \in Nat
    BY <1>1, <1>4
  <2>2. ~(n - y < m)
    BY <1>2, <1>4, <2>1
  <2> QED
    BY <1>5, <2>2
<1> QED
  BY <1>6

LEMMA LeastIs ==
    ASSUME NEW n \in Nat, NEW S \in SUBSET (1..n), S # {}
    PROVE  \E x \in S : \A y \in S : x <= y
<1> DEFINE T == {n + 1 - x : x \in S}
<1>1. T \in SUBSET (1..n) /\ T # {}
  <2>1. \A x \in S : n + 1 - x \in 1..n
    OBVIOUS
  <2> QED
    BY <2>1
<1>2. PICK m \in T : \A y \in T : y <= m
  BY <1>1, GreatestIs
<1>3. PICK x \in S : m = n + 1 - x
  BY <1>2
<1>4. ASSUME NEW y \in S PROVE x <= y
  <2>1. n + 1 - y <= m
    BY <1>2
  <2> QED
    BY <1>3, <2>1
<1> QED
  BY <1>4

LEMMA SameSize == \A S : K!Cardinality(S) = Cardinality(S)
  BY DEF K!Cardinality, Cardinality

LEMMA LotIs ==
    ASSUME K!Rest # {}
    PROVE  /\ K!Lot \subseteq K!Rest /\ K!Rest \subseteq K!Row
           /\ K!Last(K!Lot) \in K!Row
           /\ \A i \in K!Rest : i <= K!Last(K!Lot) => i \in K!Lot
<1>1. K!Lot \subseteq K!Rest /\ K!Rest \subseteq K!Row /\ K!Lot \subseteq K!Row
  BY DEF K!Lot, K!Rest
<1>b. \A i : i \in K!Lot <=> i \in K!Rest /\ Cardinality(K!Before(i)) < Slice
  BY SameSize DEF K!Lot
<1>2. K!Row = 1..(History + 1) /\ History + 1 \in Nat
  BY KeyFacts DEF K!Row
<1>3. K!Lot # {}
  <2>1. PICK i \in K!Rest : \A j \in K!Rest : i <= j
    BY <1>1, <1>2, LeastIs
  <2>2. \A j \in K!Rest : ~(j < i)
    BY <1>1, <2>1, KeyFacts
  <2>3. K!Before(i) = {}
    BY <2>2 DEF K!Before
  <2>4. Cardinality(K!Before(i)) = 0
    BY <2>3, FS_EmptySet
  <2> QED
    BY <1>b, <2>1, <2>4, KeyFacts
<1>4. PICK x \in K!Lot : \A j \in K!Lot : j <= x
  BY <1>1, <1>2, <1>3, GreatestIs
<1>5. K!Last(K!Lot) \in K!Lot /\ \A j \in K!Lot : j <= K!Last(K!Lot)
  BY <1>4 DEF K!Last
<1>6. ASSUME NEW i \in K!Rest, i <= K!Last(K!Lot) PROVE i \in K!Lot
  <2> DEFINE A == K!Before(i)
             B == K!Before(K!Last(K!Lot))
  <2>1. K!Last(K!Lot) \in Nat /\ K!Rest \subseteq Nat
    BY <1>1, <1>5, KeyFacts
  <2>2. A \subseteq B /\ B \subseteq K!Row
    <3>1. i \in Nat
      BY <2>1
    <3>2. \A j \in K!Rest : j < i => j < K!Last(K!Lot)
      BY <1>6, <2>1, <3>1
    <3> QED
      BY <1>1, <3>2 DEF K!Before
  <2>3. IsFiniteSet(B) /\ IsFiniteSet(A)
    BY <2>2, KeyFacts, FS_Subset
  <2>4. Cardinality(A) <= Cardinality(B)
    BY <2>2, <2>3, FS_Subset
  <2>5. Cardinality(B) < Slice
    BY <1>b, <1>5
  <2>6. Cardinality(A) \in Nat /\ Cardinality(B) \in Nat
    BY <2>3, FS_CardinalityType
  <2>7. Cardinality(A) < Slice
    BY <2>4, <2>5, <2>6, KeyFacts
  <2> QED
    BY <1>b, <2>7
<1> QED
  BY <1>1, <1>5, <1>6

\* While the script runs the application is down: the rows are as it reads them.
LEMMA RunningIs ==
    ASSUME KeysInv, script.at \in {"scan", "write"}
    PROVE  /\ script \in K!ScriptRun /\ script # K!Idle /\ K!Idle.at = "idle"
           /\ script.public /\ ~up /\ env.old # None
           /\ \A w \in Writer : call[w].at = "idle"
<1>1. script \in K!ScriptRun /\ script # K!Idle /\ K!Idle.at = "idle"
  BY ScriptIs DEF KeysInv
<1> QED
  BY <1>1 DEF KeysInv, Halted, K!Window, K!Covers

LEMMA RunKeeps ==
    ASSUME NEW apply \in BOOLEAN, NEW public \in BOOLEAN, KeyStep(K!Run(apply, public))
    PROVE  KeyKept
<1> USE DEF KeyStep
<1>1. /\ script' = [at |-> "scan", apply |-> apply, public |-> public, table |-> 1,
                    last |-> 0, left |-> FALSE, next |-> K!NoRow]
      /\ UNCHANGED <<triplet, env, up, call, clean>> /\ env.old # None
  BY DEF K!Run
<1>2. K!NoRow \in [K!Row -> K!Triplet \cup {None}]
  BY DEF K!NoRow
<1>3. script' \in K!ScriptRun
  BY <1>1, <1>2 DEF K!ScriptRun
<1>4. K!TypeOK'
  BY <1>1, <1>3 DEF KeysInv, K!TypeOK
<1>5. TripletsOpen'
  BY <1>1 DEF KeysInv, TripletsOpen, Sure, K!Opens
<1>6. Halted'
  BY <1>1 DEF KeysInv, Halted
<1>7. NothingLeft'
  <2>1. \A i \in K!Row : ~Passed(i)'
    BY <1>1, KeyFacts DEF Passed
  <2> QED
    BY <2>1 DEF NothingLeft
<1>8. NextIsRekeyed' /\ PlainsStay
  BY <1>1 DEF NextIsRekeyed, PlainsStay
<1> QED
  BY <1>4, <1>5, <1>6, <1>7, <1>8 DEF KeyKept, KeysInv

LEMMA ScanKeeps ==
    ASSUME KeyStep(K!Scan)
    PROVE  KeyKept
<1> USE DEF KeyStep
<1>1. script.at = "scan" /\ K!Rest # {} /\ UNCHANGED <<triplet, env, up, call, clean>>
  BY DEF K!Scan
<1> DEFINE due == IF script.apply THEN K!Stale(K!Lot) ELSE {}
           next == [i \in K!Row |-> IF i \in due THEN K!Rekeyed(i) ELSE None]
<1>2. /\ script' = [script EXCEPT !.at = IF due # {} THEN "write" ELSE "scan",
                                 !.last = K!Last(K!Lot),
                                 !.left = script.left \/ K!Stale(K!Lot) # {},
                                 !.next = next]
  BY DEF K!Scan
<1>3. due \subseteq K!Stale(K!Lot) /\ K!Stale(K!Lot) \subseteq K!Lot
  BY DEF K!Stale
<1>4. \A i \in due : i \in K!Row /\ triplet[i] # None /\ triplet[i] \in K!Triplet
  BY <1>1, <1>3, LotIs DEF K!Rest, KeysInv, K!TypeOK
<1>5. \A i \in due : /\ K!Rekeyed(i) = [key |-> env.new, plain |-> triplet[i].plain]
                       /\ K!Rekeyed(i) \in K!Triplet
  BY <1>4 DEF K!Rekeyed, K!Encrypt, K!Triplet, KeysInv, K!TypeOK
<1>6. next \in [K!Row -> K!Triplet \cup {None}]
  BY <1>5
<1>7. \A i \in K!Row : next[i] # None =>
        triplet[i] # None /\ next[i] = [key |-> env.new, plain |-> triplet[i].plain]
  BY <1>4, <1>5
<1> HIDE DEF due, next
<1>8. script \in K!ScriptRun /\ script.public /\ script # K!Idle /\ script.left \in BOOLEAN
  BY <1>1, RunningIs DEF K!ScriptRun
<1>9. K!Last(K!Lot) \in Nat
  BY <1>1, LotIs, KeyFacts
<1>10. /\ script'.at = (IF due # {} THEN "write" ELSE "scan") /\ script'.next = next
       /\ script'.table = script.table /\ script'.last = K!Last(K!Lot)
       /\ script'.left = (script.left \/ K!Stale(K!Lot) # {})
       /\ script' \in K!ScriptRun
  <2> DEFINE at == IF due # {} THEN "write" ELSE "scan"
             left == script.left \/ K!Stale(K!Lot) # {}
             last == K!Last(K!Lot)
  <2>1. at \in {"scan", "write"} /\ left \in BOOLEAN /\ last \in Nat
    BY <1>8, <1>9
  <2>2. script' = [script EXCEPT !.at = at, !.last = last, !.left = left, !.next = next]
    BY <1>2
  <2> HIDE DEF at, left, last
  <2>3. /\ script'.at = at /\ script'.next = next /\ script'.table = script.table
        /\ script'.last = last /\ script'.left = left
    BY <1>8, <2>2 DEF K!ScriptRun
  <2>4. script' \in K!ScriptRun
    BY <1>6, <1>8, <2>1, <2>2 DEF K!ScriptRun
  <2> QED
    BY <2>3, <2>4 DEF at, left, last
<1>11. K!TypeOK'
  BY <1>1, <1>10 DEF KeysInv, K!TypeOK
<1>12. TripletsOpen' /\ Halted'
  BY <1>1, <1>8 DEF KeysInv, TripletsOpen, Sure, K!Opens, Halted
<1>13. NothingLeft'
  <2> SUFFICES ASSUME ~script'.left, NEW i \in K!Row, Passed(i)', triplet[i] # None
               PROVE  triplet[i].key = env.new
    BY <1>1 DEF NothingLeft
  <2>1. ~script.left /\ K!Stale(K!Lot) = {}
    BY <1>10
  <2>2. CASE Passed(i)
    BY <1>8, <2>1, <2>2 DEF KeysInv, NothingLeft
  <2>3. CASE ~Passed(i)
    <3>1. i > script.last /\ K!Table(i) = script.table /\ i <= K!Last(K!Lot)
      <4>1. script.table \in 1..2 /\ script.last \in Nat /\ i \in Nat /\ K!Table(i) \in 1..2
        BY <1>8, KeyFacts DEF K!ScriptRun
      <4>2. K!Table(i) < script.table \/ (K!Table(i) = script.table /\ i <= K!Last(K!Lot))
        BY <1>10 DEF Passed
      <4> QED
        BY <2>3, <4>1, <4>2 DEF Passed
    <3>2. i \in K!Rest
      BY <1>8, <3>1 DEF K!Rest
    <3>3. i \in K!Lot
      BY <1>1, <3>1, <3>2, LotIs
    <3>4. triplet[i].key # env.old
      BY <2>1, <3>3 DEF K!Stale
    <3>5. K!Opens(triplet[i])
      BY DEF KeysInv, TripletsOpen, Sure
    <3> QED
      BY <3>4, <3>5 DEF K!Opens
  <2> QED
    BY <2>2, <2>3
<1>14. NextIsRekeyed'
  <2>1. script'.at = "write" => script'.left
    BY <1>3, <1>10
  <2> QED
    BY <1>1, <1>7, <1>10, <2>1 DEF NextIsRekeyed
<1>15. PlainsStay
  BY <1>1 DEF PlainsStay
<1> QED
  BY <1>11, <1>12, <1>13, <1>14, <1>15 DEF KeyKept, KeysInv

LEMMA WriteKeeps ==
    ASSUME KeyStep(K!Write)
    PROVE  KeyKept
<1> USE DEF KeyStep
<1>1. /\ script.at = "write" /\ UNCHANGED <<env, up, call, clean>>
      /\ script' = [script EXCEPT !.at = "scan", !.next = K!NoRow]
      /\ triplet' = [i \in K!Row |-> IF script.next[i] # None /\ triplet[i] # None
                                     THEN script.next[i] ELSE triplet[i]]
  BY DEF K!Write
<1>2. /\ script \in K!ScriptRun /\ script # K!Idle /\ ~up
      /\ \A w \in Writer : call[w].at = "idle"
  BY <1>1, RunningIs
<1>3. K!NoRow \in [K!Row -> K!Triplet \cup {None}]
  BY DEF K!NoRow
<1>4. /\ script' \in K!ScriptRun /\ script'.at = "scan" /\ script'.left = script.left
      /\ script.left
  BY <1>1, <1>2, <1>3 DEF K!ScriptRun, KeysInv, NextIsRekeyed
<1>5. \A i \in K!Row : script.next[i] # None =>
        /\ triplet[i] # None
        /\ script.next[i] = [key |-> env.new, plain |-> triplet[i].plain]
        /\ script.next[i] \in K!Triplet
  BY <1>1, <1>2 DEF KeysInv, NextIsRekeyed, K!ScriptRun
<1>6. ASSUME NEW i \in K!Row, triplet[i] # None
      PROVE  /\ triplet'[i] \in K!Triplet /\ triplet'[i] # None
             /\ triplet'[i].plain = triplet[i].plain
             /\ triplet'[i] = triplet[i] \/ triplet'[i].key = env.new
  <2>1. triplet[i] \in K!Triplet
    BY <1>6 DEF KeysInv, K!TypeOK
  <2>2. CASE script.next[i] # None
    <3>1. triplet'[i] = script.next[i]
      BY <1>1, <1>6, <2>2
    <3>2. triplet'[i] = [key |-> env.new, plain |-> triplet[i].plain]
      BY <1>5, <2>2, <3>1
    <3>3. triplet'[i] \in K!Triplet /\ triplet'[i] # None
      BY <1>5, <2>2, <3>1, TripletIs
    <3> QED
      BY <3>2, <3>3
  <2>3. CASE script.next[i] = None
    BY <1>1, <1>6, <2>1, <2>3
  <2> QED
    BY <2>2, <2>3
<1>7. \A i \in K!Row : triplet[i] = None => triplet'[i] = None
  BY <1>1, <1>5
<1>8. K!TypeOK'
  <2>1. triplet' \in [K!Row -> K!Triplet \cup {None}]
    BY <1>1, <1>6, <1>7 DEF KeysInv, K!TypeOK
  <2>2. triplet'[K!Current] # None
    BY <1>6, KeyFacts DEF KeysInv, K!TypeOK
  <2> QED
    BY <1>1, <1>4, <2>1, <2>2 DEF KeysInv, K!TypeOK
<1>9. TripletsOpen'
  <2>1. \A i \in K!Row : triplet'[i] # None => Sure(triplet'[i])
    BY <1>6, <1>7 DEF KeysInv, TripletsOpen, Sure, K!Opens
  <2> QED
    BY <1>1, <1>2, <2>1 DEF TripletsOpen, Sure, K!Opens
<1>10. Halted' /\ NothingLeft' /\ NextIsRekeyed' /\ PlainsStay
  BY <1>1, <1>2, <1>4, <1>6 DEF KeysInv, Halted, NothingLeft, NextIsRekeyed, PlainsStay
<1> QED
  BY <1>8, <1>9, <1>10 DEF KeyKept, KeysInv

LEMMA NextTableKeeps ==
    ASSUME KeyStep(K!NextTable)
    PROVE  KeyKept
<1> USE DEF KeyStep
<1>1. /\ script.at = "scan" /\ K!Rest = {} /\ script.table = 1
      /\ script' = [script EXCEPT !.table = 2, !.last = 0]
      /\ UNCHANGED <<triplet, env, up, call, clean>>
  BY DEF K!NextTable
<1>2. script \in K!ScriptRun /\ script # K!Idle /\ script.public /\ ~up
  BY <1>1, RunningIs
<1>3. /\ script' \in K!ScriptRun /\ script'.at = "scan" /\ script'.left = script.left
      /\ script'.table = 2 /\ script'.last = 0
  <2>1. script' = [script EXCEPT !.table = 2, !.last = 0] /\ script.at = "scan"
    BY <1>1
  <2>2. 2 \in 1..2 /\ 0 \in Nat
    OBVIOUS
  <2> QED
    BY <1>2, <2>1, <2>2 DEF K!ScriptRun
<1>4. K!TypeOK'
  BY <1>1, <1>3 DEF KeysInv, K!TypeOK
<1>5. TripletsOpen' /\ Halted'
  BY <1>1, <1>2 DEF KeysInv, TripletsOpen, Sure, K!Opens, Halted
<1>6. NothingLeft'
  <2> SUFFICES ASSUME ~script.left, NEW i \in K!Row, Passed(i)', triplet[i] # None
               PROVE  triplet[i].key = env.new
    BY <1>1, <1>3 DEF NothingLeft
  <2>1. K!Table(i) = 1
    BY <1>3, KeyFacts DEF Passed
  <2>2. ~(i > script.last)
    BY <1>1, <1>2, <2>1 DEF K!Rest
  <2>3. Passed(i)
    BY <1>1, <1>2, <2>1, <2>2, KeyFacts DEF Passed, K!ScriptRun
  <2> QED
    BY <1>2, <2>3 DEF KeysInv, NothingLeft
<1>7. NextIsRekeyed' /\ PlainsStay
  BY <1>1, <1>3 DEF NextIsRekeyed, PlainsStay
<1> QED
  BY <1>4, <1>5, <1>6, <1>7 DEF KeyKept, KeysInv

\* At the end of a run the script is past every row.
LEMMA EndKeeps ==
    ASSUME KeyStep(K!End \/ K!Crash)
    PROVE  KeyKept
<1> USE DEF KeyStep
<1>1. script' = K!Idle /\ UNCHANGED <<triplet, env, up, call>> /\ K!Idle.at = "idle"
  BY DEF K!End, K!Crash, K!Idle
<1>2. K!TypeOK' /\ Halted'
  <2>1. clean' \in BOOLEAN
    <3>1. CASE K!Crash
      BY <3>1 DEF K!Crash, KeysInv, K!TypeOK
    <3>2. CASE K!End
      BY <3>2 DEF K!End, KeysInv, K!TypeOK
    <3> QED
      BY <3>1, <3>2
  <2> QED
    BY <1>1, <2>1 DEF KeysInv, K!TypeOK, Halted
<1>3. NothingLeft' /\ NextIsRekeyed' /\ PlainsStay
  BY <1>1 DEF NothingLeft, NextIsRekeyed, PlainsStay
<1>4. CASE clean' = clean
  <2>1. TripletsOpen'
    BY <1>1, <1>4 DEF KeysInv, TripletsOpen, Sure, K!Opens
  <2> QED
    BY <1>2, <1>3, <2>1 DEF KeyKept, KeysInv
<1>5. CASE clean' # clean
  <2>1. /\ script.at = "scan" /\ K!Rest = {} /\ script.table = 2 /\ clean' = ~script.left
    BY <1>5 DEF K!End, K!Crash
  <2>2. /\ script \in K!ScriptRun /\ script # K!Idle /\ script.public
        /\ \A w \in Writer : call'[w].at = "idle"
    BY <1>1, <2>1, RunningIs
  <2>3. ASSUME ~script.left, NEW i \in K!Row, triplet[i] # None PROVE triplet[i].key = env.new
    <3>1. Passed(i)
      BY <2>1, <2>2, <2>3, KeyFacts DEF K!Rest, Passed, K!ScriptRun
    <3> QED
      BY <2>2, <2>3, <3>1 DEF KeysInv, NothingLeft
  <2>4. TripletsOpen'
    BY <1>1, <2>1, <2>2, <2>3 DEF KeysInv, TripletsOpen, Sure, K!Opens
  <2> QED
    BY <1>2, <1>3, <2>4 DEF KeyKept, KeysInv
<1> QED
  BY <1>4, <1>5

LEMMA KeyNext ==
    ASSUME KeyStep(K!Next)
    PROVE  KeyKept
<1>0. KeysInv /\ K!Window' /\ K!Covers' /\ K!Next
  BY DEF KeyStep
<1>1. ASSUME NEW w \in Writer, K!AskWrite(w) PROVE KeyKept
  BY <1>0, <1>1, AskWriteKeeps DEF KeyStep
<1>2. ASSUME NEW w \in Writer, NEW v \in Value, K!Choose(w, K!Encrypt(v)) PROVE KeyKept
  <2>1. K!Encrypt(v) \in K!Triplet /\ K!Encrypt(v).key = env.new
    BY <1>0 DEF K!Encrypt, K!Triplet, KeysInv, K!TypeOK
  <2>2. Sure(K!Encrypt(v))
    BY <2>1 DEF Sure, K!Opens
  <2> QED
    BY <1>0, <1>2, <2>1, <2>2, ChooseKeeps DEF KeyStep
<1>3. ASSUME NEW w \in Writer, NEW i \in K!Versions, triplet[i] # None, K!Choose(w, triplet[i])
      PROVE  KeyKept
  <2>1. triplet[i] \in K!Triplet /\ Sure(triplet[i])
    BY <1>0, <1>3, KeyFacts DEF KeysInv, K!TypeOK, TripletsOpen
  <2> QED
    BY <1>0, <1>3, <2>1, ChooseKeeps DEF KeyStep
<1>4. ASSUME NEW w \in Writer, K!Commit(w) PROVE KeyKept
  BY <1>0, <1>4, CommitKeeps DEF KeyStep
<1>5. CASE K!Halt \/ K!Launch \/ K!DeployKey \/ K!DropOld
  BY <1>0, <1>5, OperatorKeeps DEF KeyStep
<1>6. ASSUME NEW apply \in BOOLEAN, NEW public \in BOOLEAN, K!Run(apply, public) PROVE KeyKept
  BY <1>0, <1>6, RunKeeps DEF KeyStep
<1>7. CASE K!Scan
  BY <1>0, <1>7, ScanKeeps DEF KeyStep
<1>8. CASE K!Write
  BY <1>0, <1>8, WriteKeeps DEF KeyStep
<1>9. CASE K!NextTable
  BY <1>0, <1>9, NextTableKeeps DEF KeyStep
<1>10. CASE K!End \/ K!Crash
  BY <1>0, <1>10, EndKeeps DEF KeyStep
<1> QED
  BY <1>0, <1>1, <1>2, <1>3, <1>4, <1>5, <1>6, <1>7, <1>8, <1>9, <1>10 DEF K!Next

LEMMA KeysStep ==
    ASSUME KeysInv, [MCNext]_<<vars, keys, side, serial>>
    PROVE  KeyKept
<1>1. CASE UNCHANGED keys
  <2>1. UNCHANGED <<triplet, env, up, call, script, clean>>
    BY <1>1 DEF keys
  <2>2. K!TypeOK' /\ Halted' /\ TripletsOpen'
    BY <2>1 DEF KeysInv, K!TypeOK, Halted, K!Window, K!Covers, TripletsOpen, Sure, K!Opens
  <2> QED
    BY <2>1, <2>2, QuietKeeps DEF KeyKept, KeysInv
<1>2. CASE K!Next /\ K!Window' /\ K!Covers'
  BY <1>2, KeyNext DEF KeyStep
<1>3. CASE UNCHANGED <<vars, keys, side, serial>>
  BY <1>1, <1>3
<1>4. CASE MCNext
  BY <1>1, <1>2, <1>4 DEF MCNext
<1> QED
  BY <1>3, <1>4

LEMMA KeysAlways == MCSpec => []KeysInv
<1>1. MCInit => KeysInv
  BY KeysInit DEF MCInit
<1>2. KeysInv /\ [MCNext]_<<vars, keys, side, serial>> => KeysInv'
  BY KeysStep DEF KeyKept
<1> QED
  BY <1>1, <1>2, PTL DEF MCSpec

\* In maintenance windows, with --include-public, for any number of rows and keys and any
\* --batch: whatever the order of runs, stops and launches, no row is left that does not
\* open under the keys deployed, and the script changes no plaintext.
THEOREM WindowKeepsEveryRow == MCSpec => WindowKeepsAll
<1>1. KeyKept => K!KeepsAll
  BY DEF KeyKept, KeysInv, PlainsStay, K!KeepsAll, K!EveryRowOpens, TripletsOpen, Sure, K!Opens
<1>2. KeysInv /\ [MCNext]_<<vars, keys, side, serial>> => [K!KeepsAll]_<<triplet, env, script>>
  BY <1>1, KeysStep
<1> QED
  BY <1>2, KeysAlways, PTL DEF MCSpec, WindowKeepsAll
=============================================================================
