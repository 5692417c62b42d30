--------------------------- MODULE OrgAccessProofs ---------------------------
(***************************************************************************)
(* OrgAccess for any number of members, projects, tokens and concurrent    *)
(* requests, and any quotas.                                               *)
(*                                                                         *)
(* CascadeIsComplete is not inductive: the offboarding revokes machine     *)
(* tokens on the projects it listed before its transaction.  TokensListed  *)
(* says that what a list may miss was written while the removal was        *)
(* running, because a token is always on a project that already exists.    *)
(*                                                                         *)
(* Requests that come one at a time keep more (MCOrgAccess): what each     *)
(* read is still true when it writes (Sound), and a token that hiding      *)
(* should take is one that a request is about to revoke (Finishes).        *)
(***************************************************************************)
EXTENDS MCOrgAccess, TLAPS

-----------------------------------------------------------------------------
(* The access rules.                                                       *)

\* No role is None.
LEMMA NoneIsNoRole == None \notin OrgRole /\ None \notin ProjectRole
  BY DEF None, OrgRole, ProjectRole

\* A role implicitly grants a project role or nothing.
LEMMA ImplicitGrantType ==
  ASSUME NEW o \in OrgRole \cup {None}
  PROVE  ImplicitGrant(o) \in Desired
BY DEF ImplicitGrant, OrgRole, ProjectRole, Desired, None

\* The row written for a desired access is a row, or none.
LEMMA DesiredRowType ==
  ASSUME NEW o \in OrgRole \cup {None}, NEW d \in Desired
  PROVE  DesiredRow(o, d) \in Row
BY DEF DesiredRow, Desired, Row, ProjectRow, ProjectRole, NoRow, None

\* desiredMembershipRow is the inverse of effectiveProjectRole: for a member whom
\* `hidden` can touch, the row written gives exactly the access asked for, and no
\* row is written when the role alone gives it.
THEOREM DesiredRowIsInverse ==
  ASSUME NEW o \in OrgRole, ~IgnoresHidden(o), NEW d \in Desired
  PROVE  /\ EffectiveRole(o, DesiredRow(o, d), FALSE) = d
         /\ DesiredRow(o, d) = NoRow <=> d = ImplicitGrant(o)
<1>1. o \in {"ADMIN_DEV", "DEV", "MEMBER"}
  BY DEF OrgRole, IgnoresHidden
<1>2. o # None
  BY NoneIsNoRole
<1>3. ResolveOrgRole(o, FALSE) = o
  BY <1>2 DEF ResolveOrgRole
<1>4. ASSUME NEW rw, rw # NoRow
      PROVE  EffectiveRole(o, rw, FALSE) = IF rw.hidden THEN None ELSE rw.role
  BY <1>3, <1>4 DEF EffectiveRole
<1>5. CASE d = ImplicitGrant(o)
  <2>1. DesiredRow(o, d) = NoRow
    BY <1>2, <1>5 DEF DesiredRow
  <2> QED
    BY <2>1, <1>3, <1>5 DEF EffectiveRole
<1>6. CASE d # ImplicitGrant(o) /\ d = None
  <2>1. DesiredRow(o, d) = [role |-> "VIEWER", hidden |-> TRUE]
    BY <1>2, <1>6 DEF DesiredRow
  <2>2. DesiredRow(o, d) # NoRow /\ DesiredRow(o, d).hidden
    BY <2>1 DEF NoRow
  <2>3. EffectiveRole(o, DesiredRow(o, d), FALSE) = None
    BY <2>2, <1>4
  <2> QED
    BY <2>2, <2>3, <1>6
<1>7. CASE d # ImplicitGrant(o) /\ d # None
  <2>1. DesiredRow(o, d) = [role |-> d, hidden |-> FALSE]
    BY <1>2, <1>7 DEF DesiredRow
  <2>2. /\ DesiredRow(o, d) # NoRow
        /\ ~DesiredRow(o, d).hidden
        /\ DesiredRow(o, d).role = d
    BY <2>1, <1>7 DEF NoRow
  <2>3. EffectiveRole(o, DesiredRow(o, d), FALSE) = d
    BY <2>2, <1>4
  <2> QED
    BY <2>2, <2>3, <1>7
<1> QED
  BY <1>5, <1>6, <1>7

\* The three forms agree on any role and row.
LEMMA FormsAgreeOn ==
  ASSUME NEW o \in OrgRole \cup {None}, NEW rw \in Row
  PROVE  LET allowed == EffectiveRole(o, rw, FALSE) # None IN
         /\ allowed <=> VisibleWhere(o, rw)
         /\ allowed <=> FilterKeeps(o, rw, FALSE)
<1>1. ResolveOrgRole(o, FALSE) = o
  BY DEF ResolveOrgRole
<1>2. CASE IgnoresHidden(o)
  <2>1. ImplicitGrant(o) = "OWNER"
    BY <1>2 DEF IgnoresHidden, ImplicitGrant
  <2> QED
    BY <1>1, <1>2, <2>1 DEF EffectiveRole, VisibleWhere, FilterKeeps, None
<1>3. CASE ~IgnoresHidden(o) /\ rw = NoRow
  <2>1. ImplicitGrant(o) # None <=> HasDevPrivileges(o)
    BY <1>3 DEF IgnoresHidden, ImplicitGrant, HasDevPrivileges, None, OrgRole
  <2> QED
    BY <1>1, <1>3, <2>1 DEF EffectiveRole, VisibleWhere, FilterKeeps
<1>4. CASE ~IgnoresHidden(o) /\ rw # NoRow
  <2>1. rw \in ProjectRow /\ rw.role # None
    BY <1>4, NoneIsNoRole DEF Row, ProjectRow
  <2> DEFINE seen == [rw EXCEPT !.role = "VIEWER"]
  <2>2. seen.hidden = rw.hidden /\ seen.role = "VIEWER" /\ seen # NoRow
    BY <2>1 DEF ProjectRow, NoRow, None
  <2>3. EffectiveRole(o, rw, FALSE) = IF rw.hidden THEN None ELSE rw.role
    BY <1>1, <1>4 DEF EffectiveRole
  <2>4. EffectiveRole(o, seen, FALSE) = IF rw.hidden THEN None ELSE "VIEWER"
    BY <1>1, <1>4, <2>2 DEF EffectiveRole
  <2>5. EffectiveRole(o, rw, FALSE) # None <=> ~rw.hidden
    BY <2>1, <2>3
  <2>6. FilterKeeps(o, rw, FALSE) <=> ~rw.hidden
    BY <1>4, <2>4 DEF FilterKeeps, None
  <2>7. VisibleWhere(o, rw) <=> ~rw.hidden
    BY <1>4 DEF VisibleWhere
  <2> QED
    BY <2>5, <2>6, <2>7
<1> QED
  BY <1>2, <1>3, <1>4

-----------------------------------------------------------------------------
(* Type correctness.                                                       *)

\* A request that goes on keeps its shape: every form a step gives it.
LEMMA RequestForms ==
  ASSUME NEW q \in RequestState
  PROVE  /\ Idle \in RequestState
         /\ q.op \notin {"idle", "failed", "project", "drop"} => q.user \in User
         /\ q.op \in {"member", "bulk"} => Failed(q) \in RequestState
         /\ q.op = "token" => q.project \in Project /\ q.as \in OrgRole \cup {None}
         /\ q.op = "orgToken" =>
              /\ q.all \in BOOLEAN /\ q.scope \in SUBSET Project /\ q.expires \in BOOLEAN
              /\ [q EXCEPT !.checked = TRUE] \in RequestState
         /\ q.op = "member" =>
              /\ q.project \in Project /\ q.target \in Row
              /\ [q EXCEPT !.step = "machine"] \in RequestState
              /\ [q EXCEPT !.step = "orgToken"] \in RequestState
         /\ q.op = "bulk" =>
              /\ q.target \in [Project -> Row]
              /\ q.lost \in Project \cup {NoProject}
              /\ [q EXCEPT !.lost = NoProject] \in RequestState
              /\ \A p \in Project :
                   /\ [q EXCEPT !.todo = @ \ {p}] \in RequestState
                   /\ [q EXCEPT !.todo = @ \ {p}, !.lost = p] \in RequestState
         /\ q.op = "remove" => q.projects \in SUBSET Project
         /\ q.op = "project" => q.rows \in [User -> Row]
         /\ q.op = "drop" => q.project \in Project
<1>1. Idle \in RequestState
  BY DEF RequestState, Idle
<1>2. CASE q.op = "idle"
  BY <1>1, <1>2
<1>3. CASE q.op = "failed"
  BY <1>1, <1>3
<1>4. ASSUME q.op \notin {"idle", "failed", "project", "drop"}
      PROVE  q.user \in User /\ Failed(q) \in RequestState
  <2>1. q.user \in User
    BY <1>4 DEF RequestState, Idle
  <2> QED
    BY <2>1 DEF RequestState, Failed
<1>5. CASE q.op = "token"
  BY <1>1, <1>4, <1>5 DEF RequestState, Idle
<1>6. CASE q.op = "orgToken"
  <2>1. q \in [op: {"orgToken"}, user: User, as: OrgRole, all: BOOLEAN,
               scope: SUBSET Project, expires: BOOLEAN, checked: BOOLEAN]
    BY <1>6 DEF RequestState, Idle
  <2>2. [q EXCEPT !.checked = TRUE] \in
              [op: {"orgToken"}, user: User, as: OrgRole, all: BOOLEAN,
               scope: SUBSET Project, expires: BOOLEAN, checked: BOOLEAN]
    BY <2>1
  <2>3. [q EXCEPT !.checked = TRUE] \in RequestState
    BY <2>2 DEF RequestState
  <2> QED
    BY <1>1, <1>4, <1>6, <2>1, <2>3
<1>7. CASE q.op = "member"
  <2> DEFINE M == [op: {"member"}, user: User, project: Project, had: BOOLEAN,
                   target: ProjectRow, needed: BOOLEAN, step: {"row", "machine", "orgToken"}]
  <2>1. q \in M
    BY <1>7 DEF RequestState, Idle
  <2>2. [q EXCEPT !.step = "machine"] \in M /\ [q EXCEPT !.step = "orgToken"] \in M
    BY <2>1
  <2>3. /\ [q EXCEPT !.step = "machine"] \in RequestState
        /\ [q EXCEPT !.step = "orgToken"] \in RequestState
    BY <2>2 DEF RequestState
  <2>4. q.project \in Project /\ q.target \in Row
    BY <2>1 DEF Row
  <2> QED
    BY <1>1, <1>4, <1>7, <2>3, <2>4
<1>8. CASE q.op = "bulk"
  <2> DEFINE B == [op: {"bulk"}, user: User, had: SUBSET Project, target: [Project -> Row],
                   todo: SUBSET Project, loses: SUBSET Project, lost: Project \cup {NoProject}]
  <2>1. q \in B
    BY <1>8 DEF RequestState, Idle
  <2>2. [q EXCEPT !.lost = NoProject] \in B
    BY <2>1
  <2>3. ASSUME NEW p \in Project
        PROVE  /\ [q EXCEPT !.todo = @ \ {p}] \in B
               /\ [q EXCEPT !.todo = @ \ {p}, !.lost = p] \in B
    BY <2>1
  <2>4. B \subseteq RequestState
    BY DEF RequestState
  <2>5. q.target \in [Project -> Row] /\ q.lost \in Project \cup {NoProject}
    BY <2>1
  <2> HIDE DEF B
  <2> QED
    BY <1>1, <1>4, <1>8, <2>2, <2>3, <2>4, <2>5
<1>9. CASE q.op = "remove"
  BY <1>1, <1>4, <1>9 DEF RequestState, Idle
<1>10. CASE q.op = "project"
  BY <1>1, <1>10 DEF RequestState, Idle
<1>11. CASE q.op = "drop"
  BY <1>1, <1>11 DEF RequestState, Idle
<1> QED
  <2>1. q.op \in {"idle", "failed", "token", "orgToken", "member", "bulk", "remove",
                  "project", "drop"}
    BY DEF RequestState, Idle
  <2> QED
    BY <2>1, <1>2, <1>3, <1>5, <1>6, <1>7, <1>8, <1>9, <1>10, <1>11

\* What revoking leaves are rows.
LEMMA RevokedRows ==
  /\ RevokedMachine \in MachineRow
  /\ RevokedOrgToken \in OrgTokenRow
  BY DEF RevokedMachine, RevokedOrgToken, NoMachine, NoOrgToken, MachineRow, OrgTokenRow, State

\* Revoking keeps the types of the token tables.
LEMMA RevokeTypes ==
  ASSUME TypeOK, NEW u, NEW ps, NEW among
  PROVE  /\ RevokeMachines(u, ps) \in [Machine -> MachineRow]
         /\ RevokeOrgTokens(u, among) \in [OrgToken -> OrgTokenRow]
  BY RevokedRows DEF TypeOK, RevokeMachines, RevokeOrgTokens

\* Starting, ending, or replacing a request.
LEMMA RequestType ==
  ASSUME TypeOK, NEW r \in Request, NEW q \in RequestState
  PROVE  /\ Begin(r, q) => req' \in [Request -> RequestState]
         /\ Done(r) => req' \in [Request -> RequestState]
         /\ [req EXCEPT ![r] = q] \in [Request -> RequestState]
  BY RequestForms DEF TypeOK, Begin, Done

\* The initial state has its types.
LEMMA InitType == Init => TypeOK
<1> SUFFICES ASSUME Init PROVE TypeOK
  OBVIOUS
<1>1. NoMachine \in MachineRow /\ NoOrgToken \in OrgTokenRow
  BY DEF NoMachine, NoOrgToken, MachineRow, OrgTokenRow, State
<1>2. Idle \in RequestState /\ NoRow \in Row
  BY DEF RequestState, Row
<1>3. member \in [User -> OrgRole \cup {None}]
  BY OrgAccessAssumption DEF Init
<1> QED
  BY <1>1, <1>2, <1>3 DEF Init, TypeOK

\* Every step of a request preserves types.
LEMMA RequestTypeStep ==
  ASSUME TypeOK, NEW r \in Request, RequestStep(r)
  PROVE  TypeOK'
<1> DEFINE q == req[r]
<1>q. q \in RequestState
  BY DEF TypeOK
<1>1. ASSUME NEW u \in User, NEW p \in Project, AskMachineToken(r, u, p)
      PROVE  TypeOK'
  <2> DEFINE n == [op |-> "token", user |-> u, project |-> p, as |-> member[u]]
  <2>1. n \in RequestState
    BY DEF RequestState, TypeOK
  <2>2. Begin(r, n)
    BY <1>1 DEF AskMachineToken
  <2>3. req' \in [Request -> RequestState]
    BY <2>1, <2>2, RequestType
  <2> QED
    BY <1>1, <2>3 DEF AskMachineToken, people, TypeOK
<1>2. ASSUME NEW m \in Machine, CreateMachineToken(r, m) PROVE TypeOK'
  <2> DEFINE n == [state |-> "LIVE", by |-> q.user, project |-> q.project,
                   as |-> q.as, late |-> BeingRemoved(q.user)]
  <2>1. n \in MachineRow
    BY <1>2, <1>q, RequestForms DEF CreateMachineToken, MachineRow, State, BeingRemoved
  <2>2. machine' = [machine EXCEPT ![m] = n] /\ Done(r)
    BY <1>2 DEF CreateMachineToken
  <2>3. req' \in [Request -> RequestState]
    BY <1>q, <2>2, RequestType
  <2> QED
    BY <1>2, <2>1, <2>2, <2>3 DEF CreateMachineToken, people, TypeOK
<1>3. ASSUME NEW u \in User, NEW all \in BOOLEAN, NEW expires \in BOOLEAN,
             NEW scope \in SUBSET Project, AskOrgToken(r, u, all, scope, expires)
      PROVE  TypeOK'
  <2> DEFINE n == [op |-> "orgToken", user |-> u, as |-> member[u], all |-> all,
                   scope |-> scope, expires |-> expires, checked |-> FALSE]
  <2>1. member[u] \in OrgRole
    BY <1>3 DEF AskOrgToken, HasDevPrivileges, IgnoresHidden, OrgRole
  <2>2. n \in RequestState
    BY <2>1 DEF RequestState
  <2>3. Begin(r, n)
    BY <1>3 DEF AskOrgToken
  <2>4. req' \in [Request -> RequestState]
    BY <2>2, <2>3, RequestType
  <2> QED
    BY <1>3, <2>4 DEF AskOrgToken, people, TypeOK
<1>4. CASE CheckOrgToken(r)
  <2>1. q.op = "orgToken" /\ req' = [req EXCEPT ![r] = [q EXCEPT !.checked = TRUE]]
    BY <1>4 DEF CheckOrgToken
  <2>2. [q EXCEPT !.checked = TRUE] \in RequestState
    BY <1>q, <2>1, RequestForms
  <2>3. req' \in [Request -> RequestState]
    BY <2>1, <2>2, RequestType
  <2> QED
    BY <1>4, <2>3 DEF CheckOrgToken, people, TypeOK
<1>5. ASSUME NEW t \in OrgToken, CreateOrgToken(r, t) PROVE TypeOK'
  <2> DEFINE n == [state |-> "LIVE", by |-> q.user, all |-> q.all, scope |-> q.scope,
                   expires |-> q.expires, late |-> BeingRemoved(q.user)]
  <2>1. n \in OrgTokenRow
    BY <1>5, <1>q, RequestForms DEF CreateOrgToken, OrgTokenRow, State, BeingRemoved
  <2>2. orgToken' = [orgToken EXCEPT ![t] = n] /\ Done(r)
    BY <1>5 DEF CreateOrgToken
  <2>3. req' \in [Request -> RequestState]
    BY <1>q, <2>2, RequestType
  <2> QED
    BY <1>5, <2>1, <2>2, <2>3 DEF CreateOrgToken, people, TypeOK
<1>6. ASSUME NEW u \in User, NEW p \in Project, NEW hidden \in {"YES", "NO", None},
             NEW role \in Wish \cup {None}, AskMemberPatch(r, u, p, hidden, role)
      PROVE  TypeOK'
  <2> DEFINE cur == row[u][p]
             next == [role   |-> IF role # None THEN role
                                 ELSE IF cur # NoRow THEN cur.role ELSE "VIEWER",
                      hidden |-> IF hidden # None THEN hidden = "YES" ELSE cur.hidden]
             needed == next.hidden \/ next.role # "VIEWER" \/ ~HasDevPrivileges(member[u])
             n == [op |-> "member", user |-> u, project |-> p, had |-> cur # NoRow,
                   target |-> next, needed |-> needed, step |-> "row"]
  <2>1. cur \in Row
    BY DEF TypeOK
  <2>2. role # None => role \in ProjectRole
    BY OrgAccessAssumption DEF Desired
  <2>3. cur # NoRow => cur.role \in ProjectRole
    BY <2>1 DEF Row, ProjectRow
  <2>4. cur.hidden \in BOOLEAN
    <3>1. CASE cur \in ProjectRow
      BY <3>1 DEF ProjectRow
    <3>2. CASE cur = NoRow
      <4>1. NoRow.hidden \in BOOLEAN
        BY DEF NoRow
      <4> QED
        BY <3>2, <4>1
    <3> HIDE DEF cur
    <3> QED
      BY <2>1, <3>1, <3>2 DEF Row
  <2>5. next \in ProjectRow
    BY <2>2, <2>3, <2>4 DEF ProjectRow, ProjectRole
  <2>6. needed \in BOOLEAN
    BY <2>4
  <2>7. Begin(r, n)
    BY <1>6 DEF AskMemberPatch
  <2> HIDE DEF next, needed
  <2>8. n \in RequestState
    BY <2>5, <2>6 DEF RequestState
  <2>9. req' \in [Request -> RequestState]
    BY <2>7, <2>8, RequestType
  <2> QED
    BY <1>6, <2>9 DEF AskMemberPatch, people, TypeOK
<1>7. CASE WriteMemberRow(r)
  <2>1. q.op = "member"
    BY <1>7 DEF WriteMemberRow
  <2>2. q.user \in User /\ q.project \in Project /\ q.target \in Row
    BY <1>q, <2>1, RequestForms
  <2>3. row' \in [User -> [Project -> Row]]
    BY <1>7, <2>2 DEF WriteMemberRow, TypeOK
  <2>4. [q EXCEPT !.step = "machine"] \in RequestState
    BY <1>q, <2>1, RequestForms
  <2>5. req' = [req EXCEPT ![r] = [q EXCEPT !.step = "machine"]] \/ Done(r)
    BY <1>7 DEF WriteMemberRow
  <2>6. req' \in [Request -> RequestState]
    BY <1>q, <2>4, <2>5, RequestType
  <2> QED
    BY <1>7, <2>3, <2>6 DEF WriteMemberRow, people, TypeOK
<1>8. CASE SkipMemberRow(r)
  <2>1. req' \in [Request -> RequestState]
    BY <1>8, <1>q, RequestType DEF SkipMemberRow
  <2> QED
    BY <1>8, <2>1 DEF SkipMemberRow, people, TypeOK
<1>9. CASE HideMachineTokens(r)
  <2>1. /\ q.op = "member" /\ machine' = RevokeMachines(q.user, {q.project})
        /\ req' = [req EXCEPT ![r] = [q EXCEPT !.step = "orgToken"]]
    BY <1>9 DEF HideMachineTokens
  <2>2. [q EXCEPT !.step = "orgToken"] \in RequestState
    BY <1>q, <2>1, RequestForms
  <2>3. req' \in [Request -> RequestState] /\ machine' \in [Machine -> MachineRow]
    BY <2>1, <2>2, RequestType, RevokeTypes
  <2> QED
    BY <1>9, <2>3 DEF HideMachineTokens, people, TypeOK
<1>10. CASE HideOrgTokens(r)
  <2>1. orgToken' = RevokeOrgTokens(q.user, {t \in OrgToken : q.project \in orgToken[t].scope})
    BY <1>10 DEF HideOrgTokens
  <2>2. req' \in [Request -> RequestState] /\ orgToken' \in [OrgToken -> OrgTokenRow]
    BY <1>10, <1>q, <2>1, RequestType, RevokeTypes DEF HideOrgTokens
  <2> QED
    BY <1>10, <2>2 DEF HideOrgTokens, people, TypeOK
<1>11. ASSUME NEW u \in User, NEW wish \in WishMap, AskBulk(r, u, wish) PROVE TypeOK'
  <2> DEFINE cur == row[u]
             target == [p \in Project |->
                          IF wish[p] # "ABSENT" THEN DesiredRow(member[u], wish[p])
                          ELSE IF cur[p].hidden THEN cur[p] ELSE NoRow]
             todo == {p \in project : target[p] # cur[p]}
             had == {p \in project : cur[p] # NoRow}
             loses == {p \in todo :
                         /\ EffectiveRole(member[u], cur[p], FALSE) # None
                         /\ EffectiveRole(member[u], target[p], FALSE) = None}
             n == [op |-> "bulk", user |-> u, had |-> had, target |-> target,
                   todo |-> todo, loses |-> loses, lost |-> NoProject]
  <2>1. ASSUME NEW p \in Project
        PROVE  (IF wish[p] # "ABSENT" THEN DesiredRow(member[u], wish[p])
                ELSE IF cur[p].hidden THEN cur[p] ELSE NoRow) \in Row
    <3>1. member[u] \in OrgRole \cup {None} /\ cur[p] \in Row /\ NoRow \in Row
      BY DEF TypeOK, Row
    <3>2. wish[p] # "ABSENT" => wish[p] \in Desired
      BY OrgAccessAssumption DEF WishMap
    <3>3. wish[p] # "ABSENT" => DesiredRow(member[u], wish[p]) \in Row
      BY <3>1, <3>2, DesiredRowType
    <3> QED
      BY <3>1, <3>3
  <2>2. target \in [Project -> Row]
    BY <2>1
  <2>3. had \subseteq Project /\ todo \subseteq Project /\ loses \subseteq Project
    BY DEF TypeOK
  <2>4. Begin(r, n)
    BY <1>11 DEF AskBulk
  <2> HIDE DEF target, todo, had, loses
  <2>5. n \in RequestState
    BY <2>2, <2>3 DEF RequestState
  <2>6. req' \in [Request -> RequestState]
    BY <2>4, <2>5, RequestType
  <2> QED
    BY <1>11, <2>6 DEF AskBulk, people, TypeOK
<1>12. ASSUME NEW p \in Project, BulkWrite(r, p) PROVE TypeOK'
  <2>1. q.op = "bulk"
    BY <1>12 DEF BulkWrite
  <2>2. q.user \in User /\ q.target[p] \in Row
    BY <1>q, <2>1, RequestForms
  <2>3. row' \in [User -> [Project -> Row]]
    BY <1>12, <2>2 DEF BulkWrite, TypeOK
  <2>4. /\ [q EXCEPT !.todo = @ \ {p}] \in RequestState
        /\ [q EXCEPT !.todo = @ \ {p}, !.lost = p] \in RequestState
    BY <1>q, <2>1, RequestForms
  <2>5. \/ req' = [req EXCEPT ![r] = [q EXCEPT !.todo = @ \ {p}, !.lost = p]]
        \/ req' = [req EXCEPT ![r] = [q EXCEPT !.todo = @ \ {p}]]
        \/ Done(r)
    BY <1>12 DEF BulkWrite
  <2>6. req' \in [Request -> RequestState]
    BY <1>q, <2>4, <2>5, RequestType
  <2> QED
    BY <1>12, <2>3, <2>6 DEF BulkWrite, people, TypeOK
<1>13. CASE BulkRevoke(r)
  <2>1. /\ q.op = "bulk" /\ machine' = RevokeMachines(q.user, {q.lost})
        /\ Done(r) \/ req' = [req EXCEPT ![r] = [q EXCEPT !.lost = NoProject]]
    BY <1>13 DEF BulkRevoke
  <2>2. [q EXCEPT !.lost = NoProject] \in RequestState
    BY <1>q, <2>1, RequestForms
  <2>3. req' \in [Request -> RequestState] /\ machine' \in [Machine -> MachineRow]
    BY <1>q, <2>1, <2>2, RequestType, RevokeTypes
  <2> QED
    BY <1>13, <2>3 DEF BulkRevoke, people, TypeOK
<1>14. ASSUME NEW u \in User, AskRemoval(r, u) PROVE TypeOK'
  <2> DEFINE n == [op |-> "remove", user |-> u, projects |-> project]
  <2>1. n \in RequestState
    BY DEF RequestState, TypeOK
  <2>2. Begin(r, n)
    BY <1>14 DEF AskRemoval
  <2>3. req' \in [Request -> RequestState]
    BY <2>1, <2>2, RequestType
  <2> QED
    BY <1>14, <2>3 DEF AskRemoval, people, TypeOK
<1>15. CASE CommitRemoval(r)
  <2>1. NoRow \in Row
    BY DEF Row
  <2>2. row' \in [User -> [Project -> Row]] /\ member' \in [User -> OrgRole \cup {None}]
    BY <1>15, <2>1 DEF CommitRemoval, TypeOK
  <2>3. req' \in [Request -> RequestState]
    BY <1>15, <1>q, RequestType DEF CommitRemoval
  <2>4. machine' \in [Machine -> MachineRow] /\ orgToken' \in [OrgToken -> OrgTokenRow]
    BY <1>15, RevokeTypes DEF CommitRemoval
  <2> QED
    BY <1>15, <2>2, <2>3, <2>4 DEF CommitRemoval, TypeOK
<1>16. CASE Fail(r)
  <2>1. \/ q.op \in {"member", "bulk"} /\ req' = [req EXCEPT ![r] = Failed(q)]
        \/ Done(r)
    BY <1>16 DEF Fail, Done, TypeOK
  <2>2. q.op \in {"member", "bulk"} => Failed(q) \in RequestState
    BY <1>q, RequestForms
  <2>3. req' \in [Request -> RequestState]
    BY <1>q, <2>1, <2>2, RequestType
  <2> QED
    BY <1>16, <2>3 DEF Fail, people, TypeOK
<1>17. ASSUME NEW c \in User \cup {NoUser}, NEW wish \in UserWish, AskProject(r, c, wish)
       PROVE  TypeOK'
  <2> DEFINE rows == [u \in User |->
                        IF u = c THEN [role |-> "OWNER", hidden |-> FALSE]
                        ELSE IF wish[u] = "ABSENT" THEN NoRow
                        ELSE DesiredRow(member[u], wish[u])]
             n == [op |-> "project", rows |-> rows]
  <2>1. ASSUME NEW u \in User
        PROVE  (IF u = c THEN [role |-> "OWNER", hidden |-> FALSE]
                ELSE IF wish[u] = "ABSENT" THEN NoRow
                ELSE DesiredRow(member[u], wish[u])) \in Row
    <3>1. NoRow \in Row /\ [role |-> "OWNER", hidden |-> FALSE] \in Row
      BY DEF Row, ProjectRow, ProjectRole
    <3>2. wish[u] # "ABSENT" => wish[u] \in Desired
      BY OrgAccessAssumption DEF UserWish
    <3>3. wish[u] # "ABSENT" => DesiredRow(member[u], wish[u]) \in Row
      BY <3>2, DesiredRowType DEF TypeOK
    <3> QED
      BY <3>1, <3>3
  <2>2. rows \in [User -> Row]
    BY <2>1
  <2>3. Begin(r, n)
    BY <1>17 DEF AskProject
  <2> HIDE DEF rows
  <2>4. n \in RequestState
    BY <2>2 DEF RequestState
  <2>5. req' \in [Request -> RequestState]
    BY <2>3, <2>4, RequestType
  <2> QED
    BY <1>17, <2>5 DEF AskProject, people, TypeOK
<1>18. ASSUME NEW p \in Project, CreateProject(r, p) PROVE TypeOK'
  <2>1. q.op = "project" /\ row' = [u \in User |-> [row[u] EXCEPT ![p] = q.rows[u]]]
    BY <1>18 DEF CreateProject
  <2>2. q.rows \in [User -> Row]
    BY <1>q, <2>1, RequestForms
  <2>3. row' \in [User -> [Project -> Row]]
    BY <2>1, <2>2 DEF TypeOK
  <2>4. req' \in [Request -> RequestState]
    BY <1>18, <1>q, RequestType DEF CreateProject
  <2> QED
    BY <1>18, <2>3, <2>4 DEF CreateProject, TypeOK
<1>19. ASSUME NEW p \in Project, AskDrop(r, p) PROVE TypeOK'
  <2>1. [op |-> "drop", project |-> p] \in RequestState
    BY DEF RequestState
  <2>2. req' \in [Request -> RequestState]
    BY <1>19, <2>1, RequestType DEF AskDrop
  <2>3. \A t \in OrgToken : [orgToken[t] EXCEPT !.scope = @ \ {p}] \in OrgTokenRow
    BY DEF OrgTokenRow, TypeOK
  <2>4. orgToken' \in [OrgToken -> OrgTokenRow]
    BY <1>19, <2>3 DEF AskDrop
  <2> QED
    BY <1>19, <2>2, <2>4 DEF AskDrop, people, TypeOK
<1>20. CASE DropProject(r)
  <2>1. q.op = "drop"
    BY <1>20 DEF DropProject
  <2>2. q.project \in Project
    BY <1>q, <2>1, RequestForms
  <2>3. NoRow \in Row
    BY DEF Row
  <2>4. row' \in [User -> [Project -> Row]]
    BY <1>20, <2>2, <2>3 DEF DropProject, TypeOK
  <2>5. machine' \in [Machine -> MachineRow]
    BY <1>20, RevokedRows DEF DropProject, TypeOK
  <2>6. req' \in [Request -> RequestState]
    BY <1>20, <1>q, RequestType DEF DropProject
  <2>7. project' \subseteq Project /\ dropped' \subseteq Project
    BY <1>20, <2>2 DEF DropProject, TypeOK
  <2> QED
    BY <1>20, <2>4, <2>5, <2>6, <2>7 DEF DropProject, TypeOK
<1> QED
  BY <1>1, <1>2, <1>3, <1>4, <1>5, <1>6, <1>7, <1>8, <1>9, <1>10, <1>11, <1>12, <1>13,
     <1>14, <1>15, <1>16, <1>17, <1>18, <1>19, <1>20 DEF RequestStep

\* Every step preserves types.
LEMMA TypeStep == TypeOK /\ [Next]_vars => TypeOK'
<1> SUFFICES ASSUME TypeOK, [Next]_vars PROVE TypeOK'
  OBVIOUS
<1>1. ASSUME NEW r \in Request, RequestStep(r) PROVE TypeOK'
  BY <1>1, RequestTypeStep
<1>2. ASSUME NEW m \in Machine, DeleteMachineToken(m) PROVE TypeOK'
  BY <1>2, RevokedRows DEF DeleteMachineToken, people, TypeOK
<1>3. ASSUME NEW t \in OrgToken, NEW u \in User, NEW all \in BOOLEAN,
             NEW scope \in SUBSET Project, EditOrgToken(t, u, all, scope)
      PROVE  TypeOK'
  <2> DEFINE late == orgToken[t].by \in User /\ BeingRemoved(orgToken[t].by)
             n == [orgToken[t] EXCEPT !.all = all, !.scope = scope, !.late = late]
  <2>1. late \in BOOLEAN /\ orgToken[t] \in OrgTokenRow
    BY DEF BeingRemoved, TypeOK
  <2>2. orgToken' = [orgToken EXCEPT ![t] = n]
    BY <1>3 DEF EditOrgToken
  <2> HIDE DEF late
  <2>3. n \in OrgTokenRow
    BY <2>1 DEF OrgTokenRow
  <2> QED
    BY <1>3, <2>2, <2>3 DEF EditOrgToken, people, TypeOK
<1>4. ASSUME NEW t \in OrgToken, DeleteOrgToken(t) PROVE TypeOK'
  BY <1>4, RevokedRows DEF DeleteOrgToken, people, TypeOK
<1>5. ASSUME NEW u \in User, DeleteAccount(u) PROVE TypeOK'
  <2>1. \A m \in Machine : [machine[m] EXCEPT !.by = NoUser] \in MachineRow
    BY DEF MachineRow, TypeOK
  <2>2. \A t \in OrgToken : [orgToken[t] EXCEPT !.by = NoUser] \in OrgTokenRow
    BY DEF OrgTokenRow, TypeOK
  <2>3. NoRow \in Row
    BY DEF Row
  <2>4. machine' \in [Machine -> MachineRow] /\ orgToken' \in [OrgToken -> OrgTokenRow]
    BY <1>5, <2>1, <2>2 DEF DeleteAccount, TypeOK
  <2>5. row' \in [User -> [Project -> Row]]
    BY <1>5, <2>3 DEF DeleteAccount, TypeOK
  <2>6. account' \in [User -> BOOLEAN] /\ member' \in [User -> OrgRole \cup {None}]
    BY <1>5 DEF DeleteAccount, TypeOK
  <2> QED
    BY <1>5, <2>4, <2>5, <2>6 DEF DeleteAccount, TypeOK
<1>6. ASSUME NEW u \in User, NEW role \in Role, ChangeRole(u, role) PROVE TypeOK'
  BY <1>6, OrgAccessAssumption DEF ChangeRole, TypeOK
<1>7. ASSUME NEW u \in User, NEW role \in Role, NEW wish \in WishMap, Join(u, role, wish)
      PROVE  TypeOK'
  <2> DEFINE grant == [p \in Project |->
                         IF wish[p] = "ABSENT" \/ p \notin project THEN NoRow
                         ELSE DesiredRow(role, wish[p])]
  <2>1. role \in OrgRole \cup {None}
    BY OrgAccessAssumption
  <2>2. ASSUME NEW p \in Project PROVE grant[p] \in Row
    <3>1. wish[p] # "ABSENT" => wish[p] \in Desired
      BY OrgAccessAssumption DEF WishMap
    <3>2. wish[p] # "ABSENT" => DesiredRow(role, wish[p]) \in Row
      BY <2>1, <3>1, DesiredRowType
    <3>3. NoRow \in Row
      BY DEF Row
    <3> QED
      BY <3>2, <3>3
  <2>3. row' = [row EXCEPT ![u] =
                  [p \in Project |-> IF grant[p] # NoRow THEN grant[p] ELSE @[p]]]
    BY <1>7 DEF Join
  <2> HIDE DEF grant
  <2>4. row' \in [User -> [Project -> Row]]
    BY <2>2, <2>3 DEF TypeOK
  <2>5. member' \in [User -> OrgRole \cup {None}]
    BY <1>7, <2>1 DEF Join, TypeOK
  <2> QED
    BY <1>7, <2>4, <2>5 DEF Join, TypeOK
<1>8. CASE UNCHANGED vars
  BY <1>8 DEF vars, TypeOK
<1> QED
  BY <1>1, <1>2, <1>3, <1>4, <1>5, <1>6, <1>7, <1>8 DEF Next

\* Type correctness for every value of the constants.
THEOREM TypeCorrect == Spec => []TypeOK
  BY InitType, TypeStep, PTL DEF Spec

\* The three forms of the access rules agree in every state a run reaches.
THEOREM FormsAlwaysAgree == Spec => []FormsAgree
<1>1. TypeOK => FormsAgree
  <2> SUFFICES ASSUME TypeOK, NEW u \in User, NEW p \in Project
               PROVE  LET allowed == Access(u, p) # None IN
                      /\ allowed <=> VisibleWhere(member[u], row[u][p])
                      /\ allowed <=> FilterKeeps(member[u], row[u][p], FALSE)
    BY DEF FormsAgree
  <2>1. member[u] \in OrgRole \cup {None} /\ row[u][p] \in Row
    BY DEF TypeOK
  <2> QED
    BY <2>1, FormsAgreeOn DEF Access
<1> QED
  BY <1>1, TypeCorrect, PTL

-----------------------------------------------------------------------------
(* The offboarding cascade.                                                *)

\* A token is on a project that exists: it goes with it.
OnRealProjects ==
    \A m \in Machine : machine[m].state = "LIVE" => machine[m].project \in project

\* What a running removal's list of projects misses was written after it.
TokensListed ==
    \A r \in Request, m \in Machine :
        /\ req[r].op = "remove"
        /\ machine[m].state = "LIVE" /\ machine[m].by = req[r].user
        /\ machine[m].project \notin req[r].projects
        => machine[m].late

CascadeInv == TypeOK /\ CascadeIsComplete /\ OnRealProjects /\ TokensListed

\* What most steps do: no token is written, none outlives its project, nobody
\* leaves who has one, and no removal begins.
Quiet ==
    /\ \A m \in Machine : machine'[m].state = "LIVE" /\ machine[m].project \in project =>
         machine[m].project \in project'
    /\ \A m \in Machine : machine'[m].state = "LIVE" =>
         /\ machine[m].state = "LIVE"
         /\ machine'[m].project = machine[m].project
         /\ machine'[m].late = machine[m].late
         /\ machine'[m].by \in {machine[m].by, NoUser}
    /\ \A t \in OrgToken : orgToken'[t].state = "LIVE" =>
         /\ orgToken[t].state = "LIVE"
         /\ orgToken'[t].all = orgToken[t].all
         /\ orgToken'[t].expires = orgToken[t].expires
         /\ orgToken'[t].late = orgToken[t].late
         /\ orgToken'[t].by \in {orgToken[t].by, NoUser}
    /\ \A u \in User : member'[u] = None =>
         \/ member[u] = None
         \/ /\ \A m \in Machine : machine'[m].by # u
            /\ \A t \in OrgToken : orgToken'[t].by # u
    /\ \A r \in Request : req'[r] = req[r] \/ req'[r].op # "remove"

\* A quiet step preserves the inductive invariant.
LEMMA QuietStep ==
  ASSUME CascadeInv, TypeOK', Quiet
  PROVE  CascadeInv'
<1> USE OrgAccessAssumption
<1>t. TypeOK
  BY DEF CascadeInv
<1>1. CascadeIsComplete'
  <2>1. ASSUME NEW m \in Machine, machine'[m].state = "LIVE", machine'[m].by \in User,
               member'[machine'[m].by] = None
        PROVE  machine'[m].late
    <3>1. machine'[m].by = machine[m].by /\ machine[m].state = "LIVE"
      BY <2>1 DEF Quiet
    <3>2. member[machine[m].by] = None
      BY <2>1, <3>1 DEF Quiet
    <3> QED
      BY <2>1, <3>1, <3>2 DEF Quiet, CascadeInv, CascadeIsComplete
  <2>2. ASSUME NEW t \in OrgToken, orgToken'[t].state = "LIVE", orgToken'[t].by \in User,
               DevForm(t)', member'[orgToken'[t].by] = None
        PROVE  orgToken'[t].late
    <3>1. orgToken'[t].by = orgToken[t].by /\ orgToken[t].state = "LIVE" /\ DevForm(t)
      BY <2>2 DEF Quiet, DevForm
    <3>2. member[orgToken[t].by] = None
      BY <2>2, <3>1 DEF Quiet
    <3> QED
      BY <2>2, <3>1, <3>2 DEF Quiet, CascadeInv, CascadeIsComplete
  <2> QED
    BY <2>1, <2>2 DEF CascadeIsComplete
<1>2. OnRealProjects'
  BY DEF Quiet, CascadeInv, OnRealProjects
<1>3. TokensListed'
  <2> SUFFICES ASSUME NEW r \in Request, NEW m \in Machine, req'[r].op = "remove",
                      machine'[m].state = "LIVE", machine'[m].by = req'[r].user,
                      machine'[m].project \notin req'[r].projects
               PROVE  machine'[m].late
    BY DEF TokensListed
  <2>1. req'[r] = req[r]
    BY DEF Quiet
  <2>2. req[r].user \in User
    BY <1>t, <2>1, RequestForms DEF TypeOK
  <2>3. machine'[m].by = machine[m].by
    BY <2>1, <2>2 DEF Quiet
  <2> QED
    BY <2>1, <2>3 DEF Quiet, CascadeInv, TokensListed
<1> QED
  BY <1>1, <1>2, <1>3 DEF CascadeInv

\* Revoking is quiet for the token tables.
LEMMA RevokeIsQuiet ==
  ASSUME TypeOK, NEW u, NEW ps, NEW among
  PROVE  /\ \A m \in Machine : RevokeMachines(u, ps)[m].state = "LIVE" =>
               RevokeMachines(u, ps)[m] = machine[m]
         /\ \A t \in OrgToken : RevokeOrgTokens(u, among)[t].state = "LIVE" =>
               RevokeOrgTokens(u, among)[t] = orgToken[t]
<1>1. RevokedMachine.state = "REVOKED" /\ RevokedOrgToken.state = "REVOKED"
  BY DEF RevokedMachine, RevokedOrgToken, NoMachine, NoOrgToken
<1> QED
  BY <1>1 DEF RevokeMachines, RevokeOrgTokens

\* The steps of a request that are quiet.
LEMMA QuietRequestStep ==
  ASSUME CascadeInv, NEW r \in Request,
         \/ \E u \in User, all, expires \in BOOLEAN, scope \in SUBSET Project :
              AskOrgToken(r, u, all, scope, expires)
         \/ CheckOrgToken(r)
         \/ \E u \in User, p \in Project, hidden \in {"YES", "NO", None},
               role \in Wish \cup {None} : AskMemberPatch(r, u, p, hidden, role)
         \/ WriteMemberRow(r) \/ SkipMemberRow(r)
         \/ HideMachineTokens(r) \/ HideOrgTokens(r)
         \/ \E u \in User, wish \in WishMap : AskBulk(r, u, wish)
         \/ \E p \in Project : BulkWrite(r, p)
         \/ BulkRevoke(r) \/ Fail(r)
  PROVE  Quiet
<1> DEFINE q == req[r]
<1>t. TypeOK
  BY DEF CascadeInv
<1>q. q \in RequestState
  BY <1>t DEF TypeOK
<1> DEFINE covering == {t \in OrgToken : q.project \in orgToken[t].scope}
           Tables == /\ \/ machine' = machine
                        \/ machine' = RevokeMachines(q.user, {q.project})
                        \/ machine' = RevokeMachines(q.user, {q.lost})
                     /\ \/ orgToken' = orgToken
                        \/ orgToken' = RevokeOrgTokens(q.user, covering)
                     /\ member' = member /\ project' = project
<1>1. Tables
  <2>1. CASE \E u \in User, all, expires \in BOOLEAN, scope \in SUBSET Project :
               AskOrgToken(r, u, all, scope, expires)
    BY <2>1 DEF AskOrgToken, people
  <2>2. CASE \E u \in User, p \in Project, hidden \in {"YES", "NO", None},
               role \in Wish \cup {None} : AskMemberPatch(r, u, p, hidden, role)
    BY <2>2 DEF AskMemberPatch, people
  <2>3. CASE CheckOrgToken(r) \/ WriteMemberRow(r) \/ SkipMemberRow(r) \/ Fail(r)
    BY <2>3 DEF CheckOrgToken, WriteMemberRow, SkipMemberRow, Fail, people
  <2>4. CASE HideMachineTokens(r) \/ HideOrgTokens(r)
    BY <2>4 DEF HideMachineTokens, HideOrgTokens, people
  <2>5. CASE \E u \in User, wish \in WishMap : AskBulk(r, u, wish)
    BY <2>5 DEF AskBulk, people
  <2>6. CASE (\E p \in Project : BulkWrite(r, p)) \/ BulkRevoke(r)
    BY <2>6 DEF BulkWrite, BulkRevoke, people
  <2> HIDE DEF Tables
  <2> QED
    BY <2>1, <2>2, <2>3, <2>4, <2>5, <2>6
<1>2. \A m \in Machine : machine'[m].state = "LIVE" => machine'[m] = machine[m]
  <2>1. ASSUME NEW ps, machine' = RevokeMachines(q.user, ps)
        PROVE  \A m \in Machine : machine'[m].state = "LIVE" => machine'[m] = machine[m]
    BY <1>t, <2>1, RevokeIsQuiet
  <2> HIDE DEF q
  <2> QED
    BY <1>1, <2>1
<1>3. \A t \in OrgToken : orgToken'[t].state = "LIVE" => orgToken'[t] = orgToken[t]
  <2>1. ASSUME NEW among, orgToken' = RevokeOrgTokens(q.user, among)
        PROVE  \A t \in OrgToken : orgToken'[t].state = "LIVE" => orgToken'[t] = orgToken[t]
    BY <1>t, <2>1, RevokeIsQuiet
  <2> HIDE DEF q, covering
  <2> QED
    BY <1>1, <2>1
<1> DEFINE Kept == \A s \in Request : req'[s] = req[s] \/ req'[s].op # "remove"
<1>4. Idle.op # "remove" /\ Failed(q).op # "remove"
  BY DEF Idle, Failed
<1>5. Kept
  <2>1. ASSUME Done(r) PROVE Kept
    BY <1>t, <1>4, <2>1 DEF Done, TypeOK
  <2>2. ASSUME NEW u \in User, NEW all \in BOOLEAN, NEW expires \in BOOLEAN,
               NEW scope \in SUBSET Project, AskOrgToken(r, u, all, scope, expires)
        PROVE  Kept
    BY <1>t, <2>2 DEF AskOrgToken, Begin, TypeOK
  <2>3. CASE CheckOrgToken(r)
    <3>1. [q EXCEPT !.checked = TRUE].op = "orgToken"
      BY <2>3, <1>q DEF CheckOrgToken, RequestState, Idle
    <3> QED
      BY <1>t, <2>3, <3>1 DEF CheckOrgToken, TypeOK
  <2>4. ASSUME NEW u \in User, NEW p \in Project, NEW hidden \in {"YES", "NO", None},
               NEW role \in Wish \cup {None}, AskMemberPatch(r, u, p, hidden, role)
        PROVE  Kept
    BY <1>t, <2>4 DEF AskMemberPatch, Begin, TypeOK
  <2>5. CASE WriteMemberRow(r)
    <3>1. [q EXCEPT !.step = "machine"].op = "member"
      BY <2>5, <1>q DEF WriteMemberRow, RequestState, Idle
    <3>2. Done(r) \/ req' = [req EXCEPT ![r] = [q EXCEPT !.step = "machine"]]
      BY <2>5 DEF WriteMemberRow
    <3> QED
      BY <1>t, <2>1, <3>1, <3>2 DEF TypeOK
  <2>6. CASE SkipMemberRow(r) \/ HideOrgTokens(r)
    BY <2>1, <2>6 DEF SkipMemberRow, HideOrgTokens
  <2>7. CASE HideMachineTokens(r)
    <3>1. [q EXCEPT !.step = "orgToken"].op = "member"
      BY <2>7, <1>q DEF HideMachineTokens, RequestState, Idle
    <3> QED
      BY <1>t, <2>7, <3>1 DEF HideMachineTokens, TypeOK
  <2>8. ASSUME NEW u \in User, NEW wish \in WishMap, AskBulk(r, u, wish) PROVE Kept
    BY <1>t, <2>8 DEF AskBulk, Begin, TypeOK
  <2>9. ASSUME NEW p \in Project, BulkWrite(r, p) PROVE Kept
    <3>1. /\ [q EXCEPT !.todo = @ \ {p}, !.lost = p].op = "bulk"
          /\ [q EXCEPT !.todo = @ \ {p}].op = "bulk"
      BY <2>9, <1>q DEF BulkWrite, RequestState, Idle
    <3>2. \/ req' = [req EXCEPT ![r] = [q EXCEPT !.todo = @ \ {p}, !.lost = p]]
          \/ req' = [req EXCEPT ![r] = [q EXCEPT !.todo = @ \ {p}]]
          \/ Done(r)
      BY <2>9 DEF BulkWrite
    <3> QED
      BY <1>t, <2>1, <3>1, <3>2 DEF TypeOK
  <2>10. CASE BulkRevoke(r)
    <3>1. [q EXCEPT !.lost = NoProject].op = "bulk"
      BY <2>10, <1>q DEF BulkRevoke, RequestState, Idle
    <3>2. Done(r) \/ req' = [req EXCEPT ![r] = [q EXCEPT !.lost = NoProject]]
      BY <2>10 DEF BulkRevoke
    <3> QED
      BY <1>t, <2>1, <3>1, <3>2 DEF TypeOK
  <2>11. CASE Fail(r)
    <3>1. Done(r) \/ req' = [req EXCEPT ![r] = Failed(q)]
      BY <2>11 DEF Fail, Done, TypeOK
    <3> QED
      BY <1>t, <1>4, <2>1, <3>1 DEF TypeOK
  <2> HIDE DEF Kept
  <2> QED
    BY <2>2, <2>3, <2>4, <2>5, <2>6, <2>7, <2>8, <2>9, <2>10, <2>11
<1> QED
  BY <1>1, <1>2, <1>3, <1>5 DEF Quiet

\* The quiet steps outside a request.
LEMMA QuietOtherStep ==
  ASSUME CascadeInv,
         \/ \E m \in Machine : DeleteMachineToken(m)
         \/ \E t \in OrgToken : DeleteOrgToken(t)
         \/ \E u \in User : DeleteAccount(u)
         \/ \E u \in User, role \in Role : ChangeRole(u, role)
         \/ \E u \in User, role \in Role, wish \in WishMap : Join(u, role, wish)
         \/ UNCHANGED vars
  PROVE  Quiet
<1> USE OrgAccessAssumption
<1>t. TypeOK
  BY DEF CascadeInv
<1>r. RevokedMachine.state = "REVOKED" /\ RevokedOrgToken.state = "REVOKED"
  BY DEF RevokedMachine, RevokedOrgToken, NoMachine, NoOrgToken
<1>1. ASSUME NEW m \in Machine, DeleteMachineToken(m) PROVE Quiet
  BY <1>1, <1>t, <1>r DEF DeleteMachineToken, people, Quiet, TypeOK
<1>2. ASSUME NEW t \in OrgToken, DeleteOrgToken(t) PROVE Quiet
  BY <1>2, <1>t, <1>r DEF DeleteOrgToken, people, Quiet, TypeOK
<1>3. ASSUME NEW u \in User, DeleteAccount(u) PROVE Quiet
  <2>1. ASSUME NEW m \in Machine
        PROVE  /\ machine'[m].state = machine[m].state
               /\ machine'[m].project = machine[m].project
               /\ machine'[m].late = machine[m].late
               /\ machine'[m].by \in {machine[m].by, NoUser}
               /\ machine'[m].by # u
    <3>1. machine[m] \in MachineRow
      BY <1>t DEF TypeOK
    <3>2. machine'[m] = IF machine[m].by = u THEN [machine[m] EXCEPT !.by = NoUser]
                        ELSE machine[m]
      BY <1>3 DEF DeleteAccount
    <3> QED
      BY <3>1, <3>2 DEF MachineRow
  <2>2. ASSUME NEW t \in OrgToken
        PROVE  /\ orgToken'[t].state = orgToken[t].state
               /\ orgToken'[t].all = orgToken[t].all
               /\ orgToken'[t].expires = orgToken[t].expires
               /\ orgToken'[t].late = orgToken[t].late
               /\ orgToken'[t].by \in {orgToken[t].by, NoUser}
               /\ orgToken'[t].by # u
    <3>1. orgToken[t] \in OrgTokenRow
      BY <1>t DEF TypeOK
    <3>2. orgToken'[t] = IF orgToken[t].by = u THEN [orgToken[t] EXCEPT !.by = NoUser]
                         ELSE orgToken[t]
      BY <1>3 DEF DeleteAccount
    <3> QED
      BY <3>1, <3>2 DEF OrgTokenRow
  <2>3. /\ \A v \in User \ {u} : member'[v] = member[v]
        /\ project' = project /\ req' = req
    BY <1>3, <1>t DEF DeleteAccount, TypeOK
  <2> QED
    BY <2>1, <2>2, <2>3 DEF Quiet
<1>4. ASSUME NEW u \in User, NEW role \in Role, ChangeRole(u, role) PROVE Quiet
  BY <1>4, <1>t, NoneIsNoRole DEF ChangeRole, Quiet, TypeOK
<1>5. ASSUME NEW u \in User, NEW role \in Role, NEW wish \in WishMap, Join(u, role, wish)
      PROVE  Quiet
  BY <1>5, <1>t, NoneIsNoRole DEF Join, Quiet, TypeOK
<1>6. CASE UNCHANGED vars
  BY <1>6 DEF vars, Quiet
<1> QED
  BY <1>1, <1>2, <1>3, <1>4, <1>5, <1>6

\* Asking for a token, and the life of a project, are quiet too: deleting one
\* narrows the organisation tokens and takes the machine tokens with it.
LEMMA QuietProjectStep ==
  ASSUME CascadeInv, NEW r \in Request,
         \/ \E u \in User, p \in Project : AskMachineToken(r, u, p)
         \/ \E c \in User \cup {NoUser}, wish \in UserWish : AskProject(r, c, wish)
         \/ \E p \in Project : CreateProject(r, p)
         \/ \E p \in Project : AskDrop(r, p)
         \/ DropProject(r)
  PROVE  Quiet
<1>t. TypeOK
  BY DEF CascadeInv
<1>1. ASSUME NEW u \in User, NEW p \in Project, AskMachineToken(r, u, p) PROVE Quiet
  BY <1>1, <1>t DEF AskMachineToken, Begin, people, Quiet, TypeOK
<1>2. ASSUME NEW c \in User \cup {NoUser}, NEW wish \in UserWish, AskProject(r, c, wish)
      PROVE  Quiet
  <2> DEFINE rows == [u \in User |->
                        IF u = c THEN [role |-> "OWNER", hidden |-> FALSE]
                        ELSE IF wish[u] = "ABSENT" THEN NoRow
                        ELSE DesiredRow(member[u], wish[u])]
  <2>1. /\ Begin(r, [op |-> "project", rows |-> rows])
        /\ machine' = machine /\ orgToken' = orgToken /\ member' = member
        /\ project' = project
    BY <1>2 DEF AskProject, people
  <2> HIDE DEF rows
  <2> QED
    BY <2>1, <1>t DEF Begin, Quiet, TypeOK
<1>3. ASSUME NEW p \in Project, CreateProject(r, p) PROVE Quiet
  BY <1>3, <1>t DEF CreateProject, Done, Idle, Quiet, TypeOK
<1>4. ASSUME NEW p \in Project, AskDrop(r, p) PROVE Quiet
  <2>1. ASSUME NEW t \in OrgToken
        PROVE  /\ orgToken'[t].state = orgToken[t].state
               /\ orgToken'[t].all = orgToken[t].all
               /\ orgToken'[t].expires = orgToken[t].expires
               /\ orgToken'[t].late = orgToken[t].late
               /\ orgToken'[t].by = orgToken[t].by
    <3>1. orgToken[t] \in OrgTokenRow
      BY <1>t DEF TypeOK
    <3>2. orgToken'[t] = [orgToken[t] EXCEPT !.scope = @ \ {p}]
      BY <1>4 DEF AskDrop
    <3> QED
      BY <3>1, <3>2 DEF OrgTokenRow
  <2>2. /\ machine' = machine /\ member' = member /\ project' = project
        /\ \A s \in Request : req'[s] = req[s] \/ req'[s].op = "drop"
    BY <1>4, <1>t DEF AskDrop, Begin, people, TypeOK
  <2> QED
    BY <2>1, <2>2 DEF Quiet
<1>5. CASE DropProject(r)
  <2>1. RevokedMachine.state = "REVOKED"
    BY DEF RevokedMachine, NoMachine
  <2>2. \A m \in Machine : machine'[m].state = "LIVE" =>
          machine'[m] = machine[m] /\ machine[m].project # req[r].project
    BY <1>5, <2>1 DEF DropProject
  <2>3. /\ project' = project \ {req[r].project}
        /\ orgToken' = orgToken /\ member' = member
        /\ \A s \in Request : req'[s] = req[s] \/ req'[s] = Idle
    BY <1>5, <1>t DEF DropProject, Done, TypeOK
  <2> QED
    BY <2>2, <2>3 DEF Quiet, Idle
<1> QED
  BY <1>1, <1>2, <1>3, <1>4, <1>5

\* A machine token written while its creator is being removed, or after, is late;
\* any other has a member for creator and no removal of it is running.
LEMMA CreateMachineTokenStep ==
  ASSUME CascadeInv, TypeOK', NEW r \in Request, NEW m \in Machine,
         CreateMachineToken(r, m)
  PROVE  CascadeInv'
<1> DEFINE q == req[r]
<1>t. TypeOK
  BY DEF CascadeInv
<1>1. /\ project' = project /\ orgToken' = orgToken /\ member' = member
      /\ q.op = "token" /\ req'[r] = Idle
      /\ machine'[m].project = q.project /\ machine'[m].by = q.user
      /\ machine'[m].late = BeingRemoved(q.user) /\ q.project \in project
      /\ \A s \in Request \ {r} : req'[s] = req[s]
      /\ \A n \in Machine \ {m} : machine'[n] = machine[n]
  BY <1>t DEF CreateMachineToken, Done, people, TypeOK
<1>2. CascadeIsComplete'
  <2>1. ASSUME NEW n \in Machine, machine'[n].state = "LIVE", machine'[n].by \in User,
               member'[machine'[n].by] = None
        PROVE  machine'[n].late
    <3>1. CASE n = m
      <4>1. member[q.user] = None
        BY <1>1, <2>1, <3>1
      <4> QED
        BY <1>1, <3>1, <4>1 DEF BeingRemoved
    <3>2. CASE n # m
      BY <1>1, <2>1, <3>2 DEF CascadeInv, CascadeIsComplete
    <3> QED
      BY <3>1, <3>2
  <2>2. ASSUME NEW t \in OrgToken, orgToken'[t].state = "LIVE", orgToken'[t].by \in User,
               DevForm(t)', member'[orgToken'[t].by] = None
        PROVE  orgToken'[t].late
    <3>1. DevForm(t)
      BY <1>1, <2>2 DEF DevForm
    <3> QED
      BY <1>1, <2>2, <3>1 DEF CascadeInv, CascadeIsComplete
  <2> QED
    BY <2>1, <2>2 DEF CascadeIsComplete
<1>3. OnRealProjects'
  BY <1>1 DEF CascadeInv, OnRealProjects, Idle
<1>4. TokensListed'
  <2> SUFFICES ASSUME NEW s \in Request, NEW n \in Machine, req'[s].op = "remove",
                      machine'[n].state = "LIVE", machine'[n].by = req'[s].user,
                      machine'[n].project \notin req'[s].projects
               PROVE  machine'[n].late
    BY DEF TokensListed
  <2>1. s # r /\ req'[s] = req[s]
    BY <1>1 DEF Idle
  <2>2. CASE n = m
    <3>1. BeingRemoved(q.user)
      BY <1>1, <2>1, <2>2 DEF BeingRemoved
    <3> QED
      BY <1>1, <2>2, <3>1
  <2>3. CASE n # m
    BY <1>1, <2>1, <2>3 DEF CascadeInv, TokensListed
  <2> QED
    BY <2>2, <2>3
<1> QED
  BY <1>2, <1>3, <1>4 DEF CascadeInv

\* Writing or editing an organisation token dates it the same way.
LEMMA WriteOrgTokenStep ==
  ASSUME CascadeInv, TypeOK', NEW t \in OrgToken,
         \/ \E r \in Request : CreateOrgToken(r, t)
         \/ \E u \in User, all \in BOOLEAN, scope \in SUBSET Project :
              EditOrgToken(t, u, all, scope)
  PROVE  CascadeInv'
<1>t. TypeOK
  BY DEF CascadeInv
<1> DEFINE Written ==
      /\ project' = project /\ machine' = machine /\ member' = member
      /\ orgToken'[t].by \in User =>
           orgToken'[t].late = BeingRemoved(orgToken'[t].by)
      /\ \A s \in OrgToken \ {t} : orgToken'[s] = orgToken[s]
      /\ \A s \in Request : req'[s] = req[s] \/ req'[s].op = "idle"
<1>1. Written
  <2>1. ASSUME NEW r \in Request, CreateOrgToken(r, t) PROVE Written
    BY <2>1, <1>t DEF CreateOrgToken, Done, Idle, people, TypeOK
  <2>2. ASSUME NEW u \in User, NEW all \in BOOLEAN, NEW scope \in SUBSET Project,
               EditOrgToken(t, u, all, scope)
        PROVE  Written
    <3> DEFINE late == orgToken[t].by \in User /\ BeingRemoved(orgToken[t].by)
               n == [orgToken[t] EXCEPT !.all = all, !.scope = scope, !.late = late]
    <3>1. orgToken' = [orgToken EXCEPT ![t] = n]
      BY <2>2 DEF EditOrgToken
    <3>2. orgToken[t] \in OrgTokenRow
      BY <1>t DEF TypeOK
    <3> HIDE DEF late
    <3>3. n.by = orgToken[t].by /\ n.late = late
      BY <3>2 DEF OrgTokenRow
    <3>4. orgToken'[t] = n
      BY <3>1, <1>t DEF TypeOK
    <3>5. orgToken'[t].by \in User => orgToken'[t].late = BeingRemoved(orgToken'[t].by)
      BY <3>3, <3>4 DEF late, BeingRemoved
    <3> QED
      BY <2>2, <3>1, <3>5, <1>t DEF EditOrgToken, people, TypeOK
  <2> QED
    BY <2>1, <2>2
<1>2. CascadeIsComplete'
  BY <1>1 DEF CascadeInv, CascadeIsComplete, DevForm, BeingRemoved
<1>3. OnRealProjects'
  BY <1>1 DEF CascadeInv, OnRealProjects
<1>4. TokensListed'
  BY <1>1 DEF CascadeInv, TokensListed
<1> QED
  BY <1>2, <1>3, <1>4 DEF CascadeInv

\* A removal lists every project, so every token there is.
LEMMA AskRemovalStep ==
  ASSUME CascadeInv, TypeOK', NEW r \in Request, NEW u \in User, AskRemoval(r, u)
  PROVE  CascadeInv'
<1>t. TypeOK
  BY DEF CascadeInv
<1>1. /\ project' = project /\ machine' = machine /\ orgToken' = orgToken
      /\ member' = member
      /\ req'[r].op = "remove" /\ req'[r].projects = project
      /\ \A s \in Request \ {r} : req'[s] = req[s]
  BY <1>t DEF AskRemoval, Begin, people, TypeOK
<1>2. CascadeIsComplete'
  BY <1>1 DEF CascadeInv, CascadeIsComplete, DevForm
<1>3. OnRealProjects'
  BY <1>1 DEF CascadeInv, OnRealProjects
<1>4. TokensListed'
  BY <1>1 DEF CascadeInv, TokensListed, OnRealProjects
<1> QED
  BY <1>2, <1>3, <1>4 DEF CascadeInv

\* The transaction revokes every token it listed, and every DEV organisation token.
LEMMA CommitRemovalStep ==
  ASSUME CascadeInv, TypeOK', NEW r \in Request, CommitRemoval(r)
  PROVE  CascadeInv'
<1> DEFINE q == req[r]
<1>t. TypeOK
  BY DEF CascadeInv
<1>1. /\ project' = project /\ q.op = "remove"
      /\ machine' = RevokeMachines(q.user, q.projects)
      /\ orgToken' = RevokeOrgTokens(q.user, OrgToken)
      /\ \A v \in User \ {q.user} : member'[v] = member[v]
      /\ req'[r] = Idle /\ \A s \in Request \ {r} : req'[s] = req[s]
  BY <1>t DEF CommitRemoval, Done, TypeOK
<1>2. RevokedMachine.state = "REVOKED" /\ RevokedOrgToken.state = "REVOKED"
  BY DEF RevokedMachine, RevokedOrgToken, NoMachine, NoOrgToken
<1>3. ASSUME NEW m \in Machine, machine'[m].state = "LIVE"
      PROVE  /\ machine'[m] = machine[m]
             /\ machine[m].by = q.user => machine[m].project \notin q.projects
  BY <1>1, <1>2, <1>3 DEF RevokeMachines
<1>4. ASSUME NEW t \in OrgToken, orgToken'[t].state = "LIVE"
      PROVE  orgToken'[t] = orgToken[t] /\ (orgToken[t].by = q.user => ~DevForm(t))
  BY <1>1, <1>2, <1>4 DEF RevokeOrgTokens
<1>5. CascadeIsComplete'
  <2>1. ASSUME NEW m \in Machine, machine'[m].state = "LIVE", machine'[m].by \in User,
               member'[machine'[m].by] = None
        PROVE  machine'[m].late
    <3>1. CASE machine[m].by = q.user
      BY <1>1, <1>3, <2>1, <3>1 DEF CascadeInv, TokensListed
    <3>2. CASE machine[m].by # q.user
      BY <1>1, <1>3, <2>1, <3>2 DEF CascadeInv, CascadeIsComplete
    <3> QED
      BY <3>1, <3>2
  <2>2. ASSUME NEW t \in OrgToken, orgToken'[t].state = "LIVE", orgToken'[t].by \in User,
               DevForm(t)', member'[orgToken'[t].by] = None
        PROVE  orgToken'[t].late
    <3>1. DevForm(t) /\ orgToken[t].by # q.user
      BY <1>4, <2>2 DEF DevForm
    <3> QED
      BY <1>1, <1>4, <2>2, <3>1 DEF CascadeInv, CascadeIsComplete
  <2> QED
    BY <2>1, <2>2 DEF CascadeIsComplete
<1>6. OnRealProjects'
  BY <1>1, <1>3 DEF CascadeInv, OnRealProjects, Idle
<1>7. TokensListed'
  BY <1>1, <1>3 DEF CascadeInv, TokensListed, Idle
<1> QED
  BY <1>5, <1>6, <1>7 DEF CascadeInv

LEMMA CascadeStarts == Init => CascadeInv
<1>1. Init => CascadeIsComplete /\ OnRealProjects /\ TokensListed
  BY DEF Init, CascadeIsComplete, OnRealProjects, TokensListed, NoMachine, NoOrgToken, Idle
<1> QED
  BY <1>1, InitType DEF CascadeInv

LEMMA CascadeStays == ASSUME CascadeInv, [Next]_vars PROVE CascadeInv'
<1>1. TypeOK'
  BY TypeStep DEF CascadeInv
<1>2. ASSUME NEW r \in Request, RequestStep(r) PROVE CascadeInv'
  BY <1>1, <1>2, QuietStep, QuietRequestStep, QuietProjectStep, CreateMachineTokenStep,
     WriteOrgTokenStep, AskRemovalStep, CommitRemovalStep DEF RequestStep
<1>3. ASSUME NEW t \in OrgToken, NEW u \in User, NEW all \in BOOLEAN,
             NEW scope \in SUBSET Project, EditOrgToken(t, u, all, scope)
      PROVE  CascadeInv'
  BY <1>1, <1>3, WriteOrgTokenStep
<1> QED
  BY <1>1, <1>2, <1>3, QuietStep, QuietOtherStep DEF Next

\* The offboarding leaves no live token behind that was written before it began:
\* for any number of concurrent requests, projects created meanwhile included.
THEOREM OffboardingCascade == Spec => []CascadeIsComplete
<1>1. CascadeInv => CascadeIsComplete
  BY DEF CascadeInv
<1> QED
  BY <1>1, CascadeStarts, CascadeStays, PTL DEF Spec

-----------------------------------------------------------------------------
(* Requests one at a time (MCOrgAccess).                                   *)

RowsOnProjects == \A u \in User, p \in Project : row[u][p] # NoRow => p \in project

\* What a request read is still true when it writes, unless the account is gone.
Sound(q) ==
    /\ q.op \in {"token", "member", "bulk"} => (account[q.user] => member[q.user] # None)
    /\ q.op = "token" =>
         (account[q.user] /\ ~IgnoresHidden(q.as) => ~row[q.user][q.project].hidden)
    /\ q.op = "bulk" =>
         (account[q.user] => \A p \in q.todo :
            q.target[p].hidden => p \in q.loses \/ row[q.user][p].hidden)
    /\ q.op = "remove" => q.projects = project
    /\ q.op = "project" =>
         \A u \in User : q.rows[u] # NoRow /\ account[u] => member[u] # None

\* The request is about to revoke u's tokens on p, or failed before it did.
Finishes(q, u, p) ==
    \/ q.op = "failed" /\ q.user = u
    \/ q.op = "member" /\ q.user = u /\ q.project = p /\ q.step = "machine"
    \/ q.op = "bulk" /\ q.user = u /\ q.lost = p

HidingIsCovered ==
    \A m \in Machine :
        LET t == machine[m] IN
        /\ t.state = "LIVE" /\ t.by \in User /\ ~IgnoresHidden(t.as)
        /\ row[t.by][t.project].hidden
        => \E r \in Request : Finishes(req[r], t.by, t.project)

Fenced ==
    /\ RowsOnProjects /\ RuleSix /\ MachineTokensDieOnRemoval /\ HidingIsCovered
    /\ \A r \in Request : Sound(req[r])

Spent(q) == q.op \in {"idle", "failed"}

\* A request that is over promises nothing, now or later.
LEMMA SpentIsSound ==
    ASSUME NEW q, Spent(q)
    PROVE  Sound(q) /\ Sound(q)'
  BY DEF Spent, Sound

\* A request under way is the only one.
LEMMA OthersAreSpent ==
    ASSUME OneByOne, NEW r \in Request, ~Spent(req[r])
    PROVE  \A s \in Request \ {r} : Spent(req[s])
  BY DEF OneByOne, UnderWay, Spent

\* NoRow hides nothing.
LEMMA NoRowHidesNothing == NoRow.hidden = FALSE
  BY DEF NoRow

\* A request begins, goes on or ends and writes neither row nor membership: the tokens
\* it no longer covers, it has revoked.
LEMMA QuietKeepsFences ==
    ASSUME CascadeInv, Fenced, NEW r \in Request, NEW q \in RequestState,
           req' = [req EXCEPT ![r] = q], UNCHANGED <<account, project, member, row>>,
           Sound(q),
           \A m \in Machine : machine'[m].state = "LIVE" =>
             /\ machine'[m] = machine[m]
             /\ Finishes(req[r], machine[m].by, machine[m].project) =>
                  Finishes(q, machine[m].by, machine[m].project)
    PROVE  Fenced'
<1>1. req'[r] = q /\ \A s \in Request \ {r} : req'[s] = req[s]
  BY DEF CascadeInv, TypeOK
<1>2. RowsOnProjects' /\ RuleSix'
  BY DEF Fenced, RowsOnProjects, RuleSix
<1>3. MachineTokensDieOnRemoval'
  BY DEF Fenced, MachineTokensDieOnRemoval
<1>4. HidingIsCovered'
  <2> SUFFICES ASSUME NEW m \in Machine, machine'[m].state = "LIVE", machine'[m].by \in User,
                      ~IgnoresHidden(machine'[m].as),
                      row'[machine'[m].by][machine'[m].project].hidden
               PROVE  \E s \in Request : Finishes(req'[s], machine'[m].by, machine'[m].project)
    BY DEF HidingIsCovered, Finishes
  <2>1. machine'[m] = machine[m]
    OBVIOUS
  <2>2. PICK s \in Request : Finishes(req[s], machine[m].by, machine[m].project)
    BY <2>1 DEF Fenced, HidingIsCovered
  <2>3. CASE s = r
    BY <1>1, <2>1, <2>2, <2>3
  <2>4. CASE s # r
    BY <1>1, <2>1, <2>2, <2>4
  <2> QED
    BY <2>3, <2>4
<1>5. ASSUME NEW s \in Request PROVE Sound(req[s])'
  <2>1. CASE s = r
    BY <1>1, <2>1 DEF Sound
  <2>2. CASE s # r
    <3>1. Sound(req[s]) /\ req'[s] = req[s]
      BY <1>1, <2>2 DEF Fenced
    <3> QED
      BY <3>1 DEF Sound
  <2> QED
    BY <2>1, <2>2
<1> QED
  BY <1>2, <1>3, <1>4, <1>5 DEF Fenced

\* A request ends, having revoked what it covered.
LEMMA DoneKeepsFences ==
    ASSUME CascadeInv, Fenced, NEW r \in Request, Done(r),
           UNCHANGED <<account, project, member, row>>,
           \A m \in Machine : machine'[m].state = "LIVE" =>
             /\ machine'[m] = machine[m]
             /\ ~Finishes(req[r], machine[m].by, machine[m].project)
    PROVE  Fenced'
<1>1. Idle \in RequestState /\ Spent(Idle)
  BY DEF RequestState, Spent, Idle
<1>2. Sound(Idle)
  BY <1>1, SpentIsSound
<1>3. req' = [req EXCEPT ![r] = Idle]
  BY DEF Done
<1>4. \A m \in Machine : machine'[m].state = "LIVE" =>
        /\ machine'[m] = machine[m]
        /\ Finishes(req[r], machine[m].by, machine[m].project) =>
             Finishes(Idle, machine[m].by, machine[m].project)
  OBVIOUS
<1> QED
  BY <1>1, <1>2, <1>3, <1>4, QuietKeepsFences

\* A request begins with what it read.
LEMMA BeginKeepsFences ==
    ASSUME CascadeInv, Fenced, NEW r \in Request, NEW q \in RequestState, Begin(r, q),
           UNCHANGED <<account, project, member, row, machine>>, Sound(q)
    PROVE  Fenced'
<1>1. \A m \in Machine : ~Finishes(req[r], machine[m].by, machine[m].project)
  BY DEF Begin, Finishes, Idle
<1> QED
  BY <1>1, QuietKeepsFences DEF Begin

\* Steps of no request that write neither row nor membership.
LEMMA OutsideKeepsFences ==
    ASSUME Fenced, UNCHANGED <<account, project, member, row, req>>,
           \A m \in Machine : machine'[m].state = "LIVE" => machine'[m] = machine[m]
    PROVE  Fenced'
<1>1. RowsOnProjects' /\ RuleSix' /\ MachineTokensDieOnRemoval'
  BY DEF Fenced, RowsOnProjects, RuleSix, MachineTokensDieOnRemoval
<1>2. HidingIsCovered'
  BY DEF Fenced, HidingIsCovered, Finishes
<1>3. ASSUME NEW s \in Request PROVE Sound(req[s])'
  <2>1. Sound(req[s])
    BY DEF Fenced
  <2> QED
    BY <2>1 DEF Sound
<1> QED
  BY <1>1, <1>2, <1>3 DEF Fenced

\* The bulk form hides a project only from whom it also takes the access away, or from
\* whom it was hidden already.
LEMMA HidingLoses ==
    ASSUME NEW o \in OrgRole, ~IgnoresHidden(o), NEW cur \in Row, NEW wish \in Desired \cup {"ABSENT"},
           NEW target, target = (IF wish # "ABSENT" THEN DesiredRow(o, wish)
                                 ELSE IF cur.hidden THEN cur ELSE NoRow),
           target # cur, target.hidden
    PROVE  /\ EffectiveRole(o, target, FALSE) = None
           /\ EffectiveRole(o, cur, FALSE) # None \/ cur.hidden
<1>1. wish # "ABSENT" /\ target = DesiredRow(o, wish)
  BY NoRowHidesNothing
<1>2. wish = None /\ ImplicitGrant(o) # None
  BY <1>1, NoRowHidesNothing DEF DesiredRow, None, Desired
<1>3. EffectiveRole(o, target, FALSE) = None
  BY <1>1, <1>2, DesiredRowIsInverse DEF Desired
<1>4. o # None /\ ResolveOrgRole(o, FALSE) = o
  BY NoneIsNoRole DEF ResolveOrgRole
<1>5. CASE cur = NoRow
  BY <1>2, <1>3, <1>4, <1>5 DEF EffectiveRole
<1>6. CASE cur # NoRow
  <2>1. cur.role # None
    BY <1>6, NoneIsNoRole DEF Row, ProjectRow
  <2>2. EffectiveRole(o, cur, FALSE) = IF cur.hidden THEN None ELSE cur.role
    BY <1>4, <1>6 DEF EffectiveRole
  <2> QED
    BY <1>3, <2>1, <2>2
<1> QED
  BY <1>5, <1>6

\* Asking for a machine token, or for a member's rows, takes a member.
LEMMA AsksKeepFences ==
    ASSUME CascadeInv, Fenced, NEW r \in Request,
           \/ \E u \in User, p \in Project : AskMachineToken(r, u, p)
           \/ \E u \in User, all, expires \in BOOLEAN, scope \in SUBSET Project :
                AskOrgToken(r, u, all, scope, expires)
           \/ \E u \in User, p \in Project, hidden \in {"YES", "NO", None},
                 role \in Wish \cup {None} : AskMemberPatch(r, u, p, hidden, role)
           \/ \E u \in User : AskRemoval(r, u)
           \/ \E p \in Project : AskDrop(r, p),
           TypeOK'
    PROVE  Fenced'
<1>t. TypeOK
  BY DEF CascadeInv
<1>0. ASSUME NEW q, Begin(r, q) PROVE q \in RequestState
  BY <1>0, <1>t DEF Begin, TypeOK
<1>1. ASSUME NEW u \in User, NEW p \in Project, AskMachineToken(r, u, p) PROVE Fenced'
  <2> DEFINE q == [op |-> "token", user |-> u, project |-> p, as |-> member[u]]
  <2>1. Access(u, p) # None
    BY <1>1 DEF AskMachineToken, HasProjectRole
  <2>2. member[u] \in OrgRole \cup {None} /\ row[u][p] \in Row
    BY <1>t DEF TypeOK
  <2>3. ResolveOrgRole(member[u], FALSE) = member[u]
    BY DEF ResolveOrgRole
  <2>4. member[u] # None
    <3> SUFFICES ASSUME member[u] = None PROVE FALSE
      OBVIOUS
    <3>1. row[u][p] = NoRow
      BY DEF Fenced, RuleSix
    <3>2. EffectiveRole(None, NoRow, FALSE) = None
      BY DEF EffectiveRole, ResolveOrgRole, IgnoresHidden, ImplicitGrant, None
    <3> QED
      BY <2>1, <3>1, <3>2 DEF Access
  <2>5. ~IgnoresHidden(member[u]) => ~row[u][p].hidden
    BY <2>1, <2>3, NoRowHidesNothing DEF Access, EffectiveRole
  <2>6. Sound(q)
    BY <2>4, <2>5 DEF Sound
  <2>7. Begin(r, q) /\ UNCHANGED <<account, project, member, row, machine>>
    BY <1>1 DEF AskMachineToken, people
  <2> HIDE DEF q
  <2> QED
    BY <1>0, <2>6, <2>7, BeginKeepsFences
<1>2. ASSUME NEW u \in User, NEW all \in BOOLEAN, NEW expires \in BOOLEAN,
             NEW scope \in SUBSET Project, AskOrgToken(r, u, all, scope, expires)
      PROVE  Fenced'
  <2> DEFINE q == [op |-> "orgToken", user |-> u, as |-> member[u], all |-> all,
                   scope |-> scope, expires |-> expires, checked |-> FALSE]
  <2>1. Sound(q)
    BY DEF Sound
  <2>2. Begin(r, q) /\ UNCHANGED <<account, project, member, row, machine>>
    BY <1>2 DEF AskOrgToken, people
  <2> HIDE DEF q
  <2> QED
    BY <1>0, <2>1, <2>2, BeginKeepsFences
<1>3. ASSUME NEW u \in User, NEW p \in Project, NEW hidden \in {"YES", "NO", None},
             NEW role \in Wish \cup {None}, AskMemberPatch(r, u, p, hidden, role)
      PROVE  Fenced'
  <2> DEFINE cur == row[u][p]
             next == [role   |-> IF role # None THEN role
                                 ELSE IF cur # NoRow THEN cur.role ELSE "VIEWER",
                      hidden |-> IF hidden # None THEN hidden = "YES" ELSE cur.hidden]
             needed == next.hidden \/ next.role # "VIEWER" \/ ~HasDevPrivileges(member[u])
             q == [op |-> "member", user |-> u, project |-> p, had |-> cur # NoRow,
                   target |-> next, needed |-> needed, step |-> "row"]
  <2>1. /\ Begin(r, q) /\ UNCHANGED <<account, project, member, row, machine>>
        /\ member[u] # None
    BY <1>3 DEF AskMemberPatch, people
  <2> HIDE DEF cur, next, needed
  <2>2. Sound(q)
    BY <2>1 DEF Sound
  <2> HIDE DEF q
  <2> QED
    BY <1>0, <2>1, <2>2, BeginKeepsFences
<1>4. ASSUME NEW u \in User, AskRemoval(r, u) PROVE Fenced'
  <2> DEFINE q == [op |-> "remove", user |-> u, projects |-> project]
  <2>1. Sound(q)
    BY DEF Sound
  <2>2. Begin(r, q) /\ UNCHANGED <<account, project, member, row, machine>>
    BY <1>4 DEF AskRemoval, people
  <2> HIDE DEF q
  <2> QED
    BY <1>0, <2>1, <2>2, BeginKeepsFences
<1>5. ASSUME NEW p \in Project, AskDrop(r, p) PROVE Fenced'
  <2> DEFINE q == [op |-> "drop", project |-> p]
  <2>1. Sound(q)
    BY DEF Sound
  <2>2. Begin(r, q) /\ UNCHANGED <<account, project, member, row, machine>>
    BY <1>5 DEF AskDrop, people
  <2> HIDE DEF q
  <2> QED
    BY <1>0, <2>1, <2>2, BeginKeepsFences
<1> QED
  BY <1>1, <1>2, <1>3, <1>4, <1>5

\* The bulk form reads a member, and marks what it hides among what it loses.
LEMMA AskBulkKeepsFences ==
    ASSUME CascadeInv, Fenced, NEW r \in Request, NEW u \in User, NEW wish \in WishMap,
           AskBulk(r, u, wish), TypeOK'
    PROVE  Fenced'
<1> DEFINE cur == row[u]
           target == [p \in Project |->
                        IF wish[p] # "ABSENT" THEN DesiredRow(member[u], wish[p])
                        ELSE IF cur[p].hidden THEN cur[p] ELSE NoRow]
           todo == {p \in project : target[p] # cur[p]}
           had == {p \in project : cur[p] # NoRow}
           loses == {p \in todo :
                       /\ EffectiveRole(member[u], cur[p], FALSE) # None
                       /\ EffectiveRole(member[u], target[p], FALSE) = None}
           q == [op |-> "bulk", user |-> u, had |-> had, target |-> target,
                 todo |-> todo, loses |-> loses, lost |-> NoProject]
<1>t. TypeOK
  BY DEF CascadeInv
<1>1. /\ Begin(r, q) /\ UNCHANGED <<account, project, member, row, machine>>
      /\ member[u] # None /\ ~IgnoresHidden(member[u])
  BY DEF AskBulk, people
<1>2. member[u] \in OrgRole
  BY <1>1, <1>t DEF TypeOK
<1>3. ASSUME NEW p \in todo, target[p].hidden
      PROVE  p \in loses \/ cur[p].hidden
  <2>1. p \in Project /\ cur[p] \in Row /\ wish[p] \in Desired \cup {"ABSENT"} /\ target[p] # cur[p]
    BY <1>t, OrgAccessAssumption DEF TypeOK, WishMap
  <2>2. target[p] = (IF wish[p] # "ABSENT" THEN DesiredRow(member[u], wish[p])
                     ELSE IF cur[p].hidden THEN cur[p] ELSE NoRow)
    BY <2>1
  <2> HIDE DEF target, cur
  <2>3. /\ EffectiveRole(member[u], target[p], FALSE) = None
        /\ EffectiveRole(member[u], cur[p], FALSE) # None \/ cur[p].hidden
    BY <1>1, <1>2, <1>3, <2>1, <2>2, HidingLoses
  <2> QED
    BY <2>3
<1>4. q.op = "bulk" /\ q.user = u /\ q.todo = todo /\ q.target = target /\ q.loses = loses
  OBVIOUS
<1> HIDE DEF q, target, todo, had, loses
<1>5. Sound(q)
  BY <1>1, <1>3, <1>4 DEF Sound
<1>6. q \in RequestState
  BY <1>1, <1>t DEF Begin, TypeOK
<1> QED
  BY <1>1, <1>5, <1>6, BeginKeepsFences

\* The rows a new project will have are those of members.
LEMMA AskProjectKeepsFences ==
    ASSUME CascadeInv, Fenced, NEW r \in Request, NEW c \in User \cup {NoUser},
           NEW wish \in UserWish, AskProject(r, c, wish), TypeOK'
    PROVE  Fenced'
<1> DEFINE rows == [u \in User |->
                      IF u = c THEN [role |-> "OWNER", hidden |-> FALSE]
                      ELSE IF wish[u] = "ABSENT" THEN NoRow
                      ELSE DesiredRow(member[u], wish[u])]
           q == [op |-> "project", rows |-> rows]
<1>1. /\ Begin(r, q) /\ UNCHANGED <<account, project, member, row, machine>>
      /\ c \in User => account[c] /\ member[c] # None
  BY DEF AskProject, people
<1>2. ASSUME NEW u \in User, rows[u] # NoRow PROVE member[u] # None
  <2>1. CASE u = c
    BY <1>1, <2>1
  <2>2. CASE u # c
    <3>1. rows[u] = DesiredRow(member[u], wish[u])
      BY <1>2, <2>2
    <3>2. DesiredRow(None, wish[u]) = NoRow
      BY DEF DesiredRow
    <3> QED
      BY <1>2, <3>1, <3>2
  <2> QED
    BY <2>1, <2>2
<1> HIDE DEF rows
<1>3. Sound(q)
  BY <1>2 DEF Sound
<1> HIDE DEF q
<1>4. q \in RequestState
  BY <1>1 DEF Begin, CascadeInv, TypeOK
<1> QED
  BY <1>1, <1>3, <1>4, BeginKeepsFences

\* Requests that check, revoke, skip, fail or issue an organisation token.
LEMMA RevocationsKeepFences ==
    ASSUME CascadeInv, Fenced, NEW r \in Request, TypeOK',
           \/ CheckOrgToken(r)
           \/ \E t \in OrgToken : CreateOrgToken(r, t)
           \/ SkipMemberRow(r) \/ HideMachineTokens(r) \/ HideOrgTokens(r)
           \/ BulkRevoke(r) \/ Fail(r)
    PROVE  Fenced'
<1> DEFINE q == req[r]
<1>t. TypeOK /\ q \in RequestState
  BY DEF CascadeInv, TypeOK
<1>s. Sound(q)
  BY DEF Fenced
<1>r. RevokedMachine.state = "REVOKED"
  BY DEF RevokedMachine, NoMachine
<1>i. /\ Idle \in RequestState /\ Sound(Idle)
      /\ q.op \in {"member", "bulk"} => Failed(q) \in RequestState
  BY <1>t, RequestForms DEF Sound, Idle
<1>1. CASE CheckOrgToken(r)
  <2> DEFINE n == [q EXCEPT !.checked = TRUE]
  <2>1. /\ q.op = "orgToken" /\ req' = [req EXCEPT ![r] = n]
        /\ UNCHANGED <<account, project, member, row, machine>>
    BY <1>1 DEF CheckOrgToken, people
  <2>2. n \in RequestState /\ n.op = "orgToken"
    <3>1. n \in RequestState
      BY <1>t, <2>1, RequestForms
    <3>2. n.op = "orgToken"
      BY <1>t, <2>1 DEF RequestState, Idle
    <3> QED
      BY <3>1, <3>2
  <2>3. \A m \in Machine : ~Finishes(q, machine[m].by, machine[m].project)
    BY <2>1 DEF Finishes
  <2> HIDE DEF n
  <2>4. Sound(n)
    BY <2>2 DEF Sound
  <2> QED
    BY <2>1, <2>2, <2>3, <2>4, QuietKeepsFences
<1>2. CASE (\E t \in OrgToken : CreateOrgToken(r, t)) \/ SkipMemberRow(r) \/ HideOrgTokens(r)
  <2>1. /\ Done(r) /\ UNCHANGED <<account, project, member, row, machine>>
        /\ q.op = "orgToken" \/ (q.op = "member" /\ q.step \in {"row", "orgToken"})
    <3>1. CASE \E t \in OrgToken : CreateOrgToken(r, t)
      BY <3>1 DEF CreateOrgToken, people
    <3>2. CASE SkipMemberRow(r)
      BY <3>2 DEF SkipMemberRow, people
    <3>3. CASE HideOrgTokens(r)
      BY <3>3 DEF HideOrgTokens, people
    <3> QED
      BY <1>2, <3>1, <3>2, <3>3
  <2>2. \A m \in Machine : ~Finishes(q, machine[m].by, machine[m].project)
    BY <2>1 DEF Finishes
  <2> QED
    BY <2>1, <2>2, DoneKeepsFences
<1>3. CASE HideMachineTokens(r)
  <2> DEFINE n == [q EXCEPT !.step = "orgToken"]
  <2>1. /\ q.op = "member" /\ q.step = "machine" /\ req' = [req EXCEPT ![r] = n]
        /\ machine' = RevokeMachines(q.user, {q.project})
        /\ UNCHANGED <<account, project, member, row>>
    BY <1>3 DEF HideMachineTokens, people
  <2>2. n \in RequestState
    BY <1>t, <2>1, RequestForms
  <2>3. n.op = "member" /\ n.user = q.user
    BY <1>t, <2>1 DEF RequestState, Idle
  <2>4. ASSUME NEW m \in Machine, machine'[m].state = "LIVE"
        PROVE  machine'[m] = machine[m] /\ ~Finishes(q, machine[m].by, machine[m].project)
    BY <1>r, <2>1, <2>4 DEF RevokeMachines, Finishes
  <2> HIDE DEF n
  <2>5. Sound(n)
    BY <1>s, <2>1, <2>3 DEF Sound
  <2> QED
    BY <2>1, <2>2, <2>4, <2>5, QuietKeepsFences
<1>4. CASE BulkRevoke(r)
  <2> DEFINE n == [q EXCEPT !.lost = NoProject]
  <2>1. /\ q.op = "bulk" /\ machine' = RevokeMachines(q.user, {q.lost})
        /\ Done(r) \/ req' = [req EXCEPT ![r] = n]
        /\ UNCHANGED <<account, project, member, row>>
    BY <1>4 DEF BulkRevoke, people
  <2>2. ASSUME NEW m \in Machine, machine'[m].state = "LIVE"
        PROVE  machine'[m] = machine[m] /\ ~Finishes(q, machine[m].by, machine[m].project)
    BY <1>r, <2>1, <2>2 DEF RevokeMachines, Finishes
  <2>3. CASE Done(r)
    BY <2>1, <2>2, <2>3, DoneKeepsFences
  <2>4. CASE req' = [req EXCEPT ![r] = n]
    <3>1. n \in RequestState
      BY <1>t, <2>1, RequestForms
    <3>2. n.op = "bulk" /\ n.user = q.user /\ n.todo = q.todo /\ n.target = q.target /\ n.loses = q.loses
      BY <1>t, <2>1 DEF RequestState, Idle
    <3> HIDE DEF n
    <3>3. Sound(n)
      BY <1>s, <2>1, <3>2 DEF Sound
    <3>4. \A m \in Machine : machine'[m].state = "LIVE" =>
            /\ machine'[m] = machine[m]
            /\ Finishes(q, machine[m].by, machine[m].project) =>
                 Finishes(n, machine[m].by, machine[m].project)
      BY <2>2
    <3>5. UNCHANGED <<account, project, member, row>>
      BY <2>1
    <3> QED
      BY <2>4, <3>1, <3>3, <3>4, <3>5, QuietKeepsFences
  <2> HIDE DEF n
  <2> QED
    BY <2>1, <2>3, <2>4
<1>5. CASE Fail(r)
  <2>1. /\ ~Spent(q) /\ UNCHANGED <<account, project, member, row, machine>>
        /\ \/ q.op \in {"member", "bulk"} /\ req' = [req EXCEPT ![r] = Failed(q)]
           \/ q.op \notin {"member", "bulk"} /\ Done(r)
    BY <1>5, <1>t DEF Fail, Done, people, Spent, TypeOK
  <2>2. CASE q.op \notin {"member", "bulk"} /\ Done(r)
    <3>1. \A m \in Machine : ~Finishes(q, machine[m].by, machine[m].project)
      BY <2>1, <2>2 DEF Finishes, Spent
    <3> QED
      BY <2>1, <2>2, <3>1, DoneKeepsFences
  <2>3. CASE q.op \in {"member", "bulk"} /\ req' = [req EXCEPT ![r] = Failed(q)]
    <3>1. Sound(Failed(q))
      BY DEF Sound, Failed
    <3>2. \A m \in Machine : Finishes(q, machine[m].by, machine[m].project) =>
            Finishes(Failed(q), machine[m].by, machine[m].project)
      BY DEF Finishes, Failed
    <3> QED
      BY <1>i, <2>1, <2>3, <3>1, <3>2, QuietKeepsFences
  <2> QED
    BY <2>1, <2>2, <2>3
<1> QED
  BY <1>1, <1>2, <1>3, <1>4, <1>5

\* A request that writes alone leaves every other over, and goes on or ends itself.
LEMMA AloneStaysSound ==
    ASSUME TypeOK, OneByOne, NEW r \in Request, ~Spent(req[r]),
           NEW q, req' = [req EXCEPT ![r] = q], Sound(q)'
    PROVE  /\ \A s \in Request : Sound(req[s])'
           /\ req'[r] = q /\ \A s \in Request \ {r} : req'[s] = req[s]
<1>1. req'[r] = q /\ \A s \in Request \ {r} : req'[s] = req[s] /\ Spent(req[s])
  BY OthersAreSpent DEF TypeOK
<1>2. ASSUME NEW s \in Request PROVE Sound(req[s])'
  <2>1. CASE s = r
    BY <1>1, <2>1 DEF Sound
  <2>2. CASE s # r
    BY <1>1, <2>2 DEF Spent, Sound
  <2> QED
    BY <2>1, <2>2
<1> QED
  BY <1>1, <1>2

LEMMA IdleIsSound == Sound(Idle) /\ Sound(Idle)'
  BY DEF Sound, Idle

\* A row is written for a member, on a project that exists.
LEMMA RowsKeepFences ==
    ASSUME CascadeInv, Fenced, OneByOne, NEW r \in Request, ~Spent(req[r]),
           NEW u \in User, NEW p \in Project, NEW new \in Row,
           row' = [row EXCEPT ![u] = [@ EXCEPT ![p] = new]],
           UNCHANGED <<account, project, member, machine>>,
           member[u] # None, p \in project,
           NEW q, req' = [req EXCEPT ![r] = q], Sound(q)',
           \A v \in User, o \in Project : ~Finishes(req[r], v, o),
           new.hidden => Finishes(q, u, p) \/ row[u][p].hidden
    PROVE  Fenced'
<1>t. TypeOK
  BY DEF CascadeInv
<1>1. /\ \A s \in Request : Sound(req[s])'
      /\ req'[r] = q /\ \A s \in Request \ {r} : req'[s] = req[s]
  BY <1>t, AloneStaysSound
<1>2. \A v \in User, o \in Project : row'[v][o] = IF v = u /\ o = p THEN new ELSE row[v][o]
  BY <1>t DEF TypeOK
<1>3. RowsOnProjects'
  BY <1>2 DEF Fenced, RowsOnProjects
<1>4. RuleSix'
  BY <1>2 DEF Fenced, RuleSix
<1>5. MachineTokensDieOnRemoval'
  BY DEF Fenced, MachineTokensDieOnRemoval
<1>6. HidingIsCovered'
  <2> SUFFICES ASSUME NEW m \in Machine, machine[m].state = "LIVE", machine[m].by \in User,
                      ~IgnoresHidden(machine[m].as),
                      row'[machine[m].by][machine[m].project].hidden
               PROVE  \E s \in Request : Finishes(req'[s], machine[m].by, machine[m].project)
    BY DEF HidingIsCovered, Finishes
  <2>1. machine[m].project \in Project
    BY <1>t DEF CascadeInv, OnRealProjects, TypeOK
  <2>2. CASE row[machine[m].by][machine[m].project].hidden
    <3>1. PICK s \in Request : Finishes(req[s], machine[m].by, machine[m].project)
      BY <2>2 DEF Fenced, HidingIsCovered
    <3>2. s # r
      BY <2>1, <3>1
    <3> QED
      BY <1>1, <3>1, <3>2
  <2>3. CASE ~row[machine[m].by][machine[m].project].hidden
    <3>1. machine[m].by = u /\ machine[m].project = p /\ new.hidden
      BY <1>2, <2>1, <2>3
    <3>2. Finishes(q, u, p)
      BY <2>3, <3>1
    <3> QED
      BY <1>1, <3>1, <3>2
  <2> QED
    BY <2>2, <2>3
<1> QED
  BY <1>1, <1>3, <1>4, <1>5, <1>6 DEF Fenced

\* The PATCH of one row: a hidden one still has its tokens to revoke.
LEMMA WriteMemberRowKeepsFences ==
    ASSUME CascadeInv, Fenced, OneByOne, NEW r \in Request, WriteMemberRow(r)
    PROVE  Fenced'
<1>t. TypeOK
  BY DEF CascadeInv
<1>0. PICK q \in RequestState : req[r] = q
  BY <1>t DEF TypeOK
<1> DEFINE n == [q EXCEPT !.step = "machine"]
           new == q.target
<1>1. /\ q.op = "member" /\ q.step = "row" /\ account[q.user] /\ q.project \in project
      /\ row' = [row EXCEPT ![q.user] = [@ EXCEPT ![q.project] = new]]
      /\ UNCHANGED <<account, project, member, machine>>
      /\ IF new.hidden THEN req' = [req EXCEPT ![r] = n] ELSE req' = [req EXCEPT ![r] = Idle]
  BY <1>0 DEF WriteMemberRow, people, Done
<1>2. q.user \in User /\ q.project \in Project /\ new \in Row
  BY <1>1, RequestForms
<1>3. Sound(q)
  BY <1>0 DEF Fenced
<1>4. member[q.user] # None
  BY <1>1, <1>3 DEF Sound
<1>5. ~Spent(req[r]) /\ \A v \in User, o \in Project : ~Finishes(req[r], v, o)
  BY <1>0, <1>1 DEF Spent, Finishes
<1>6. n.op = "member" /\ n.user = q.user /\ n.project = q.project /\ n.step = "machine"
  BY <1>1 DEF RequestState, Idle
<1> HIDE DEF n
<1>7. Sound(n)' /\ Finishes(n, q.user, q.project)
  BY <1>1, <1>4, <1>6 DEF Sound, Finishes
<1> HIDE DEF new
<1>8. CASE new.hidden
  <2>1. req' = [req EXCEPT ![r] = n]
    BY <1>1, <1>8
  <2> QED
    BY <1>1, <1>2, <1>4, <1>5, <1>7, <2>1, RowsKeepFences
<1>9. CASE ~new.hidden
  <2>1. req' = [req EXCEPT ![r] = Idle]
    BY <1>1, <1>9
  <2> QED
    BY <1>1, <1>2, <1>4, <1>5, <1>9, <2>1, IdleIsSound, RowsKeepFences
<1> QED
  BY <1>8, <1>9

\* One row of the bulk form: whom it newly hides the project from, it is about to take
\* the tokens from.
LEMMA BulkWriteKeepsFences ==
    ASSUME CascadeInv, Fenced, OneByOne, NEW r \in Request, NEW p \in Project, BulkWrite(r, p)
    PROVE  Fenced'
<1>t. TypeOK
  BY DEF CascadeInv
<1>0. PICK q \in RequestState : req[r] = q
  BY <1>t DEF TypeOK
<1> DEFINE n == [q EXCEPT !.todo = @ \ {p}]
           l == [q EXCEPT !.todo = @ \ {p}, !.lost = p]
           new == q.target[p]
<1>1. /\ q.op = "bulk" /\ q.lost = NoProject /\ p \in q.todo /\ account[q.user] /\ p \in project
      /\ row' = [row EXCEPT ![q.user] = [@ EXCEPT ![p] = new]]
      /\ UNCHANGED <<account, project, member, machine>>
      /\ \/ p \in q.loses /\ req' = [req EXCEPT ![r] = l]
         \/ p \notin q.loses /\ req' = [req EXCEPT ![r] = Idle]
         \/ p \notin q.loses /\ req' = [req EXCEPT ![r] = n]
  BY <1>0 DEF BulkWrite, people, Done
<1>2. q.user \in User /\ new \in Row
  BY <1>1, RequestForms
<1>3. Sound(q)
  BY <1>0 DEF Fenced
<1>4. /\ member[q.user] # None
      /\ \A o \in q.todo : q.target[o].hidden => o \in q.loses \/ row[q.user][o].hidden
  BY <1>1, <1>3 DEF Sound
<1>5. ~Spent(req[r]) /\ \A v \in User, o \in Project : ~Finishes(req[r], v, o)
  BY <1>0, <1>1, OrgAccessAssumption DEF Spent, Finishes
<1>6. /\ l.op = "bulk" /\ l.user = q.user /\ l.todo = q.todo \ {p} /\ l.target = q.target
      /\ l.loses = q.loses /\ l.lost = p
      /\ n.op = "bulk" /\ n.user = q.user /\ n.todo = q.todo \ {p} /\ n.target = q.target
      /\ n.loses = q.loses
      /\ q.todo \subseteq Project
  BY <1>1 DEF RequestState, Idle
<1>7. \A o \in q.todo \ {p} : row'[q.user][o] = row[q.user][o]
  BY <1>t, <1>1, <1>2, <1>6 DEF TypeOK
<1> HIDE DEF n, l
<1>8. Sound(n)' /\ Sound(l)' /\ Finishes(l, q.user, p)
  BY <1>1, <1>4, <1>6, <1>7 DEF Sound, Finishes
<1>9. new.hidden => p \in q.loses \/ row[q.user][p].hidden
  BY <1>1, <1>4
<1> HIDE DEF new
<1>10. CASE p \in q.loses /\ req' = [req EXCEPT ![r] = l]
  BY <1>1, <1>2, <1>4, <1>5, <1>8, <1>10, RowsKeepFences
<1>11. CASE p \notin q.loses /\ req' = [req EXCEPT ![r] = Idle]
  BY <1>1, <1>2, <1>4, <1>5, <1>9, <1>11, IdleIsSound, RowsKeepFences
<1>12. CASE p \notin q.loses /\ req' = [req EXCEPT ![r] = n]
  BY <1>1, <1>2, <1>4, <1>5, <1>8, <1>9, <1>12, RowsKeepFences
<1> QED
  BY <1>1, <1>10, <1>11, <1>12

\* A machine token is issued to a member from whom its project is not hidden.
LEMMA CreateMachineTokenKeepsFences ==
    ASSUME CascadeInv, Fenced, OneByOne, NEW r \in Request, NEW m \in Machine, CreateMachineToken(r, m)
    PROVE  Fenced'
<1>t. TypeOK
  BY DEF CascadeInv
<1>0. PICK q \in RequestState : req[r] = q
  BY <1>t DEF TypeOK
<1>1. /\ q.op = "token" /\ account[q.user] /\ q.project \in project
      /\ UNCHANGED <<account, project, member, row>> /\ req' = [req EXCEPT ![r] = Idle]
      /\ \A n \in Machine \ {m} : machine'[n] = machine[n]
      /\ machine'[m].by = q.user /\ machine'[m].project = q.project /\ machine'[m].as = q.as
  BY <1>0, <1>t DEF CreateMachineToken, people, Done, TypeOK
<1>2. Sound(q)
  BY <1>0 DEF Fenced
<1>3. member[q.user] # None /\ (~IgnoresHidden(q.as) => ~row[q.user][q.project].hidden)
  BY <1>1, <1>2 DEF Sound
<1>4. /\ \A s \in Request : Sound(req[s])'
      /\ req'[r] = Idle /\ \A s \in Request \ {r} : req'[s] = req[s]
  <2>1. ~Spent(req[r])
    BY <1>0, <1>1 DEF Spent
  <2> QED
    BY <1>t, <1>1, <2>1, IdleIsSound, AloneStaysSound
<1>5. RowsOnProjects' /\ RuleSix'
  BY <1>1 DEF Fenced, RowsOnProjects, RuleSix
<1>6. MachineTokensDieOnRemoval'
  BY <1>1, <1>3 DEF Fenced, MachineTokensDieOnRemoval
<1>7. HidingIsCovered'
  <2> SUFFICES ASSUME NEW n \in Machine, machine'[n].state = "LIVE", machine'[n].by \in User,
                      ~IgnoresHidden(machine'[n].as),
                      row[machine'[n].by][machine'[n].project].hidden
               PROVE  \E s \in Request : Finishes(req'[s], machine'[n].by, machine'[n].project)
    BY <1>1 DEF HidingIsCovered, Finishes
  <2>1. n # m /\ machine'[n] = machine[n]
    BY <1>1, <1>3
  <2>2. PICK s \in Request : Finishes(req[s], machine[n].by, machine[n].project)
    BY <2>1 DEF Fenced, HidingIsCovered
  <2>3. s # r
    BY <1>0, <1>1, <2>2 DEF Finishes
  <2> QED
    BY <1>4, <2>1, <2>2, <2>3
<1> QED
  BY <1>4, <1>5, <1>6, <1>7 DEF Fenced

\* A removal that ran alone listed every project there is: neither a row nor a machine
\* token is on another.
LEMMA CommitRemovalKeepsFences ==
    ASSUME CascadeInv, Fenced, OneByOne, NEW r \in Request, CommitRemoval(r)
    PROVE  Fenced'
<1>t. TypeOK
  BY DEF CascadeInv
<1>0. PICK q \in RequestState : req[r] = q
  BY <1>t DEF TypeOK
<1>1. /\ q.op = "remove" /\ UNCHANGED <<account, project>> /\ req' = [req EXCEPT ![r] = Idle]
      /\ row' = [row EXCEPT ![q.user] = [p \in Project |-> IF p \in q.projects THEN NoRow ELSE @[p]]]
      /\ member' = [member EXCEPT ![q.user] = None]
      /\ machine' = RevokeMachines(q.user, q.projects)
  BY <1>0 DEF CommitRemoval, Done
<1>2. q.projects = project /\ q.user \in User
  <2>1. Sound(q)
    BY <1>0 DEF Fenced
  <2> QED
    BY <1>1, <2>1, RequestForms DEF Sound
<1>3. /\ \A s \in Request : Sound(req[s])'
      /\ req'[r] = Idle /\ \A s \in Request \ {r} : req'[s] = req[s]
  <2>1. ~Spent(req[r])
    BY <1>0, <1>1 DEF Spent
  <2> QED
    BY <1>t, <1>1, <2>1, IdleIsSound, AloneStaysSound
<1>4. /\ \A p \in Project : row'[q.user][p] = NoRow
      /\ \A u \in User \ {q.user} : row'[u] = row[u] /\ member'[u] = member[u]
  <2>1. \A p \in Project : p \notin project => row[q.user][p] = NoRow
    BY <1>2 DEF Fenced, RowsOnProjects
  <2>2. \A p \in Project : row'[q.user][p] = IF p \in project THEN NoRow ELSE row[q.user][p]
    BY <1>t, <1>1, <1>2 DEF TypeOK
  <2>3. \A u \in User \ {q.user} : row'[u] = row[u] /\ member'[u] = member[u]
    BY <1>t, <1>1 DEF TypeOK
  <2> QED
    BY <2>1, <2>2, <2>3
<1>5. ASSUME NEW m \in Machine, machine'[m].state = "LIVE"
      PROVE  machine'[m] = machine[m] /\ machine[m].by # q.user
  <2>1. RevokedMachine.state = "REVOKED"
    BY DEF RevokedMachine, NoMachine
  <2>2. /\ machine'[m] = machine[m]
        /\ ~(machine[m].by = q.user /\ machine[m].project \in project)
    BY <1>1, <1>2, <1>5, <2>1 DEF RevokeMachines
  <2>3. machine[m].project \in project
    BY <1>5, <2>2 DEF CascadeInv, OnRealProjects
  <2> QED
    BY <2>2, <2>3
<1>6. RowsOnProjects' /\ RuleSix'
  BY <1>1, <1>4 DEF Fenced, RowsOnProjects, RuleSix
<1>7. MachineTokensDieOnRemoval'
  BY <1>4, <1>5 DEF Fenced, MachineTokensDieOnRemoval
<1>8. HidingIsCovered'
  <2> SUFFICES ASSUME NEW n \in Machine, machine'[n].state = "LIVE", machine'[n].by \in User,
                      ~IgnoresHidden(machine'[n].as),
                      row'[machine'[n].by][machine'[n].project].hidden
               PROVE  \E s \in Request : Finishes(req'[s], machine'[n].by, machine'[n].project)
    BY DEF HidingIsCovered, Finishes
  <2>1. machine'[n] = machine[n] /\ row'[machine[n].by] = row[machine[n].by]
    BY <1>4, <1>5
  <2>2. PICK s \in Request : Finishes(req[s], machine[n].by, machine[n].project)
    BY <2>1 DEF Fenced, HidingIsCovered
  <2>3. s # r
    BY <1>0, <1>1, <2>2 DEF Finishes
  <2> QED
    BY <1>3, <2>1, <2>2, <2>3
<1> QED
  BY <1>3, <1>6, <1>7, <1>8 DEF Fenced

\* A project comes with rows of members, and nothing else is on it yet.
LEMMA CreateProjectKeepsFences ==
    ASSUME CascadeInv, Fenced, OneByOne, NEW r \in Request, NEW p \in Project, CreateProject(r, p)
    PROVE  Fenced'
<1>t. TypeOK
  BY DEF CascadeInv
<1>0. PICK q \in RequestState : req[r] = q
  BY <1>t DEF TypeOK
<1>1. /\ q.op = "project" /\ p \notin project /\ project' = project \cup {p}
      /\ \A u \in User : q.rows[u] # NoRow => account[u]
      /\ row' = [u \in User |-> [row[u] EXCEPT ![p] = q.rows[u]]]
      /\ UNCHANGED <<account, member, machine>> /\ req' = [req EXCEPT ![r] = Idle]
  BY <1>0 DEF CreateProject, Done
<1>2. \A u \in User : q.rows[u] # NoRow => member[u] # None
  <2>1. Sound(q)
    BY <1>0 DEF Fenced
  <2> QED
    BY <1>1, <2>1 DEF Sound
<1>3. /\ \A s \in Request : Sound(req[s])'
      /\ req'[r] = Idle /\ \A s \in Request \ {r} : req'[s] = req[s]
  <2>1. ~Spent(req[r])
    BY <1>0, <1>1 DEF Spent
  <2> QED
    BY <1>t, <1>1, <2>1, IdleIsSound, AloneStaysSound
<1>4. \A u \in User, o \in Project : row'[u][o] = IF o = p THEN q.rows[u] ELSE row[u][o]
  BY <1>t, <1>1 DEF TypeOK
<1>5. RowsOnProjects' /\ RuleSix'
  BY <1>1, <1>2, <1>4 DEF Fenced, RowsOnProjects, RuleSix
<1>6. MachineTokensDieOnRemoval'
  BY <1>1 DEF Fenced, MachineTokensDieOnRemoval
<1>7. HidingIsCovered'
  <2> SUFFICES ASSUME NEW n \in Machine, machine[n].state = "LIVE", machine[n].by \in User,
                      ~IgnoresHidden(machine[n].as),
                      row'[machine[n].by][machine[n].project].hidden
               PROVE  \E s \in Request : Finishes(req'[s], machine[n].by, machine[n].project)
    BY <1>1 DEF HidingIsCovered, Finishes
  <2>1. machine[n].project \in project /\ machine[n].project \in Project
    BY <1>t DEF CascadeInv, OnRealProjects, TypeOK
  <2>2. row[machine[n].by][machine[n].project].hidden
    BY <1>1, <1>4, <2>1
  <2>3. PICK s \in Request : Finishes(req[s], machine[n].by, machine[n].project)
    BY <2>2 DEF Fenced, HidingIsCovered
  <2>4. s # r
    BY <1>0, <1>1, <2>3 DEF Finishes
  <2> QED
    BY <1>3, <2>3, <2>4
<1> QED
  BY <1>3, <1>5, <1>6, <1>7 DEF Fenced

\* A project goes with its rows and its machine tokens.
LEMMA DropProjectKeepsFences ==
    ASSUME CascadeInv, Fenced, OneByOne, NEW r \in Request, DropProject(r)
    PROVE  Fenced'
<1>t. TypeOK
  BY DEF CascadeInv
<1>0. PICK q \in RequestState : req[r] = q
  BY <1>t DEF TypeOK
<1>1. /\ q.op = "drop" /\ project' = project \ {q.project}
      /\ row' = [u \in User |-> [row[u] EXCEPT ![q.project] = NoRow]]
      /\ machine' = [m \in Machine |-> IF machine[m].project = q.project THEN RevokedMachine
                                       ELSE machine[m]]
      /\ UNCHANGED <<account, member>> /\ req' = [req EXCEPT ![r] = Idle]
  BY <1>0 DEF DropProject, Done
<1>2. q.project \in Project
  BY <1>1, RequestForms
<1>3. /\ \A s \in Request : Sound(req[s])'
      /\ req'[r] = Idle /\ \A s \in Request \ {r} : req'[s] = req[s]
  <2>1. ~Spent(req[r])
    BY <1>0, <1>1 DEF Spent
  <2> QED
    BY <1>t, <1>1, <2>1, IdleIsSound, AloneStaysSound
<1>4. \A u \in User, o \in Project : row'[u][o] = IF o = q.project THEN NoRow ELSE row[u][o]
  BY <1>t, <1>1, <1>2 DEF TypeOK
<1>5. ASSUME NEW m \in Machine, machine'[m].state = "LIVE"
      PROVE  machine'[m] = machine[m] /\ machine[m].project # q.project
             /\ machine[m].project \in Project
  <2>1. RevokedMachine.state = "REVOKED"
    BY DEF RevokedMachine, NoMachine
  <2>2. machine'[m] = machine[m] /\ machine[m].project # q.project
    BY <1>1, <1>5, <2>1
  <2>3. machine[m].project \in project
    BY <1>5, <2>2 DEF CascadeInv, OnRealProjects
  <2> QED
    BY <1>t, <2>2, <2>3 DEF TypeOK
<1>6. RowsOnProjects' /\ RuleSix'
  BY <1>1, <1>4 DEF Fenced, RowsOnProjects, RuleSix
<1>7. MachineTokensDieOnRemoval'
  BY <1>1, <1>5 DEF Fenced, MachineTokensDieOnRemoval
<1>8. HidingIsCovered'
  <2> SUFFICES ASSUME NEW n \in Machine, machine'[n].state = "LIVE", machine'[n].by \in User,
                      ~IgnoresHidden(machine'[n].as),
                      row'[machine'[n].by][machine'[n].project].hidden
               PROVE  \E s \in Request : Finishes(req'[s], machine'[n].by, machine'[n].project)
    BY DEF HidingIsCovered, Finishes
  <2>1. machine'[n] = machine[n] /\ row[machine[n].by][machine[n].project].hidden
    BY <1>4, <1>5
  <2>2. PICK s \in Request : Finishes(req[s], machine[n].by, machine[n].project)
    BY <2>1 DEF Fenced, HidingIsCovered
  <2>3. s # r
    BY <1>0, <1>1, <2>2 DEF Finishes
  <2> QED
    BY <1>3, <2>1, <2>2, <2>3
<1> QED
  BY <1>3, <1>6, <1>7, <1>8 DEF Fenced

\* An account takes its rows and its membership along; its tokens lose their creator.
LEMMA DeleteAccountKeepsFences ==
    ASSUME CascadeInv, Fenced, NEW u \in User, DeleteAccount(u)
    PROVE  Fenced'
<1>t. TypeOK
  BY DEF CascadeInv
<1>1. /\ UNCHANGED <<project, req>>
      /\ account' = [account EXCEPT ![u] = FALSE]
      /\ \A p \in Project : row'[u][p] = NoRow
      /\ \A v \in User \ {u} : row'[v] = row[v] /\ member'[v] = member[v]
      /\ \A v \in User : account'[v] => v # u /\ account[v]
  BY <1>t DEF DeleteAccount, TypeOK
<1>2. ASSUME NEW m \in Machine, machine'[m].by \in User
      PROVE  machine'[m] = machine[m] /\ machine[m].by # u
  <2>1. machine'[m] = IF machine[m].by = u THEN [machine[m] EXCEPT !.by = NoUser] ELSE machine[m]
    BY DEF DeleteAccount
  <2>2. machine[m] \in MachineRow
    BY <1>t DEF TypeOK
  <2>3. CASE machine[m].by = u
    <3>1. machine'[m].by = NoUser
      BY <2>1, <2>2, <2>3 DEF MachineRow
    <3> QED
      BY <1>2, <3>1, OrgAccessAssumption
  <2> QED
    BY <2>1, <2>3
<1>3. RowsOnProjects' /\ RuleSix'
  BY <1>1 DEF Fenced, RowsOnProjects, RuleSix
<1>4. MachineTokensDieOnRemoval'
  BY <1>1, <1>2 DEF Fenced, MachineTokensDieOnRemoval
<1>5. HidingIsCovered'
  <2> SUFFICES ASSUME NEW n \in Machine, machine'[n].state = "LIVE", machine'[n].by \in User,
                      ~IgnoresHidden(machine'[n].as),
                      row'[machine'[n].by][machine'[n].project].hidden
               PROVE  \E s \in Request : Finishes(req[s], machine'[n].by, machine'[n].project)
    BY <1>1 DEF HidingIsCovered, Finishes
  <2>1. machine'[n] = machine[n] /\ row[machine[n].by][machine[n].project].hidden
    BY <1>1, <1>2
  <2> QED
    BY <2>1 DEF Fenced, HidingIsCovered
<1>6. ASSUME NEW s \in Request PROVE Sound(req[s])'
  <2>0. PICK q \in RequestState : req[s] = q
    BY <1>t DEF TypeOK
  <2>1. Sound(q) /\ req'[s] = q
    BY <1>1, <2>0 DEF Fenced
  <2>2. q.op \in {"token", "member", "bulk"} => q.user \in User
    BY RequestForms
  <2>3. /\ q.op \in {"token", "member", "bulk"} => (account'[q.user] => member'[q.user] # None)
        /\ q.op = "token" =>
             (account'[q.user] /\ ~IgnoresHidden(q.as) => ~row'[q.user][q.project].hidden)
        /\ q.op = "bulk" =>
             (account'[q.user] => \A p \in q.todo :
                q.target[p].hidden => p \in q.loses \/ row'[q.user][p].hidden)
    BY <1>1, <2>1, <2>2 DEF Sound
  <2>4. /\ q.op = "remove" => q.projects = project'
        /\ q.op = "project" =>
             \A v \in User : q.rows[v] # NoRow /\ account'[v] => member'[v] # None
    BY <1>1, <2>1 DEF Sound
  <2> QED
    BY <2>1, <2>3, <2>4 DEF Sound
<1> QED
  BY <1>3, <1>4, <1>5, <1>6 DEF Fenced

\* A membership begins or changes, and whoever was not a member has no token: the rows
\* given are on projects that exist.
LEMMA MembersKeepFences ==
    ASSUME CascadeInv, Fenced, NEW u \in User, NEW role \in Role,
           \/ ChangeRole(u, role)
           \/ \E wish \in WishMap : Join(u, role, wish)
    PROVE  Fenced'
<1>t. TypeOK
  BY DEF CascadeInv
<1>1. /\ UNCHANGED <<account, project, machine, req>>
      /\ \A v \in User \ {u} : row'[v] = row[v] /\ member'[v] = member[v]
      /\ member'[u] # None
      /\ \A p \in Project : row'[u][p] # NoRow => p \in project
      /\ row' = row \/ (account[u] /\ member[u] = None)
  <2>1. role # None /\ role \in OrgRole
    BY NoneIsNoRole, OrgAccessAssumption
  <2>2. CASE ChangeRole(u, role)
    <3>1. \A p \in Project : row[u][p] # NoRow => p \in project
      BY DEF Fenced, RowsOnProjects
    <3> QED
      BY <1>t, <2>1, <2>2, <3>1 DEF ChangeRole, TypeOK
  <2>3. ASSUME NEW wish \in WishMap, Join(u, role, wish)
        PROVE  /\ UNCHANGED <<account, project, machine, req>>
               /\ \A v \in User \ {u} : row'[v] = row[v] /\ member'[v] = member[v]
               /\ member'[u] # None
               /\ \A p \in Project : row'[u][p] # NoRow => p \in project
               /\ account[u] /\ member[u] = None
    <3> DEFINE grant == [p \in Project |->
                           IF wish[p] = "ABSENT" \/ p \notin project THEN NoRow
                           ELSE DesiredRow(role, wish[p])]
    <3>1. /\ row' = [row EXCEPT ![u] = [p \in Project |-> IF grant[p] # NoRow THEN grant[p] ELSE @[p]]]
          /\ member' = [member EXCEPT ![u] = role] /\ account[u] /\ member[u] = None
          /\ UNCHANGED <<account, project, machine, req>>
      BY <2>3 DEF Join
    <3>2. \A p \in Project : grant[p] # NoRow => p \in project
      OBVIOUS
    <3> HIDE DEF grant
    <3>3. /\ \A v \in User \ {u} : row'[v] = row[v] /\ member'[v] = member[v]
          /\ member'[u] = role
          /\ \A p \in Project : row'[u][p] = IF grant[p] # NoRow THEN grant[p] ELSE row[u][p]
      BY <1>t, <3>1 DEF TypeOK
    <3>4. \A p \in Project : row'[u][p] # NoRow => p \in project
      BY <3>2, <3>3 DEF Fenced, RowsOnProjects
    <3> QED
      BY <2>1, <3>1, <3>3, <3>4
  <2> QED
    BY <2>2, <2>3
<1>2. RowsOnProjects' /\ RuleSix'
  BY <1>1 DEF Fenced, RowsOnProjects, RuleSix
<1>3. MachineTokensDieOnRemoval'
  BY <1>1 DEF Fenced, MachineTokensDieOnRemoval
<1>4. HidingIsCovered'
  <2> SUFFICES ASSUME NEW n \in Machine, machine[n].state = "LIVE", machine[n].by \in User,
                      ~IgnoresHidden(machine[n].as),
                      row'[machine[n].by][machine[n].project].hidden
               PROVE  \E s \in Request : Finishes(req[s], machine[n].by, machine[n].project)
    BY <1>1 DEF HidingIsCovered, Finishes
  <2>1. member[machine[n].by] # None
    BY DEF Fenced, MachineTokensDieOnRemoval
  <2>2. row'[machine[n].by] = row[machine[n].by]
    BY <1>1, <2>1
  <2> QED
    BY <2>2 DEF Fenced, HidingIsCovered
<1>5. ASSUME NEW s \in Request PROVE Sound(req[s])'
  <2>0. PICK q \in RequestState : req[s] = q
    BY <1>t DEF TypeOK
  <2>1. Sound(q) /\ req'[s] = q
    BY <1>1, <2>0 DEF Fenced
  <2>2. q.op \in {"token", "member", "bulk"} => q.user \in User
    BY RequestForms
  <2>3. /\ q.op \in {"token", "member", "bulk"} => (account'[q.user] => member'[q.user] # None)
        /\ q.op = "token" =>
             (account'[q.user] /\ ~IgnoresHidden(q.as) => ~row'[q.user][q.project].hidden)
        /\ q.op = "bulk" =>
             (account'[q.user] => \A p \in q.todo :
                q.target[p].hidden => p \in q.loses \/ row'[q.user][p].hidden)
    BY <1>1, <2>1, <2>2 DEF Sound
  <2>4. /\ q.op = "remove" => q.projects = project'
        /\ q.op = "project" =>
             \A v \in User : q.rows[v] # NoRow /\ account'[v] => member'[v] # None
    BY <1>1, <2>1 DEF Sound
  <2> QED
    BY <2>1, <2>3, <2>4 DEF Sound
<1> QED
  BY <1>2, <1>3, <1>4, <1>5 DEF Fenced

\* Tokens edited or revoked outside a request.
LEMMA TokensKeepFences ==
    ASSUME CascadeInv, Fenced,
           \/ \E m \in Machine : DeleteMachineToken(m)
           \/ \E t \in OrgToken, u \in User, all \in BOOLEAN, scope \in SUBSET Project :
                EditOrgToken(t, u, all, scope)
           \/ \E t \in OrgToken : DeleteOrgToken(t)
           \/ UNCHANGED vars
    PROVE  Fenced'
<1>1. RevokedMachine.state = "REVOKED"
  BY DEF RevokedMachine, NoMachine
<1>2. ASSUME NEW m \in Machine, DeleteMachineToken(m)
      PROVE  Fenced'
  <2>1. \A n \in Machine : machine'[n].state = "LIVE" => machine'[n] = machine[n]
    BY <1>1, <1>2 DEF DeleteMachineToken, CascadeInv, TypeOK
  <2>2. UNCHANGED <<account, project, member, row, req>>
    BY <1>2 DEF DeleteMachineToken, people
  <2> QED
    BY <2>1, <2>2, OutsideKeepsFences
<1>3. ASSUME UNCHANGED <<account, project, member, row, req, machine>>
      PROVE  Fenced'
  BY <1>3, OutsideKeepsFences
<1>4. ASSUME NEW t \in OrgToken, NEW u \in User, NEW all \in BOOLEAN, NEW scope \in SUBSET Project,
             EditOrgToken(t, u, all, scope)
      PROVE  Fenced'
  <2>1. UNCHANGED <<account, project, member, row, req, machine>>
    BY <1>4 DEF EditOrgToken, people
  <2> QED
    BY <1>3, <2>1
<1>5. ASSUME NEW t \in OrgToken, DeleteOrgToken(t) PROVE Fenced'
  BY <1>3, <1>5 DEF DeleteOrgToken, people
<1>6. CASE UNCHANGED vars
  BY <1>3, <1>6 DEF vars
<1> QED
  BY <1>2, <1>4, <1>5, <1>6

LEMMA StepsKeepFences ==
    ASSUME CascadeInv, TypeOK', Fenced, OneByOne, [Next]_vars
    PROVE  Fenced'
<1>1. ASSUME NEW r \in Request, RequestStep(r) PROVE Fenced'
  <2>1. CASE \/ \E u \in User, p \in Project : AskMachineToken(r, u, p)
             \/ \E u \in User, all, expires \in BOOLEAN, scope \in SUBSET Project :
                  AskOrgToken(r, u, all, scope, expires)
             \/ \E u \in User, p \in Project, hidden \in {"YES", "NO", None},
                   role \in Wish \cup {None} : AskMemberPatch(r, u, p, hidden, role)
             \/ \E u \in User : AskRemoval(r, u)
             \/ \E p \in Project : AskDrop(r, p)
    BY <2>1, AsksKeepFences
  <2>2. CASE \/ CheckOrgToken(r)
             \/ \E t \in OrgToken : CreateOrgToken(r, t)
             \/ SkipMemberRow(r) \/ HideMachineTokens(r) \/ HideOrgTokens(r)
             \/ BulkRevoke(r) \/ Fail(r)
    BY <2>2, RevocationsKeepFences
  <2>3. CASE \/ \E u \in User, wish \in WishMap : AskBulk(r, u, wish)
             \/ \E c \in User \cup {NoUser}, wish \in UserWish : AskProject(r, c, wish)
    BY <2>3, AskBulkKeepsFences, AskProjectKeepsFences
  <2>4. CASE \/ \E m \in Machine : CreateMachineToken(r, m)
             \/ WriteMemberRow(r) \/ \E p \in Project : BulkWrite(r, p)
    BY <2>4, CreateMachineTokenKeepsFences, WriteMemberRowKeepsFences, BulkWriteKeepsFences
  <2>5. CASE \/ CommitRemoval(r) \/ DropProject(r)
             \/ \E p \in Project : CreateProject(r, p)
    BY <2>5, CommitRemovalKeepsFences, DropProjectKeepsFences, CreateProjectKeepsFences
  <2> QED
    BY <1>1, <2>1, <2>2, <2>3, <2>4, <2>5 DEF RequestStep
<1>2. ASSUME NEW u \in User, \/ DeleteAccount(u)
                             \/ \E role \in Role : ChangeRole(u, role)
                             \/ \E role \in Role, wish \in WishMap : Join(u, role, wish)
      PROVE  Fenced'
  BY <1>2, DeleteAccountKeepsFences, MembersKeepFences
<1>3. CASE \/ \E m \in Machine : DeleteMachineToken(m)
           \/ \E t \in OrgToken, u \in User, all \in BOOLEAN, scope \in SUBSET Project :
                EditOrgToken(t, u, all, scope)
           \/ \E t \in OrgToken : DeleteOrgToken(t)
           \/ UNCHANGED vars
  BY <1>3, TokensKeepFences
<1> QED
  BY <1>1, <1>2, <1>3 DEF Next

\* What one request at a time keeps.
RegimeInv == CascadeInv /\ (serial => OneByOne /\ Fenced)

LEMMA RegimeAlways == MCSpec => []RegimeInv
<1>1. MCInit => RegimeInv
  <2> SUFFICES ASSUME MCInit PROVE RegimeInv
    OBVIOUS
  <2>1. CascadeInv
    BY CascadeStarts DEF MCInit
  <2>2. OneByOne
    BY DEF MCInit, Init, OneByOne, UnderWay, Idle
  <2>3. RowsOnProjects /\ RuleSix /\ MachineTokensDieOnRemoval /\ HidingIsCovered
    BY DEF MCInit, Init, RowsOnProjects, RuleSix, MachineTokensDieOnRemoval, HidingIsCovered,
       NoMachine
  <2>4. \A r \in Request : Sound(req[r])
    BY IdleIsSound DEF MCInit, Init
  <2> QED
    BY <2>1, <2>2, <2>3, <2>4 DEF RegimeInv, Fenced
<1>2. RegimeInv /\ [MCNext]_<<vars, serial>> => RegimeInv'
  <2> SUFFICES ASSUME RegimeInv, [MCNext]_<<vars, serial>> PROVE RegimeInv'
    OBVIOUS
  <2>1. [Next]_vars /\ serial' = serial
    BY DEF MCNext
  <2>2. CascadeInv' /\ TypeOK'
    BY <2>1, CascadeStays, TypeStep DEF RegimeInv, CascadeInv
  <2>3. serial => Fenced'
    BY <2>1, <2>2, StepsKeepFences DEF RegimeInv
  <2>4. CASE MCNext
    BY <2>1, <2>2, <2>3, <2>4 DEF MCNext, RegimeInv
  <2>5. CASE UNCHANGED <<vars, serial>>
    <3>1. OneByOne => OneByOne'
      BY <2>5 DEF vars, OneByOne, UnderWay
    <3> QED
      BY <2>1, <2>2, <2>3, <3>1 DEF RegimeInv
  <2> QED
    BY <2>4, <2>5
<1> QED
  BY <1>1, <1>2, PTL DEF MCSpec

\* Rule six, while requests do not overlap: no ProjectMember row without membership,
\* whatever the gestures and wherever they stop.
THEOREM RuleSixWhenSerial == MCSpec => []SerialRuleSix
<1>1. RegimeInv => SerialRuleSix
  BY DEF RegimeInv, Fenced, SerialRuleSix
<1> QED
  BY <1>1, RegimeAlways, PTL

\* While requests do not overlap, a removal leaves no live machine token to the member
\* it removed.
THEOREM RemovalRevokesWhenSerial == MCSpec => []SerialRemoval
<1>1. RegimeInv => SerialRemoval
  BY DEF RegimeInv, Fenced, SerialRemoval
<1> QED
  BY <1>1, RegimeAlways, PTL

\* While requests do not overlap, a project hidden from a member is one on which it has
\* no live machine token, once the request that hides it has ended.
THEOREM HidingRevokesWhenSerial == MCSpec => []SerialHide
<1>1. RegimeInv => SerialHide
  <2> SUFFICES ASSUME HidingIsCovered PROVE MachineTokensDieOnHide
    BY DEF RegimeInv, Fenced, SerialHide
  <2>1. \A q, u, p : Finishes(q, u, p) => q.op \in {"failed", "member", "bulk"} /\ q.user = u
    BY DEF Finishes
  <2> QED
    BY <2>1 DEF HidingIsCovered, MachineTokensDieOnHide, Unfinished
<1> QED
  BY <1>1, RegimeAlways, PTL

=============================================================================
