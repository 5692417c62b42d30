------------------------------ MODULE OrgAccess ------------------------------
(***************************************************************************)
(* What a member of one organisation can reach, and what is left of it when *)
(* access is taken away: OrgMember and ProjectMember rows, the machine and  *)
(* organisation tokens the member issued, and the gestures that withdraw    *)
(* access (removal from the organisation, hiding a project, the bulk        *)
(* "access rights" form, a role change, the deletion of an account).        *)
(*                                                                         *)
(* A handler reads, awaits, then writes: a request keeps what it read in    *)
(* req[r], and every write of a separate await is a step of its own. One    *)
(* step is left to what only widens access (joining), to a role change and  *)
(* to the edition of a token. The manager who sends the gestures is an      *)
(* OWNER who stays; OrgMembers models who may act on whom.                  *)
(***************************************************************************)
EXTENDS ProjectAccess, FiniteSets

CONSTANTS
    User,      \* the accounts acted on
    Project,   \* the organisation's projects, present and to come
    Machine,   \* MachineToken ids
    OrgToken,  \* OrgToken ids
    Request,   \* HTTP requests that may be in flight together
    NoUser,    \* createdById IS NULL
    NoProject, \* no project
    DevQuota,  \* DEV_TOKEN_CONSTRAINTS.maxActiveTokensPerUser
    OrgQuota,  \* MAX_ACTIVE_TOKENS
    Role,      \* bound: the organisation roles members may be given
    Wish       \* bound: the accesses a manager asks for

ASSUME OrgAccessAssumption ==
    /\ NoUser \notin User
    /\ NoProject \notin Project
    /\ DevQuota \in Nat /\ OrgQuota \in Nat
    /\ Role \subseteq OrgRole
    /\ Wish \subseteq Desired

VARIABLES
    account,  \* [User -> BOOLEAN]: the User row exists
    project,  \* the projects that exist
    dropped,  \* the projects deleted: an id is never used again
    member,   \* [User -> OrgRole or None]
    row,      \* ProjectMember rows
    machine,  \* MachineToken rows
    orgToken, \* OrgToken rows
    req       \* requests in flight

vars == <<account, project, dropped, member, row, machine, orgToken, req>>
people == <<account, project, dropped, member>>

State == {"FREE", "LIVE", "REVOKED"}

\* `as`, `late`: history. The role the request was authorised with, and
\* whether the token was written while its creator was being removed or after.
MachineRow ==
    [state: State, by: User \cup {NoUser}, project: Project \cup {NoProject},
     as: OrgRole \cup {None}, late: BOOLEAN]

OrgTokenRow ==
    [state: State, by: User \cup {NoUser}, all: BOOLEAN, scope: SUBSET Project,
     expires: BOOLEAN, late: BOOLEAN]

NoMachine ==
    [state |-> "FREE", by |-> NoUser, project |-> NoProject, as |-> None, late |-> FALSE]
NoOrgToken ==
    [state |-> "FREE", by |-> NoUser, all |-> FALSE, scope |-> {}, expires |-> FALSE,
     late |-> FALSE]

\* Nothing reads a revoked token but its state.
RevokedMachine == [NoMachine EXCEPT !.state = "REVOKED"]
RevokedOrgToken == [NoOrgToken EXCEPT !.state = "REVOKED"]

Row == ProjectRow \cup {NoRow}

Idle == [op |-> "idle"]
\* A request cut short by an error or a crash; it did some of its writes.
Failed(q) == [op |-> "failed", user |-> q.user]

\* member, bulk: `had`, there was a row when it was read; `target`, the row to
\* write; `step`, the write to come. bulk: `loses`, the projects on which the
\* handler believes access goes from some to none.
RequestState ==
    {Idle}
    \cup [op: {"failed"}, user: User]
    \cup [op: {"token"}, user: User, project: Project, as: OrgRole \cup {None}]
    \cup [op: {"orgToken"}, user: User, as: OrgRole, all: BOOLEAN,
          scope: SUBSET Project, expires: BOOLEAN, checked: BOOLEAN]
    \cup [op: {"member"}, user: User, project: Project, had: BOOLEAN, target: ProjectRow,
          needed: BOOLEAN, step: {"row", "machine", "orgToken"}]
    \cup [op: {"bulk"}, user: User, had: SUBSET Project, target: [Project -> Row],
          todo: SUBSET Project, loses: SUBSET Project, lost: Project \cup {NoProject}]
    \cup [op: {"remove"}, user: User, projects: SUBSET Project]
    \cup [op: {"project"}, rows: [User -> Row]]
    \cup [op: {"drop"}, project: Project]

TypeOK ==
    /\ account \in [User -> BOOLEAN]
    /\ project \subseteq Project /\ dropped \subseteq Project
    /\ member \in [User -> OrgRole \cup {None}]
    /\ row \in [User -> [Project -> Row]]
    /\ machine \in [Machine -> MachineRow]
    /\ orgToken \in [OrgToken -> OrgTokenRow]
    /\ req \in [Request -> RequestState]

Init ==
    /\ account = [u \in User |-> TRUE]
    /\ project = {} /\ dropped = {}
    /\ member \in [User -> Role]
    /\ row = [u \in User |-> [p \in Project |-> NoRow]]
    /\ machine = [m \in Machine |-> NoMachine]
    /\ orgToken = [t \in OrgToken |-> NoOrgToken]
    /\ req = [r \in Request |-> Idle]

Access(u, p) == EffectiveRole(member[u], row[u][p], FALSE)

Begin(r, q) == req[r] = Idle /\ req' = [req EXCEPT ![r] = q]
Done(r) == req' = [req EXCEPT ![r] = Idle]

BeingRemoved(u) ==
    \/ member[u] = None
    \/ \E r \in Request : req[r].op = "remove" /\ req[r].user = u

-----------------------------------------------------------------------------
(* Machine tokens: POST and DELETE /api/tokens.                            *)

AskMachineToken(r, u, p) ==
    /\ account[u] /\ p \in project
    /\ HasProjectRole(Access(u, p), "EDITOR")
    /\ Begin(r, [op |-> "token", user |-> u, project |-> p, as |-> member[u]])
    /\ UNCHANGED <<people, row, machine, orgToken>>

\* The INSERT: nothing but the foreign keys is checked again.
CreateMachineToken(r, m) ==
    LET q == req[r] IN
    /\ q.op = "token"
    /\ machine[m].state = "FREE"
    /\ account[q.user] /\ q.project \in project
    /\ machine' = [machine EXCEPT ![m] =
                     [state |-> "LIVE", by |-> q.user, project |-> q.project,
                      as |-> q.as, late |-> BeingRemoved(q.user)]]
    /\ Done(r)
    /\ UNCHANGED <<people, row, orgToken>>

DeleteMachineToken(m) ==
    /\ machine[m].state = "LIVE"
    /\ machine' = [machine EXCEPT ![m] = RevokedMachine]
    /\ UNCHANGED <<people, row, orgToken, req>>

\* Mutant of RevokeMachines: notIn for in.
RevokeMachinesElsewhere(u, ps) ==
    [m \in Machine |->
        IF machine[m].state = "LIVE" /\ machine[m].by = u /\ machine[m].project \notin ps
        THEN RevokedMachine ELSE machine[m]]

\* machineToken.updateMany({createdById, projectId IN ps, revokedAt: null})
RevokeMachines(u, ps) ==
    [m \in Machine |->
        IF machine[m].state = "LIVE" /\ machine[m].by = u /\ machine[m].project \in ps
        THEN RevokedMachine ELSE machine[m]]

-----------------------------------------------------------------------------
(* Organisation tokens: POST, PATCH and DELETE /api/orgs/[slug]/org-tokens. *)

AskOrgToken(r, u, all, scope, expires) ==
    /\ account[u]
    /\ HasDevPrivileges(member[u]) \/ IgnoresHidden(member[u])
    /\ scope \subseteq project
    /\ all = (scope = {})
    /\ Begin(r, [op |-> "orgToken", user |-> u, as |-> member[u], all |-> all,
                 scope |-> scope, expires |-> expires, checked |-> FALSE])
    /\ UNCHANGED <<people, row, machine, orgToken>>

\* validateDevTokenCreation: a DEV lists projects of which it has a visible row,
\* and sets an expiry.
DevMayScope(u, all, scope, expires) ==
    /\ ~all /\ expires
    /\ \A p \in scope : row[u][p] # NoRow /\ ~row[u][p].hidden

ActiveTokens(u) ==
    Cardinality({t \in OrgToken : orgToken[t].state = "LIVE" /\ orgToken[t].by = u})

CheckOrgToken(r) ==
    LET q == req[r] IN
    /\ q.op = "orgToken" /\ ~q.checked
    /\ \/ /\ HasDevPrivileges(q.as)
          /\ DevMayScope(q.user, q.all, q.scope, q.expires)
          /\ ActiveTokens(q.user) < DevQuota
       \/ /\ ~HasDevPrivileges(q.as)
          /\ Cardinality({t \in OrgToken : orgToken[t].state = "LIVE"}) < OrgQuota
    /\ req' = [req EXCEPT ![r] = [q EXCEPT !.checked = TRUE]]
    /\ UNCHANGED <<people, row, machine, orgToken>>

CreateOrgToken(r, t) ==
    LET q == req[r] IN
    /\ q.op = "orgToken" /\ q.checked
    /\ orgToken[t].state = "FREE"
    /\ account[q.user]
    /\ orgToken' = [orgToken EXCEPT ![t] =
                      [state |-> "LIVE", by |-> q.user, all |-> q.all, scope |-> q.scope,
                       expires |-> q.expires, late |-> BeingRemoved(q.user)]]
    /\ Done(r)
    /\ UNCHANGED <<people, row, machine>>

\* PATCH changes the scope, never the expiry. A DEV edits its own tokens, within
\* its own rows; an ADMIN edits any of them.
EditOrgToken(t, u, all, scope) ==
    /\ account[u]
    /\ orgToken[t].state = "LIVE"
    /\ scope \subseteq project
    /\ all = (scope = {})
    /\ \/ IgnoresHidden(member[u])
       \/ /\ HasDevPrivileges(member[u])
          /\ orgToken[t].by = u
          /\ DevMayScope(u, all, scope, orgToken[t].expires)
    /\ orgToken' = [orgToken EXCEPT ![t] =
         [@ EXCEPT !.all = all, !.scope = scope,
                   !.late = orgToken[t].by \in User /\ BeingRemoved(orgToken[t].by)]]
    /\ UNCHANGED <<people, row, machine, req>>

DeleteOrgToken(t) ==
    /\ orgToken[t].state = "LIVE"
    /\ orgToken' = [orgToken EXCEPT ![t] = RevokedOrgToken]
    /\ UNCHANGED <<people, row, machine, req>>

\* The DEV form, the only one a gesture on the creator revokes.
DevForm(t) == ~orgToken[t].all /\ orgToken[t].expires

RevokeOrgTokens(u, among) ==
    [t \in OrgToken |->
        IF t \in among /\ orgToken[t].state = "LIVE" /\ orgToken[t].by = u /\ DevForm(t)
        THEN RevokedOrgToken ELSE orgToken[t]]

-----------------------------------------------------------------------------
(* PATCH /api/projects/[slug]/members/[userId]: hidden and role of one row. *)

\* `hidden` and `role` are what the body gives, None for what it leaves out.
AskMemberPatch(r, u, p, hidden, role) ==
    LET cur == row[u][p]
        next == [role   |-> IF role # None THEN role
                            ELSE IF cur # NoRow THEN cur.role ELSE "VIEWER",
                 hidden |-> IF hidden # None THEN hidden = "YES" ELSE cur.hidden]
    IN
    /\ p \in project
    /\ hidden # None \/ role # None
    /\ member[u] # None /\ ~IgnoresHidden(member[u])
    /\ Begin(r, [op |-> "member", user |-> u, project |-> p, had |-> cur # NoRow,
                 target |-> next,
                 needed |-> \/ next.hidden
                            \/ next.role # "VIEWER"
                            \/ ~HasDevPrivileges(member[u]),
                 step |-> "row"])
    /\ UNCHANGED <<people, row, machine, orgToken>>

WriteMemberRow(r) ==
    LET q == req[r] IN
    /\ q.op = "member" /\ q.step = "row"
    /\ q.had \/ q.needed
    /\ q.had <=> row[q.user][q.project] # NoRow
    /\ account[q.user] /\ q.project \in project
    /\ row' = [row EXCEPT ![q.user] = [@ EXCEPT ![q.project] = q.target]]
    /\ IF q.target.hidden
       THEN req' = [req EXCEPT ![r] = [q EXCEPT !.step = "machine"]]
       ELSE Done(r)
    /\ UNCHANGED <<people, machine, orgToken>>

\* No row, and none is needed: the answer is a no-op.
SkipMemberRow(r) ==
    LET q == req[r] IN
    /\ q.op = "member" /\ q.step = "row"
    /\ ~q.had /\ ~q.needed
    /\ Done(r)
    /\ UNCHANGED <<people, row, machine, orgToken>>

HideMachineTokens(r) ==
    LET q == req[r] IN
    /\ q.op = "member" /\ q.step = "machine"
    /\ machine' = RevokeMachines(q.user, {q.project})
    /\ req' = [req EXCEPT ![r] = [q EXCEPT !.step = "orgToken"]]
    /\ UNCHANGED <<people, row, orgToken>>

HideOrgTokens(r) ==
    LET q == req[r] IN
    /\ q.op = "member" /\ q.step = "orgToken"
    /\ orgToken' = RevokeOrgTokens(q.user, {t \in OrgToken : q.project \in orgToken[t].scope})
    /\ Done(r)
    /\ UNCHANGED <<people, row, machine>>

-----------------------------------------------------------------------------
(* PUT /api/orgs/[slug]/members/[userId]/project-access: every project.     *)

\* wish[p] = "ABSENT": the payload does not name p. A row it does not name is
\* dropped, unless it hides the project.
AskBulk(r, u, wish) ==
    LET cur == row[u]
        target == [p \in Project |->
                     IF wish[p] # "ABSENT" THEN DesiredRow(member[u], wish[p])
                     ELSE IF cur[p].hidden THEN cur[p] ELSE NoRow]
        todo == {p \in project : target[p] # cur[p]}
    IN
    /\ member[u] # None /\ ~IgnoresHidden(member[u])
    /\ todo # {}
    /\ Begin(r, [op |-> "bulk", user |-> u,
                 had |-> {p \in project : cur[p] # NoRow}, target |-> target, todo |-> todo,
                 loses |-> {p \in todo :
                              /\ EffectiveRole(member[u], cur[p], FALSE) # None
                              /\ EffectiveRole(member[u], target[p], FALSE) = None},
                 lost |-> NoProject])
    /\ UNCHANGED <<people, row, machine, orgToken>>

\* Mutant of BulkWrite: tokens are revoked when a row is deleted, not when access
\* is lost.
BulkWriteOnDelete(r, p) ==
    LET q == req[r] IN
    /\ q.op = "bulk" /\ q.lost = NoProject /\ p \in q.todo
    /\ p \in q.had <=> row[q.user][p] # NoRow
    /\ account[q.user] /\ p \in project
    /\ row' = [row EXCEPT ![q.user] = [@ EXCEPT ![p] = q.target[p]]]
    /\ IF q.target[p] = NoRow
       THEN req' = [req EXCEPT ![r] = [q EXCEPT !.todo = @ \ {p}, !.lost = p]]
       ELSE IF q.todo = {p} THEN Done(r)
       ELSE req' = [req EXCEPT ![r] = [q EXCEPT !.todo = @ \ {p}]]
    /\ UNCHANGED <<people, machine, orgToken>>

BulkWrite(r, p) ==
    LET q == req[r] IN
    /\ q.op = "bulk" /\ q.lost = NoProject /\ p \in q.todo
    /\ p \in q.had <=> row[q.user][p] # NoRow
    /\ account[q.user] /\ p \in project
    /\ row' = [row EXCEPT ![q.user] = [@ EXCEPT ![p] = q.target[p]]]
    /\ IF p \in q.loses
       THEN req' = [req EXCEPT ![r] = [q EXCEPT !.todo = @ \ {p}, !.lost = p]]
       ELSE IF q.todo = {p} THEN Done(r)
       ELSE req' = [req EXCEPT ![r] = [q EXCEPT !.todo = @ \ {p}]]
    /\ UNCHANGED <<people, machine, orgToken>>

BulkRevoke(r) ==
    LET q == req[r] IN
    /\ q.op = "bulk" /\ q.lost # NoProject
    /\ machine' = RevokeMachines(q.user, {q.lost})
    /\ IF q.todo = {} THEN Done(r)
       ELSE req' = [req EXCEPT ![r] = [q EXCEPT !.lost = NoProject]]
    /\ UNCHANGED <<people, row, orgToken>>

-----------------------------------------------------------------------------
(* DELETE /api/orgs/[slug]/members/[userId]: the offboarding.              *)

AskRemoval(r, u) ==
    /\ member[u] # None
    /\ Begin(r, [op |-> "remove", user |-> u, projects |-> project])
    /\ UNCHANGED <<people, row, machine, orgToken>>

\* Mutants of CommitRemoval: the cascade before organisation tokens joined it,
\* and one that leaves the ProjectMember rows.
CommitRemovalKeepsOrgTokens(r) ==
    LET q == req[r] IN
    /\ q.op = "remove"
    /\ member[q.user] # None
    /\ row' = [row EXCEPT ![q.user] =
                 [p \in Project |-> IF p \in q.projects THEN NoRow ELSE @[p]]]
    /\ machine' = RevokeMachines(q.user, q.projects)
    /\ member' = [member EXCEPT ![q.user] = None]
    /\ Done(r)
    /\ UNCHANGED <<account, project, dropped, orgToken>>

CommitRemovalKeepsRows(r) ==
    LET q == req[r] IN
    /\ q.op = "remove"
    /\ member[q.user] # None
    /\ machine' = RevokeMachines(q.user, q.projects)
    /\ orgToken' = RevokeOrgTokens(q.user, OrgToken)
    /\ member' = [member EXCEPT ![q.user] = None]
    /\ Done(r)
    /\ UNCHANGED <<account, project, dropped, row>>

\* One transaction; it rolls back if the OrgMember row is gone. The account of
\* someone left without any organisation may be deleted next: DeleteAccount.
CommitRemoval(r) ==
    LET q == req[r] IN
    /\ q.op = "remove"
    /\ member[q.user] # None
    /\ row' = [row EXCEPT ![q.user] =
                 [p \in Project |-> IF p \in q.projects THEN NoRow ELSE @[p]]]
    /\ machine' = RevokeMachines(q.user, q.projects)
    /\ orgToken' = RevokeOrgTokens(q.user, OrgToken)
    /\ member' = [member EXCEPT ![q.user] = None]
    /\ Done(r)
    /\ UNCHANGED <<account, project, dropped>>

-----------------------------------------------------------------------------
(* Projects: POST /api/projects, DELETE /api/projects/[slug].               *)

\* Any member creates a project. The creator gets a row, the other members it
\* names the row that gives them the access asked for. NoUser: somebody else.
AskProject(r, c, wish) ==
    /\ c \in User => account[c] /\ member[c] # None
    /\ Begin(r, [op |-> "project",
                 rows |-> [u \in User |->
                             IF u = c THEN [role |-> "OWNER", hidden |-> FALSE]
                             ELSE IF wish[u] = "ABSENT" THEN NoRow
                             ELSE DesiredRow(member[u], wish[u])]])
    /\ UNCHANGED <<people, row, machine, orgToken>>

\* The project and its rows, in one write.
CreateProject(r, p) ==
    LET q == req[r] IN
    /\ q.op = "project"
    /\ p \notin project \cup dropped
    /\ \A u \in User : q.rows[u] # NoRow => account[u]
    /\ project' = project \cup {p}
    /\ row' = [u \in User |-> [row[u] EXCEPT ![p] = q.rows[u]]]
    /\ Done(r)
    /\ UNCHANGED <<account, dropped, member, machine, orgToken>>

\* First the project leaves the scope of the organisation tokens, expiring or not.
AskDrop(r, p) ==
    /\ p \in project
    /\ orgToken' = [t \in OrgToken |-> [orgToken[t] EXCEPT !.scope = @ \ {p}]]
    /\ Begin(r, [op |-> "drop", project |-> p])
    /\ UNCHANGED <<people, row, machine>>

\* Then it goes, with its rows and machine tokens.
DropProject(r) ==
    LET q == req[r] IN
    /\ q.op = "drop"
    /\ q.project \in project
    /\ project' = project \ {q.project}
    /\ dropped' = dropped \cup {q.project}
    /\ row' = [u \in User |-> [row[u] EXCEPT ![q.project] = NoRow]]
    /\ machine' = [m \in Machine |-> IF machine[m].project = q.project THEN RevokedMachine
                                     ELSE machine[m]]
    /\ Done(r)
    /\ UNCHANGED <<account, member, orgToken>>

-----------------------------------------------------------------------------
(* What else moves.                                                        *)

\* POST /api/me/delete/now, the platform's admin page, and the purge of an
\* account without organisation. Memberships and rows cascade; the creator of
\* a token is set to null and the token stays.
DeleteAccount(u) ==
    /\ account[u]
    /\ account' = [account EXCEPT ![u] = FALSE]
    /\ member' = [member EXCEPT ![u] = None]
    /\ row' = [row EXCEPT ![u] = [p \in Project |-> NoRow]]
    /\ machine' = [m \in Machine |->
                     IF machine[m].by = u THEN [machine[m] EXCEPT !.by = NoUser]
                     ELSE machine[m]]
    /\ orgToken' = [t \in OrgToken |->
                     IF orgToken[t].by = u THEN [orgToken[t] EXCEPT !.by = NoUser]
                     ELSE orgToken[t]]
    /\ UNCHANGED <<project, dropped, req>>

\* PATCH /api/orgs/[slug]/members/[userId].
ChangeRole(u, role) ==
    /\ member[u] \notin {None, role}
    /\ member' = [member EXCEPT ![u] = role]
    /\ UNCHANGED <<account, project, dropped, row, machine, orgToken, req>>

\* An invitation is accepted: the membership and its granted rows, in one
\* transaction that a row left over for one of them aborts.
Join(u, role, wish) ==
    LET grant == [p \in Project |-> IF wish[p] = "ABSENT" \/ p \notin project THEN NoRow
                                    ELSE DesiredRow(role, wish[p])]
    IN
    /\ account[u] /\ member[u] = None
    /\ \A p \in Project : grant[p] # NoRow => row[u][p] = NoRow
    /\ member' = [member EXCEPT ![u] = role]
    /\ row' = [row EXCEPT ![u] = [p \in Project |-> IF grant[p] # NoRow THEN grant[p] ELSE @[p]]]
    /\ UNCHANGED <<account, project, dropped, machine, orgToken, req>>

\* An await throws (a refused write, a missing row) or the process stops: the
\* request ends where it is, and what it wrote stays.
Fail(r) ==
    /\ req[r].op \notin {"idle", "failed"}
    /\ req' = [req EXCEPT ![r] = IF @.op \in {"member", "bulk"} THEN Failed(@) ELSE Idle]
    /\ UNCHANGED <<people, row, machine, orgToken>>

-----------------------------------------------------------------------------
WishMap == [Project -> Wish \cup {"ABSENT"}]
UserWish == [User -> Wish \cup {"ABSENT"}]

RequestStep(r) ==
    \/ \E u \in User, p \in Project : AskMachineToken(r, u, p)
    \/ \E m \in Machine : CreateMachineToken(r, m)
    \/ \E u \in User, all, expires \in BOOLEAN, scope \in SUBSET Project :
         AskOrgToken(r, u, all, scope, expires)
    \/ CheckOrgToken(r)
    \/ \E t \in OrgToken : CreateOrgToken(r, t)
    \/ \E u \in User, p \in Project, hidden \in {"YES", "NO", None}, role \in Wish \cup {None} :
         AskMemberPatch(r, u, p, hidden, role)
    \/ WriteMemberRow(r)
    \/ SkipMemberRow(r)
    \/ HideMachineTokens(r)
    \/ HideOrgTokens(r)
    \/ \E u \in User, wish \in WishMap : AskBulk(r, u, wish)
    \/ \E p \in Project : BulkWrite(r, p)
    \/ BulkRevoke(r)
    \/ \E u \in User : AskRemoval(r, u)
    \/ CommitRemoval(r)
    \/ \E c \in User \cup {NoUser}, wish \in UserWish : AskProject(r, c, wish)
    \/ \E p \in Project : CreateProject(r, p)
    \/ \E p \in Project : AskDrop(r, p)
    \/ DropProject(r)
    \/ Fail(r)

Next ==
    \/ \E r \in Request : RequestStep(r)
    \/ \E m \in Machine : DeleteMachineToken(m)
    \/ \E t \in OrgToken, u \in User, all \in BOOLEAN, scope \in SUBSET Project :
         EditOrgToken(t, u, all, scope)
    \/ \E t \in OrgToken : DeleteOrgToken(t)
    \/ \E u \in User : DeleteAccount(u)
    \/ \E u \in User, role \in Role : ChangeRole(u, role)
    \/ \E u \in User, role \in Role, wish \in WishMap : Join(u, role, wish)

Spec == Init /\ [][Next]_vars

-----------------------------------------------------------------------------
(* Properties.                                                             *)

\* The three forms of the access rules agree on every member and project: what
\* a route lets through, what a listing shows, what the in-memory filter keeps
\* (lib/project-access.ts, "asserte que les trois formes sont D'ACCORD").
FormsAgree ==
    \A u \in User, p \in Project :
        LET allowed == Access(u, p) # None IN
        /\ allowed <=> VisibleWhere(member[u], row[u][p])
        /\ allowed <=> FilterKeeps(member[u], row[u][p], FALSE)

\* The offboarding leaves nothing behind: a live token issued by someone who is
\* no longer a member was written while that removal was running or after it,
\* never before. Institutional organisation tokens are meant to survive.
CascadeIsComplete ==
    /\ \A m \in Machine :
         LET t == machine[m] IN
         t.state = "LIVE" /\ t.by \in User /\ member[t.by] = None => t.late
    /\ \A t \in OrgToken :
         LET o == orgToken[t] IN
         o.state = "LIVE" /\ o.by \in User /\ DevForm(t) /\ member[o.by] = None => o.late

\* Rule 6 of lib/project-access.ts: someone who is not a member of the
\* organisation has no ProjectMember row, which would give access on its own.
RuleSix ==
    \A u \in User, p \in Project : row[u][p] # NoRow => member[u] # None

\* revocation-matrix, machine_token x org_member_removal: "dies".
MachineTokensDieOnRemoval ==
    \A m \in Machine :
        machine[m].state = "LIVE" /\ machine[m].by \in User => member[machine[m].by] # None

Unfinished(u) ==
    \E r \in Request : req[r].op \in {"failed", "member", "bulk"} /\ req[r].user = u

\* revocation-matrix, machine_token x project_hidden: "dies". Once the gesture is
\* over, a hidden member has no live token on the project, except one issued
\* while an ADMIN or OWNER, whom hiding does not touch.
MachineTokensDieOnHide ==
    \A m \in Machine :
        LET t == machine[m] IN
        /\ t.state = "LIVE" /\ t.by \in User /\ ~IgnoresHidden(t.as)
        /\ row[t.by][t.project].hidden
        => Unfinished(t.by)

\* revocation-matrix, org_token x project_hidden: "dies", for the DEV form.
OrgTokensDieOnHide ==
    \A t \in OrgToken :
        LET o == orgToken[t] IN
        /\ o.state = "LIVE" /\ o.by \in User /\ DevForm(t)
        /\ \E p \in o.scope : row[o.by][p].hidden
        => Unfinished(o.by)

\* projects/[slug]/members/[userId]: the PATCH answers "noop" to a manager who
\* asks for VIEWER only when the member already has that access ("le default
\* effectif (hidden=false, role=VIEWER)").
NoopMeansGranted ==
    [][\A r \in Request, u \in User, p \in Project :
         /\ AskMemberPatch(r, u, p, None, "VIEWER")
         /\ ~req'[r].had /\ ~req'[r].needed
         => Access(u, p) = "VIEWER"]_vars

\* Neither quota is exceeded, whichever role the tokens were issued with.
QuotaHolds ==
    \A u \in User :
        ActiveTokens(u) <= IF DevQuota > OrgQuota THEN DevQuota ELSE OrgQuota

\* api/me/delete/now: with the account, "les tokens meurent".
TokensDieWithAccount ==
    \A m \in Machine : machine[m].state = "LIVE" => machine[m].by # NoUser
=============================================================================
