------------------------------ MODULE OrgMembers ------------------------------
(***************************************************************************)
(* Who belongs to one organisation, with which role, and on whose          *)
(* authority: role changes, invitations, the offboarding of a member, the  *)
(* purge of an account left without organisation, and the deletion of an   *)
(* account by its owner.  What the member can reach is in OrgAccess.       *)
(*                                                                         *)
(* A handler reads what it checks (its caller's role, the target, the      *)
(* number of OWNERs, the invitation), awaits, then writes by id: the reads *)
(* are one step, the write another, kept apart in req[r].  The id of a     *)
(* membership is not kept: a row deleted and created again between the two *)
(* steps is taken for the same row.                                        *)
(***************************************************************************)
EXTENDS ProjectAccess, FiniteSets

CONSTANTS
    User,          \* people, by e-mail address
    Invite,        \* Invitation ids
    Request,       \* HTTP requests that may be in flight together
    NoUser,        \* no inviter
    PlatformAdmin, \* users whose global role is ADMIN or SUPERADMIN
    Elsewhere,     \* users who belong to another organisation too
    Role           \* bound: the organisation roles in use

ASSUME OrgMembersAssumption ==
    /\ NoUser \notin User
    /\ PlatformAdmin \subseteq User /\ Elsewhere \subseteq User
    /\ Role \subseteq OrgRole

VARIABLES
    account, \* User rows
    vault,   \* the personal vault, and whether a removal destroyed one
    member,  \* OrgMember rows, by role
    invite,  \* Invitation rows
    req      \* requests in flight

vars == <<account, vault, member, invite, req>>

\* "LEAVING": deletionRequestedAt is set. A deleted account does not register again.
Account == {"NONE", "ACTIVE", "LEAVING", "DELETED"}
Vault == {"EMPTY", "FULL", "DESTROYED"}

\* `as`, `late`: history. The role of whoever issued or last resent it, and
\* whether it was written while its issuer was being removed or after.
InviteRow ==
    [state: {"FREE", "PENDING", "EXPIRED", "ACCEPTED", "GONE"}, to: User \cup {NoUser},
     by: User \cup {NoUser}, role: OrgRole \cup {None}, inApp: BOOLEAN,
     as: OrgRole \cup {None}, late: BOOLEAN]

NoInvite ==
    [state |-> "FREE", to |-> NoUser, by |-> NoUser, role |-> None, inApp |-> FALSE,
     as |-> None, late |-> FALSE]

\* Nothing reads an invitation accepted or deleted but its state.
Closed(state) == [NoInvite EXCEPT !.state = state]

Idle == [op |-> "idle"]

RequestState ==
    {Idle}
    \cup [op: {"role"}, as: OrgRole, user: User, role: OrgRole]
    \cup [op: {"remove"}, user: User, step: {"leave", "count", "purge"}]
    \cup [op: {"invite"}, by: User, as: OrgRole, user: User, role: OrgRole, inApp: BOOLEAN]
    \cup [op: {"accept"}, invite: Invite, user: User, role: OrgRole,
          via: {"link", "inApp", "register"}]
    \cup [op: {"delete"}, user: User, by: {"self", "admin"}]

TypeOK ==
    /\ account \in [User -> Account]
    /\ vault \in [User -> Vault]
    /\ member \in [User -> OrgRole \cup {None}]
    /\ invite \in [Invite -> InviteRow]
    /\ req \in [Request -> RequestState]

Owners == {u \in User : member[u] = "OWNER"}

\* An organisation under way: every member has an account, and it has an OWNER.
Init ==
    /\ account \in [User -> {"NONE", "ACTIVE"}]
    /\ vault = [u \in User |-> "EMPTY"]
    /\ member \in [User -> Role \cup {None}]
    /\ \A u \in User : member[u] # None \/ u \in PlatformAdmin => account[u] = "ACTIVE"
    /\ Owners # {}
    /\ invite = [i \in Invite |-> NoInvite]
    /\ req = [r \in Request |-> Idle]

Exists(u) == account[u] \in {"ACTIVE", "LEAVING"}
Open(i) == invite[i].state \in {"PENDING", "EXPIRED"}

\* requireOrgMember: the role the caller acts with.
ActsAs(a) == IF Exists(a) THEN ResolveOrgRole(member[a], a \in PlatformAdmin) ELSE None
\* requireOrgMember(slug, "ADMIN")
Manages(a) == ActsAs(a) \in {"ADMIN", "OWNER"}

BeingRemoved(u) ==
    /\ u \notin PlatformAdmin
    /\ \/ member[u] = None
       \/ \E r \in Request : req[r].op = "remove" /\ req[r].user = u

Begin(r, q) == req[r] = Idle /\ req' = [req EXCEPT ![r] = q]
Done(r) == req' = [req EXCEPT ![r] = Idle]

-----------------------------------------------------------------------------
(* PATCH /api/orgs/[slug]/members/[userId]                                  *)

\* The last OWNER is not demoted.
AskRole(r, a, u, role) ==
    /\ Manages(a)
    /\ role = "OWNER" => ActsAs(a) = "OWNER"
    /\ member[u] # None
    /\ member[u] = "OWNER" /\ role # "OWNER" => Cardinality(Owners) > 1
    /\ Begin(r, [op |-> "role", as |-> ActsAs(a), user |-> u, role |-> role])
    /\ UNCHANGED <<account, vault, member, invite>>

WriteRole(r) ==
    LET q == req[r] IN
    /\ q.op = "role"
    /\ member[q.user] # None
    /\ member' = [member EXCEPT ![q.user] = q.role]
    /\ Done(r)
    /\ UNCHANGED <<account, vault, invite>>

-----------------------------------------------------------------------------
(* DELETE /api/orgs/[slug]/members/[userId]                                 *)

\* Mutant of AskRemoval: the OWNERs are not counted.
AskRemovalUncounted(r, a, u) ==
    /\ Manages(a)
    /\ member[u] # None
    /\ Begin(r, [op |-> "remove", user |-> u, step |-> "leave"])
    /\ UNCHANGED <<account, vault, member, invite>>

\* The last OWNER is not removed.
AskRemoval(r, a, u) ==
    /\ Manages(a)
    /\ member[u] # None
    /\ member[u] = "OWNER" => Cardinality(Owners) > 1
    /\ Begin(r, [op |-> "remove", user |-> u, step |-> "leave"])
    /\ UNCHANGED <<account, vault, member, invite>>

\* Mutant of CommitRemoval: the invitations the leaver issued stay.
CommitRemovalKeepsInvites(r) ==
    LET q == req[r] IN
    /\ q.op = "remove" /\ q.step = "leave"
    /\ member[q.user] # None
    /\ member' = [member EXCEPT ![q.user] = None]
    /\ req' = [req EXCEPT ![r] = [q EXCEPT !.step = "count"]]
    /\ UNCHANGED <<account, vault, invite>>

\* One transaction: the invitations the leaver issued, then the membership.
CommitRemoval(r) ==
    LET q == req[r] IN
    /\ q.op = "remove" /\ q.step = "leave"
    /\ member[q.user] # None
    /\ invite' = [i \in Invite |-> IF Open(i) /\ invite[i].by = q.user THEN Closed("GONE")
                                   ELSE invite[i]]
    /\ member' = [member EXCEPT ![q.user] = None]
    /\ req' = [req EXCEPT ![r] = [q EXCEPT !.step = "count"]]
    /\ UNCHANGED <<account, vault>>

\* The counts that make an account an orphan: no organisation, an empty vault.
CountOrphan(r) ==
    LET q == req[r] IN
    /\ q.op = "remove" /\ q.step = "count"
    /\ IF member[q.user] = None /\ q.user \notin Elsewhere /\ vault[q.user] # "FULL"
       THEN req' = [req EXCEPT ![r] = [q EXCEPT !.step = "purge"]]
       ELSE Done(r)
    /\ UNCHANGED <<account, vault, member, invite>>

\* What the deletion of a User row takes with it: memberships, the invitations
\* it issued, accepted or not, and the in-app ones it received.
Erase(u) ==
    /\ account' = [account EXCEPT ![u] = "DELETED"]
    /\ member' = [member EXCEPT ![u] = None]
    /\ invite' = [i \in Invite |->
                    IF invite[i].by = u \/ (invite[i].to = u /\ invite[i].inApp)
                    THEN Closed("GONE") ELSE invite[i]]

PurgeOrphan(r) ==
    LET q == req[r] IN
    /\ q.op = "remove" /\ q.step = "purge"
    /\ Exists(q.user)
    /\ Erase(q.user)
    /\ vault' = [vault EXCEPT ![q.user] = IF @ = "FULL" THEN "DESTROYED" ELSE @]
    /\ Done(r)

-----------------------------------------------------------------------------
(* POST /api/orgs/[slug]/members: inviting.                                *)

\* Mutant of AskInvite: an ADMIN may invite an OWNER.
AskInviteAnyRole(r, a, u, role, inApp) ==
    /\ Manages(a)
    /\ inApp => Exists(u) /\ u # a
    /\ member[u] = None
    /\ ~\E i \in Invite : invite[i].state = "PENDING" /\ invite[i].to = u
    /\ Begin(r, [op |-> "invite", by |-> a, as |-> ActsAs(a), user |-> u, role |-> role,
                 inApp |-> inApp])
    /\ UNCHANGED <<account, vault, member, invite>>

\* Neither a member nor someone with a pending, unexpired invitation is invited.
AskInvite(r, a, u, role, inApp) ==
    /\ Manages(a)
    /\ role = "OWNER" => ActsAs(a) = "OWNER"
    /\ inApp => Exists(u) /\ u # a
    /\ member[u] = None
    /\ ~\E i \in Invite : invite[i].state = "PENDING" /\ invite[i].to = u
    /\ Begin(r, [op |-> "invite", by |-> a, as |-> ActsAs(a), user |-> u, role |-> role,
                 inApp |-> inApp])
    /\ UNCHANGED <<account, vault, member, invite>>

CreateInvite(r, i) ==
    LET q == req[r] IN
    /\ q.op = "invite"
    /\ invite[i].state = "FREE"
    /\ Exists(q.by)
    /\ q.inApp => Exists(q.user)
    /\ invite' = [invite EXCEPT ![i] =
                    [state |-> "PENDING", to |-> q.user, by |-> q.by, role |-> q.role,
                     inApp |-> q.inApp, as |-> q.as, late |-> BeingRemoved(q.by)]]
    /\ Done(r)
    /\ UNCHANGED <<account, vault, member>>

\* An invitation reaches its 48 hours.
Expire(i) ==
    /\ invite[i].state = "PENDING"
    /\ invite' = [invite EXCEPT ![i].state = "EXPIRED"]
    /\ UNCHANGED <<account, vault, member, req>>

\* POST .../invitations/[id]/resend: expired or not, it is pending again. It and
\* the two below read and write in one step: their late write by id touches
\* nothing but an invitation that no longer counts.
Resend(a, i) ==
    /\ Manages(a)
    /\ Open(i)
    /\ invite[i].role = "OWNER" => ActsAs(a) = "OWNER"
    /\ invite' = [invite EXCEPT ![i] = [@ EXCEPT !.state = "PENDING", !.as = ActsAs(a)]]
    /\ UNCHANGED <<account, vault, member, req>>

\* DELETE .../invitations/[id] by a manager, DELETE /api/me/invitations/[id] by
\* the invited user.
Cancel(a, i) ==
    /\ Manages(a)
    /\ Open(i)
    /\ invite[i].role = "OWNER" => ActsAs(a) = "OWNER"
    /\ invite' = [invite EXCEPT ![i] = Closed("GONE")]
    /\ UNCHANGED <<account, vault, member, req>>

Decline(i) ==
    /\ Open(i) /\ invite[i].inApp
    /\ invite' = [invite EXCEPT ![i] = Closed("GONE")]
    /\ UNCHANGED <<account, vault, member, req>>

-----------------------------------------------------------------------------
(* Accepting: by the e-mailed link, signed in or registering, or from the    *)
(* dashboard, for an in-app invitation: its link is sent to nobody.          *)

AskAccept(r, i, via) ==
    LET u == invite[i].to IN
    /\ invite[i].state = "PENDING"
    /\ invite[i].inApp = (via = "inApp")
    /\ Exists(u) = (via # "register")
    /\ Begin(r, [op |-> "accept", invite |-> i, user |-> u, role |-> invite[i].role,
                 via |-> via])
    /\ UNCHANGED <<account, vault, member, invite>>

\* One transaction, which a deleted invitation aborts. The link gives the
\* invitation's role to someone who is a member already; the dashboard does not.
CommitAccept(r) ==
    LET q == req[r] IN
    /\ q.op = "accept"
    /\ invite[q.invite].state # "GONE"
    /\ IF q.via = "register"
       THEN /\ account[q.user] = "NONE"
            /\ account' = [account EXCEPT ![q.user] = "ACTIVE"]
       ELSE /\ Exists(q.user)
            /\ UNCHANGED account
    /\ member' = [member EXCEPT ![q.user] =
                    IF q.via = "inApp" /\ @ # None THEN @ ELSE q.role]
    /\ invite' = [invite EXCEPT ![q.invite] = Closed("ACCEPTED")]
    /\ Done(r)
    /\ UNCHANGED vault

-----------------------------------------------------------------------------
(* The account itself.                                                     *)

\* POST /api/me/delete: refused to the last OWNER.
RequestDeletion(u) ==
    /\ account[u] = "ACTIVE"
    /\ member[u] = "OWNER" => Cardinality(Owners) > 1
    /\ account' = [account EXCEPT ![u] = "LEAVING"]
    /\ UNCHANGED <<vault, member, invite, req>>

CancelDeletion(u) ==
    /\ account[u] = "LEAVING"
    /\ account' = [account EXCEPT ![u] = "ACTIVE"]
    /\ UNCHANGED <<vault, member, invite, req>>

\* POST /api/me/delete/now: the OWNERs are not counted again.
AskDeleteNow(r, u) ==
    /\ account[u] = "LEAVING"
    /\ Begin(r, [op |-> "delete", user |-> u, by |-> "self"])
    /\ UNCHANGED <<account, vault, member, invite>>

\* deleteUser, of the platform's administration page.
AskAdminDelete(r, a, u) ==
    /\ a \in PlatformAdmin \ {u} /\ Exists(a)
    /\ Begin(r, [op |-> "delete", user |-> u, by |-> "admin"])
    /\ UNCHANGED <<account, vault, member, invite>>

CommitDelete(r) ==
    LET q == req[r] IN
    /\ q.op = "delete"
    /\ Exists(q.user)
    /\ Erase(q.user)
    /\ vault' = [vault EXCEPT ![q.user] = "EMPTY"]
    /\ Done(r)

\* A first entry in the personal vault.
FillVault(u) ==
    /\ Exists(u)
    /\ vault[u] = "EMPTY"
    /\ vault' = [vault EXCEPT ![u] = "FULL"]
    /\ UNCHANGED <<account, member, invite, req>>

\* An await throws or the process stops; what was written stays.
Fail(r) ==
    /\ req[r] # Idle
    /\ Done(r)
    /\ UNCHANGED <<account, vault, member, invite>>

-----------------------------------------------------------------------------
RequestStep(r) ==
    \/ \E a, u \in User, role \in Role : AskRole(r, a, u, role)
    \/ WriteRole(r)
    \/ \E a, u \in User : AskRemoval(r, a, u)
    \/ CommitRemoval(r)
    \/ CountOrphan(r)
    \/ PurgeOrphan(r)
    \/ \E a, u \in User, role \in Role, inApp \in BOOLEAN : AskInvite(r, a, u, role, inApp)
    \/ \E i \in Invite : CreateInvite(r, i)
    \/ \E i \in Invite, via \in {"link", "inApp", "register"} : AskAccept(r, i, via)
    \/ CommitAccept(r)
    \/ \E u \in User : AskDeleteNow(r, u)
    \/ \E a, u \in User : AskAdminDelete(r, a, u)
    \/ CommitDelete(r)
    \/ Fail(r)

Next ==
    \/ \E r \in Request : RequestStep(r)
    \/ \E i \in Invite : Expire(i)
    \/ \E a \in User, i \in Invite : Resend(a, i)
    \/ \E a \in User, i \in Invite : Cancel(a, i)
    \/ \E i \in Invite : Decline(i)
    \/ \E u \in User : RequestDeletion(u)
    \/ \E u \in User : CancelDeletion(u)
    \/ \E u \in User : FillVault(u)

Spec == Init /\ [][Next]_vars

-----------------------------------------------------------------------------
(* Properties.                                                             *)

\* Nobody becomes OWNER but by an OWNER: a request authorised as one, or an
\* invitation that an OWNER issued or resent last, however late either is served.
OwnershipDescends ==
    [][\A u \in User : member[u] # "OWNER" /\ member'[u] = "OWNER" =>
         \/ \E r \in Request : req[r].op = "role" /\ req[r].user = u /\ req[r].as = "OWNER"
         \/ \E i \in Invite :
              /\ invite[i].to = u /\ invite[i].role = "OWNER" /\ invite[i].as = "OWNER"
              /\ invite'[i].state = "ACCEPTED"
         \/ \E r \in Request : req[r].op = "accept" /\ req[r].user = u
                               /\ invite[req[r].invite].state = "ACCEPTED"]_vars

\* The removal of a member takes the invitations it issued (2.25f): an open one
\* whose issuer no longer belongs was written while the removal ran, or after it.
InvitationsAreCut ==
    \A i \in Invite :
        Open(i) /\ member[invite[i].by] = None /\ invite[i].by \notin PlatformAdmin
            => invite[i].late

\* tests/integ/last-owner-protection: a role change or a removal never takes the
\* last OWNER away.
GesturesKeepAnOwner ==
    [][\A r \in Request :
         req[r].op \in {"role", "remove"} /\ req'[r] # req[r] /\ Owners # {} =>
             Owners' # {}]_vars

\* The same of the acceptance of an invitation.
AcceptanceKeepsAnOwner ==
    [][\A r \in Request :
         req[r].op = "accept" /\ req'[r] # req[r] /\ Owners # {} => Owners' # {}]_vars

\* lib/deletion-window.ts: "une org doit toujours conserver au moins un OWNER",
\* of the deletion of an account by its owner.
DeletionKeepsAnOwner ==
    [][\A r \in Request :
         /\ req[r].op = "delete" /\ req[r].by = "self" /\ req'[r] # req[r]
         /\ Owners # {}
         => Owners' # {}]_vars

\* The PATCH: "Only OWNERs can promote/demote OWNERs."
OwnersMoveOwners ==
    [][\A r \in Request :
         LET q == req[r] IN
         /\ q.op = "role" /\ member[q.user] = "OWNER" /\ member'[q.user] # "OWNER"
         /\ member'[q.user] = q.role /\ req'[r] # q
         => q.as = "OWNER"]_vars

\* The conflict check of POST members, "pour eviter doublon": one pending
\* invitation for each address.
OnePendingInvite ==
    \A i, j \in Invite :
        /\ invite[i].state = "PENDING" /\ invite[j].state = "PENDING"
        /\ invite[i].to = invite[j].to
        => i = j

\* "Invitation a usage unique": whoever becomes a member without registering
\* spends an invitation.
InvitesAreSpent ==
    [][\A u \in User : member[u] = None /\ member'[u] # None =>
         \E i \in Invite : invite[i].to = u /\ invite'[i].state = "ACCEPTED"]_vars

\* "On ne detruit JAMAIS un coffre perso non vide via un retrait."
PurgeSparesVaults == \A u \in User : vault[u] # "DESTROYED"
=============================================================================
