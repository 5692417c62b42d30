------------------------------ MODULE TeamVault ------------------------------
(***************************************************************************)
(* The team collections of one organisation and the TeamVaultMember rows   *)
(* that share them: app/api/vault/org/[orgSlug]/collections, and what the  *)
(* departure of a member (app/api/orgs/[slug]/members/[userId]) withdraws. *)
(*                                                                         *)
(* A handler resolves the caller's access, awaits, then writes.  What it   *)
(* writes by id fails when the row is no more, and a row made again has    *)
(* another id: deleting a row ends the requests that hold it.  Joining and *)
(* a change of role in the organisation are one step.                      *)
(***************************************************************************)
EXTENDS VaultAccess, FiniteSets

CONSTANTS
    User,          \* the accounts
    PlatformAdmin, \* those who administrate the platform
    Collection,    \* collections of the organisation, present and to come
    Req            \* requests that may be in flight together

VARIABLES
    member,     \* OrgMember rows: role in the organisation, or none
    collection, \* collections that exist
    dropped,    \* collections deleted: an id is never used again
    share,      \* TeamVaultMember rows: role, or none
    req         \* requests in flight

vars == <<member, collection, dropped, share, req>>

Idle == [at |-> "idle"]
RequestState ==
    {Idle} \cup [at: {"create"}, coll: Collection, user: User, role: VaultRole \cup {None}]
           \cup [at: {"add", "set"}, coll: Collection, user: User, role: VaultRole]
           \cup [at: {"drop"}, coll: Collection, user: User]
           \cup [at: {"remove"}, user: User]

TypeOK ==
    /\ member \in [User -> OrgRole \cup {None}]
    /\ collection \subseteq Collection /\ dropped \subseteq Collection
    /\ share \in [Collection -> [User -> VaultRole \cup {None}]]
    /\ req \in [Req -> RequestState]

Init ==
    /\ member \in [User -> OrgRole \cup {None}]
    /\ collection = {} /\ dropped = {}
    /\ share = [c \in Collection |-> [u \in User |-> None]]
    /\ req = [r \in Req |-> Idle]

Admin(u) == u \in PlatformAdmin
RoleOn(c, u) == CollectionRole(member[u], share[c][u], Admin(u))

Enter(r, state) == req' = [req EXCEPT ![r] = state] /\ UNCHANGED <<member, collection, dropped, share>>

\* The requests that hold a row that is deleted fail.
EndHolders(holders) == req' = [r \in Req |-> IF r \in holders THEN Idle ELSE req[r]]

-----------------------------------------------------------------------------
(* Members of the organisation.                                            *)

Join(u, role) ==
    /\ member[u] = None
    /\ member' = [member EXCEPT ![u] = role]
    /\ UNCHANGED <<collection, dropped, share, req>>

ChangeRole(u, role) ==
    /\ member[u] \notin {None, role}
    /\ member' = [member EXCEPT ![u] = role]
    /\ UNCHANGED <<collection, dropped, share, req>>

AskRemove(r, u) ==
    /\ req[r] = Idle /\ member[u] # None
    /\ Enter(r, [at |-> "remove", user |-> u])

\* Mutant: the membership goes, the shares stay.
SharesStay(u) == share

\* One transaction takes the shares of the organisation's collections and the
\* membership.
SharesOut(u) == [c \in Collection |-> [share[c] EXCEPT ![u] = None]]

Remove(r) ==
    /\ req[r].at = "remove"
    /\ LET u == req[r].user IN
        /\ share' = SharesOut(u)
        /\ member' = [member EXCEPT ![u] = None]
        /\ EndHolders({q \in Req : req[q].at \in {"set", "drop", "remove"} /\ req[q].user = u})
    /\ UNCHANGED <<collection, dropped>>

\* The deletion of an account cascades on both; a creation that gives no share does
\* not refer to it.
DeleteAccount(u) ==
    /\ share' = [c \in Collection |-> [share[c] EXCEPT ![u] = None]]
    /\ member' = [member EXCEPT ![u] = None]
    /\ EndHolders({q \in Req : /\ req[q] # Idle /\ req[q].user = u
                             /\ req[q].at = "create" => req[q].role # None})
    /\ UNCHANGED <<collection, dropped>>

-----------------------------------------------------------------------------
(* Collections.                                                            *)

MayCreate(u) ==
    ResolveOrgRole(member[u], Admin(u)) \in {"OWNER", "ADMIN", "ADMIN_DEV", "DEV"}

\* A creator who would not manage the collection otherwise is given a share.
AskCreate(r, u, c) ==
    /\ req[r] = Idle /\ c \notin collection \cup dropped
    /\ MayCreate(u)
    /\ Enter(r, [at |-> "create", coll |-> c, user |-> u,
                 role |-> IF ResolveOrgRole(member[u], Admin(u)) \in {"OWNER", "ADMIN"}
                          THEN None ELSE "OWNER"])

Create(r) ==
    /\ req[r].at = "create"
    /\ req[r].coll \notin collection \cup dropped
    /\ collection' = collection \cup {req[r].coll}
    /\ share' = [share EXCEPT ![req[r].coll][req[r].user] = req[r].role]
    /\ req' = [req EXCEPT ![r] = Idle]
    /\ UNCHANGED <<member, dropped>>

\* Its shares go with it, and what is in flight about it fails.
Delete(u, c) ==
    /\ c \in collection
    /\ RoleOn(c, u) = "OWNER"
    /\ collection' = collection \ {c} /\ dropped' = dropped \cup {c}
    /\ share' = [share EXCEPT ![c] = [v \in User |-> None]]
    /\ EndHolders({q \in Req : req[q].at \notin {"idle", "remove"} /\ req[q].coll = c})
    /\ UNCHANGED member

-----------------------------------------------------------------------------
(* Shares.                                                                 *)

AskAdd(r, a, c, u, role) ==
    /\ req[r] = Idle /\ c \in collection
    /\ RoleOn(c, a) = "OWNER"
    /\ member[u] # None
    /\ share[c][u] = None
    /\ Enter(r, [at |-> "add", coll |-> c, user |-> u, role |-> role])

\* Fails when the share was made meanwhile.
Add(r) ==
    /\ req[r].at = "add"
    /\ share' = IF share[req[r].coll][req[r].user] = None
                THEN [share EXCEPT ![req[r].coll][req[r].user] = req[r].role] ELSE share
    /\ req' = [req EXCEPT ![r] = Idle]
    /\ UNCHANGED <<member, collection, dropped>>

AskSet(r, a, c, u, role) ==
    /\ req[r] = Idle /\ c \in collection
    /\ RoleOn(c, a) = "OWNER"
    /\ share[c][u] \notin {None, role}
    /\ Enter(r, [at |-> "set", coll |-> c, user |-> u, role |-> role])

Set(r) ==
    /\ req[r].at = "set"
    /\ share' = [share EXCEPT ![req[r].coll][req[r].user] = req[r].role]
    /\ req' = [req EXCEPT ![r] = Idle]
    /\ UNCHANGED <<member, collection, dropped>>

AskDrop(r, a, c, u) ==
    /\ req[r] = Idle /\ c \in collection
    /\ RoleOn(c, a) = "OWNER"
    /\ share[c][u] # None
    /\ Enter(r, [at |-> "drop", coll |-> c, user |-> u])

Drop(r) ==
    /\ req[r].at = "drop"
    /\ share' = [share EXCEPT ![req[r].coll][req[r].user] = None]
    /\ EndHolders({q \in Req : /\ req[q].at \in {"set", "drop"}
                             /\ req[q].coll = req[r].coll /\ req[q].user = req[r].user})
    /\ UNCHANGED <<member, collection, dropped>>

Next ==
    \/ \E u \in User : DeleteAccount(u) \/ \E role \in OrgRole : Join(u, role) \/ ChangeRole(u, role)
    \/ \E u \in User, c \in Collection : Delete(u, c)
    \/ \E r \in Req :
        \/ Remove(r) \/ Create(r) \/ Add(r) \/ Set(r) \/ Drop(r)
        \/ \E u \in User : AskRemove(r, u)
        \/ \E u \in User, c \in Collection : AskCreate(r, u, c)
        \/ \E a, u \in User, c \in Collection :
            \/ AskDrop(r, a, c, u)
            \/ \E role \in VaultRole : AskAdd(r, a, c, u, role) \/ AskSet(r, a, c, u, role)

Spec == Init /\ [][Next]_vars

-----------------------------------------------------------------------------
(* Properties.                                                             *)

\* The forms of the access rule agree on every collection that exists, for whoever
\* is neither ADMIN_DEV nor both member and platform admin, and the screen offers
\* no destination that the move refuses.
RulesAgree ==
    \A u \in User, c \in collection :
        /\ FormsAgree(member[u], share[c][u], Admin(u))
        /\ OfferedIsAccepted(member[u], share[c][u], Admin(u))
        /\ \A row \in ProjectRow \cup {NoRow} : ProjectFormsAgree(member[u], row, Admin(u))

\* Whoever is not in the organisation has no share of its collections: what is left
\* would still open them.
OutsidersShareNothing ==
    \A u \in User, c \in Collection : member[u] = None /\ ~Admin(u) => share[c][u] = None

\* What the extension reads, its holder can open (lib/vault-access.ts:115-118).
ReadableIsOpen ==
    \A u \in User, c \in collection :
        Readable(member[u], share[c][u], Admin(u)) => RoleOn(c, u) # None
=============================================================================
