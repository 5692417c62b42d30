----------------------------- MODULE VaultAccess -----------------------------
(***************************************************************************)
(* Who may open a team collection, in each of the forms the code gives the *)
(* rule: lib/vault-access.ts, the copies of it in                          *)
(* lib/vault-entry-handlers.ts, vault/entries/[id]/move and plugin/vault,  *)
(* the listings of an organisation's collections, of the collections the   *)
(* extension reads and of the destinations of a move.  Pure operators.     *)
(*                                                                         *)
(* The arguments are those the code reads: the role in the organisation,   *)
(* the TeamVaultMember row's role (or none), the status of platform admin. *)
(***************************************************************************)
EXTENDS ProjectAccess

VaultRole == ProjectRole

MaxRole(a, b) ==
    IF a = None THEN b ELSE IF b = None \/ Rank[a] >= Rank[b] THEN a ELSE b

HasVaultRole(role, required) == HasProjectRole(role, required)

Manages(orgRole, platformAdmin) == platformAdmin \/ orgRole \in {"OWNER", "ADMIN"}

\* requireOrgCollectionAccess
CollectionRole(orgRole, explicit, platformAdmin) ==
    MaxRole(IF Manages(orgRole, platformAdmin) THEN "OWNER"
            ELSE IF orgRole = "DEV" THEN "EDITOR" ELSE None, explicit)

\* Mutant: the row replaces the role of the organisation instead of adding to it.
TargetRoleByRow(orgRole, explicit, platformAdmin) ==
    IF explicit # None THEN explicit
    ELSE CollectionRole(orgRole, explicit, platformAdmin)

\* The same by hand: the target of a move, of a change of collection, and what the
\* extension writes to.
TargetRole(orgRole, explicit, platformAdmin) ==
    MaxRole(IF Manages(orgRole, platformAdmin) THEN "OWNER"
            ELSE IF HasDevPrivileges(orgRole) THEN "EDITOR" ELSE None, explicit)

\* The listing of an organisation's collections.
ListedRole(orgRole, explicit, platformAdmin) ==
    LET resolved == ResolveOrgRole(orgRole, platformAdmin) IN
    IF resolved \in {"OWNER", "ADMIN"} THEN "OWNER"
    ELSE IF HasDevPrivileges(resolved) THEN MaxRole("EDITOR", explicit)
    ELSE IF resolved = None THEN None ELSE explicit

\* getAccessibleCollectionIds: what the extension reads, of an organisation and of
\* a project.
Readable(orgRole, explicit, platformAdmin) ==
    platformAdmin \/ explicit # None \/ orgRole \in {"DEV", "ADMIN_DEV", "ADMIN", "OWNER"}

ProjectReadable(orgRole, row, platformAdmin) ==
    \/ platformAdmin
    \/ row # NoRow /\ ~row.hidden
    \/ orgRole \in {"DEV", "ADMIN_DEV", "ADMIN", "OWNER"} /\ VisibleWhere(orgRole, row)

\* GET /api/vault/destinations: the collections of the caller's organisations.
Offered(orgRole, explicit, platformAdmin) ==
    /\ orgRole # None
    /\ HasVaultRole(IF Manages(orgRole, platformAdmin) THEN "OWNER" ELSE explicit, "EDITOR")

\* Every collection the screen offers as the destination of a move is one the move
\* accepts.
OfferedIsAccepted(orgRole, explicit, platformAdmin) ==
    Offered(orgRole, explicit, platformAdmin)
    => HasVaultRole(TargetRole(orgRole, explicit, platformAdmin), "EDITOR")

\* Whoever is neither ADMIN_DEV nor both a member and a platform admin is given the
\* same role by every form of the rule: what is listed or read can be opened, what
\* can be opened is listed and read.
FormsAgree(orgRole, explicit, platformAdmin) ==
    /\ orgRole # "ADMIN_DEV"
    /\ platformAdmin => orgRole = None
    => LET role == CollectionRole(orgRole, explicit, platformAdmin) IN
       /\ TargetRole(orgRole, explicit, platformAdmin) = role
       /\ Readable(orgRole, explicit, platformAdmin) <=> role # None
       /\ orgRole # None \/ platformAdmin => ListedRole(orgRole, explicit, platformAdmin) = role

\* The same for the collections of a project, ADMIN_DEV included.
ProjectFormsAgree(orgRole, row, platformAdmin) ==
    (platformAdmin => orgRole = None)
    => (ProjectReadable(orgRole, row, platformAdmin)
        <=> EffectiveRole(orgRole, row, platformAdmin) # None)
=============================================================================
