---------------------------- MODULE ProjectAccess ----------------------------
(***************************************************************************)
(* Who may do what on a project: lib/roles.ts and lib/project-access.ts.   *)
(* Pure operators, one per function of the code.  The six access rules     *)
(* exist there in three forms (one project, a WHERE clause, a filter on    *)
(* loaded rows) and one inverse, the row to write for a desired access.    *)
(***************************************************************************)
EXTENDS Naturals

OrgRole == {"OWNER", "ADMIN", "ADMIN_DEV", "DEV", "MEMBER"}
ProjectRole == {"OWNER", "EDITOR", "VIEWER"}

\* null, for an absent role.
None == "NONE"

\* A ProjectMember row, or none.
ProjectRow == [role: ProjectRole, hidden: BOOLEAN]
NoRow == [role |-> None, hidden |-> FALSE]

\* ORG_ROLE_IGNORES_HIDDEN
IgnoresHidden(orgRole) == orgRole \in {"OWNER", "ADMIN"}

\* Mutant: the role list written by hand, ADMIN_DEV forgotten.
HasDevOnly(orgRole) == orgRole = "DEV"

HasDevPrivileges(orgRole) == orgRole \in {"DEV", "ADMIN_DEV"}

\* ORG_ROLE_IMPLICIT_GRANT
ImplicitGrant(orgRole) ==
    CASE orgRole \in {"OWNER", "ADMIN"}   -> "OWNER"
      [] orgRole \in {"ADMIN_DEV", "DEV"} -> "EDITOR"
      [] OTHER                            -> None

Rank == [VIEWER |-> 1, EDITOR |-> 2, OWNER |-> 3]

\* resolveOrgRole: an explicit membership wins over the platform admin status.
ResolveOrgRole(orgRole, platformAdmin) ==
    IF orgRole # None THEN orgRole
    ELSE IF platformAdmin THEN "OWNER" ELSE None

\* effectiveProjectRole
EffectiveRole(orgRole, row, platformAdmin) ==
    LET resolved == ResolveOrgRole(orgRole, platformAdmin) IN
    IF IgnoresHidden(resolved) THEN ImplicitGrant(resolved)
    ELSE IF row # NoRow THEN (IF row.hidden THEN None ELSE row.role)
    ELSE ImplicitGrant(resolved)

\* hasProjectRole
HasProjectRole(effective, required) ==
    effective # None /\ Rank[effective] >= Rank[required]

\* visibilityClause: a listing keeps the project. The caller has resolved the role.
VisibleWhere(orgRole, row) ==
    \/ IgnoresHidden(orgRole)
    \/ HasDevPrivileges(orgRole) /\ ~(row # NoRow /\ row.hidden)
    \/ ~HasDevPrivileges(orgRole) /\ row # NoRow /\ ~row.hidden

\* filterAccessibleProjects: the row is read as VIEWER, only `hidden` matters.
FilterKeeps(orgRole, row, platformAdmin) ==
    LET seen == IF row = NoRow THEN NoRow ELSE [row EXCEPT !.role = "VIEWER"]
    IN EffectiveRole(orgRole, seen, platformAdmin) # None

Desired == ProjectRole \cup {None}

\* desiredMembershipRow
DesiredRow(orgRole, desired) ==
    IF orgRole = None \/ IgnoresHidden(orgRole) THEN NoRow
    ELSE IF desired = None
         THEN IF ImplicitGrant(orgRole) = None THEN NoRow
              ELSE [role |-> "VIEWER", hidden |-> TRUE]
    ELSE IF desired = ImplicitGrant(orgRole) THEN NoRow
    ELSE [role |-> desired, hidden |-> FALSE]
=============================================================================
