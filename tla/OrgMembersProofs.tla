--------------------------- MODULE OrgMembersProofs ---------------------------
(***************************************************************************)
(* OrgMembers for any number of people, invitations and concurrent         *)
(* requests, and what MCOrgMembers states of requests that come one at a   *)
(* time and of the collections (TeamVault).                                *)
(*                                                                         *)
(* Whose authority makes an OWNER is checked when a request, or an         *)
(* invitation, is begun, and served later: Written and Authorised say what *)
(* is still true of it then.                                               *)
(***************************************************************************)
EXTENDS MCOrgMembers, FiniteSetTheorems, TLAPS

\* An invitation that can still be accepted is of somebody, to somebody, for a role; one
\* for an OWNER was issued, or resent last, by an OWNER.
Written ==
    \A i \in Invite : Open(i) =>
        /\ invite[i].to \in User /\ invite[i].by \in User /\ invite[i].role \in OrgRole
        /\ invite[i].role = "OWNER" => invite[i].as = "OWNER"

\* A request that makes an OWNER was authorised by one, and an acceptance is of the
\* invitation it read, as long as that one is open.
MayServe(q) ==
    /\ q.op \in {"role", "invite"} /\ q.role = "OWNER" => q.as = "OWNER"
    /\ q.op = "accept" =>
         /\ invite[q.invite].state # "FREE"
         /\ Open(q.invite) => invite[q.invite].to = q.user /\ invite[q.invite].role = q.role

Authorised == \A r \in Request : MayServe(req[r])

IInv == TypeOK /\ Written /\ Authorised /\ InvitationsAreCut

LEMMA NoneIsNoRole == None \notin OrgRole /\ None \notin ProjectRole
  BY DEF None, OrgRole, ProjectRole

\* What a request is, by its operation.
LEMMA RequestOf ==
    ASSUME NEW q \in RequestState
    PROVE  /\ q.op = "idle" <=> q = Idle
           /\ q.op = "role" => q \in [op: {"role"}, as: OrgRole, user: User, role: OrgRole]
           /\ q.op = "remove" =>
                q \in [op: {"remove"}, user: User, step: {"leave", "count", "purge"}]
           /\ q.op = "invite" =>
                q \in [op: {"invite"}, by: User, as: OrgRole, user: User, role: OrgRole,
                       inApp: BOOLEAN]
           /\ q.op = "accept" =>
                q \in [op: {"accept"}, invite: Invite, user: User, role: OrgRole,
                       via: {"link", "inApp", "register"}]
           /\ q.op = "delete" => q \in [op: {"delete"}, user: User, by: {"self", "admin"}]
  BY DEF RequestState, Idle

\* A request enters a state, and the others stay where they are.
LEMMA Entered ==
    ASSUME TypeOK, NEW r \in Request, NEW q \in RequestState, req' = [req EXCEPT ![r] = q]
    PROVE  /\ req' \in [Request -> RequestState]
           /\ req'[r] = q
           /\ \A s \in Request \ {r} : req'[s] = req[s]
  BY DEF TypeOK

\* An invitation stays as it is but for its expiry, is resent with the authority it asks
\* for, or is closed.
Carried(i) ==
    /\ invite'[i].state = "FREE" => invite[i].state = "FREE"
    /\ Open(i)' =>
         /\ Open(i)
         /\ invite'[i].to = invite[i].to /\ invite'[i].by = invite[i].by
         /\ invite'[i].role = invite[i].role /\ invite'[i].late = invite[i].late
         /\ invite'[i].role = "OWNER" => invite'[i].as = "OWNER"

\* Whoever leaves has no invitation left open.
Cut == \A u \in User : member'[u] = None =>
         member[u] = None \/ \A i \in Invite : Open(i)' => invite'[i].by # u

LEMMA Same == ASSUME IInv, invite' = invite PROVE \A i \in Invite : Carried(i)
  BY DEF Carried, Open, IInv, Written

\* A step that carries every invitation, lets nobody leave with one and begins only what
\* is authorised keeps the invariant.
LEMMA Keeps ==
    ASSUME IInv, TypeOK', \A i \in Invite : Carried(i), Cut,
           \A r \in Request : \/ req'[r] = req[r]
                              \/ \E q \in RequestState : req'[r] = q /\ MayServe(q)
    PROVE  IInv'
<1>1. Written'
  BY DEF IInv, Written, Carried
<1>2. InvitationsAreCut'
  <2> SUFFICES ASSUME NEW i \in Invite, Open(i)', member'[invite'[i].by] = None,
                      invite'[i].by \notin PlatformAdmin
               PROVE  invite'[i].late
    BY DEF InvitationsAreCut
  <2>1. Open(i) /\ invite'[i].by = invite[i].by /\ invite'[i].late = invite[i].late
    BY DEF Carried
  <2>2. invite[i].by \in User
    BY <2>1 DEF IInv, Written
  <2>3. member[invite[i].by] = None
    BY <2>1, <2>2 DEF Cut
  <2>4. invite[i].late
    BY <2>1, <2>3 DEF IInv, InvitationsAreCut
  <2> QED
    BY <2>1, <2>4
<1>3. ASSUME NEW q \in RequestState, MayServe(q) PROVE MayServe(q)'
  <2>1. q.op = "accept" => q.invite \in Invite
    BY RequestOf
  <2> QED
    BY <1>3, <2>1 DEF MayServe, Carried
<1>4. Authorised'
  <2> SUFFICES ASSUME NEW r \in Request PROVE MayServe(req[r])'
    BY DEF Authorised
  <2>1. PICK q \in RequestState : req'[r] = q /\ MayServe(q)
    BY DEF IInv, TypeOK, Authorised
  <2>2. MayServe(q)'
    BY <1>3, <2>1
  <2> QED
    BY <2>1, <2>2 DEF MayServe
<1> QED
  BY <1>1, <1>2, <1>4 DEF IInv

\* Where members and invitations stay, what is begun is all that counts.
LEMMA Begins ==
    ASSUME IInv, UNCHANGED <<member, invite>>, account' \in [User -> Account],
           vault' \in [User -> Vault], NEW r \in Request, NEW q \in RequestState,
           req' = [req EXCEPT ![r] = q], MayServe(q)
    PROVE  IInv'
<1>1. TypeOK'
  BY Entered DEF IInv, TypeOK
<1>2. \A i \in Invite : Carried(i)
  BY Same
<1>3. Cut
  BY DEF Cut
<1>4. \A s \in Request : req'[s] = req[s] \/ \E p \in RequestState : req'[s] = p /\ MayServe(p)
  BY Entered DEF IInv
<1> QED
  BY <1>1, <1>2, <1>3, <1>4, Keeps

LEMMA IdleServes == Idle \in RequestState /\ MayServe(Idle)
  BY DEF RequestState, Idle, MayServe

\* The steps that begin or end a request and change no row.
LEMMA Asks ==
    ASSUME IInv, NEW r \in Request,
           \/ \E a, u \in User, role \in Role : AskRole(r, a, u, role)
           \/ \E a, u \in User : AskRemoval(r, a, u)
           \/ CountOrphan(r)
           \/ \E a, u \in User, role \in Role, inApp \in BOOLEAN : AskInvite(r, a, u, role, inApp)
           \/ \E i \in Invite, via \in {"link", "inApp", "register"} : AskAccept(r, i, via)
           \/ \E u \in User : AskDeleteNow(r, u)
           \/ \E a, u \in User : AskAdminDelete(r, a, u)
           \/ Fail(r)
    PROVE  IInv'
<1>t. /\ account \in [User -> Account] /\ vault \in [User -> Vault]
      /\ member \in [User -> OrgRole \cup {None}] /\ req[r] \in RequestState
  BY DEF IInv, TypeOK
<1>a. \A a \in User : Manages(a) => ActsAs(a) \in OrgRole
  BY DEF Manages, OrgRole
<1>r. Role \subseteq OrgRole
  BY OrgMembersAssumption
<1>1. ASSUME NEW a \in User, NEW u \in User, NEW role \in Role, AskRole(r, a, u, role)
      PROVE  IInv'
  <2> DEFINE q == [op |-> "role", as |-> ActsAs(a), user |-> u, role |-> role]
  <2>1. /\ Manages(a)
        /\ role = "OWNER" => ActsAs(a) = "OWNER"
        /\ req' = [req EXCEPT ![r] = q] /\ UNCHANGED <<account, vault, member, invite>>
    BY <1>1 DEF AskRole, Begin
  <2>2. q \in RequestState
    BY <2>1, <1>a, <1>r DEF RequestState
  <2>3. MayServe(q)
    BY <2>1 DEF MayServe
  <2> QED
    BY <2>1, <2>2, <2>3, <1>t, Begins
<1>2. ASSUME NEW a \in User, NEW u \in User, AskRemoval(r, a, u) PROVE IInv'
  <2> DEFINE q == [op |-> "remove", user |-> u, step |-> "leave"]
  <2>1. req' = [req EXCEPT ![r] = q] /\ UNCHANGED <<account, vault, member, invite>>
    BY <1>2 DEF AskRemoval, Begin
  <2>2. q \in RequestState /\ MayServe(q)
    BY DEF RequestState, MayServe
  <2> QED
    BY <2>1, <2>2, <1>t, Begins
<1>3. ASSUME CountOrphan(r) PROVE IInv'
  <2>1. /\ UNCHANGED <<account, vault, member, invite>> /\ req[r].op = "remove"
        /\ \/ req' = [req EXCEPT ![r] = [req[r] EXCEPT !.step = "purge"]]
           \/ req' = [req EXCEPT ![r] = Idle]
    BY <1>3 DEF CountOrphan, Done
  <2>2. CASE req' = [req EXCEPT ![r] = [req[r] EXCEPT !.step = "purge"]]
    <3> DEFINE q == [req[r] EXCEPT !.step = "purge"]
    <3>0. req[r] \in [op: {"remove"}, user: User, step: {"leave", "count", "purge"}]
      BY <2>1, <1>t, RequestOf
    <3>1. q \in [op: {"remove"}, user: User, step: {"leave", "count", "purge"}]
      BY <3>0
    <3>2. q \in RequestState /\ MayServe(q)
      BY <3>1 DEF RequestState, MayServe
    <3> QED
      BY <2>1, <2>2, <3>2, <1>t, Begins
  <2> QED
    BY <2>1, <2>2, <1>t, IdleServes, Begins
<1>4. ASSUME NEW a \in User, NEW u \in User, NEW role \in Role, NEW inApp \in BOOLEAN,
             AskInvite(r, a, u, role, inApp)
      PROVE  IInv'
  <2> DEFINE q == [op |-> "invite", by |-> a, as |-> ActsAs(a), user |-> u, role |-> role,
                   inApp |-> inApp]
  <2>1. /\ Manages(a)
        /\ role = "OWNER" => ActsAs(a) = "OWNER"
        /\ req' = [req EXCEPT ![r] = q] /\ UNCHANGED <<account, vault, member, invite>>
    BY <1>4 DEF AskInvite, Begin
  <2>2. q \in RequestState
    BY <2>1, <1>a, <1>r DEF RequestState
  <2>3. MayServe(q)
    BY <2>1 DEF MayServe
  <2> QED
    BY <2>1, <2>2, <2>3, <1>t, Begins
<1>5. ASSUME NEW i \in Invite, NEW via \in {"link", "inApp", "register"}, AskAccept(r, i, via)
      PROVE  IInv'
  <2> DEFINE q == [op |-> "accept", invite |-> i, user |-> invite[i].to,
                   role |-> invite[i].role, via |-> via]
  <2>1. /\ Open(i) /\ invite[i].state = "PENDING"
        /\ req' = [req EXCEPT ![r] = q] /\ UNCHANGED <<account, vault, member, invite>>
    BY <1>5 DEF AskAccept, Begin, Open
  <2>2. invite[i].to \in User /\ invite[i].role \in OrgRole
    BY <2>1 DEF IInv, Written
  <2>3. q \in RequestState /\ MayServe(q)
    BY <2>1, <2>2 DEF RequestState, MayServe
  <2> QED
    BY <2>1, <2>3, <1>t, Begins
<1>6. ASSUME NEW u \in User, NEW by \in {"self", "admin"},
             Begin(r, [op |-> "delete", user |-> u, by |-> by]),
             UNCHANGED <<account, vault, member, invite>>
      PROVE  IInv'
  <2> DEFINE q == [op |-> "delete", user |-> u, by |-> by]
  <2>1. q \in RequestState /\ MayServe(q)
    BY DEF RequestState, MayServe
  <2> QED
    BY <1>6, <2>1, <1>t, Begins DEF Begin
<1>7. ASSUME Fail(r) PROVE IInv'
  BY <1>7, <1>t, IdleServes, Begins DEF Fail, Done
<1> QED
  BY <1>1, <1>2, <1>3, <1>4, <1>5, <1>6, <1>7 DEF AskDeleteNow, AskAdminDelete

\* What is closed is an invitation, and not open.
LEMMA ClosedRow ==
    ASSUME NEW state \in {"GONE", "ACCEPTED"}
    PROVE  Closed(state) \in InviteRow /\ Closed(state).state = state
  BY DEF Closed, NoInvite, InviteRow

\* The steps on invitations that no request makes, and on accounts.
LEMMA Others ==
    ASSUME IInv,
           \/ \E i \in Invite : Expire(i) \/ Decline(i)
           \/ \E a \in User, i \in Invite : Resend(a, i) \/ Cancel(a, i)
           \/ \E u \in User : RequestDeletion(u) \/ CancelDeletion(u) \/ FillVault(u)
    PROVE  IInv'
<1>t. TypeOK /\ \A i \in Invite : invite[i] \in InviteRow
  BY DEF IInv, TypeOK
<1>k. ASSUME TypeOK', \A i \in Invite : Carried(i), UNCHANGED <<member, req>> PROVE IInv'
  <2>1. Cut
    BY <1>k DEF Cut
  <2> QED
    BY <1>k, <2>1, Keeps
<1>o. ASSUME NEW i \in Invite, NEW row \in InviteRow, invite' = [invite EXCEPT ![i] = row],
             UNCHANGED <<account, vault, member, req>>,
             \/ row.state \in {"GONE", "ACCEPTED"}
             \/ /\ Open(i) /\ row.state \in {"PENDING", "EXPIRED"}
                /\ row.to = invite[i].to /\ row.by = invite[i].by /\ row.role = invite[i].role
                /\ row.late = invite[i].late
                /\ row.role = "OWNER" => row.as = "OWNER"
      PROVE  IInv'
  <2>1. TypeOK' /\ invite'[i] = row /\ \A j \in Invite \ {i} : invite'[j] = invite[j]
    BY <1>o, <1>t DEF TypeOK
  <2>2. \A j \in Invite : Carried(j)
    BY <2>1, <1>o DEF Carried, Open, IInv, Written
  <2> QED
    BY <2>1, <2>2, <1>o, <1>k
<1>1. ASSUME NEW i \in Invite, Expire(i) PROVE IInv'
  <2> DEFINE row == [invite[i] EXCEPT !.state = "EXPIRED"]
  <2>1. /\ row \in InviteRow /\ row.state = "EXPIRED" /\ row.to = invite[i].to
        /\ row.by = invite[i].by /\ row.role = invite[i].role /\ row.late = invite[i].late
        /\ row.as = invite[i].as
    BY <1>t DEF InviteRow
  <2>2. Open(i) /\ invite' = [invite EXCEPT ![i] = row] /\ UNCHANGED <<account, vault, member, req>>
    BY <1>1 DEF Expire, Open
  <2>3. invite[i].role = "OWNER" => invite[i].as = "OWNER"
    BY <2>2 DEF IInv, Written
  <2> HIDE DEF row
  <2> QED
    BY <2>1, <2>2, <2>3, <1>o
<1>2. ASSUME NEW a \in User, NEW i \in Invite, Resend(a, i) PROVE IInv'
  <2> DEFINE row == [invite[i] EXCEPT !.state = "PENDING", !.as = ActsAs(a)]
  <2>0. /\ Manages(a) /\ Open(i)
        /\ invite[i].role = "OWNER" => ActsAs(a) = "OWNER"
        /\ invite' = [invite EXCEPT ![i] = row] /\ UNCHANGED <<account, vault, member, req>>
    BY <1>2 DEF Resend
  <2>a. ActsAs(a) \in OrgRole
    BY <2>0 DEF Manages, OrgRole
  <2>1. /\ row \in InviteRow /\ row.state = "PENDING" /\ row.to = invite[i].to
        /\ row.by = invite[i].by /\ row.role = invite[i].role /\ row.late = invite[i].late
        /\ row.as = ActsAs(a)
    BY <1>t, <2>a DEF InviteRow
  <2> HIDE DEF row
  <2> QED
    BY <2>0, <2>1, <1>o
<1>3. ASSUME NEW i \in Invite, invite' = [invite EXCEPT ![i] = Closed("GONE")],
             UNCHANGED <<account, vault, member, req>>
      PROVE  IInv'
  BY <1>3, <1>o, ClosedRow
<1>4. ASSUME NEW u \in User, RequestDeletion(u) \/ CancelDeletion(u) \/ FillVault(u) PROVE IInv'
  <2>1. invite' = invite /\ member' = member /\ req' = req
    BY <1>4 DEF RequestDeletion, CancelDeletion, FillVault
  <2>2. TypeOK'
    BY <1>4, <1>t DEF RequestDeletion, CancelDeletion, FillVault, TypeOK, Account, Vault
  <2> QED
    BY <2>1, <2>2, <1>k, Same
<1> QED
  BY <1>1, <1>2, <1>3, <1>4 DEF Cancel, Decline

LEMMA RoleWritten == ASSUME IInv, NEW r \in Request, WriteRole(r) PROVE IInv'
<1>1. PICK q \in RequestState : q = req[r] /\ MayServe(q)
  BY DEF IInv, TypeOK, Authorised
<1>2. /\ q.op = "role" /\ q.user \in User /\ q.role \in OrgRole
      /\ member' = [member EXCEPT ![q.user] = q.role] /\ req' = [req EXCEPT ![r] = Idle]
      /\ UNCHANGED <<account, vault, invite>>
  BY <1>1, RequestOf DEF WriteRole, Done
<1>3. TypeOK'
  BY <1>2, IdleServes DEF IInv, TypeOK
<1>4. Cut
  BY <1>2, NoneIsNoRole DEF Cut, IInv, TypeOK
<1>5. \A s \in Request : req'[s] = req[s] \/ \E p \in RequestState : req'[s] = p /\ MayServe(p)
  BY <1>2, IdleServes, Entered DEF IInv
<1> QED
  BY <1>2, <1>3, <1>4, <1>5, Same, Keeps

LEMMA RemovalCommits == ASSUME IInv, NEW r \in Request, CommitRemoval(r) PROVE IInv'
<1>1. PICK q \in RequestState : q = req[r]
  BY DEF IInv, TypeOK
<1>2. q \in [op: {"remove"}, user: User, step: {"leave", "count", "purge"}]
  BY <1>1, RequestOf DEF CommitRemoval
<1> DEFINE p == [q EXCEPT !.step = "count"]
<1>3. /\ invite' = [i \in Invite |-> IF Open(i) /\ invite[i].by = q.user THEN Closed("GONE")
                                     ELSE invite[i]]
      /\ member' = [member EXCEPT ![q.user] = None]
      /\ req' = [req EXCEPT ![r] = p] /\ UNCHANGED <<account, vault>>
  BY <1>1 DEF CommitRemoval
<1>4. p \in [op: {"remove"}, user: User, step: {"leave", "count", "purge"}]
  BY <1>2
<1>5. p \in RequestState /\ MayServe(p)
  BY <1>4 DEF RequestState, MayServe
<1> HIDE DEF p
<1>6. TypeOK'
  BY <1>2, <1>3, <1>5, ClosedRow DEF IInv, TypeOK
<1>7. \A i \in Invite : Carried(i)
  BY <1>3, ClosedRow DEF Carried, Open, IInv, Written
<1>8. Cut
  BY <1>2, <1>3, ClosedRow DEF Cut, IInv, TypeOK, Open
<1>9. \A s \in Request : req'[s] = req[s] \/ \E x \in RequestState : req'[s] = x /\ MayServe(x)
  BY <1>3, <1>5, Entered DEF IInv
<1> QED
  BY <1>6, <1>7, <1>8, <1>9, Keeps

\* The deletion of an account, whoever asks for it.
LEMMA Erases ==
    ASSUME IInv, NEW r \in Request, NEW u \in User, Erase(u), vault' \in [User -> Vault], Done(r)
    PROVE  IInv'
<1>1. /\ account' = [account EXCEPT ![u] = "DELETED"]
      /\ member' = [member EXCEPT ![u] = None]
      /\ invite' = [i \in Invite |->
                      IF invite[i].by = u \/ (invite[i].to = u /\ invite[i].inApp)
                      THEN Closed("GONE") ELSE invite[i]]
      /\ req' = [req EXCEPT ![r] = Idle]
  BY DEF Erase, Done
<1>2. TypeOK'
  BY <1>1, IdleServes, ClosedRow DEF IInv, TypeOK, Account
<1>3. \A i \in Invite : Carried(i)
  BY <1>1, ClosedRow DEF Carried, Open, IInv, Written
<1>4. Cut
  BY <1>1, ClosedRow DEF Cut, IInv, TypeOK, Open
<1>5. \A s \in Request : req'[s] = req[s] \/ \E x \in RequestState : req'[s] = x /\ MayServe(x)
  BY <1>1, IdleServes, Entered DEF IInv
<1> QED
  BY <1>2, <1>3, <1>4, <1>5, Keeps

LEMMA AcceptCommits == ASSUME IInv, NEW r \in Request, CommitAccept(r) PROVE IInv'
<1>1. PICK q \in RequestState : q = req[r]
  BY DEF IInv, TypeOK
<1>2. q \in [op: {"accept"}, invite: Invite, user: User, role: OrgRole,
             via: {"link", "inApp", "register"}]
  BY <1>1, RequestOf DEF CommitAccept
<1>3. /\ account' \in {account, [account EXCEPT ![q.user] = "ACTIVE"]}
      /\ invite' = [invite EXCEPT ![q.invite] = Closed("ACCEPTED")]
      /\ req' = [req EXCEPT ![r] = Idle] /\ vault' = vault
      /\ \/ member' = member
         \/ member' = [member EXCEPT ![q.user] = q.role]
  <2>1. \/ member' = [member EXCEPT ![q.user] = @]
        \/ member' = [member EXCEPT ![q.user] = q.role]
    BY <1>1 DEF CommitAccept
  <2>2. [member EXCEPT ![q.user] = @] = member
    BY <1>2 DEF IInv, TypeOK
  <2> QED
    BY <1>1, <2>1, <2>2 DEF CommitAccept, Done
<1>4. TypeOK'
  BY <1>2, <1>3, IdleServes, ClosedRow DEF IInv, TypeOK, Account
<1>5. \A i \in Invite : Carried(i)
  BY <1>2, <1>3, ClosedRow DEF Carried, Open, IInv, Written, TypeOK
<1>6. Cut
  BY <1>2, <1>3, NoneIsNoRole DEF Cut, IInv, TypeOK
<1>7. \A s \in Request : req'[s] = req[s] \/ \E x \in RequestState : req'[s] = x /\ MayServe(x)
  BY <1>3, IdleServes, Entered DEF IInv
<1> QED
  BY <1>4, <1>5, <1>6, <1>7, Keeps

LEMMA InviteCreated ==
    ASSUME IInv, NEW r \in Request, NEW i \in Invite, CreateInvite(r, i)
    PROVE  IInv'
<1>1. PICK q \in RequestState : q = req[r] /\ MayServe(q)
  BY DEF IInv, TypeOK, Authorised
<1>2. q \in [op: {"invite"}, by: User, as: OrgRole, user: User, role: OrgRole, inApp: BOOLEAN]
  BY <1>1, RequestOf DEF CreateInvite
<1> DEFINE row == [state |-> "PENDING", to |-> q.user, by |-> q.by, role |-> q.role,
                   inApp |-> q.inApp, as |-> q.as, late |-> BeingRemoved(q.by)]
<1>3. /\ invite[i].state = "FREE"
      /\ invite' = [invite EXCEPT ![i] = row]
      /\ req' = [req EXCEPT ![r] = Idle] /\ UNCHANGED <<account, vault, member>>
  BY <1>1 DEF CreateInvite, Done
<1>4. row \in InviteRow
  BY <1>2 DEF InviteRow, BeingRemoved
<1>5. /\ row.to \in User /\ row.by \in User /\ row.role \in OrgRole
      /\ row.role = "OWNER" => row.as = "OWNER"
      /\ member[row.by] = None /\ row.by \notin PlatformAdmin => row.late
      /\ row.state = "PENDING"
  BY <1>1, <1>2 DEF MayServe, BeingRemoved
<1> HIDE DEF row
<1>6. TypeOK'
  BY <1>3, <1>4, IdleServes DEF IInv, TypeOK
<1>7. invite'[i] = row /\ \A j \in Invite \ {i} : invite'[j] = invite[j]
  BY <1>3 DEF IInv, TypeOK
<1>8. Written'
  BY <1>5, <1>7 DEF Written, Open, IInv
<1>9. InvitationsAreCut'
  BY <1>3, <1>5, <1>7 DEF InvitationsAreCut, Open, IInv
<1>10. Authorised'
  <2> SUFFICES ASSUME NEW s \in Request PROVE MayServe(req[s])'
    BY DEF Authorised
  <2>1. PICK p \in RequestState : req'[s] = p /\ MayServe(p)
    BY <1>3, IdleServes, Entered DEF IInv, TypeOK, Authorised
  <2>2. p.op = "accept" => p.invite \in Invite /\ p.invite # i
    BY <2>1, <1>3, RequestOf DEF MayServe
  <2> QED
    BY <2>1, <2>2, <1>7 DEF MayServe, Open
<1> QED
  BY <1>6, <1>8, <1>9, <1>10 DEF IInv

LEMMA InitIInv == Init => IInv
<1> SUFFICES ASSUME Init PROVE IInv
  OBVIOUS
<1> USE OrgMembersAssumption DEF Init
<1>1. TypeOK
  BY IdleServes DEF TypeOK, Account, Vault, NoInvite, InviteRow
<1>2. \A i \in Invite : ~Open(i)
  BY DEF Open, NoInvite
<1>3. Authorised
  BY IdleServes DEF Authorised
<1> QED
  BY <1>1, <1>2, <1>3 DEF IInv, Written, InvitationsAreCut

LEMMA StepIInv == IInv /\ [Next]_vars => IInv'
<1> SUFFICES ASSUME IInv, [Next]_vars PROVE IInv'
  OBVIOUS
<1>1. ASSUME NEW r \in Request, RequestStep(r) PROVE IInv'
  <2>1. ASSUME PurgeOrphan(r) \/ CommitDelete(r) PROVE IInv'
    <3>1. PICK q \in RequestState : q = req[r]
      BY DEF IInv, TypeOK
    <3>2. q.user \in User
      BY <2>1, <3>1, RequestOf DEF PurgeOrphan, CommitDelete
    <3>3. Erase(q.user) /\ Done(r) /\ vault' \in [User -> Vault]
      BY <2>1, <3>1 DEF PurgeOrphan, CommitDelete, IInv, TypeOK, Vault
    <3> QED
      BY <3>2, <3>3, Erases
  <2> QED
    BY <1>1, <2>1, Asks, RoleWritten, RemovalCommits, AcceptCommits, InviteCreated
    DEF RequestStep
<1>2. ASSUME UNCHANGED vars PROVE IInv'
  <2>1. UNCHANGED <<account, vault, member, invite, req>>
    BY <1>2 DEF vars
  <2>2. TypeOK' /\ Cut
    BY <2>1 DEF IInv, TypeOK, Cut
  <2> QED
    BY <2>1, <2>2, Same, Keeps
<1> QED
  BY <1>1, <1>2, Others DEF Next

LEMMA Inductive == Spec => []IInv
  BY InitIInv, StepIInv, PTL DEF Spec

\* Members, invitations and requests have their types, for any number of each.
THEOREM TypeCorrect == Spec => []TypeOK
  BY Inductive, PTL DEF IInv

\* However requests overlap, whoever is removed leaves no invitation open but those
\* written while the removal ran, or after it.
THEOREM RemovalCutsInvitations == Spec => []InvitationsAreCut
  BY Inductive, PTL DEF IInv

\* Only an OWNER makes an OWNER, however late what it authorised is served.
THEOREM OwnersMakeOwners == Spec => OwnershipDescends
<1> DEFINE Given(u) ==
        member[u] # "OWNER" /\ member'[u] = "OWNER" =>
         \/ \E r \in Request : req[r].op = "role" /\ req[r].user = u /\ req[r].as = "OWNER"
         \/ \E i \in Invite :
              /\ invite[i].to = u /\ invite[i].role = "OWNER" /\ invite[i].as = "OWNER"
              /\ invite'[i].state = "ACCEPTED"
         \/ \E r \in Request : req[r].op = "accept" /\ req[r].user = u
                               /\ invite[req[r].invite].state = "ACCEPTED"
<1>1. ASSUME IInv, [Next]_vars, NEW u \in User PROVE Given(u)
  <2> SUFFICES ASSUME member[u] # "OWNER", member'[u] = "OWNER" PROVE Given(u)
    OBVIOUS
  <2>t. TypeOK
    BY <1>1 DEF IInv
  <2>1. PICK r \in Request : \/ WriteRole(r) \/ CommitAccept(r) \/ CommitRemoval(r)
                             \/ PurgeOrphan(r) \/ CommitDelete(r)
    <3>1. member' # member
      OBVIOUS
    <3> QED
      BY <1>1, <3>1 DEF Next, RequestStep, vars, AskRole, AskRemoval, CountOrphan, AskInvite,
           CreateInvite, AskAccept, AskDeleteNow, AskAdminDelete, Fail, Expire, Resend, Cancel,
           Decline, RequestDeletion, CancelDeletion, FillVault
  <2>2. PICK q \in RequestState : q = req[r] /\ MayServe(q)
    BY <1>1 DEF IInv, TypeOK, Authorised
  <2>3. CASE WriteRole(r)
    <3>1. q.op = "role" /\ q.user \in User /\ member' = [member EXCEPT ![q.user] = q.role]
      BY <2>2, <2>3, RequestOf DEF WriteRole
    <3>2. q.user = u /\ q.role = "OWNER"
      BY <3>1, <2>t DEF TypeOK
    <3> QED
      BY <2>2, <3>1, <3>2 DEF MayServe
  <2>4. CASE CommitAccept(r)
    <3>1. /\ q.op = "accept" /\ q.user \in User /\ q.invite \in Invite
          /\ invite[q.invite].state # "GONE"
          /\ invite' = [invite EXCEPT ![q.invite] = Closed("ACCEPTED")]
          /\ member' = [member EXCEPT ![q.user] =
                          IF q.via = "inApp" /\ member[q.user] # None THEN member[q.user]
                          ELSE q.role]
      BY <2>2, <2>4, RequestOf DEF CommitAccept
    <3>2. q.user = u /\ q.role = "OWNER"
      BY <3>1, <2>t DEF TypeOK
    <3>3. invite'[q.invite].state = "ACCEPTED"
      BY <3>1, <2>t, ClosedRow DEF TypeOK
    <3>4. CASE Open(q.invite)
      BY <1>1, <2>2, <3>1, <3>2, <3>3, <3>4 DEF MayServe, IInv, Written
    <3>5. CASE ~Open(q.invite)
      <4>1. invite[q.invite] \in InviteRow
        BY <3>1, <2>t DEF TypeOK
      <4>2. invite[q.invite].state = "ACCEPTED"
        BY <2>2, <3>1, <3>5, <4>1 DEF MayServe, InviteRow, Open
      <4> QED
        BY <2>2, <3>1, <3>2, <4>2
    <3> QED
      BY <3>4, <3>5
  <2>5. CASE CommitRemoval(r) \/ PurgeOrphan(r) \/ CommitDelete(r)
    <3>1. q.user \in User /\ member' = [member EXCEPT ![q.user] = None]
      BY <2>2, <2>5, RequestOf DEF CommitRemoval, PurgeOrphan, CommitDelete, Erase
    <3> QED
      BY <3>1, <2>t DEF TypeOK, None
  <2> QED
    BY <2>1, <2>3, <2>4, <2>5
<1>2. IInv /\ [Next]_vars =>
        [\A u \in User : Given(u)]_vars
  BY <1>1
<1> QED
  BY <1>2, Inductive, PTL DEF Spec, OwnershipDescends

-----------------------------------------------------------------------------
(* Requests one at a time.                                                 *)

\* Somebody else is an OWNER.
Another(u) == \E v \in User \ {u} : member[v] = "OWNER"

\* What a role change or a removal counted is still so when it writes.
Counted(q) ==
    /\ q.op = "role" /\ q.role # "OWNER" /\ member[q.user] = "OWNER" => Another(q.user)
    /\ q.op = "remove" /\ member[q.user] = "OWNER" => q.step = "leave" /\ Another(q.user)

CountedInv == serial => OneByOne /\ \A r \in Request : Counted(req[r])

\* An OWNER who is not the only one is not the last.
LEMMA NotTheLast ==
    ASSUME NEW u \in User, member[u] = "OWNER", Cardinality(Owners) > 1
    PROVE  Another(u)
<1> SUFFICES ASSUME ~Another(u) PROVE FALSE
  OBVIOUS
<1>1. Owners = {u}
  BY DEF Owners, Another
<1> QED
  BY <1>1, FS_Singleton

\* The steps that change no member keep the counts.
LEMMA CountStays ==
    ASSUME IInv, Next, member' = member, \A r \in Request : Counted(req[r])
    PROVE  \A r \in Request : Counted(req[r])'
<1>1. ASSUME NEW q, Counted(q) PROVE Counted(q)'
  BY <1>1 DEF Counted, Another
<1>2. ASSUME NEW r \in Request, NEW q, req' = [req EXCEPT ![r] = q], Counted(q)
      PROVE  \A s \in Request : Counted(req[s])'
  <2>1. req'[r] = q /\ \A s \in Request \ {r} : req'[s] = req[s]
    BY <1>2 DEF IInv, TypeOK
  <2>2. Counted(q)'
    BY <1>1, <1>2
  <2>3. ASSUME NEW s \in Request PROVE \E p : req'[s] = p /\ Counted(p)'
    BY <1>1, <2>1, <2>2
  <2> QED
    BY <2>3 DEF Counted
<1>3. ASSUME req' = req PROVE \A s \in Request : Counted(req[s])'
  BY <1>3 DEF Counted, Another
<1>4. ASSUME NEW r \in Request, RequestStep(r) PROVE \A s \in Request : Counted(req[s])'
  <2>i. Counted(Idle)
    BY DEF Counted, Idle
  <2>1. ASSUME NEW a \in User, NEW u \in User, NEW role \in Role, AskRole(r, a, u, role)
        PROVE  \A s \in Request : Counted(req[s])'
    <3> DEFINE q == [op |-> "role", as |-> ActsAs(a), user |-> u, role |-> role]
    <3>1. /\ req' = [req EXCEPT ![r] = q]
          /\ member[u] = "OWNER" /\ role # "OWNER" => Cardinality(Owners) > 1
      BY <2>1 DEF AskRole, Begin
    <3>2. Counted(q)
      BY <3>1, NotTheLast DEF Counted
    <3> QED
      BY <3>1, <3>2, <1>2
  <2>2. ASSUME NEW a \in User, NEW u \in User, AskRemoval(r, a, u)
        PROVE  \A s \in Request : Counted(req[s])'
    <3> DEFINE q == [op |-> "remove", user |-> u, step |-> "leave"]
    <3>1. /\ req' = [req EXCEPT ![r] = q]
          /\ member[u] = "OWNER" => Cardinality(Owners) > 1
      BY <2>2 DEF AskRemoval, Begin
    <3>2. Counted(q)
      BY <3>1, NotTheLast DEF Counted
    <3> QED
      BY <3>1, <3>2, <1>2
  <2>3. ASSUME CountOrphan(r) PROVE \A s \in Request : Counted(req[s])'
    <3> DEFINE q == [req[r] EXCEPT !.step = "purge"]
    <3>0. req[r] \in [op: {"remove"}, user: User, step: {"leave", "count", "purge"}]
      BY <2>3, RequestOf DEF IInv, TypeOK, CountOrphan
    <3>1. \/ req' = [req EXCEPT ![r] = q] /\ member[q.user] = None
          \/ req' = [req EXCEPT ![r] = Idle]
      BY <2>3, <3>0 DEF CountOrphan, Done
    <3>2. q.op = "remove"
      BY <3>0
    <3> HIDE DEF q
    <3>3. member[q.user] = None => Counted(q)
      BY <3>2, NoneIsNoRole DEF Counted, OrgRole
    <3> QED
      BY <3>1, <3>3, <2>i, <1>2
  <2>4. ASSUME NEW q, req' = [req EXCEPT ![r] = q], q.op \notin {"role", "remove"}
        PROVE  \A s \in Request : Counted(req[s])'
    <3>1. Counted(q)
      BY <2>4 DEF Counted
    <3> QED
      BY <2>4, <3>1, <1>2
  <2>5. ASSUME \/ \E a, u \in User, role \in Role, inApp \in BOOLEAN : AskInvite(r, a, u, role, inApp)
               \/ \E i \in Invite, via \in {"link", "inApp", "register"} : AskAccept(r, i, via)
               \/ \E u \in User : AskDeleteNow(r, u)
               \/ \E a, u \in User : AskAdminDelete(r, a, u)
               \/ WriteRole(r) \/ PurgeOrphan(r) \/ CommitAccept(r) \/ CommitDelete(r) \/ Fail(r)
               \/ \E i \in Invite : CreateInvite(r, i)
        PROVE  \E q : req' = [req EXCEPT ![r] = q] /\ q.op \notin {"role", "remove"}
    BY <2>5 DEF AskInvite, AskAccept, AskDeleteNow, AskAdminDelete, WriteRole, PurgeOrphan,
       CommitAccept, CommitDelete, Fail, CreateInvite, Begin, Done, Idle
  <2>6. ~CommitRemoval(r)
    <3> SUFFICES ASSUME CommitRemoval(r) PROVE FALSE
      OBVIOUS
    <3>1. req[r].user \in User /\ member[req[r].user] # None
      BY RequestOf DEF CommitRemoval, IInv, TypeOK
    <3>2. member' = [member EXCEPT ![req[r].user] = None]
      BY DEF CommitRemoval
    <3> QED
      BY <3>1, <3>2 DEF IInv, TypeOK
  <2> QED
    BY <1>4, <2>1, <2>2, <2>3, <2>4, <2>5, <2>6 DEF RequestStep
<1> QED
  BY <1>3, <1>4 DEF Next, Expire, Resend, Cancel, Decline, RequestDeletion, CancelDeletion,
     FillVault

\* The steps that may change a member.
Writes(r) ==
    WriteRole(r) \/ CommitRemoval(r) \/ PurgeOrphan(r) \/ CommitDelete(r) \/ CommitAccept(r)

LEMMA WhoWrites == Next => member' = member \/ \E r \in Request : Writes(r)
  BY DEF Writes, Next, RequestStep, AskRole, AskRemoval, CountOrphan, AskInvite,
     CreateInvite, AskAccept, AskDeleteNow, AskAdminDelete, Fail, Expire, Resend, Cancel,
     Decline, RequestDeletion, CancelDeletion, FillVault

\* A step that writes ends its request, or leaves a removal to count.
LEMMA AfterWrite ==
    ASSUME IInv, NEW r \in Request, Writes(r)
    PROVE  /\ req[r] # Idle
           /\ \A s \in Request \ {r} : req'[s] = req[s]
           /\ \/ req'[r] = Idle
              \/ /\ req'[r].op = "remove" /\ req'[r].user \in User
                 /\ member'[req'[r].user] = None
<1>1. PICK q \in RequestState : q = req[r]
  BY DEF IInv, TypeOK
<1>2. req[r] # Idle
  BY DEF Writes, WriteRole, CommitRemoval, PurgeOrphan, CommitDelete, CommitAccept, Idle
<1>3. CASE req' = [req EXCEPT ![r] = Idle]
  BY <1>2, <1>3 DEF IInv, TypeOK
<1>4. CASE CommitRemoval(r)
  <2> DEFINE p == [q EXCEPT !.step = "count"]
  <2>1. q \in [op: {"remove"}, user: User, step: {"leave", "count", "purge"}]
    BY <1>1, <1>4, RequestOf DEF CommitRemoval
  <2>2. p.op = "remove" /\ p.user = q.user /\ q.user \in User
    BY <2>1
  <2>3. member' = [member EXCEPT ![q.user] = None] /\ req' = [req EXCEPT ![r] = p]
    BY <1>1, <1>4 DEF CommitRemoval
  <2> HIDE DEF p
  <2> QED
    BY <1>2, <2>2, <2>3 DEF IInv, TypeOK
<1> QED
  BY <1>3, <1>4 DEF Writes, WriteRole, PurgeOrphan, CommitDelete, CommitAccept, Done

LEMMA CountedNext ==
    ASSUME IInv, Next, OneByOne, OneByOne', \A r \in Request : Counted(req[r])
    PROVE  \A r \in Request : Counted(req[r])'
<1>1. CASE member' = member
  BY <1>1, CountStays
<1>2. ASSUME NEW r \in Request, Writes(r) PROVE \A s \in Request : Counted(req[s])'
  <2>1. \A s \in Request \ {r} : req'[s] = Idle
    BY <1>2, AfterWrite DEF OneByOne
  <2>2. \A s \in Request : \/ req'[s] = Idle
                           \/ /\ req'[s].op = "remove"
                              /\ member'[req'[s].user] = None
    BY <1>2, <2>1, AfterWrite
  <2> QED
    BY <2>2, NoneIsNoRole DEF Counted, Idle, OrgRole
<1> QED
  BY <1>1, <1>2, WhoWrites

LEMMA InvariantOfMC == MCSpec => []IInv
<1>1. MCInit => IInv
  BY InitIInv DEF MCInit
<1>2. IInv /\ [MCNext]_<<vars, sharing, side, serial>> => IInv'
  BY StepIInv DEF MCNext
<1> QED
  BY <1>1, <1>2, PTL DEF MCSpec

LEMMA CountsHold == MCSpec => []CountedInv
<1>1. MCInit => CountedInv
  BY DEF MCInit, Init, CountedInv, OneByOne, Counted, Idle
<1>2. IInv /\ CountedInv /\ [MCNext]_<<vars, sharing, side, serial>> => CountedInv'
  <2>1. ASSUME IInv, CountedInv, MCNext PROVE CountedInv'
    <3>1. serial' = serial
      BY <2>1 DEF MCNext
    <3>2. (Next /\ (serial => OneByOne')) \/ UNCHANGED vars
      BY <2>1 DEF MCNext
    <3>3. CASE Next /\ (serial => OneByOne')
      BY <2>1, <3>1, <3>3, CountedNext DEF CountedInv
    <3>4. CASE UNCHANGED vars
      BY <2>1, <3>1, <3>4 DEF CountedInv, OneByOne, Counted, Another, vars
    <3> QED
      BY <3>2, <3>3, <3>4
  <2>2. ASSUME CountedInv, UNCHANGED <<vars, sharing, side, serial>> PROVE CountedInv'
    BY <2>2 DEF CountedInv, OneByOne, Counted, Another, vars
  <2> QED
    BY <2>1, <2>2
<1> QED
  BY <1>1, <1>2, InvariantOfMC, PTL DEF MCSpec

\* While requests do not overlap, failing anywhere, no role change and no removal takes
\* the last OWNER away.
THEOREM OwnerStaysWhenSerial == MCSpec => SerialGesturesKeepAnOwner
<1> DEFINE Gesture(r) == req[r].op \in {"role", "remove"} /\ req'[r] # req[r] /\ Owners # {} =>
                           Owners' # {}
<1>1. ASSUME IInv, CountedInv, [Next]_vars, serial, NEW r \in Request PROVE Gesture(r)
  <2> SUFFICES ASSUME req[r].op \in {"role", "remove"}, req'[r] # req[r], NEW v \in User,
                      member[v] = "OWNER"
               PROVE  \E w \in User : member'[w] = "OWNER"
    BY DEF Owners
  <2>1. CASE member' = member
    BY <2>1
  <2>2. ASSUME NEW s \in Request, Writes(s) PROVE \E w \in User : member'[w] = "OWNER"
    <3>1. s = r
      BY <2>2, <1>1, AfterWrite DEF CountedInv, OneByOne, Idle
    <3>2. PICK q \in RequestState : q = req[r]
      BY <1>1 DEF IInv, TypeOK
    <3>3. Counted(q)
      BY <1>1, <3>2 DEF CountedInv
    <3>4. q.user \in User
      BY <3>2, RequestOf
    <3>5. CASE WriteRole(r)
      <4>1. q.op = "role" /\ member' = [member EXCEPT ![q.user] = q.role]
        BY <3>2, <3>5 DEF WriteRole
      <4> QED
        BY <1>1, <3>3, <3>4, <4>1 DEF Counted, Another, IInv, TypeOK
    <3>6. CASE CommitRemoval(r) \/ PurgeOrphan(r)
      <4>1. q.op = "remove" /\ member' = [member EXCEPT ![q.user] = None]
        BY <3>2, <3>6 DEF CommitRemoval, PurgeOrphan, Erase
      <4> QED
        BY <1>1, <3>3, <3>4, <4>1 DEF Counted, Another, IInv, TypeOK
    <3>7. ~CommitDelete(r) /\ ~CommitAccept(r)
      BY DEF CommitDelete, CommitAccept
    <3> QED
      BY <2>2, <3>1, <3>5, <3>6, <3>7 DEF Writes
  <2> QED
    BY <1>1, <2>1, <2>2, WhoWrites DEF vars
<1>2. IInv /\ CountedInv /\ [MCNext]_<<vars, sharing, side, serial>> =>
        [serial => \A r \in Request : Gesture(r)]_<<vars, serial>>
  <2> SUFFICES ASSUME IInv, CountedInv, [MCNext]_<<vars, sharing, side, serial>>, serial,
                      NEW r \in Request
               PROVE  Gesture(r)
    OBVIOUS
  <2>1. [Next]_vars
    BY DEF MCNext
  <2> QED
    BY <1>1, <2>1
<1> QED
  BY <1>2, InvariantOfMC, CountsHold, PTL DEF MCSpec, SerialGesturesKeepAnOwner

-----------------------------------------------------------------------------
(* Collections and their shares (TeamVault).                               *)

\* What the forms of the rule answer is one of finitely many cases.
LEMMA FormsAlwaysAgree ==
    ASSUME NEW o \in T!OrgRole \cup {T!None}, NEW x \in T!VaultRole \cup {T!None}, NEW a \in BOOLEAN
    PROVE  T!FormsAgree(o, x, a) /\ T!OfferedIsAccepted(o, x, a)
<1> USE DEF T!CollectionRole, T!TargetRole, T!ListedRole, T!Readable, T!MaxRole, T!Manages,
        T!HasDevPrivileges, T!ResolveOrgRole, T!OrgRole, T!VaultRole, T!ProjectRole, T!Rank,
        T!None
<1>1. T!FormsAgree(o, x, a)
  BY DEF T!FormsAgree
<1>2. T!OfferedIsAccepted(o, x, a)
  BY DEF T!OfferedIsAccepted, T!Offered, T!HasVaultRole, T!HasProjectRole
<1> QED
  BY <1>1, <1>2

LEMMA ProjectFormsAlwaysAgree ==
    ASSUME NEW o \in T!OrgRole \cup {T!None}, NEW row \in T!ProjectRow \cup {T!NoRow}, NEW a \in BOOLEAN
    PROVE  T!ProjectFormsAgree(o, row, a)
  BY DEF T!ProjectFormsAgree, T!ProjectReadable, T!EffectiveRole, T!VisibleWhere,
     T!IgnoresHidden, T!ImplicitGrant, T!HasDevPrivileges, T!ResolveOrgRole, T!OrgRole,
     T!ProjectRole, T!ProjectRow, T!NoRow, T!None

LEMMA NoneIsNoVaultRole == T!None \notin T!OrgRole /\ T!None \notin T!VaultRole
  BY DEF T!None, T!OrgRole, T!VaultRole, T!ProjectRole

\* What a request on a collection is, by where it is.
LEMMA CallOf ==
    ASSUME NEW q \in T!RequestState
    PROVE  /\ q.at = "idle" <=> q = T!Idle
           /\ q.at = "create" =>
                q \in [at: {"create"}, coll: Collection, user: User, role: T!VaultRole \cup {T!None}]
           /\ q.at \in {"add", "set"} =>
                q \in [at: {"add", "set"}, coll: Collection, user: User, role: T!VaultRole]
           /\ q.at = "drop" => q \in [at: {"drop"}, coll: Collection, user: User]
           /\ q.at = "remove" => q \in [at: {"remove"}, user: User]
  BY DEF T!RequestState, T!Idle

\* A request on a collection enters a state.
LEMMA Called ==
    ASSUME T!TypeOK, NEW r \in Request, NEW q \in T!RequestState, call' = [call EXCEPT ![r] = q]
    PROVE  /\ call' \in [Request -> T!RequestState]
           /\ call'[r] = q /\ \A s \in Request \ {r} : call'[s] = call[s]
  BY DEF T!TypeOK

\* A share is written.
LEMMA Shared ==
    ASSUME T!TypeOK, NEW c \in Collection, NEW u \in User, NEW role \in T!VaultRole \cup {T!None},
           share' = [share EXCEPT ![c][u] = role]
    PROVE  /\ share' \in [Collection -> [User -> T!VaultRole \cup {T!None}]]
           /\ share'[c][u] = role
           /\ \A d \in Collection, v \in User : d # c \/ v # u => share'[d][v] = share[d][v]
  BY DEF T!TypeOK

\* The steps by which a request on a collection begins.
Calls(r) ==
    \/ \E u \in User : T!AskRemove(r, u)
    \/ \E u \in User, c \in Collection : T!AskCreate(r, u, c)
    \/ \E a, u \in User, c \in Collection :
         \/ T!AskDrop(r, a, c, u)
         \/ \E role \in T!VaultRole : T!AskAdd(r, a, c, u, role) \/ T!AskSet(r, a, c, u, role)

\* Whoever is given a share is in the organisation, or administrates the platform.
Insider(q) ==
    (q.at = "create" /\ q.role # T!None) \/ q.at \in {"add", "set"} =>
        roster[q.user] # T!None \/ T!Admin(q.user)

\* What a request begins with; under one of two regimes, somebody of the organisation
\* is given a share.
LEMMA CallBegins ==
    ASSUME T!TypeOK, NEW r \in Request, Calls(r)
    PROVE  \E q \in T!RequestState :
             /\ call' = [call EXCEPT ![r] = q] /\ UNCHANGED <<roster, collection, dropped, share>>
             /\ T!OutsidersShareNothing => Insider(q)
<1>1. ASSUME NEW u \in User, T!AskRemove(r, u)
      PROVE  \E q \in T!RequestState :
               /\ call' = [call EXCEPT ![r] = q] /\ UNCHANGED <<roster, collection, dropped, share>>
               /\ T!OutsidersShareNothing => Insider(q)
  <2> DEFINE q == [at |-> "remove", user |-> u]
  <2>1. q \in T!RequestState /\ Insider(q)
    BY DEF T!RequestState, Insider
  <2> QED
    BY <1>1, <2>1 DEF T!AskRemove, T!Enter
<1>2. ASSUME NEW u \in User, NEW c \in Collection, T!AskCreate(r, u, c)
      PROVE  \E q \in T!RequestState :
               /\ call' = [call EXCEPT ![r] = q] /\ UNCHANGED <<roster, collection, dropped, share>>
               /\ T!OutsidersShareNothing => Insider(q)
  <2> DEFINE given == IF T!ResolveOrgRole(roster[u], T!Admin(u)) \in {"OWNER", "ADMIN"}
                      THEN T!None ELSE "OWNER"
             q == [at |-> "create", coll |-> c, user |-> u, role |-> given]
  <2>1. given \in T!VaultRole \cup {T!None}
    BY DEF T!VaultRole, T!ProjectRole
  <2>2. q \in T!RequestState
    BY <2>1 DEF T!RequestState
  <2>3. roster[u] # T!None \/ T!Admin(u)
    BY <1>2 DEF T!AskCreate, T!MayCreate, T!ResolveOrgRole, T!None
  <2>4. call' = [call EXCEPT ![r] = q] /\ UNCHANGED <<roster, collection, dropped, share>>
    BY <1>2 DEF T!AskCreate, T!Enter
  <2>5. q.user = u
    OBVIOUS
  <2> HIDE DEF q
  <2>6. Insider(q)
    BY <2>3, <2>5 DEF Insider
  <2> QED
    BY <2>2, <2>4, <2>6
<1>3. ASSUME NEW a \in User, NEW u \in User, NEW c \in Collection, T!AskDrop(r, a, c, u)
      PROVE  \E q \in T!RequestState :
               /\ call' = [call EXCEPT ![r] = q] /\ UNCHANGED <<roster, collection, dropped, share>>
               /\ T!OutsidersShareNothing => Insider(q)
  <2> DEFINE q == [at |-> "drop", coll |-> c, user |-> u]
  <2>1. q \in T!RequestState /\ Insider(q)
    BY DEF T!RequestState, Insider
  <2> QED
    BY <1>3, <2>1 DEF T!AskDrop, T!Enter
<1>4. ASSUME NEW a \in User, NEW u \in User, NEW c \in Collection, NEW role \in T!VaultRole,
             NEW at \in {"add", "set"}, T!Enter(r, [at |-> at, coll |-> c, user |-> u, role |-> role]),
             T!OutsidersShareNothing => roster[u] # T!None \/ T!Admin(u)
      PROVE  \E q \in T!RequestState :
               /\ call' = [call EXCEPT ![r] = q] /\ UNCHANGED <<roster, collection, dropped, share>>
               /\ T!OutsidersShareNothing => Insider(q)
  <2> DEFINE q == [at |-> at, coll |-> c, user |-> u, role |-> role]
  <2>1. q \in T!RequestState
    BY DEF T!RequestState
  <2>2. call' = [call EXCEPT ![r] = q] /\ UNCHANGED <<roster, collection, dropped, share>>
    BY <1>4 DEF T!Enter
  <2>3. q.user = u
    OBVIOUS
  <2> HIDE DEF q
  <2>4. T!OutsidersShareNothing => Insider(q)
    BY <1>4, <2>3 DEF Insider
  <2> QED
    BY <2>1, <2>2, <2>4
<1>5. ASSUME NEW a \in User, NEW u \in User, NEW c \in Collection, NEW role \in T!VaultRole,
             T!AskAdd(r, a, c, u, role) \/ T!AskSet(r, a, c, u, role)
      PROVE  \E q \in T!RequestState :
               /\ call' = [call EXCEPT ![r] = q] /\ UNCHANGED <<roster, collection, dropped, share>>
               /\ T!OutsidersShareNothing => Insider(q)
  <2>1. T!OutsidersShareNothing => roster[u] # T!None \/ T!Admin(u)
    BY <1>5 DEF T!AskAdd, T!AskSet, T!OutsidersShareNothing
  <2>2. \/ T!Enter(r, [at |-> "add", coll |-> c, user |-> u, role |-> role])
        \/ T!Enter(r, [at |-> "set", coll |-> c, user |-> u, role |-> role])
    BY <1>5 DEF T!AskAdd, T!AskSet
  <2> QED
    BY <2>1, <2>2, <1>4
<1> QED
  BY <1>1, <1>2, <1>3, <1>5 DEF Calls

\* The deletion of a row ends the requests that hold it, and no other.
LEMMA HoldersEnd ==
    ASSUME T!TypeOK, NEW holders, T!EndHolders(holders)
    PROVE  /\ call' \in [Request -> T!RequestState]
           /\ \A r \in Request : r \in holders => call'[r] = T!Idle
           /\ \A r \in Request : call'[r] = T!Idle \/ call'[r] = call[r]
           /\ \A r \in Request : r \notin holders => call'[r] = call[r]
  BY DEF T!EndHolders, T!TypeOK, T!RequestState

\* Handlers on collections do not overlap.
OneCall == \A q, r \in Request : call[q] # T!Idle /\ call[r] # T!Idle => q = r

\* Outsiders share nothing, and no request in flight is about to share with one.
WellShared ==
    /\ T!OutsidersShareNothing
    /\ \A r \in Request : Insider(call[r])

\* A step keeps the types; with no other handler under way, it keeps outsiders out.
KeptShared == T!TypeOK' /\ (OneCall /\ WellShared => WellShared')

LEMMA CallsKeepShares ==
    ASSUME T!TypeOK, NEW r \in Request, Calls(r)
    PROVE  KeptShared
<1>1. PICK q \in T!RequestState :
        /\ call' = [call EXCEPT ![r] = q] /\ UNCHANGED <<roster, collection, dropped, share>>
        /\ T!OutsidersShareNothing => Insider(q)
  BY CallBegins
<1>2. /\ call' \in [Request -> T!RequestState]
      /\ call'[r] = q /\ \A s \in Request \ {r} : call'[s] = call[s]
  BY <1>1, Called
<1>3. T!TypeOK'
  BY <1>1, <1>2 DEF T!TypeOK
<1>4. ASSUME WellShared PROVE WellShared'
  <2>1. T!OutsidersShareNothing'
    BY <1>1, <1>4 DEF WellShared, T!OutsidersShareNothing
  <2>2. ASSUME NEW s \in Request PROVE Insider(call[s])'
    <3>1. CASE s = r
      BY <1>1, <1>2, <1>4, <3>1 DEF WellShared, Insider
    <3>2. CASE s # r
      <4>1. Insider(call[s]) /\ call'[s] = call[s]
        BY <1>2, <1>4, <3>2 DEF WellShared
      <4> QED
        BY <1>1, <4>1 DEF Insider
    <3> QED
      BY <3>1, <3>2
  <2> QED
    BY <2>1, <2>2 DEF WellShared
<1> QED
  BY <1>3, <1>4 DEF KeptShared

\* Whoever leaves with the account leaves its shares and its requests behind.
LEMMA AccountsTakeTheirShares ==
    ASSUME T!TypeOK, NEW u \in User, T!DeleteAccount(u)
    PROVE  KeptShared
<1> DEFINE holders == {q \in Request : /\ call[q] # T!Idle /\ call[q].user = u
                                      /\ call[q].at = "create" => call[q].role # T!None}
<1>1. /\ share' = [c \in Collection |-> [share[c] EXCEPT ![u] = T!None]]
      /\ roster' = [roster EXCEPT ![u] = T!None]
      /\ T!EndHolders(holders) /\ UNCHANGED <<collection, dropped>>
  BY DEF T!DeleteAccount
<1>2. /\ call' \in [Request -> T!RequestState]
      /\ \A r \in Request : r \notin holders => call'[r] = call[r]
      /\ \A r \in Request : r \in holders => call'[r] = T!Idle
  <2> HIDE DEF holders
  <2> QED
    BY <1>1, HoldersEnd
<1>3. /\ share' \in [Collection -> [User -> T!VaultRole \cup {T!None}]]
      /\ \A c \in Collection, v \in User : share'[c][v] = IF v = u THEN T!None ELSE share[c][v]
  BY <1>1 DEF T!TypeOK
<1>4. /\ roster' \in [User -> T!OrgRole \cup {T!None}]
      /\ \A v \in User : roster'[v] = IF v = u THEN T!None ELSE roster[v]
  BY <1>1 DEF T!TypeOK
<1>5. T!TypeOK'
  BY <1>1, <1>2, <1>3, <1>4 DEF T!TypeOK
<1>6. ASSUME WellShared PROVE WellShared'
  <2>1. T!OutsidersShareNothing'
    <3>1. ASSUME NEW v \in User, NEW c \in Collection, roster'[v] = T!None, ~T!Admin(v)
          PROVE  share'[c][v] = T!None
      BY <1>3, <1>4, <1>6, <3>1 DEF WellShared, T!OutsidersShareNothing
    <3> QED
      BY <3>1 DEF T!OutsidersShareNothing, T!Admin
  <2>2. ASSUME NEW s \in Request PROVE Insider(call[s])'
    <3>1. CASE s \in holders
      BY <1>2, <3>1 DEF Insider, T!Idle
    <3>2. CASE s \notin holders
      <4>1. Insider(call[s]) /\ call'[s] = call[s] /\ call[s] \in T!RequestState
        BY <1>2, <1>6, <3>2 DEF WellShared, T!TypeOK
      <4>2. SUFFICES ASSUME \/ call[s].at = "create" /\ call[s].role # T!None
                            \/ call[s].at \in {"add", "set"}
                     PROVE  roster'[call[s].user] # T!None \/ T!Admin(call[s].user)
        BY <4>1 DEF Insider, T!Admin
      <4>3. call[s].user \in User /\ call[s] # T!Idle
        BY <4>1, <4>2, CallOf DEF T!Idle
      <4>4. call[s].user # u
        BY <4>2, <4>3, <3>2
      <4> QED
        BY <1>4, <4>1, <4>2, <4>3, <4>4 DEF Insider
    <3> QED
      BY <3>1, <3>2
  <2> QED
    BY <2>1, <2>2 DEF WellShared
<1> QED
  BY <1>5, <1>6 DEF KeptShared

\* A role given or changed keeps everybody in.
LEMMA RolesKeepShares ==
    ASSUME T!TypeOK, NEW u \in User, NEW role \in T!OrgRole, T!Join(u, role) \/ T!ChangeRole(u, role)
    PROVE  KeptShared
<1>1. roster' = [roster EXCEPT ![u] = role] /\ UNCHANGED <<collection, dropped, share, call>>
  BY DEF T!Join, T!ChangeRole
<1>2. T!TypeOK'
  BY <1>1 DEF T!TypeOK
<1>3. \A v \in User : roster'[v] = T!None => roster[v] = T!None
  BY <1>1, NoneIsNoVaultRole DEF T!TypeOK
<1>4. ASSUME WellShared PROVE WellShared'
  <2>1. T!OutsidersShareNothing'
    BY <1>1, <1>3, <1>4 DEF WellShared, T!OutsidersShareNothing
  <2>2. ASSUME NEW s \in Request PROVE Insider(call[s])'
    <3>1. Insider(call[s]) /\ call'[s] = call[s] /\ call[s] \in T!RequestState
      BY <1>1, <1>4 DEF WellShared, T!TypeOK
    <3>2. SUFFICES ASSUME \/ call[s].at = "create" /\ call[s].role # T!None
                          \/ call[s].at \in {"add", "set"}
                   PROVE  roster'[call[s].user] # T!None \/ T!Admin(call[s].user)
      BY <3>1 DEF Insider, T!Admin
    <3>3. call[s].user \in User
      BY <3>1, <3>2, CallOf
    <3> QED
      BY <1>3, <3>1, <3>2, <3>3 DEF Insider
  <2> QED
    BY <2>1, <2>2 DEF WellShared
<1> QED
  BY <1>2, <1>4 DEF KeptShared

\* A removal takes the shares with the membership; what is in flight about them, it ends
\* only if it found nothing under way that would share again.
LEMMA RemovalsTakeShares ==
    ASSUME T!TypeOK, NEW r \in Request, T!Remove(r)
    PROVE  KeptShared
<1> DEFINE u == call[r].user
           holders == {q \in Request : call[q].at \in {"set", "drop", "remove"} /\ call[q].user = u}
<1>1. /\ share' = [c \in Collection |-> [share[c] EXCEPT ![u] = T!None]]
      /\ roster' = [roster EXCEPT ![u] = T!None]
      /\ T!EndHolders(holders) /\ UNCHANGED <<collection, dropped>>
      /\ call[r].at = "remove"
  BY DEF T!Remove, T!SharesOut
<1>2. u \in User /\ r \in holders /\ call[r] # T!Idle
  <2>1. call[r] \in T!RequestState
    BY DEF T!TypeOK
  <2> QED
    BY <1>1, <2>1, CallOf DEF T!Idle
<1>3. /\ call' \in [Request -> T!RequestState]
      /\ \A s \in Request : s \in holders => call'[s] = T!Idle
      /\ \A s \in Request : call'[s] = T!Idle \/ call'[s] = call[s]
  <2> HIDE DEF holders
  <2> QED
    BY <1>1, HoldersEnd
<1> HIDE DEF u, holders
<1>4. /\ share' \in [Collection -> [User -> T!VaultRole \cup {T!None}]]
      /\ \A c \in Collection, v \in User : share'[c][v] = IF v = u THEN T!None ELSE share[c][v]
  BY <1>1, <1>2 DEF T!TypeOK
<1>5. /\ roster' \in [User -> T!OrgRole \cup {T!None}]
      /\ \A v \in User : roster'[v] = IF v = u THEN T!None ELSE roster[v]
  BY <1>1, <1>2 DEF T!TypeOK
<1>6. T!TypeOK'
  BY <1>1, <1>3, <1>4, <1>5 DEF T!TypeOK
<1>7. ASSUME OneCall, WellShared PROVE WellShared'
  <2>1. T!OutsidersShareNothing'
    <3>1. ASSUME NEW v \in User, NEW c \in Collection, roster'[v] = T!None, ~T!Admin(v)
          PROVE  share'[c][v] = T!None
      BY <1>4, <1>5, <1>7, <3>1 DEF WellShared, T!OutsidersShareNothing
    <3> QED
      BY <3>1 DEF T!OutsidersShareNothing, T!Admin
  <2>2. ASSUME NEW s \in Request PROVE Insider(call[s])'
    <3>1. call'[s] = T!Idle
      BY <1>2, <1>3, <1>7 DEF OneCall
    <3> QED
      BY <3>1 DEF Insider, T!Idle
  <2> QED
    BY <2>1, <2>2 DEF WellShared
<1> QED
  BY <1>6, <1>7 DEF KeptShared

\* A share is written, or none, and requests end.
LEMMA WritesKeepShares ==
    ASSUME T!TypeOK, NEW c \in Collection, NEW u \in User, NEW role \in T!VaultRole \cup {T!None},
           share' = [share EXCEPT ![c][u] = role] \/ share' = share,
           roster' = roster, collection' \subseteq Collection, dropped' \subseteq Collection,
           call' \in [Request -> T!RequestState],
           \A s \in Request : call'[s] = T!Idle \/ call'[s] = call[s],
           WellShared => role = T!None \/ roster[u] # T!None \/ T!Admin(u)
    PROVE  KeptShared
<1>1. /\ share' \in [Collection -> [User -> T!VaultRole \cup {T!None}]]
      /\ share'[c][u] \in {role, share[c][u]}
      /\ \A d \in Collection, v \in User : d # c \/ v # u => share'[d][v] = share[d][v]
  BY Shared DEF T!TypeOK
<1>2. T!TypeOK'
  BY <1>1 DEF T!TypeOK
<1>3. ASSUME WellShared PROVE WellShared'
  <2>1. T!OutsidersShareNothing'
    <3>1. ASSUME NEW v \in User, NEW d \in Collection, roster'[v] = T!None, ~T!Admin(v)
          PROVE  share'[d][v] = T!None
      <4>1. share[d][v] = T!None
        BY <1>3, <3>1 DEF WellShared, T!OutsidersShareNothing
      <4> QED
        BY <1>1, <1>3, <3>1, <4>1
    <3> QED
      BY <3>1 DEF T!OutsidersShareNothing, T!Admin
  <2>2. ASSUME NEW s \in Request PROVE Insider(call[s])'
    <3>1. CASE call'[s] = T!Idle
      BY <3>1 DEF Insider, T!Idle
    <3>2. CASE call'[s] = call[s]
      <4>1. Insider(call[s])
        BY <1>3 DEF WellShared
      <4> QED
        BY <3>2, <4>1 DEF Insider
    <3> QED
      BY <3>1, <3>2
  <2> QED
    BY <2>1, <2>2 DEF WellShared
<1> QED
  BY <1>2, <1>3 DEF KeptShared

LEMMA ServedCallsKeepShares ==
    ASSUME T!TypeOK, NEW r \in Request, T!Create(r) \/ T!Add(r) \/ T!Set(r) \/ T!Drop(r)
    PROVE  KeptShared
<1> DEFINE q == call[r]
<1>1. q \in T!RequestState
  BY DEF T!TypeOK
<1>2. WellShared => Insider(q)
  BY DEF WellShared
<1>3. collection \subseteq Collection /\ dropped \subseteq Collection
  BY DEF T!TypeOK
<1>4. ASSUME call' = [call EXCEPT ![r] = T!Idle]
      PROVE  /\ call' \in [Request -> T!RequestState]
             /\ \A s \in Request : call'[s] = T!Idle \/ call'[s] = call[s]
  <2>1. T!Idle \in T!RequestState
    BY DEF T!RequestState
  <2> QED
    BY <1>4, <2>1 DEF T!TypeOK
<1>5. CASE T!Create(r)
  <2>1. q.at = "create" /\ q \in [at: {"create"}, coll: Collection, user: User, role: T!VaultRole \cup {T!None}]
    BY <1>1, <1>5, CallOf DEF T!Create
  <2>2. q.coll \in Collection /\ q.user \in User /\ q.role \in T!VaultRole \cup {T!None}
    BY <2>1
  <2>3. /\ share' = [share EXCEPT ![q.coll][q.user] = q.role] /\ roster' = roster
        /\ collection' = collection \cup {q.coll} /\ dropped' = dropped
        /\ call' = [call EXCEPT ![r] = T!Idle]
    BY <1>5 DEF T!Create
  <2>4. WellShared => q.role = T!None \/ roster[q.user] # T!None \/ T!Admin(q.user)
    BY <1>2, <2>1 DEF Insider
  <2>5. collection' \subseteq Collection /\ dropped' \subseteq Collection
    BY <1>3, <2>2, <2>3
  <2> HIDE DEF q
  <2> QED
    BY <1>4, <2>2, <2>3, <2>4, <2>5, WritesKeepShares
<1>6. CASE T!Add(r) \/ T!Set(r)
  <2>1. q.at \in {"add", "set"} /\ q \in [at: {"add", "set"}, coll: Collection, user: User, role: T!VaultRole]
    BY <1>1, <1>6, CallOf DEF T!Add, T!Set
  <2>2. q.coll \in Collection /\ q.user \in User /\ q.role \in T!VaultRole \cup {T!None}
    BY <2>1
  <2>3. /\ share' = [share EXCEPT ![q.coll][q.user] = q.role] \/ share' = share
        /\ roster' = roster /\ collection' = collection /\ dropped' = dropped
        /\ call' = [call EXCEPT ![r] = T!Idle]
    BY <1>6 DEF T!Add, T!Set
  <2>4. WellShared => q.role = T!None \/ roster[q.user] # T!None \/ T!Admin(q.user)
    BY <1>2, <2>1 DEF Insider
  <2> HIDE DEF q
  <2> QED
    BY <1>3, <1>4, <2>2, <2>3, <2>4, WritesKeepShares
<1>7. CASE T!Drop(r)
  <2>1. q.at = "drop" /\ q \in [at: {"drop"}, coll: Collection, user: User]
    BY <1>1, <1>7, CallOf DEF T!Drop
  <2>2. q.coll \in Collection /\ q.user \in User
    BY <2>1
  <2> DEFINE holders == {s \in Request : /\ call[s].at \in {"set", "drop"}
                                         /\ call[s].coll = call[r].coll /\ call[s].user = call[r].user}
  <2>3. /\ share' = [share EXCEPT ![q.coll][q.user] = T!None]
        /\ roster' = roster /\ collection' = collection /\ dropped' = dropped
        /\ T!EndHolders(holders)
    BY <1>7 DEF T!Drop
  <2> HIDE DEF q, holders
  <2>4. /\ call' \in [Request -> T!RequestState]
        /\ \A s \in Request : call'[s] = T!Idle \/ call'[s] = call[s]
    BY <2>3, HoldersEnd
  <2> QED
    BY <1>3, <2>2, <2>3, <2>4, WritesKeepShares
<1> QED
  BY <1>5, <1>6, <1>7

\* The shares of a collection go with it.
LEMMA CollectionsTakeTheirShares ==
    ASSUME T!TypeOK, NEW u \in User, NEW c \in Collection, T!Delete(u, c)
    PROVE  KeptShared
<1> DEFINE holders == {q \in Request : call[q].at \notin {"idle", "remove"} /\ call[q].coll = c}
<1>1. /\ share' = [share EXCEPT ![c] = [v \in User |-> T!None]] /\ roster' = roster
      /\ collection' = collection \ {c} /\ dropped' = dropped \cup {c} /\ T!EndHolders(holders)
  BY DEF T!Delete
<1> HIDE DEF holders
<1>2. /\ call' \in [Request -> T!RequestState]
      /\ \A s \in Request : call'[s] = T!Idle \/ call'[s] = call[s]
  BY <1>1, HoldersEnd
<1>3. /\ share' \in [Collection -> [User -> T!VaultRole \cup {T!None}]]
      /\ \A d \in Collection, v \in User : share'[d][v] \in {T!None, share[d][v]}
  BY <1>1 DEF T!TypeOK
<1>4. T!TypeOK'
  BY <1>1, <1>2, <1>3 DEF T!TypeOK
<1>5. ASSUME WellShared PROVE WellShared'
  <2>1. T!OutsidersShareNothing'
    <3>1. ASSUME NEW v \in User, NEW d \in Collection, roster'[v] = T!None, ~T!Admin(v)
          PROVE  share'[d][v] = T!None
      BY <1>1, <1>3, <1>5, <3>1 DEF WellShared, T!OutsidersShareNothing
    <3> QED
      BY <3>1 DEF T!OutsidersShareNothing, T!Admin
  <2>2. ASSUME NEW s \in Request PROVE Insider(call[s])'
    <3>1. CASE call'[s] = T!Idle
      BY <3>1 DEF Insider, T!Idle
    <3>2. CASE call'[s] = call[s]
      <4>1. Insider(call[s])
        BY <1>5 DEF WellShared
      <4> QED
        BY <1>1, <3>2, <4>1 DEF Insider
    <3> QED
      BY <1>2, <3>1, <3>2
  <2> QED
    BY <2>1, <2>2 DEF WellShared
<1> QED
  BY <1>4, <1>5 DEF KeptShared

LEMMA CollectionStepsKeepShares == ASSUME T!TypeOK, T!Next PROVE KeptShared
<1>1. ASSUME NEW r \in Request, T!Remove(r) \/ T!Create(r) \/ T!Add(r) \/ T!Set(r) \/ T!Drop(r)
      PROVE  KeptShared
  BY <1>1, RemovalsTakeShares, ServedCallsKeepShares
<1>2. ASSUME NEW r \in Request, Calls(r) PROVE KeptShared
  BY <1>2, CallsKeepShares
<1>3. ASSUME NEW u \in User, \/ T!DeleteAccount(u)
                             \/ \E role \in T!OrgRole : T!Join(u, role) \/ T!ChangeRole(u, role)
      PROVE  KeptShared
  BY <1>3, AccountsTakeTheirShares, RolesKeepShares
<1>4. ASSUME NEW u \in User, NEW c \in Collection, T!Delete(u, c) PROVE KeptShared
  BY <1>4, CollectionsTakeTheirShares
<1> QED
  BY <1>1, <1>2, <1>3, <1>4 DEF T!Next, Calls

\* What the regime of one request at a time keeps of collections.
SharesInv == T!TypeOK /\ (serial => OneCall /\ WellShared)

LEMMA SharesStart == MCInit => SharesInv
<1> SUFFICES ASSUME MCInit PROVE SharesInv
  OBVIOUS
<1>1. T!Init
  BY DEF MCInit
<1>2. T!TypeOK
  BY <1>1 DEF T!Init, T!TypeOK, T!RequestState
<1>3. OneCall
  BY <1>1 DEF T!Init, OneCall
<1>4. WellShared
  <2>1. T!OutsidersShareNothing
    BY <1>1 DEF T!Init, T!OutsidersShareNothing, T!TypeOK
  <2>2. ASSUME NEW r \in Request PROVE Insider(call[r])
    BY <1>1 DEF T!Init, Insider, T!Idle
  <2> QED
    BY <2>1, <2>2 DEF WellShared
<1> QED
  BY <1>2, <1>3, <1>4 DEF SharesInv

LEMMA SharesStay ==
    ASSUME SharesInv, UNCHANGED <<sharing, serial>>
    PROVE  SharesInv'
<1>1. T!TypeOK'
  BY DEF SharesInv, sharing, T!TypeOK
<1>2. OneCall => OneCall'
  BY DEF sharing, OneCall
<1>3. WellShared => WellShared'
  BY DEF sharing, WellShared, T!OutsidersShareNothing, Insider, T!Admin
<1> QED
  BY <1>1, <1>2, <1>3 DEF SharesInv

LEMMA SharesAlways == MCSpec => []SharesInv
<1>1. ASSUME SharesInv, [MCNext]_<<vars, sharing, side, serial>>
      PROVE  SharesInv'
  <2>1. CASE side = "collections" /\ T!Next /\ (serial => Alone) /\ UNCHANGED vars /\ serial' = serial
    <3>1. T!TypeOK' /\ (OneCall /\ WellShared => WellShared')
      BY <1>1, <2>1, CollectionStepsKeepShares DEF SharesInv, KeptShared
    <3>2. Alone => OneCall'
      BY DEF Alone, OneCall
    <3> QED
      BY <1>1, <2>1, <3>1, <3>2 DEF SharesInv
  <2>2. CASE UNCHANGED <<sharing, serial>>
    BY <1>1, <2>2, SharesStay
  <2> QED
    BY <1>1, <2>1, <2>2 DEF MCNext
<1> QED
  BY <1>1, SharesStart, PTL DEF MCSpec

\* Whatever the roles, the shares and the rows, the forms of the rule that opens a
\* collection or a project agree (lib/vault-access.ts).
THEOREM RulesAlwaysAgree == MCSpec => []RulesAgree
<1>1. ASSUME T!TypeOK PROVE RulesAgree
  <2>1. ASSUME NEW u \in User, NEW c \in collection
        PROVE  /\ T!FormsAgree(roster[u], share[c][u], T!Admin(u))
               /\ T!OfferedIsAccepted(roster[u], share[c][u], T!Admin(u))
    <3>1. /\ roster[u] \in T!OrgRole \cup {T!None} /\ share[c][u] \in T!VaultRole \cup {T!None}
          /\ T!Admin(u) \in BOOLEAN
      BY <1>1 DEF T!TypeOK, T!Admin
    <3> QED
      BY <3>1, FormsAlwaysAgree
  <2>2. ASSUME NEW u \in User, NEW row \in T!ProjectRow \cup {T!NoRow}
        PROVE  T!ProjectFormsAgree(roster[u], row, T!Admin(u))
    <3>1. roster[u] \in T!OrgRole \cup {T!None} /\ T!Admin(u) \in BOOLEAN
      BY <1>1 DEF T!TypeOK, T!Admin
    <3> QED
      BY <3>1, ProjectFormsAlwaysAgree
  <2> QED
    BY <2>1, <2>2 DEF RulesAgree, T!RulesAgree
<1> QED
  BY <1>1, SharesAlways, PTL DEF SharesInv

\* While requests do not overlap, whoever leaves the organisation keeps no share of its
\* collections (the removal's transaction, app/api/orgs/[slug]/members/[userId]).
THEOREM LeaversShareNothing == MCSpec => []SerialLeaversShareNothing
<1>1. SharesInv => SerialLeaversShareNothing
  BY DEF SharesInv, WellShared, SerialLeaversShareNothing
<1> QED
  BY <1>1, SharesAlways, PTL

=============================================================================
