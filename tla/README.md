# Physalis in TLA+

Physalis is a self-hosted manager of secrets: a Next.js application over one
PostgreSQL database, used by people (a web interface, a command line, a browser
extension) and by machines (pipelines, agents, tokens).  It stores the secrets of
projects and of organisations, personal and team vaults, and shares or asks for
secrets once; it pushes secrets to hosting platforms and serves them to pipelines.

This directory holds TLA+ models of its server code (`lib`, the handlers under
`app/api`, the server actions of `app/[locale]`, one operator script), the TLC
configurations that check them on small instances, and theorems about them that the
TLA+ proof system checks for every value of the constants.  Paths are relative to the
root of the repository; `PROJECT.json` writes that root `src/`, and `api/` below is
`app/api/`.  In the tables a path may be cut to its end.

    tlc -workers 2 -config DeviceLogin.cfg MCDeviceLogin.tla    # a run
    tlapm OneTimeProofs.tla                                     # a proof

`PROJECT.json` lists the components, the runs, what each definition translates
(file and lines), the hazards of the code with the properties that watch them, and
the theorems.

## What makes this code hard

Every handler has the same shape: it reads rows, checks them, awaits (bcrypt, a mail,
a platform, another query), then writes, most often *by id*.  Between its read and
its write any other handler runs.  What protects a state is one of four things, and
the models keep them apart:

* a **conditional update** whose count is looked at (`updateMany ... where status =
  'APPROVED'`, `consumedAt: null`): device authorizations, shares, submissions, TOTP
  steps, releases;
* a **transaction** whose last statement may fail, so that all of it goes: versions of
  a secret, moves of vault entries, removals;
* an **advisory lock** (`lib/versioning.ts`), the only one of the code;
* **nothing**: what was read is believed.  Then what the handler promises is true while
  requests do not overlap, and the models say so (below, *Regimes*) or refute the promise
  (below, *Formulas TLC refutes*).

A process stops between any two steps of the models; what was committed stays.  The
steps are cut at the awaits another request can tell apart; what is fused all the same is
said under *Module by module*.  Nothing repairs a stop afterwards: this edition has no
scheduled job.

## Inventory

| component | state | operations | what must hold |
|---|---|---|---|
| **CLI device login** (`lib/cli-session.ts`, `api/cli/`) | `CliDeviceAuthorization`, `CliSession` | start, lookup, approve, deny, poll, revoke, use | one session for each approval, for the user who approved |
| **Access rules of projects** (`lib/project-access.ts`, `lib/roles.ts`) | none (functions) | a check by project, a Prisma `where`, a filter in memory | the three forms agree |
| **Membership of projects and the tokens members issue** (`api/tokens`, `api/orgs/[slug]/org-tokens`, `api/projects`, `api/orgs/[slug]/members`) | `ProjectMember`, `MachineToken`, `OrgToken` | create, edit, hide, bulk rights, remove, delete a project or account | whoever loses access loses rows and tokens |
| **Members and invitations** (`api/orgs/[slug]/members`, `invitations`, account deletion) | `OrgMember`, `Invitation`, the personal vault an orphan purge looks at | role, invite, resend, accept, remove, purge, delete | ownership descends from owners; no last OWNER taken; leavers' invitations die |
| **Team collections** (`lib/vault-access.ts`, `api/vault/org`) | `TeamVault`, `TeamVaultMember` | create, share, change, withdraw, delete; departure of a member | all copies of the rule agree; leavers share nothing |
| **Vault entries** (`api/vault/entries`, `lib/vault-entry-*.ts`, `api/plugin/vault`) | `VaultEntry`, `TeamVaultEntry`, SSH keys in the same table | create, edit, convert, rotate, move, delete, import, the extension's writes | an entry is in one place, keeps its contents, and keys stay keys |
| **Secrets and versions** (`lib/versioning.ts`, `api/projects/[slug]/[env]/secrets`) | `Secret`, `SecretVersion` | post, patch, import, roll back, delete | numbers unique, history true and gapless, replaced values kept |
| **Outbound synchronisation** (`lib/sync`) | `SyncTarget`, the platform's variables | started by each change of a secret, never waited for | a "success" is true; a variable entered by hand is spared |
| **Rotation of the encryption key** (`lib/crypto.ts`, `scripts/rekey-encryption.mjs`) | every encrypted triplet, two environment variables | the operator's procedure | everything opens, nothing changes |
| **One-time shares** (`api/share`) | `OneTimeShare` | create, read behind a password, revoke, consume | handed out once, exact attempts, erased |
| **Secret requests** (`api/secret-requests`, `api/public`) | `SecretRequest` | create, submit, reveal, import, revoke | one ciphertext, erased once over, imported means written |
| **Authentication** (`lib/auth.ts`, `lib/totp.ts`, `api/me/2fa`, `reset-password`) | the account's password, second factor, backup codes, bound on sessions; `PluginToken`, `PasswordResetToken` | log in, enrol, disable, reset | a code opens once; a reset evicts |
| **Register of deployments** (`lib/deployment*.ts`, `api/deploy`) | `Deployment`, the project's guide | serve, report, settle from the platform, purge | every bundle counted, the guide earned |
| **Register of mobile releases** (`lib/mobile-*.ts`, `api/deploy/mobile`) | `MobileRelease`, the build counter, the store | serve, report, sync, store actions | numbers grow, rows tell the truth |

They meet in few places, and the models contain those: the removal of a member reaches
projects' tokens (OrgAccess), invitations (OrgMembers) and shares of collections
(TeamVault); an import of a secret request writes a secret without a version
(`ImportReceived` in SecretVersions, the import in SecretRequest); a change of a secret
starts a synchronisation (OutboundSync); a password reset cuts web sessions
(AccountAuth) and CLI sessions (the validity bound in DeviceLogin); a version is a copy
of a secret's triplet (KeyRotation); a vault entry moves from a table to another
(VaultEntries), by the rule of VaultAccess.

Components that are not modelled are at the end, with the reason.

## Modules

| module | models | variables and what they are |
|---|---|---|
| `DeviceGrant` | abstract: what a device grant promises | `phase`, `holder`, `minted` of each authorization |
| `DeviceLogin` | the flow of the CLI | `device`, `session` (rows), `account` (deleted or not, bound on sessions), `poll` (transactions in flight), `now` |
| `ProjectAccess` | the six access rules in their three forms, the role a form asks for and the row that gives it | none |
| `OrgAccess` | rows and tokens of members, and the gestures that withdraw access | `account`, `member`, `project`, `dropped`, `row`, `machine`, `orgToken`, `req` |
| `OrgMembers` | who belongs, with which role, on whose authority | `account`, `vault`, `member`, `invite`, `req` |
| `VaultAccess` | who may open, list, edit and be offered a collection: the rule of `lib/vault-access.ts` and its hand-made copies | none |
| `TeamVault` | collections and their shares | `member`, `collection`, `dropped`, `share`, `req` |
| `VaultCustody` | abstract: where an item may go | `where` |
| `VaultEntries` | entries, their forms, conversions and moves | `row`, `open` (collections that exist), `req` |
| `SecretVersions` | secrets of an environment and their history | `secret`, `history`, `req`, and the ghost `held`: the values each secret had |
| `OutboundSync` | targets, synchronisations, three platforms | `secret`, `target`, `remote`, `sync` |
| `KeyRotation` | the rotation of `ENCRYPTION_KEY` | `row` (triplets), `env` (keys deployed), `up`, `req`, `script`, `clean` |
| `Handover` | abstract: a one-time hand-over | `phase`, `taker` |
| `OneTimeShare` | one-time shares | `share`, `req`, and the ghosts `tried`, `failed`, `lost`, `taker`, `handed` |
| `SecretRequest` | secrets asked of third parties | `ask`, `project`, `collection`, `req`, and the ghosts `landed`, `shown` |
| `AccountAuth` | one account: password, second factor, sessions, reset | `now`, `account`, `session`, `resetToken`, `req`, `secrets`, `batches` (ids given), and the ghosts `uses`, `burns`, `verified`, `stale` |
| `Deployments` | the register of server deployments | `row`, `made`, `setup`, `req`, and the ghosts `served`, `success`, `missed` |
| `MobileReleases` | the register of mobile releases of an application | `counter`, `paused`, `material`, `row`, `made`, `store`, `req`, and the ghosts `served`, `fresh` |
| `Deliveries` | the two registers side by side | both |

A request in flight is a record in `req[r]` (in `poll` for a poll, in `sync` for a
synchronisation) that holds what its handler has read; `Ask...` is the first read of a
handler with its checks, and the later actions are its awaits.  A ghost remembers
something for a property and guards nothing.  Each `MC` module gives a model its small
instance: sets of model values, symmetry, regimes.

### Regimes and sides

Where a promise holds only while requests do not overlap, the `MC` module chooses
at the start between requests one at a time (`serial`) and requests together.  A
property named `Serial...` speaks of the first; every other property of the run speaks
of both.  In the serial regime a request still stops anywhere, unless said
otherwise.  `MCOrgAccess` (the overlapping regime is bounded by `Crowd`: one project or
one token less), `MCOrgMembers`, `MCSecretRequest`, `MCAccountAuth` and `MCVaultEntries`
have regimes.  In `MCOrgAccess` a request that failed is over (`UnderWay`): only its trace is
left, and others follow it.  In `MCAccountAuth` the serial regime also asks for a tick of the clock
between a session's signature and a reset (the comparison of dates is strict and
dates are in milliseconds: a session signed in the very millisecond survives) and
lets no reset stop once it has changed the password.

The regimes also bound what they explore, by name in the `MC` modules: with overlap, the
account is reset by no link and has one session (`Overlapped`; the resets are in the serial
regime, and the theorems have no such bound), and synchronisations push untagged secrets to
the production of Vercel (`Narrow`); one at a time they go to every platform, neither stop nor
are forgotten, one secret at most has the tag and only previews filter on it (`Serial`), and no
two environments push to one project (`Unshared`; the run has one environment, and
`shared_project` shows what sharing does).  `MCDelivery` explores the numbers without
reports (`Serving`), and the rows with one number (`OneNumber`).

Models that share no state are run side by side, `side` choosing one of them at the
start: members and collections (`MCOrgMembers`), what an environment receives and what
it pushes (`MCSecretRequest`), the account and the keys (`MCAccountAuth`), the
deployments, the build numbers and the rows of releases (`MCDelivery`).  A behaviour
stays on one side; the state space is the sum and not the product.

## Module by module

**DeviceLogin.**  `Start`, `Approve`, `Deny`, `Lookup`, `BeginPoll` then one of the ends of
a poll, `Use`, the revocation of a session, a password reset and the deletion of an account.
A poll is a READ COMMITTED transaction cut in two: what it read, then what it writes,
so that other polls, decisions and resets come in between; it ends by a conditional
update whose count decides who creates the session.  Time is a number, the lifetimes
and intervals are small numbers.  Codes and hashes are identities.

**ProjectAccess, OrgAccess.**  The rules are translated three times, as in
`lib/project-access.ts`.  The handlers of rows and tokens are split at their awaits:
the removal of a member reads the list of projects, then runs its transaction; hiding is
three writes without one.  Managers are an OWNER who stays, so that the questions are about
those whose access is withdrawn; a role change, a joining and the edition of a token, which
only widen or narrow in one statement, are single steps.  A platform admin who creates a
project without being a member, and so gets a `ProjectMember` row, is left out.
Revoked stands for deleted.

**OrgMembers.**  Role changes, invitations and their resending, their two acceptances
(a member already, a new account), removals with the orphan purge, and the deletion of an
account by itself or by a platform admin.  The id of a membership is not kept: a row deleted
and made again between a read and a write is taken for the same row.

**VaultAccess, TeamVault.**  `VaultAccess` translates `lib/vault-access.ts` and every
place that repeats its rule (lists, extension, destinations of a move, Prisma filters).
`TeamVault` has the collections, the shares, and what a departure withdraws.  Deleting a row
ends the requests that hold it: what they write by id fails, and a row made again has another
id.  Who may remove a member of the organisation is OrgMembers's question.

**VaultCustody, VaultEntries.**  An entry has a form and the columns that its handlers write:
extras, password, history of passwords, encrypted blob.  A request reads the row, computes
from it the columns to write (`Converted`, `Patched`, `Rotated`...), and writes them by id.
A move creates the copy and deletes the source in one transaction.  `itemCount` is derived
from the blob.  Names, tags, favourites, folders, strength scores, reminder dates and
the refusals of long values are left out: they change no other column.  Ids are not used
again; a moved row takes an id of `MovedId`.

**SecretVersions.**  A request is a set of jobs (an import has several) that go one by
one through the lock, `MAX + 1`, and the commit, where the snapshot, the pruning and the
write become visible together.  A value stands for its ciphertext, iv and tag.  An
upsert is atomic (`ON CONFLICT`).  An id is used again only when nothing refers to it any
more.  `Room` bounds the numbers.

**OutboundSync.**  The handlers that change a secret or a target start a synchronisation and
do not wait; it reads targets, reads secrets, then calls each platform in turn, one call a
step, and any call may fail, applied or not.  Vercel (`Marked` projects) is upserted, listed
and pruned one variable at a time by its mark; Render and Railway (`Whole` services) are
replaced.  Persons enter and remove variables on the platforms, but remove none that is
managed.  A target has one place, filters on one tag, and there is one connection for each
kind of platform; the deletion of a connection or of an environment is that of its
targets; a failure of the database is a stop; the order of `findMany` is free.

**KeyRotation.**  A triplet is a key number and a plaintext.  The operator deploys a new key
with the old one beside it, runs the script (dry or not, `--include-public` or not,
batches, stops), and drops the old key after a dry run that found nothing.  The application may
run meanwhile; `Window` says it does not.  One secret and its versions, between which triplets
are copied as they are, stand for the registry of tables; all are in the schema
`public`, where this edition keeps them.

**Handover, OneTimeShare.**  A reader's request reads the row, counts its attempt, compares (an
await of some 250 ms, without the row), revokes by id or consumes by a conditional update, and
answers: each is a step, between which it may stop and others count, compare and close.  An
attempt counted whose request stops before comparing is `lost`.  The creator revokes by id
meanwhile.  `seen` of a request is the attempts it read, then what its increment returned;
`revoked` carries who set it last.

**SecretRequest.**  The third party submits by a conditional update; members reveal, import
(into an environment or into a collection of the project's vault, created if it is
missing) and revoke.  Callers are authorised, with OrgAccess's rule, and the imported value
comes from the caller's browser, which decrypted it.

**AccountAuth.**  One account.  A login reads the row, compares the password, consumes a time
step by a conditional update or removes a backup code by a relative one, and signs a JWT or
creates a plugin token.  Enrolment, confirmation, disabling and the reset read, await and
write.  A session carries as a ghost the password it proved.  The clock is coarse, `Period`
ticks for a TOTP step; 0 stands for null.  The password given is the right one at the read.

**Deployments, MobileReleases, Deliveries.**  `POST /api/deploy` serves a bundle and creates or
joins the row of its run; reports and readings of the platform close it; old rows are purged.
A mobile deployment reads the store, takes a number by an atomic increment, then serves and
opens a row.  The store moves by itself.  One environment, one Android application; ids of rows
follow the order of creation; two consecutive reads of a handler that nothing else can tell
apart are one step.

## Runs

Ten runs pass.  Each explores every reachable state of its instance; together they take
every action.  Times are between half a minute and four minutes with two workers.

| run | instance | what it shows |
|---|---|---|
| `device_login` | 2 users, 1 authorization, 2 session ids, 2 polls at once | `OneSessionPerAuthorization`, `SessionFollowsApproval`: overlapping polls mint one session, for the approver, with the kind and scope approved.  `ImplementsDeviceGrant`: the flow refines `DeviceGrant` |
| `org_access` | 1 member, 2 projects, 1 machine token, 2 organisation tokens, 2 requests | `FormsAgree`: the three forms of the rules agree whatever the history.  `CascadeIsComplete`: a token that survives a removal was written while it ran or after.  `SerialRuleSix`, `SerialRemoval`, `SerialHide`: one request at a time, stopping anywhere, no row without membership, no machine token beyond a removal or a hiding |
| `org_members` | 2 users, 1 invitation, 2 requests; 1 collection | `OwnershipDescends`, `InvitationsAreCut`, `SerialGesturesKeepAnOwner`; on collections, `RulesAgree` and `SerialLeaversShareNothing` |
| `secret_versions` | 2 writers, 2 names, 2 ids, 2 values, numbers to 3, retention 1 | `NumberStaysFree`: what the lock is for.  `HistoryIsTrue`: through renames and re-creations a version is a value of its own secret.  Deadlock is checked |
| `secret_versions_end` | 2 writers, 1 name, numbers to 3, retention 2, with imports and rollbacks, and fairness | `HistoryIsAWindow` (at most two versions, and none missing between them), `ReplacedIsKept`, and `RequestsEnd`: no wait on the lock is for ever.  Deadlock is checked |
| `one_time_share` | 1 share, 4 requests, 2 attempts allowed | `GateIsExact`: two comparisons at most, and no closing by the gate before two attempts are admitted, that is compared, about to be, or lost with their request.  `ClosedIsErased`; `ImplementsHandover`: delivered once at most |
| `secret_request` | 1 request for a secret, 3 callers, 2 ciphertexts; 2 synchronisations, 2 keys, 2 places, 1 Vercel project, 1 service | `OverIsErased`, `OneCiphertext`, `ImportedIsWritten`, `SerialImportedOnce`; on the pushes, `HandMadeIsSpared` (overlapping, failing) and `SerialSuccessIsHonest` |
| `account_auth` | 2 requests, 2 reset links, TOTP steps of 2 ticks, 2 backup codes a batch; for the keys 1 writer, 3 versions, batches of 2, 3 keys | `CodeOpensOnce`, `BurntStaysBurnt`, `SerialResetEvicts`, `SerialOldLinksAreDead`; `WindowKeepsAll` for the rotation done in a window with `--include-public` |
| `vault_entries` | 2 requests, 1 item and its moved copies, 2 collections | `KeysStayWhole`, `ImplementsCustody`; `SerialClean`, `SerialContents` on a personal vault |
| `deliveries` | 2 requests, 2 runs, 3 rows, retention 1; 2 materials, numbers and rows to 2 | `SetupIsEarned`, `EveryServiceIsCounted`, `RowsTellTheirMaterial`, `NumbersGrow` |

Two runs refute a promise of the repository:

| run | the promise | what the run shows |
|---|---|---|
| `shared_project` | each environment is pushed "pour garder Physalis comme source de vérité" (docs/physalis.md:474-475), towards its targets | two environments on one Vercel project, one to production, one to preview: the pruning of the second deletes what the first wrote (`lib/sync/vercel.ts:134` ignores the place), and both targets say success |
| `key_procedure` | the script "re-chiffre toutes les colonnes" (docs/security.md:45-46), by the procedure of its header | without `--include-public`, which the header's commands do not give, it skips the schema this edition lives in, counts 0 pending, and the operator is told to drop the key everything is under |

### Why the bounds are enough

Interference in this code is between a read and a write by id, so two overlapping requests show
it; three or four are used where a third could matter (readers of a share with its
creator, members of a secret request).  Roles and wishes are the ones the code tells apart
for the question at hand: ADMIN_DEV, which both manages and develops, and MEMBER, with OWNER added
by the managers, in `org_access`; OWNER and ADMIN, between which ownership is disputed, in
`org_members`.  Counters stop where the interesting threshold has been passed once: the
retention of versions (1, and 2 where the window is checked: one version cannot have a gap) is
exceeded within numbers to 3, the attempts (2) by a fourth
count, the retention of deployments by a third row, two rotations need three keys and a
second batch needs a third row.  Ids are model values under symmetry, which no liveness run
uses.  The theorems below have no bound on requests, rows or ids; what is left to the bounds is
said under *Model-checked only*.

### Fairness

Only `SecretVersionsEnd` states fairness, in `FairSpec`: weak fairness of the steps of a
request in flight that nothing holds back (Node runs the continuation of an await), and strong
fairness of taking the lock (PostgreSQL serves the waiters of an advisory lock in turn, and a
transaction that ends, fails or loses its connection releases it).  `RequestsEnd` fails without
the second: a lock released infinitely often could always go to the other.  Nothing else of
this code promises that something happens: synchronisations are not retried, no scheduled job
exists, pipelines may never report.

## Theorems

Eight modules hold the proofs: `OneTimeProofs` (device login, one-time shares),
`OrgAccessProofs`, `OrgMembersProofs` (with the collections), `SecretVersionsProofs`,
`SecretRequestProofs` (with the pushes to platforms), `AccountAuthProofs` (with the rotation of
the key), `VaultEntriesProofs` and `DeliveriesProofs`.  `PROJECT.json` lists their 52 results
and what each establishes.  They hold for any sets of requests, rows and ids and any bounds,
under the assumptions each module names: a null or a mark is not an element of the set it
completes, a project of Vercel is not a service, numbers are natural, `Req` is finite where
its members are counted (versions, deployments, and `Request` for shares), a share allows one attempt at least, a secret
keeps one version at least, the script reads one row at least.  TLC evaluates these
assumptions on every run.

A theorem `THEOREM ... == MCSpec => []Serial...` is about the regime described above, and not
about the small instance: the regime is a condition on steps, the proof has no bound on
requests, rows or ids, and what the condition excludes is what the code does not protect
(`MCSpec` keeps overlapping requests beside it, in which nothing `Serial...` is claimed).
`HandMadeIsSpared` is proved of `OutboundSync` under its own `Spec`, without `Narrow`, and so in every
regime of the run.  `WindowKeepsAll` is about maintenance windows, and nothing but them.

The type invariants are proved for every module with theorems; no run repeats them.  The
arguments:

* **Device login.**  A poll acts on a stale row, so the property alone is not inductive.
  `IInv` adds that a session exists only for a CONSUMED authorization, that a row's
  user, decision and status go together (`RowsAgree`), and that an AI approval carries a scope
  (`ScopedApproval`).  Consuming is conditional on APPROVED, and nothing leaves CONSUMED: hence
  one session.  The refinement maps each end of a poll to a step of `DeviceGrant` or a stutter.
* **Access.**  `FormsAlwaysAgree` needs the types only, and the lemmas on `ProjectAccess`;
  `DesiredRowIsInverse` is the property of the bulk form.  `OffboardingCascade` rests on two facts that are
  inductive together: tokens are on projects that exist, and the list a running removal read
  misses only projects made since, whose tokens are late.  One request at a time keeps more
  (`RegimeInv`): what a request read is still true when it writes (`Sound`: the member is still
  one, the list of projects is all of them), a row is on a project that exists, and a token that
  a hiding should have taken is one that its request is about to revoke, or that it left when it
  failed (`Finishes`).
* **Members.**  `InvitationsAreCut` and `OwnershipDescends` share an invariant, in every
  regime: an open invitation for an OWNER was issued or resent by one (`Written`), a request that
  makes an OWNER was authorised by one, and an acceptance is of the invitation it read while
  that one is open (`Authorised`).  One request at a time, the other OWNER that a role change or a
  removal counted is still one when it writes (`Counted`, from `Cardinality(Owners) > 1`).
* **Collections.**  `RulesAgree` is a case analysis over the roles (`FormsAlwaysAgree`,
  `ProjectFormsAlwaysAgree`), with the types.  `WellShared` says of a share what
  `Insider` says of a request that will give one: it is for somebody inside.  One
  at a time, no removal comes between; the deletion of an account, a step of its own, takes its
  shares and ends the requests that hold its rows.
* **Versions.**  `Inv` says that a locked job is alone on its row (`LockIsExclusive`), that its number is
  free, and, for the truth of histories, that what a request keeps to snapshot is a value its
  row had (`SnapshotsAreTrue`), which holds across a re-creation because an id in use is not fresh.
  For the window the computed number stays the next one until the commit: nothing is kept above it,
  and the one below it is kept, unless a deletion emptied the history (`NumberIsNext`).
  `PruneWindow` counts what retention leaves through its oldest version, with the facts on finite
  sets.  `ReplacedIsKept` follows: only a commit both ends a request and rewrites the row it
  holds, and what it snapshots is above what it prunes.
* **Shares.**  `Unspent`, `Pending` and `DeliveredOnce` tie a request about to answer
  to the conditional update that took the share.  `Counts` says that the attempts admitted
  (`tried`, plus the requests comparing, plus `lost`) are those the row counts, up to the limit:
  only a count that passes adds one (`AdmittedOneMore`), a comparison or a stop moves one from a
  term to another (`AdmittedStill`).  A request about to revoke, or comparing the last attempt,
  knows that all are admitted, and what others do since does not undo it (`Pending`); hence
  `GateIsExact`.  It says no more: the gate may close while the last attempts are still compared.
  `ShareRefinement` follows.
* **Secret requests.**  What is shown is what was submitted (`ShownIsSubmitted`), what was read
  is known (`OneKnown`), and a submission is conditional: one ciphertext.  An import that erases
  holds a destination in the same transaction: it has written.  One member at a time, a written
  row is marked, and a request that goes on importing found nothing written (`ImportInv`), while
  third parties submit at any moment.
* **Pushes.**  In every regime, what a synchronisation is about to delete of Vercel carries the mark, by
  an id that nothing else has (`SyncInv`), and only a deletion takes a variable with the mark: what
  was entered by hand stays.  For the status, `Stage` says how far the project of an aim is from what is desired,
  push by push, listing by listing, deletion by deletion, and `Underway` that each target is
  honest already or is still to be answered for, with the secrets as they are.
* **Authentication.**  `StepsBehind`: no step beyond `lastStep` has been used, so a code that is
  consumed moves it past itself.  `Generated`: a code in an account is of a batch already made,
  so a new batch brings no used code back.  One request at a time, the password that a request
  proved is still the account's when it signs, and what a disabling read does not move the bound on
  sessions back (`Fresh`): a reset evicts.  A link known to a reset is used or deleted when it ends (`DeadLinks`).
* **Rotation of the key.**  In a window every triplet opens, those in memory included
  (`TripletsOpen`); as long as a run found nothing to write, what it is past is under the new key
  (`NothingLeft`), which makes a clean dry run worth its word when the outgoing key is dropped.
* **Vault entries.**  `Identity` (an item has one live row) and `Aims` (the row a request
  read is still where it read it, or gone) make the refinement of `VaultCustody` inductive.  One
  request at a time, what a request computed still fits the row it writes to (`Sound`) and a personal
  entry has no history of rotations (`Tidy`); hence `SerialClean`, and, from what each write
  keeps of what it read (`Keeps`), `SerialContents`.
* **Deliveries.**  `Balance`: the services of a run are those its row counts and those of the
  requests still opening it; `Calls` and `Stands`: a request about to open a row holds the material
  it served, and the counter bounds the fresh numbers.

Out of the prover's reach, and left to TLC: liveness under fairness and `ENABLED`
(`RequestsEnd`), and what recursive definitions compute for every input (none is needed in the
modules proved).

### Model-checked only

`RequestsEnd` of SecretVersions, a liveness property under fairness.  Every other property of a
passing run is proved; the runs show it on an instance where TLC also finds the
mutations of the code that break it.

## Formulas TLC refutes

These are stated in the modules because a comment, a test, a document or plain reading suggests
them, and are in no run: TLC finds each violated.  To see one, list it as INVARIANT, or as
PROPERTY when it is an action formula, in place of the properties of the configuration named in
the second column; *own* is a configuration of the module itself under `Spec`, with the constants
of its run and no regime.  "Alone" means that the counterexample has no overlapping requests.

| formula | where | why it fails | what suggests it |
|---|---|---|---|
| `RuleSix` | OrgAccess.cfg | a row is written for a member whose removal commits meanwhile | lib/project-access.ts:26-31; api/projects/route.ts:181 |
| `MachineTokensDieOnRemoval` | OrgAccess.cfg | a token is inserted after the cascade (api/tokens/route.ts:80) | tests/lib/revocation-matrix.test.ts:168-170 |
| `OrgTokensDieOnHide` | OrgAccess.cfg | alone: the bulk form revokes machine tokens only (members/[userId]/project-access/route.ts:196) | revocation-matrix.test.ts:243 |
| `QuotaHolds` | OrgAccess, own (2 organisation tokens, role DEV) | active tokens are counted, then one is created (orgs/[slug]/org-tokens/route.ts:258) | the quota itself |
| `TokensDieWithAccount` | OrgAccess.cfg | alone: the creator of a machine token is set to null, the token lives (api/me/delete/now/route.ts:117) | the same file, lines 19-20 |
| `NoopMeansGranted` | OrgAccess.cfg | alone: VIEWER asked for an ADMIN_DEV without a row is answered "noop", and the implicit access is another | api/projects/[slug]/members/[userId]/route.ts:87-89, against 98 |
| `GesturesKeepAnOwner` | OrgMembers.cfg | two requests both count two OWNERs (orgs/[slug]/members/[userId]/route.ts:53) | tests/integ/last-owner-protection.test.ts:3-4 |
| `AcceptanceKeepsAnOwner` | OrgMembers.cfg | an OWNER accepts an invitation with a lower role (api/invitations/[token]/route.ts:108) | lib/deletion-window.ts:195 |
| `DeletionKeepsAnOwner` | OrgMembers.cfg | the guard is read before the deletion, another OWNER leaves in between | lib/deletion-window.ts:195 |
| `OwnersMoveOwners` | OrgMembers.cfg | alone: the check forbids giving OWNER, not taking it away | the comment at orgs/[slug]/members/[userId]/route.ts:26-27, "promote/demote" |
| `OnePendingInvite` | OrgMembers, own (2 invitations) | two requests both find none; alone, resending revives an expired one (invitations/[id]/resend/route.ts:66) | members/route.ts:139 |
| `InvitesAreSpent` | OrgMembers.cfg | two acceptances of one invitation, with a removal between them | tests/integ/invite-single-use.test.ts:1 |
| `PurgeSparesVaults` | OrgMembers.cfg | a vault filled after the purge looked is destroyed (members/[userId]/route.ts:205) | the same file, line 194 |
| `RollbackKeepsCurrent` | SecretVersionsEnd.cfg | what is kept is the value read before the transaction (rollback/route.ts:45) | rollback/route.ts:13-14 |
| `EveryReplacedIsKept` | SecretVersionsEnd.cfg | a POST that found no row replaces one made since; a received request keeps nothing (import/route.ts:137) | tests/integ/secret-versioning.test.ts:5-8 |
| `ResetCutsCli` | DeviceLogin, own (MaxTime 3, DeviceTTL 3, SessionTTL 2) | alone: an approval given before the reset is turned into a session after it | lib/cli-session.ts:14-15 |
| `OnlyFailuresRevoke` | OneTimeShare.cfg | the gate closes while attempts it admitted are still compared, or after one was right or lost | api/share/[token]/route.ts:100 |
| `RightGuessPasses` | OneTimeShare.cfg | the right password, admitted, is being compared or is about to consume; a miss or one request too many closes the share (api/share/[token]/route.ts:90-91, 102-103) | api/share/[token]/route.ts:100-101; tests/integ/share-password-attempts.test.ts:129-132 |
| `RevokedWasNotRead` | OneTimeShare.cfg | the creator is answered "revoked" for a share consumed since it was read (api/me/shares/[id]/route.ts:34) | the order of the statuses of api/me/shares |
| `ImportedOnce` | SecretRequest.cfg | two imports both read importedAt null | secret-requests/[id]/import/route.ts:93-95 |
| `RevokedIsNotImported` | SecretRequest.cfg | revoked between the import's read and its transaction | the 410 of import/route.ts |
| `BackupOpensOnce` | AccountAuth.cfg | two logins with one code both find it in the array (lib/auth.ts:138) | docs/security.md §4, "à usage unique" |
| `EnrolmentWorks` | AccountAuth.cfg | a setup overlaps a confirmation: the secret enabled was never verified (api/me/2fa/setup/route.ts:50) | api/me/2fa/verify |
| `ResetEvicts` | AccountAuth, own | a login in flight is signed after the bound | reset-password/[token]/actions.ts:78 |
| `BoundAdvances` | AccountAuth.cfg | two disablings overlap: the older date is written last | docs/security.md:72-74 |
| `OldLinksAreDead` | AccountAuth, own | overlapping resets both read their link unused; a stop leaves it so | lib/password-reset.ts:75-84 |
| `ReadableIsOpen` | TeamVault, own | alone: opening compares the role with "DEV" (lib/vault-access.ts:236), the extension also reads for an ADMIN_DEV | lib/vault-access.ts:115-117 |
| `OutsidersShareNothing` | TeamVault, own | a share is created for a member who leaves (collections/[slug]/members/route.ts:98) | the cascade of the removal |
| `KeepsContents("team")` | VaultEntries.cfg, as `[][...]_vars` | alone: a NOTE, or a LIST of one item, changed to SECRET or LOGIN in a collection loses its content | lib/vault-entry-handlers.ts:395, "Une conversion ne doit RIEN détruire en silence" |
| `Clean` of rows in teams | VaultEntries.cfg | alone: a rotation writes a password on a LIST or a NOTE, the extension a url on a SECRET (lib/vault-entries.ts:199) | docs/documentation/fr/05-coffres.md |
| `Clean`, `KeepsContents`, personal | VaultEntries.cfg | overlapping: columns computed for a form that has changed | the same |
| `StoreStatusIsObserved` | MobileStoreStatus.cfg (`MCMobileReleases`) | alone: a report rewrites the status of a row and leaves its source "store" (lib/mobile-release.ts:204) | releases/sync/route.ts:15-17 |
| `SuccessIsHonest` | OutboundSync, own | synchronisations push out of order; a stop forgets one; an import of a received request starts none | lib/sync/types.ts:72 |
| `[][KeepsAll]_vars` | KeyRotation, own (History 1, MaxKey 2) | outside a window, a write committed between the SELECT and the UPDATE of a batch is undone | rekey-encryption.mjs:11 and 33-34 ("zéro downtime"), against docs/security.md:45-48 |

## Divergences met while reading

Not modelled, so not shown by a run; each can be seen in the lines named.

* A policy of a pipeline "suit Project.githubRepo" (api/projects/[slug]/policies/[id]/route.ts:33;
  policies/route.ts:73-74), but a change of the project's repository updates no policy
  (api/projects/[slug]/route.ts:112-126, 177): pipelines of the former one are still served.
* `resolveMobilePolicy` says it resolves by claims *and* application (lib/mobile-policy.ts:38-47);
  it takes the first row by claims, then compares the application, while two
  applications may have a row each for the same claims: one of them is refused.
* The project's CI connection cannot be set: settings-dialog.tsx:519 and 528 send fields that PATCH
  projects/[slug] ignores, and a mobile policy cannot be created without it.
* No caller injects `resolveTrustedIssuer` (lib/oidc.ts:239): Bitbucket and self-hosted GitLab tokens,
  which docs/physalis.md §6.3 says are validated, are refused.
* Forcing the rotation of an account (accounts/[id]/rotation/force/route.ts:1-5, "feature PRODUIT
  en self-host") always ends on `RotationDisabledError`: nothing sets the column it asks for.
* A server policy asks for the role DEV strictly, a mobile one accepts ADMIN_DEV too.
* `DELETE` of a synchronisation target never removes what was pushed: `offboardSyncTarget` asks for a
  tenant (api/.../sync-target/[id]/route.ts:131), which is always null here.  A change of a target's
  project or place leaves the former's variables.
* `lib/account-purge.ts`, which lib/deletion-window.ts:11 says purges accounts, does not
  exist; nothing reads `purgeAt`.
* A platform admin who is a member of the organisation is answered differently by the forms of the
  rule of collections; `RulesAgree` excepts them, and ADMIN_DEV, by name.
* The import into a collection (api/vault/import) drops the text of a NOTE.

## Hazards outside the list

`PROJECT.json` keeps forty hazards, each with a property of a run.  The code has more.  The
refuted formulas above show most of these, no formula covers the others: the reset between an approval and a poll
(lib/cli-session.ts:266, 285); the row written for a creator who is removed
(api/projects/route.ts:181); the answer "noop" (projects/[slug]/members/[userId]/route.ts:98); the bulk
form (project-access/route.ts:196); the edition of a token's scope after its issuer's access
changed (orgs/[slug]/org-tokens/[id]/route.ts:43) and the count of tokens before a creation
(org-tokens/route.ts:258); tokens without creator (me/delete/now/route.ts:117); the revived
invitation (resend/route.ts:66); the invitation accepted twice (invitations/[token]/route.ts:95); the
orphan purge (members/[userId]/route.ts:200); a revocation against an import (secret-requests/[id]/route.ts:118); setup and
confirmation of a second factor (2fa/setup:50, 2fa/verify:86); one backup code used twice
(lib/auth.ts:138); a report against the store (lib/mobile-release.ts:201) and an action that the store
accepted and the row did not record (store-action/route.ts:229); a crash that loses a
synchronisation (lib/sync/dispatch.ts:132); two checks then creations of one SSH key
(api/vault/ssh-keys/route.ts:110); the strength score left by the extension's writes.

## Not modelled

* **Pipeline policies and OIDC tokens.**  Verifying a signed token and comparing its claims with a row
  is a function of one request, without state; what an authorised pipeline then writes is in the
  two registers.
* **What the command line may read, SSH signatures.**  Decided from one row at the time of the
  call; the session that carries it is DeviceLogin's.
* **Organisations themselves.**  One statement each; nothing in this edition counts
  organisations or seats, and the tests that do are of the hosted one.
* **Rotation of accounts and services.**  The rotators refuse until a column is written in SQL.
* **Signing material of mobile applications.**  Its versions repeat those of a secret; parsing key
  stores is input and output.
* **Connections to CI, redeployments.**  A token stored and a platform called.
* **Projects' plain records** (environments, services, accounts, categories, documents).  One statement
  each, under OrgAccess's rule.
* **Rate limits and the confirmation of a password.**  In the memory of one process; they slow a caller
  and decide no row.
* **Integrations, the extension's reads, user tokens.**  Reads, and one-statement writes.
* **Cryptography.**  Abstracted: which key opens what is KeyRotation's, when a ciphertext is erased is
  in the modules of shares and requests.
* **Audit, mail, support, export.**  Written after the fact; nothing reads them to decide.
* **Pages and scripts.**  Some thirty-three thousand lines of the repository are React components that
  call these handlers and keep no state of the system.  The scripts copy or migrate a database while
  nothing else runs; `check-encryption-readable.mjs` only reads.

Partly modelled, and what is missing: of members, the days of the deletion window and the promotion to
platform admin; of secrets, the categories and the copies of the same code for organisations' secrets
(which have neither PATCH nor import); of authentication, rate limits and the tokens a
reset spares by design; of vaults, names, folders, scores and the collections of projects (their
rule is in `VaultAccess`); of mobile releases, iOS, whose builds are on one track; of the key
rotation, tables other than secrets, and the drift of columns.

## What the plan has left

In the order of what it would show: the policies of pipelines with the registers they open, for the
divergence of the first item above; the signing material with its versions, next to
`MobileReleases`; organisations' secrets as a second instance of `SecretVersions`; an abstract
specification of the registers of deliveries, refined by `Deliveries`; the tables of `KeyRotation` other than secrets, with the drift of columns.
