---------------------------- MODULE SecretVersions ----------------------------
(***************************************************************************)
(* The secrets of one environment and the history of their values          *)
(* (lib/versioning.ts and the handlers that write a secret).  A writer     *)
(* reads the row, awaits, then opens a transaction that snapshots the      *)
(* value it READ into SecretVersion and writes the new one.  Inside the    *)
(* transaction an advisory lock on the secret comes first, then MAX + 1,   *)
(* then the insert, the pruning and the write; the last three are seen by  *)
(* the others together, at the commit.                                     *)
(*                                                                         *)
(* The secrets of an organisation (OrgSecret) are written by the same      *)
(* code with neither PATCH nor import.  A value stands for a ciphertext    *)
(* with its iv and tag.  Categories, tags and rotation fields are left out. *)
(***************************************************************************)
EXTENDS Integers, FiniteSets

CONSTANTS
    Req,         \* HTTP requests that may be in flight together
    Key,         \* names of secrets
    Sid,         \* Secret ids; one is given again once nothing refers to it
    Value,
    NoKey, NoSid, NoValue,
    MaxVersions, \* MAX_VERSIONS: snapshots kept for one secret
    MaxNumber,   \* bound: the largest version number
    Handler      \* bound: the handlers called

ASSUME SecretVersionsAssumption ==
    /\ NoKey \notin Key /\ NoSid \notin Sid /\ NoValue \notin Value
    /\ MaxVersions \in Nat \ {0} /\ MaxNumber \in Nat
    /\ IsFiniteSet(Req)

VARIABLES
    secret,  \* Secret rows: key and value, or none
    history, \* SecretVersion rows: the value kept under each number
    req,     \* requests in flight
    held     \* history: every value a secret has had

vars == <<secret, history, req, held>>

Number == 1..MaxNumber

\* What a request means to do to one secret: the row and the value it read, the
\* name it writes (none: left alone) and the value it writes.
Job == [row: Sid \cup {NoSid}, old: Value \cup {NoValue},
        key: Key \cup {NoKey}, new: Value \cup {NoValue}]
NoJob == [row |-> NoSid, old |-> NoValue, key |-> NoKey, new |-> NoValue]

\* `todo`: jobs not begun. `job`: the one whose transaction holds the lock.
\* `number`: the version number it computed (before "restore": the one asked for).
Op == {"idle", "upsert", "patch", "rename", "restore", "rollback", "import", "delete", "remove"}
Idle == [op |-> "idle", todo |-> {}, job |-> NoJob, number |-> 0]

NoSecret == [key |-> NoKey, value |-> NoValue]
NoHistory == [n \in Number |-> NoValue]

TypeOK ==
    /\ secret \in [Sid -> [key: Key, value: Value] \cup {NoSecret}]
    /\ history \in [Sid -> [Number -> Value \cup {NoValue}]]
    /\ req \in [Req -> [op: Op, todo: SUBSET Job, job: Job, number: Number \cup {0}]]
    /\ held \in [Sid -> SUBSET Value]

Init ==
    /\ secret = [s \in Sid |-> NoSecret]
    /\ history = [s \in Sid |-> NoHistory]
    /\ req = [r \in Req |-> Idle]
    /\ held = [s \in Sid |-> {}]

Live(s) == secret[s] # NoSecret

\* findUnique by environment and key.
Finds(k, s) ==
    \/ s \in Sid /\ secret[s].key = k
    \/ s = NoSid /\ \A t \in Sid : secret[t].key # k
Read(s) == IF s \in Sid THEN secret[s].value ELSE NoValue

JobOn(s, k, v) == [row |-> s, old |-> Read(s), key |-> k, new |-> v]

\* A change that keeps the value does not need the old one.
PlainJob(s, k) == [row |-> s, old |-> NoValue, key |-> k, new |-> NoValue]

Locked(s) == \E q \in Req : req[q].job.row = s

\* Bound: whoever waits to compute a number for s, and one more, still finds one.
Numbered(s, n) ==
    history[s][n] # NoValue \/ \E q \in Req : req[q].job.row = s /\ req[q].number = n
Waiting(s) ==
    {q \in Req : \/ \E j \in req[q].todo : j.row = s
                 \/ req[q].job.row = s /\ req[q].number = 0}
Room(s) == \A n \in Number : Numbered(s, n) => n + Cardinality(Waiting(s)) < MaxNumber

Begin(r, op, jobs, n) ==
    /\ req[r] = Idle
    /\ \A j \in jobs : j.old # NoValue => Room(j.row)
    /\ req' = [req EXCEPT ![r] = [op |-> op, todo |-> jobs, job |-> NoJob, number |-> n]]
    /\ UNCHANGED <<secret, history, held>>

\* The end of a job: an import goes on with the next key, any other request is over.
Proceed(r, rest) ==
    req' = [req EXCEPT ![r] =
        IF rest = {} THEN Idle
        ELSE [op |-> req[r].op, todo |-> rest, job |-> NoJob, number |-> 0]]

\* UPDATE of a value, and of the name when one is given.
Update(s, k, v) ==
    /\ secret' = [secret EXCEPT ![s] =
           [key |-> IF k = NoKey THEN secret[s].key ELSE k, value |-> v]]
    /\ held' = [held EXCEPT ![s] = @ \cup {v}]

\* A cuid: an id that no row has and that no request in flight has seen.
Fresh(s) ==
    /\ ~Live(s)
    /\ \A q \in Req : req[q].job.row # s /\ \A j \in req[q].todo : j.row # s

Insert(s, k, v) ==
    /\ Fresh(s)
    /\ secret' = [secret EXCEPT ![s] = [key |-> k, value |-> v]]
    /\ held' = [held EXCEPT ![s] = {v}]

\* upsert by environment and key: `s` is the row found, or the id of a new one.
Upsert(s, k, v) ==
    \/ s \in Sid /\ Finds(k, s) /\ Update(s, NoKey, v)
    \/ s \in Sid /\ Finds(k, NoSid) /\ Insert(s, k, v)

-----------------------------------------------------------------------------
(* What the handlers read.                                                 *)

\* POST secrets
AskUpsert(r, k, v) ==
    \E s \in Sid \cup {NoSid} :
        Finds(k, s) /\ Begin(r, "upsert", {JobOn(s, k, v)}, 0)

\* PATCH secrets/[key]: the new value, the new name if free, or both.
AskPatch(r, k, to, v) ==
    \E s \in Sid :
        /\ Finds(k, s)
        /\ to # NoKey => Finds(to, NoSid)
        /\ \/ v # NoValue /\ Begin(r, "patch", {JobOn(s, to, v)}, 0)
           \/ v = NoValue /\ to # NoKey /\ Begin(r, "rename", {PlainJob(s, to)}, 0)

\* DELETE secrets/[key]
AskDelete(r, k) ==
    \E s \in Sid : Finds(k, s) /\ Begin(r, "delete", {PlainJob(s, NoKey)}, 0)

\* POST secrets/import: one look at the keys of the file; those that exist are
\* rewritten or skipped.
AskImport(r, keys, v, overwrite) ==
    LET existing == {j \in {JobOn(s, NoKey, v) : s \in Sid} : \E k \in keys : Finds(k, j.row)}
        missing == {JobOn(NoSid, k, v) : k \in {k \in keys : Finds(k, NoSid)}}
        jobs == missing \cup (IF overwrite THEN existing ELSE {})
    IN  jobs # {} /\ Begin(r, "import", jobs, 0)

\* POST versions/[version]/rollback: the secret, then the version.
AskRestore(r, k, n) ==
    \E s \in Sid : Finds(k, s) /\ Begin(r, "restore", {JobOn(s, NoKey, NoValue)}, n)

ReadVersion(r) ==
    \E j \in req[r].todo :
        LET n == req[r].number IN
        /\ req[r].op = "restore"
        /\ history[j.row][n] # NoValue
        /\ req' = [req EXCEPT ![r] =
               [op |-> "rollback", todo |-> {[j EXCEPT !.new = history[j.row][n]]},
                job |-> NoJob, number |-> 0]]
        /\ UNCHANGED <<secret, history, held>>

-----------------------------------------------------------------------------
(* The versioned write.                                                    *)

Writes(r) == req[r].op \in {"upsert", "patch", "rollback", "import"}

\* Mutant of Lock: no advisory lock.
LockNothing(r) ==
    \E j \in req[r].todo :
        /\ Writes(r) /\ req[r].job = NoJob
        /\ j.row \in Sid
        /\ req' = [req EXCEPT ![r] = [@ EXCEPT !.todo = req[r].todo \ {j}, !.job = j]]
        /\ UNCHANGED <<secret, history, held>>

\* The transaction opens: pg_advisory_xact_lock. An import has created first.
Lock(r) ==
    \E j \in req[r].todo :
        /\ Writes(r) /\ req[r].job = NoJob
        /\ \A i \in req[r].todo : i.row \in Sid
        /\ ~Locked(j.row)
        /\ req' = [req EXCEPT ![r] = [@ EXCEPT !.todo = req[r].todo \ {j}, !.job = j]]
        /\ UNCHANGED <<secret, history, held>>

\* n is MAX(version) + 1.
IsNext(h, n) ==
    /\ \A m \in Number : m >= n => h[m] = NoValue
    /\ n > 1 => h[n - 1] # NoValue

Compute(r) ==
    LET s == req[r].job.row IN
    /\ s \in Sid /\ req[r].number = 0
    /\ \E n \in Number :
         /\ IsNext(history[s], n)
         /\ req' = [req EXCEPT ![r] = [@ EXCEPT !.number = n]]
    /\ UNCHANGED <<secret, history, held>>

\* Mutant of Prune: slice(MAX - 1, MAX) deletes the last but one and keeps the oldest.
PruneInside(h) ==
    [m \in Number |->
        IF /\ Cardinality({k \in Number : h[k] # NoValue}) > MaxVersions
           /\ Cardinality({k \in Number : k > m /\ h[k] # NoValue}) = MaxVersions - 1
        THEN NoValue ELSE h[m]]

\* Mutant of Prune: sorted the other way, it leaves the oldest.
PruneLatest(h) ==
    [m \in Number |->
        IF Cardinality({k \in Number : k < m /\ h[k] # NoValue}) >= MaxVersions
        THEN NoValue ELSE h[m]]

\* What the retention leaves: the MaxVersions latest.
Prune(h) ==
    [m \in Number |->
        IF Cardinality({k \in Number : k > m /\ h[k] # NoValue}) >= MaxVersions
        THEN NoValue ELSE h[m]]

\* Mutant of Snapshot: the value written is kept in place of the one it replaces.
SnapshotNew(j, n) ==
    history' = [history EXCEPT ![j.row] = Prune([@ EXCEPT ![n] = j.new])]

Snapshot(j, n) ==
    history' = [history EXCEPT ![j.row] = Prune([@ EXCEPT ![n] = j.old])]

Taken(k, s) == k # NoKey /\ \E t \in Sid \ {s} : secret[t].key = k

\* Why the transaction would abort: the secret is gone (foreign key), the number
\* is taken, the new name is taken.
Refused(r) ==
    LET j == req[r].job IN
    \/ ~Live(j.row)
    \/ history[j.row][req[r].number] # NoValue
    \/ req[r].op = "patch" /\ Taken(j.key, j.row)

\* The snapshot, the write and the end of the transaction. POST writes by name
\* whatever row has it by now; the others write the row they read.
Commit(r) ==
    LET j == req[r].job IN
    /\ req[r].number # 0 /\ j.row \in Sid
    /\ ~Refused(r)
    /\ Snapshot(j, req[r].number)
    /\ IF req[r].op = "upsert" THEN \E s \in Sid : Upsert(s, j.key, j.new)
                               ELSE Update(j.row, j.key, j.new)
    /\ Proceed(r, req[r].todo)

\* The transaction fails: nothing of it stays. An import, whatever the failure,
\* notes it and goes on.
Abort(r) ==
    /\ req[r].number # 0 /\ req[r].job.row \in Sid
    /\ Refused(r) \/ req[r].op = "import"
    /\ Proceed(r, req[r].todo)
    /\ UNCHANGED <<secret, history, held>>

-----------------------------------------------------------------------------
(* Writes without a snapshot.                                              *)

\* POST of a key that did not exist when it looked.
CreateOrReplace(r) ==
    \E j \in req[r].todo :
        /\ req[r].op = "upsert" /\ j.row = NoSid
        /\ \E s \in Sid : Upsert(s, j.key, j.new)
        /\ req' = [req EXCEPT ![r] = Idle]
        /\ UNCHANGED history

\* An import creates, or fails: the key may have appeared since.
CreateImported(r) ==
    \E j \in req[r].todo :
        /\ req[r].op = "import" /\ j.row = NoSid
        /\ \/ Finds(j.key, NoSid) /\ \E s \in Sid : Insert(s, j.key, j.new)
           \/ UNCHANGED <<secret, held>>
        /\ Proceed(r, req[r].todo \ {j})
        /\ UNCHANGED history

\* PATCH of the name alone.
Rename(r) ==
    \E j \in req[r].todo :
        /\ req[r].op = "rename"
        /\ Live(j.row) /\ ~Taken(j.key, j.row)
        /\ secret' = [secret EXCEPT ![j.row] = [@ EXCEPT !.key = j.key]]
        /\ req' = [req EXCEPT ![r] = Idle]
        /\ UNCHANGED <<history, held>>

\* DELETE: the history first, ...
WipeHistory(r) ==
    \E j \in req[r].todo :
        /\ req[r].op = "delete"
        /\ history' = [history EXCEPT ![j.row] = NoHistory]
        /\ req' = [req EXCEPT ![r] = [@ EXCEPT !.op = "remove"]]
        /\ UNCHANGED <<secret, held>>

\* Mutant of Remove: no cascade.
RemoveRowOnly(r) ==
    \E j \in req[r].todo :
        /\ req[r].op = "remove" /\ Live(j.row)
        /\ secret' = [secret EXCEPT ![j.row] = NoSecret]
        /\ req' = [req EXCEPT ![r] = Idle]
        /\ UNCHANGED <<history, held>>

\* ... then the secret, with what was added to its history since.
Remove(r) ==
    \E j \in req[r].todo :
        /\ req[r].op = "remove" /\ Live(j.row)
        /\ secret' = [secret EXCEPT ![j.row] = NoSecret]
        /\ history' = [history EXCEPT ![j.row] = NoHistory]
        /\ held' = [held EXCEPT ![j.row] = {}]
        /\ req' = [req EXCEPT ![r] = Idle]

\* POST secret-requests/[id]/import, into an environment: an upsert in a
\* transaction of its own, by name, without a version.
ImportReceived(k, v) ==
    /\ \E s \in Sid : Upsert(s, k, v)
    /\ UNCHANGED <<history, req>>

\* Mutant of Reject: a refusal that leaves the request waiting.
RejectRenameOnly(r) ==
    /\ \E j \in req[r].todo : req[r].op = "rename" /\ (~Live(j.row) \/ Taken(j.key, j.row))
    /\ req' = [req EXCEPT ![r] = Idle]
    /\ UNCHANGED <<secret, history, held>>

\* A request ends without a write: its version or its row is gone, its name taken.
Reject(r) ==
    /\ \E j \in req[r].todo :
         \/ req[r].op = "rename" /\ (~Live(j.row) \/ Taken(j.key, j.row))
         \/ req[r].op = "restore" /\ history[j.row][req[r].number] = NoValue
         \/ req[r].op = "remove" /\ ~Live(j.row)
    /\ req' = [req EXCEPT ![r] = Idle]
    /\ UNCHANGED <<secret, history, held>>

\* An await throws or the process stops: the open transaction is rolled back,
\* what was committed before stays.
Fail(r) ==
    /\ req[r] # Idle
    /\ req' = [req EXCEPT ![r] = Idle]
    /\ UNCHANGED <<secret, history, held>>

-----------------------------------------------------------------------------
Ask(r) ==
    \/ \E k \in Key, v \in Value : "upsert" \in Handler /\ AskUpsert(r, k, v)
    \/ \E k \in Key, to \in Key \cup {NoKey}, v \in Value \cup {NoValue} :
           "patch" \in Handler /\ AskPatch(r, k, to, v)
    \/ \E k \in Key : "delete" \in Handler /\ AskDelete(r, k)
    \/ \E keys \in SUBSET Key, v \in Value, overwrite \in BOOLEAN :
           "import" \in Handler /\ AskImport(r, keys, v, overwrite)
    \/ \E k \in Key, n \in Number : "restore" \in Handler /\ AskRestore(r, k, n)

\* Steps of a request that nothing holds back.
Advance(r) ==
    \/ ReadVersion(r)
    \/ Compute(r)
    \/ Commit(r)
    \/ Abort(r)
    \/ CreateOrReplace(r)
    \/ CreateImported(r)
    \/ Rename(r)
    \/ WipeHistory(r)
    \/ Remove(r)
    \/ Reject(r)

Next ==
    \/ \E r \in Req : Ask(r) \/ Lock(r) \/ Advance(r) \/ Fail(r)
    \/ \E k \in Key, v \in Value : "received" \in Handler /\ ImportReceived(k, v)

Spec == Init /\ [][Next]_vars

\* A request in flight goes on until it ends; PostgreSQL serves the waiters of an
\* advisory lock in turn.
Fairness == \A r \in Req : WF_vars(Advance(r)) /\ SF_vars(Lock(r))

FairSpec == Spec /\ Fairness

-----------------------------------------------------------------------------
(* Properties.                                                             *)

\* lib/versioning.ts:152-155: the lock makes the unique conflict unreachable. The
\* number computed under the lock is free until the insert, whatever the writers,
\* the deletions and the prunings of the others do.
NumberStaysFree ==
    \A r \in Req :
        LET j == req[r].job IN
        j.row \in Sid /\ req[r].number # 0 => history[j.row][req[r].number] = NoValue

Kept(s) == {n \in Number : history[s][n] # NoValue}

\* The history of a secret is a window of its last values: no gap, at most
\* MaxVersions, and none without its secret.
HistoryIsAWindow ==
    \A s \in Sid :
        /\ \A a, c \in Kept(s) : \A b \in Number : a < b /\ b < c => b \in Kept(s)
        /\ Cardinality(Kept(s)) <= MaxVersions
        /\ ~Live(s) => Kept(s) = {}

\* A version is a value its own secret had, though renames, deletions and
\* re-creations run between the read of the value and the snapshot.
HistoryIsTrue ==
    \A s \in Sid : \A n \in Kept(s) : history[s][n] \in held[s]

\* The newest version of a secret.
Newest(s, n) == n \in Kept(s) /\ \A m \in Kept(s) : m <= n

\* A value that its writer read, and that nobody wrote since, is the newest version
\* once replaced: neither the number computed earlier, nor the pruning, nor what the
\* others did to the history in between makes it older or loses it.
ReplacedIsKept ==
    [][\A r \in Req, s \in Sid :
         /\ req[r].job.row = s /\ req[r].job.old = secret[s].value
         /\ secret'[s] # NoSecret /\ secret'[s].value # secret[s].value
         /\ req'[r] # req[r]
         => \E n \in Number : Newest(s, n)' /\ history'[s][n] = secret[s].value]_vars

\* tests/integ/secret-versioning.test.ts: a write of the application that replaces a
\* value leaves the old one as the newest version.
EveryReplacedIsKept ==
    [][\A s \in Sid :
         Live(s) /\ secret'[s] # NoSecret /\ secret'[s].value # secret[s].value =>
             \E n \in Number : Newest(s, n)' /\ history'[s][n] = secret[s].value]_vars

\* The rollback route: "la valeur courante d'avant le rollback est conservee dans
\* l'historique (pas de perte)".
RollbackKeepsCurrent ==
    [][\A r \in Req :
         LET s == req[r].job.row IN
         /\ req[r].op = "rollback" /\ s \in Sid
         /\ secret'[s] # secret[s] /\ secret'[s] # NoSecret
         => \E n \in Number : history'[s][n] = secret[s].value]_vars

\* Every request ends: no wait on the lock or on a refusal is for ever.
RequestsEnd == \A r \in Req : req[r] # Idle ~> req[r] = Idle
=============================================================================
