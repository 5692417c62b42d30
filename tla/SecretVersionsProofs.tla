------------------------- MODULE SecretVersionsProofs -------------------------
(***************************************************************************)
(* SecretVersions for any number of requests, secrets, values and names,   *)
(* any retention and any bound on the version numbers.                     *)
(*                                                                         *)
(* NumberStaysFree is not inductive: the number computed by one request    *)
(* stays free because only the holder of the advisory lock inserts         *)
(* (LockIsExclusive), and a deletion only empties.  HistoryIsTrue needs    *)
(* what the requests carry from before their transaction: a value read     *)
(* from a row that still exists was held by this row (SnapshotsAreTrue).   *)
(*                                                                         *)
(* HistoryIsAWindow needs the number of a job to stay the NEXT one until   *)
(* its commit (NumberIsNext), and counts what the retention leaves through *)
(* the oldest version left: what it keeps is above it, and is fewer than   *)
(* MaxVersions.  ReplacedIsKept follows for the only step that can both    *)
(* end a request and rewrite the row it has locked.                        *)
(***************************************************************************)
EXTENDS SecretVersions, FiniteSetTheorems, TLAPS

Request == [op: Op, todo: SUBSET Job, job: Job, number: Number \cup {0}]
Writer == {"upsert", "patch", "rollback", "import"}

\* What a handler puts in its request.
Shape(q) ==
    /\ q.job.row \in Sid => q.op \in Writer /\ q.job.new \in Value
    /\ q.job.row \in Sid /\ q.op = "upsert" => q.job.key \in Key
    /\ q.op \in Writer /\ q.job = NoJob => q.number = 0
    /\ \A j \in q.todo :
         /\ q.op \in Writer => j.new \in Value
         /\ q.op \in {"upsert", "rename"} => j.key \in Key
         /\ q.op \in Writer /\ j.row = NoSid => j.key \in Key
         /\ q.op \in {"restore", "rename", "delete", "remove"} => j.row \in Sid
         /\ q.op = "restore" => q.number \in Number

\* The value read from a row that still exists is one it held.
TrueJob(j) == j.row \in Sid /\ Live(j.row) /\ j.old # NoValue => j.old \in held[j.row]

JobShape == \A r \in Req : Shape(req[r])
SnapshotsAreTrue == \A r \in Req : TrueJob(req[r].job) /\ \A j \in req[r].todo : TrueJob(j)
CurrentIsHeld == \A s \in Sid : Live(s) => secret[s].value \in held[s]
GoneHaveNone == \A s \in Sid : ~Live(s) => history[s] = NoHistory
LockIsExclusive ==
    \A q, r \in Req : req[q].job.row \in Sid /\ req[q].job.row = req[r].job.row => q = r

Inv ==
    /\ TypeOK /\ JobShape /\ SnapshotsAreTrue /\ CurrentIsHeld /\ GoneHaveNone
    /\ LockIsExclusive /\ NumberStaysFree /\ HistoryIsTrue

-----------------------------------------------------------------------------
(* Types of what the actions build.                                        *)

LEMMA IdleType == Idle \in Request /\ Shape(Idle) /\ NoJob \in Job /\ NoJob.row \notin Sid
BY SecretVersionsAssumption DEF Idle, Request, Op, NoJob, Job, Shape, Number, Writer

LEMMA ReadType ==
  ASSUME TypeOK, NEW s \in Sid \cup {NoSid}
  PROVE  Read(s) \in Value \cup {NoValue}
BY SecretVersionsAssumption DEF TypeOK, Read, NoSecret

LEMMA JobType ==
  ASSUME TypeOK, NEW s \in Sid \cup {NoSid}, NEW k \in Key \cup {NoKey},
         NEW v \in Value \cup {NoValue}
  PROVE  JobOn(s, k, v) \in Job /\ PlainJob(s, k) \in Job
<1>1. Read(s) \in Value \cup {NoValue}
  BY ReadType
<1> QED
  BY <1>1 DEF JobOn, PlainJob, Job

\* What a handler reads from a row is true of it.
LEMMA JobTruth ==
  ASSUME TypeOK, CurrentIsHeld, NEW s \in Sid \cup {NoSid}, NEW k, NEW v
  PROVE  TrueJob(JobOn(s, k, v)) /\ TrueJob(PlainJob(s, k))
BY SecretVersionsAssumption DEF TrueJob, JobOn, PlainJob, Read, CurrentIsHeld, Live

\* Pruning only removes.
LEMMA PruneRemoves ==
  ASSUME NEW h \in [Number -> Value \cup {NoValue}]
  PROVE  /\ Prune(h) \in [Number -> Value \cup {NoValue}]
         /\ \A n \in Number : Prune(h)[n] \in {h[n], NoValue}
BY DEF Prune

LEMMA NoHistoryType == NoHistory \in [Number -> Value \cup {NoValue}]
BY DEF NoHistory

-----------------------------------------------------------------------------
(* Steps that change one request and nothing else.                         *)

LEMMA RequestStep ==
  ASSUME Inv, NEW r \in Req, NEW q \in Request,
         req' = [req EXCEPT ![r] = q],
         UNCHANGED <<secret, history, held>>,
         Shape(q),
         TrueJob(q.job), \A j \in q.todo : TrueJob(j),
         q.job.row \in Sid => \A x \in Req \ {r} : req[x].job.row # q.job.row,
         q.job.row \in Sid /\ q.number # 0 => history[q.job.row][q.number] = NoValue
  PROVE  Inv'
<1>1. \A x \in Req : req'[x] = IF x = r THEN q ELSE req[x]
  BY DEF Inv, TypeOK
<1>2. TypeOK'
  BY DEF Inv, TypeOK, Request
<1>3. JobShape'
  BY <1>1 DEF Inv, JobShape
<1>5. SnapshotsAreTrue'
  <2> SUFFICES ASSUME NEW x \in Req, NEW j \in {req'[x].job} \cup req'[x].todo,
                      j.row \in Sid, Live(j.row)', j.old # NoValue
               PROVE  j.old \in held[j.row]'
    BY DEF SnapshotsAreTrue, TrueJob
  <2>1. j.old \in held[j.row]
    <3>1. CASE x = r
      BY <1>1, <3>1 DEF TrueJob, Live
    <3>2. CASE x # r
      BY <1>1, <3>2 DEF Inv, SnapshotsAreTrue, TrueJob, Live
    <3> QED
      BY <3>1, <3>2
  <2> QED
    BY <2>1
<1>6. CurrentIsHeld' /\ GoneHaveNone' /\ HistoryIsTrue'
  BY DEF Inv, CurrentIsHeld, GoneHaveNone, HistoryIsTrue, Live, Kept
<1>7. LockIsExclusive'
  BY <1>1 DEF Inv, LockIsExclusive
<1>8. NumberStaysFree'
  BY <1>1 DEF Inv, NumberStaysFree
<1> QED
  BY <1>2, <1>3, <1>5, <1>6, <1>7, <1>8 DEF Inv

\* A handler that has read what it needs.
LEMMA BeginStep ==
  ASSUME Inv, NEW r \in Req, NEW op \in Op, NEW jobs \in SUBSET Job, NEW n \in Number \cup {0},
         Begin(r, op, jobs, n),
         Shape([op |-> op, todo |-> jobs, job |-> NoJob, number |-> n]),
         \A j \in jobs : TrueJob(j)
  PROVE  Inv'
<1> DEFINE q == [op |-> op, todo |-> jobs, job |-> NoJob, number |-> n]
<1>1. q \in Request
  BY IdleType DEF Request
<1>2. q.job.row \notin Sid
  BY IdleType
<1>3. q.job = NoJob /\ q.todo = jobs /\ TrueJob(NoJob)
  BY IdleType DEF TrueJob
<1>4. req' = [req EXCEPT ![r] = q] /\ UNCHANGED <<secret, history, held>>
  BY DEF Begin
<1> HIDE DEF q
<1>5. Shape(q)
  BY DEF q
<1> QED
  BY <1>1, <1>2, <1>3, <1>4, <1>5, RequestStep

\* A request that is over, or an import that goes on.
LEMMA ProceedType ==
  ASSUME Inv, NEW r \in Req, NEW rest \in SUBSET req[r].todo
  PROVE  LET q == IF rest = {} THEN Idle
                  ELSE [op |-> req[r].op, todo |-> rest, job |-> NoJob, number |-> 0] IN
         req[r].op # "restore" =>
           q \in Request /\ Shape(q) /\ q.job = NoJob /\ q.todo \subseteq req[r].todo
<1>1. req[r] \in Request /\ Shape(req[r])
  BY DEF Inv, TypeOK, JobShape, Request
<1>2. rest \in SUBSET Job
  BY <1>1 DEF Request
<1> DEFINE q == [op |-> req[r].op, todo |-> rest, job |-> NoJob, number |-> 0]
<1>3. q \in Request
  BY <1>1, <1>2, IdleType DEF Request
<1>4. ASSUME req[r].op # "restore" PROVE Shape(q)
  <2>1. q.job.row \notin Sid /\ q.op = req[r].op /\ q.todo = rest /\ q.number = 0
    BY IdleType
  <2> HIDE DEF q
  <2> QED
    BY <1>1, <1>4, <2>1 DEF Shape
<1>5. Idle.job = NoJob /\ Idle.todo = {}
  BY DEF Idle
<1> QED
  BY <1>3, <1>4, <1>5, IdleType

-----------------------------------------------------------------------------
(* Steps that write.                                                       *)

\* The requests of a step that writes: nobody begins, at most one job ends.
Shrinks ==
    /\ req' \in [Req -> Request]
    /\ \A x \in Req :
         /\ Shape(req'[x])
         /\ req'[x].todo \subseteq req[x].todo
         /\ req'[x].job = NoJob \/ req'[x] = req[x]

LEMMA ShrinkByOne ==
  ASSUME Inv, NEW r \in Req, NEW q \in Request, req' = [req EXCEPT ![r] = q],
         Shape(q), q.job = NoJob, q.todo \subseteq req[r].todo
  PROVE  Shrinks /\ \A x \in Req : req'[x].job = IF x = r THEN NoJob ELSE req[x].job
<1>1. \A x \in Req : req'[x] = IF x = r THEN q ELSE req[x]
  BY DEF Inv, TypeOK
<1>2. req' \in [Req -> Request]
  BY DEF Inv, TypeOK, Request
<1> QED
  BY <1>1, <1>2 DEF Shrinks, Inv, JobShape

LEMMA ShrinkByProceed ==
  ASSUME Inv, NEW r \in Req, NEW rest \in SUBSET req[r].todo, Proceed(r, rest),
         req[r].op # "restore"
  PROVE  Shrinks /\ \A x \in Req : req'[x].job = IF x = r THEN NoJob ELSE req[x].job
<1> DEFINE q == IF rest = {} THEN Idle
                ELSE [op |-> req[r].op, todo |-> rest, job |-> NoJob, number |-> 0]
<1>1. q \in Request /\ Shape(q) /\ q.job = NoJob /\ q.todo \subseteq req[r].todo
  BY ProceedType
<1>2. req' = [req EXCEPT ![r] = q]
  BY DEF Proceed
<1> HIDE DEF q
<1> QED
  BY <1>1, <1>2, ShrinkByOne

LEMMA ShrinkToIdle ==
  ASSUME Inv, NEW r \in Req, req' = [req EXCEPT ![r] = Idle]
  PROVE  Shrinks /\ \A x \in Req : req'[x].job = IF x = r THEN NoJob ELSE req[x].job
<1>1. Idle \in Request /\ Shape(Idle) /\ Idle.job = NoJob /\ Idle.todo = {}
  BY IdleType DEF Idle
<1> QED
  BY <1>1, ShrinkByOne

LEMMA ShrinkByNothing ==
  ASSUME Inv, UNCHANGED req
  PROVE  Shrinks
BY DEF Inv, TypeOK, Request, JobShape, Shrinks

SecretType == [Sid -> [key: Key, value: Value] \cup {NoSecret}]
HistoryType == [Sid -> [Number -> Value \cup {NoValue}]]

\* What the requests still say is true of the rows they still see.
LEMMA DataStep ==
  ASSUME Inv, Shrinks,
         secret' \in SecretType, history' \in HistoryType, held' \in [Sid -> SUBSET Value],
         \A x \in Req : \A j \in req[x].todo \cup {req[x].job} :
             j.row \in Sid /\ Live(j.row)' => Live(j.row) /\ held[j.row] \subseteq held'[j.row],
         \A x \in Req : req'[x].job.row \in Sid =>
             \A n \in Number : history'[req'[x].job.row][n] \in
                 {history[req'[x].job.row][n], NoValue}
  PROVE  TypeOK' /\ JobShape' /\ SnapshotsAreTrue' /\ LockIsExclusive' /\ NumberStaysFree'
<1>0. NoJob.row \notin Sid
  BY IdleType
<1>1. TypeOK'
  BY DEF TypeOK, Shrinks, Request, SecretType, HistoryType
<1>2. JobShape'
  BY DEF JobShape, Shrinks
<1>3. SnapshotsAreTrue'
  <2> SUFFICES ASSUME NEW x \in Req, NEW j \in {req'[x].job} \cup req'[x].todo,
                      j.row \in Sid, Live(j.row)', j.old # NoValue
               PROVE  j.old \in held'[j.row]
    BY DEF SnapshotsAreTrue, TrueJob
  <2>1. j \in req[x].todo \cup {req[x].job}
    BY <1>0 DEF Shrinks
  <2>2. Live(j.row) /\ held[j.row] \subseteq held'[j.row]
    BY <2>1
  <2>3. TrueJob(j)
    BY <2>1 DEF Inv, SnapshotsAreTrue
  <2> QED
    BY <2>2, <2>3 DEF TrueJob
<1>4. LockIsExclusive'
  BY <1>0 DEF Inv, LockIsExclusive, Shrinks
<1>5. NumberStaysFree'
  <2> SUFFICES ASSUME NEW x \in Req, req'[x].job.row \in Sid, req'[x].number # 0
               PROVE  history'[req'[x].job.row][req'[x].number] = NoValue
    BY DEF NumberStaysFree
  <2>1. req'[x] = req[x]
    BY <1>0 DEF Shrinks
  <2>2. req[x].number \in Number
    BY <2>1 DEF Inv, TypeOK
  <2>3. history[req[x].job.row][req[x].number] = NoValue
    BY <2>1 DEF Inv, NumberStaysFree
  <2> QED
    BY <2>1, <2>2, <2>3
<1> QED
  BY <1>1, <1>2, <1>3, <1>4, <1>5

\* The rows after an update, an insert or nothing: none disappears, and a new one
\* was known to nobody.
Grown ==
    /\ secret' \in SecretType /\ held' \in [Sid -> SUBSET Value]
    /\ CurrentIsHeld'
    /\ \A t \in Sid : Live(t) => Live(t)' /\ held[t] \subseteq held'[t]
    /\ \A t \in Sid : Live(t)' => Live(t) \/ Fresh(t)

\* A snapshot taken by the holder of the lock, or a history emptied.
HistoryStep ==
    /\ history' \in HistoryType
    /\ \A t \in Sid : \A n \in Number :
         \/ history'[t][n] \in {history[t][n], NoValue}
         \/ /\ history'[t][n] \in held[t] /\ Live(t)
            /\ \A x \in Req : req'[x].job.row # t

LEMMA WriteStep ==
  ASSUME Inv, Shrinks, Grown, HistoryStep
  PROVE  Inv'
<1>1. \A x \in Req : \A j \in req[x].todo \cup {req[x].job} :
         j.row \in Sid /\ Live(j.row)' => Live(j.row) /\ held[j.row] \subseteq held'[j.row]
  BY DEF Grown, Fresh
<1>2. \A x \in Req : req'[x].job.row \in Sid =>
         \A n \in Number : history'[req'[x].job.row][n] \in
             {history[req'[x].job.row][n], NoValue}
  BY DEF HistoryStep
<1>3. TypeOK' /\ JobShape' /\ SnapshotsAreTrue' /\ LockIsExclusive' /\ NumberStaysFree'
  BY <1>1, <1>2, DataStep DEF Grown, HistoryStep
<1>4. \A t \in Sid : \A n \in Number : ~Live(t) => history[t][n] = NoValue
  BY DEF Inv, GoneHaveNone, NoHistory
<1>5. GoneHaveNone'
  <2> SUFFICES ASSUME NEW t \in Sid, ~Live(t)'
               PROVE  history'[t] = NoHistory
    BY DEF GoneHaveNone
  <2>1. ~Live(t)
    BY DEF Grown
  <2>2. \A n \in Number : history'[t][n] = NoValue
    BY <2>1, <1>4 DEF HistoryStep
  <2>3. history'[t] \in [Number -> Value \cup {NoValue}]
    BY DEF HistoryStep, HistoryType
  <2> QED
    BY <2>2, <2>3 DEF NoHistory
<1>6. HistoryIsTrue'
  <2> SUFFICES ASSUME NEW t \in Sid, NEW n \in Number, history'[t][n] # NoValue
               PROVE  history'[t][n] \in held'[t]
    BY DEF HistoryIsTrue, Kept
  <2>1. Live(t) /\ history'[t][n] \in held[t]
    <3>1. CASE history'[t][n] = history[t][n]
      BY <1>4, <3>1 DEF Inv, HistoryIsTrue, Kept
    <3>2. CASE history'[t][n] # history[t][n]
      BY <3>2 DEF HistoryStep
    <3> QED
      BY <3>1, <3>2
  <2> QED
    BY <2>1 DEF Grown
<1> QED
  BY <1>3, <1>5, <1>6 DEF Inv, Grown

LEMMA UpdateGrows ==
  ASSUME Inv, NEW s \in Sid, NEW k \in Key \cup {NoKey}, NEW v \in Value,
         Live(s), Update(s, k, v)
  PROVE  Grown
<1>1. secret[s] \in [key: Key, value: Value]
  BY DEF Inv, TypeOK, Live
<1> DEFINE row == [key |-> IF k = NoKey THEN secret[s].key ELSE k, value |-> v]
<1>2. row \in [key: Key, value: Value] /\ row.value = v
  BY <1>1
<1>3. secret' = [secret EXCEPT ![s] = row] /\ held' = [held EXCEPT ![s] = @ \cup {v}]
  BY DEF Update
<1>4. row # NoSecret
  BY <1>2, SecretVersionsAssumption DEF NoSecret
<1> HIDE DEF row
<1>5. secret' \in SecretType /\ held' \in [Sid -> SUBSET Value]
  BY <1>2, <1>3 DEF SecretType, Inv, TypeOK
<1>6. \A t \in Sid : /\ secret'[t] = IF t = s THEN row ELSE secret[t]
                     /\ held'[t] = IF t = s THEN held[t] \cup {v} ELSE held[t]
  BY <1>3 DEF Inv, TypeOK
<1>7. CurrentIsHeld'
  BY <1>2, <1>6 DEF Inv, CurrentIsHeld, Live
<1> QED
  BY <1>4, <1>5, <1>6, <1>7 DEF Grown, Live

LEMMA InsertGrows ==
  ASSUME Inv, NEW s \in Sid, NEW k \in Key, NEW v \in Value, Insert(s, k, v)
  PROVE  Grown
<1> DEFINE row == [key |-> k, value |-> v]
<1>1. row \in [key: Key, value: Value] /\ row.value = v
  OBVIOUS
<1>2. /\ Fresh(s)
      /\ secret' = [secret EXCEPT ![s] = row]
      /\ held' = [held EXCEPT ![s] = {v}]
  BY DEF Insert
<1> HIDE DEF row
<1>3. secret' \in SecretType /\ held' \in [Sid -> SUBSET Value]
  BY <1>1, <1>2 DEF SecretType, Inv, TypeOK
<1>4. \A t \in Sid : /\ secret'[t] = IF t = s THEN row ELSE secret[t]
                     /\ held'[t] = IF t = s THEN {v} ELSE held[t]
  BY <1>2 DEF Inv, TypeOK
<1>5. CurrentIsHeld'
  BY <1>1, <1>4 DEF Inv, CurrentIsHeld, Live
<1> QED
  BY <1>2, <1>3, <1>4, <1>5 DEF Grown, Live, Fresh

LEMMA UpsertGrows ==
  ASSUME Inv, NEW s \in Sid, NEW k \in Key, NEW v \in Value, Upsert(s, k, v)
  PROVE  Grown
<1>1. CASE Finds(k, s) /\ Update(s, NoKey, v)
  <2>1. Live(s)
    BY <1>1, SecretVersionsAssumption DEF Finds, Live, NoSecret
  <2> QED
    BY <1>1, <2>1, UpdateGrows
<1>2. CASE Insert(s, k, v)
  BY <1>2, InsertGrows
<1> QED
  BY <1>1, <1>2 DEF Upsert

LEMMA NothingGrows ==
  ASSUME Inv, UNCHANGED <<secret, held>>
  PROVE  Grown
BY DEF Inv, TypeOK, SecretType, Grown, CurrentIsHeld, Live

LEMMA HistoryKept ==
  ASSUME Inv, UNCHANGED history
  PROVE  HistoryStep
BY DEF Inv, TypeOK, HistoryType, HistoryStep

-----------------------------------------------------------------------------
(* One lemma for each group of actions.                                    *)

LEMMA AskStep ==
  ASSUME Inv, NEW r \in Req, Ask(r)
  PROVE  Inv'
<1> USE DEF Op
<1>0. TypeOK /\ CurrentIsHeld /\ NoSid \notin Sid /\ NoKey \notin Key /\ NoValue \notin Value
  BY SecretVersionsAssumption DEF Inv
<1>n. NoJob.row \notin Sid
  BY IdleType
<1>1. ASSUME NEW k \in Key, NEW v \in Value, AskUpsert(r, k, v)
      PROVE  Inv'
  <2>1. PICK s \in Sid \cup {NoSid} : Begin(r, "upsert", {JobOn(s, k, v)}, 0)
    BY <1>1 DEF AskUpsert
  <2>2. JobOn(s, k, v) \in Job /\ TrueJob(JobOn(s, k, v))
    BY <1>0, JobType, JobTruth
  <2>3. JobOn(s, k, v).new = v /\ JobOn(s, k, v).key = k
    BY DEF JobOn
  <2>4. Shape([op |-> "upsert", todo |-> {JobOn(s, k, v)}, job |-> NoJob, number |-> 0])
    BY <1>n, <2>3 DEF Shape, Writer
  <2> QED
    BY <2>1, <2>2, <2>4, BeginStep
<1>2. ASSUME NEW k \in Key, NEW to \in Key \cup {NoKey}, NEW v \in Value \cup {NoValue},
             AskPatch(r, k, to, v)
      PROVE  Inv'
  <2>1. PICK s \in Sid :
          \/ v # NoValue /\ Begin(r, "patch", {JobOn(s, to, v)}, 0)
          \/ v = NoValue /\ to # NoKey /\ Begin(r, "rename", {PlainJob(s, to)}, 0)
    BY <1>2 DEF AskPatch
  <2>2. /\ JobOn(s, to, v) \in Job /\ TrueJob(JobOn(s, to, v))
        /\ PlainJob(s, to) \in Job /\ TrueJob(PlainJob(s, to))
    BY <1>0, JobType, JobTruth
  <2>3. /\ JobOn(s, to, v).new = v /\ JobOn(s, to, v).row = s
        /\ PlainJob(s, to).key = to /\ PlainJob(s, to).row = s
    BY DEF JobOn, PlainJob
  <2>4. CASE v # NoValue /\ Begin(r, "patch", {JobOn(s, to, v)}, 0)
    <3>1. Shape([op |-> "patch", todo |-> {JobOn(s, to, v)}, job |-> NoJob, number |-> 0])
      BY <1>0, <1>n, <2>3, <2>4 DEF Shape, Writer
    <3> QED
      BY <2>2, <2>4, <3>1, BeginStep
  <2>5. CASE v = NoValue /\ to # NoKey /\ Begin(r, "rename", {PlainJob(s, to)}, 0)
    <3>1. Shape([op |-> "rename", todo |-> {PlainJob(s, to)}, job |-> NoJob, number |-> 0])
      BY <1>n, <2>3, <2>5 DEF Shape, Writer
    <3> QED
      BY <2>2, <2>5, <3>1, BeginStep
  <2> QED
    BY <2>1, <2>4, <2>5
<1>3. ASSUME NEW k \in Key, AskDelete(r, k)
      PROVE  Inv'
  <2>1. PICK s \in Sid : Begin(r, "delete", {PlainJob(s, NoKey)}, 0)
    BY <1>3 DEF AskDelete
  <2>2. PlainJob(s, NoKey) \in Job /\ TrueJob(PlainJob(s, NoKey)) /\ PlainJob(s, NoKey).row = s
    BY <1>0, JobType, JobTruth DEF PlainJob
  <2>3. Shape([op |-> "delete", todo |-> {PlainJob(s, NoKey)}, job |-> NoJob, number |-> 0])
    BY <1>n, <2>2 DEF Shape, Writer
  <2> QED
    BY <2>1, <2>2, <2>3, BeginStep
<1>4. ASSUME NEW keys \in SUBSET Key, NEW v \in Value, NEW overwrite \in BOOLEAN,
             AskImport(r, keys, v, overwrite)
      PROVE  Inv'
  <2> DEFINE existing == {j \in {JobOn(s, NoKey, v) : s \in Sid} :
                            \E k \in keys : Finds(k, j.row)}
             missing == {JobOn(NoSid, k, v) : k \in {k \in keys : Finds(k, NoSid)}}
             jobs == missing \cup (IF overwrite THEN existing ELSE {})
  <2>1. Begin(r, "import", jobs, 0)
    BY <1>4 DEF AskImport
  <2>2. \A s \in Sid : /\ JobOn(s, NoKey, v) \in Job /\ TrueJob(JobOn(s, NoKey, v))
                       /\ JobOn(s, NoKey, v).new = v /\ JobOn(s, NoKey, v).row = s
    BY <1>0, JobType, JobTruth DEF JobOn
  <2>3. \A k \in Key : /\ JobOn(NoSid, k, v) \in Job /\ TrueJob(JobOn(NoSid, k, v))
                       /\ JobOn(NoSid, k, v).new = v /\ JobOn(NoSid, k, v).key = k
    BY <1>0, JobType, JobTruth DEF JobOn
  <2>4. \A j \in jobs : j \in Job /\ TrueJob(j) /\ j.new = v /\ (j.row = NoSid => j.key \in Key)
    BY <1>0, <2>2, <2>3
  <2> HIDE DEF jobs
  <2>5. Shape([op |-> "import", todo |-> jobs, job |-> NoJob, number |-> 0])
    BY <1>n, <2>4 DEF Shape, Writer
  <2>6. jobs \in SUBSET Job
    BY <2>4
  <2> QED
    BY <2>1, <2>4, <2>5, <2>6, BeginStep
<1>5. ASSUME NEW k \in Key, NEW n \in Number, AskRestore(r, k, n)
      PROVE  Inv'
  <2>1. PICK s \in Sid : Begin(r, "restore", {JobOn(s, NoKey, NoValue)}, n)
    BY <1>5 DEF AskRestore
  <2>2. /\ JobOn(s, NoKey, NoValue) \in Job /\ TrueJob(JobOn(s, NoKey, NoValue))
        /\ JobOn(s, NoKey, NoValue).row = s
    BY <1>0, JobType, JobTruth DEF JobOn
  <2>3. Shape([op |-> "restore", todo |-> {JobOn(s, NoKey, NoValue)}, job |-> NoJob, number |-> n])
    BY <1>n, <2>2 DEF Shape, Writer
  <2> QED
    BY <2>1, <2>2, <2>3, BeginStep
<1> QED
  BY <1>1, <1>2, <1>3, <1>4, <1>5 DEF Ask

LEMMA ReadVersionStep ==
  ASSUME Inv, NEW r \in Req, ReadVersion(r)
  PROVE  Inv'
<1>1. PICK j \in req[r].todo :
        LET n == req[r].number IN
        /\ req[r].op = "restore"
        /\ history[j.row][n] # NoValue
        /\ req' = [req EXCEPT ![r] =
               [op |-> "rollback", todo |-> {[j EXCEPT !.new = history[j.row][n]]},
                job |-> NoJob, number |-> 0]]
        /\ UNCHANGED <<secret, history, held>>
  BY DEF ReadVersion
<1> DEFINE v == history[j.row][req[r].number]
           i == [j EXCEPT !.new = v]
           q == [op |-> "rollback", todo |-> {i}, job |-> NoJob, number |-> 0]
<1>2. j \in Job /\ j.row \in Sid /\ req[r].number \in Number /\ TrueJob(j)
  BY <1>1 DEF Inv, TypeOK, JobShape, Shape, SnapshotsAreTrue
<1>3. v \in Value
  BY <1>1, <1>2 DEF Inv, TypeOK
<1>4. i \in Job /\ i.new = v /\ i.row = j.row /\ i.old = j.old
  BY <1>2, <1>3 DEF Job
<1> HIDE DEF i, v
<1>5. TrueJob(i) /\ TrueJob(NoJob) /\ NoJob.row \notin Sid
  BY <1>2, <1>4, IdleType DEF TrueJob
<1>6. q \in Request
  BY <1>4, IdleType DEF Request, Op
<1>7. Shape(q)
  BY <1>2, <1>3, <1>4, <1>5, SecretVersionsAssumption DEF Shape, Writer
<1>8. q.job = NoJob /\ q.todo = {i}
  OBVIOUS
<1>9. req' = [req EXCEPT ![r] = q]
  BY <1>1 DEF i, v
<1> HIDE DEF q
<1> QED
  BY <1>1, <1>5, <1>6, <1>7, <1>8, <1>9, RequestStep

LEMMA LockStep ==
  ASSUME Inv, NEW r \in Req, Lock(r)
  PROVE  Inv'
<1>1. PICK j \in req[r].todo :
        /\ Writes(r) /\ req[r].job = NoJob
        /\ \A i \in req[r].todo : i.row \in Sid
        /\ ~Locked(j.row)
        /\ req' = [req EXCEPT ![r] = [@ EXCEPT !.todo = req[r].todo \ {j}, !.job = j]]
        /\ UNCHANGED <<secret, history, held>>
  BY DEF Lock
<1> DEFINE q == [req[r] EXCEPT !.todo = req[r].todo \ {j}, !.job = j]
<1>2. req[r] \in Request /\ Shape(req[r])
  BY DEF Inv, TypeOK, JobShape, Request
<1>3. /\ q \in Request
      /\ q.op = req[r].op /\ q.todo = req[r].todo \ {j} /\ q.job = j /\ q.number = req[r].number
  BY <1>2 DEF Request
<1>4. req' = [req EXCEPT ![r] = q]
  BY <1>1, <1>2
<1> HIDE DEF q
<1>5. Shape(q)
  BY <1>1, <1>2, <1>3 DEF Shape, Writes, Writer
<1>6. TrueJob(j) /\ \A i \in q.todo : TrueJob(i)
  BY <1>3 DEF Inv, SnapshotsAreTrue
<1>7. \A x \in Req : req[x].job.row # j.row
  BY <1>1 DEF Locked
<1>8. q.number = 0
  BY <1>1, <1>2, <1>3 DEF Shape, Writes, Writer
<1>9. \A x \in Req \ {r} : req[x].job.row # q.job.row
  BY <1>3, <1>7
<1> QED
  BY <1>1, <1>3, <1>4, <1>5, <1>6, <1>8, <1>9, RequestStep

LEMMA ComputeStep ==
  ASSUME Inv, NEW r \in Req, Compute(r)
  PROVE  Inv'
<1>1. PICK n \in Number :
        /\ IsNext(history[req[r].job.row], n)
        /\ req' = [req EXCEPT ![r] = [@ EXCEPT !.number = n]]
  BY DEF Compute
<1>2. req[r].job.row \in Sid /\ UNCHANGED <<secret, history, held>>
  BY DEF Compute
<1> DEFINE q == [req[r] EXCEPT !.number = n]
<1>3. req[r] \in Request /\ Shape(req[r])
  BY DEF Inv, TypeOK, JobShape, Request
<1>4. /\ q \in Request
      /\ q.op = req[r].op /\ q.todo = req[r].todo /\ q.job = req[r].job /\ q.number = n
  BY <1>3 DEF Request
<1>5. req' = [req EXCEPT ![r] = q]
  BY <1>1, <1>3
<1> HIDE DEF q
<1>6. n \in Number /\ n # 0 /\ NoJob.row \notin Sid
  BY IdleType DEF Number
<1>7. Shape(q)
  BY <1>2, <1>3, <1>4, <1>6 DEF Shape, Writer
<1>8. TrueJob(q.job) /\ \A j \in q.todo : TrueJob(j)
  BY <1>4 DEF Inv, SnapshotsAreTrue
<1>9. \A x \in Req \ {r} : req[x].job.row # q.job.row
  BY <1>2, <1>4 DEF Inv, LockIsExclusive
<1>10. history[q.job.row][q.number] = NoValue
  <2>1. n >= n
    BY DEF Number
  <2> QED
    BY <1>1, <1>4, <2>1 DEF IsNext
<1> QED
  BY <1>2, <1>4, <1>5, <1>7, <1>8, <1>9, <1>10, RequestStep

\* Abort, Reject and Fail: a job or the request ends, and nothing is written.
LEMMA EndStep ==
  ASSUME Inv, NEW r \in Req, Abort(r) \/ Reject(r) \/ Fail(r)
  PROVE  Inv'
<1>1. UNCHANGED <<secret, history, held>>
  BY DEF Abort, Reject, Fail
<1>2. Shrinks
  <2>1. CASE Abort(r)
    <3>1. req[r].op # "restore" /\ Proceed(r, req[r].todo)
      BY <2>1 DEF Abort, Inv, JobShape, Shape, Writer
    <3> QED
      BY <3>1, ShrinkByProceed
  <2>2. CASE Reject(r) \/ Fail(r)
    BY <2>2, ShrinkToIdle DEF Reject, Fail
  <2> QED
    BY <2>1, <2>2
<1>3. Grown /\ HistoryStep
  BY <1>1, NothingGrows, HistoryKept
<1> QED
  BY <1>2, <1>3, WriteStep

LEMMA CommitStep ==
  ASSUME Inv, NEW r \in Req, Commit(r)
  PROVE  Inv'
<1> DEFINE j == req[r].job
           n == req[r].number
           h == [history[j.row] EXCEPT ![n] = j.old]
<1>1. /\ n # 0 /\ j.row \in Sid /\ Live(j.row)
      /\ history' = [history EXCEPT ![j.row] = Prune([@ EXCEPT ![n] = j.old])]
      /\ Proceed(r, req[r].todo)
  BY DEF Commit, Refused, Snapshot
<1>2. /\ j \in Job /\ n \in Number /\ j.new \in Value /\ req[r].op \in Writer
      /\ req[r].op = "upsert" => j.key \in Key
  BY <1>1 DEF Inv, TypeOK, JobShape, Shape
<1>3. Grown
  <2>1. CASE req[r].op = "upsert"
    <3>1. PICK s \in Sid : Upsert(s, j.key, j.new)
      BY <2>1 DEF Commit
    <3> QED
      BY <1>2, <2>1, <3>1, UpsertGrows
  <2>2. CASE req[r].op # "upsert"
    <3>1. Update(j.row, j.key, j.new)
      BY <2>2 DEF Commit
    <3>2. j.key \in Key \cup {NoKey}
      BY <1>2 DEF Job
    <3> QED
      BY <1>1, <1>2, <3>1, <3>2, UpdateGrows
  <2> QED
    BY <2>1, <2>2
<1>4. Shrinks /\ \A x \in Req : req'[x].job = IF x = r THEN NoJob ELSE req[x].job
  BY <1>1, <1>2, ShrinkByProceed DEF Writer
<1>5. \A x \in Req : req'[x].job.row # j.row
  BY <1>1, <1>4, IdleType DEF Inv, LockIsExclusive
<1>6. h \in [Number -> Value \cup {NoValue}]
  BY <1>1, <1>2 DEF Inv, TypeOK, Job
<1>7. \A t \in Sid : history'[t] = IF t = j.row THEN Prune(h) ELSE history[t]
  BY <1>1 DEF Inv, TypeOK
<1>8. j.old # NoValue => j.old \in held[j.row]
  BY <1>1 DEF Inv, SnapshotsAreTrue, TrueJob
<1>9. \A m \in Number : h[m] = IF m = n THEN j.old ELSE history[j.row][m]
  BY <1>1, <1>2 DEF Inv, TypeOK
<1> HIDE DEF h, j, n
<1>10. /\ Prune(h) \in [Number -> Value \cup {NoValue}]
       /\ \A m \in Number : Prune(h)[m] \in {h[m], NoValue}
  BY <1>6, PruneRemoves
<1>11. HistoryStep
  <2>1. history' \in HistoryType
    <3>1. history' = [history EXCEPT ![j.row] = Prune(h)]
      BY <1>1 DEF h, j, n
    <3> QED
      BY <1>1, <1>10, <3>1 DEF Inv, TypeOK, HistoryType
  <2>2. ASSUME NEW t \in Sid, NEW m \in Number
        PROVE  \/ history'[t][m] \in {history[t][m], NoValue}
               \/ /\ history'[t][m] \in held[t] /\ Live(t)
                  /\ \A x \in Req : req'[x].job.row # t
    <3>1. CASE t # j.row
      BY <1>7, <3>1
    <3>2. CASE t = j.row /\ m # n
      BY <1>7, <1>9, <1>10, <3>2
    <3>3. CASE t = j.row /\ m = n
      BY <1>1, <1>5, <1>7, <1>8, <1>9, <1>10, <3>3
    <3> QED
      BY <3>1, <3>2, <3>3
  <2> QED
    BY <2>1, <2>2 DEF HistoryStep
<1> QED
  BY <1>3, <1>4, <1>11, WriteStep

\* Writes that leave the histories alone.
LEMMA PlainWriteStep ==
  ASSUME Inv,
         \/ \E r \in Req : CreateOrReplace(r) \/ CreateImported(r) \/ Rename(r)
         \/ \E k \in Key, v \in Value : ImportReceived(k, v)
  PROVE  Inv'
<1>1. ASSUME NEW r \in Req, CreateOrReplace(r) PROVE Inv'
  <2>1. PICK j \in req[r].todo, s \in Sid :
          /\ req[r].op = "upsert" /\ Upsert(s, j.key, j.new)
          /\ req' = [req EXCEPT ![r] = Idle] /\ UNCHANGED history
    BY <1>1 DEF CreateOrReplace
  <2>2. j.key \in Key /\ j.new \in Value
    BY <2>1 DEF Inv, JobShape, Shape, Writer
  <2> QED
    BY <2>1, <2>2, UpsertGrows, ShrinkToIdle, HistoryKept, WriteStep
<1>2. ASSUME NEW r \in Req, CreateImported(r) PROVE Inv'
  <2>1. PICK j \in req[r].todo :
          /\ req[r].op = "import" /\ j.row = NoSid
          /\ \/ Finds(j.key, NoSid) /\ \E s \in Sid : Insert(s, j.key, j.new)
             \/ UNCHANGED <<secret, held>>
          /\ Proceed(r, req[r].todo \ {j})
          /\ UNCHANGED history
    BY <1>2 DEF CreateImported
  <2>2. j.key \in Key /\ j.new \in Value
    BY <2>1 DEF Inv, JobShape, Shape, Writer
  <2>3. Grown
    BY <2>1, <2>2, InsertGrows, NothingGrows
  <2>4. Shrinks
    BY <2>1, ShrinkByProceed
  <2> QED
    BY <2>1, <2>3, <2>4, HistoryKept, WriteStep
<1>3. ASSUME NEW r \in Req, Rename(r) PROVE Inv'
  <2>1. PICK j \in req[r].todo :
          /\ req[r].op = "rename" /\ Live(j.row)
          /\ secret' = [secret EXCEPT ![j.row] = [@ EXCEPT !.key = j.key]]
          /\ req' = [req EXCEPT ![r] = Idle] /\ UNCHANGED <<history, held>>
    BY <1>3 DEF Rename
  <2>2. j.key \in Key /\ j.row \in Sid
    BY <2>1 DEF Inv, JobShape, Shape
  <2> DEFINE row == [secret[j.row] EXCEPT !.key = j.key]
  <2>3. secret[j.row] \in [key: Key, value: Value]
    BY <2>1, <2>2 DEF Inv, TypeOK, Live
  <2>4. row \in [key: Key, value: Value] /\ row.value = secret[j.row].value
    BY <2>2, <2>3
  <2>5. row # NoSecret
    BY <2>4, SecretVersionsAssumption DEF NoSecret
  <2>6. secret' = [secret EXCEPT ![j.row] = row]
    BY <2>1
  <2> HIDE DEF row
  <2>7. \A t \in Sid : secret'[t] = IF t = j.row THEN row ELSE secret[t]
    BY <2>6 DEF Inv, TypeOK
  <2>8. secret' \in SecretType /\ held' \in [Sid -> SUBSET Value]
    <3>1. secret' \in SecretType
      BY <2>2, <2>4, <2>6 DEF Inv, TypeOK, SecretType
    <3>2. held' \in [Sid -> SUBSET Value]
      BY <2>1 DEF Inv, TypeOK
    <3> QED
      BY <3>1, <3>2
  <2>9. CurrentIsHeld'
    BY <2>1, <2>4, <2>7 DEF Inv, CurrentIsHeld, Live
  <2>10. Grown
    BY <2>1, <2>5, <2>7, <2>8, <2>9 DEF Grown, Live
  <2> QED
    BY <2>1, <2>10, ShrinkToIdle, HistoryKept, WriteStep
<1>4. ASSUME NEW k \in Key, NEW v \in Value, ImportReceived(k, v) PROVE Inv'
  <2>1. PICK s \in Sid : Upsert(s, k, v) /\ UNCHANGED <<history, req>>
    BY <1>4 DEF ImportReceived
  <2> QED
    BY <2>1, UpsertGrows, ShrinkByNothing, HistoryKept, WriteStep
<1> QED
  BY <1>1, <1>2, <1>3, <1>4

LEMMA WipeStep ==
  ASSUME Inv, NEW r \in Req, WipeHistory(r)
  PROVE  Inv'
<1>1. PICK j \in req[r].todo :
        /\ req[r].op = "delete"
        /\ history' = [history EXCEPT ![j.row] = NoHistory]
        /\ req' = [req EXCEPT ![r] = [@ EXCEPT !.op = "remove"]]
        /\ UNCHANGED <<secret, held>>
  BY DEF WipeHistory
<1> DEFINE q == [req[r] EXCEPT !.op = "remove"]
<1>2. req[r] \in Request /\ Shape(req[r]) /\ j.row \in Sid
  BY <1>1 DEF Inv, TypeOK, JobShape, Request, Shape
<1>3. /\ q \in Request
      /\ q.op = "remove" /\ q.todo = req[r].todo /\ q.job = req[r].job /\ q.number = req[r].number
  BY <1>2 DEF Request, Op
<1>4. req' = [req EXCEPT ![r] = q]
  BY <1>1, <1>2
<1> HIDE DEF q
<1>5. req[r].job.row \notin Sid
  BY <1>1, <1>2 DEF Shape, Writer
<1>6. Shape(q)
  BY <1>1, <1>2, <1>3, <1>5 DEF Shape, Writer
<1>7. \A x \in Req : /\ req'[x] = IF x = r THEN q ELSE req[x]
                     /\ req'[x].job = req[x].job
  BY <1>3, <1>4 DEF Inv, TypeOK
<1>8. TypeOK' /\ HistoryStep
  <2>1. HistoryStep
    BY <1>1, <1>2, NoHistoryType DEF Inv, TypeOK, HistoryStep, HistoryType, NoHistory
  <2>2. TypeOK'
    BY <1>1, <1>3, <1>4, <2>1 DEF Inv, TypeOK, HistoryStep, HistoryType, Request
  <2> QED
    BY <2>1, <2>2
<1>9. \A t \in Sid : \A n \in Number : history'[t][n] \in {history[t][n], NoValue}
  BY <1>1, <1>2 DEF Inv, TypeOK, NoHistory
<1>10. JobShape'
  BY <1>6, <1>7 DEF Inv, JobShape
<1>11. SnapshotsAreTrue'
  BY <1>1, <1>3, <1>7 DEF Inv, SnapshotsAreTrue, TrueJob, Live
<1>12. CurrentIsHeld' /\ GoneHaveNone'
  BY <1>1, <1>2 DEF Inv, TypeOK, CurrentIsHeld, GoneHaveNone, Live
<1>13. LockIsExclusive'
  BY <1>7 DEF Inv, LockIsExclusive
<1>14. NumberStaysFree'
  <2> SUFFICES ASSUME NEW x \in Req, req'[x].job.row \in Sid, req'[x].number # 0
               PROVE  history'[req'[x].job.row][req'[x].number] = NoValue
    BY DEF NumberStaysFree
  <2>1. req'[x] = req[x]
    BY <1>5, <1>7
  <2>2. req[x].number \in Number /\ history[req[x].job.row][req[x].number] = NoValue
    BY <2>1 DEF Inv, TypeOK, NumberStaysFree
  <2> QED
    BY <1>9, <2>1, <2>2
<1>15. HistoryIsTrue'
  BY <1>1, <1>9 DEF Inv, HistoryIsTrue, Kept
<1> QED
  BY <1>8, <1>10, <1>11, <1>12, <1>13, <1>14, <1>15 DEF Inv

LEMMA RemoveStep ==
  ASSUME Inv, NEW r \in Req, Remove(r)
  PROVE  Inv'
<1>1. PICK j \in req[r].todo :
        /\ req[r].op = "remove" /\ Live(j.row)
        /\ secret' = [secret EXCEPT ![j.row] = NoSecret]
        /\ history' = [history EXCEPT ![j.row] = NoHistory]
        /\ held' = [held EXCEPT ![j.row] = {}]
        /\ req' = [req EXCEPT ![r] = Idle]
  BY DEF Remove
<1>2. j.row \in Sid
  BY <1>1 DEF Inv, JobShape, Shape
<1>3. Shrinks
  BY <1>1, ShrinkToIdle
<1>4. \A t \in Sid : /\ secret'[t] = IF t = j.row THEN NoSecret ELSE secret[t]
                     /\ history'[t] = IF t = j.row THEN NoHistory ELSE history[t]
                     /\ held'[t] = IF t = j.row THEN {} ELSE held[t]
  BY <1>1 DEF Inv, TypeOK
<1>5. /\ secret' \in SecretType /\ history' \in HistoryType
      /\ held' \in [Sid -> SUBSET Value]
  BY <1>1, NoHistoryType DEF Inv, TypeOK, SecretType, HistoryType
<1>6. \A t \in Sid : Live(t)' => Live(t) /\ held[t] \subseteq held'[t]
  BY <1>4 DEF Live
<1>7. \A t \in Sid : \A n \in Number : history'[t][n] \in {history[t][n], NoValue}
  BY <1>4 DEF NoHistory
<1>8. TypeOK' /\ JobShape' /\ SnapshotsAreTrue' /\ LockIsExclusive' /\ NumberStaysFree'
  BY <1>3, <1>5, <1>6, <1>7, DataStep
<1>9. CurrentIsHeld' /\ GoneHaveNone'
  BY <1>4 DEF Inv, CurrentIsHeld, GoneHaveNone, Live
<1>10. HistoryIsTrue'
  BY <1>4 DEF Inv, HistoryIsTrue, Kept, NoHistory
<1> QED
  BY <1>8, <1>9, <1>10 DEF Inv

-----------------------------------------------------------------------------
(* The theorems.                                                           *)

LEMMA InvInit == Init => Inv
<1> SUFFICES ASSUME Init PROVE Inv
  OBVIOUS
<1>1. TypeOK
  BY IdleType, NoHistoryType DEF Init, TypeOK, Request
<1>2. \A r \in Req : req[r] = Idle /\ Idle.job = NoJob /\ Idle.todo = {} /\ Shape(Idle)
  BY IdleType DEF Init, Idle
<1>3. JobShape /\ SnapshotsAreTrue /\ LockIsExclusive /\ NumberStaysFree
  BY <1>2, IdleType
     DEF JobShape, SnapshotsAreTrue, TrueJob, LockIsExclusive, NumberStaysFree
<1>4. CurrentIsHeld /\ GoneHaveNone /\ HistoryIsTrue
  BY DEF Init, CurrentIsHeld, GoneHaveNone, HistoryIsTrue, Kept, Live, NoHistory
<1> QED
  BY <1>1, <1>3, <1>4 DEF Inv

LEMMA InvNext == Inv /\ [Next]_vars => Inv'
<1> SUFFICES ASSUME Inv, [Next]_vars PROVE Inv'
  OBVIOUS
<1>1. CASE UNCHANGED vars
  <2>1. Shrinks /\ Grown /\ HistoryStep
    BY <1>1, ShrinkByNothing, NothingGrows, HistoryKept DEF vars
  <2> QED
    BY <2>1, WriteStep
<1>2. ASSUME NEW r \in Req, Ask(r) PROVE Inv'
  BY <1>2, AskStep
<1>3. ASSUME NEW r \in Req, Lock(r) PROVE Inv'
  BY <1>3, LockStep
<1>4. ASSUME NEW r \in Req, Advance(r) PROVE Inv'
  <2>1. CASE ReadVersion(r)
    BY <2>1, ReadVersionStep
  <2>2. CASE Compute(r)
    BY <2>2, ComputeStep
  <2>3. CASE Commit(r)
    BY <2>3, CommitStep
  <2>4. CASE Abort(r) \/ Reject(r)
    BY <2>4, EndStep
  <2>5. CASE CreateOrReplace(r) \/ CreateImported(r) \/ Rename(r)
    BY <2>5, PlainWriteStep
  <2>6. CASE WipeHistory(r)
    BY <2>6, WipeStep
  <2>7. CASE Remove(r)
    BY <2>7, RemoveStep
  <2> QED
    BY <1>4, <2>1, <2>2, <2>3, <2>4, <2>5, <2>6, <2>7 DEF Advance
<1>5. ASSUME NEW r \in Req, Fail(r) PROVE Inv'
  BY <1>5, EndStep
<1>6. ASSUME NEW k \in Key, NEW v \in Value, ImportReceived(k, v) PROVE Inv'
  BY <1>6, PlainWriteStep
<1> QED
  BY <1>1, <1>2, <1>3, <1>4, <1>5, <1>6 DEF Next

LEMMA InvAlways == Spec => []Inv
BY InvInit, InvNext, PTL DEF Spec

\* The tables and the requests keep their types.
THEOREM TypeCorrect == Spec => []TypeOK
<1>1. Inv => TypeOK
  BY DEF Inv
<1> QED
  BY <1>1, InvAlways, PTL

\* lib/versioning.ts:152-155, of any number of concurrent writers: the insert never
\* meets the number it computed, so the retry is never needed.
THEOREM LockGuardsTheNumber == Spec => []NumberStaysFree
<1>1. Inv => NumberStaysFree
  BY DEF Inv
<1> QED
  BY <1>1, InvAlways, PTL

\* Whatever renames, deletions, imports and failures run in between, a version is a
\* value of the secret it belongs to.
THEOREM VersionsAreTrue == Spec => []HistoryIsTrue
<1>1. Inv => HistoryIsTrue
  BY DEF Inv
<1> QED
  BY <1>1, InvAlways, PTL
-----------------------------------------------------------------------------
(* The window.  The number computed under the lock stays the next one:     *)
(* above it nothing is kept, and the one below it is, unless a deletion    *)
(* emptied the history.  This needs the rows of an import to be known      *)
(* before its first lock.                                                  *)

KeptOf(h) == {n \in Number : h[n] # NoValue}
Above(h, m) == {k \in Number : k > m /\ h[k] # NoValue}
Gapless(S) == \A a, c \in S : \A b \in Number : a < b /\ b < c => b \in S

NumberIsNext ==
    \A r \in Req :
        LET s == req[r].job.row
            n == req[r].number
        IN  s \in Sid /\ n # 0 =>
              /\ \A m \in Number : m >= n => history[s][m] = NoValue
              /\ KeptOf(history[s]) # {} => n - 1 \in KeptOf(history[s])

RowsAreKnown == \A r \in Req : req[r].job.row \in Sid => \A j \in req[r].todo : j.row \in Sid

WindowInv == Inv /\ NumberIsNext /\ RowsAreKnown /\ HistoryIsAWindow

LEMMA NumberFacts == /\ MaxNumber \in Nat /\ MaxVersions \in Nat /\ MaxVersions > 0
                     /\ \A n \in Number : n \in Nat /\ n > 0
                     /\ Number \in SUBSET Nat /\ IsFiniteSet(Number)
<1>1. MaxNumber \in Nat /\ MaxVersions \in Nat /\ MaxVersions > 0
  BY SecretVersionsAssumption
<1>2. IsFiniteSet(1..MaxNumber)
  BY <1>1, FS_Interval
<1> QED
  BY <1>1, <1>2 DEF Number

LEMMA NatOrder ==
  ASSUME NEW S \in SUBSET Nat, S # {}
  PROVE  \E x \in S : \A y \in S : x <= y
<1> DEFINE less == {ss \in Nat \X Nat : ss[1] < ss[2]}
<1>1. \A x, y \in Nat : <<x, y>> \in less <=> x < y
  OBVIOUS
<1>2. IsWellFoundedOn(less, Nat)
  BY NatLessThanWellFounded DEF OpToRel
<1> HIDE DEF less
<1>3. PICK x \in S : \A y \in S : ~ (<<y, x>> \in less)
  BY <1>2, WFMin
<1>4. \A y \in S : x <= y
  <2> SUFFICES ASSUME NEW y \in S PROVE x <= y
    OBVIOUS
  <2>1. x \in Nat /\ y \in Nat
    OBVIOUS
  <2>2. ~(y < x)
    BY <1>1, <1>3, <2>1
  <2> QED
    BY <2>1, <2>2
<1> QED
  BY <1>4

\* Fewer versions are above a later one.
LEMMA AboveShrinks ==
  ASSUME NEW h, NEW a \in Number, NEW b \in Number, a <= b
  PROVE  /\ IsFiniteSet(Above(h, a)) /\ Cardinality(Above(h, a)) \in Nat
         /\ Cardinality(Above(h, b)) \in Nat
         /\ Cardinality(Above(h, b)) <= Cardinality(Above(h, a))
<1>0. \A k \in Number : k > b => k > a
  BY NumberFacts
<1>1. Above(h, a) \in SUBSET Number /\ Above(h, b) \in SUBSET Above(h, a)
  BY <1>0 DEF Above
<1>2. IsFiniteSet(Above(h, a))
  BY <1>1, NumberFacts, FS_Subset
<1>3. IsFiniteSet(Above(h, b)) /\ Cardinality(Above(h, b)) <= Cardinality(Above(h, a))
  BY <1>1, <1>2, FS_Subset
<1> QED
  BY <1>2, <1>3, FS_CardinalityType

\* What the retention leaves, in one place: what has few enough above it.
LEMMA PruneLeaves ==
  ASSUME NEW h, NEW m \in Number
  PROVE  /\ m \in KeptOf(Prune(h)) <=> m \in KeptOf(h) /\ Cardinality(Above(h, m)) < MaxVersions
         /\ m \in KeptOf(Prune(h)) => Prune(h)[m] = h[m]
<1>1. Prune(h)[m] = IF Cardinality(Above(h, m)) >= MaxVersions THEN NoValue ELSE h[m]
  BY DEF Prune, Above
<1>2. Cardinality(Above(h, m)) \in Nat
  <2>1. m <= m
    BY NumberFacts
  <2> QED
    BY <2>1, AboveShrinks
<1> QED
  BY <1>1, <1>2, NumberFacts DEF KeptOf

\* The retention leaves no gap where there was none, and at most MaxVersions.
LEMMA PruneWindow ==
  ASSUME NEW h, Gapless(KeptOf(h))
  PROVE  Gapless(KeptOf(Prune(h))) /\ Cardinality(KeptOf(Prune(h))) <= MaxVersions
<1> DEFINE K == KeptOf(Prune(h))
<1>0. K \subseteq Number /\ K \subseteq KeptOf(h)
  <2>1. K \subseteq Number
    BY DEF KeptOf
  <2> QED
    BY <2>1, PruneLeaves
<1> HIDE DEF K
<1>1. Gapless(K)
  <2> SUFFICES ASSUME NEW a \in K, NEW c \in K, NEW b \in Number, a < b, b < c
               PROVE  b \in K
    BY DEF Gapless
  <2>1. b \in KeptOf(h)
    BY <1>0 DEF Gapless
  <2>2. a \in Number /\ a <= b
    <3>1. a \in Number
      BY <1>0
    <3> QED
      BY <3>1, NumberFacts
  <2>3. /\ Cardinality(Above(h, a)) \in Nat /\ Cardinality(Above(h, b)) \in Nat
        /\ Cardinality(Above(h, b)) <= Cardinality(Above(h, a))
    BY <2>2, AboveShrinks
  <2>4. Cardinality(Above(h, a)) < MaxVersions
    BY <2>2, PruneLeaves DEF K
  <2>5. Cardinality(Above(h, b)) < MaxVersions
    BY <2>3, <2>4, NumberFacts
  <2> QED
    BY <2>1, <2>5, PruneLeaves DEF K
<1>2. CASE K = {}
  <2>1. Cardinality(K) = 0
    BY <1>2, FS_EmptySet
  <2> QED
    BY <1>1, <2>1, NumberFacts DEF K
<1>3. CASE K # {}
  <2>1. PICK a \in K : \A b \in K : a <= b
    BY <1>0, <1>3, NatOrder, NumberFacts
  <2>2. a \in Number /\ a <= a
    <3>1. a \in Number
      BY <1>0
    <3> QED
      BY <3>1, NumberFacts
  <2>3. IsFiniteSet(Above(h, a)) /\ Cardinality(Above(h, a)) \in Nat
    BY <2>2, AboveShrinks
  <2>4. Cardinality(Above(h, a)) < MaxVersions
    BY <2>1, <2>2, PruneLeaves DEF K
  <2>5. IsFiniteSet(K)
    BY <1>0, NumberFacts, FS_Subset
  <2>6. IsFiniteSet(K \ {a}) /\ Cardinality(K \ {a}) = Cardinality(K) - 1
    BY <2>1, <2>5, FS_RemoveElement
  <2>7. K \ {a} \in SUBSET Above(h, a)
    <3> SUFFICES ASSUME NEW k \in K, k # a PROVE k \in Above(h, a)
      OBVIOUS
    <3>1. k \in Number /\ a <= k /\ h[k] # NoValue
      BY <1>0, <2>1 DEF KeptOf
    <3> QED
      BY <2>2, <3>1, NumberFacts DEF Above
  <2>8. Cardinality(K \ {a}) <= Cardinality(Above(h, a))
    BY <2>3, <2>7, FS_Subset
  <2>9. Cardinality(K) \in Nat
    BY <2>5, FS_CardinalityType
  <2> QED
    BY <1>1, <2>3, <2>4, <2>6, <2>8, <2>9, NumberFacts DEF K
<1> QED
  BY <1>1, <1>2, <1>3 DEF K

LEMMA EmptyWindow == KeptOf(NoHistory) = {} /\ Gapless({}) /\ Cardinality({}) <= MaxVersions
BY FS_EmptySet, NumberFacts DEF KeptOf, NoHistory, Gapless

\* The next number, once free above it, closes the window; it is the newest, and
\* the retention never takes it.
LEMMA NextNumberCloses ==
  ASSUME NEW h, Gapless(KeptOf(h)), NEW n \in Number, NEW v, NEW g,
         \A m \in Number : m >= n => h[m] = NoValue,
         KeptOf(h) # {} => n - 1 \in KeptOf(h),
         \A m \in Number : g[m] = IF m = n THEN v ELSE h[m]
  PROVE  /\ Gapless(KeptOf(g))
         /\ v # NoValue => /\ n \in KeptOf(Prune(g)) /\ Prune(g)[n] = v
                           /\ \A m \in KeptOf(Prune(g)) : m <= n
<1>1. \A m \in KeptOf(h) : m \in Number /\ m < n
  BY NumberFacts DEF KeptOf
<1>2. KeptOf(g) = IF v = NoValue THEN KeptOf(h) ELSE KeptOf(h) \cup {n}
  <2>1. \A m \in Number : m \in KeptOf(g) <=> m \in KeptOf(h) \/ (m = n /\ v # NoValue)
    BY <1>1, NumberFacts DEF KeptOf
  <2>2. KeptOf(g) \subseteq Number /\ KeptOf(h) \subseteq Number
    BY DEF KeptOf
  <2> QED
    BY <2>1, <2>2
<1>3. Gapless(KeptOf(g))
  <2> SUFFICES ASSUME NEW a \in KeptOf(g), NEW c \in KeptOf(g), NEW b \in Number, a < b, b < c
               PROVE  b \in KeptOf(g)
    BY DEF Gapless
  <2>1. CASE c \in KeptOf(h) /\ a \in KeptOf(h)
    BY <1>2, <2>1 DEF Gapless
  <2>2. CASE c \notin KeptOf(h)
    <3>1. c = n /\ a \in KeptOf(h) /\ n - 1 \in KeptOf(h)
      BY <1>2, <2>2, NumberFacts
    <3>2. b = n - 1 \/ b < n - 1
      BY <3>1, NumberFacts
    <3> QED
      BY <1>2, <3>1, <3>2 DEF Gapless
  <2>3. CASE a \notin KeptOf(h)
    <3>1. a = n /\ c \in Number /\ (c \in KeptOf(h) \/ c = n)
      <4>1. a \in KeptOf(h) \cup {n} /\ c \in KeptOf(h) \cup {n}
        BY <1>2
      <4>2. \A m \in KeptOf(h) \cup {n} : m \in Number
        BY DEF KeptOf
      <4> QED
        BY <2>3, <4>1, <4>2
    <3>2. c <= n
      BY <1>1, <3>1, NumberFacts
    <3>3. n \in Nat /\ c \in Nat /\ b \in Nat
      BY <3>1, NumberFacts
    <3> QED
      BY <3>1, <3>2, <3>3
  <2> QED
    BY <2>1, <2>2, <2>3
<1>4. ASSUME v # NoValue
      PROVE  /\ n \in KeptOf(Prune(g)) /\ Prune(g)[n] = v
             /\ \A m \in KeptOf(Prune(g)) : m <= n
  <2>1. Above(g, n) = {}
    <3>1. \A m \in Number : m > n => m >= n /\ m # n
      BY NumberFacts
    <3> QED
      BY <3>1 DEF Above
  <2>2. Cardinality(Above(g, n)) < MaxVersions
    BY <2>1, FS_EmptySet, NumberFacts
  <2>3. n \in KeptOf(g)
    BY <1>2, <1>4
  <2>4. n \in KeptOf(Prune(g)) /\ Prune(g)[n] = v
    BY <2>2, <2>3, PruneLeaves
  <2>5. \A m \in KeptOf(Prune(g)) : m \in KeptOf(g)
    <3>1. \A m \in KeptOf(Prune(g)) : m \in Number
      BY DEF KeptOf
    <3> QED
      BY <3>1, PruneLeaves
  <2>6. \A m \in KeptOf(g) : m <= n
    <3> SUFFICES ASSUME NEW m \in KeptOf(g) PROVE m <= n
      OBVIOUS
    <3>1. m \in KeptOf(h) \/ m = n
      BY <1>2
    <3>2. n \in Nat /\ (m \in KeptOf(h) => m \in Nat /\ m < n)
      BY <1>1, NumberFacts
    <3> QED
      BY <3>1, <3>2
  <2> QED
    BY <2>4, <2>5, <2>6
<1> QED
  BY <1>3, <1>4

LEMMA KeptIs == \A s \in Sid : Kept(s) = KeptOf(history[s])
BY DEF Kept, KeptOf

\* What a step does to the requests: who holds a lock held it before, or takes it,
\* or computes its number.
RequestWay(x) ==
    req'[x].job.row \in Sid =>
        \/ req'[x] = req[x]
        \/ Lock(x) /\ req'[x].number = 0 /\ \A j \in req'[x].todo : j.row \in Sid
        \/ Compute(x)

LEMMA OneRequest ==
  ASSUME Inv, NEW r \in Req, NEW q, req' = [req EXCEPT ![r] = q], q.job.row \notin Sid
  PROVE  \A x \in Req : RequestWay(x)
BY DEF Inv, TypeOK, RequestWay

LEMMA ProceedWay ==
  ASSUME Inv, NEW r \in Req, NEW rest, Proceed(r, rest)
  PROVE  \A x \in Req : RequestWay(x)
<1> DEFINE q == IF rest = {} THEN Idle
                ELSE [op |-> req[r].op, todo |-> rest, job |-> NoJob, number |-> 0]
<1>1. q.job.row \notin Sid
  BY IdleType DEF Idle
<1>2. req' = [req EXCEPT ![r] = q]
  BY DEF Proceed
<1> HIDE DEF q
<1> QED
  BY <1>1, <1>2, OneRequest

LEMMA IdleWay ==
  ASSUME Inv, NEW r \in Req, req' = [req EXCEPT ![r] = Idle]
  PROVE  \A x \in Req : RequestWay(x)
<1>1. Idle.job.row \notin Sid
  BY IdleType DEF Idle
<1> QED
  BY <1>1, OneRequest

LEMMA BeginWay ==
  ASSUME Inv, NEW r \in Req, NEW op, NEW jobs, NEW n, Begin(r, op, jobs, n)
  PROVE  (\A x \in Req : RequestWay(x)) /\ UNCHANGED <<secret, history>>
<1> DEFINE q == [op |-> op, todo |-> jobs, job |-> NoJob, number |-> n]
<1>1. q.job.row \notin Sid
  BY IdleType
<1>2. req' = [req EXCEPT ![r] = q] /\ UNCHANGED <<secret, history>>
  BY DEF Begin
<1> HIDE DEF q
<1> QED
  BY <1>1, <1>2, OneRequest

LEMMA AskWay ==
  ASSUME Inv, NEW r \in Req, Ask(r)
  PROVE  (\A x \in Req : RequestWay(x)) /\ UNCHANGED <<secret, history>>
<1>1. PICK op, jobs, n : Begin(r, op, jobs, n)
  BY DEF Ask, AskUpsert, AskPatch, AskDelete, AskImport, AskRestore
<1> QED
  BY <1>1, BeginWay

LEMMA RequestWays ==
  ASSUME WindowInv, Next
  PROVE  \A x \in Req : RequestWay(x)
<1>0. Inv
  BY DEF WindowInv
<1>1. ASSUME NEW r \in Req, Lock(r) PROVE \A x \in Req : RequestWay(x)
  <2>1. PICK j \in req[r].todo :
          /\ Writes(r) /\ req[r].job = NoJob
          /\ \A i \in req[r].todo : i.row \in Sid
          /\ ~Locked(j.row)
          /\ req' = [req EXCEPT ![r] = [@ EXCEPT !.todo = req[r].todo \ {j}, !.job = j]]
          /\ UNCHANGED <<secret, history, held>>
    BY <1>1, Zenon DEF Lock
  <2>2. req[r] \in Request /\ req[r].number = 0
    BY <1>0, <2>1 DEF Inv, TypeOK, Request, JobShape, Shape, Writes, Writer
  <2>3. \A x \in Req : req'[x] = IF x = r THEN [req[r] EXCEPT !.todo = req[r].todo \ {j}, !.job = j]
                                 ELSE req[x]
    BY <1>0, <2>1 DEF Inv, TypeOK
  <2>4. req'[r].number = 0 /\ req'[r].todo = req[r].todo \ {j}
    BY <2>2, <2>3 DEF Request
  <2> QED
    BY <1>1, <2>1, <2>3, <2>4 DEF RequestWay
<1>2. ASSUME NEW r \in Req, Compute(r) PROVE \A x \in Req : RequestWay(x)
  <2>1. \A x \in Req \ {r} : req'[x] = req[x]
    BY <1>0, <1>2 DEF Compute, Inv, TypeOK
  <2> QED
    BY <1>2, <2>1 DEF RequestWay
<1>3. ASSUME NEW r \in Req, Ask(r) PROVE \A x \in Req : RequestWay(x)
  BY <1>0, <1>3, AskWay
<1>4. ASSUME NEW r \in Req, Commit(r) \/ Abort(r) \/ CreateImported(r)
      PROVE  \A x \in Req : RequestWay(x)
  <2>1. PICK rest : Proceed(r, rest)
    BY <1>4 DEF Commit, Abort, CreateImported
  <2> QED
    BY <1>0, <2>1, ProceedWay
<1>5. ASSUME NEW r \in Req,
             CreateOrReplace(r) \/ Rename(r) \/ Remove(r) \/ Reject(r) \/ Fail(r)
      PROVE  \A x \in Req : RequestWay(x)
  <2>1. req' = [req EXCEPT ![r] = Idle]
    BY <1>5 DEF CreateOrReplace, Rename, Remove, Reject, Fail
  <2> QED
    BY <1>0, <2>1, IdleWay
<1>6. ASSUME NEW r \in Req, ReadVersion(r) PROVE \A x \in Req : RequestWay(x)
  <2>1. PICK todo : req' = [req EXCEPT ![r] = [op |-> "rollback", todo |-> todo,
                                               job |-> NoJob, number |-> 0]]
    BY <1>6 DEF ReadVersion
  <2> DEFINE q == [op |-> "rollback", todo |-> todo, job |-> NoJob, number |-> 0]
  <2>2. q.job.row \notin Sid
    BY IdleType
  <2> HIDE DEF q
  <2>3. req' = [req EXCEPT ![r] = q]
    BY <2>1 DEF q
  <2> QED
    BY <1>0, <2>2, <2>3, OneRequest
<1>7. ASSUME NEW r \in Req, WipeHistory(r) PROVE \A x \in Req : RequestWay(x)
  <2>1. req[r].op = "delete" /\ req' = [req EXCEPT ![r] = [@ EXCEPT !.op = "remove"]]
    BY <1>7 DEF WipeHistory
  <2>2. req[r] \in Request /\ req[r].job.row \notin Sid
    BY <1>0, <2>1 DEF Inv, TypeOK, Request, JobShape, Shape, Writer
  <2> DEFINE q == [req[r] EXCEPT !.op = "remove"]
  <2>3. q.job = req[r].job
    BY <2>2 DEF Request
  <2>4. req' = [req EXCEPT ![r] = q]
    BY <2>1
  <2> HIDE DEF q
  <2> QED
    BY <1>0, <2>2, <2>3, <2>4, OneRequest
<1>8. ASSUME NEW k, NEW v, ImportReceived(k, v) PROVE \A x \in Req : RequestWay(x)
  BY <1>8 DEF ImportReceived, RequestWay
<1> QED
  BY <1>1, <1>2, <1>3, <1>4, <1>5, <1>6, <1>7, <1>8 DEF Next, Advance

\* What a step does to a history: a deletion empties it, a commit adds to it.
LEMMA HistoryWays ==
  ASSUME Inv, Next, NEW s \in Sid
  PROVE  \/ history'[s] = history[s]
         \/ history'[s] = NoHistory
         \/ \E r \in Req : Commit(r) /\ req[r].job.row = s
<1>1. ASSUME NEW r \in Req, Commit(r), req[r].job.row # s PROVE history'[s] = history[s]
  BY <1>1 DEF Commit, Snapshot, Inv, TypeOK
<1>2. ASSUME NEW r \in Req, WipeHistory(r) \/ Remove(r)
      PROVE  history'[s] \in {history[s], NoHistory}
  BY <1>2 DEF WipeHistory, Remove, Inv, TypeOK
<1>3. ASSUME NEW r \in Req, Ask(r) PROVE history' = history
  BY <1>3, AskWay
<1>4. ASSUME NEW r \in Req,
             \/ Lock(r) \/ ReadVersion(r) \/ Compute(r) \/ Abort(r) \/ Fail(r)
             \/ CreateOrReplace(r) \/ CreateImported(r) \/ Rename(r) \/ Reject(r)
      PROVE  history' = history
  <2>1. CASE Lock(r)
    BY <2>1 DEF Lock
  <2>2. CASE ReadVersion(r)
    BY <2>2 DEF ReadVersion
  <2>3. CASE Compute(r) \/ Abort(r) \/ Fail(r)
    BY <2>3 DEF Compute, Abort, Fail
  <2>4. CASE CreateOrReplace(r) \/ CreateImported(r)
    BY <2>4 DEF CreateOrReplace, CreateImported
  <2>5. CASE Rename(r) \/ Reject(r)
    BY <2>5 DEF Rename, Reject
  <2> QED
    BY <1>4, <2>1, <2>2, <2>3, <2>4, <2>5
<1>5. ASSUME NEW k, NEW v, ImportReceived(k, v) PROVE history' = history
  BY <1>5 DEF ImportReceived
<1> QED
  BY <1>1, <1>2, <1>3, <1>4, <1>5 DEF Next, Advance

\* What a commit leaves of the history of its row.
LEMMA CommitHistory ==
  ASSUME Inv, NEW r \in Req, Commit(r)
  PROVE  LET s == req[r].job.row
             n == req[r].number
             g == [history[s] EXCEPT ![n] = req[r].job.old]
         IN  /\ s \in Sid /\ n \in Number /\ n # 0 /\ Live(s)
             /\ history'[s] = Prune(g)
             /\ \A m \in Number : g[m] = IF m = n THEN req[r].job.old ELSE history[s][m]
             /\ req'[r].job = NoJob
<1> DEFINE s == req[r].job.row
           n == req[r].number
           g == [history[s] EXCEPT ![n] = req[r].job.old]
<1>1. /\ s \in Sid /\ n # 0 /\ Live(s)
      /\ history' = [history EXCEPT ![s] = Prune([@ EXCEPT ![n] = req[r].job.old])]
      /\ Proceed(r, req[r].todo)
  BY DEF Commit, Refused, Snapshot
<1>2. n \in Number /\ history[s] \in [Number -> Value \cup {NoValue}]
  BY <1>1 DEF Inv, TypeOK
<1>3. history'[s] = Prune(g)
  BY <1>1 DEF Inv, TypeOK
<1>4. req'[r].job = NoJob
  BY <1>1 DEF Proceed, Idle, Inv, TypeOK
<1> QED
  BY <1>1, <1>2, <1>3, <1>4

LEMMA WindowNext ==
  ASSUME WindowInv, [Next]_vars
  PROVE  WindowInv'
<1>0. Inv /\ Inv'
  BY InvNext DEF WindowInv
<1>1. CASE UNCHANGED vars
  BY <1>0, <1>1
     DEF vars, WindowInv, NumberIsNext, RowsAreKnown, HistoryIsAWindow, Kept, KeptOf, Live
<1>2. CASE Next
  <2>1. \A x \in Req : RequestWay(x)
    BY <1>2, RequestWays
  <2>2. NumberIsNext'
    <3> SUFFICES ASSUME NEW x \in Req, req'[x].job.row \in Sid, req'[x].number # 0
                 PROVE  LET s == req'[x].job.row
                            n == req'[x].number
                        IN  /\ \A m \in Number : m >= n => history'[s][m] = NoValue
                            /\ KeptOf(history'[s]) # {} => n - 1 \in KeptOf(history'[s])
      BY DEF NumberIsNext
    <3> DEFINE s == req'[x].job.row
               n == req'[x].number
    <3>1. CASE req'[x] = req[x]
      <4>1. CASE history'[s] = history[s]
        BY <3>1, <4>1 DEF WindowInv, NumberIsNext
      <4>2. CASE history'[s] = NoHistory
        BY <4>2 DEF NoHistory, KeptOf
      <4>3. ASSUME NEW r \in Req, Commit(r), req[r].job.row = s PROVE FALSE
        <5>1. r = x
          BY <1>0, <3>1, <4>3 DEF Inv, LockIsExclusive
        <5>2. req'[x].job = NoJob
          BY <1>0, <4>3, <5>1, CommitHistory
        <5> QED
          BY <5>2, IdleType
      <4> QED
        BY <1>0, <1>2, <4>1, <4>2, <4>3, HistoryWays
    <3>2. CASE Compute(x)
      <4>1. PICK k \in Number : /\ IsNext(history[req[x].job.row], k)
                                /\ req' = [req EXCEPT ![x] = [@ EXCEPT !.number = k]]
        BY <3>2 DEF Compute
      <4>2. req[x] \in Request /\ history' = history
        BY <1>0, <3>2 DEF Inv, TypeOK, Request, Compute
      <4>3. req'[x] = [req[x] EXCEPT !.number = k]
        BY <1>0, <4>1 DEF Inv, TypeOK
      <4>4. n = k /\ s = req[x].job.row
        BY <4>2, <4>3 DEF Request
      <4> HIDE DEF n, s
      <4>5. /\ \A m \in Number : m >= n => history'[s][m] = NoValue
            /\ n > 1 => history'[s][n - 1] # NoValue
        BY <4>1, <4>2, <4>4 DEF IsNext
      <4>6. n \in Nat /\ n > 0 /\ n <= MaxNumber
        BY <4>1, <4>4, NumberFacts DEF Number
      <4>7. ASSUME KeptOf(history'[s]) # {} PROVE n - 1 \in KeptOf(history'[s])
        <5>1. PICK m \in Number : history'[s][m] # NoValue
          BY <4>7 DEF KeptOf
        <5>2. m \in Nat /\ m > 0 /\ m < n
          BY <4>5, <4>6, <5>1, NumberFacts
        <5>3. n - 1 \in Number /\ n > 1
          BY <4>6, <5>2, NumberFacts DEF Number
        <5> QED
          BY <4>5, <5>3 DEF KeptOf
      <4> QED
        BY <4>5, <4>7 DEF n, s
    <3> QED
      BY <2>1, <3>1, <3>2 DEF RequestWay
  <2>3. RowsAreKnown'
    <3> SUFFICES ASSUME NEW x \in Req, req'[x].job.row \in Sid, NEW j \in req'[x].todo
                 PROVE  j.row \in Sid
      BY DEF RowsAreKnown
    <3>1. CASE req'[x] = req[x]
      BY <3>1 DEF WindowInv, RowsAreKnown
    <3>2. CASE Compute(x)
      <4>1. PICK k \in Number : req' = [req EXCEPT ![x] = [@ EXCEPT !.number = k]]
        BY <3>2 DEF Compute
      <4>2. req[x] \in Request
        BY <1>0 DEF Inv, TypeOK, Request
      <4>3. req'[x] = [req[x] EXCEPT !.number = k]
        BY <1>0, <4>1 DEF Inv, TypeOK
      <4>4. req'[x].todo = req[x].todo /\ req'[x].job = req[x].job
        BY <4>2, <4>3 DEF Request
      <4> QED
        BY <4>4 DEF WindowInv, RowsAreKnown
    <3> QED
      BY <2>1, <3>1, <3>2 DEF RequestWay
  <2>4. ASSUME NEW s \in Sid
        PROVE  Gapless(KeptOf(history'[s])) /\ Cardinality(KeptOf(history'[s])) <= MaxVersions
    <3>1. Gapless(KeptOf(history[s])) /\ Cardinality(KeptOf(history[s])) <= MaxVersions
      BY KeptIs DEF WindowInv, HistoryIsAWindow, Gapless
    <3>2. CASE history'[s] = history[s]
      BY <3>1, <3>2
    <3>3. CASE history'[s] = NoHistory
      BY <3>3, EmptyWindow
    <3>4. ASSUME NEW r \in Req, Commit(r), req[r].job.row = s
          PROVE  Gapless(KeptOf(history'[s])) /\ Cardinality(KeptOf(history'[s])) <= MaxVersions
      <4> DEFINE n == req[r].number
                 v == req[r].job.old
                 g == [history[s] EXCEPT ![n] = v]
      <4>1. /\ n \in Number /\ n # 0
            /\ history'[s] = Prune(g)
            /\ \A m \in Number : g[m] = IF m = n THEN v ELSE history[s][m]
        <5>1. n \in Number /\ n # 0 /\ history'[s] = Prune(g)
          BY <1>0, <3>4, CommitHistory
        <5>2. history[s] \in [Number -> Value \cup {NoValue}]
          BY <1>0 DEF Inv, TypeOK
        <5> QED
          BY <5>1, <5>2
      <4>2. /\ \A m \in Number : m >= n => history[s][m] = NoValue
            /\ KeptOf(history[s]) # {} => n - 1 \in KeptOf(history[s])
        BY <3>4, <4>1, KeptIs DEF WindowInv, NumberIsNext
      <4> HIDE DEF n, v, g
      <4>3. Gapless(KeptOf(g))
        BY <3>1, <4>1, <4>2, NextNumberCloses
      <4> QED
        BY <4>1, <4>3, PruneWindow
    <3> QED
      BY <1>0, <1>2, <3>2, <3>3, <3>4, HistoryWays
  <2>5. HistoryIsAWindow'
    <3> SUFFICES ASSUME NEW s \in Sid
                 PROVE  /\ Gapless(Kept(s)') /\ Cardinality(Kept(s)') <= MaxVersions
                        /\ ~Live(s)' => Kept(s)' = {}
      BY DEF HistoryIsAWindow, Gapless
    <3>1. Kept(s)' = KeptOf(history'[s])
      BY DEF Kept, KeptOf
    <3>2. ~Live(s)' => Kept(s)' = {}
      BY <1>0 DEF Inv, GoneHaveNone, Kept, NoHistory
    <3> QED
      BY <2>4, <3>1, <3>2
  <2> QED
    BY <1>0, <2>2, <2>3, <2>5 DEF WindowInv
<1> QED
  BY <1>1, <1>2

LEMMA WindowInit == Init => WindowInv
<1> SUFFICES ASSUME Init PROVE WindowInv
  OBVIOUS
<1>1. Inv
  BY InvInit
<1>2. NumberIsNext /\ RowsAreKnown
  BY IdleType DEF Init, NumberIsNext, RowsAreKnown, Idle
<1>3. \A s \in Sid : Kept(s) = {}
  BY DEF Init, Kept, NoHistory
<1>4. HistoryIsAWindow
  BY <1>3, EmptyWindow DEF HistoryIsAWindow
<1> QED
  BY <1>1, <1>2, <1>4 DEF WindowInv

LEMMA WindowAlways == Spec => []WindowInv
BY WindowInit, WindowNext, PTL DEF Spec

\* Whatever interleaves, stops or fails, the history of a secret is a window of its
\* last values: gapless, no longer than the retention, gone with its secret.
THEOREM WindowHolds == Spec => []HistoryIsAWindow
<1>1. WindowInv => HistoryIsAWindow
  BY DEF WindowInv
<1> QED
  BY <1>1, WindowAlways, PTL

\* Only the commit of its own request changes a row whose lock it holds, and ends it.
LEMMA KeptStep ==
  ASSUME WindowInv, Next, NEW r \in Req, NEW s \in Sid,
         req[r].job.row = s, req[r].job.old = secret[s].value,
         secret'[s] # NoSecret, secret'[s].value # secret[s].value, req'[r] # req[r]
  PROVE  \E n \in Number : Newest(s, n)' /\ history'[s][n] = secret[s].value
<1>0. Inv
  BY DEF WindowInv
<1>1. req[r].op \in Writer /\ NoJob.row \notin Sid /\ \A j \in req[r].todo : j.row # NoSid
  BY <1>0, IdleType, SecretVersionsAssumption DEF Inv, JobShape, Shape, WindowInv, RowsAreKnown
<1>2. Commit(r)
  <2>1. ASSUME NEW q \in Req, Ask(q) PROVE FALSE
    BY <1>0, <2>1, AskWay
  <2>2. ASSUME NEW q \in Req,
               \/ Lock(q) \/ ReadVersion(q) \/ Compute(q) \/ Abort(q) \/ Fail(q)
               \/ WipeHistory(q) \/ Reject(q)
        PROVE  FALSE
    <3>1. CASE Lock(q)
      BY <3>1 DEF Lock
    <3>2. CASE ReadVersion(q)
      BY <3>2 DEF ReadVersion
    <3>3. CASE Compute(q) \/ Abort(q) \/ Fail(q)
      BY <3>3 DEF Compute, Abort, Fail
    <3>4. CASE WipeHistory(q) \/ Reject(q)
      BY <3>4 DEF WipeHistory, Reject
    <3> QED
      BY <2>2, <3>1, <3>2, <3>3, <3>4
  <2>3. ASSUME NEW k, NEW v, ImportReceived(k, v) PROVE FALSE
    BY <2>3 DEF ImportReceived
  <2>4. ASSUME NEW q \in Req,
               Commit(q) \/ CreateOrReplace(q) \/ CreateImported(q) \/ Rename(q) \/ Remove(q)
        PROVE  q = r
    <3>1. \A x \in Req \ {q} : req'[x] = req[x]
      BY <1>0, <2>4 DEF Commit, CreateOrReplace, CreateImported, Rename, Remove, Proceed,
                        Inv, TypeOK
    <3> QED
      BY <3>1
  <2>5. ~CreateOrReplace(r) /\ ~CreateImported(r) /\ ~Rename(r) /\ ~Remove(r)
    BY <1>1 DEF CreateOrReplace, CreateImported, Rename, Remove, Writer
  <2> QED
    BY <2>1, <2>2, <2>3, <2>4, <2>5 DEF Next, Advance
<1> DEFINE n == req[r].number
           v == req[r].job.old
           g == [history[s] EXCEPT ![n] = v]
<1>3. /\ n \in Number /\ n # 0 /\ Live(s)
      /\ history'[s] = Prune(g)
      /\ \A m \in Number : g[m] = IF m = n THEN v ELSE history[s][m]
  BY <1>0, <1>2, CommitHistory
<1>4. v = secret[s].value /\ v # NoValue
  BY <1>0, <1>3, SecretVersionsAssumption DEF Inv, TypeOK, Live
<1>5. /\ \A m \in Number : m >= n => history[s][m] = NoValue
      /\ KeptOf(history[s]) # {} => n - 1 \in KeptOf(history[s])
      /\ Gapless(KeptOf(history[s]))
  BY <1>3, KeptIs DEF WindowInv, NumberIsNext, HistoryIsAWindow, Gapless
<1> HIDE DEF n, v, g
<1>6. /\ n \in KeptOf(Prune(g)) /\ Prune(g)[n] = v
      /\ \A m \in KeptOf(Prune(g)) : m <= n
  BY <1>3, <1>4, <1>5, NextNumberCloses
<1>7. Kept(s)' = KeptOf(history'[s])
  BY DEF Kept, KeptOf
<1> QED
  BY <1>3, <1>4, <1>6, <1>7 DEF Newest

\* A value read by its writer and rewritten by nobody since is the newest version once
\* replaced, for any number of writers, any retention.
THEOREM ReplacedAlwaysKept == Spec => ReplacedIsKept
<1>1. ASSUME WindowInv, [Next]_vars
      PROVE  [\A r \in Req, s \in Sid :
                /\ req[r].job.row = s /\ req[r].job.old = secret[s].value
                /\ secret'[s] # NoSecret /\ secret'[s].value # secret[s].value
                /\ req'[r] # req[r]
                => \E n \in Number : Newest(s, n)' /\ history'[s][n] = secret[s].value]_vars
  <2>1. CASE UNCHANGED vars
    BY <2>1
  <2>2. CASE Next
    <3> SUFFICES ASSUME NEW r \in Req, NEW s \in Sid,
                        req[r].job.row = s, req[r].job.old = secret[s].value,
                        secret'[s] # NoSecret, secret'[s].value # secret[s].value,
                        req'[r] # req[r]
                 PROVE  \E n \in Number : Newest(s, n)' /\ history'[s][n] = secret[s].value
      OBVIOUS
    <3> QED
      BY <1>1, <2>2, KeptStep
  <2> QED
    BY <1>1, <2>1, <2>2
<1> QED
  BY <1>1, WindowAlways, PTL DEF Spec, ReplacedIsKept
=============================================================================
