----------------------------- MODULE Deployments -----------------------------
(***************************************************************************)
(* The register of server deployments: lib/deployment.ts and               *)
(* lib/deployment-settle.ts, called by POST /api/deploy when a pipeline is *)
(* served its secrets, by POST /api/deploy/report when it tells its        *)
(* outcome, and by the screens that read the outcome from the platform.    *)
(*                                                                         *)
(* One environment of one project.  A row is the run of one pipeline; its  *)
(* id follows the order of creation.  Every await is a step, and the       *)
(* process may stop at each of them.  The moment of the first service, the *)
(* detail of a report and the ages that bound a reading are left out.      *)
(***************************************************************************)
EXTENDS Naturals, FiniteSets

CONSTANTS
    Req,        \* requests that may be in flight together
    Run,        \* runs: provider, run id and attempt
    MaxRow,     \* bound on the rows ever made
    MaxService, \* bound on the bundles served to a run
    Retention,  \* DEPLOYMENT_RETENTION
    None        \* null

VARIABLES
    row,    \* Deployment rows, by id
    made,   \* the rows made so far
    setup,  \* Project.setupCompletedAt is set
    req,    \* requests in flight
    served, \* bundles served to each run
    success,\* runs whose success was told, by them or by the platform
    missed  \* runs with a row purged, or a service or its row's write stopped

vars == <<row, made, setup, req, served, success, missed>>

Id == 1..MaxRow
Status == {"requested", "succeeded", "failed"}
Source == {"reported", "platform"}
Row == [run: Run, status: Status, source: Source \cup {None}, count: Nat]

Idle == [at |-> "idle"]
Request ==
    {Idle} \cup [at: {"create", "reread"}, run: Run]
           \cup [at: {"join"}, run: Run, id: Id]
           \cup [at: {"find"}]
           \cup [at: {"purge"}, stale: SUBSET Id]
           \cup [at: {"report"}, id: Id, run: Run, status: Status, correlated: BOOLEAN]
           \cup [at: {"insert"}, run: Run, status: Status]
           \cup [at: {"complete"}, rest: SUBSET (Id \X BOOLEAN)]
           \cup [at: {"settle"}, rest: SUBSET (Id \X BOOLEAN)]

TypeOK ==
    /\ row \in [Id -> Row \cup {None}]
    /\ made \in 0..MaxRow
    /\ setup \in BOOLEAN
    /\ req \in [Req -> Request]
    /\ served \in [Run -> 0..MaxService]
    /\ success \subseteq Run /\ missed \subseteq Run

Init ==
    /\ row = [i \in Id |-> None]
    /\ made = 0
    /\ setup = FALSE
    /\ req = [r \in Req |-> Idle]
    /\ served = [n \in Run |-> 0]
    /\ success = {} /\ missed = {}

Rows == {i \in Id : row[i] # None}
RowsOf(n) == {i \in Rows : row[i].run = n}

Goto(r, state) == req' = [req EXCEPT ![r] = state]

\* A new row, the latest; the unique key of the run is the database's.
Insert(n, fields) ==
    /\ made < MaxRow
    /\ made' = made + 1
    /\ row' = [row EXCEPT ![made + 1] = fields]

-----------------------------------------------------------------------------
(* openDeployment, when the bundle is served; it never fails the request.  *)

AskOpen(r, n) ==
    /\ req[r] = Idle
    /\ served[n] < MaxService
    /\ served' = [served EXCEPT ![n] = @ + 1]
    /\ \/ \E i \in RowsOf(n) : Goto(r, [at |-> "join", run |-> n, id |-> i])
       \/ RowsOf(n) = {} /\ Goto(r, [at |-> "create", run |-> n])
    /\ UNCHANGED <<row, made, setup, success, missed>>

CreateRow(r) ==
    /\ req[r].at = "create"
    /\ RowsOf(req[r].run) = {}
    /\ Insert(req[r].run, [run |-> req[r].run, status |-> "requested", source |-> None,
                           count |-> 1])
    /\ Goto(r, [at |-> "find"])
    /\ UNCHANGED <<setup, served, success, missed>>

\* Another job of the run created the row: it is read again.
Raced(r) ==
    /\ req[r].at = "create"
    /\ RowsOf(req[r].run) # {}
    /\ Goto(r, [at |-> "reread", run |-> req[r].run])
    /\ UNCHANGED <<row, made, setup, served, success, missed>>

\* Mutant: the creation that lost the race gives up.
GiveUp(r) ==
    /\ req[r].at = "reread"
    /\ Goto(r, Idle)
    /\ UNCHANGED <<row, made, setup, served, success, missed>>

Reread(r) ==
    /\ req[r].at = "reread"
    /\ \/ \E i \in RowsOf(req[r].run) :
            Goto(r, [at |-> "join", run |-> req[r].run, id |-> i])
       \/ RowsOf(req[r].run) = {} /\ Goto(r, Idle)
    /\ UNCHANGED <<row, made, setup, served, success, missed>>

\* The counter is incremented by the database, by id.
Join(r) ==
    /\ req[r].at = "join"
    /\ row' = IF req[r].id \in Rows
              THEN [row EXCEPT ![req[r].id].count = @ + 1]
              ELSE row
    /\ Goto(r, Idle)
    /\ UNCHANGED <<made, setup, served, success, missed>>

-----------------------------------------------------------------------------
(* purge: the rows beyond the latest, then their deletion.                 *)

Stale == {i \in Rows : Cardinality({j \in Rows : j > i}) >= Retention}

FindStale(r) ==
    /\ req[r].at = "find"
    /\ Goto(r, IF Stale = {} THEN Idle ELSE [at |-> "purge", stale |-> Stale])
    /\ UNCHANGED <<row, made, setup, served, success, missed>>

Purge(r) ==
    /\ req[r].at = "purge"
    /\ row' = [i \in Id |-> IF i \in req[r].stale THEN None ELSE row[i]]
    /\ missed' = missed \cup {row[i].run : i \in req[r].stale \cap Rows}
    /\ Goto(r, Idle)
    /\ UNCHANGED <<made, setup, served, success>>

-----------------------------------------------------------------------------
(* recordDeploymentReport: what the pipeline tells.                        *)

\* Mutant: any run that may report closes the guide.
CorrelatedAnyway(count) == TRUE

\* Did Physalis serve a bundle to the run?
Correlated(count) == count > 0

AskReport(r, n, status) ==
    /\ req[r] = Idle
    /\ \/ \E i \in RowsOf(n) :
            Goto(r, [at |-> "report", id |-> i, run |-> n, status |-> status,
                     correlated |-> Correlated(row[i].count)])
       \/ RowsOf(n) = {} /\ Goto(r, [at |-> "insert", run |-> n, status |-> status])
    /\ success' = IF status = "succeeded" THEN success \cup {n} ELSE success
    /\ UNCHANGED <<row, made, setup, served, missed>>

\* The last report wins. A row purged meanwhile fails the report.
Report(r) ==
    /\ req[r].at = "report"
    /\ IF req[r].id \in Rows
       THEN /\ row' = [row EXCEPT ![req[r].id] =
                         [@ EXCEPT !.status = req[r].status, !.source = "reported"]]
            /\ Goto(r, IF req[r].status = "succeeded" /\ req[r].correlated
                       THEN [at |-> "complete", rest |-> {}] ELSE Idle)
       ELSE row' = row /\ Goto(r, Idle)
    /\ UNCHANGED <<made, setup, served, success, missed>>

\* A run that took no bundle has a row too; not a second one.
InsertReport(r) ==
    /\ req[r].at = "insert"
    /\ IF RowsOf(req[r].run) = {}
       THEN /\ Insert(req[r].run, [run |-> req[r].run, status |-> req[r].status,
                                   source |-> "reported", count |-> 0])
            /\ Goto(r, [at |-> "find"])
       ELSE UNCHANGED <<row, made>> /\ Goto(r, Idle)
    /\ UNCHANGED <<setup, served, success, missed>>

Complete(r) ==
    /\ req[r].at = "complete"
    /\ setup' = TRUE
    /\ Goto(r, IF req[r].rest = {} THEN Idle ELSE [at |-> "settle", rest |-> req[r].rest])
    /\ UNCHANGED <<row, made, served, success, missed>>

-----------------------------------------------------------------------------
(* settlePendingDeployments: the rows that wait are read, then settled one *)
(* after the other from what the platform says of their run.               *)

AskSettle(r) ==
    /\ req[r] = Idle
    /\ LET pending == {i \in Rows : row[i].status = "requested"} IN
        /\ pending # {}
        /\ Goto(r, [at |-> "settle",
                    rest |-> {<<i, Correlated(row[i].count)>> : i \in pending}])
    /\ UNCHANGED <<row, made, setup, served, success, missed>>

\* The row the loop comes to, the latest first, and what is left after it.
Current(r) == {p \in req[r].rest : \A q \in req[r].rest : q[1] <= p[1]}
Rest(r, p) == LET rest == req[r].rest \ {p} IN
              IF rest = {} THEN Idle ELSE [at |-> "settle", rest |-> rest]

\* Still running, unknown, out of reach.
SettleNothing(r) ==
    /\ req[r].at = "settle"
    /\ \E p \in Current(r) : Goto(r, Rest(r, p))
    /\ UNCHANGED <<row, made, setup, served, success, missed>>

Settle(r, status) ==
    /\ req[r].at = "settle"
    /\ \E p \in Current(r) :
        IF p[1] \in Rows
        THEN /\ row' = [row EXCEPT ![p[1]] =
                          [@ EXCEPT !.status = status, !.source = "platform"]]
             /\ success' = IF status = "succeeded" THEN success \cup {row[p[1]].run}
                           ELSE success
             /\ Goto(r, IF status = "succeeded" /\ p[2]
                        THEN [at |-> "complete", rest |-> req[r].rest \ {p}]
                        ELSE Rest(r, p))
        ELSE row' = row /\ success' = success /\ Goto(r, Rest(r, p))
    /\ UNCHANGED <<made, setup, served, missed>>

\* The process stops.
Stop(r) ==
    /\ req[r] # Idle
    /\ Goto(r, Idle)
    /\ missed' = IF req[r].at \in {"create", "reread", "join"}
                 THEN missed \cup {req[r].run} ELSE missed
    /\ UNCHANGED <<row, made, setup, served, success>>

Next ==
    \E r \in Req :
        \/ \E n \in Run : AskOpen(r, n) \/ \E s \in {"succeeded", "failed"} : AskReport(r, n, s)
        \/ CreateRow(r) \/ Raced(r) \/ Reread(r) \/ Join(r)
        \/ FindStale(r) \/ Purge(r)
        \/ Report(r) \/ InsertReport(r) \/ Complete(r)
        \/ AskSettle(r) \/ SettleNothing(r) \/ \E s \in {"succeeded", "failed"} : Settle(r, s)
        \/ Stop(r)

Spec == Init /\ [][Next]_vars

-----------------------------------------------------------------------------
(* Properties.                                                             *)

\* The installation guide of a project closes only once a run that was served its
\* secrets succeeded, however reports, readings of the platform and purges overlap.
SetupIsEarned == setup => \E n \in success : served[n] > 0

Opening(n) == {r \in Req : req[r].at \in {"create", "reread", "join"} /\ req[r].run = n}

\* Unless the process stops or its row is purged, every bundle served to a run is
\* counted by the run's one row: none is lost to a job that runs in parallel.
EveryServiceIsCounted ==
    \A n \in Run \ missed :
        /\ Cardinality(RowsOf(n)) <= 1
        /\ \/ RowsOf(n) = {} /\ served[n] = Cardinality(Opening(n))
           \/ \E i \in RowsOf(n) : served[n] = row[i].count + Cardinality(Opening(n))
=============================================================================
