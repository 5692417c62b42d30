---------------------------- MODULE MobileReleases ----------------------------
(***************************************************************************)
(* The register of the releases of a mobile application: what a pipeline   *)
(* is served (POST /api/deploy/mobile: signing material and the number of  *)
(* the build), what it reports (POST /api/deploy/mobile/report), what the  *)
(* store is seen to hold (releases/sync) and what Physalis asks of the     *)
(* store (store-action).  lib/mobile-bundle.ts, lib/mobile-release.ts.     *)
(*                                                                         *)
(* One Android application.  The store and the pipelines act on their own. *)
(* Every await is a step.  Version names, details of a status and the      *)
(* pipeline's identity are left out.                                       *)
(***************************************************************************)
EXTENDS Naturals, FiniteSets

CONSTANTS
    Req,       \* requests that may be in flight together
    Material,  \* fingerprints of the signing material
    Track,     \* tracks of the store
    Reported,  \* statuses a pipeline may report
    Held,      \* what the store may hold of a build
    MaxNumber, \* bound on the build numbers
    MaxRow,    \* bound on the rows ever made
    None       \* null

VARIABLES
    counter,  \* MobileApp.buildNumber, the last served
    paused,   \* MobileApp.deployPaused
    material, \* the MobileCredential rows, none of them at first
    row,      \* MobileRelease rows, by id
    made,     \* the rows made so far
    store,    \* what the store holds of each number, on each track
    req,      \* requests in flight
    served,   \* the material served with each number
    fresh     \* numbers served since the counter was last set by hand

vars == <<counter, paused, material, row, made, store, req, served, fresh>>

Number == 1..MaxNumber
Id == 1..MaxRow
Row == [number: Number, track: Track \cup {"pending"},
        status: {"requested"} \cup Reported \cup Held, source: {"reported", "store"},
        material: Material \cup {None}]

ASSUME MobileAssumption == MaxNumber \in Nat /\ MaxRow \in Nat /\ None \notin Row

Idle == [at |-> "idle"]
Request ==
    {Idle} \cup [at: {"number"}, material: Material, floor: 0..MaxNumber \cup {None}]
           \cup [at: {"open"}, material: Material, number: Number]
           \cup [at: {"join"}, id: Id, track: Track, status: Reported]
           \cup [at: {"refine"}, id: Id, status: Reported]
           \cup [at: {"insert"}, number: Number, track: Track, status: Reported]
           \cup [at: {"sync"}, found: SUBSET (Id \X Held)]
           \cup [at: {"ask"}, id: Id, track: Track, status: Held]
           \cup [at: {"act"}, id: Id, track: Track, status: Held]

TypeOK ==
    /\ counter \in 0..MaxNumber /\ paused \in BOOLEAN /\ material \in Material \cup {None}
    /\ row \in [Id -> Row \cup {None}] /\ made \in 0..MaxRow
    /\ store \in [Number -> [Track -> Held \cup {None}]]
    /\ req \in [Req -> Request]
    /\ served \in [Number -> SUBSET Material]
    /\ fresh \subseteq Number

Init ==
    /\ counter = 0 /\ paused = FALSE /\ material = None
    /\ row = [i \in Id |-> None] /\ made = 0
    /\ store = [n \in Number |-> [t \in Track |-> None]]
    /\ req = [r \in Req |-> Idle]
    /\ served = [n \in Number |-> {}] /\ fresh = {}

Rows == {i \in Id : row[i] # None}
On(n, t) == {i \in Rows : row[i].number = n /\ row[i].track = t}

Goto(r, state) == req' = [req EXCEPT ![r] = state]

application == <<counter, paused, material>>
register == <<row, made>>
ghosts == <<served, fresh>>

\* The unique key of a number on a track is the database's.
Insert(fields) ==
    IF On(fields.number, fields.track) = {}
    THEN /\ made < MaxRow
         /\ made' = made + 1
         /\ row' = [row EXCEPT ![made + 1] = fields]
    ELSE UNCHANGED register

-----------------------------------------------------------------------------
(* The application's settings.                                             *)

ImportMaterial(m) ==
    /\ m # material
    /\ material' = m
    /\ UNCHANGED <<counter, paused, register, store, req, ghosts>>

SetPaused ==
    /\ paused' = ~paused
    /\ UNCHANGED <<counter, material, register, store, req, ghosts>>

\* The counter is set again by hand, to realign it on the store.
SetNumber(n) ==
    /\ n # counter
    /\ counter' = n
    /\ fresh' = {}
    /\ UNCHANGED <<paused, material, register, store, req, served>>

-----------------------------------------------------------------------------
(* POST /api/deploy/mobile.                                                *)

\* n is the highest number the store has, 0 when it has none.
IsFloor(n) ==
    /\ n > 0 => \E t \in Track : store[n][t] # None
    /\ \A m \in Number : m > n => \A t \in Track : store[m][t] = None

\* buildMobileBundle and readStoreFloor: the store may be out of reach.
AskBundle(r) ==
    /\ req[r] = Idle
    /\ ~paused /\ material # None
    /\ \E floor \in {n \in 0..MaxNumber : IsFloor(n)} \cup {None} :
        Goto(r, [at |-> "number", material |-> material, floor |-> floor])
    /\ UNCHANGED <<application, register, store, ghosts>>

\* Mutant: the store's number alone, which may be behind what was served since.
NextAfterStore(last, floor) == IF floor = None THEN last + 1 ELSE floor + 1

\* max(store, last served) + 1.
NextNumber(last, floor) == IF floor = None \/ floor <= last THEN last + 1 ELSE floor + 1

\* consumeBuildNumber: one statement.
ConsumeNumber(r) ==
    /\ req[r].at = "number"
    /\ LET n == NextNumber(counter, req[r].floor) IN
        /\ n <= MaxNumber
        /\ counter' = n
        /\ Goto(r, [at |-> "open", material |-> req[r].material, number |-> n])
        /\ served' = [served EXCEPT ![n] = @ \cup {req[r].material}]
        /\ fresh' = fresh \cup {n}
    /\ UNCHANGED <<paused, material, register, store>>

\* Mutant: the fingerprints are those of the material by then.
SignedNow(r) == IF material = None THEN req[r].material ELSE material

\* The fingerprints of the material that was served.
Signed(r) == req[r].material

\* openRelease: never fails the request.
OpenRelease(r) ==
    /\ req[r].at = "open"
    /\ Insert([number |-> req[r].number, track |-> "pending", status |-> "requested",
               source |-> "reported", material |-> Signed(r)])
    /\ Goto(r, Idle)
    /\ UNCHANGED <<application, store, ghosts>>

-----------------------------------------------------------------------------
(* recordReport: it joins the row opened for the number, else refines the  *)
(* one of the track, else makes one without material.                      *)

AskReport(r, n, t, status) ==
    /\ req[r] = Idle
    /\ \/ \E i \in On(n, "pending") :
            Goto(r, [at |-> "join", id |-> i, track |-> t, status |-> status])
       \/ /\ On(n, "pending") = {}
          /\ \E i \in On(n, t) : Goto(r, [at |-> "refine", id |-> i, status |-> status])
       \/ /\ On(n, "pending") \cup On(n, t) = {}
          /\ Goto(r, [at |-> "insert", number |-> n, track |-> t, status |-> status])
    /\ UNCHANGED <<application, register, store, ghosts>>

\* A change of track fails when another row is on it.
Movable(i, t) == On(row[i].number, t) \subseteq {i}

JoinRow(r) ==
    /\ req[r].at = "join"
    /\ row' = IF Movable(req[r].id, req[r].track)
              THEN [row EXCEPT ![req[r].id] =
                      [@ EXCEPT !.track = req[r].track, !.status = req[r].status]]
              ELSE row
    /\ Goto(r, Idle)
    /\ UNCHANGED <<application, made, store, ghosts>>

RefineRow(r) ==
    /\ req[r].at = "refine"
    /\ row' = [row EXCEPT ![req[r].id] = [@ EXCEPT !.status = req[r].status]]
    /\ Goto(r, Idle)
    /\ UNCHANGED <<application, made, store, ghosts>>

InsertRow(r) ==
    /\ req[r].at = "insert"
    /\ Insert([number |-> req[r].number, track |-> req[r].track, status |-> req[r].status,
               source |-> "reported", material |-> None])
    /\ Goto(r, Idle)
    /\ UNCHANGED <<application, store, ghosts>>

-----------------------------------------------------------------------------
(* releases/sync: what the store holds, then the rows, then one            *)
(* transaction that writes what was seen of them.                          *)

AskSync(r) ==
    /\ req[r] = Idle
    /\ material # None
    /\ Goto(r, [at |-> "sync",
                found |-> {<<i, store[row[i].number][row[i].track]>> : i \in
                             {j \in Rows : /\ row[j].track \in Track
                                           /\ store[row[j].number][row[j].track] # None}}])
    /\ UNCHANGED <<application, register, store, ghosts>>

WriteSync(r) ==
    /\ req[r].at = "sync"
    /\ row' = [i \in Id |->
                 IF \E p \in req[r].found : p[1] = i
                 THEN LET p == CHOOSE q \in req[r].found : q[1] = i
                      IN  [row[i] EXCEPT !.status = p[2], !.source = "store"]
                 ELSE row[i]]
    /\ Goto(r, Idle)
    /\ UNCHANGED <<application, made, store, ghosts>>

-----------------------------------------------------------------------------
(* store-action: any row of the number is taken, the store is asked, the   *)
(* row tells of it.  A promotion or a rollout makes live, a halt halts.    *)

AskAction(r, i, t, status) ==
    /\ req[r] = Idle
    /\ ~paused /\ material # None
    /\ i \in Rows
    /\ Goto(r, [at |-> "ask", id |-> i, track |-> t, status |-> status])
    /\ UNCHANGED <<application, register, store, ghosts>>

\* The store refuses, or does it.
AskStore(r) ==
    /\ req[r].at = "ask"
    /\ \/ Goto(r, Idle) /\ store' = store
       \/ /\ store' = [store EXCEPT ![row[req[r].id].number][req[r].track] = req[r].status]
          /\ Goto(r, [req[r] EXCEPT !.at = "act"])
    /\ UNCHANGED <<application, register, ghosts>>

RecordAction(r) ==
    /\ req[r].at = "act"
    /\ row' = IF Movable(req[r].id, req[r].track)
              THEN [row EXCEPT ![req[r].id] =
                      [@ EXCEPT !.track = req[r].track, !.status = req[r].status,
                                !.source = "reported"]]
              ELSE row
    /\ Goto(r, Idle)
    /\ UNCHANGED <<application, made, store, ghosts>>

-----------------------------------------------------------------------------
\* A pipeline uploads a build, somebody does by hand, the store decides of one.
StoreChanges(n, t, status) ==
    /\ store[n][t] # status
    /\ store' = [store EXCEPT ![n][t] = status]
    /\ UNCHANGED <<application, register, req, ghosts>>

\* The process stops.
Stop(r) ==
    /\ req[r] # Idle
    /\ Goto(r, Idle)
    /\ UNCHANGED <<application, register, store, ghosts>>

Next ==
    \/ \E m \in Material \cup {None} : ImportMaterial(m)
    \/ SetPaused
    \/ \E n \in 0..MaxNumber : SetNumber(n)
    \/ \E n \in Number, t \in Track, s \in Held : StoreChanges(n, t, s)
    \/ \E r \in Req :
        \/ AskBundle(r) \/ ConsumeNumber(r) \/ OpenRelease(r)
        \/ \E n \in Number, t \in Track, s \in Reported : AskReport(r, n, t, s)
        \/ JoinRow(r) \/ RefineRow(r) \/ InsertRow(r)
        \/ AskSync(r) \/ WriteSync(r)
        \/ \E i \in Id, t \in Track, s \in Held : AskAction(r, i, t, s)
        \/ AskStore(r) \/ RecordAction(r)
        \/ Stop(r)

Spec == Init /\ [][Next]_vars

-----------------------------------------------------------------------------
(* Properties.                                                             *)

\* Unless the counter is set by hand in between, every number served is above all
\* those served before, however deployments and readings of the store overlap.
NumberGrows ==
    \A r \in Req : req[r].at = "number" /\ req'[r].at = "open"
                  => \A n \in fresh : n < req'[r].number

NumbersGrow == [][NumberGrows]_vars

\* A row tells the material that was served with its number, and no other.
RowsTellTheirMaterial ==
    \A i \in Rows : row[i].material \in served[row[i].number] \cup {None}
=============================================================================
