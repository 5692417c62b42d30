-------------------------- MODULE DeliveriesProofs --------------------------
(***************************************************************************)
(* Deliveries for any number of requests, rows, numbers and runs.          *)
(***************************************************************************)
EXTENDS Deliveries, FiniteSetTheorems, TLAPS

-----------------------------------------------------------------------------
(* The releases of a mobile application.                                   *)

\* The rows a request is about were made.
Aims ==
    \A r \in Req :
        /\ req[r].at \in {"join", "refine", "ask", "act"} => row[req[r].id] # None
        /\ req[r].at = "sync" => \A p \in req[r].found : row[p[1]] # None

\* The counter is the highest number served since it was set by hand.
Counted == \A n \in fresh : n <= counter

\* What a request is about to write of the material is what it served.
Signing == \A r \in Req : req[r].at = "open" => req[r].material \in served[req[r].number]

MobileInv == TypeOK /\ Aims /\ Counted /\ Signing /\ RowsTellTheirMaterial

LEMMA IdleIs == Idle \in Request /\ Idle.at = "idle"
  BY DEF Idle, Request

LEMMA MobileInit == Init => MobileInv
<1> SUFFICES ASSUME Init PROVE MobileInv
  OBVIOUS
<1>1. TypeOK
  <2>1. counter \in 0..MaxNumber /\ made \in 0..MaxRow
    BY MobileAssumption DEF Init
  <2>2. row \in [Id -> Row \cup {None}]
    BY DEF Init
  <2>3. store \in [Number -> [Track -> Held \cup {None}]]
    BY DEF Init
  <2>4. req \in [Req -> Request]
    BY IdleIs DEF Init
  <2>5. served \in [Number -> SUBSET Material] /\ fresh \subseteq Number
    BY DEF Init
  <2> QED
    BY <2>1, <2>2, <2>3, <2>4, <2>5 DEF Init, TypeOK
<1>2. Aims /\ Signing
  <2>1. \A r \in Req : req[r].at = "idle"
    BY IdleIs DEF Init
  <2> QED
    BY <2>1 DEF Aims, Signing
<1>3. Counted
  BY DEF Init, Counted
<1>4. RowsTellTheirMaterial
  BY DEF Init, RowsTellTheirMaterial, Rows
<1> QED
  BY <1>1, <1>2, <1>3, <1>4 DEF MobileInv

\* A request by what it is at.
LEMMA At ==
    ASSUME TypeOK, NEW r \in Req
    PROVE  /\ req[r].at = "number" => /\ req[r].material \in Material
                                      /\ req[r].floor \in 0..MaxNumber \cup {None}
           /\ req[r].at = "open" => req[r].material \in Material /\ req[r].number \in Number
           /\ req[r].at = "join" => /\ req[r].id \in Id /\ req[r].track \in Track
                                    /\ req[r].status \in Reported
           /\ req[r].at = "refine" => req[r].id \in Id /\ req[r].status \in Reported
           /\ req[r].at = "insert" => /\ req[r].number \in Number /\ req[r].track \in Track
                                      /\ req[r].status \in Reported
           /\ req[r].at = "sync" => req[r].found \in SUBSET (Id \X Held)
           /\ req[r].at \in {"ask", "act"} => /\ req[r].id \in Id /\ req[r].track \in Track
                                              /\ req[r].status \in Held
<1>1. req[r] \in Request
  BY DEF TypeOK
<1> QED
  BY <1>1 DEF Request, Idle

LEMMA Went ==
    ASSUME TypeOK, NEW r \in Req, NEW state \in Request, Goto(r, state)
    PROVE  /\ req' \in [Req -> Request]
           /\ req'[r] = state /\ \A q \in Req \ {r} : req'[q] = req[q]
  BY DEF Goto, TypeOK

\* What a request writes of a row that was made.
LEMMA Rewritten ==
    ASSUME TypeOK, NEW i \in Id, row[i] # None, NEW new \in Row,
           row' = [row EXCEPT ![i] = new]
    PROVE  /\ row' \in [Id -> Row \cup {None}]
           /\ row'[i] = new /\ row'[i] # None
           /\ \A j \in Id \ {i} : row'[j] = row[j]
  BY MobileAssumption DEF TypeOK

LEMMA Inserted ==
    ASSUME TypeOK, NEW new \in Row, Insert(new)
    PROVE  /\ row' \in [Id -> Row \cup {None}] /\ made' \in 0..MaxRow
           /\ \A i \in Id : row'[i] = row[i] \/ row'[i] = new
           /\ \A i \in Id : row[i] # None => row'[i] # None
<1>1. CASE UNCHANGED register
  BY <1>1 DEF TypeOK, register
<1>2. CASE made < MaxRow /\ made' = made + 1 /\ row' = [row EXCEPT ![made + 1] = new]
  BY <1>2, MobileAssumption DEF TypeOK, Id
<1> QED
  BY <1>1, <1>2 DEF Insert

LEMMA RowIs == ASSUME TypeOK, NEW i \in Id, row[i] # None PROVE row[i] \in Row
  BY DEF TypeOK

\* What a request becomes is well aimed, and no row is lost: the others still are.
LEMMA Kept ==
    ASSUME TypeOK, Aims, Signing, NEW r \in Req, NEW state \in Request, Goto(r, state),
           \A i \in Id : row[i] # None => row'[i] # None,
           \A n \in Number : served[n] \subseteq served'[n],
           state.at \in {"join", "refine", "ask", "act"} => row'[state.id] # None,
           state.at = "sync" => \A p \in state.found : row'[p[1]] # None,
           state.at = "open" => state.material \in served'[state.number]
    PROVE  req' \in [Req -> Request] /\ Aims' /\ Signing'
<1>1. /\ req' \in [Req -> Request]
      /\ req'[r] = state /\ \A q \in Req \ {r} : req'[q] = req[q]
  BY Went
<1>2. Aims'
  <2>1. \A q \in Req \ {r} : req[q].at \in {"join", "refine", "ask", "act"} => req[q].id \in Id
    BY At
  <2>2. \A q \in Req \ {r} : req[q].at = "sync" => \A p \in req[q].found : p[1] \in Id
    BY At
  <2> QED
    BY <1>1, <2>1, <2>2 DEF Aims
<1>3. Signing'
  <2>1. \A q \in Req \ {r} : req[q].at = "open" => req[q].number \in Number
    BY At
  <2> QED
    BY <1>1, <2>1 DEF Signing
<1> QED
  BY <1>1, <1>2, <1>3

\* Every row keeps its number and its material, or is a new one that tells the
\* material served with its number.
Telling ==
    \A i \in Id : row'[i] # None =>
        \/ /\ row[i] # None
           /\ row'[i].number = row[i].number /\ row'[i].material = row[i].material
        \/ row'[i].number \in Number /\ row'[i].material \in served'[row'[i].number] \cup {None}

LEMMA Tells ==
    ASSUME TypeOK, RowsTellTheirMaterial, Telling,
           \A n \in Number : served[n] \subseteq served'[n]
    PROVE  RowsTellTheirMaterial'
  BY RowIs DEF RowsTellTheirMaterial, Telling, Rows, Row

\* Every step preserves the invariant of the releases.
LEMMA MobileStep == MobileInv /\ [Next]_vars => MobileInv'
<1> SUFFICES ASSUME MobileInv, [Next]_vars PROVE MobileInv'
  OBVIOUS
<1> USE MobileAssumption
<1>i. TypeOK /\ Aims /\ Counted /\ Signing /\ RowsTellTheirMaterial
  BY DEF MobileInv
<1>1. ASSUME UNCHANGED <<register, req, served>>,
             fresh' \subseteq fresh, fresh' = {} \/ counter' = counter,
             counter' \in 0..MaxNumber, paused' \in BOOLEAN, material' \in Material \cup {None},
             store' \in [Number -> [Track -> Held \cup {None}]]
      PROVE  MobileInv'
  BY <1>1, <1>i DEF MobileInv, register, TypeOK, Aims, Counted, Signing, RowsTellTheirMaterial, Rows
<1>2. ASSUME \/ \E m \in Material \cup {None} : ImportMaterial(m)
             \/ SetPaused
             \/ \E n \in 0..MaxNumber : SetNumber(n)
      PROVE  MobileInv'
  <2>1. CASE \E m \in Material \cup {None} : ImportMaterial(m)
    BY <1>1, <2>1, <1>i DEF ImportMaterial, register, ghosts, TypeOK
  <2>2. CASE SetPaused
    BY <1>1, <2>2, <1>i DEF SetPaused, register, ghosts, TypeOK
  <2>3. CASE \E n \in 0..MaxNumber : SetNumber(n)
    BY <1>1, <2>3, <1>i DEF SetNumber, register, ghosts, TypeOK
  <2> QED
    BY <1>2, <2>1, <2>2, <2>3
<1>3. ASSUME NEW n \in Number, NEW t \in Track, NEW s \in Held, StoreChanges(n, t, s)
      PROVE  MobileInv'
  <2>1. [store[n] EXCEPT ![t] = s] \in [Track -> Held \cup {None}]
    BY <1>i DEF TypeOK
  <2>2. store' \in [Number -> [Track -> Held \cup {None}]]
    BY <1>3, <2>1, <1>i DEF StoreChanges, TypeOK
  <2> QED
    BY <1>1, <1>3, <2>2, <1>i DEF StoreChanges, application, register, ghosts, TypeOK
<1>4. ASSUME NEW r \in Req, NEW state \in Request, Goto(r, state),
             UNCHANGED <<application, register, ghosts>>,
             store' \in [Number -> [Track -> Held \cup {None}]],
             state.at \in {"join", "refine", "ask", "act"} => row[state.id] # None,
             state.at = "sync" => \A p \in state.found : row[p[1]] # None,
             state.at # "open"
      PROVE  MobileInv'
  <2>1. req' \in [Req -> Request] /\ Aims' /\ Signing'
    BY <1>4, <1>i, Kept DEF register, ghosts
  <2> QED
    BY <2>1, <1>4, <1>i
    DEF MobileInv, TypeOK, Counted, RowsTellTheirMaterial, Rows, application, register, ghosts
<1>5. ASSUME NEW r \in Req, AskBundle(r) PROVE MobileInv'
  <2>1. PICK floor \in 0..MaxNumber \cup {None} :
          Goto(r, [at |-> "number", material |-> material, floor |-> floor])
    BY <1>5 DEF AskBundle
  <2>2. [at |-> "number", material |-> material, floor |-> floor] \in Request
    BY <1>5, <1>i DEF AskBundle, Request, TypeOK
  <2> QED
    BY <1>4, <1>5, <2>1, <2>2, <1>i DEF AskBundle, TypeOK
<1>6. ASSUME NEW r \in Req, ConsumeNumber(r) PROVE MobileInv'
  <2> DEFINE n == NextNumber(counter, req[r].floor)
             state == [at |-> "open", material |-> req[r].material, number |-> n]
  <2>1. /\ n <= MaxNumber /\ counter' = n /\ Goto(r, state)
        /\ served' = [served EXCEPT ![n] = @ \cup {req[r].material}]
        /\ fresh' = fresh \cup {n}
        /\ UNCHANGED <<paused, material, register, store>>
    BY <1>6 DEF ConsumeNumber
  <2>2. req[r].material \in Material /\ req[r].floor \in 0..MaxNumber \cup {None}
    BY <1>6, <1>i, At DEF ConsumeNumber
  <2>3. counter \in 0..MaxNumber
    BY <1>i DEF TypeOK
  <2>4. n \in Nat /\ n > counter
    BY <2>2, <2>3 DEF NextNumber
  <2>5. n \in Number
    BY <2>1, <2>3, <2>4 DEF Number
  <2> HIDE DEF n
  <2>6. state \in Request
    BY <2>2, <2>5 DEF Request
  <2>7. /\ served' \in [Number -> SUBSET Material]
        /\ \A m \in Number : served[m] \subseteq served'[m]
        /\ req[r].material \in served'[n]
    BY <2>1, <2>2, <2>5, <1>i DEF TypeOK
  <2>8. req' \in [Req -> Request] /\ Aims' /\ Signing'
    BY <2>1, <2>6, <2>7, <1>i, Kept DEF register
  <2>9. Counted'
    BY <2>1, <2>3, <2>4, <2>5, <1>i DEF Counted, TypeOK, Number
  <2>10. RowsTellTheirMaterial'
    BY <2>1, <2>7, <1>i, Tells DEF Telling, register
  <2>11. counter' \in 0..MaxNumber
    BY <2>1, <2>4
  <2>12. TypeOK'
    BY <2>1, <2>5, <2>7, <2>8, <2>11, <1>i DEF TypeOK, register
  <2> QED
    BY <2>8, <2>9, <2>10, <2>12 DEF MobileInv
<1>7. ASSUME NEW r \in Req, NEW state \in Request, Goto(r, state), state.at = "idle",
             row' \in [Id -> Row \cup {None}], made' \in 0..MaxRow,
             \A i \in Id : row[i] # None => row'[i] # None,
             Telling, UNCHANGED <<application, store, ghosts>>
      PROVE  MobileInv'
  <2>1. req' \in [Req -> Request] /\ Aims' /\ Signing'
    BY <1>7, <1>i, Kept DEF ghosts
  <2>2. RowsTellTheirMaterial'
    BY <1>7, <1>i, Tells DEF ghosts
  <2> QED
    BY <2>1, <2>2, <1>7, <1>i DEF MobileInv, TypeOK, Counted, application, ghosts
<1>8. ASSUME NEW r \in Req, NEW new \in Row, Insert(new), Goto(r, Idle),
             new.material \in served[new.number] \cup {None},
             UNCHANGED <<application, store, ghosts>>
      PROVE  MobileInv'
  <2>1. /\ row' \in [Id -> Row \cup {None}] /\ made' \in 0..MaxRow
        /\ \A i \in Id : row'[i] = row[i] \/ row'[i] = new
        /\ \A i \in Id : row[i] # None => row'[i] # None
    BY <1>8, <1>i, Inserted
  <2>2. new.number \in Number
    BY DEF Row
  <2>3. Telling
    BY <1>8, <2>1, <2>2 DEF Telling, ghosts
  <2> QED
    BY <1>7, <1>8, <2>1, <2>3, IdleIs
<1>9. ASSUME NEW r \in Req, OpenRelease(r) PROVE MobileInv'
  <2>1. req[r].at = "open" /\ req[r].material \in Material /\ req[r].number \in Number
    BY <1>9, <1>i, At DEF OpenRelease
  <2>2. [number |-> req[r].number, track |-> "pending", status |-> "requested",
         source |-> "reported", material |-> Signed(r)] \in Row
    BY <2>1 DEF Row, Signed
  <2>3. Signed(r) \in served[req[r].number]
    BY <2>1, <1>i DEF Signing, Signed
  <2> QED
    BY <1>8, <1>9, <2>2, <2>3 DEF OpenRelease
<1>10. ASSUME NEW r \in Req, InsertRow(r) PROVE MobileInv'
  <2>1. /\ req[r].number \in Number /\ req[r].track \in Track /\ req[r].status \in Reported
    BY <1>10, <1>i, At DEF InsertRow
  <2>2. [number |-> req[r].number, track |-> req[r].track, status |-> req[r].status,
         source |-> "reported", material |-> None] \in Row
    BY <2>1 DEF Row
  <2> QED
    BY <1>8, <1>10, <2>2 DEF InsertRow
<1>11. ASSUME NEW r \in Req, NEW n \in Number, NEW t \in Track, NEW s \in Reported,
              AskReport(r, n, t, s)
       PROVE  MobileInv'
  <2>1. CASE \E i \in On(n, "pending") :
               Goto(r, [at |-> "join", id |-> i, track |-> t, status |-> s])
    <3>1. PICK i \in On(n, "pending") :
            Goto(r, [at |-> "join", id |-> i, track |-> t, status |-> s])
      BY <2>1
    <3>2. i \in Id /\ row[i] # None
      BY DEF On, Rows
    <3>3. [at |-> "join", id |-> i, track |-> t, status |-> s] \in Request
      BY <3>2 DEF Request
    <3> QED
      BY <1>4, <1>11, <3>1, <3>2, <3>3, <1>i DEF AskReport, TypeOK
  <2>2. CASE \E i \in On(n, t) : Goto(r, [at |-> "refine", id |-> i, status |-> s])
    <3>1. PICK i \in On(n, t) : Goto(r, [at |-> "refine", id |-> i, status |-> s])
      BY <2>2
    <3>2. i \in Id /\ row[i] # None
      BY DEF On, Rows
    <3>3. [at |-> "refine", id |-> i, status |-> s] \in Request
      BY <3>2 DEF Request
    <3> QED
      BY <1>4, <1>11, <3>1, <3>2, <3>3, <1>i DEF AskReport, TypeOK
  <2>3. CASE Goto(r, [at |-> "insert", number |-> n, track |-> t, status |-> s])
    <3>1. [at |-> "insert", number |-> n, track |-> t, status |-> s] \in Request
      BY DEF Request
    <3> QED
      BY <1>4, <1>11, <2>3, <3>1, <1>i DEF AskReport, TypeOK
  <2> QED
    BY <1>11, <2>1, <2>2, <2>3 DEF AskReport
<1>12. ASSUME NEW r \in Req, NEW i \in Id, NEW new \in Row, Goto(r, Idle), row[i] # None,
              row' = [row EXCEPT ![i] = new] \/ row' = row,
              new.number = row[i].number, new.material = row[i].material,
              UNCHANGED <<application, made, store, ghosts>>
       PROVE  MobileInv'
  <2>1. CASE row' = row
    BY <1>7, <1>12, <2>1, <1>i, IdleIs DEF Telling, TypeOK
  <2>2. CASE row' = [row EXCEPT ![i] = new]
    <3>1. /\ row' \in [Id -> Row \cup {None}] /\ row'[i] = new /\ row'[i] # None
          /\ \A j \in Id \ {i} : row'[j] = row[j]
      BY <1>12, <2>2, <1>i, Rewritten
    <3>2. Telling
      BY <1>12, <3>1 DEF Telling
    <3> QED
      BY <1>7, <1>12, <3>1, <3>2, <1>i, IdleIs DEF TypeOK
  <2> QED
    BY <1>12, <2>1, <2>2
<1>13. ASSUME NEW r \in Req, JoinRow(r) PROVE MobileInv'
  <2>1. /\ req[r].id \in Id /\ req[r].track \in Track /\ req[r].status \in Reported
        /\ row[req[r].id] # None
    BY <1>13, <1>i, At DEF JoinRow, Aims
  <2> DEFINE new == [row[req[r].id] EXCEPT !.track = req[r].track, !.status = req[r].status]
  <2>2. row[req[r].id] \in Row
    BY <2>1, <1>i, RowIs
  <2>3. /\ new \in Row /\ new.number = row[req[r].id].number
        /\ new.material = row[req[r].id].material
    BY <2>1, <2>2 DEF Row
  <2>4. row' = [row EXCEPT ![req[r].id] = new] \/ row' = row
    BY <1>13 DEF JoinRow
  <2> HIDE DEF new
  <2> QED
    BY <1>12, <1>13, <2>1, <2>3, <2>4 DEF JoinRow
<1>14. ASSUME NEW r \in Req, RefineRow(r) PROVE MobileInv'
  <2>1. req[r].id \in Id /\ req[r].status \in Reported /\ row[req[r].id] # None
    BY <1>14, <1>i, At DEF RefineRow, Aims
  <2> DEFINE new == [row[req[r].id] EXCEPT !.status = req[r].status]
  <2>2. row[req[r].id] \in Row
    BY <2>1, <1>i, RowIs
  <2>3. /\ new \in Row /\ new.number = row[req[r].id].number
        /\ new.material = row[req[r].id].material
    BY <2>1, <2>2 DEF Row
  <2>4. row' = [row EXCEPT ![req[r].id] = new]
    BY <1>14 DEF RefineRow
  <2> HIDE DEF new
  <2> QED
    BY <1>12, <1>14, <2>1, <2>3, <2>4 DEF RefineRow
<1>15. ASSUME NEW r \in Req, RecordAction(r) PROVE MobileInv'
  <2>1. /\ req[r].id \in Id /\ req[r].track \in Track /\ req[r].status \in Held
        /\ row[req[r].id] # None
    BY <1>15, <1>i, At DEF RecordAction, Aims
  <2> DEFINE new == [row[req[r].id] EXCEPT !.track = req[r].track, !.status = req[r].status,
                                           !.source = "reported"]
  <2>2. row[req[r].id] \in Row
    BY <2>1, <1>i, RowIs
  <2>3. /\ new \in Row /\ new.number = row[req[r].id].number
        /\ new.material = row[req[r].id].material
    BY <2>1, <2>2 DEF Row
  <2>4. row' = [row EXCEPT ![req[r].id] = new] \/ row' = row
    BY <1>15 DEF RecordAction
  <2> HIDE DEF new
  <2> QED
    BY <1>12, <1>15, <2>1, <2>3, <2>4 DEF RecordAction
<1>16. ASSUME NEW r \in Req, AskSync(r) PROVE MobileInv'
  <2> DEFINE found == {<<i, store[row[i].number][row[i].track]>> : i \in
                         {j \in Rows : /\ row[j].track \in Track
                                       /\ store[row[j].number][row[j].track] # None}}
  <2>1. ASSUME NEW i \in Rows, row[i].track \in Track,
               store[row[i].number][row[i].track] # None
        PROVE  i \in Id /\ row[i] # None /\ store[row[i].number][row[i].track] \in Held
    <3>1. i \in Id /\ row[i] # None
      BY DEF Rows
    <3>2. row[i].number \in Number
      BY <3>1, <1>i, RowIs DEF Row
    <3> QED
      BY <2>1, <3>1, <3>2, <1>i DEF TypeOK
  <2>2. found \in SUBSET (Id \X Held) /\ \A p \in found : row[p[1]] # None
    BY <2>1
  <2>3. Goto(r, [at |-> "sync", found |-> found])
    BY <1>16 DEF AskSync
  <2> HIDE DEF found
  <2>4. [at |-> "sync", found |-> found] \in Request
    BY <2>2 DEF Request
  <2> QED
    BY <1>4, <1>16, <2>2, <2>3, <2>4, <1>i DEF AskSync, TypeOK
<1>17. ASSUME NEW r \in Req, WriteSync(r) PROVE MobileInv'
  <2>1. /\ req[r].found \in SUBSET (Id \X Held)
        /\ \A p \in req[r].found : row[p[1]] # None
    BY <1>17, <1>i, At DEF WriteSync, Aims
  <2>2. ASSUME NEW i \in Id
        PROVE  \/ row'[i] = row[i]
               \/ /\ row[i] # None /\ row'[i] \in Row
                  /\ row'[i].number = row[i].number /\ row'[i].material = row[i].material
    <3>1. CASE ~\E p \in req[r].found : p[1] = i
      BY <1>17, <3>1 DEF WriteSync
    <3>2. CASE \E p \in req[r].found : p[1] = i
      <4> DEFINE p == CHOOSE q \in req[r].found : q[1] = i
      <4>1. p \in req[r].found /\ p[1] = i
        BY <3>2
      <4> HIDE DEF p
      <4>2. p[2] \in Held /\ row[i] # None
        BY <2>1, <4>1
      <4>3. row[i] \in Row
        BY <4>2, <1>i, RowIs
      <4>4. row'[i] = [row[i] EXCEPT !.status = p[2], !.source = "store"]
        BY <1>17, <3>2 DEF WriteSync, p
      <4> QED
        BY <4>2, <4>3, <4>4 DEF Row
    <3> QED
      BY <3>1, <3>2
  <2>3. row' \in [Id -> Row \cup {None}]
    <3>1. row' = [i \in Id |-> row'[i]]
      BY <1>17 DEF WriteSync
    <3> QED
      BY <2>2, <3>1, <1>i DEF TypeOK
  <2>4. Telling /\ \A i \in Id : row[i] # None => row'[i] # None
    BY <2>2 DEF Telling
  <2> QED
    BY <1>7, <1>17, <2>3, <2>4, <1>i, IdleIs DEF WriteSync, TypeOK
<1>18. ASSUME NEW r \in Req, NEW i \in Id, NEW t \in Track, NEW s \in Held, AskAction(r, i, t, s)
       PROVE  MobileInv'
  <2>1. row[i] # None /\ [at |-> "ask", id |-> i, track |-> t, status |-> s] \in Request
    BY <1>18 DEF AskAction, Rows, Request
  <2> QED
    BY <1>4, <1>18, <2>1, <1>i DEF AskAction, TypeOK
<1>19. ASSUME NEW r \in Req, AskStore(r) PROVE MobileInv'
  <2>1. /\ req[r].id \in Id /\ req[r].track \in Track /\ req[r].status \in Held
        /\ row[req[r].id] # None /\ req[r] \in Request /\ req[r].at = "ask"
    BY <1>19, <1>i, At DEF AskStore, Aims, TypeOK
  <2>2. CASE Goto(r, Idle) /\ store' = store
    BY <1>4, <1>19, <2>2, <1>i, IdleIs DEF AskStore, TypeOK
  <2>3. CASE /\ store' = [store EXCEPT ![row[req[r].id].number][req[r].track] = req[r].status]
             /\ Goto(r, [req[r] EXCEPT !.at = "act"])
    <3>1. row[req[r].id].number \in Number
      BY <2>1, <1>i, RowIs DEF Row
    <3>2. store' \in [Number -> [Track -> Held \cup {None}]]
      <4>1. [store[row[req[r].id].number] EXCEPT ![req[r].track] = req[r].status]
              \in [Track -> Held \cup {None}]
        BY <2>1, <3>1, <1>i DEF TypeOK
      <4> QED
        BY <2>3, <3>1, <4>1, <1>i DEF TypeOK
    <3>3. req[r] \in [at: {"ask"}, id: Id, track: Track, status: Held]
      BY <2>1 DEF Request, Idle
    <3> DEFINE state == [req[r] EXCEPT !.at = "act"]
    <3>4. state \in Request /\ state.at = "act" /\ state.id = req[r].id
      BY <3>3 DEF Request
    <3>5. Goto(r, state)
      BY <2>3
    <3> HIDE DEF state
    <3> QED
      BY <1>4, <1>19, <2>1, <3>2, <3>4, <3>5 DEF AskStore
  <2> QED
    BY <1>19, <2>2, <2>3 DEF AskStore
<1>20. ASSUME NEW r \in Req, Stop(r) PROVE MobileInv'
  BY <1>4, <1>20, <1>i, IdleIs DEF Stop, TypeOK
<1>21. CASE UNCHANGED vars
  BY <1>1, <1>21, <1>i DEF vars, register, TypeOK
<1> QED
  BY <1>2, <1>3, <1>5, <1>6, <1>9, <1>10, <1>11, <1>13, <1>14, <1>15, <1>16, <1>17, <1>18,
     <1>19, <1>20, <1>21
  DEF Next
-----------------------------------------------------------------------------
(* The deployments of an environment.                                      *)

\* A run has one row, made after those before it; a bundle counted was served.
Registered ==
    /\ \A i \in D!Rows : i <= opened
    /\ \A i, j \in D!Rows : deployment[i].run = deployment[j].run => i = j
    /\ \A i \in D!Rows : deployment[i].count > 0 => given[deployment[i].run] > 0

\* What a request in state c still stands on.
Stands(c) ==
    /\ c.at \in {"create", "reread", "join"} => given[c.run] > 0
    /\ c.at = "join" => /\ c.id <= opened
                        /\ c.id \in D!Rows => deployment[c.id].run = c.run
                        /\ c.id \notin D!Rows => c.run \in missed
    /\ c.at = "reread" => D!RowsOf(c.run) # {} \/ c.run \in missed
    /\ c.at = "report" => /\ c.correlated => given[c.run] > 0
                          /\ c.status = "succeeded" => c.run \in success
    /\ c.at = "complete" => \E n \in success : given[n] > 0
    /\ c.at \in {"complete", "settle"} => \A p \in c.rest :
         /\ p[1] <= opened
         /\ p[2] = TRUE /\ p[1] \in D!Rows => given[deployment[p[1]].run] > 0

Calls == \A r \in Req : Stands(call[r])

\* The bundles served to a run are those counted and those about to be.
Balance ==
    \A n \in Run \ missed :
        /\ D!RowsOf(n) = {} => given[n] = Cardinality(D!Opening(n))
        /\ \A i \in D!RowsOf(n) :
             given[n] = deployment[i].count + Cardinality(D!Opening(n))

ServerInv == D!TypeOK /\ Registered /\ Calls /\ Balance /\ SetupIsEarned

LEMMA IdleCall == D!Idle \in D!Request /\ D!Idle.at = "idle"
  BY DEF D!Idle, D!Request

LEMMA OpeningFinite == \A n : IsFiniteSet(D!Opening(n))
  <1>1. \A n : D!Opening(n) \subseteq Req
    BY DEF D!Opening
  <1> QED
    BY <1>1, DeploymentsAssumption, FS_Subset

LEMMA ServerInit == D!Init => ServerInv
<1> SUFFICES ASSUME D!Init PROVE ServerInv
  OBVIOUS
<1> USE DeploymentsAssumption
<1>1. D!TypeOK
  <2>1. deployment \in [D!Id -> D!Row \cup {None}]
    BY DEF D!Init
  <2>2. call \in [Req -> D!Request]
    BY IdleCall DEF D!Init
  <2>3. given \in [Run -> 0..MaxService] /\ opened \in 0..MaxDeployment
    BY DEF D!Init
  <2> QED
    BY <2>1, <2>2, <2>3 DEF D!Init, D!TypeOK
<1>2. D!Rows = {} /\ \A r \in Req : call[r].at = "idle"
  BY IdleCall DEF D!Init, D!Rows
<1>3. Registered /\ Calls
  BY <1>2 DEF Registered, Calls, Stands
<1>4. Balance
  <2>1. \A n : D!RowsOf(n) = {} /\ D!Opening(n) = {}
    BY <1>2 DEF D!RowsOf, D!Opening
  <2>2. Cardinality({}) = 0
    BY FS_EmptySet
  <2> QED
    BY <2>1, <2>2 DEF Balance, D!Init
<1>5. SetupIsEarned
  BY DEF D!Init, SetupIsEarned, D!SetupIsEarned
<1> QED
  BY <1>1, <1>3, <1>4, <1>5 DEF ServerInv

LEMMA Called ==
    ASSUME D!TypeOK, NEW r \in Req, NEW c \in D!Request, D!Goto(r, c)
    PROVE  /\ call' \in [Req -> D!Request]
           /\ call'[r] = c /\ \A q \in Req \ {r} : call'[q] = call[q]
  BY DEF D!Goto, D!TypeOK

\* A request by what it is at.
LEMMA CallAt ==
    ASSUME NEW c \in D!Request
    PROVE  /\ c.at \in {"create", "reread", "join"} => c.run \in Run
           /\ c.at = "join" => c.id \in D!Id
           /\ c.at = "purge" => c.stale \in SUBSET D!Id
           /\ c.at = "report" => /\ c.id \in D!Id /\ c.run \in Run
                                 /\ c.status \in D!Status /\ c.correlated \in BOOLEAN
           /\ c.at = "insert" => c.run \in Run /\ c.status \in D!Status
           /\ c.at \in {"complete", "settle"} => c.rest \in SUBSET (D!Id \X BOOLEAN)
  BY DEF D!Request, D!Idle

LEMMA DeploymentIs ==
    ASSUME D!TypeOK, NEW i \in D!Rows
    PROVE  /\ i \in D!Id /\ deployment[i] \in D!Row /\ deployment[i].run \in Run
           /\ deployment[i].count \in Nat
  BY DEF D!TypeOK, D!Rows, D!Row

-----------------------------------------------------------------------------
(* How the bundles not yet counted change.                                 *)

Opens(c, n) == c.at \in {"create", "reread", "join"} /\ c.run = n

LEMMA OpeningStays ==
    ASSUME NEW r \in Req, \A q \in Req \ {r} : call'[q] = call[q],
           NEW n, Opens(call[r], n) <=> Opens(call'[r], n)
    PROVE  D!Opening(n)' = D!Opening(n)
  BY DEF D!Opening, Opens

LEMMA OpeningGrows ==
    ASSUME NEW r \in Req, \A q \in Req \ {r} : call'[q] = call[q],
           NEW m \in Run, \A n \in Run : ~Opens(call[r], n), Opens(call'[r], m)
    PROVE  /\ \A n \in Run \ {m} : D!Opening(n)' = D!Opening(n)
           /\ Cardinality(D!Opening(m))' = Cardinality(D!Opening(m)) + 1
           /\ Cardinality(D!Opening(m)) \in Nat
<1>1. \A n \in Run \ {m} : D!Opening(n)' = D!Opening(n)
  BY DEF D!Opening, Opens
<1>2. r \notin D!Opening(m) /\ D!Opening(m)' = D!Opening(m) \cup {r}
  BY DEF D!Opening, Opens
<1>3. IsFiniteSet(D!Opening(m))
  BY OpeningFinite
<1>4. Cardinality(D!Opening(m) \cup {r}) = Cardinality(D!Opening(m)) + 1
  BY <1>2, <1>3, FS_AddElement
<1>5. Cardinality(D!Opening(m)) \in Nat
  BY <1>3, FS_CardinalityType
<1> QED
  BY <1>1, <1>2, <1>4, <1>5

LEMMA OpeningShrinks ==
    ASSUME NEW r \in Req, \A q \in Req \ {r} : call'[q] = call[q],
           NEW m \in Run, Opens(call[r], m), \A n \in Run : ~Opens(call'[r], n)
    PROVE  /\ \A n \in Run \ {m} : D!Opening(n)' = D!Opening(n)
           /\ Cardinality(D!Opening(m))' = Cardinality(D!Opening(m)) - 1
           /\ Cardinality(D!Opening(m)) \in Nat
<1>1. \A n \in Run \ {m} : D!Opening(n)' = D!Opening(n)
  BY DEF D!Opening, Opens
<1>2. r \in D!Opening(m) /\ D!Opening(m)' = D!Opening(m) \ {r}
  BY DEF D!Opening, Opens
<1>3. IsFiniteSet(D!Opening(m))
  BY OpeningFinite
<1>4. Cardinality(D!Opening(m) \ {r}) = Cardinality(D!Opening(m)) - 1
  BY <1>2, <1>3, FS_RemoveElement
<1>5. Cardinality(D!Opening(m)) \in Nat
  BY <1>3, FS_CardinalityType
<1> QED
  BY <1>1, <1>2, <1>4, <1>5
-----------------------------------------------------------------------------
(* What a change of rows leaves true.                                      *)

\* No run gets another row in the place of one that was there.
RowsMove ==
    /\ opened <= opened' /\ opened' \in Nat
    /\ success \subseteq success' /\ missed \subseteq missed'
    /\ \A n \in Run : given'[n] \in Nat /\ given[n] <= given'[n]
    /\ \A i \in D!Rows' : i <= opened => i \in D!Rows /\ deployment'[i].run = deployment[i].run
    /\ \A i \in D!Rows : i \notin D!Rows' => deployment[i].run \in missed'

LEMMA StandsOn ==
    ASSUME D!TypeOK, Registered, RowsMove, NEW c \in D!Request, Stands(c)
    PROVE  Stands(c)'
<1>t. opened \in Nat /\ success \subseteq Run /\ \A n \in Run : given[n] \in Nat
  BY DeploymentsAssumption DEF D!TypeOK
<1>i. \A i \in D!Id : i \in Nat
  BY DeploymentsAssumption DEF D!Id
<1>g. \A n \in Run : given[n] > 0 => given'[n] > 0
  BY <1>t DEF RowsMove
<1>k. \A i \in D!Rows : i \in D!Rows' => deployment'[i].run = deployment[i].run
  BY DEF RowsMove, Registered
<1>1. c.at \in {"create", "reread", "join"} => given'[c.run] > 0
  BY <1>g, CallAt DEF Stands
<1>2. c.at = "join" => /\ c.id <= opened'
                       /\ c.id \in D!Rows' => deployment'[c.id].run = c.run
                       /\ c.id \notin D!Rows' => c.run \in missed'
  <2> SUFFICES ASSUME c.at = "join"
               PROVE  /\ c.id <= opened'
                      /\ c.id \in D!Rows' => deployment'[c.id].run = c.run
                      /\ c.id \notin D!Rows' => c.run \in missed'
    OBVIOUS
  <2>1. c.id \in Nat /\ c.id <= opened /\ c.id <= opened'
    BY <1>t, <1>i, CallAt DEF Stands, RowsMove
  <2>2. c.id \in D!Rows' => deployment'[c.id].run = c.run
    BY <2>1 DEF Stands, RowsMove
  <2>3. c.id \notin D!Rows' => c.run \in missed'
    BY DEF Stands, RowsMove
  <2> QED
    BY <2>1, <2>2, <2>3
<1>3. c.at = "reread" => D!RowsOf(c.run)' # {} \/ c.run \in missed'
  <2> SUFFICES ASSUME c.at = "reread", c.run \notin missed'
               PROVE  D!RowsOf(c.run)' # {}
    OBVIOUS
  <2>1. PICK i \in D!Rows : deployment[i].run = c.run
    BY DEF Stands, RowsMove, D!RowsOf
  <2>2. i \in D!Rows' /\ deployment'[i].run = c.run
    BY <2>1, <1>k DEF RowsMove
  <2> QED
    BY <2>2 DEF D!RowsOf
<1>4. c.at = "report" => /\ c.correlated => given'[c.run] > 0
                         /\ c.status = "succeeded" => c.run \in success'
  BY <1>g, CallAt DEF Stands, RowsMove
<1>5. c.at = "complete" => \E n \in success' : given'[n] > 0
  BY <1>g, <1>t DEF Stands, RowsMove
<1>6. ASSUME c.at \in {"complete", "settle"}, NEW p \in c.rest
      PROVE  /\ p[1] <= opened'
             /\ p[2] = TRUE /\ p[1] \in D!Rows' => given'[deployment'[p[1]].run] > 0
  <2>1. p[1] \in Nat /\ p[1] <= opened /\ p[1] <= opened'
    BY <1>6, <1>t, <1>i, CallAt DEF Stands, RowsMove
  <2>2. ASSUME p[2] = TRUE, p[1] \in D!Rows' PROVE given'[deployment'[p[1]].run] > 0
    <3>1. p[1] \in D!Rows /\ deployment'[p[1]].run = deployment[p[1]].run
      BY <2>1, <2>2 DEF RowsMove
    <3>2. given[deployment[p[1]].run] > 0 /\ deployment[p[1]].run \in Run
      BY <1>6, <2>2, <3>1, DeploymentIs DEF Stands
    <3> QED
      BY <3>1, <3>2, <1>g
  <2> QED
    BY <2>1, <2>2
<1> QED
  BY <1>1, <1>2, <1>3, <1>4, <1>5, <1>6 DEF Stands

LEMMA CallsOn ==
    ASSUME D!TypeOK, Registered, RowsMove, Calls, NEW r \in Req, NEW c,
           \A q \in Req \ {r} : call'[q] = call[q], call'[r] = c, Stands(c)'
    PROVE  Calls'
<1>1. ASSUME NEW q \in Req, q # r PROVE Stands(call[q])'
  <2>1. PICK d \in D!Request : d = call[q]
    BY DEF D!TypeOK
  <2>2. Stands(d)
    BY <2>1 DEF Calls
  <2>3. Stands(d)'
    BY <2>2, StandsOn
  <2>4. call'[q] = d
    BY <1>1, <2>1
  <2> QED
    BY <2>3, <2>4 DEF Stands
<1>2. Stands(call[r])'
  BY DEF Stands
<1> QED
  BY <1>1, <1>2 DEF Calls

-----------------------------------------------------------------------------
(* Every step preserves the invariant of the deployments.                  *)

LEMMA Assembled ==
    ASSUME ServerInv, NEW r \in Req, NEW c \in D!Request, D!Goto(r, c),
           deployment' \in [D!Id -> D!Row \cup {None}], opened' \in 0..MaxDeployment,
           given' \in [Run -> 0..MaxService], setup' \in BOOLEAN,
           success' \subseteq Run, missed' \subseteq Run,
           RowsMove, Stands(c)', Registered', Balance',
           setup' => \E n \in success' : given'[n] > 0
    PROVE  ServerInv'
<1>1. /\ call' \in [Req -> D!Request]
      /\ call'[r] = c /\ \A q \in Req \ {r} : call'[q] = call[q]
  BY Called DEF ServerInv
<1>2. Calls'
  BY <1>1, CallsOn DEF ServerInv
<1>3. D!TypeOK'
  BY <1>1 DEF D!TypeOK
<1> QED
  BY <1>2, <1>3 DEF ServerInv, SetupIsEarned, D!SetupIsEarned

\* The rows keep their runs and counts, whatever else is written of them.
LEMMA SameRows ==
    ASSUME ServerInv, NEW r \in Req, NEW c \in D!Request, D!Goto(r, c),
           deployment' \in [D!Id -> D!Row \cup {None}], D!Rows' = D!Rows,
           \A i \in D!Rows : /\ deployment'[i].run = deployment[i].run
                             /\ deployment'[i].count = deployment[i].count,
           UNCHANGED <<opened, given>>, setup' \in BOOLEAN,
           success \subseteq success', success' \subseteq Run,
           missed \subseteq missed', missed' \subseteq Run,
           Stands(c)', setup' => \E n \in success' : given[n] > 0,
           \A n \in Run \ missed' : Opens(call[r], n) <=> Opens(c, n)
    PROVE  ServerInv'
<1>1. /\ call' \in [Req -> D!Request]
      /\ call'[r] = c /\ \A q \in Req \ {r} : call'[q] = call[q]
  BY Called DEF ServerInv
<1>2. \A n \in Run \ missed' : D!Opening(n)' = D!Opening(n)
  BY <1>1, OpeningStays
<1>3. \A n : D!RowsOf(n)' = D!RowsOf(n)
  BY DEF D!RowsOf
<1>4. Balance'
  <2>1. \A n \in Run \ missed' : \A i \in D!RowsOf(n) : deployment'[i].count = deployment[i].count
    BY DEF D!RowsOf
  <2> QED
    BY <1>2, <1>3, <2>1 DEF ServerInv, Balance
<1>5. Registered'
  BY DEF ServerInv, Registered
<1>6. opened \in 0..MaxDeployment /\ given \in [Run -> 0..MaxService]
  BY DEF ServerInv, D!TypeOK
<1>7. RowsMove
  BY <1>6, DeploymentsAssumption DEF RowsMove
<1> QED
  BY <1>4, <1>5, <1>6, <1>7, Assembled

\* No row changes at all.
LEMMA CallStep ==
    ASSUME ServerInv, NEW r \in Req, NEW c \in D!Request, D!Goto(r, c),
           UNCHANGED <<deployment, opened, given>>, setup' \in BOOLEAN,
           success \subseteq success', success' \subseteq Run,
           missed \subseteq missed', missed' \subseteq Run,
           Stands(c)', setup' => \E n \in success' : given[n] > 0,
           \A n \in Run \ missed' : Opens(call[r], n) <=> Opens(c, n)
    PROVE  ServerInv'
<1>1. D!Rows' = D!Rows
  BY DEF D!Rows
<1>2. deployment' \in [D!Id -> D!Row \cup {None}]
  BY DEF ServerInv, D!TypeOK
<1> QED
  BY <1>1, <1>2, SameRows

LEMMA Nothing == Stands(D!Idle)' /\ \A n : ~Opens(D!Idle, n)
  BY IdleCall DEF Stands, Opens

LEMMA ServerFacts ==
    ASSUME ServerInv
    PROVE  /\ D!TypeOK /\ Registered /\ Calls /\ Balance
           /\ setup \in BOOLEAN /\ success \subseteq Run /\ missed \subseteq Run
           /\ setup => \E n \in success : given[n] > 0
           /\ opened \in 0..MaxDeployment /\ given \in [Run -> 0..MaxService]
           /\ \A r \in Req : call[r] \in D!Request /\ Stands(call[r])
  BY DEF ServerInv, D!TypeOK, SetupIsEarned, D!SetupIsEarned, Calls

\* A row whose count says so is that of a run that was served.
LEMMA Correlation ==
    D!TypeOK /\ Registered =>
        \A i \in D!Rows : \E b \in {TRUE, FALSE} :
            /\ b = D!Correlated(deployment[i].count)
            /\ b = TRUE => given[deployment[i].run] > 0
<1> SUFFICES ASSUME D!TypeOK, Registered, NEW i \in D!Rows
             PROVE  \E b \in {TRUE, FALSE} : /\ b = D!Correlated(deployment[i].count)
                                             /\ b = TRUE => given[deployment[i].run] > 0
  OBVIOUS
<1>1. CASE deployment[i].count > 0
  <2>1. D!Correlated(deployment[i].count) = TRUE
    BY <1>1 DEF D!Correlated
  <2> QED
    BY <1>1, <2>1 DEF Registered
<1>2. CASE ~(deployment[i].count > 0)
  <2>1. D!Correlated(deployment[i].count) = FALSE
    BY <1>2 DEF D!Correlated
  <2> QED
    BY <2>1
<1> QED
  BY <1>1, <1>2

\* The steps that write no row.
LEMMA QuietStep ==
    ASSUME ServerInv, NEW r \in Req,
           \/ D!Raced(r) \/ D!Reread(r) \/ D!FindStale(r) \/ D!Complete(r)
           \/ D!AskSettle(r) \/ D!SettleNothing(r) \/ D!Stop(r)
           \/ \E n \in Run, s \in {"succeeded", "failed"} : D!AskReport(r, n, s)
    PROVE  ServerInv'
<1>f. /\ D!TypeOK /\ Registered /\ Calls /\ Balance
      /\ setup \in BOOLEAN /\ success \subseteq Run /\ missed \subseteq Run
      /\ setup => \E n \in success : given[n] > 0
      /\ opened \in 0..MaxDeployment /\ given \in [Run -> 0..MaxService]
      /\ call[r] \in D!Request /\ Stands(call[r])
  BY ServerFacts
<1>i. D!Idle \in D!Request /\ Stands(D!Idle)' /\ \A n : ~Opens(D!Idle, n)
  BY IdleCall, Nothing
<1>d. PICK d \in D!Request : d = call[r]
  BY <1>f
<1>1. CASE D!Raced(r)
  <2> DEFINE c == [at |-> "reread", run |-> d.run]
  <2>1. d.at = "create" /\ d.run \in Run /\ given[d.run] > 0
    BY <1>1, <1>f, <1>d, CallAt DEF D!Raced, Stands
  <2>2. c \in D!Request
    BY <2>1 DEF D!Request
  <2>3. D!RowsOf(d.run)' # {}
    BY <1>1, <1>d DEF D!Raced, D!RowsOf, D!Rows
  <2>4. Stands(c)'
    BY <1>1, <2>1, <2>3 DEF D!Raced, Stands
  <2>5. \A n : Opens(call[r], n) <=> Opens(c, n)
    BY <1>d, <2>1 DEF Opens
  <2>6. D!Goto(r, c)
    BY <1>1, <1>d DEF D!Raced
  <2> HIDE DEF c
  <2> QED
    BY <1>1, <1>f, <2>2, <2>4, <2>5, <2>6, CallStep DEF D!Raced
<1>2. CASE D!Reread(r)
  <2>1. d.at = "reread" /\ d.run \in Run /\ given[d.run] > 0
    BY <1>2, <1>f, <1>d, CallAt DEF D!Reread, Stands
  <2>2. ASSUME NEW i \in D!RowsOf(d.run), D!Goto(r, [at |-> "join", run |-> d.run, id |-> i])
        PROVE  ServerInv'
    <3> DEFINE c == [at |-> "join", run |-> d.run, id |-> i]
    <3>1. i \in D!Rows /\ i \in D!Id /\ deployment[i].run = d.run /\ i <= opened
      BY <1>f DEF D!RowsOf, D!Rows, Registered
    <3>2. c \in D!Request
      BY <2>1, <3>1 DEF D!Request
    <3>3. Stands(c)'
      BY <1>2, <2>1, <3>1 DEF D!Reread, Stands, D!Rows
    <3>4. \A n : Opens(call[r], n) <=> Opens(c, n)
      BY <1>d, <2>1 DEF Opens
    <3>5. D!Goto(r, c)
      BY <2>2
    <3> HIDE DEF c
    <3> QED
      BY <1>2, <1>f, <3>2, <3>3, <3>4, <3>5, CallStep DEF D!Reread
  <2>3. ASSUME D!RowsOf(d.run) = {}, D!Goto(r, D!Idle) PROVE ServerInv'
    <3>1. d.run \in missed
      BY <1>f, <1>d, <2>1, <2>3 DEF Stands
    <3>2. \A n \in Run \ missed : ~Opens(call[r], n)
      BY <1>d, <3>1 DEF Opens
    <3> QED
      BY <1>2, <1>f, <1>i, <2>3, <3>2, CallStep DEF D!Reread
  <2> QED
    BY <1>2, <1>d, <2>2, <2>3 DEF D!Reread
<1>3. CASE D!FindStale(r)
  <2>1. d.at = "find" /\ \A n : ~Opens(call[r], n)
    BY <1>3, <1>d DEF D!FindStale, Opens
  <2>2. CASE D!Goto(r, D!Idle)
    BY <1>3, <1>f, <1>i, <2>1, <2>2, CallStep DEF D!FindStale
  <2>3. CASE D!Goto(r, [at |-> "purge", stale |-> D!Stale])
    <3>1. PICK stale \in SUBSET D!Id : stale = D!Stale
      BY DEF D!Stale, D!Rows
    <3> DEFINE c == [at |-> "purge", stale |-> stale]
    <3>2. c \in D!Request
      BY DEF D!Request
    <3>3. Stands(c)' /\ (\A n : ~Opens(c, n)) /\ D!Goto(r, c)
      BY <2>3, <3>1 DEF Stands, Opens
    <3> HIDE DEF c
    <3> QED
      BY <1>3, <1>f, <2>1, <3>2, <3>3, CallStep DEF D!FindStale
  <2> QED
    BY <1>3, <2>2, <2>3 DEF D!FindStale
<1>4. CASE D!Complete(r)
  <2>1. /\ d.at = "complete" /\ \A n : ~Opens(call[r], n)
        /\ d.rest \in SUBSET (D!Id \X BOOLEAN) /\ \E n \in success : given[n] > 0
    BY <1>4, <1>f, <1>d, CallAt DEF D!Complete, Opens, Stands
  <2>2. CASE D!Goto(r, D!Idle)
    BY <1>4, <1>f, <1>i, <2>1, <2>2, CallStep DEF D!Complete
  <2>3. CASE D!Goto(r, [at |-> "settle", rest |-> d.rest])
    <3> DEFINE c == [at |-> "settle", rest |-> d.rest]
    <3>1. c \in D!Request /\ \A n : ~Opens(c, n)
      BY <2>1 DEF D!Request, Opens
    <3>2. \A p \in d.rest : /\ p[1] <= opened
                            /\ p[2] = TRUE /\ p[1] \in D!Rows => given[deployment[p[1]].run] > 0
      BY <1>f, <1>d, <2>1 DEF Stands
    <3>3. Stands(c)'
      BY <1>4, <3>2 DEF D!Complete, Stands, D!Rows
    <3>4. D!Goto(r, c)
      BY <2>3
    <3> HIDE DEF c
    <3> QED
      BY <1>4, <1>f, <2>1, <3>1, <3>3, <3>4, CallStep DEF D!Complete
  <2> QED
    BY <1>4, <1>d, <2>2, <2>3 DEF D!Complete
<1>5. CASE D!AskSettle(r)
  <2>1. \A n : ~Opens(call[r], n)
    BY <1>5, <1>i DEF D!AskSettle
  <2>2. PICK rest : /\ rest = {<<i, D!Correlated(deployment[i].count)>> :
                                 i \in {j \in D!Rows : deployment[j].status = "requested"}}
                    /\ D!Goto(r, [at |-> "settle", rest |-> rest])
    BY <1>5 DEF D!AskSettle
  <2>3. \A p \in rest : /\ p \in D!Id \X BOOLEAN /\ p[1] <= opened
                        /\ p[2] = TRUE => given[deployment[p[1]].run] > 0
    <3>1. ASSUME NEW p \in rest PROVE /\ p \in D!Id \X BOOLEAN /\ p[1] <= opened
                                      /\ p[2] = TRUE => given[deployment[p[1]].run] > 0
      <4>1. PICK i \in D!Rows : p = <<i, D!Correlated(deployment[i].count)>>
        BY <2>2
      <4>2. PICK b \in {TRUE, FALSE} : /\ b = D!Correlated(deployment[i].count)
                                       /\ b = TRUE => given[deployment[i].run] > 0
        BY <1>f, Correlation
      <4>3. p = <<i, b>> /\ i \in D!Id /\ i <= opened
        BY <1>f, <4>1, <4>2 DEF Registered, D!Rows
      <4> HIDE <4>1
      <4>4. p[1] = i /\ p[2] = b /\ p \in D!Id \X BOOLEAN
        BY <4>3
      <4> QED
        BY <4>2, <4>3, <4>4
    <3> QED
      BY <3>1
  <2> DEFINE c == [at |-> "settle", rest |-> rest]
  <2>4. c \in D!Request /\ \A n : ~Opens(c, n)
    BY <2>3 DEF D!Request, Opens
  <2>5. Stands(c)'
    BY <1>5, <2>3 DEF D!AskSettle, Stands, D!Rows
  <2>6. D!Goto(r, c)
    BY <2>2
  <2> HIDE DEF c
  <2> QED
    BY <1>5, <1>f, <2>1, <2>4, <2>5, <2>6, CallStep DEF D!AskSettle
<1>6. CASE D!SettleNothing(r)
  <2>1. /\ d.at = "settle" /\ \A n : ~Opens(call[r], n)
        /\ d.rest \in SUBSET (D!Id \X BOOLEAN)
    BY <1>6, <1>d, CallAt DEF D!SettleNothing, Opens
  <2>2. PICK p \in d.rest : D!Goto(r, D!Rest(r, p))
    BY <1>6, <1>d DEF D!SettleNothing, D!Current
  <2>3. CASE D!Goto(r, D!Idle)
    BY <1>6, <1>f, <1>i, <2>1, <2>3, CallStep DEF D!SettleNothing
  <2>4. CASE D!Goto(r, [at |-> "settle", rest |-> d.rest \ {p}])
    <3> DEFINE c == [at |-> "settle", rest |-> d.rest \ {p}]
    <3>1. c \in D!Request /\ \A n : ~Opens(c, n)
      BY <2>1 DEF D!Request, Opens
    <3>2. \A q \in d.rest : /\ q[1] <= opened
                            /\ q[2] = TRUE /\ q[1] \in D!Rows => given[deployment[q[1]].run] > 0
      BY <1>f, <1>d, <2>1 DEF Stands
    <3>3. Stands(c)'
      BY <1>6, <3>2 DEF D!SettleNothing, Stands, D!Rows
    <3>4. D!Goto(r, c)
      BY <2>4
    <3> HIDE DEF c
    <3> QED
      BY <1>6, <1>f, <2>1, <3>1, <3>3, <3>4, CallStep DEF D!SettleNothing
  <2> QED
    BY <1>d, <2>2, <2>3, <2>4 DEF D!Rest
<1>7. CASE D!Stop(r)
  <2>1. \A n \in Run \ missed' : ~Opens(call[r], n)
    BY <1>7 DEF D!Stop, Opens
  <2>2. missed \subseteq missed' /\ missed' \subseteq Run
    BY <1>7, <1>f, <1>d, CallAt DEF D!Stop
  <2> QED
    BY <1>7, <1>f, <1>i, <2>1, <2>2, CallStep DEF D!Stop
<1>8. ASSUME NEW n \in Run, NEW s \in {"succeeded", "failed"}, D!AskReport(r, n, s)
      PROVE  ServerInv'
  <2>1. \A m : ~Opens(call[r], m)
    BY <1>8, <1>i DEF D!AskReport
  <2>2. /\ success \subseteq success' /\ success' \subseteq Run
        /\ s = "succeeded" => n \in success'
    BY <1>8, <1>f DEF D!AskReport
  <2>3. s \in D!Status
    BY DEF D!Status
  <2>4. ASSUME NEW i \in D!RowsOf(n), NEW correlated,
               correlated = D!Correlated(deployment[i].count),
               D!Goto(r, [at |-> "report", id |-> i, run |-> n, status |-> s,
                          correlated |-> correlated])
        PROVE  ServerInv'
    <3> DEFINE c == [at |-> "report", id |-> i, run |-> n, status |-> s,
                     correlated |-> correlated]
    <3>0. i \in D!Rows /\ i \in D!Id /\ deployment[i].run = n
      BY DEF D!RowsOf, D!Rows
    <3>1. PICK b \in {TRUE, FALSE} : /\ b = D!Correlated(deployment[i].count)
                                     /\ b = TRUE => given[deployment[i].run] > 0
      BY <1>f, <3>0, Correlation
    <3>2. c \in D!Request /\ \A m : ~Opens(c, m)
      <4>1. c \in [at: {"report"}, id: D!Id, run: Run, status: D!Status, correlated: BOOLEAN]
        BY <2>3, <2>4, <3>0, <3>1
      <4>2. c.at = "report"
        OBVIOUS
      <4> HIDE DEF c
      <4> QED
        BY <4>1, <4>2 DEF D!Request, Opens
    <3>3. Stands(c)'
      BY <1>8, <2>2, <2>4, <3>0, <3>1 DEF D!AskReport, Stands
    <3>4. D!Goto(r, c)
      BY <2>4
    <3> HIDE DEF c
    <3> QED
      BY <1>8, <1>f, <2>1, <2>2, <3>2, <3>3, <3>4, CallStep DEF D!AskReport
  <2>5. ASSUME D!Goto(r, [at |-> "insert", run |-> n, status |-> s]) PROVE ServerInv'
    <3> DEFINE c == [at |-> "insert", run |-> n, status |-> s]
    <3>1. c \in D!Request /\ \A m : ~Opens(c, m)
      BY <2>3 DEF D!Request, Opens
    <3>2. Stands(c)'
      BY DEF Stands
    <3>3. D!Goto(r, c)
      BY <2>5
    <3> HIDE DEF c
    <3> QED
      BY <1>8, <1>f, <2>1, <2>2, <3>1, <3>2, <3>3, CallStep DEF D!AskReport
  <2> QED
    BY <1>8, <2>4, <2>5 DEF D!AskReport
<1> QED
  BY <1>1, <1>2, <1>3, <1>4, <1>5, <1>6, <1>7, <1>8

\* A row that is there is written: its run and its count stay.
LEMMA Stamped ==
    ASSUME D!TypeOK, NEW i \in D!Rows, NEW status \in D!Status, NEW source \in D!Source,
           deployment' = [deployment EXCEPT ![i] = [@ EXCEPT !.status = status,
                                                             !.source = source]]
    PROVE  /\ deployment' \in [D!Id -> D!Row \cup {None}] /\ D!Rows' = D!Rows
           /\ \A j \in D!Rows : /\ deployment'[j].run = deployment[j].run
                                /\ deployment'[j].count = deployment[j].count
<1> DEFINE new == [deployment[i] EXCEPT !.status = status, !.source = source]
<1>1. i \in D!Id /\ deployment[i] \in D!Row
  BY DeploymentIs
<1>2. new \in D!Row /\ new.run = deployment[i].run /\ new.count = deployment[i].count
  BY <1>1 DEF D!Row
<1>3. deployment' = [deployment EXCEPT ![i] = new]
  OBVIOUS
<1> HIDE DEF new
<1>4. deployment' \in [D!Id -> D!Row \cup {None}]
  BY <1>1, <1>2, <1>3 DEF D!TypeOK
<1>5. deployment'[i] = new /\ \A j \in D!Id \ {i} : deployment'[j] = deployment[j]
  BY <1>1, <1>3 DEF D!TypeOK
<1>6. D!Rows' = D!Rows
  BY <1>1, <1>2, <1>5, DeploymentsAssumption DEF D!Rows
<1>7. \A j \in D!Rows : /\ deployment'[j].run = deployment[j].run
                        /\ deployment'[j].count = deployment[j].count
  BY <1>2, <1>5 DEF D!Rows
<1> QED
  BY <1>4, <1>6, <1>7

LEMMA StampingStep ==
    ASSUME ServerInv, NEW r \in Req,
           D!Report(r) \/ \E s \in {"succeeded", "failed"} : D!Settle(r, s)
    PROVE  ServerInv'
<1>f. /\ D!TypeOK /\ Registered /\ Calls /\ Balance
      /\ setup \in BOOLEAN /\ success \subseteq Run /\ missed \subseteq Run
      /\ setup => \E n \in success : given[n] > 0
      /\ opened \in 0..MaxDeployment /\ given \in [Run -> 0..MaxService]
      /\ call[r] \in D!Request /\ Stands(call[r])
  BY ServerFacts
<1>i. D!Idle \in D!Request /\ Stands(D!Idle)' /\ \A n : ~Opens(D!Idle, n)
  BY IdleCall, Nothing
<1>d. PICK d \in D!Request : d = call[r]
  BY <1>f
<1>s. {"succeeded", "failed"} \subseteq D!Status /\ {"reported", "platform"} \subseteq D!Source
  BY DEF D!Status, D!Source
<1>1. CASE D!Report(r)
  <2>1. /\ d.at = "report" /\ \A n : ~Opens(call[r], n)
        /\ d.run \in Run /\ d.status \in D!Status /\ d.correlated \in BOOLEAN
        /\ d.correlated => given[d.run] > 0
        /\ d.status = "succeeded" => d.run \in success
    BY <1>1, <1>f, <1>d, CallAt DEF D!Report, Opens, Stands
  <2>2. CASE d.id \notin D!Rows
    BY <1>1, <1>f, <1>i, <1>d, <2>1, <2>2, CallStep DEF D!Report
  <2>3. CASE d.id \in D!Rows
    <3>1. deployment' = [deployment EXCEPT ![d.id] = [@ EXCEPT !.status = d.status,
                                                               !.source = "reported"]]
      BY <1>1, <1>d, <2>3 DEF D!Report
    <3>2. /\ deployment' \in [D!Id -> D!Row \cup {None}] /\ D!Rows' = D!Rows
          /\ \A j \in D!Rows : /\ deployment'[j].run = deployment[j].run
                               /\ deployment'[j].count = deployment[j].count
      BY <1>f, <1>s, <2>1, <2>3, <3>1, Stamped
    <3>3. CASE D!Goto(r, D!Idle)
      BY <1>1, <1>f, <1>i, <2>1, <3>2, <3>3, SameRows DEF D!Report
    <3>4. CASE /\ d.status = "succeeded" /\ d.correlated
               /\ D!Goto(r, [at |-> "complete", rest |-> {}])
      <4> DEFINE c == [at |-> "complete", rest |-> {}]
      <4>1. c \in D!Request /\ \A n : ~Opens(c, n)
        BY DEF D!Request, Opens
      <4>2. Stands(c)'
        BY <1>1, <2>1, <3>4 DEF D!Report, Stands
      <4>3. D!Goto(r, c)
        BY <3>4
      <4> HIDE DEF c
      <4> QED
        BY <1>1, <1>f, <2>1, <3>2, <4>1, <4>2, <4>3, SameRows DEF D!Report
    <3> QED
      BY <1>1, <1>d, <2>3, <3>3, <3>4 DEF D!Report
  <2> QED
    BY <2>2, <2>3
<1>2. ASSUME NEW s \in {"succeeded", "failed"}, D!Settle(r, s) PROVE ServerInv'
  <2>1. /\ d.at = "settle" /\ (\A n : ~Opens(call[r], n))
        /\ d.rest \in SUBSET (D!Id \X BOOLEAN)
    BY <1>2, <1>d, CallAt DEF D!Settle, Opens
  <2>2. PICK p \in d.rest :
          IF p[1] \in D!Rows
          THEN /\ deployment' = [deployment EXCEPT ![p[1]] =
                                   [@ EXCEPT !.status = s, !.source = "platform"]]
               /\ success' = IF s = "succeeded" THEN success \cup {deployment[p[1]].run}
                             ELSE success
               /\ D!Goto(r, IF s = "succeeded" /\ p[2]
                            THEN [at |-> "complete", rest |-> d.rest \ {p}]
                            ELSE D!Rest(r, p))
          ELSE deployment' = deployment /\ success' = success /\ D!Goto(r, D!Rest(r, p))
    BY <1>2, <1>d DEF D!Settle, D!Current
  <2>3. UNCHANGED <<opened, setup, given, missed>>
    BY <1>2 DEF D!Settle
  <2>4. /\ deployment' \in [D!Id -> D!Row \cup {None}] /\ D!Rows' = D!Rows
        /\ \A j \in D!Rows : /\ deployment'[j].run = deployment[j].run
                             /\ deployment'[j].count = deployment[j].count
    <3>1. CASE p[1] \in D!Rows
      BY <1>f, <1>s, <2>2, <3>1, Stamped
    <3>2. CASE p[1] \notin D!Rows
      BY <1>f, <2>2, <3>2 DEF D!TypeOK, D!Rows
    <3> QED
      BY <3>1, <3>2
  <2>5. success \subseteq success' /\ success' \subseteq Run
    BY <1>f, <2>2, DeploymentIs
  <2>6. \A q \in d.rest : /\ q[1] <= opened
                          /\ q[2] = TRUE /\ q[1] \in D!Rows => given[deployment[q[1]].run] > 0
    BY <1>f, <1>d, <2>1 DEF Stands
  <2>7. ASSUME NEW c \in D!Request, D!Goto(r, c), c.at \in {"complete", "settle"},
               c.rest = d.rest \ {p},
               c.at = "complete" => \E n \in success' : given[n] > 0
        PROVE  ServerInv'
    <3>1. \A n : ~Opens(c, n)
      BY <2>7 DEF Opens
    <3>2. \A q \in c.rest : /\ q[1] <= opened
                            /\ q[2] = TRUE /\ q[1] \in D!Rows' => given[deployment'[q[1]].run] > 0
      BY <2>4, <2>6, <2>7
    <3>3. Stands(c)'
      BY <2>3, <2>7, <3>2 DEF Stands
    <3> QED
      BY <1>f, <2>1, <2>3, <2>4, <2>5, <2>7, <3>1, <3>3, SameRows
  <2>8. CASE D!Goto(r, D!Rest(r, p))
    <3>1. CASE D!Goto(r, D!Idle)
      BY <1>f, <1>i, <2>1, <2>3, <2>4, <2>5, <3>1, SameRows
    <3>2. CASE D!Goto(r, [at |-> "settle", rest |-> d.rest \ {p}])
      <4>1. [at |-> "settle", rest |-> d.rest \ {p}] \in D!Request
        BY <2>1 DEF D!Request
      <4> QED
        BY <2>7, <3>2, <4>1
    <3> QED
      BY <1>d, <2>8, <3>1, <3>2 DEF D!Rest
  <2>9. CASE /\ p[1] \in D!Rows /\ s = "succeeded" /\ p[2]
             /\ D!Goto(r, [at |-> "complete", rest |-> d.rest \ {p}])
    <3>1. [at |-> "complete", rest |-> d.rest \ {p}] \in D!Request
      BY <2>1 DEF D!Request
    <3>2. p[2] \in BOOLEAN
      BY <2>1
    <3>3. given[deployment[p[1]].run] > 0
      BY <2>6, <2>9, <3>2
    <3>4. \E n \in success' : given[n] > 0
      BY <2>2, <2>9, <3>3
    <3> QED
      BY <2>7, <2>9, <3>1, <3>4
  <2> QED
    BY <2>2, <2>8, <2>9
<1> QED
  BY <1>1, <1>2

LEMMA AskOpenStep ==
    ASSUME ServerInv, NEW r \in Req, NEW n \in Run, D!AskOpen(r, n)
    PROVE  ServerInv'
<1>f. /\ D!TypeOK /\ Registered /\ Calls /\ Balance
      /\ setup \in BOOLEAN /\ success \subseteq Run /\ missed \subseteq Run
      /\ setup => \E m \in success : given[m] > 0
      /\ opened \in 0..MaxDeployment /\ given \in [Run -> 0..MaxService]
  BY ServerFacts
<1>1. /\ \A m : ~Opens(call[r], m)
      /\ given' = [given EXCEPT ![n] = @ + 1] /\ given[n] < MaxService
      /\ UNCHANGED <<deployment, opened, setup, success, missed>>
  BY Nothing DEF D!AskOpen
<1>2. /\ given' \in [Run -> 0..MaxService] /\ given'[n] = given[n] + 1
      /\ \A m \in Run \ {n} : given'[m] = given[m]
      /\ \A m \in Run : given[m] \in Nat /\ given'[m] \in Nat /\ given[m] <= given'[m]
  BY <1>f, <1>1, DeploymentsAssumption
<1>3. /\ deployment' \in [D!Id -> D!Row \cup {None}] /\ D!Rows' = D!Rows
      /\ \A m : D!RowsOf(m)' = D!RowsOf(m)
  BY <1>f, <1>1 DEF D!TypeOK, D!Rows, D!RowsOf
<1>4. RowsMove
  BY <1>f, <1>1, <1>2, <1>3, DeploymentsAssumption DEF RowsMove
<1>5. Registered'
  <2>1. \A i \in D!Rows : deployment[i].run \in Run
    BY <1>f, DeploymentIs
  <2> QED
    BY <1>f, <1>1, <1>2, <1>3, <2>1 DEF Registered
<1>6. ASSUME NEW c \in D!Request, D!Goto(r, c), Opens(c, n), Stands(c)' PROVE ServerInv'
  <2>1. /\ call' \in [Req -> D!Request]
        /\ call'[r] = c /\ \A q \in Req \ {r} : call'[q] = call[q]
    BY <1>f, <1>6, Called
  <2>2. /\ \A m \in Run \ {n} : D!Opening(m)' = D!Opening(m)
        /\ Cardinality(D!Opening(n))' = Cardinality(D!Opening(n)) + 1
        /\ Cardinality(D!Opening(n)) \in Nat
    BY <1>1, <1>6, <2>1, OpeningGrows
  <2>3. ASSUME NEW m \in Run \ missed
        PROVE  /\ D!RowsOf(m)' = {} => given'[m] = Cardinality(D!Opening(m))'
               /\ \A i \in D!RowsOf(m)' :
                    given'[m] = deployment'[i].count + Cardinality(D!Opening(m))'
    <3>1. \A i \in D!RowsOf(m) : deployment[i].count \in Nat
      BY <1>f, DeploymentIs DEF D!RowsOf
    <3>2. CASE m # n
      BY <1>f, <1>1, <1>2, <1>3, <2>2, <3>2 DEF Balance
    <3>3. CASE m = n
      BY <1>f, <1>1, <1>2, <1>3, <2>2, <3>1, <3>3 DEF Balance
    <3> QED
      BY <3>2, <3>3
  <2>4. Balance'
    BY <1>1, <2>3 DEF Balance
  <2> QED
    BY <1>f, <1>1, <1>2, <1>3, <1>4, <1>5, <1>6, <2>4, Assembled
<1>7. ASSUME NEW i \in D!RowsOf(n), D!Goto(r, [at |-> "join", run |-> n, id |-> i])
      PROVE  ServerInv'
  <2> DEFINE c == [at |-> "join", run |-> n, id |-> i]
  <2>1. i \in D!Rows /\ i \in D!Id /\ deployment[i].run = n /\ i <= opened
    BY <1>f DEF D!RowsOf, D!Rows, Registered
  <2>2. c \in D!Request /\ Opens(c, n)
    BY <2>1 DEF D!Request, Opens
  <2>3. given'[n] > 0
    BY <1>2
  <2>4. Stands(c)'
    BY <1>1, <1>3, <2>1, <2>3 DEF Stands
  <2>5. D!Goto(r, c)
    BY <1>7
  <2> HIDE DEF c
  <2> QED
    BY <1>6, <2>2, <2>4, <2>5
<1>8. ASSUME D!Goto(r, [at |-> "create", run |-> n]) PROVE ServerInv'
  <2> DEFINE c == [at |-> "create", run |-> n]
  <2>1. c \in D!Request /\ Opens(c, n)
    BY DEF D!Request, Opens
  <2>2. Stands(c)'
    BY <1>2 DEF Stands
  <2>3. D!Goto(r, c)
    BY <1>8
  <2> HIDE DEF c
  <2> QED
    BY <1>6, <2>1, <2>2, <2>3
<1> QED
  BY <1>7, <1>8 DEF D!AskOpen

LEMMA InsertedRow ==
    ASSUME ServerInv, NEW n \in Run, NEW new \in D!Row, new.run = n, D!RowsOf(n) = {},
           D!Insert(n, new), NEW k, k = opened + 1
    PROVE  /\ opened' = k /\ k \in 1..MaxDeployment /\ k \notin D!Rows
           /\ deployment' \in [D!Id -> D!Row \cup {None}]
           /\ D!Rows' = D!Rows \cup {k}
           /\ deployment'[k] = new /\ \A i \in D!Rows : deployment'[i] = deployment[i]
           /\ D!RowsOf(n)' = {k}
           /\ \A m \in Run \ {n} : D!RowsOf(m)' = D!RowsOf(m)
<1>f. D!TypeOK /\ Registered /\ opened \in 0..MaxDeployment
  BY ServerFacts
<1>1. opened < MaxDeployment /\ opened' = k /\ deployment' = [deployment EXCEPT ![k] = new]
  BY DEF D!Insert
<1>2. k \in 1..MaxDeployment /\ k > opened
  BY <1>f, <1>1, DeploymentsAssumption
<1>3. k \in D!Id /\ k \notin D!Rows
  <2>1. \A i \in D!Rows : i <= opened /\ i \in Nat
    BY <1>f, DeploymentsAssumption DEF Registered, D!Rows, D!Id
  <2> QED
    BY <1>f, <1>2, <2>1, DeploymentsAssumption DEF D!Id
<1>4. /\ deployment' \in [D!Id -> D!Row \cup {None}]
      /\ deployment'[k] = new /\ \A i \in D!Id \ {k} : deployment'[i] = deployment[i]
  BY <1>f, <1>1, <1>3 DEF D!TypeOK
<1>5. D!Rows' = D!Rows \cup {k}
  BY <1>3, <1>4, DeploymentsAssumption DEF D!Rows
<1>6. \A i \in D!Rows : deployment'[i] = deployment[i]
  BY <1>3, <1>4 DEF D!Rows
<1>7. D!RowsOf(n)' = {k}
  BY <1>4, <1>5, <1>6 DEF D!RowsOf
<1>8. \A m \in Run \ {n} : D!RowsOf(m)' = D!RowsOf(m)
  BY <1>4, <1>5, <1>6 DEF D!RowsOf
<1> QED
  BY <1>1, <1>2, <1>3, <1>4, <1>5, <1>6, <1>7, <1>8

\* The new row counts the bundle that opened it, or none.
LEMMA InsertionStep ==
    ASSUME ServerInv, NEW r \in Req, NEW n \in Run, NEW new \in D!Row, new.run = n,
           D!RowsOf(n) = {}, D!Insert(n, new), given[n] > 0 \/ new.count = 0,
           NEW c \in D!Request, D!Goto(r, c), c.at = "find",
           UNCHANGED <<setup, given, success, missed>>,
           \/ new.count = 1 /\ Opens(call[r], n)
           \/ new.count = 0 /\ \A m : ~Opens(call[r], m)
    PROVE  ServerInv'
<1>f. /\ D!TypeOK /\ Registered /\ Calls /\ Balance
      /\ setup \in BOOLEAN /\ success \subseteq Run /\ missed \subseteq Run
      /\ setup => \E m \in success : given[m] > 0
      /\ opened \in 0..MaxDeployment /\ given \in [Run -> 0..MaxService]
  BY ServerFacts
<1>k. PICK k : k = opened + 1
  OBVIOUS
<1>1. /\ opened' = k /\ k \in 1..MaxDeployment /\ k \notin D!Rows
      /\ deployment' \in [D!Id -> D!Row \cup {None}]
      /\ D!Rows' = D!Rows \cup {k}
      /\ deployment'[k] = new /\ \A i \in D!Rows : deployment'[i] = deployment[i]
      /\ D!RowsOf(n)' = {k}
      /\ \A m \in Run \ {n} : D!RowsOf(m)' = D!RowsOf(m)
  BY <1>k, InsertedRow
<1>2. /\ call' \in [Req -> D!Request]
      /\ call'[r] = c /\ \A q \in Req \ {r} : call'[q] = call[q]
  BY <1>f, Called
<1>3. (\A m : ~Opens(c, m)) /\ Stands(c)'
  BY DEF Opens, Stands
<1>4. \A i \in D!Rows : i \in Nat /\ i <= opened
  BY <1>f, DeploymentsAssumption DEF Registered, D!Rows, D!Id
<1>5. RowsMove
  BY <1>f, <1>k, <1>1, <1>4, DeploymentsAssumption DEF RowsMove
<1>6. Registered'
  <2>1. \A i \in D!Rows' : i <= opened'
    BY <1>f, <1>k, <1>1, <1>4
  <2>2. \A i, j \in D!Rows' : deployment'[i].run = deployment'[j].run => i = j
    <3>1. \A i \in D!Rows : deployment[i].run # n
      BY DEF D!RowsOf
    <3> QED
      BY <1>f, <1>1, <3>1 DEF Registered
  <2>3. \A i \in D!Rows' : deployment'[i].count > 0 => given'[deployment'[i].run] > 0
    BY <1>f, <1>1 DEF Registered
  <2> QED
    BY <2>1, <2>2, <2>3 DEF Registered
<1>7. \A m \in Run \ {n} : D!Opening(m)' = D!Opening(m)
  <2>1. \A m \in Run \ {n} : ~Opens(call[r], m)
    BY DEF Opens
  <2> QED
    BY <1>2, <1>3, <2>1, OpeningStays
<1>8. Cardinality(D!Opening(n)) \in Nat
  BY OpeningFinite, FS_CardinalityType
<1>9. Cardinality(D!Opening(n)) = new.count + Cardinality(D!Opening(n))'
  <2>1. CASE new.count = 1 /\ Opens(call[r], n)
    <3>1. Cardinality(D!Opening(n))' = Cardinality(D!Opening(n)) - 1
      BY <1>2, <1>3, <2>1, OpeningShrinks
    <3> QED
      BY <1>8, <2>1, <3>1
  <2>2. CASE new.count = 0 /\ \A m : ~Opens(call[r], m)
    <3>1. D!Opening(n)' = D!Opening(n)
      BY <1>2, <1>3, <2>2, OpeningStays
    <3> QED
      BY <1>8, <2>2, <3>1
  <2> QED
    BY <2>1, <2>2
<1>10. ASSUME NEW m \in Run \ missed
       PROVE  /\ D!RowsOf(m)' = {} => given'[m] = Cardinality(D!Opening(m))'
              /\ \A i \in D!RowsOf(m)' :
                   given'[m] = deployment'[i].count + Cardinality(D!Opening(m))'
  <2>1. CASE m # n
    <3>1. \A i \in D!RowsOf(m) : deployment'[i] = deployment[i]
      BY <1>1 DEF D!RowsOf
    <3> QED
      BY <1>f, <1>1, <1>7, <2>1, <3>1 DEF Balance
  <2>2. CASE m = n
    BY <1>f, <1>1, <1>9, <2>2 DEF Balance
  <2> QED
    BY <2>1, <2>2
<1>11. Balance'
  BY <1>10 DEF Balance
<1>12. opened' \in 0..MaxDeployment
  BY <1>1, DeploymentsAssumption
<1> QED
  BY <1>f, <1>1, <1>3, <1>5, <1>6, <1>11, <1>12, Assembled

LEMMA WritingStep ==
    ASSUME ServerInv, NEW r \in Req, D!CreateRow(r) \/ D!InsertReport(r)
    PROVE  ServerInv'
<1>f. /\ D!TypeOK /\ Registered /\ Calls /\ Balance
      /\ setup \in BOOLEAN /\ success \subseteq Run /\ missed \subseteq Run
      /\ setup => \E m \in success : given[m] > 0
      /\ call[r] \in D!Request /\ Stands(call[r])
  BY ServerFacts
<1>d. PICK d \in D!Request : d = call[r]
  BY <1>f
<1>i. D!Idle \in D!Request /\ Stands(D!Idle)' /\ \A n : ~Opens(D!Idle, n)
  BY IdleCall, Nothing
<1>c. [at |-> "find"] \in D!Request
  BY DEF D!Request
<1>1. CASE D!CreateRow(r)
  <2>1. d.at = "create" /\ d.run \in Run /\ given[d.run] > 0 /\ Opens(call[r], d.run)
    BY <1>1, <1>f, <1>d, CallAt DEF D!CreateRow, Stands, Opens
  <2> DEFINE new == [run |-> d.run, status |-> "requested", source |-> None, count |-> 1]
  <2>2. new \in D!Row /\ new.run = d.run /\ new.count = 1
    BY <2>1 DEF D!Row, D!Status
  <2>3. D!RowsOf(d.run) = {} /\ D!Insert(d.run, new) /\ D!Goto(r, [at |-> "find"])
    BY <1>1, <1>d DEF D!CreateRow
  <2> HIDE DEF new
  <2> QED
    BY <1>1, <1>c, <2>1, <2>2, <2>3, InsertionStep DEF D!CreateRow
<1>2. CASE D!InsertReport(r)
  <2>1. d.at = "insert" /\ d.run \in Run /\ d.status \in D!Status /\ \A m : ~Opens(call[r], m)
    BY <1>2, <1>d, CallAt DEF D!InsertReport, Opens
  <2> DEFINE new == [run |-> d.run, status |-> d.status, source |-> "reported", count |-> 0]
  <2>2. CASE /\ D!RowsOf(d.run) = {} /\ D!Insert(d.run, new)
             /\ D!Goto(r, [at |-> "find"])
    <3>1. new \in D!Row /\ new.run = d.run /\ new.count = 0
      BY <2>1 DEF D!Row, D!Source
    <3>2. D!RowsOf(d.run) = {} /\ D!Insert(d.run, new) /\ D!Goto(r, [at |-> "find"])
      BY <2>2
    <3> HIDE DEF new
    <3> QED
      BY <1>2, <1>c, <2>1, <3>1, <3>2, InsertionStep DEF D!InsertReport
  <2>3. CASE UNCHANGED <<deployment, opened>> /\ D!Goto(r, D!Idle)
    BY <1>2, <1>f, <1>i, <2>1, <2>3, CallStep DEF D!InsertReport
  <2> QED
    BY <1>2, <1>d, <2>2, <2>3 DEF D!InsertReport
<1> QED
  BY <1>1, <1>2

LEMMA JoinStep ==
    ASSUME ServerInv, NEW r \in Req, D!Join(r)
    PROVE  ServerInv'
<1>f. /\ D!TypeOK /\ Registered /\ Calls /\ Balance
      /\ setup \in BOOLEAN /\ success \subseteq Run /\ missed \subseteq Run
      /\ setup => \E m \in success : given[m] > 0
      /\ opened \in 0..MaxDeployment /\ given \in [Run -> 0..MaxService]
      /\ call[r] \in D!Request /\ Stands(call[r])
  BY ServerFacts
<1>d. PICK d \in D!Request : d = call[r]
  BY <1>f
<1>i. D!Idle \in D!Request /\ Stands(D!Idle)' /\ \A n : ~Opens(D!Idle, n)
  BY IdleCall, Nothing
<1>1. /\ d.at = "join" /\ d.run \in Run /\ given[d.run] > 0 /\ Opens(call[r], d.run)
      /\ d.id \in D!Rows => deployment[d.id].run = d.run
      /\ d.id \notin D!Rows => d.run \in missed
  BY <1>f, <1>d, CallAt DEF D!Join, Stands, Opens
<1>2. D!Goto(r, D!Idle) /\ UNCHANGED <<opened, setup, given, success, missed>>
  BY DEF D!Join
<1>3. CASE d.id \notin D!Rows
  <2>1. deployment' = deployment
    BY <1>d, <1>3 DEF D!Join
  <2>2. \A n \in Run \ missed : ~Opens(call[r], n)
    BY <1>d, <1>1, <1>3 DEF Opens
  <2> QED
    BY <1>f, <1>i, <1>2, <2>1, <2>2, CallStep
<1>4. CASE d.id \in D!Rows
  <2>1. d.id \in D!Id /\ deployment[d.id] \in D!Row /\ deployment[d.id].count \in Nat
    BY <1>f, <1>4, DeploymentIs
  <2>2. deployment' = [deployment EXCEPT ![call[r].id].count = @ + 1]
    BY <1>d, <1>4 DEF D!Join
  <2>3. /\ deployment'[d.id] = [deployment[d.id] EXCEPT !.count = @ + 1]
        /\ \A j \in D!Id \ {d.id} : deployment'[j] = deployment[j]
    BY <1>d, <1>f, <2>1, <2>2 DEF D!TypeOK
  <2>4. /\ deployment' \in [D!Id -> D!Row \cup {None}]
        /\ deployment'[d.id] \in D!Row /\ deployment'[d.id].run = d.run
        /\ deployment'[d.id].count = deployment[d.id].count + 1
    <3>1. /\ deployment'[d.id] \in D!Row /\ deployment'[d.id].run = d.run
          /\ deployment'[d.id].count = deployment[d.id].count + 1
      BY <1>1, <1>4, <2>1, <2>3 DEF D!Row
    <3>2. deployment' = [j \in D!Id |-> deployment'[j]]
      BY <1>f, <2>2 DEF D!TypeOK
    <3> QED
      BY <1>f, <2>3, <3>1, <3>2 DEF D!TypeOK
  <2>5. /\ D!Rows' = D!Rows
        /\ \A j \in D!Rows : deployment'[j].run = deployment[j].run
        /\ \A j \in D!Rows \ {d.id} : deployment'[j] = deployment[j]
    BY <1>1, <1>4, <2>1, <2>3, <2>4, DeploymentsAssumption DEF D!Rows
  <2>6. \A m : D!RowsOf(m)' = D!RowsOf(m)
    BY <2>5 DEF D!RowsOf
  <2>7. Registered'
    BY <1>f, <1>1, <1>2, <1>4, <2>4, <2>5 DEF Registered
  <2>8. RowsMove
    BY <1>f, <1>2, <2>5, DeploymentsAssumption DEF RowsMove
  <2>9. /\ call' \in [Req -> D!Request]
        /\ call'[r] = D!Idle /\ \A q \in Req \ {r} : call'[q] = call[q]
    BY <1>f, <1>i, <1>2, Called
  <2>10. /\ \A m \in Run \ {d.run} : D!Opening(m)' = D!Opening(m)
         /\ Cardinality(D!Opening(d.run))' = Cardinality(D!Opening(d.run)) - 1
         /\ Cardinality(D!Opening(d.run)) \in Nat
    BY <1>1, <1>i, <2>9, OpeningShrinks
  <2>11. ASSUME NEW m \in Run \ missed
         PROVE  /\ D!RowsOf(m)' = {} => given'[m] = Cardinality(D!Opening(m))'
                /\ \A i \in D!RowsOf(m)' :
                     given'[m] = deployment'[i].count + Cardinality(D!Opening(m))'
    <3>1. CASE m # d.run
      <4>1. \A i \in D!RowsOf(m) : deployment'[i] = deployment[i]
        BY <1>1, <1>4, <2>5, <3>1 DEF D!RowsOf
      <4> QED
        BY <1>f, <1>2, <2>6, <2>10, <3>1, <4>1 DEF Balance
    <3>2. CASE m = d.run
      <4>1. D!RowsOf(m) = {d.id}
        BY <1>f, <1>1, <1>4, <3>2 DEF Registered, D!RowsOf
      <4>2. given[m] = deployment[d.id].count + Cardinality(D!Opening(m))
        BY <1>f, <4>1 DEF Balance
      <4>3. given[m] = deployment'[d.id].count + Cardinality(D!Opening(m))'
        BY <2>1, <2>4, <2>10, <3>2, <4>2
      <4> QED
        BY <1>2, <2>4, <2>6, <4>1, <4>3
    <3> QED
      BY <3>1, <3>2
  <2>12. Balance'
    BY <1>2, <2>11 DEF Balance
  <2> QED
    BY <1>f, <1>i, <1>2, <2>4, <2>7, <2>8, <2>12, Assembled
<1> QED
  BY <1>3, <1>4

LEMMA PurgeStep ==
    ASSUME ServerInv, NEW r \in Req, D!Purge(r)
    PROVE  ServerInv'
<1>f. /\ D!TypeOK /\ Registered /\ Calls /\ Balance
      /\ setup \in BOOLEAN /\ success \subseteq Run /\ missed \subseteq Run
      /\ setup => \E m \in success : given[m] > 0
      /\ opened \in 0..MaxDeployment /\ given \in [Run -> 0..MaxService]
      /\ call[r] \in D!Request /\ Stands(call[r])
  BY ServerFacts
<1>d. PICK d \in D!Request : d = call[r]
  BY <1>f
<1>i. D!Idle \in D!Request /\ Stands(D!Idle)' /\ \A n : ~Opens(D!Idle, n)
  BY IdleCall, Nothing
<1>1. /\ d.at = "purge" /\ d.stale \in SUBSET D!Id /\ \A n : ~Opens(call[r], n)
      /\ deployment' = [i \in D!Id |-> IF i \in d.stale THEN None ELSE deployment[i]]
      /\ missed' = missed \cup {deployment[i].run : i \in d.stale \cap D!Rows}
      /\ D!Goto(r, D!Idle) /\ UNCHANGED <<opened, setup, given, success>>
  BY <1>d, CallAt DEF D!Purge, Opens
<1>2. /\ deployment' \in [D!Id -> D!Row \cup {None}]
      /\ D!Rows' = D!Rows \ d.stale
      /\ \A i \in D!Rows' : deployment'[i] = deployment[i]
  BY <1>f, <1>1 DEF D!TypeOK, D!Rows
<1>3. missed \subseteq missed' /\ missed' \subseteq Run
  BY <1>f, <1>1, DeploymentIs
<1>4. Registered'
  BY <1>f, <1>1, <1>2 DEF Registered
<1>5. RowsMove
  BY <1>f, <1>1, <1>2, <1>3, DeploymentsAssumption DEF RowsMove
<1>6. /\ call' \in [Req -> D!Request]
      /\ call'[r] = D!Idle /\ \A q \in Req \ {r} : call'[q] = call[q]
  BY <1>f, <1>i, <1>1, Called
<1>7. ASSUME NEW n \in Run \ missed'
      PROVE  /\ D!RowsOf(n)' = {} => given'[n] = Cardinality(D!Opening(n))'
             /\ \A i \in D!RowsOf(n)' :
                  given'[n] = deployment'[i].count + Cardinality(D!Opening(n))'
  <2>1. D!Opening(n)' = D!Opening(n)
    BY <1>i, <1>1, <1>6, OpeningStays
  <2>2. D!RowsOf(n) \cap d.stale = {}
    BY <1>1 DEF D!RowsOf
  <2>3. D!RowsOf(n)' = D!RowsOf(n) /\ \A i \in D!RowsOf(n) : deployment'[i] = deployment[i]
    BY <1>2, <2>2 DEF D!RowsOf
  <2> QED
    BY <1>f, <1>1, <1>3, <2>1, <2>3 DEF Balance
<1>8. Balance'
  BY <1>7 DEF Balance
<1> QED
  BY <1>f, <1>i, <1>1, <1>2, <1>3, <1>4, <1>5, <1>8, Assembled

LEMMA ServerStep == ServerInv /\ [D!Next]_server => ServerInv'
<1> SUFFICES ASSUME ServerInv, [D!Next]_server PROVE ServerInv'
  OBVIOUS
<1>1. CASE UNCHANGED server
  BY <1>1
  DEF server, ServerInv, D!TypeOK, Registered, Calls, Stands, Balance, SetupIsEarned,
      D!SetupIsEarned, D!Rows, D!RowsOf, D!Opening
<1>2. CASE D!Next
  <2>1. PICK r \in Req :
          \/ \E n \in Run : \/ D!AskOpen(r, n)
                            \/ \E s \in {"succeeded", "failed"} : D!AskReport(r, n, s)
          \/ D!CreateRow(r) \/ D!Raced(r) \/ D!Reread(r) \/ D!Join(r)
          \/ D!FindStale(r) \/ D!Purge(r)
          \/ D!Report(r) \/ D!InsertReport(r) \/ D!Complete(r)
          \/ D!AskSettle(r) \/ D!SettleNothing(r)
          \/ \E s \in {"succeeded", "failed"} : D!Settle(r, s)
          \/ D!Stop(r)
    BY <1>2 DEF D!Next
  <2> QED
    BY <2>1, QuietStep, StampingStep, AskOpenStep, WritingStep, JoinStep, PurgeStep
<1> QED
  BY <1>1, <1>2

-----------------------------------------------------------------------------
(* Both registers.                                                         *)

Inv == MobileInv /\ ServerInv

LEMMA Untouched ==
    /\ MobileInv /\ UNCHANGED vars => MobileInv'
    /\ ServerInv /\ UNCHANGED server => ServerInv'
  BY MobileStep, ServerStep

LEMMA Invariant == BothSpec => []Inv
<1>1. BothInit => Inv
  BY MobileInit, ServerInit DEF BothInit, Inv
<1>2. Inv /\ [BothNext]_<<vars, server>> => Inv'
  <2> SUFFICES ASSUME Inv, [BothNext]_<<vars, server>> PROVE Inv'
    OBVIOUS
  <2>1. CASE Next /\ UNCHANGED server
    BY <2>1, MobileStep, Untouched DEF Inv
  <2>2. CASE D!Next /\ UNCHANGED vars
    BY <2>2, ServerStep, Untouched DEF Inv
  <2>3. CASE UNCHANGED <<vars, server>>
    BY <2>3, Untouched DEF Inv
  <2> QED
    BY <2>1, <2>2, <2>3 DEF BothNext
<1> QED
  BY <1>1, <1>2, PTL DEF BothSpec

\* Both registers keep their types.
THEOREM TypesCorrect == BothSpec => [](TypeOK /\ D!TypeOK)
<1>1. Inv => TypeOK /\ D!TypeOK
  BY DEF Inv, MobileInv, ServerInv
<1> QED
  BY <1>1, Invariant, PTL

\* A release tells the signing material that was served with its number.
THEOREM MaterialTold == BothSpec => []RowsTellTheirMaterial
<1>1. Inv => RowsTellTheirMaterial
  BY DEF Inv, MobileInv
<1> QED
  BY <1>1, Invariant, PTL

\* The installation guide closes only on the success of a run that was served.
THEOREM GuideEarned == BothSpec => []SetupIsEarned
<1>1. Inv => SetupIsEarned
  BY DEF Inv, ServerInv
<1> QED
  BY <1>1, Invariant, PTL

\* Unless the process stops or a row is purged, no bundle served is left uncounted.
THEOREM ServicesCounted == BothSpec => []EveryServiceIsCounted
<1>1. ASSUME Inv, NEW n \in Run \ missed
      PROVE  /\ Cardinality(D!RowsOf(n)) <= 1
             /\ \/ D!RowsOf(n) = {} /\ given[n] = Cardinality(D!Opening(n))
                \/ \E i \in D!RowsOf(n) : given[n] = deployment[i].count + Cardinality(D!Opening(n))
  <2>1. Registered /\ Balance
    BY <1>1 DEF Inv, ServerInv
  <2>2. CASE D!RowsOf(n) = {}
    BY <2>1, <2>2, FS_EmptySet DEF Balance
  <2>3. ASSUME NEW i \in D!RowsOf(n)
        PROVE  /\ Cardinality(D!RowsOf(n)) <= 1
               /\ given[n] = deployment[i].count + Cardinality(D!Opening(n))
    <3>1. D!RowsOf(n) = {i}
      BY <2>1 DEF Registered, D!RowsOf
    <3>2. Cardinality({i}) = 1
      BY FS_Singleton
    <3> QED
      BY <2>1, <3>1, <3>2 DEF Balance
  <2> QED
    BY <2>2, <2>3
<1>2. \A S : D!Cardinality(S) = Cardinality(S)
  BY DEF D!Cardinality, Cardinality
<1>3. Inv => EveryServiceIsCounted
  BY <1>1, <1>2 DEF EveryServiceIsCounted, D!EveryServiceIsCounted
<1> QED
  BY <1>3, Invariant, PTL

\* A number served is above those served since the counter was last set by hand.
THEOREM NumbersAreNew == BothSpec => NumbersGrow
<1>1. Inv /\ [BothNext]_<<vars, server>> => [NumberGrows]_vars
  <2> SUFFICES ASSUME Inv, BothNext, NEW r \in Req, req[r].at = "number",
                      req'[r].at = "open", NEW n \in fresh
               PROVE  n < req'[r].number
    BY DEF NumberGrows, vars
  <2>1. TypeOK /\ Counted
    BY DEF Inv, MobileInv
  <2>2. ConsumeNumber(r)
    <3>1. req \in [Req -> Request] /\ req'[r] # req[r]
      BY <2>1 DEF TypeOK
    <3>2. Next
      BY <3>1 DEF BothNext, vars
    <3>3. ASSUME NEW q \in Req, NEW state, Goto(q, state), state.at # "open" PROVE FALSE
      BY <3>1, <3>3 DEF Goto
    <3>4. ~UNCHANGED req
      BY <3>1
    <3>5. PICK q \in Req :
            \/ AskBundle(q) \/ ConsumeNumber(q) \/ OpenRelease(q)
            \/ \E m \in Number, t \in Track, s \in Reported : AskReport(q, m, t, s)
            \/ JoinRow(q) \/ RefineRow(q) \/ InsertRow(q)
            \/ AskSync(q) \/ WriteSync(q)
            \/ \E i \in Id, t \in Track, s \in Held : AskAction(q, i, t, s)
            \/ AskStore(q) \/ RecordAction(q)
            \/ Stop(q)
      BY <3>2, <3>4 DEF Next, ImportMaterial, SetPaused, SetNumber, StoreChanges
    <3>6. ASSUME ~ConsumeNumber(q) PROVE \E state : Goto(q, state) /\ state.at # "open"
      <4>1. CASE AskBundle(q)
        BY <4>1 DEF AskBundle
      <4>2. CASE OpenRelease(q) \/ JoinRow(q) \/ RefineRow(q) \/ InsertRow(q) \/ WriteSync(q)
                 \/ RecordAction(q) \/ Stop(q)
        BY <4>2, IdleIs DEF OpenRelease, JoinRow, RefineRow, InsertRow, WriteSync, RecordAction, Stop
      <4>3. ASSUME NEW m \in Number, NEW t \in Track, NEW s \in Reported, AskReport(q, m, t, s)
            PROVE  \E state : Goto(q, state) /\ state.at # "open"
        <5>1. CASE \E i \in On(m, "pending") :
                     Goto(q, [at |-> "join", id |-> i, track |-> t, status |-> s])
          BY <5>1
        <5>2. CASE \E i \in On(m, t) : Goto(q, [at |-> "refine", id |-> i, status |-> s])
          BY <5>2
        <5>3. CASE Goto(q, [at |-> "insert", number |-> m, track |-> t, status |-> s])
          BY <5>3
        <5> QED
          BY <4>3, <5>1, <5>2, <5>3 DEF AskReport
      <4>4. CASE AskSync(q)
        <5>1. PICK found : Goto(q, [at |-> "sync", found |-> found])
          BY <4>4 DEF AskSync
        <5> QED
          BY <5>1
      <4>6. CASE \E i \in Id, t \in Track, s \in Held : AskAction(q, i, t, s)
        BY <4>6 DEF AskAction
      <4>5. CASE AskStore(q)
        <5>1. CASE Goto(q, Idle)
          BY <5>1, IdleIs
        <5>2. CASE Goto(q, [req[q] EXCEPT !.at = "act"])
          <6>1. req[q] \in Request /\ req[q].at = "ask"
            BY <2>1, <4>5 DEF AskStore, TypeOK
          <6>2. req[q] \in [at: {"ask"}, id: Id, track: Track, status: Held]
            BY <6>1 DEF Request, Idle
          <6>3. [req[q] EXCEPT !.at = "act"].at = "act"
            BY <6>2
          <6> QED
            BY <5>2, <6>3
        <5> QED
          BY <4>5, <5>1, <5>2 DEF AskStore
      <4> QED
        BY <3>5, <3>6, <4>1, <4>2, <4>3, <4>4, <4>5, <4>6
    <3>7. ConsumeNumber(q)
      BY <3>3, <3>6
    <3>8. q = r
      BY <3>7 DEF ConsumeNumber, Goto
    <3> QED
      BY <3>7, <3>8
  <2>3. req[r].floor \in 0..MaxNumber \cup {None}
    BY <2>1, At
  <2>4. counter \in 0..MaxNumber /\ n \in Number /\ n <= counter
    BY <2>1 DEF TypeOK, Counted
  <2>5. req'[r].number = NextNumber(counter, req[r].floor)
    BY <2>1, <2>2 DEF ConsumeNumber, Goto, TypeOK
  <2>6. NextNumber(counter, req[r].floor) > counter /\ NextNumber(counter, req[r].floor) \in Nat
    BY <2>3, <2>4, MobileAssumption DEF NextNumber
  <2> QED
    BY <2>4, <2>5, <2>6, MobileAssumption DEF Number
<1> QED
  BY <1>1, Invariant, PTL DEF BothSpec, NumbersGrow
=============================================================================
