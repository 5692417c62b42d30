---------------------------- MODULE KeyRotation ----------------------------
(***************************************************************************)
(* The rotation of ENCRYPTION_KEY: lib/crypto.ts, which encrypts under the *)
(* key of the deployment and falls back on the outgoing one to decrypt,    *)
(* and scripts/rekey-encryption.mjs, which an operator runs, first dry,    *)
(* then for good, until nothing is left under the outgoing key, which is   *)
(* then dropped.                                                           *)
(*                                                                         *)
(* The encrypted columns are those of one secret and of its versions, the  *)
(* two tables between which triplets are copied as they are.  They live in *)
(* the schema "public" of the database, which the script visits when it is *)
(* asked to.  It reads a batch, then writes it in a transaction; it may    *)
(* stop anywhere, and the application may run meanwhile or not.  A key is  *)
(* a number.                                                               *)
(***************************************************************************)
EXTENDS Naturals, FiniteSets

CONSTANTS
    Req,      \* requests of the application in flight together
    Value,    \* plaintexts
    History,  \* bound: the versions a secret keeps
    Slice,    \* --batch
    MaxKey,   \* bound on the keys ever generated
    None      \* null

VARIABLES
    row,     \* triplets, in the order of the script: the secret, then its versions
    env,     \* ENCRYPTION_KEY, and ENCRYPTION_KEY_OLD while it is set
    up,      \* the application runs
    req,     \* its requests in flight
    script,  \* the run of the script
    clean    \* the last dry run found nothing left

vars == <<row, env, up, req, script, clean>>

Row == 1..(History + 1)
Current == 1
Versions == Row \ {Current}
Table(i) == IF i = Current THEN 1 ELSE 2

Triplet == [key: 1..MaxKey, plain: Value]
Idle == [at |-> "idle"]

InFlight == {Idle} \cup [at: {"read"}, old: Triplet]
                   \cup [at: {"write"}, old: Triplet, new: Triplet]

\* last is the last id read, next what rows of the batch read are to become.
ScriptRun == [at: {"scan", "write"}, apply: BOOLEAN, public: BOOLEAN, table: 1..2, last: Nat,
              left: BOOLEAN, next: [Row -> Triplet \cup {None}]]
NoRow == [i \in Row |-> None]

TypeOK ==
    /\ row \in [Row -> Triplet \cup {None}] /\ row[Current] # None
    /\ env \in [new: 1..MaxKey, old: 1..MaxKey \cup {None}]
    /\ up \in BOOLEAN /\ clean \in BOOLEAN
    /\ req \in [Req -> InFlight]
    /\ script \in {Idle} \cup ScriptRun

Init ==
    /\ \E v \in Value :
         row = [i \in Row |-> IF i = Current THEN [key |-> 1, plain |-> v] ELSE None]
    /\ env = [new |-> 1, old |-> None]
    /\ up = TRUE
    /\ req = [r \in Req |-> Idle]
    /\ script = Idle
    /\ clean = FALSE

Encrypt(v) == [key |-> env.new, plain |-> v]

-----------------------------------------------------------------------------
(* The application: PATCH and rollback of a secret.                        *)

AskWrite(r) ==
    /\ up /\ req[r] = Idle
    /\ req' = [req EXCEPT ![r] = [at |-> "read", old |-> row[Current]]]
    /\ UNCHANGED <<row, env, up, script, clean>>

\* A new value is encrypted; that of a version is taken as it is.
Choose(r, triplet) ==
    /\ req[r].at = "read"
    /\ req' = [req EXCEPT ![r] = [at |-> "write", old |-> req[r].old, new |-> triplet]]
    /\ UNCHANGED <<row, env, up, script, clean>>

\* The transaction: the value read is kept as a version, in the place of another
\* when the history is full.
Commit(r) ==
    /\ req[r].at = "write"
    /\ \E i \in Versions :
         /\ row[i] = None \/ \A j \in Versions : row[j] # None
         /\ row' = [row EXCEPT ![Current] = req[r].new, ![i] = req[r].old]
    /\ req' = [req EXCEPT ![r] = Idle]
    /\ UNCHANGED <<env, up, script, clean>>

-----------------------------------------------------------------------------
(* The operator.                                                           *)

Halt ==
    /\ up
    /\ up' = FALSE
    /\ req' = [r \in Req |-> Idle]
    /\ UNCHANGED <<row, env, script, clean>>

Launch == ~up /\ up' = TRUE /\ UNCHANGED <<row, env, req, script, clean>>

\* A new key is deployed, the former as ENCRYPTION_KEY_OLD.
DeployKey ==
    /\ ~up /\ env.old = None /\ env.new < MaxKey
    /\ env' = [new |-> env.new + 1, old |-> env.new]
    /\ clean' = FALSE
    /\ UNCHANGED <<row, up, req, script>>

\* Once a dry run found nothing left.
DropOld ==
    /\ ~up /\ env.old # None /\ clean
    /\ script = Idle
    /\ env' = [env EXCEPT !.old = None]
    /\ UNCHANGED <<row, up, req, script, clean>>

-----------------------------------------------------------------------------
(* The script.                                                             *)

\* Both keys are asked for.  "admin" is visited, and the schemas of tenants, which
\* this edition has not; "public" with --include-public.
Run(apply, public) ==
    /\ script = Idle /\ env.old # None
    /\ script' = [at |-> "scan", apply |-> apply, public |-> public, table |-> 1,
                  last |-> 0, left |-> FALSE, next |-> NoRow]
    /\ UNCHANGED <<row, env, up, req, clean>>

\* ORDER BY id LIMIT batch, after the last id.
Rest == {i \in Row : /\ script.public /\ Table(i) = script.table
                    /\ row[i] # None /\ i > script.last}
Before(i) == {j \in Rest : j < i}
Lot == {i \in Rest : Cardinality(Before(i)) < Slice}

\* Mutant: the next batch leaves out the row that follows.
LastTooFar(lot) == 1 + CHOOSE i \in lot : \A j \in lot : j <= i

Last(lot) == CHOOSE i \in lot : \A j \in lot : j <= i

\* rekeyPayload: what opens under the new key is left alone, what opens under none
\* as well.
Stale(lot) == {i \in lot : row[i].key = env.old}
Rekeyed(i) == Encrypt(row[i].plain)

Scan ==
    /\ script.at = "scan" /\ Rest # {}
    /\ LET stale == IF script.apply THEN Stale(Lot) ELSE {} IN
       script' = [script EXCEPT !.at = IF stale # {} THEN "write" ELSE "scan",
                                !.last = Last(Lot), !.left = @ \/ Stale(Lot) # {},
                                !.next = [i \in Row |-> IF i \in stale THEN Rekeyed(i) ELSE None]]
    /\ UNCHANGED <<row, env, up, req, clean>>

\* UPDATE by id, of the rows that are still there.
Write ==
    /\ script.at = "write"
    /\ row' = [i \in Row |-> IF script.next[i] # None /\ row[i] # None
                             THEN script.next[i] ELSE row[i]]
    /\ script' = [script EXCEPT !.at = "scan", !.next = NoRow]
    /\ UNCHANGED <<env, up, req, clean>>

NextTable ==
    /\ script.at = "scan" /\ Rest = {} /\ script.table = 1
    /\ script' = [script EXCEPT !.table = 2, !.last = 0]
    /\ UNCHANGED <<row, env, up, req, clean>>

\* The totals are shown: those of a dry run are what the operator goes by.
End ==
    /\ script.at = "scan" /\ Rest = {} /\ script.table = 2
    /\ script' = Idle
    /\ clean' = IF script.apply THEN clean ELSE ~script.left
    /\ UNCHANGED <<row, env, up, req>>

Crash ==
    /\ script # Idle
    /\ script' = Idle
    /\ UNCHANGED <<row, env, up, req, clean>>

-----------------------------------------------------------------------------

Next ==
    \/ \E r \in Req :
         \/ AskWrite(r)
         \/ \E v \in Value : Choose(r, Encrypt(v))
         \/ \E i \in Versions : row[i] # None /\ Choose(r, row[i])
         \/ Commit(r)
    \/ Halt \/ Launch \/ DeployKey \/ DropOld
    \/ \E apply, public \in BOOLEAN : Run(apply, public)
    \/ Scan \/ Write \/ NextTable \/ End \/ Crash

Spec == Init /\ [][Next]_vars

-----------------------------------------------------------------------------

\* The maintenance window: the script runs while the application does not.
Window == script # Idle => ~up

\* The runs that see the secrets.
Covers == script # Idle => script.public

\* decrypt: under the key of the deployment, or the outgoing one.
Opens(triplet) == triplet.key \in {env.new, env.old}

\* What is stored can be read under the keys that are deployed.  Refuted when the
\* operator goes by dry runs that did not visit the schema.
EveryRowOpens == \A i \in Row : row[i] # None => Opens(row[i])

\* Whatever a run of the script did before it stopped, whichever were applied or dry
\* and whenever the outgoing key is dropped, every row opens, and the script changes
\* no plaintext (rekey-encryption.mjs:9-12).
KeepsAll ==
    /\ EveryRowOpens'
    /\ script' # script =>
         \A i \in Row : row[i] # None => row'[i] # None /\ row'[i].plain = row[i].plain
=============================================================================
