---------------------------- MODULE OutboundSync ----------------------------
(***************************************************************************)
(* The synchronisation towards hosting platforms: lib/sync, which the      *)
(* handlers that change a secret, or a target, start without waiting for   *)
(* it, and the routes of the targets of an environment.                    *)
(*                                                                         *)
(* A synchronisation reads the targets of its environment, then its        *)
(* secrets, then pushes the same secrets to one target after the other.    *)
(* Vercel is upserted, listed, then rid one by one of the variables that   *)
(* carry the mark of Physalis and are no longer secrets; Render and        *)
(* Railway are replaced at once.  Every call to a platform is a step and   *)
(* may fail, applied or not; the process may stop at each of them.         *)
(*                                                                         *)
(* A target has one place (a "target" of Vercel), its filter is on one     *)
(* tag, and a variable's id is its project, key and place: whoever holds   *)
(* the id of a variable deleted since is told so.                          *)
(***************************************************************************)
EXTENDS Naturals, FiniteSets

CONSTANTS
    Req,        \* synchronisations that may be in flight together
    Env,        \* environments
    Key,        \* keys of secrets
    Value,      \* values of secrets
    Marked,     \* projects of Vercel, whose variables carry a comment
    Whole,      \* services of Render and Railway
    Place,      \* production, preview, development
    None        \* null

VARIABLES
    secret,  \* Secret rows: their value, and whether they carry the tag
    target,  \* EnvironmentSyncTarget rows, by environment and platform
    remote,  \* the variables on the platforms; "ours" is the mark, or who wrote last
    sync     \* synchronisations in flight

vars == <<secret, target, remote, sync>>

Platform == {"vercel", "replaced"}  \* one connection to each
Aim ==
    [platform: {"vercel"}, project: Marked, place: Place, filtered: BOOLEAN]
    \cup [platform: {"replaced"}, project: Whole, place: {None}, filtered: BOOLEAN]

Secret == [value: Value, tagged: BOOLEAN]
Target == [aim: Aim, status: {"success", "error", None}]
Variable ==
    [project: Marked, key: Key, place: Place, value: Value, ours: BOOLEAN]
    \cup [project: Whole, key: Key, place: {None}, value: Value, ours: BOOLEAN]
Id == (Marked \X Key \X Place) \cup (Whole \X Key \X {None})
IdOf(v) == <<v.project, v.key, v.place>>

Idle == [at |-> "idle"]

\* dead: platforms whose row was deleted since it was read; doomed: ids to delete, gone:
\* those of them that somebody else has deleted.
Sync ==
    {Idle} \cup [at: {"targets"}, env: Env]
           \cup [at: {"secrets"}, env: Env, dead: SUBSET Platform, todo: SUBSET Aim]
           \cup [at: {"next", "list", "delete", "status"}, env: Env, dead: SUBSET Platform,
                 todo: SUBSET Aim, secrets: [Key -> Secret \cup {None}], cur: Aim \cup {None},
                 doomed: SUBSET Id, gone: SUBSET Id, ok: BOOLEAN]

TypeOK ==
    /\ secret \in [Env -> [Key -> Secret \cup {None}]]
    /\ target \in [Env -> [Platform -> Target \cup {None}]]
    /\ remote \subseteq Variable
    /\ \A v, w \in remote : IdOf(v) = IdOf(w) => v = w
    /\ sync \in [Req -> Sync]

Init ==
    /\ secret = [e \in Env |-> [k \in Key |-> None]]
    /\ target = [e \in Env |-> [p \in Platform |-> None]]
    /\ remote = {}
    /\ sync = [r \in Req |-> Idle]

TargetsOf(e) == {p \in Platform : target[e][p] # None}

\* The variables that the secrets of an environment make at an aim.
Desired(secrets, aim) ==
    {[project |-> aim.project, key |-> k, place |-> aim.place,
      value |-> secrets[k].value, ours |-> TRUE] :
        k \in {j \in Key : secrets[j] # None /\ (aim.filtered => secrets[j].tagged)}}

Keys(variables) == {v.key : v \in variables}

-----------------------------------------------------------------------------
(* What starts a synchronisation.                                          *)

\* void triggerSync(environmentId): nothing is read yet.
Trigger(r, e) ==
    /\ sync[r] = Idle
    /\ sync' = [sync EXCEPT ![r] = [at |-> "targets", env |-> e]]

\* A secret created, updated, rolled back, imported from a file or deleted.
Write(r, e, k, s) ==
    /\ s = None => secret[e][k] # None
    /\ secret' = [secret EXCEPT ![e][k] = s]
    /\ Trigger(r, e)
    /\ UNCHANGED <<target, remote>>

\* PATCH {newKey}
Rename(r, e, k, new) ==
    /\ secret[e][k] # None /\ secret[e][new] = None
    /\ secret' = [secret EXCEPT ![e] = [@ EXCEPT ![k] = None, ![new] = secret[e][k]]]
    /\ Trigger(r, e)
    /\ UNCHANGED <<target, remote>>

\* The import of a secret request writes a secret as well, and starts nothing.
ImportRequest(e, k, v) ==
    /\ secret' = [secret EXCEPT
                    ![e][k] = [value |-> v, tagged |-> IF @ = None THEN FALSE ELSE @.tagged]]
    /\ UNCHANGED <<target, remote, sync>>

\* POST of a target, one per connection.
CreateTarget(r, e, aim) ==
    /\ target[e][aim.platform] = None
    /\ target' = [target EXCEPT ![e][aim.platform] = [aim |-> aim, status |-> None]]
    /\ Trigger(r, e)
    /\ UNCHANGED <<secret, remote>>

\* PATCH of a target: nothing is removed from where it pushed before.
PatchTarget(r, e, aim) ==
    /\ target[e][aim.platform] # None
    /\ target' = [target EXCEPT ![e][aim.platform] = [@ EXCEPT !.aim = aim]]
    /\ Trigger(r, e)
    /\ UNCHANGED <<secret, remote>>

\* POST resync
Resync(r, e) ==
    /\ TargetsOf(e) # {}
    /\ Trigger(r, e)
    /\ UNCHANGED <<secret, target, remote>>

Widowed(s, p) == [s EXCEPT !.dead = @ \cup {p}]

\* DELETE of a target.  The cleaning of the platform waits for a tenant, which is
\* always null.  A synchronisation that read the row updates none.
DeleteTarget(e, p) ==
    /\ target[e][p] # None
    /\ target' = [target EXCEPT ![e][p] = None]
    /\ sync' = [r \in Req |->
                  IF sync[r].at \notin {"idle", "targets"} /\ sync[r].env = e
                  THEN Widowed(sync[r], p) ELSE sync[r]]
    /\ UNCHANGED <<secret, remote>>

-----------------------------------------------------------------------------
(* triggerSync and pushOne.                                                *)

ReadTargets(r) ==
    /\ sync[r].at = "targets"
    /\ LET e == sync[r].env IN
       sync' = [sync EXCEPT ![r] =
                  IF TargetsOf(e) = {} THEN Idle
                  ELSE [at |-> "secrets", env |-> e, dead |-> {},
                        todo |-> {target[e][p].aim : p \in TargetsOf(e)}]]
    /\ UNCHANGED <<secret, target, remote>>

ReadSecrets(r) ==
    /\ sync[r].at = "secrets"
    /\ sync' = [sync EXCEPT ![r] =
                  [at |-> "next", env |-> @.env, dead |-> @.dead, todo |-> @.todo,
                   secrets |-> secret[@.env],
                   cur |-> None, doomed |-> {}, gone |-> {}, ok |-> TRUE]]
    /\ UNCHANGED <<secret, target, remote>>

\* The next target, in no order that is asked for.
Next1(r, aim) == sync[r].at = "next" /\ aim \in sync[r].todo

Onward(s, aim, at, ok) ==
    [s EXCEPT !.at = at, !.cur = aim, !.todo = @ \ {aim}, !.ok = ok,
              !.doomed = {}, !.gone = {}]

Step(r, aim, at) == sync' = [sync EXCEPT ![r] = Onward(sync[r], aim, at, sync[r].ok)]

\* Mutant: an error of the platform is taken for a success.
FailQuietly(r, aim) == Step(r, aim, "status")

Fail(r, aim) == sync' = [sync EXCEPT ![r] = Onward(sync[r], aim, "status", FALSE)]

Upserted(new) == {v \in remote : IdOf(v) \notin {IdOf(w) : w \in new}} \cup new

\* Vercel: POST env?upsert=true, where there is something to push.
Upsert(r, aim) ==
    /\ Next1(r, aim) /\ aim.platform = "vercel"
    /\ LET new == Desired(sync[r].secrets, aim) IN
       \/ new = {} /\ Step(r, aim, "list") /\ UNCHANGED remote
       \/ new # {} /\ Step(r, aim, "list") /\ remote' = Upserted(new)
       \/ new # {} /\ Fail(r, aim) /\ remote' \in {remote, Upserted(new)}
    /\ UNCHANGED <<secret, target>>

\* Mutant: the marks are not looked at.
DoomedUnmarked(r) ==
    {v \in remote : /\ v.project = sync[r].cur.project
                    /\ v.key \notin Keys(Desired(sync[r].secrets, sync[r].cur))}

Doomed(r) ==
    {v \in remote : /\ v.project = sync[r].cur.project /\ v.ours
                    /\ v.key \notin Keys(Desired(sync[r].secrets, sync[r].cur))}

\* Vercel: GET env, and what is to be deleted of it.
List(r) ==
    /\ sync[r].at = "list"
    /\ \/ sync' = [sync EXCEPT ![r] =
                       [@ EXCEPT !.at = "delete", !.doomed = {IdOf(v) : v \in Doomed(r)}]]
       \/ Fail(r, sync[r].cur)
    /\ UNCHANGED <<secret, target, remote>>

\* A variable disappears: those who hold its id are told by the platform.
Without(id) == {v \in remote : IdOf(v) # id}
Told(s, id) == IF s.at = "delete" /\ id \in s.doomed THEN [s EXCEPT !.gone = @ \cup {id}] ELSE s

\* Vercel: DELETE env/{id}
Delete(r, id) ==
    /\ sync[r].at = "delete" /\ id \in sync[r].doomed
    /\ \/ /\ id \notin sync[r].gone
          /\ remote' = Without(id)
          /\ sync' = [q \in Req |-> IF q = r THEN [sync[r] EXCEPT !.doomed = @ \ {id}]
                                    ELSE Told(sync[q], id)]
       \/ Fail(r, sync[r].cur) /\ UNCHANGED remote
    /\ UNCHANGED <<secret, target>>

Deleted(r) ==
    /\ sync[r].at = "delete" /\ sync[r].doomed = {}
    /\ Step(r, sync[r].cur, "status")
    /\ UNCHANGED <<secret, target, remote>>

\* Render and Railway: what is desired replaces the whole.
Replace(r, aim) ==
    /\ Next1(r, aim) /\ aim.platform = "replaced"
    /\ LET all == {v \in remote : v.project # aim.project} \cup Desired(sync[r].secrets, aim) IN
       \/ Step(r, aim, "status") /\ remote' = all
       \/ Fail(r, aim) /\ remote' \in {remote, all}
    /\ UNCHANGED <<secret, target>>

\* lastSyncStatus, of the row read, by its id.
Tell(r) ==
    /\ sync[r].at = "status"
    /\ LET s == sync[r]
           p == s.cur.platform IN
       /\ target' = IF p \in s.dead THEN target
                    ELSE [target EXCEPT ![s.env][p] =
                            [@ EXCEPT !.status = IF s.ok THEN "success" ELSE "error"]]
       /\ sync' = [sync EXCEPT ![r] =
                     IF s.todo = {} THEN Idle ELSE Onward(s, None, "next", TRUE)]
    /\ UNCHANGED <<secret, remote>>

\* The process stops, or the database does not answer: nothing resumes it.
Stop(r) ==
    /\ sync[r] # Idle
    /\ sync' = [sync EXCEPT ![r] = Idle]
    /\ UNCHANGED <<secret, target, remote>>

-----------------------------------------------------------------------------
(* On the platform, by hand: a variable is entered, or removed.            *)

EnterByHand(id, v) ==
    /\ id \notin {IdOf(w) : w \in remote}
    /\ remote' = remote \cup {[project |-> id[1], key |-> id[2], place |-> id[3],
                               value |-> v, ours |-> FALSE]}
    /\ UNCHANGED <<secret, target, sync>>

RemoveByHand(v) ==
    /\ v \in remote /\ ~v.ours
    /\ remote' = Without(IdOf(v))
    /\ UNCHANGED <<secret, target, sync>>

-----------------------------------------------------------------------------

Next ==
    \/ \E r \in Req :
         \/ \E e \in Env :
              \/ \E k \in Key, s \in Secret \cup {None} : Write(r, e, k, s)
              \/ \E k, new \in Key : Rename(r, e, k, new)
              \/ \E aim \in Aim : CreateTarget(r, e, aim) \/ PatchTarget(r, e, aim)
              \/ Resync(r, e)
         \/ ReadTargets(r) \/ ReadSecrets(r)
         \/ \E aim \in Aim : Upsert(r, aim) \/ Replace(r, aim)
         \/ List(r) \/ (\E id \in Id : Delete(r, id)) \/ Deleted(r)
         \/ Tell(r) \/ Stop(r)
    \/ \E e \in Env, k \in Key, v \in Value : ImportRequest(e, k, v)
    \/ \E e \in Env, p \in Platform : DeleteTarget(e, p)
    \/ \E id \in Id, v \in Value : EnterByHand(id, v)
    \/ \E v \in remote : RemoveByHand(v)

Spec == Init /\ [][Next]_vars

-----------------------------------------------------------------------------

\* On Vercel, however synchronisations overlap, fail or stop, a variable that was
\* entered by hand never disappears: it is at most overwritten by a secret of its key.
HandMadeIsSpared ==
    [][sync' # sync =>
         \A v \in remote : ~v.ours /\ v.project \in Marked =>
           \E w \in remote' : IdOf(w) = IdOf(v) /\ (w = v \/ w.ours)]_vars

\* A target that says "success" holds the secrets its environment has.
Honest(e, p) ==
    target[e][p] # None /\ target[e][p].status = "success" =>
      LET aim == target[e][p].aim IN
      {v \in remote : v.project = aim.project /\ v.place = aim.place /\ v.ours}
        = Desired(secret[e], aim)

\* Once nothing is in flight, targets tell the truth.  Refuted: by the import of a
\* secret request, by a stop, by synchronisations that overlap, and by two
\* environments that push to one project, each deleting what the other pushed.
SuccessIsHonest ==
    (\A r \in Req : sync[r] = Idle) => \A e \in Env, p \in Platform : Honest(e, p)
=============================================================================
