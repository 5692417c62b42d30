--------------------------- MODULE MCOutboundSync ---------------------------
(***************************************************************************)
(* OutboundSync on a small instance, under two regimes: synchronisations   *)
(* that overlap and stop anywhere, towards one place of Vercel; and one    *)
(* synchronisation at a time, that neither stops nor is forgotten, towards *)
(* every platform.                                                         *)
(***************************************************************************)
EXTENDS OutboundSync, TLC

\* Secrets without the tag, towards production.
Narrow ==
    /\ \A e \in Env, k \in Key : secret'[e][k] # None => ~secret'[e][k].tagged
    /\ \A v \in remote' : v.place = "production"
    /\ \A e \in Env :
         /\ target'[e]["replaced"] = None
         /\ target'[e]["vercel"] # None => ~target'[e]["vercel"].aim.filtered

Stops == \E r \in Req : Stop(r) /\ ~ReadTargets(r) /\ ~Tell(r)

\* The tag is on one secret at most, and filters what goes to preview.
Serial ==
    /\ \A d, e \in Env, k, l \in Key :
         /\ secret'[d][k] # None /\ secret'[d][k].tagged
         /\ secret'[e][l] # None /\ secret'[e][l].tagged
         => d = e /\ k = l
    /\ \A e \in Env, p \in Platform :
         target'[e][p] # None /\ target'[e][p].aim.filtered => target'[e][p].aim.place = "preview"
    /\ \A q, r \in Req : sync'[q] # Idle /\ sync'[r] # Idle => q = r
    /\ (\E r \in Req : sync[r] # Idle) => sync' # sync
    /\ secret' # secret => sync' # sync
    /\ ~Stops
    /\ \A v \in remote' : v.ours

\* No two environments push to one project.
Unshared ==
    \A d, e \in Env : d # e =>
        \A p, q \in Platform : target'[d][p] # None /\ target'[e][q] # None =>
            target'[d][p].aim.project # target'[e][q].aim.project

\* Environments that share a project of Vercel, each with a place of its own.
OwnPlace == CHOOSE f \in [Env -> Place] : \A d, e \in Env : f[d] = f[e] => d = e

Apart ==
    \A e \in Env : target'[e]["vercel"] # None => target'[e]["vercel"].aim.place = OwnPlace[e]

SharedSpec == Init /\ [][Next /\ Serial /\ Apart]_vars

\* However a project of Vercel is shared, an environment finds its secrets in the
\* place that is its own (docs/physalis.md:474-475, lib/sync/vercel.ts:137-138).
EachPlaceIsHonest == SuccessIsHonest

Symmetry == Permutations(Req) \cup Permutations(Key)
=============================================================================
