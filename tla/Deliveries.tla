----------------------------- MODULE Deliveries -----------------------------
(***************************************************************************)
(* The two registers of deliveries side by side: that of the releases of a *)
(* mobile application and that of the deployments of an environment.  The  *)
(* routes under app/api/deploy serve both, and no state is common to them. *)
(***************************************************************************)
EXTENDS MobileReleases

CONSTANTS Run, MaxDeployment, MaxService, Retention  \* as in Deployments

VARIABLES deployment, opened, setup, call, given, success, missed

D == INSTANCE Deployments
       WITH row <- deployment, made <- opened, req <- call, served <- given,
            MaxRow <- MaxDeployment

ASSUME DeploymentsAssumption ==
    /\ IsFiniteSet(Req) /\ None \notin D!Row
    /\ MaxDeployment \in Nat /\ MaxService \in Nat

server == <<deployment, opened, setup, call, given, success, missed>>

BothInit == Init /\ D!Init
BothNext ==
    \/ Next /\ UNCHANGED server
    \/ D!Next /\ UNCHANGED vars

BothSpec == BothInit /\ [][BothNext]_<<vars, server>>

\* The installation guide closes only once a run that was served its secrets
\* succeeded (Deployments).
SetupIsEarned == D!SetupIsEarned

\* Unless the process stops or its row is purged, every bundle served to a run is
\* counted by the run's one row (Deployments).
EveryServiceIsCounted == D!EveryServiceIsCounted
=============================================================================
