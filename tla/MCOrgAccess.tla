----------------------------- MODULE MCOrgAccess -----------------------------
(***************************************************************************)
(* OrgAccess on a small instance, under two regimes chosen at the start:   *)
(* requests one at a time, on the whole instance, or together, on a        *)
(* smaller one (bound: Crowd projects and tokens).  What the code promises *)
(* when requests come one at a time is stated for the first regime only.   *)
(***************************************************************************)
EXTENDS OrgAccess, TLC

CONSTANT Crowd

VARIABLE serial

Small ==
    /\ Cardinality(project \cup dropped) <= Crowd
    /\ Cardinality({t \in OrgToken : orgToken[t].state # "FREE"})
         + Cardinality({m \in Machine : machine[m].state # "FREE"}) <= Crowd

\* A request that failed is over: only its trace is left.
UnderWay(r) == req[r].op \notin {"idle", "failed"}

OneByOne == \A q, r \in Request : UnderWay(q) /\ UnderWay(r) => q = r

MCInit == Init /\ serial \in BOOLEAN

MCNext ==
    /\ Next
    /\ UNCHANGED serial
    /\ serial => OneByOne'
    /\ ~serial => Small'

MCSpec == MCInit /\ [][MCNext]_<<vars, serial>>

\* Rule six: no ProjectMember row outside the organisation.  A removal leaves no
\* row, and no write puts one back, while requests do not overlap.
SerialRuleSix == serial => RuleSix

\* A removal leaves no live machine token to the member it removed, whichever
\* request ran before it.
SerialRemoval == serial => MachineTokensDieOnRemoval

\* Hiding a project from a member, by the PATCH of one row or by the bulk form,
\* leaves no live machine token of theirs on it, once the request has ended.
SerialHide == serial => MachineTokensDieOnHide

\* Projects, token ids and requests are interchangeable.
Symmetry ==
    Permutations(Project) \cup Permutations(Machine)
        \cup Permutations(OrgToken) \cup Permutations(Request)
=============================================================================
