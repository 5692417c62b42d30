-------------------------- MODULE MCMobileReleases --------------------------
(***************************************************************************)
(* MobileReleases, with what the store was seen to hold.                   *)
(***************************************************************************)
EXTENDS MobileReleases, TLC

VARIABLE seen  \* number, track, status

MCInit == Init /\ seen = {}

Syncs == \E r \in Req : req[r] = Idle /\ req'[r].at = "sync"

MCNext ==
    /\ Next
    /\ seen' = IF Syncs
               THEN seen \cup {<<n, t, store[n][t]>> : n \in Number, t \in Track}
               ELSE seen

MCSpec == MCInit /\ [][MCNext]_<<vars, seen>>

\* A status said to be the store's is one the store was seen to hold for the number
\* on the track of the row (releases/sync/route.ts:15-17).
StoreStatusIsObserved ==
    \A i \in Rows : row[i].source = "store"
                    => <<row[i].number, row[i].track, row[i].status>> \in seen

Symmetry == Permutations(Material)
=============================================================================
