------------------------------ MODULE Handover ------------------------------
(***************************************************************************)
(* What a one-time link promises, without passwords, attempts and reads: an *)
(* item is offered, then either one request takes it or it is closed       *)
(* untaken, and nothing reopens it.                                        *)
(***************************************************************************)
CONSTANTS Item, Request, Nobody

VARIABLES
    phase,  \* how far each item has come
    taker   \* the request it was handed to

vars == <<phase, taker>>

Init ==
    /\ phase = [i \in Item |-> "new"]
    /\ taker = [i \in Item |-> Nobody]

Offer(i) ==
    /\ phase[i] = "new"
    /\ phase' = [phase EXCEPT ![i] = "open"]
    /\ UNCHANGED taker

Take(i, r) ==
    /\ phase[i] = "open"
    /\ phase' = [phase EXCEPT ![i] = "closed"]
    /\ taker' = [taker EXCEPT ![i] = r]

Close(i) ==
    /\ phase[i] = "open"
    /\ phase' = [phase EXCEPT ![i] = "closed"]
    /\ UNCHANGED taker

Next ==
    \E i \in Item : Offer(i) \/ Close(i) \/ \E r \in Request : Take(i, r)

Spec == Init /\ [][Next]_vars
=============================================================================
