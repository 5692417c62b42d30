----------------------------- MODULE MCDelivery -----------------------------
(***************************************************************************)
(* Deliveries on a small instance.  The registers share no state, so a     *)
(* behaviour keeps to one of them; and the numbers of a mobile application *)
(* are told apart from the rows that tell of them, whose reports, readings *)
(* of the store and actions are explored on one number.                    *)
(***************************************************************************)
EXTENDS Deliveries, TLC

VARIABLE side

MCInit == BothInit /\ side \in {"server", "numbers", "rows"}

Serving == \A r \in Req : req'[r].at \in {"idle", "number", "open"}
OneNumber == counter' <= 1 /\ \A n \in Number \ {1} : store'[n] = store[n]

MCNext ==
    /\ UNCHANGED side
    /\ \/ side = "server" /\ D!Next /\ UNCHANGED vars
       \/ /\ side # "server" /\ Next /\ UNCHANGED server
          /\ IF side = "numbers" THEN Serving ELSE OneNumber

MCSpec == MCInit /\ [][MCNext]_<<vars, server, side>>

Symmetry == Permutations(Material) \cup Permutations(Req) \cup Permutations(Run)
=============================================================================
