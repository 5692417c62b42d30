----------------------------- MODULE MCOrgMembers -----------------------------
(***************************************************************************)
(* Who belongs to an organisation (OrgMembers) and who shares its          *)
(* collections (TeamVault), on small instances.  They share no state here, *)
(* so a behaviour keeps to one of them, under one of two regimes: requests *)
(* one at a time, or together.  What the code promises when they come one  *)
(* at a time is stated for the first regime only.                          *)
(***************************************************************************)
EXTENDS OrgMembers, TLC

CONSTANT Collection  \* as in TeamVault

VARIABLES side, serial, roster, collection, dropped, share, call

T == INSTANCE TeamVault WITH Req <- Request, member <- roster, req <- call

sharing == <<roster, collection, dropped, share, call>>

OneByOne == \A q, r \in Request : req[q] # Idle /\ req[r] # Idle => q = r

\* No two handlers of collections overlap, nor anything else with one of them.
Alone ==
    /\ \A q, r \in Request : call'[q] # T!Idle /\ call'[r] # T!Idle => q = r
    /\ (\E r \in Request : call[r] # T!Idle) => call' # call

MCInit ==
    /\ Init /\ T!Init
    /\ side \in {"members", "collections"} /\ serial \in BOOLEAN
    /\ side = "members" => \A u \in User : roster[u] = None

MCNext ==
    /\ UNCHANGED <<side, serial>>
    /\ \/ side = "members" /\ Next /\ (serial => OneByOne') /\ UNCHANGED sharing
       \/ side = "collections" /\ T!Next /\ (serial => Alone) /\ UNCHANGED vars

MCSpec == MCInit /\ [][MCNext]_<<vars, sharing, side, serial>>

\* Two role changes or removals that overlap may take both OWNERs; one at a time,
\* failing anywhere, they never take the last.
SerialGesturesKeepAnOwner ==
    [][serial => \A r \in Request :
         req[r].op \in {"role", "remove"} /\ req'[r] # req[r] /\ Owners # {} =>
             Owners' # {}]_<<vars, serial>>

\* The forms of the rule that opens a collection agree on every member (TeamVault).
RulesAgree == T!RulesAgree

\* While requests do not overlap, whoever leaves the organisation keeps no share of
\* its collections.
SerialLeaversShareNothing == serial => T!OutsidersShareNothing

\* Invitation ids, requests and collections are interchangeable.
Symmetry == Permutations(Invite) \cup Permutations(Request) \cup Permutations(Collection)
=============================================================================
