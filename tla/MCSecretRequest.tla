--------------------------- MODULE MCSecretRequest ---------------------------
(***************************************************************************)
(* What an environment receives from a third party (SecretRequest) and     *)
(* what it pushes to platforms (MCOutboundSync), on a small instance.      *)
(* They share no state, so a behaviour keeps to one of them, under one of  *)
(* two regimes: requests, or synchronisations, one at a time or together.  *)
(* What the guards of the import, and the status of a target, promise is   *)
(* stated for the serial regimes only.                                     *)
(***************************************************************************)
EXTENDS SecretRequest, TLC

CONSTANTS Req, Env, Key, Value, Marked, Whole, Place, None  \* as in OutboundSync

VARIABLES side, serial, secret, target, remote, sync

S == INSTANCE MCOutboundSync

outbound == <<secret, target, remote, sync>>

ASSUME OutboundAssumption ==
    Marked \cap Whole = {} /\ None \notin S!Secret \cup S!Target \cup S!Aim

OneByOne == \A q, r \in Request : req[q] # Idle /\ req[r] # Idle => q = r

MCInit == Init /\ S!Init /\ side \in {"received", "pushed"} /\ serial \in BOOLEAN

MCNext ==
    /\ UNCHANGED <<side, serial>>
    /\ \/ side = "received" /\ Next /\ (serial => OneByOne') /\ UNCHANGED outbound
       \/ /\ side = "pushed" /\ S!Next /\ UNCHANGED vars
          /\ IF serial THEN S!Serial /\ S!Unshared ELSE S!Narrow

MCSpec == MCInit /\ [][MCNext]_<<vars, outbound, side, serial>>

\* While members' requests do not overlap, importedAt keeps a secret from being
\* imported twice.
SerialImportedOnce == serial => ImportedOnce

\* On Vercel, however synchronisations overlap, fail or stop, a variable entered by
\* hand is never deleted (OutboundSync).
HandMadeIsSpared == S!HandMadeIsSpared

\* While synchronisations do not overlap, none is stopped or forgotten and no project is
\* shared, a target that says "success" holds the secrets of its environment, all of them.
SerialSuccessIsHonest == serial => S!SuccessIsHonest

\* Requests and ciphertexts are interchangeable, synchronisations and keys as well.
Symmetry == Permutations(Request) \cup Permutations(Blob) \cup S!Symmetry
=============================================================================
