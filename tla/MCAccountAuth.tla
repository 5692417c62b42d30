---------------------------- MODULE MCAccountAuth ----------------------------
(***************************************************************************)
(* An account (AccountAuth) and the key its second factor, like any other  *)
(* secret, is encrypted under (KeyRotation), on a small instance.  They    *)
(* share no state here, so a behaviour keeps to one of them.               *)
(*                                                                         *)
(* The account is under one of two regimes chosen at the start: requests   *)
(* one at a time, with a tick of the clock before a reset and no stop once *)
(* it has changed the password; or requests together that stop anywhere.   *)
(***************************************************************************)
EXTENDS AccountAuth, TLC

CONSTANTS Writer, Value, History, Slice, MaxKey, None  \* as in KeyRotation: Writer for Req

VARIABLES side, serial, triplet, env, up, call, script, clean

K == INSTANCE KeyRotation WITH Req <- Writer, row <- triplet, req <- call

ASSUME KeysAssumption ==
    /\ History \in Nat /\ Slice \in Nat \ {0} /\ MaxKey \in Nat \ {0}
    /\ None \notin K!Triplet \cup (1..MaxKey)

keys == <<triplet, env, up, call, script, clean>>

OneByOne == \A q, r \in Request : req[q] # Idle /\ req[r] # Idle => q = r

ResetRuns ==
    \A r \in Request :
        /\ req[r].at = "reset" /\ req'[r].at = "mark" => \A s \in session : s.at < now
        /\ req[r].at = "mark" => req'[r] = req[r] \/ req'[r].at = "purge"
        /\ req[r].at = "purge" => req'[r] = req[r] \/ stale' # stale

Overlapped ==
    /\ UNCHANGED resetToken
    /\ Cardinality(session') <= 1
    /\ secrets' + batches' < 2 * MaxEnrolment

MCInit ==
    /\ Init /\ K!Init
    /\ side \in {"account", "keys"} /\ serial \in BOOLEAN
    /\ side = "keys" => ~serial

\* The script visits the schema of the secrets, in a maintenance window.
MCNext ==
    /\ UNCHANGED <<side, serial>>
    /\ \/ /\ side = "account" /\ Next /\ UNCHANGED keys
          /\ IF serial THEN OneByOne' /\ ResetRuns ELSE Overlapped
       \/ side = "keys" /\ K!Next /\ (K!Window /\ K!Covers)' /\ UNCHANGED vars

MCSpec == MCInit /\ [][MCNext]_<<vars, keys, side, serial>>

\* A reset cuts every session opened with the password it replaces, and no
\* enrolment or disabling of the second factor revives one, while requests do not
\* overlap.
SerialResetEvicts == serial => ResetEvicts

\* While requests do not overlap and resets end, a link resets one password, and
\* the links sent before it are dead.
SerialOldLinksAreDead ==
    [][serial => \A r \in Request :
         req[r].at = "reset" /\ req'[r].at = "mark" => req[r].token \notin stale]_<<vars, serial>>

\* In maintenance windows and with --include-public, whatever runs of the script are
\* dry, stop or are resumed, and whenever the outgoing key is dropped, every row opens
\* under the keys deployed and the script changes no plaintext (KeyRotation).
WindowKeepsAll == [][K!KeepsAll]_<<triplet, env, script>>

\* Requests, reset tokens and plaintexts are interchangeable.
Symmetry == Permutations(Request) \cup Permutations(ResetToken) \cup Permutations(Value)
=============================================================================
