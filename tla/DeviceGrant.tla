----------------------------- MODULE DeviceGrant -----------------------------
(***************************************************************************)
(* What the CLI device flow promises, without its polls, clocks and        *)
(* intervals: an authorization is decided once, by one user; a granted one *)
(* yields at most one session, in the step that closes it; a refused one   *)
(* yields none; an account takes its authorizations and sessions with it.  *)
(***************************************************************************)
CONSTANTS User, Device, Session, NoUser

VARIABLES
    phase,   \* how far each authorization has come
    holder,  \* who decided it
    minted   \* the sessions it yielded

vars == <<phase, holder, minted>>

Phase == {"new", "open", "granted", "refused", "closed"}

Init ==
    /\ phase = [d \in Device |-> "new"]
    /\ holder = [d \in Device |-> NoUser]
    /\ minted = [d \in Device |-> {}]

Open(d) ==
    /\ phase[d] = "new"
    /\ phase' = [phase EXCEPT ![d] = "open"]
    /\ UNCHANGED <<holder, minted>>

Rule(d, u, verdict) ==
    /\ phase[d] = "open"
    /\ phase' = [phase EXCEPT ![d] = verdict]
    /\ holder' = [holder EXCEPT ![d] = u]
    /\ UNCHANGED minted

Mint(d, s) ==
    /\ phase[d] = "granted"
    /\ \A e \in Device : s \notin minted[e]
    /\ phase' = [phase EXCEPT ![d] = "closed"]
    /\ minted' = [minted EXCEPT ![d] = {s}]
    /\ UNCHANGED holder

Close(d) ==
    /\ phase[d] \in {"granted", "refused"}
    /\ phase' = [phase EXCEPT ![d] = "closed"]
    /\ UNCHANGED <<holder, minted>>

Forget(u) ==
    /\ phase' = [d \in Device |-> IF holder[d] = u THEN "closed" ELSE phase[d]]
    /\ minted' = [d \in Device |-> IF holder[d] = u THEN {} ELSE minted[d]]
    /\ UNCHANGED holder

Next ==
    \/ \E d \in Device : Open(d)
    \/ \E d \in Device, u \in User, verdict \in {"granted", "refused"} : Rule(d, u, verdict)
    \/ \E d \in Device, s \in Session : Mint(d, s)
    \/ \E d \in Device : Close(d)
    \/ \E u \in User : Forget(u)

Spec == Init /\ [][Next]_vars
=============================================================================
