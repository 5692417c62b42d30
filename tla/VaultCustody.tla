----------------------------- MODULE VaultCustody -----------------------------
(***************************************************************************)
(* What the vaults promise of each item, without its contents: it is in    *)
(* one place at a time, goes from its owner's vault to a team or to an     *)
(* account of a project and never back, leaves for good only when it is    *)
(* discarded, and an SSH key never leaves its owner's vault.               *)
(***************************************************************************)
CONSTANT Item

VARIABLE where  \* the place of each item

Init == where = [i \in Item |-> "unborn"]

TakeIn(i) ==
    /\ where[i] = "unborn"
    /\ \E p \in {"personal", "key", "team"} : where' = [where EXCEPT ![i] = p]

HandOver(i) ==
    /\ where[i] = "personal"
    /\ \E p \in {"team", "account"} : where' = [where EXCEPT ![i] = p]

\* One entry, or all those of a collection.
Discard ==
    \E S \in SUBSET {i \in Item : where[i] \in {"personal", "key", "team"}} :
        where' = [i \in Item |-> IF i \in S THEN "gone" ELSE where[i]]

Next == Discard \/ \E i \in Item : TakeIn(i) \/ HandOver(i)

Spec == Init /\ [][Next]_where
=============================================================================
