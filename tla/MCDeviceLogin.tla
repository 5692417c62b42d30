---------------------------- MODULE MCDeviceLogin ----------------------------
(* DeviceLogin on a small instance; accounts, authorizations, session ids   *)
(* and pollers are interchangeable.                                         *)
EXTENDS DeviceLogin, TLC

Symmetry ==
    Permutations(User) \cup Permutations(Device)
        \cup Permutations(Session) \cup Permutations(Poller)
=============================================================================
