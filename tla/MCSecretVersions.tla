--------------------------- MODULE MCSecretVersions ---------------------------
(* SecretVersions on small instances; ids, values, names and requests are    *)
(* interchangeable.                                                          *)
EXTENDS SecretVersions, TLC

Symmetry ==
    Permutations(Sid) \cup Permutations(Value) \cup Permutations(Key) \cup Permutations(Req)
=============================================================================
