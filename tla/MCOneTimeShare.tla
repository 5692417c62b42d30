--------------------------- MODULE MCOneTimeShare ---------------------------
(* OneTimeShare on a small instance; shares and requests are               *)
(* interchangeable.                                                        *)
EXTENDS OneTimeShare, TLC

Symmetry == Permutations(Share) \cup Permutations(Request)
=============================================================================
