---------------------------- MODULE MCTokenRefresh ----------------------------
(* Instances of TokenRefresh for TLC: two calls and a login. *)
EXTENDS TokenRefresh, TLC

CONSTANTS c1, c2, l1

Symmetry == Permutations(Calls)
=============================================================================
