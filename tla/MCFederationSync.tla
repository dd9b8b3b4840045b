-------------------------- MODULE MCFederationSync --------------------------
(* Instances of FederationSync for TLC: two runtimes that appear, change,  *)
(* disappear, are refused and cannot be read.                              *)
EXTENDS FederationSync, TLC

CONSTANTS r1, a, b

MCListings ==
  {[r \in Runtimes |-> IF r = a THEN l[1] ELSE l[2]] :
     l \in {<<1, 1>>, <<2, Absent>>, <<Refused, 2>>, <<Unread, 2>>}}
=============================================================================
