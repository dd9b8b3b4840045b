---------------------------- MODULE MCLeasedJob ----------------------------
(***************************************************************************)
(* LeasedJob for TLC: one pod, or two whose clocks are one tick apart.     *)
(***************************************************************************)
EXTENDS LeasedJob, TLC

CONSTANTS p1, p2

MCPods == {p1, p2}
NoSkew == [p \in Pods |-> 0]
OneTickApart == (p1 :> 0) @@ (p2 :> 1)
=============================================================================
