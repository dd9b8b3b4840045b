---------------------------- MODULE MCVectorSync ----------------------------
(* Instances of VectorSync for TLC. *)
EXTENDS VectorSync

CONSTANTS w1, w2, c1

TaskSlots == {w1, w2}
=============================================================================
