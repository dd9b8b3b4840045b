---------------------------- MODULE MCWorkflowRun ----------------------------
(* Instances of WorkflowRun for TLC.  Pods differ in nothing but their name. *)
EXTENDS WorkflowRun, TLC

CONSTANTS p1, p2

PodNames == {p1, p2}
Symmetry == Permutations(PodNames)
=============================================================================
