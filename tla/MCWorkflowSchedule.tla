------------------------- MODULE MCWorkflowSchedule -------------------------
(* Instances of WorkflowSchedule for TLC: two workers, told apart by name. *)
EXTENDS WorkflowSchedule, TLC

CONSTANTS w1, w2

WorkerNames == {w1, w2}
WorkerSymmetry == Permutations(WorkerNames)
=============================================================================
