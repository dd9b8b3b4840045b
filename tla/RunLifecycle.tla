---------------------------- MODULE RunLifecycle ----------------------------
(***************************************************************************)
(* What a workflow run promises whoever watches it: it has an executor     *)
(* exactly while it is PENDING, RUNNING or PAUSED, an executor that left   *)
(* it never comes back, only a run that was started can complete or be     *)
(* cancelled, whatever goes wrong fails it, and its first terminal status  *)
(* is its last.                                                            *)
(***************************************************************************)
EXTENDS Naturals

CONSTANT Executors   \* those that may ever drive the run; 0 is none of them

VARIABLES
  status,     \* WorkflowRunStatus
  executor,   \* who drives the run, 0 for nobody
  former      \* every executor it ever had

vars == <<status, executor, former>>

Init ==
  /\ status = "PENDING"
  /\ executor \in Executors
  /\ former = {executor}

Start ==
  /\ status = "PENDING" /\ status' = "RUNNING"
  /\ UNCHANGED <<executor, former>>

Pause ==
  /\ status = "RUNNING" /\ status' = "PAUSED"
  /\ UNCHANGED <<executor, former>>

Resume ==
  /\ status = "PAUSED" /\ status' = "RUNNING"
  /\ UNCHANGED <<executor, former>>

(* The run waits for a human and gives its executor up. *)
Hold ==
  /\ status \in {"RUNNING", "PAUSED"} /\ status' = "AWAITING_APPROVAL"
  /\ executor' = 0
  /\ UNCHANGED former

Continue ==
  /\ status = "AWAITING_APPROVAL" /\ status' = "RUNNING"
  /\ executor' \in Executors \ former
  /\ former' = former \union {executor'}

End ==
  /\ status \in {"RUNNING", "PAUSED"} /\ status' \in {"COMPLETED", "CANCELLED"}
  /\ executor' = 0
  /\ UNCHANGED former

Fail ==
  /\ status \notin {"COMPLETED", "FAILED", "CANCELLED"} /\ status' = "FAILED"
  /\ executor' = 0
  /\ UNCHANGED former

Next == Start \/ Pause \/ Resume \/ Hold \/ Continue \/ End \/ Fail

Spec == Init /\ [][Next]_vars
=============================================================================
