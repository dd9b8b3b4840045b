----------------------- MODULE FederationSync_proofs -----------------------
(***************************************************************************)
(* Theorems about FederationSync: its types and its safety properties.     *)
(*                                                                         *)
(* What a step does to one job, to its execution, to a repair and to the   *)
(* parent is said once, in a lemma each with one case per action; the      *)
(* invariants follow from those four.                                      *)
(***************************************************************************)
EXTENDS FederationSync, FiniteSetTheorems, TLAPS

ParentOK == parent \in Parents
JobsOK == jobs \in [Jobs -> JobRecords] /\ \A j \in Jobs : jobs[j].live => jobs[j].status \in InFlight
ExecOK == exec \in [Jobs -> Executions]
FixOK == fix \in [Reapers \cup Jobs -> Repairs]
RestOK ==
  /\ child \in [Runtimes -> 0..MaxRevision]
  /\ calls \in [Kinds -> 0..MaxCalls]
  /\ mishaps \in 0..MaxFaults
  /\ stalled \subseteq Jobs

LEMMA TypeParts == TypeOK <=> ParentOK /\ JobsOK /\ ExecOK /\ FixOK /\ RestOK
BY DEF TypeOK, ParentOK, JobsOK, ExecOK, FixOK, RestOK

-----------------------------------------------------------------------------
(* The shapes of the writes *)

Syncs == InFlight \cup Startable

LEMMA NothingTypes ==
  /\ Nothing \in [Runtimes -> Found] /\ Nothing \in [Runtimes -> 0..MaxRevision]
  /\ NoPlan \in [Runtimes -> Plans] /\ NoReport \in Reports
<1>1. Absent \in Found /\ Absent \in 0..MaxRevision
  BY BoundsAssumption DEF Absent, Found
<1>2. Nothing \in [Runtimes -> Found] /\ Nothing \in [Runtimes -> 0..MaxRevision]
  BY <1>1 DEF Nothing
<1> QED BY <1>2 DEF NoPlan, Plans, NoReport, Reports

LEMMA ParentShapes ==
  ASSUME NEW p \in Parents
  PROVE  /\ \A b \in BOOLEAN : [p EXCEPT !.old = b] \in Parents
         /\ \A s \in Syncs : [p EXCEPT !.sync = s, !.old = FALSE] \in Parents
         /\ \A s \in Syncs, rep \in Reports :
              [p EXCEPT !.sync = s, !.report = rep, !.old = FALSE] \in Parents
         /\ \A j \in Jobs : [p EXCEPT !.sync = "pending", !.last = j, !.report = NoReport,
                                      !.old = FALSE] \in Parents
         /\ \A j \in Jobs : [p EXCEPT !.sync = "pending", !.status = "deleting", !.owner = j,
                                      !.report = NoReport, !.old = FALSE] \in Parents
         /\ [p EXCEPT !.status = "deleted"] \in Parents
         /\ [p EXCEPT !.status = "active", !.sync = "failed", !.owner = NoJob, !.old = FALSE]
              \in Parents
<1>1. /\ Jobs \subseteq 0..MaxJobs /\ NoJob \in 0..MaxJobs /\ NoReport \in Reports
  BY BoundsAssumption, NothingTypes DEF Jobs, NoJob
<1>2. ASSUME NEW b \in BOOLEAN PROVE [p EXCEPT !.old = b] \in Parents
  BY DEF Parents
<1>3. ASSUME NEW s \in Syncs PROVE [p EXCEPT !.sync = s, !.old = FALSE] \in Parents
  BY DEF Parents, Syncs
<1>8. ASSUME NEW s \in Syncs, NEW rep \in Reports
      PROVE  [p EXCEPT !.sync = s, !.report = rep, !.old = FALSE] \in Parents
  BY DEF Parents, Syncs
<1>4. ASSUME NEW j \in Jobs
      PROVE [p EXCEPT !.sync = "pending", !.last = j, !.report = NoReport, !.old = FALSE]
              \in Parents
  BY <1>1 DEF Parents, InFlight
<1>5. ASSUME NEW j \in Jobs
      PROVE [p EXCEPT !.sync = "pending", !.status = "deleting", !.owner = j,
                      !.report = NoReport, !.old = FALSE] \in Parents
  BY <1>1 DEF Parents, InFlight
<1>6. [p EXCEPT !.status = "deleted"] \in Parents
  BY DEF Parents
<1>7. [p EXCEPT !.status = "active", !.sync = "failed", !.owner = NoJob, !.old = FALSE]
        \in Parents
  BY <1>1 DEF Parents, Startable
<1> QED BY <1>2, <1>3, <1>4, <1>5, <1>6, <1>7, <1>8

(* A job that ends. *)
LEMMA JobEndsShape ==
  ASSUME JobsOK, NEW j \in Jobs, NEW s \in {"success", "failed"},
         JobEnds(j, s)
  PROVE  /\ jobs' \in [Jobs -> JobRecords]
         /\ jobs'[j].kind = jobs[j].kind /\ jobs'[j].status = s /\ ~jobs'[j].live
         /\ ~jobs'[j].old
         /\ \A i \in Jobs \ {j} : jobs'[i] = jobs[i]
<1> DEFINE new == [jobs[j] EXCEPT !.status = s, !.live = FALSE, !.old = FALSE]
<1>1. ASSUME NEW e \in JobRecords
      PROVE  /\ [e EXCEPT !.status = s, !.live = FALSE, !.old = FALSE] \in JobRecords
             /\ [e EXCEPT !.status = s, !.live = FALSE, !.old = FALSE].kind = e.kind
             /\ [e EXCEPT !.status = s, !.live = FALSE, !.old = FALSE].status = s
             /\ ~[e EXCEPT !.status = s, !.live = FALSE, !.old = FALSE].live
             /\ ~[e EXCEPT !.status = s, !.live = FALSE, !.old = FALSE].old
  BY DEF JobRecords
<1>2. jobs[j] \in JobRecords
  BY DEF JobsOK
<1>3. /\ new \in JobRecords
      /\ new.kind = jobs[j].kind /\ new.status = s /\ ~new.live /\ ~new.old
  BY <1>1, <1>2, Zenon
<1>4. jobs' = [jobs EXCEPT ![j] = new]
  BY DEF JobsOK, JobEnds
<1> HIDE DEF new
<1> QED BY <1>3, <1>4 DEF JobsOK

(* A job that goes on. *)
LEMMA JobMovesShape ==
  ASSUME JobsOK, NEW j \in Jobs,
         jobs' = [jobs EXCEPT ![j].status = "syncing", ![j].old = FALSE]
  PROVE  /\ jobs' \in [Jobs -> JobRecords]
         /\ jobs'[j].kind = jobs[j].kind /\ jobs'[j].status = "syncing"
         /\ jobs'[j].live = jobs[j].live /\ ~jobs'[j].old
         /\ \A i \in Jobs \ {j} : jobs'[i] = jobs[i]
<1> DEFINE new == [jobs[j] EXCEPT !.status = "syncing", !.old = FALSE]
<1>1. ASSUME NEW e \in JobRecords
      PROVE  /\ [e EXCEPT !.status = "syncing", !.old = FALSE] \in JobRecords
             /\ [e EXCEPT !.status = "syncing", !.old = FALSE].kind = e.kind
             /\ [e EXCEPT !.status = "syncing", !.old = FALSE].status = "syncing"
             /\ [e EXCEPT !.status = "syncing", !.old = FALSE].live = e.live
             /\ ~[e EXCEPT !.status = "syncing", !.old = FALSE].old
  BY DEF JobRecords
<1>2. jobs[j] \in JobRecords
  BY DEF JobsOK
<1>3. /\ new \in JobRecords
      /\ new.kind = jobs[j].kind /\ new.status = "syncing" /\ new.live = jobs[j].live
      /\ ~new.old
  BY <1>1, <1>2, Zenon
<1>4. jobs' = [jobs EXCEPT ![j] = new]
  BY DEF JobsOK
<1> HIDE DEF new
<1> QED BY <1>3, <1>4 DEF JobsOK

(* A job of which only the lease or the age changes. *)
LEMMA JobFieldShape ==
  ASSUME JobsOK, NEW j \in Jobs, NEW b \in BOOLEAN
  PROVE  /\ jobs' = [jobs EXCEPT ![j].old = b] =>
              /\ jobs' \in [Jobs -> JobRecords]
              /\ jobs'[j].kind = jobs[j].kind /\ jobs'[j].status = jobs[j].status
              /\ jobs'[j].live = jobs[j].live /\ jobs'[j].old = b
              /\ \A i \in Jobs \ {j} : jobs'[i] = jobs[i]
         /\ jobs' = [jobs EXCEPT ![j].live = b] =>
              /\ jobs' \in [Jobs -> JobRecords]
              /\ jobs'[j].kind = jobs[j].kind /\ jobs'[j].status = jobs[j].status
              /\ jobs'[j].live = b /\ jobs'[j].old = jobs[j].old
              /\ \A i \in Jobs \ {j} : jobs'[i] = jobs[i]
BY DEF JobsOK, JobRecords

(* An execution that stops, and one that goes on elsewhere. *)
LEMMA HaltShape ==
  ASSUME ExecOK, NEW j \in Jobs, Halt(j)
  PROVE  /\ exec' \in [Jobs -> Executions]
         /\ exec'[j].pc = "done" /\ ~exec'[j].hook
         /\ \A i \in Jobs \ {j} : exec'[i] = exec[i]
<1> DEFINE new == [NoExecution EXCEPT !.pc = "done"]
<1>1. new \in Executions /\ new.pc = "done" /\ ~new.hook
  BY NothingTypes DEF NoExecution, Executions
<1>2. exec' = [exec EXCEPT ![j] = new]
  BY DEF Halt
<1> HIDE DEF new
<1> QED BY <1>1, <1>2 DEF ExecOK

Pcs == {"none", "escaped", "done"} \cup Unfenced \cup Fenced
LEMMA GotoShape ==
  ASSUME ExecOK, NEW j \in Jobs, NEW pc \in Pcs,
         exec' = [exec EXCEPT ![j].pc = pc]
  PROVE  /\ exec' \in [Jobs -> Executions]
         /\ exec'[j].pc = pc /\ exec'[j].found = exec[j].found
         /\ exec'[j].plan = exec[j].plan /\ exec'[j].noted = exec[j].noted
         /\ exec'[j].told = exec[j].told /\ exec'[j].hook = exec[j].hook
         /\ \A i \in Jobs \ {j} : exec'[i] = exec[i]
<1> DEFINE new == [exec[j] EXCEPT !.pc = pc]
<1>1. ASSUME NEW e \in Executions
      PROVE  /\ [e EXCEPT !.pc = pc] \in Executions
             /\ [e EXCEPT !.pc = pc].pc = pc /\ [e EXCEPT !.pc = pc].found = e.found
             /\ [e EXCEPT !.pc = pc].plan = e.plan /\ [e EXCEPT !.pc = pc].noted = e.noted
             /\ [e EXCEPT !.pc = pc].told = e.told /\ [e EXCEPT !.pc = pc].hook = e.hook
  BY DEF Executions, Pcs
<1>2. exec[j] \in Executions
  BY DEF ExecOK
<1>3. /\ new \in Executions
      /\ new.pc = pc /\ new.found = exec[j].found /\ new.plan = exec[j].plan
      /\ new.noted = exec[j].noted /\ new.told = exec[j].told /\ new.hook = exec[j].hook
  BY <1>1, <1>2, Zenon
<1>4. exec' = [exec EXCEPT ![j] = new]
  BY DEF ExecOK
<1> HIDE DEF new
<1> QED BY <1>3, <1>4 DEF ExecOK

LEMMA ToldShape ==
  ASSUME ExecOK, NEW j \in Jobs, NEW pc \in Pcs, NEW b \in {"nothing", "success", "failed"},
         exec' = [exec EXCEPT ![j].told = b, ![j].pc = pc]
  PROVE  /\ exec' \in [Jobs -> Executions]
         /\ exec'[j].pc = pc /\ exec'[j].found = exec[j].found
         /\ exec'[j].plan = exec[j].plan /\ exec'[j].noted = exec[j].noted
         /\ exec'[j].told = b /\ exec'[j].hook = exec[j].hook
         /\ \A i \in Jobs \ {j} : exec'[i] = exec[i]
<1> DEFINE new == [exec[j] EXCEPT !.told = b, !.pc = pc]
<1>1. ASSUME NEW e \in Executions
      PROVE  /\ [e EXCEPT !.told = b, !.pc = pc] \in Executions
             /\ [e EXCEPT !.told = b, !.pc = pc].pc = pc
             /\ [e EXCEPT !.told = b, !.pc = pc].found = e.found
             /\ [e EXCEPT !.told = b, !.pc = pc].plan = e.plan
             /\ [e EXCEPT !.told = b, !.pc = pc].noted = e.noted
             /\ [e EXCEPT !.told = b, !.pc = pc].told = b
             /\ [e EXCEPT !.told = b, !.pc = pc].hook = e.hook
  BY DEF Executions, Pcs
<1>2. exec[j] \in Executions
  BY DEF ExecOK
<1>3. /\ new \in Executions
      /\ new.pc = pc /\ new.found = exec[j].found /\ new.plan = exec[j].plan
      /\ new.noted = exec[j].noted /\ new.told = b /\ new.hook = exec[j].hook
  BY <1>1, <1>2, Zenon
<1>4. exec' = [exec EXCEPT ![j] = new]
  BY DEF ExecOK
<1> HIDE DEF new
<1> QED BY <1>3, <1>4 DEF ExecOK

LEMMA FinalShape ==
  ASSUME ExecOK, NEW j \in Jobs, NEW b \in {"nothing", "success", "failed"},
         exec' = [exec EXCEPT ![j].pc = "job", ![j].told = b]
  PROVE  /\ exec' \in [Jobs -> Executions]
         /\ exec'[j].pc = "job" /\ exec'[j].found = exec[j].found
         /\ exec'[j].plan = exec[j].plan /\ exec'[j].noted = exec[j].noted
         /\ exec'[j].told = b /\ exec'[j].hook = exec[j].hook
         /\ \A i \in Jobs \ {j} : exec'[i] = exec[i]
<1> DEFINE new == [exec[j] EXCEPT !.pc = "job", !.told = b]
<1>1. ASSUME NEW e \in Executions
      PROVE  /\ [e EXCEPT !.pc = "job", !.told = b] \in Executions
             /\ [e EXCEPT !.pc = "job", !.told = b].pc = "job"
             /\ [e EXCEPT !.pc = "job", !.told = b].found = e.found
             /\ [e EXCEPT !.pc = "job", !.told = b].plan = e.plan
             /\ [e EXCEPT !.pc = "job", !.told = b].noted = e.noted
             /\ [e EXCEPT !.pc = "job", !.told = b].told = b
             /\ [e EXCEPT !.pc = "job", !.told = b].hook = e.hook
  BY DEF Executions, Fenced
<1>2. exec[j] \in Executions
  BY DEF ExecOK
<1>3. /\ new \in Executions
      /\ new.pc = "job" /\ new.found = exec[j].found /\ new.plan = exec[j].plan
      /\ new.noted = exec[j].noted /\ new.told = b /\ new.hook = exec[j].hook
  BY <1>1, <1>2, Zenon
<1>4. exec' = [exec EXCEPT ![j] = new]
  BY DEF ExecOK
<1> HIDE DEF new
<1> QED BY <1>3, <1>4 DEF ExecOK

LEMMA HookShape ==
  ASSUME ExecOK, NEW j \in Jobs,
         exec' = [exec EXCEPT ![j].hook = TRUE]
  PROVE  /\ exec' \in [Jobs -> Executions]
         /\ exec'[j].pc = exec[j].pc /\ exec'[j].found = exec[j].found
         /\ exec'[j].plan = exec[j].plan /\ exec'[j].noted = exec[j].noted
         /\ exec'[j].told = exec[j].told /\ exec'[j].hook
         /\ \A i \in Jobs \ {j} : exec'[i] = exec[i]
<1> DEFINE new == [exec[j] EXCEPT !.hook = TRUE]
<1>1. ASSUME NEW e \in Executions
      PROVE  /\ [e EXCEPT !.hook = TRUE] \in Executions
             /\ [e EXCEPT !.hook = TRUE].pc = e.pc
             /\ [e EXCEPT !.hook = TRUE].found = e.found
             /\ [e EXCEPT !.hook = TRUE].plan = e.plan
             /\ [e EXCEPT !.hook = TRUE].noted = e.noted
             /\ [e EXCEPT !.hook = TRUE].told = e.told /\ [e EXCEPT !.hook = TRUE].hook
  BY DEF Executions
<1>2. exec[j] \in Executions
  BY DEF ExecOK
<1>3. /\ new \in Executions
      /\ new.pc = exec[j].pc /\ new.found = exec[j].found /\ new.plan = exec[j].plan
      /\ new.noted = exec[j].noted /\ new.told = exec[j].told /\ new.hook
  BY <1>1, <1>2, Zenon
<1>4. exec' = [exec EXCEPT ![j] = new]
  BY DEF ExecOK
<1> HIDE DEF new
<1> QED BY <1>3, <1>4 DEF ExecOK

LEMMA FoundShape ==
  ASSUME ExecOK, NEW j \in Jobs, NEW f \in [Runtimes -> Found],
         exec' = [exec EXCEPT ![j].pc = "book", ![j].found = f]
  PROVE  /\ exec' \in [Jobs -> Executions]
         /\ exec'[j].pc = "book" /\ exec'[j].found = f /\ exec'[j].plan = exec[j].plan
         /\ exec'[j].noted = exec[j].noted /\ exec'[j].told = exec[j].told
         /\ exec'[j].hook = exec[j].hook
         /\ \A i \in Jobs \ {j} : exec'[i] = exec[i]
<1> DEFINE new == [exec[j] EXCEPT !.pc = "book", !.found = f]
<1>1. ASSUME NEW e \in Executions
      PROVE  /\ [e EXCEPT !.pc = "book", !.found = f] \in Executions
             /\ [e EXCEPT !.pc = "book", !.found = f].pc = "book"
             /\ [e EXCEPT !.pc = "book", !.found = f].found = f
             /\ [e EXCEPT !.pc = "book", !.found = f].plan = e.plan
             /\ [e EXCEPT !.pc = "book", !.found = f].noted = e.noted
             /\ [e EXCEPT !.pc = "book", !.found = f].told = e.told
             /\ [e EXCEPT !.pc = "book", !.found = f].hook = e.hook
  BY DEF Executions, Fenced
<1>2. exec[j] \in Executions
  BY DEF ExecOK
<1>3. /\ new \in Executions
      /\ new.pc = "book" /\ new.found = f /\ new.plan = exec[j].plan
      /\ new.noted = exec[j].noted /\ new.told = exec[j].told /\ new.hook = exec[j].hook
  BY <1>1, <1>2, Zenon
<1>4. exec' = [exec EXCEPT ![j] = new]
  BY DEF ExecOK
<1> HIDE DEF new
<1> QED BY <1>3, <1>4 DEF ExecOK

(* An execution in its place. *)
LEMMA ExecShape ==
  ASSUME ExecOK, NEW j \in Jobs, NEW e \in Executions, exec' = [exec EXCEPT ![j] = e]
  PROVE  /\ exec' \in [Jobs -> Executions] /\ exec'[j] = e
         /\ \A i \in Jobs \ {j} : exec'[i] = exec[i]
BY DEF ExecOK

(* A runtime that was written. *)
LEMMA WriteShape ==
  ASSUME ExecOK, NEW j \in Jobs, NEW r \in Runtimes, NEW p \in Plans,
         exec' = [exec EXCEPT ![j].plan[r] = p]
  PROVE  /\ exec' \in [Jobs -> Executions]
         /\ exec'[j].pc = exec[j].pc /\ exec'[j].found = exec[j].found
         /\ exec'[j].plan = [exec[j].plan EXCEPT ![r] = p]
         /\ exec'[j].noted = exec[j].noted /\ exec'[j].told = exec[j].told
         /\ exec'[j].hook = exec[j].hook
         /\ \A i \in Jobs \ {j} : exec'[i] = exec[i]
<1> DEFINE plan == [exec[j].plan EXCEPT ![r] = p]
           wrote == [exec[j] EXCEPT !.plan = plan]
<1>1. exec[j] \in Executions
  BY DEF ExecOK
<1>2. plan \in [Runtimes -> Plans]
  BY <1>1 DEF Executions
<1>4. exec' = [exec EXCEPT ![j] = wrote]
  BY DEF ExecOK
<1> HIDE DEF plan
<1>3. /\ wrote \in Executions
      /\ wrote.pc = exec[j].pc /\ wrote.found = exec[j].found /\ wrote.plan = plan
      /\ wrote.noted = exec[j].noted /\ wrote.told = exec[j].told /\ wrote.hook = exec[j].hook
  BY <1>1, <1>2 DEF Executions
<1> HIDE DEF wrote
<1>5. /\ exec' \in [Jobs -> Executions] /\ exec'[j] = wrote
      /\ \A i \in Jobs \ {j} : exec'[i] = exec[i]
  BY <1>3, <1>4, ExecShape, Zenon
<1> QED BY <1>3, <1>5, Zenon DEF plan

(* A repair that begins, changes or ends. *)
LEMMA FixShape ==
  ASSUME FixOK, NEW w \in Reapers \cup Jobs, NEW rec \in Repairs, fix' = [fix EXCEPT ![w] = rec]
  PROVE  /\ fix' \in [Reapers \cup Jobs -> Repairs]
         /\ fix'[w] = rec
         /\ \A v \in (Reapers \cup Jobs) \ {w} : fix'[v] = fix[v]
BY DEF FixOK

LEMMA RepairShapes ==
  ASSUME NEW j \in 0..MaxJobs
  PROVE  /\ NoRepair \in Repairs /\ NoRepair.pc = "idle"
         /\ LET new == [NoRepair EXCEPT !.pc = "read", !.job = j]
            IN  new \in Repairs /\ new.pc = "read" /\ new.job = j /\ ~new.scan
         /\ LET new == [NoRepair EXCEPT !.pc = "fail", !.job = j]
            IN  new \in Repairs /\ new.pc = "fail" /\ new.job = j /\ ~new.scan
         /\ LET new == [NoRepair EXCEPT !.pc = "restore", !.owner = j]
            IN  new \in Repairs /\ new.pc = "restore" /\ new.owner = j /\ ~new.scan
         /\ LET new == [NoRepair EXCEPT !.pc = "scanned", !.scan = TRUE, !.owner = j]
            IN  new \in Repairs /\ new.pc = "scanned" /\ new.owner = j /\ new.scan
<1>0. NoRepair \in Repairs
  BY BoundsAssumption DEF NoRepair, Repairs, NoJob
<1>1. /\ [NoRepair EXCEPT !.pc = "read", !.job = j] \in Repairs
      /\ [NoRepair EXCEPT !.pc = "read", !.job = j].pc = "read"
      /\ [NoRepair EXCEPT !.pc = "read", !.job = j].job = j
      /\ ~[NoRepair EXCEPT !.pc = "read", !.job = j].scan
  BY <1>0 DEF NoRepair, Repairs
<1>2. /\ [NoRepair EXCEPT !.pc = "fail", !.job = j] \in Repairs
      /\ [NoRepair EXCEPT !.pc = "fail", !.job = j].pc = "fail"
      /\ [NoRepair EXCEPT !.pc = "fail", !.job = j].job = j
      /\ ~[NoRepair EXCEPT !.pc = "fail", !.job = j].scan
  BY <1>0 DEF NoRepair, Repairs
<1>3. /\ [NoRepair EXCEPT !.pc = "restore", !.owner = j] \in Repairs
      /\ [NoRepair EXCEPT !.pc = "restore", !.owner = j].pc = "restore"
      /\ [NoRepair EXCEPT !.pc = "restore", !.owner = j].owner = j
      /\ ~[NoRepair EXCEPT !.pc = "restore", !.owner = j].scan
  BY <1>0 DEF NoRepair, Repairs
<1>4. /\ [NoRepair EXCEPT !.pc = "scanned", !.scan = TRUE, !.owner = j] \in Repairs
      /\ [NoRepair EXCEPT !.pc = "scanned", !.scan = TRUE, !.owner = j].pc = "scanned"
      /\ [NoRepair EXCEPT !.pc = "scanned", !.scan = TRUE, !.owner = j].owner = j
      /\ [NoRepair EXCEPT !.pc = "scanned", !.scan = TRUE, !.owner = j].scan
  BY <1>0 DEF NoRepair, Repairs
<1>5. NoRepair.pc = "idle"
  BY DEF NoRepair
<1> QED BY <1>0, <1>1, <1>2, <1>3, <1>4, <1>5, Zenon

LEMMA ScannedShape ==
  ASSUME FixOK, NEW w \in Reapers \cup Jobs, NEW j \in Jobs,
         fix' = [fix EXCEPT ![w].pc = "read", ![w].job = j]
  PROVE  /\ fix' \in [Reapers \cup Jobs -> Repairs]
         /\ fix'[w].pc = "read" /\ fix'[w].job = j /\ fix'[w].owner = fix[w].owner
         /\ fix'[w].scan = fix[w].scan
         /\ \A v \in (Reapers \cup Jobs) \ {w} : fix'[v] = fix[v]
<1> DEFINE new == [fix[w] EXCEPT !.pc = "read", !.job = j]
<1>0. j \in 0..MaxJobs
  BY BoundsAssumption DEF Jobs
<1>1. ASSUME NEW e \in Repairs
      PROVE  /\ [e EXCEPT !.pc = "read", !.job = j] \in Repairs
             /\ [e EXCEPT !.pc = "read", !.job = j].pc = "read"
             /\ [e EXCEPT !.pc = "read", !.job = j].job = j
             /\ [e EXCEPT !.pc = "read", !.job = j].owner = e.owner
             /\ [e EXCEPT !.pc = "read", !.job = j].scan = e.scan
  BY <1>0 DEF Repairs
<1>2. fix[w] \in Repairs
  BY DEF FixOK
<1>3. /\ new \in Repairs /\ new.pc = "read" /\ new.job = j
      /\ new.owner = fix[w].owner /\ new.scan = fix[w].scan
  BY <1>1, <1>2, Zenon
<1>4. fix' = [fix EXCEPT ![w] = new]
  BY DEF FixOK
<1> HIDE DEF new
<1> QED BY <1>3, <1>4 DEF FixOK

-----------------------------------------------------------------------------
(* What a step does to a job *)

LEMMA OutcomeTypes ==
  ASSUME ExecOK, NEW j \in Jobs
  PROVE  Outcome(j) \in {"success", "failed"} /\ Report(j) \in Reports
<1>1. Outcome(j) \in {"success", "failed"}
  BY DEF Outcome
<1>2. exec[j].found \in [Runtimes -> Found] /\ exec[j].noted \in BOOLEAN
  BY DEF ExecOK, Executions
<1>3. Imported(j) \in Int
  <2> DEFINE F == {r \in Runtimes : exec[j].found[r] \in Revisions}
             X == {r \in Runtimes : exec[j].plan[r] = "failed"}
  <2>1. IsFiniteSet(F) /\ IsFiniteSet(X)
    BY RuntimesAssumption, FS_Subset, F \in SUBSET Runtimes, X \in SUBSET Runtimes
  <2>2. Cardinality(F) \in Nat /\ Cardinality(X) \in Nat
    BY <2>1, FS_CardinalityType
  <2> QED BY <2>2 DEF Imported
<1>4. (~exec[j].noted /\ Cardinality(Listed(exec[j].found)) = Imported(j)) \in BOOLEAN
  OBVIOUS
<1> QED BY <1>1, <1>2, <1>3, <1>4, NothingTypes DEF Report, Reports

(* Job i is created. *)
Begins(i) ==
  /\ i \notin Created /\ \A h \in Jobs : h < i <=> h \in Created
  /\ Admits
  /\ jobs'[i].status = "pending" /\ jobs'[i].live /\ ~jobs'[i].old
  /\ exec' = [exec EXCEPT ![i].pc = "start"]
  /\ parent' = IF jobs'[i].kind = "sync"
       THEN [parent EXCEPT !.sync = "pending", !.last = i, !.report = NoReport, !.old = FALSE]
       ELSE [parent EXCEPT !.sync = "pending", !.status = "deleting", !.owner = i,
                           !.report = NoReport, !.old = FALSE]
  /\ UNCHANGED <<child, fix, stalled>>

JobStep(i) ==
  /\ i \in Created => jobs'[i].status # "unborn" /\ jobs'[i].kind = jobs[i].kind
  /\ i \notin Created => jobs'[i] = jobs[i] \/ Begins(i)
  /\ jobs'[i].live => jobs[i].live \/ Begins(i)
  /\ jobs'[i].status \in InFlight => Unfinished(i) \/ Begins(i)
  (* a lease that lapses *)
  /\ jobs[i].live /\ ~jobs'[i].live /\ jobs'[i].status \in InFlight
       => exec'[i].pc \in {"escaped", "done"} \/ i \in stalled'
  /\ ~jobs[i].old /\ jobs'[i].old
       => ~Unfinished(i) /\ (~Running(i) \/ i \in stalled) /\ UNCHANGED <<exec, stalled>>
  /\ jobs[i].status # "success" /\ jobs'[i].status = "success"
       => At(i, "job") /\ Live(i) /\ exec[i].told # "failed"

LEMMA JobsStep ==
  ASSUME TypeOK, [Next]_vars, NEW i \in Jobs
  PROVE  JobsOK' /\ JobStep(i)
<1>t. ParentOK /\ JobsOK /\ ExecOK /\ FixOK /\ RestOK
  BY TypeParts
<1>u. /\ jobs[i] \in JobRecords /\ (jobs[i].live => jobs[i].status \in InFlight)
      /\ "unborn" \notin InFlight /\ "success" \notin InFlight /\ "failed" \notin InFlight
      /\ "syncing" \in InFlight /\ InFlight \subseteq {"pending", "syncing"}
  BY <1>t DEF JobsOK, InFlight
<1>1. ASSUME NEW kind \in Kinds, Ask(kind) PROVE (JobsOK' /\ JobStep(i))
  BY <1>1, <1>t, <1>u DEF Ask, Created, Live, Unfinished, JobsOK, JobStep
<1>2. ASSUME NEW kind \in Kinds, Submit(kind) PROVE (JobsOK' /\ JobStep(i))
  <2>1. CASE ~Admits
    BY <1>2, <1>t, <1>u, <2>1 DEF Submit, JobsOK, JobStep, Created, Unfinished
  <2>2. CASE Admits
    <3>1. PICK h \in Jobs :
            /\ \A g \in Jobs : g < h <=> g \in Created
            /\ jobs' = [jobs EXCEPT ![h] = [kind |-> kind, live |-> TRUE, old |-> FALSE,
                                            status |-> "pending"]]
            /\ exec' = [exec EXCEPT ![h].pc = "start"]
            /\ parent' = IF kind = "sync"
                 THEN [parent EXCEPT !.sync = "pending", !.last = h, !.report = NoReport,
                                     !.old = FALSE]
                 ELSE [parent EXCEPT !.sync = "pending", !.status = "deleting", !.owner = h,
                                     !.report = NoReport, !.old = FALSE]
      BY <1>2, <2>2 DEF Submit
    <3>2. [kind |-> kind, live |-> TRUE, old |-> FALSE, status |-> "pending"] \in JobRecords
      BY <1>2 DEF JobRecords
    <3>3. h \notin Created
      <4>1. ~(h < h)
        BY DEF Jobs
      <4> QED BY <3>1, <4>1
    <3>4. jobs'[h] = [kind |-> kind, live |-> TRUE, old |-> FALSE, status |-> "pending"]
          /\ \A g \in Jobs \ {h} : jobs'[g] = jobs[g]
      BY <1>t, <3>1 DEF JobsOK
    <3>5. JobsOK'
      BY <1>t, <3>1, <3>2 DEF JobsOK, InFlight
    <3>6. Begins(h)
      <4>1. jobs'[h].kind = kind /\ jobs'[h].status = "pending" /\ jobs'[h].live /\ ~jobs'[h].old
        BY <3>4
      <4>2. UNCHANGED <<child, fix, stalled>>
        BY <1>2 DEF Submit
      <4> QED BY <2>2, <3>1, <3>3, <4>1, <4>2 DEF Begins
    <3>7. CASE i = h
      BY <1>t, <1>u, <3>3, <3>4, <3>5, <3>6, <3>7 DEF JobStep, Created, JobsOK
    <3>8. CASE i # h
      BY <1>u, <3>4, <3>5, <3>8 DEF JobStep, Unfinished, Created
    <3> QED BY <3>7, <3>8
  <2> QED BY <2>1, <2>2
<1>3. ASSUME NEW j \in Jobs, Start(j) PROVE (JobsOK' /\ JobStep(i))
  BY <1>3, <1>t, <1>u DEF Start, At, JobsOK, JobStep, Created, Unfinished
<1>4. ASSUME NEW j \in Jobs, Discover(j) PROVE (JobsOK' /\ JobStep(i))
  BY <1>4, <1>t, <1>u DEF Discover, At, JobsOK, JobStep, Created, Unfinished
<1>5. ASSUME NEW j \in Jobs, Bookkeeping(j) PROVE (JobsOK' /\ JobStep(i))
  BY <1>5, <1>t, <1>u, JobMovesShape DEF Bookkeeping, At, Live, Unfinished, JobsOK, JobStep,
     Created
<1>6. ASSUME NEW j \in Jobs, NEW r \in Runtimes, Apply(j, r) PROVE (JobsOK' /\ JobStep(i))
  BY <1>6, <1>t, <1>u DEF Apply, At, JobsOK, JobStep, Created, Unfinished
<1>7. ASSUME NEW j \in Jobs, Vectors(j) PROVE (JobsOK' /\ JobStep(i))
  BY <1>7, <1>t, <1>u, JobFieldShape DEF Vectors, At, Live, Unfinished, JobsOK, JobStep,
     Created
<1>8. ASSUME NEW j \in Jobs, AssertOwned(j) PROVE (JobsOK' /\ JobStep(i))
  BY <1>8, <1>t, <1>u DEF AssertOwned, Live, At, Unfinished, JobsOK, JobStep, Created
<1>9. ASSUME NEW j \in Jobs, FinalizeParent(j) PROVE (JobsOK' /\ JobStep(i))
  BY <1>9, <1>t, <1>u DEF FinalizeParent, At, JobsOK, JobStep, Created, Unfinished
<1>10. ASSUME NEW j \in Jobs, FailParent(j) PROVE (JobsOK' /\ JobStep(i))
  BY <1>10, <1>t, <1>u DEF FailParent, At, JobsOK, JobStep, Created, Unfinished
<1>11. ASSUME NEW j \in Jobs, FinalizeJob(j) PROVE (JobsOK' /\ JobStep(i))
  BY <1>11, <1>t, <1>u, JobEndsShape DEF FinalizeJob, Live, At, Unfinished, JobsOK, JobStep,
     Created
<1>12. ASSUME NEW j \in Jobs, MarkSyncing(j) PROVE (JobsOK' /\ JobStep(i))
  BY <1>12, <1>t, <1>u, JobMovesShape DEF MarkSyncing, At, Live, Unfinished, JobsOK,
     JobStep, Created
<1>13. ASSUME NEW j \in Jobs, DeleteTransaction(j) PROVE (JobsOK' /\ JobStep(i))
  <2>1. CASE ~Deletes(j)
    BY <1>13, <1>t, <1>u, <2>1 DEF DeleteTransaction, JobsOK, JobStep, Created, Unfinished
  <2>2. CASE Deletes(j)
    <3>1. jobs' = [h \in Jobs |-> IF h \in Created \ {j}
                                    THEN [jobs[h] EXCEPT !.status = "removed", !.live = FALSE]
                                    ELSE jobs[h]]
      BY <1>13, <2>2 DEF DeleteTransaction
    <3>2. ASSUME NEW e \in JobRecords
          PROVE  /\ [e EXCEPT !.status = "removed", !.live = FALSE] \in JobRecords
                 /\ [e EXCEPT !.status = "removed", !.live = FALSE].kind = e.kind
                 /\ [e EXCEPT !.status = "removed", !.live = FALSE].old = e.old
                 /\ [e EXCEPT !.status = "removed", !.live = FALSE].status = "removed"
                 /\ ~[e EXCEPT !.status = "removed", !.live = FALSE].live
      BY DEF JobRecords
    <3>3. ASSUME NEW h \in Jobs
          PROVE  /\ jobs'[h] \in JobRecords
                 /\ \/ jobs'[h] = jobs[h]
                    \/ /\ h \in Created /\ jobs'[h].kind = jobs[h].kind /\ ~jobs'[h].live
                       /\ jobs'[h].old = jobs[h].old /\ jobs'[h].status = "removed"
      BY <1>t, <3>1, <3>2 DEF JobsOK
    <3>4. JobsOK'
      BY <1>t, <3>1, <3>3 DEF JobsOK
    <3> QED BY <1>u, <3>3, <3>4 DEF JobStep, Unfinished, InFlight, Created
  <2> QED BY <2>1, <2>2
<1>14. ASSUME NEW j \in Jobs, Restore(j) PROVE (JobsOK' /\ JobStep(i))
  BY <1>14, <1>t, <1>u DEF Restore, At, JobsOK, JobStep, Created, Unfinished
<1>15. ASSUME NEW j \in Jobs, Escaped(j) PROVE (JobsOK' /\ JobStep(i))
  BY <1>15, <1>t, <1>u, JobEndsShape DEF Escaped, At, Live, Unfinished, JobsOK, JobStep,
     Created
<1>16. ASSUME NEW j \in Jobs, LeaseLost(j) PROVE (JobsOK' /\ JobStep(i))
  BY <1>16, <1>t, <1>u DEF LeaseLost, Live, Unfinished, JobsOK, JobStep, Created
<1>17. ASSUME NEW j \in Jobs, NEW r \in Runtimes, ApplyFails(j, r) PROVE (JobsOK' /\ JobStep(i))
  BY <1>17, <1>t, <1>u DEF ApplyFails, At, Live, Unfinished, JobsOK, JobStep, Created
<1>33. ASSUME NEW j \in Jobs, Applied(j) PROVE (JobsOK' /\ JobStep(i))
  BY <1>33, <1>t, <1>u DEF Applied, At, JobsOK, JobStep, Created, Unfinished
<1>34. ASSUME NEW j \in Jobs, VectorsFail(j) PROVE (JobsOK' /\ JobStep(i))
  <2>1. /\ jobs' \in [Jobs -> JobRecords]
        /\ jobs'[j].kind = jobs[j].kind /\ jobs'[j].status = jobs[j].status
        /\ jobs'[j].live = jobs[j].live /\ ~jobs'[j].old
        /\ \A h \in Jobs \ {j} : jobs'[h] = jobs[h]
    BY <1>34, <1>t, JobFieldShape DEF VectorsFail
  <2>2. Live(j)
    BY <1>34 DEF VectorsFail
  <2>3. JobsOK'
    BY <1>t, <2>1 DEF JobsOK
  <2> QED BY <1>u, <2>1, <2>2, <2>3 DEF JobStep, Created, Unfinished, Live
<1>18. ASSUME NEW j \in Jobs, StepFails(j) PROVE (JobsOK' /\ JobStep(i))
  BY <1>18, <1>t, <1>u DEF StepFails, At, JobsOK, JobStep, Created, Unfinished
<1>19. ASSUME NEW j \in Jobs, Cancel(j) PROVE (JobsOK' /\ JobStep(i))
  BY <1>19, <1>t, <1>u, JobEndsShape DEF Cancel, Running, Live, Unfinished, JobsOK, JobStep,
     Created
<1>20. ASSUME NEW j \in Jobs, Stop(j) PROVE (JobsOK' /\ JobStep(i))
  BY <1>20, <1>t, <1>u DEF Stop, Running, JobsOK, JobStep, Created, Unfinished
<1>21. ASSUME NEW j \in Jobs, Expire(j) PROVE (JobsOK' /\ JobStep(i))
  <2>1. /\ jobs' \in [Jobs -> JobRecords]
        /\ jobs'[j].kind = jobs[j].kind /\ jobs'[j].status = jobs[j].status
        /\ ~jobs'[j].live /\ jobs'[j].old = jobs[j].old
        /\ \A h \in Jobs \ {j} : jobs'[h] = jobs[h]
    BY <1>21, <1>t, JobFieldShape DEF Expire
  <2>2. exec'[j].pc \in {"escaped", "done"} \/ j \in stalled'
    BY <1>21, <1>t, HaltShape DEF Expire
  <2>3. JobsOK'
    BY <1>t, <2>1 DEF JobsOK
  <2>4. Live(j)
    BY <1>21 DEF Expire
  <2> QED BY <1>u, <2>1, <2>2, <2>3, <2>4 DEF JobStep, Created, Unfinished, Live
<1>22. ASSUME NEW j \in Jobs, AgeJob(j) PROVE (JobsOK' /\ JobStep(i))
  <2>1. /\ jobs' \in [Jobs -> JobRecords]
        /\ jobs'[j].kind = jobs[j].kind /\ jobs'[j].status = jobs[j].status
        /\ jobs'[j].live = jobs[j].live
        /\ \A h \in Jobs \ {j} : jobs'[h] = jobs[h]
    BY <1>22, <1>t, JobFieldShape DEF AgeJob
  <2>2. /\ j \in Created /\ ~Unfinished(j) /\ (~Running(j) \/ j \in stalled)
        /\ UNCHANGED <<exec, stalled>>
    BY <1>22 DEF AgeJob, Recent, Documents, Stays
  <2>3. JobsOK'
    BY <1>t, <2>1 DEF JobsOK
  <2> QED BY <1>u, <2>1, <2>2, <2>3 DEF JobStep, Created, Unfinished
<1>23. ASSUME NEW w \in Reapers \cup Jobs, ReadParent(w) PROVE (JobsOK' /\ JobStep(i))
  BY <1>23, <1>t, <1>u DEF ReadParent, Repairing, JobsOK, JobStep, Created, Unfinished
<1>24. ASSUME NEW w \in Reapers \cup Jobs, RepairParent(w) PROVE (JobsOK' /\ JobStep(i))
  BY <1>24, <1>t, <1>u DEF RepairParent, Repairing, JobsOK, JobStep, Created, Unfinished
<1>25. ASSUME NEW r \in Reapers, Reap(r) PROVE (JobsOK' /\ JobStep(i))
  BY <1>25, <1>t, <1>u, JobEndsShape DEF Reap, Repairing, Unfinished, JobsOK, JobStep,
     Created
<1>26. ASSUME NEW r \in Reapers, ScanParents(r) PROVE (JobsOK' /\ JobStep(i))
  BY <1>26, <1>t, <1>u DEF ScanParents, Repairing, Unfinished, JobsOK, JobStep, Created
<1>27. ASSUME NEW r \in Reapers, ScanJobs(r) PROVE (JobsOK' /\ JobStep(i))
  BY <1>27, <1>t, <1>u DEF ScanJobs, Repairing, Live, Unfinished, JobsOK, JobStep, Created
<1>28. ASSUME NEW w \in Reapers \cup Jobs, RepairFails(w) PROVE (JobsOK' /\ JobStep(i))
  BY <1>28, <1>t, <1>u DEF RepairFails, JobsOK, JobStep, Created, Unfinished
<1>29. ASSUME NEW w \in Reapers \cup Jobs, Crash(w) PROVE (JobsOK' /\ JobStep(i))
  BY <1>29, <1>t, <1>u DEF Crash, Running, At, JobsOK, JobStep, Created, Unfinished
<1>30. CASE Touch
  BY <1>30, <1>t, <1>u DEF Touch, JobsOK, JobStep, Created, Unfinished
<1>31. CASE AgeParent
  BY <1>31, <1>t, <1>u DEF AgeParent, JobsOK, JobStep, Created, Unfinished
<1>32. CASE UNCHANGED vars
  BY <1>32, <1>t, <1>u DEF vars, JobsOK, JobStep, Created, Unfinished
<1>. QED
  BY <1>1, <1>2, <1>3, <1>4, <1>5, <1>6, <1>7, <1>8, <1>9, <1>10, <1>11, <1>12, <1>13,
     <1>14, <1>15, <1>16, <1>17, <1>18, <1>19, <1>20, <1>21, <1>22, <1>23, <1>24, <1>25,
     <1>26, <1>27, <1>28, <1>29, <1>30, <1>31, <1>32, <1>33, <1>34 DEF Next, Execute, ReaperStep, Repair

-----------------------------------------------------------------------------
(* What a step does to an execution *)

SyncPcs == {"discover", "book", "apply", "vectors", "finalize", "parent", "error", "failParent"}
DeletePcs == {"mark", "delete", "undo", "restore"}
AppliedPcs == {"vectors", "finalize", "parent"}

PcStep(i) ==
  /\ exec[i].pc = "none" => exec'[i].pc \in {"none", "done"} \/ Begins(i)
  /\ exec'[i].pc \in Unfenced \cup Fenced => Running(i) \/ Begins(i)
  /\ exec'[i].pc \in SyncPcs
       => exec[i].pc \in SyncPcs \/ (exec[i].pc \in {"start", "job"} /\ jobs[i].kind = "sync")
  /\ exec'[i].pc \in DeletePcs
       => exec[i].pc \in DeletePcs \/ (At(i, "start") /\ jobs[i].kind = "delete")
  /\ exec'[i].hook => exec[i].hook \/ (i \in Created /\ ~jobs'[i].live)
  /\ Reported(i) /\ (At(i, "job") /\ jobs[i].kind = "sync" => exec[i].told # "nothing")
       => Reported(i)' \/ Begins(i)

(* The plan is made, a runtime is written or is not, what was written has  *)
(* no vectors, or the execution only goes on.                              *)
Booked(i) ==
  /\ At(i, "book") /\ Live(i) /\ parent.status = "active" /\ parent.last = i
  /\ parent' = [parent EXCEPT !.sync = "syncing", !.old = FALSE] /\ UNCHANGED child
  /\ exec'[i].pc = "apply" /\ exec'[i].plan = Plan(exec[i].found)
Wrote(i) ==
  /\ At(i, "apply") /\ exec'[i].pc = "apply" /\ UNCHANGED parent
  /\ exec'[i].found = exec[i].found /\ exec'[i].noted = exec[i].noted
  /\ \E r \in Runtimes : /\ child' = [child EXCEPT ![r] = exec[i].found[r]]
                         /\ exec'[i].plan = [exec[i].plan EXCEPT ![r] = "written"]
Missed(i) ==
  /\ At(i, "apply") /\ exec'[i].pc = "apply" /\ UNCHANGED child /\ exec'[i].noted
  /\ \E r \in Runtimes :
       /\ Due(i, r)
       /\ exec'[i].plan =
            [exec[i].plan EXCEPT ![r] = IF exec[i].plan[r] = "delete" THEN "none" ELSE "failed"]
LosesVectors(i) ==
  /\ At(i, "vectors") /\ exec'[i].pc = "finalize" /\ UNCHANGED child /\ exec'[i].noted
  /\ \E rs \in SUBSET Runtimes :
       exec'[i].plan = [r \in Runtimes |-> IF r \in rs THEN "failed" ELSE exec[i].plan[r]]
GoesOn(i) ==
  /\ exec'[i].plan = exec[i].plan /\ exec'[i].noted = exec[i].noted
  /\ \/ exec[i].pc = exec'[i].pc
     \/ exec[i].pc \in AppliedPcs /\ exec'[i].pc \in AppliedPcs
     \/ At(i, "apply") /\ exec'[i].pc = "vectors" /\ ~ \E r \in Runtimes : Due(i, r)
PlanStep(i) == Booked(i) \/ Wrote(i) \/ Missed(i) \/ LosesVectors(i) \/ GoesOn(i)

OutcomeStep(i) ==
  /\ exec'[i].pc = "job" =>
       \/ At(i, "job") /\ exec'[i].told = exec[i].told
       \/ /\ At(i, "parent") /\ exec'[i].told = Outcome(i)
          /\ Synced(i, Outcome(i), Report(i)) /\ UNCHANGED jobs
       \/ At(i, "delete") /\ Deletes(i) /\ parent'.status = "deleted"
  /\ exec'[i].pc \in {"apply"} \cup AppliedPcs => exec'[i].found = exec[i].found /\ PlanStep(i)

LEMMA ExecsStep ==
  ASSUME TypeOK, [Next]_vars, NEW i \in Jobs
  PROVE  ExecOK' /\ PcStep(i) /\ OutcomeStep(i)
<1>t. ParentOK /\ JobsOK /\ ExecOK /\ FixOK /\ RestOK
  BY TypeParts
<1>u. exec[i] \in Executions /\ exec \in [Jobs -> Executions]
  BY <1>t DEF ExecOK
<1>j. JobStep(i)
  BY JobsStep
<1>p. /\ Unfenced \cup Fenced \cup {"none", "escaped", "done"} = Pcs
      /\ "none" \notin Unfenced \cup Fenced /\ "done" \notin Unfenced \cup Fenced
      /\ "escaped" \notin Unfenced \cup Fenced
  BY DEF Pcs, Unfenced, Fenced
<1>q. Fenced = {"book", "mark", "vectors", "finalize", "job", "error", "undo", "failJob"}
  BY DEF Fenced
<1>r. Unfenced = {"start", "discover", "apply", "parent", "failParent", "delete", "restore"}
  BY DEF Unfenced
<1>s. exec'[i] = exec[i] => PcStep(i) /\ OutcomeStep(i)
  BY <1>u DEF PcStep, OutcomeStep, PlanStep, GoesOn, Running, Reported, At, SyncPcs, DeletePcs,
     AppliedPcs
<1>v. exec' = exec => ExecOK' /\ PcStep(i) /\ OutcomeStep(i)
  BY <1>s, <1>t DEF ExecOK
<1>1. ASSUME NEW kind \in Kinds, Ask(kind) PROVE (ExecOK' /\ PcStep(i) /\ OutcomeStep(i))
  BY <1>v, <1>1 DEF Ask
<1>2. ASSUME NEW kind \in Kinds, Submit(kind) PROVE (ExecOK' /\ PcStep(i) /\ OutcomeStep(i))
  <2>1. CASE ~Admits
    BY <1>2, <1>v, <2>1 DEF Submit
  <2>2. CASE Admits
    <3>1. PICK h \in Jobs : /\ \A g \in Jobs : g < h <=> g \in Created
                            /\ exec' = [exec EXCEPT ![h].pc = "start"]
                            /\ jobs' = [jobs EXCEPT ![h] = [kind |-> kind, live |-> TRUE, old |-> FALSE,
                                                            status |-> "pending"]]
      BY <1>2, <2>2 DEF Submit
    <3>2. h \notin Created
      <4>1. ~(h < h)
        BY DEF Jobs
      <4> QED BY <3>1, <4>1
    <3>3. JobStep(h) /\ jobs'[h] # jobs[h]
      BY JobsStep, <1>t, <3>1, <3>2 DEF JobsOK, Created
    <3>4. Begins(h)
      BY <3>2, <3>3 DEF JobStep
    <3>5. "start" \in Pcs
      BY <1>p, <1>r
    <3>6. /\ exec' \in [Jobs -> Executions] /\ exec'[h].pc = "start"
          /\ exec'[h].hook = exec[h].hook /\ exec'[h].found = exec[h].found
          /\ \A g \in Jobs \ {h} : exec'[g] = exec[g]
      BY <1>t, <3>1, <3>5, GotoShape
    <3>7. CASE i # h
      BY <1>t, <1>s, <3>6, <3>7 DEF ExecOK
    <3>8. CASE i = h
      BY <1>u, <3>4, <3>6, <3>8 DEF ExecOK, PcStep, OutcomeStep, Running, Reported,
       At, Unfenced, Fenced, SyncPcs, DeletePcs, AppliedPcs
    <3> QED BY <3>7, <3>8
  <2> QED BY <2>1, <2>2
<1>3. ASSUME NEW j \in Jobs, Start(j) PROVE (ExecOK' /\ PcStep(i) /\ OutcomeStep(i))
  <2>0. PICK pc \in {"escaped", "error", "discover", "mark"} :
          /\ exec[j].pc = "start" /\ exec' = [exec EXCEPT ![j].pc = pc]
          /\ pc \in {"error", "discover"} => jobs[j].kind = "sync"
          /\ pc = "mark" => jobs[j].kind = "delete"
    BY <1>3 DEF Start, At, Goto
  <2>2. /\ exec' \in [Jobs -> Executions] /\ \A h \in Jobs \ {j} : exec'[h] = exec[h]
        /\ exec'[j].pc = pc
        /\ exec'[j].found = exec[j].found /\ exec'[j].plan = exec[j].plan
        /\ exec'[j].noted = exec[j].noted /\ exec'[j].told = exec[j].told /\ exec'[j].hook = exec[j].hook
    BY <1>t, <2>0, GotoShape DEF Pcs, Unfenced, Fenced
  <2>3. CASE i # j
    BY <1>t, <1>s, <2>2, <2>3 DEF ExecOK
  <2>4. CASE i = j
    BY <1>u, <2>0, <2>2, <2>4 DEF ExecOK, PlanStep, GoesOn, PcStep, OutcomeStep, Running, Reported,
       At, Unfenced, Fenced, SyncPcs, DeletePcs, AppliedPcs
  <2> QED BY <2>3, <2>4
<1>4. ASSUME NEW j \in Jobs, Discover(j) PROVE (ExecOK' /\ PcStep(i) /\ OutcomeStep(i))
  <2>0. PICK found \in [Runtimes -> Found] :
          /\ exec[j].pc = "discover"
          /\ exec' = [exec EXCEPT ![j].pc = "book", ![j].found = found]
    BY <1>4, ListingsAssumption DEF Discover, At
  <2>2. /\ exec' \in [Jobs -> Executions] /\ \A h \in Jobs \ {j} : exec'[h] = exec[h]
        /\ exec'[j].pc = "book" /\ exec'[j].plan = exec[j].plan /\ exec'[j].noted = exec[j].noted
        /\ exec'[j].told = exec[j].told /\ exec'[j].hook = exec[j].hook
    BY <1>t, <2>0, FoundShape
  <2>3. CASE i # j
    BY <1>t, <1>s, <2>2, <2>3 DEF ExecOK
  <2>4. CASE i = j
    BY <1>u, <2>0, <2>2, <2>4 DEF ExecOK, PlanStep, GoesOn, PcStep, OutcomeStep, Running, Reported,
       At, Unfenced, Fenced, SyncPcs, DeletePcs, AppliedPcs
  <2> QED BY <2>3, <2>4
<1>5. ASSUME NEW j \in Jobs, Bookkeeping(j) PROVE (ExecOK' /\ PcStep(i) /\ OutcomeStep(i))
  <2>5. CASE ~(parent.status = "active" /\ parent.last = j)
    <3>1. /\ exec[j].pc = "book" /\ exec' = [exec EXCEPT ![j].pc = "error"]
      BY <1>5, <2>5 DEF Bookkeeping, At, Goto
    <3>2. /\ exec' \in [Jobs -> Executions] /\ \A h \in Jobs \ {j} : exec'[h] = exec[h]
          /\ exec'[j].pc = "error"
          /\ exec'[j].found = exec[j].found /\ exec'[j].plan = exec[j].plan
          /\ exec'[j].noted = exec[j].noted /\ exec'[j].told = exec[j].told /\ exec'[j].hook = exec[j].hook
      BY <1>t, <3>1, GotoShape DEF Pcs, Unfenced, Fenced
    <3>3. CASE i # j
      BY <1>t, <1>s, <3>2, <3>3 DEF ExecOK
    <3>4. CASE i = j
      BY <1>u, <3>1, <3>2, <3>4 DEF ExecOK, PcStep, OutcomeStep, Running, Reported,
       At, Unfenced, Fenced, SyncPcs, DeletePcs, AppliedPcs
    <3> QED BY <3>3, <3>4
  <2>6. CASE parent.status = "active" /\ parent.last = j
    <3>1. Plan(exec[j].found) \in [Runtimes -> Plans] /\ "apply" \in Pcs
      BY DEF Plan, Plans, Pcs, Unfenced
    <3>0. PICK b \in BOOLEAN, plan \in [Runtimes -> Plans] :
            /\ exec[j].pc = "book" /\ Live(j) /\ UNCHANGED child
            /\ plan = Plan(exec[j].found)
            /\ exec' = [exec EXCEPT ![j].pc = "apply", ![j].plan = plan, ![j].noted = b]
            /\ parent' = [parent EXCEPT !.sync = "syncing", !.old = FALSE]
      BY <1>5, <2>6, <3>1 DEF Bookkeeping, At
    <3> DEFINE new == [exec[j] EXCEPT !.pc = "apply", !.plan = plan, !.noted = b]
    <3>6. exec' = [exec EXCEPT ![j] = new]
      BY <1>t, <3>0 DEF ExecOK
    <3>7. /\ new \in Executions
          /\ new.pc = "apply" /\ new.found = exec[j].found /\ new.plan = plan
          /\ new.told = exec[j].told /\ new.hook = exec[j].hook
      <4>1. exec[j] \in Executions /\ plan \in [Runtimes -> Plans] /\ b \in BOOLEAN /\ "apply" \in Pcs
        BY <1>u, <3>0, <3>1
      <4>2. new \in Executions
        BY <4>1 DEF Executions, Pcs
      <4>3. /\ new.pc = "apply" /\ new.found = exec[j].found /\ new.plan = plan
            /\ new.told = exec[j].told
        BY <4>1 DEF Executions
      <4>4. new.hook = exec[j].hook
        BY <4>1, Zenon DEF Executions
      <4> QED BY <4>2, <4>3, <4>4, Zenon
    <3> HIDE DEF new
    <3>2. /\ exec' \in [Jobs -> Executions] /\ \A h \in Jobs \ {j} : exec'[h] = exec[h]
          /\ exec'[j].pc = "apply"
          /\ exec'[j].found = exec[j].found /\ exec'[j].plan = Plan(exec[j].found)
          /\ exec'[j].told = exec[j].told /\ exec'[j].hook = exec[j].hook
      <4>1. plan = Plan(exec[j].found)
        BY <3>0
      <4> QED BY <1>t, <3>6, <3>7, <4>1, ExecShape, Zenon
    <3>5. Booked(j)
      BY <2>6, <3>0, <3>2 DEF Booked, At
    <3>3. CASE i # j
      BY <1>t, <1>s, <3>2, <3>3 DEF ExecOK
    <3>4. CASE i = j
      BY <1>u, <3>0, <3>2, <3>4, <3>5 DEF ExecOK, PlanStep, PcStep, OutcomeStep, Running, Reported,
       At, Unfenced, Fenced, SyncPcs, DeletePcs, AppliedPcs
    <3> QED BY <3>3, <3>4
  <2> QED BY <2>5, <2>6
<1>6. ASSUME NEW j \in Jobs, NEW r \in Runtimes, Apply(j, r) PROVE (ExecOK' /\ PcStep(i) /\ OutcomeStep(i))
  <2>0. exec[j].pc = "apply" /\ exec' = [exec EXCEPT ![j].plan[r] = "written"]
    BY <1>6 DEF Apply, At
  <2>2. /\ exec' \in [Jobs -> Executions] /\ \A h \in Jobs \ {j} : exec'[h] = exec[h]
        /\ exec'[j].pc = "apply" /\ exec'[j].plan = [exec[j].plan EXCEPT ![r] = "written"]
        /\ exec'[j].found = exec[j].found /\ exec'[j].noted = exec[j].noted
        /\ exec'[j].told = exec[j].told /\ exec'[j].hook = exec[j].hook
    BY <1>t, <2>0, WriteShape DEF Plans
  <2>1. Wrote(j)
    BY <1>6, <2>2 DEF Apply, Wrote
  <2>3. CASE i # j
    BY <1>t, <1>s, <2>2, <2>3 DEF ExecOK
  <2>4. CASE i = j
    BY <1>u, <2>0, <2>1, <2>2, <2>4 DEF ExecOK, PlanStep, PcStep, OutcomeStep, Running, Reported,
       At, Unfenced, Fenced, SyncPcs, DeletePcs, AppliedPcs
  <2> QED BY <2>3, <2>4
<1>7. ASSUME NEW j \in Jobs, Vectors(j) PROVE (ExecOK' /\ PcStep(i) /\ OutcomeStep(i))
  <2>1. /\ exec[j].pc = "vectors"
      /\ exec' = [exec EXCEPT ![j].pc = "finalize"]
    BY <1>7 DEF Vectors, At, Goto
  <2>2. /\ exec' \in [Jobs -> Executions] /\ \A h \in Jobs \ {j} : exec'[h] = exec[h]
        /\ exec'[j].pc = "finalize"
        /\ exec'[j].found = exec[j].found /\ exec'[j].plan = exec[j].plan
        /\ exec'[j].noted = exec[j].noted /\ exec'[j].told = exec[j].told /\ exec'[j].hook = exec[j].hook
    BY <1>t, <2>1, GotoShape DEF Pcs, Unfenced, Fenced
  <2>3. CASE i # j
    BY <1>t, <1>s, <2>2, <2>3 DEF ExecOK
  <2>4. CASE i = j
    BY <1>u, <2>1, <2>2, <2>4 DEF ExecOK, PlanStep, GoesOn, PcStep, OutcomeStep, Running, Reported,
       At, Unfenced, Fenced, SyncPcs, DeletePcs, AppliedPcs
  <2> QED BY <2>3, <2>4
<1>8. ASSUME NEW j \in Jobs, AssertOwned(j) PROVE (ExecOK' /\ PcStep(i) /\ OutcomeStep(i))
  <2>0. PICK pc \in {"escaped", "parent", "failParent", "restore"} :
          /\ exec[j].pc \in {"finalize", "error", "undo"} /\ exec' = [exec EXCEPT ![j].pc = pc]
          /\ exec[j].pc = "finalize" => pc = "parent"
          /\ exec[j].pc = "error" => pc \in {"escaped", "failParent"}
          /\ exec[j].pc = "undo" => pc = "restore"
    <3>1. /\ DOMAIN Asserted = {"finalize", "error", "undo"}
          /\ Asserted["finalize"] = "parent" /\ Asserted["error"] = "failParent"
          /\ Asserted["undo"] = "restore"
      BY DEF Asserted
    <3>2. /\ exec[j].pc \in DOMAIN Asserted
          /\ exec' = [exec EXCEPT ![j].pc = IF exec[j].pc = "error" /\ exec[j].told = "success" THEN "escaped"
                                             ELSE Asserted[exec[j].pc]]
      BY <1>8 DEF AssertOwned, At, Goto
    <3> QED BY <3>1, <3>2
  <2>2. /\ exec' \in [Jobs -> Executions] /\ \A h \in Jobs \ {j} : exec'[h] = exec[h]
        /\ exec'[j].pc = pc
        /\ exec'[j].found = exec[j].found /\ exec'[j].plan = exec[j].plan
        /\ exec'[j].noted = exec[j].noted /\ exec'[j].told = exec[j].told /\ exec'[j].hook = exec[j].hook
    BY <1>t, <2>0, GotoShape DEF Pcs, Unfenced, Fenced
  <2>3. CASE i # j
    BY <1>t, <1>s, <2>2, <2>3 DEF ExecOK
  <2>4. CASE i = j
    BY <1>u, <2>0, <2>2, <2>4 DEF ExecOK, PlanStep, GoesOn, PcStep, OutcomeStep, Running, Reported,
       At, Unfenced, Fenced, SyncPcs, DeletePcs, AppliedPcs
  <2> QED BY <2>3, <2>4
<1>9. ASSUME NEW j \in Jobs, FinalizeParent(j) PROVE (ExecOK' /\ PcStep(i) /\ OutcomeStep(i))
  <2>1. /\ exec[j].pc = "parent"
        /\ exec' = [exec EXCEPT ![j].pc = "job", ![j].told = Outcome(j)]
        /\ Synced(j, Outcome(j), Report(j)) /\ UNCHANGED jobs
        /\ Outcome(j) \in {"success", "failed"}
    BY <1>9, <1>t, OutcomeTypes DEF FinalizeParent, At
  <2>2. /\ exec' \in [Jobs -> Executions] /\ \A h \in Jobs \ {j} : exec'[h] = exec[h]
        /\ exec'[j].pc = "job" /\ exec'[j].told = Outcome(j) /\ exec'[j].hook = exec[j].hook
    BY <1>t, <2>1, FinalShape
  <2>3. CASE i # j
    BY <1>t, <1>s, <2>2, <2>3 DEF ExecOK
  <2>4. CASE i = j
    BY <1>u, <2>1, <2>2, <2>4 DEF ExecOK, PlanStep, GoesOn, PcStep, OutcomeStep, Running, Reported,
       At, Unfenced, Fenced, SyncPcs, DeletePcs, AppliedPcs
  <2> QED BY <2>3, <2>4
<1>10. ASSUME NEW j \in Jobs, FailParent(j) PROVE (ExecOK' /\ PcStep(i) /\ OutcomeStep(i))
  <2>1. /\ exec[j].pc = "failParent"
      /\ exec' = [exec EXCEPT ![j].pc = "failJob"]
    BY <1>10 DEF FailParent, At, Goto
  <2>2. /\ exec' \in [Jobs -> Executions] /\ \A h \in Jobs \ {j} : exec'[h] = exec[h]
        /\ exec'[j].pc = "failJob"
        /\ exec'[j].found = exec[j].found /\ exec'[j].plan = exec[j].plan
        /\ exec'[j].noted = exec[j].noted /\ exec'[j].told = exec[j].told /\ exec'[j].hook = exec[j].hook
    BY <1>t, <2>1, GotoShape DEF Pcs, Unfenced, Fenced
  <2>3. CASE i # j
    BY <1>t, <1>s, <2>2, <2>3 DEF ExecOK
  <2>4. CASE i = j
    BY <1>u, <2>1, <2>2, <2>4 DEF ExecOK, PlanStep, GoesOn, PcStep, OutcomeStep, Running, Reported,
       At, Unfenced, Fenced, SyncPcs, DeletePcs, AppliedPcs
  <2> QED BY <2>3, <2>4
<1>11. ASSUME NEW j \in Jobs, FinalizeJob(j) PROVE (ExecOK' /\ PcStep(i) /\ OutcomeStep(i))
  <2>1. Halt(j) /\ exec[j].pc \in {"job", "failJob"}
    BY <1>11 DEF FinalizeJob, Over
  <2>2. /\ exec' \in [Jobs -> Executions] /\ \A h \in Jobs \ {j} : exec'[h] = exec[h]
        /\ exec'[j].pc = "done" /\ ~exec'[j].hook
    BY <1>t, <2>1, HaltShape
  <2>3. CASE i # j
    BY <1>t, <1>s, <2>2, <2>3 DEF ExecOK
  <2>4. CASE i = j
    BY <1>u, <2>1, <2>2, <2>4 DEF ExecOK, PlanStep, GoesOn, PcStep, OutcomeStep, Running, Reported,
       At, Unfenced, Fenced, SyncPcs, DeletePcs, AppliedPcs
  <2> QED BY <2>3, <2>4
<1>12. ASSUME NEW j \in Jobs, MarkSyncing(j) PROVE (ExecOK' /\ PcStep(i) /\ OutcomeStep(i))
  <2>1. /\ exec[j].pc = "mark"
      /\ exec' = [exec EXCEPT ![j].pc = "delete"]
    BY <1>12 DEF MarkSyncing, At, Goto
  <2>2. /\ exec' \in [Jobs -> Executions] /\ \A h \in Jobs \ {j} : exec'[h] = exec[h]
        /\ exec'[j].pc = "delete"
        /\ exec'[j].found = exec[j].found /\ exec'[j].plan = exec[j].plan
        /\ exec'[j].noted = exec[j].noted /\ exec'[j].told = exec[j].told /\ exec'[j].hook = exec[j].hook
    BY <1>t, <2>1, GotoShape DEF Pcs, Unfenced, Fenced
  <2>3. CASE i # j
    BY <1>t, <1>s, <2>2, <2>3 DEF ExecOK
  <2>4. CASE i = j
    BY <1>u, <2>1, <2>2, <2>4 DEF ExecOK, PlanStep, GoesOn, PcStep, OutcomeStep, Running, Reported,
       At, Unfenced, Fenced, SyncPcs, DeletePcs, AppliedPcs
  <2> QED BY <2>3, <2>4
<1>13. ASSUME NEW j \in Jobs, DeleteTransaction(j) PROVE (ExecOK' /\ PcStep(i) /\ OutcomeStep(i))
  <2>5. CASE ~Deletes(j)
    <3>1. /\ exec[j].pc = "delete" /\ exec' = [exec EXCEPT ![j].pc = "undo"]
      BY <1>13, <2>5 DEF DeleteTransaction, At, Goto
    <3>2. /\ exec' \in [Jobs -> Executions] /\ \A h \in Jobs \ {j} : exec'[h] = exec[h]
          /\ exec'[j].pc = "undo"
          /\ exec'[j].found = exec[j].found /\ exec'[j].plan = exec[j].plan
          /\ exec'[j].noted = exec[j].noted /\ exec'[j].told = exec[j].told /\ exec'[j].hook = exec[j].hook
      BY <1>t, <3>1, GotoShape DEF Pcs, Unfenced, Fenced
    <3>3. CASE i # j
      BY <1>t, <1>s, <3>2, <3>3 DEF ExecOK
    <3>4. CASE i = j
      BY <1>u, <3>1, <3>2, <3>4 DEF ExecOK, PcStep, OutcomeStep, Running, Reported,
       At, Unfenced, Fenced, SyncPcs, DeletePcs, AppliedPcs
    <3> QED BY <3>3, <3>4
  <2>6. CASE Deletes(j)
    <3>1. /\ exec[j].pc = "delete" /\ exec' = [exec EXCEPT ![j].pc = "job"]
        /\ parent'.status = "deleted"
      BY <1>13, <1>t, <2>6 DEF DeleteTransaction, At, Goto, ParentOK, Parents
    <3>2. /\ exec' \in [Jobs -> Executions] /\ \A h \in Jobs \ {j} : exec'[h] = exec[h]
          /\ exec'[j].pc = "job"
          /\ exec'[j].found = exec[j].found /\ exec'[j].plan = exec[j].plan
          /\ exec'[j].noted = exec[j].noted /\ exec'[j].told = exec[j].told /\ exec'[j].hook = exec[j].hook
      BY <1>t, <3>1, GotoShape DEF Pcs, Unfenced, Fenced
    <3>3. CASE i # j
      BY <1>t, <1>s, <3>2, <3>3 DEF ExecOK
    <3>4. CASE i = j
      BY <1>u, <2>6, <3>1, <3>2, <3>4 DEF ExecOK, PcStep, OutcomeStep, Running, Reported,
       At, Unfenced, Fenced, SyncPcs, DeletePcs, AppliedPcs
    <3> QED BY <3>3, <3>4
  <2> QED BY <2>5, <2>6
<1>14. ASSUME NEW j \in Jobs, Restore(j) PROVE (ExecOK' /\ PcStep(i) /\ OutcomeStep(i))
  <2>1. /\ exec[j].pc = "restore"
      /\ exec' = [exec EXCEPT ![j].pc = "failJob"]
    BY <1>14 DEF Restore, At, Goto
  <2>2. /\ exec' \in [Jobs -> Executions] /\ \A h \in Jobs \ {j} : exec'[h] = exec[h]
        /\ exec'[j].pc = "failJob"
        /\ exec'[j].found = exec[j].found /\ exec'[j].plan = exec[j].plan
        /\ exec'[j].noted = exec[j].noted /\ exec'[j].told = exec[j].told /\ exec'[j].hook = exec[j].hook
    BY <1>t, <2>1, GotoShape DEF Pcs, Unfenced, Fenced
  <2>3. CASE i # j
    BY <1>t, <1>s, <2>2, <2>3 DEF ExecOK
  <2>4. CASE i = j
    BY <1>u, <2>1, <2>2, <2>4 DEF ExecOK, PlanStep, GoesOn, PcStep, OutcomeStep, Running, Reported,
       At, Unfenced, Fenced, SyncPcs, DeletePcs, AppliedPcs
  <2> QED BY <2>3, <2>4
<1>15. ASSUME NEW j \in Jobs, Escaped(j) PROVE (ExecOK' /\ PcStep(i) /\ OutcomeStep(i))
  <2>1. Halt(j) /\ exec[j].pc = "escaped"
    BY <1>15 DEF Escaped, At
  <2>2. /\ exec' \in [Jobs -> Executions] /\ \A h \in Jobs \ {j} : exec'[h] = exec[h]
        /\ exec'[j].pc = "done" /\ ~exec'[j].hook
    BY <1>t, <2>1, HaltShape
  <2>3. CASE i # j
    BY <1>t, <1>s, <2>2, <2>3 DEF ExecOK
  <2>4. CASE i = j
    BY <1>u, <2>1, <2>2, <2>4 DEF ExecOK, PlanStep, GoesOn, PcStep, OutcomeStep, Running, Reported,
       At, Unfenced, Fenced, SyncPcs, DeletePcs, AppliedPcs
  <2> QED BY <2>3, <2>4
<1>16. ASSUME NEW j \in Jobs, LeaseLost(j) PROVE (ExecOK' /\ PcStep(i) /\ OutcomeStep(i))
  <2>1. Halt(j) /\ exec[j].pc \in Fenced
    BY <1>16 DEF LeaseLost, Over
  <2>2. /\ exec' \in [Jobs -> Executions] /\ \A h \in Jobs \ {j} : exec'[h] = exec[h]
        /\ exec'[j].pc = "done" /\ ~exec'[j].hook
    BY <1>t, <2>1, HaltShape
  <2>3. CASE i # j
    BY <1>t, <1>s, <2>2, <2>3 DEF ExecOK
  <2>4. CASE i = j
    BY <1>u, <2>1, <2>2, <2>4 DEF ExecOK, PlanStep, GoesOn, PcStep, OutcomeStep, Running, Reported,
       At, Unfenced, Fenced, SyncPcs, DeletePcs, AppliedPcs
  <2> QED BY <2>3, <2>4
<1>17. ASSUME NEW j \in Jobs, NEW r \in Runtimes, ApplyFails(j, r) PROVE (ExecOK' /\ PcStep(i) /\ OutcomeStep(i))
  <2>0. PICK p \in Plans :
          /\ p = IF exec[j].plan[r] = "delete" THEN "none" ELSE "failed"
          /\ exec[j].pc = "apply" /\ exec' = [exec EXCEPT ![j].plan[r] = p, ![j].noted = TRUE]
    BY <1>17 DEF ApplyFails, At, Plans
  <2> DEFINE plan == [exec[j].plan EXCEPT ![r] = p]
             new == [exec[j] EXCEPT !.plan = plan, !.noted = TRUE]
  <2>5. exec[j] \in Executions /\ plan \in [Runtimes -> Plans]
    BY <1>t, <2>0 DEF ExecOK, Executions
  <2>6. exec' = [exec EXCEPT ![j] = new]
    BY <1>t, <2>0, <2>5 DEF ExecOK
  <2> HIDE DEF plan
  <2>7. /\ new \in Executions
        /\ new.pc = "apply" /\ new.found = exec[j].found /\ new.plan = plan /\ new.noted
        /\ new.told = exec[j].told /\ new.hook = exec[j].hook
    <3>1. new \in Executions
      BY <2>5 DEF Executions
    <3>2. /\ new.pc = exec[j].pc /\ new.found = exec[j].found /\ new.plan = plan
          /\ new.told = exec[j].told
      BY <2>5 DEF Executions
    <3>3. new.noted = TRUE /\ new.hook = exec[j].hook
      BY <2>5, Zenon DEF Executions
    <3> QED BY <2>0, <3>1, <3>2, <3>3, Zenon
  <2> HIDE DEF new
  <2>2. /\ exec' \in [Jobs -> Executions] /\ \A h \in Jobs \ {j} : exec'[h] = exec[h]
        /\ exec'[j].pc = "apply" /\ exec'[j].plan = [exec[j].plan EXCEPT ![r] = p]
        /\ exec'[j].found = exec[j].found /\ exec'[j].noted
        /\ exec'[j].told = exec[j].told /\ exec'[j].hook = exec[j].hook
    BY <1>t, <2>6, <2>7, ExecShape, Zenon DEF plan
  <2>1. Missed(j)
    BY <1>17, <2>0, <2>2 DEF ApplyFails, Missed
  <2>3. CASE i # j
    BY <1>t, <1>s, <2>2, <2>3 DEF ExecOK
  <2>4. CASE i = j
    BY <1>u, <2>0, <2>1, <2>2, <2>4 DEF ExecOK, PlanStep, PcStep, OutcomeStep, Running, Reported,
       At, Unfenced, Fenced, SyncPcs, DeletePcs, AppliedPcs
  <2> QED BY <2>3, <2>4
<1>33. ASSUME NEW j \in Jobs, Applied(j) PROVE (ExecOK' /\ PcStep(i) /\ OutcomeStep(i))
  <2>0. exec[j].pc = "apply" /\ exec' = [exec EXCEPT ![j].pc = "vectors"]
    BY <1>33 DEF Applied, At, Goto
  <2>2. /\ exec' \in [Jobs -> Executions] /\ \A h \in Jobs \ {j} : exec'[h] = exec[h]
        /\ exec'[j].pc = "vectors"
        /\ exec'[j].found = exec[j].found /\ exec'[j].plan = exec[j].plan
        /\ exec'[j].noted = exec[j].noted /\ exec'[j].told = exec[j].told /\ exec'[j].hook = exec[j].hook
    BY <1>t, <2>0, GotoShape DEF Pcs, Unfenced, Fenced
  <2>1. GoesOn(j)
    BY <1>33, <2>2 DEF Applied, GoesOn
  <2>3. CASE i # j
    BY <1>t, <1>s, <2>2, <2>3 DEF ExecOK
  <2>4. CASE i = j
    BY <1>u, <2>0, <2>1, <2>2, <2>4 DEF ExecOK, PlanStep, PcStep, OutcomeStep, Running, Reported,
       At, Unfenced, Fenced, SyncPcs, DeletePcs, AppliedPcs
  <2> QED BY <2>3, <2>4
<1>34. ASSUME NEW j \in Jobs, VectorsFail(j) PROVE (ExecOK' /\ PcStep(i) /\ OutcomeStep(i))
  <2>0. PICK rs \in SUBSET Runtimes :
          /\ exec[j].pc = "vectors"
          /\ exec' = [exec EXCEPT ![j].pc = "finalize", ![j].noted = TRUE,
               ![j].plan = [r \in Runtimes |-> IF r \in rs THEN "failed" ELSE exec[j].plan[r]]]
    BY <1>34 DEF VectorsFail, Written, At
  <2> DEFINE plan == [r \in Runtimes |-> IF r \in rs THEN "failed" ELSE exec[j].plan[r]]
  <2>5. plan \in [Runtimes -> Plans] /\ "finalize" \in Pcs
    BY <1>t DEF ExecOK, Executions, Plans, Pcs, Fenced
  <2> DEFINE new == [exec[j] EXCEPT !.pc = "finalize", !.plan = plan, !.noted = TRUE]
  <2>6. exec' = [exec EXCEPT ![j] = new]
    BY <1>t, <2>0 DEF ExecOK, Executions
  <2> HIDE DEF plan
  <2>7. /\ new \in Executions
        /\ new.pc = "finalize" /\ new.found = exec[j].found /\ new.plan = plan /\ new.noted
        /\ new.told = exec[j].told /\ new.hook = exec[j].hook
    <3>1. exec[j] \in Executions /\ TRUE \in BOOLEAN
      BY <1>t DEF ExecOK
    <3>2. new \in Executions
      BY <2>5, <3>1 DEF Executions, Pcs
    <3>3. /\ new.pc = "finalize" /\ new.found = exec[j].found /\ new.plan = plan
          /\ new.told = exec[j].told
      BY <2>5, <3>1 DEF Executions
    <3>4. new.noted = TRUE /\ new.hook = exec[j].hook
      BY <2>5, <3>1, Zenon DEF Executions
    <3> QED BY <3>2, <3>3, <3>4, Zenon
  <2> HIDE DEF new
  <2>2. /\ exec' \in [Jobs -> Executions] /\ \A h \in Jobs \ {j} : exec'[h] = exec[h]
        /\ exec'[j].pc = "finalize" /\ exec'[j].plan = plan
        /\ exec'[j].found = exec[j].found /\ exec'[j].noted
        /\ exec'[j].told = exec[j].told /\ exec'[j].hook = exec[j].hook
    BY <1>t, <2>6, <2>7, ExecShape, Zenon
  <2>1. LosesVectors(j)
    BY <1>34, <2>2 DEF VectorsFail, LosesVectors, plan
  <2>3. CASE i # j
    BY <1>t, <1>s, <2>2, <2>3 DEF ExecOK
  <2>4. CASE i = j
    BY <1>u, <2>0, <2>1, <2>2, <2>4 DEF ExecOK, PlanStep, PcStep, OutcomeStep, Running, Reported,
       At, Unfenced, Fenced, SyncPcs, DeletePcs, AppliedPcs
  <2> QED BY <2>3, <2>4
<1>18. ASSUME NEW j \in Jobs, StepFails(j) PROVE (ExecOK' /\ PcStep(i) /\ OutcomeStep(i))
  <2>0. PICK b \in {"nothing", "success", "failed"}, pc \in {"error", "undo", "done", "escaped"} :
          /\ exec' = [exec EXCEPT ![j].told = b, ![j].pc = pc]
          /\ exec[j].pc \notin {"none", "start", "apply", "done"}
          /\ exec[j].pc \in {"discover", "book", "vectors", "finalize", "parent"} => pc = "error"
          /\ exec[j].pc = "job" => pc \in {"error", "escaped"}
          /\ exec[j].pc = "job" /\ pc = "error" => jobs[j].kind = "sync"
          /\ exec[j].pc = "delete" => pc = "undo"
          /\ exec[j].pc \in {"mark", "undo", "restore", "error", "failParent", "failJob"} => pc = "escaped"
          /\ exec[j].pc = "escaped" => pc = "done"
          /\ exec[j].pc # "parent" => b = exec[j].told
    <3>1. exec' = [exec EXCEPT
                     ![j].told = IF At(j, "parent") /\ Outcome(j) = "success" THEN "success"
                                   ELSE exec[j].told,
                     ![j].pc = AfterError(j)]
          /\ exec[j].pc \notin {"none", "start", "apply", "done"}
      BY <1>18, <1>t DEF StepFails, ExecOK, Executions
    <3>2. (IF At(j, "parent") /\ Outcome(j) = "success" THEN "success" ELSE exec[j].told)
            \in {"nothing", "success", "failed"}
      BY <1>t DEF ExecOK, Executions
    <3>3. AfterError(j) \in {"error", "undo", "done", "escaped"}
      BY DEF AfterError
    <3> QED BY <3>1, <3>2, <3>3 DEF AfterError, At
  <2>2. /\ exec' \in [Jobs -> Executions] /\ \A h \in Jobs \ {j} : exec'[h] = exec[h]
        /\ exec'[j].pc = pc
        /\ exec'[j].found = exec[j].found /\ exec'[j].plan = exec[j].plan
        /\ exec'[j].noted = exec[j].noted /\ exec'[j].told = b /\ exec'[j].hook = exec[j].hook
    BY <1>t, <2>0, ToldShape DEF Pcs, Unfenced, Fenced
  <2>3. CASE i # j
    BY <1>t, <1>s, <2>2, <2>3 DEF ExecOK
  <2>4. CASE i = j
    BY <1>u, <2>0, <2>2, <2>4 DEF ExecOK, Executions, PcStep, OutcomeStep, Running, Reported,
       At, Unfenced, Fenced, SyncPcs, DeletePcs, AppliedPcs
  <2> QED BY <2>3, <2>4
<1>19. ASSUME NEW j \in Jobs, Cancel(j) PROVE (ExecOK' /\ PcStep(i) /\ OutcomeStep(i))
  <2>1. /\ Running(j) /\ Live(j) /\ JobEnds(j, "failed")
      /\ exec' = [exec EXCEPT ![j].hook = TRUE]
    BY <1>19 DEF Cancel
  <2>2. /\ exec' \in [Jobs -> Executions] /\ \A h \in Jobs \ {j} : exec'[h] = exec[h]
        /\ exec'[j].pc = exec[j].pc
        /\ exec'[j].found = exec[j].found /\ exec'[j].plan = exec[j].plan
        /\ exec'[j].noted = exec[j].noted /\ exec'[j].told = exec[j].told /\ exec'[j].hook
    BY <1>t, <2>1, HookShape
  <2>3. CASE i # j
    BY <1>t, <1>s, <2>2, <2>3 DEF ExecOK
  <2>5. j \in Created /\ ~jobs'[j].live
    BY <1>t, <2>1, JobEndsShape DEF Live, Unfinished, InFlight, Created
  <2>4. CASE i = j
    BY <1>u, <2>1, <2>2, <2>4, <2>5 DEF ExecOK, PlanStep, GoesOn, PcStep, OutcomeStep, Running, Reported,
       At, Unfenced, Fenced, SyncPcs, DeletePcs, AppliedPcs
  <2> QED BY <2>3, <2>4
<1>20. ASSUME NEW j \in Jobs, Stop(j) PROVE (ExecOK' /\ PcStep(i) /\ OutcomeStep(i))
  <2>1. Halt(j) /\ Running(j)
    BY <1>20 DEF Stop, Over
  <2>2. /\ exec' \in [Jobs -> Executions] /\ \A h \in Jobs \ {j} : exec'[h] = exec[h]
        /\ exec'[j].pc = "done" /\ ~exec'[j].hook
    BY <1>t, <2>1, HaltShape
  <2>3. CASE i # j
    BY <1>t, <1>s, <2>2, <2>3 DEF ExecOK
  <2>4. CASE i = j
    BY <1>u, <2>1, <2>2, <2>4 DEF ExecOK, PlanStep, GoesOn, PcStep, OutcomeStep, Running, Reported,
       At, Unfenced, Fenced, SyncPcs, DeletePcs, AppliedPcs
  <2> QED BY <2>3, <2>4
<1>21. ASSUME NEW j \in Jobs, Expire(j) PROVE (ExecOK' /\ PcStep(i) /\ OutcomeStep(i))
  <2>0. CASE UNCHANGED exec
    BY <1>v, <2>0
  <2>5. CASE ~UNCHANGED exec
    <3>1. Halt(j) /\ Running(j)
      BY <1>21, <2>5 DEF Expire
    <3>2. /\ exec' \in [Jobs -> Executions] /\ \A h \in Jobs \ {j} : exec'[h] = exec[h]
          /\ exec'[j].pc = "done" /\ ~exec'[j].hook
      BY <1>t, <3>1, HaltShape
    <3>3. CASE i # j
      BY <1>t, <1>s, <3>2, <3>3 DEF ExecOK
    <3>4. CASE i = j
      BY <1>u, <3>1, <3>2, <3>4 DEF ExecOK, PcStep, OutcomeStep, Running, Reported,
       At, Unfenced, Fenced, SyncPcs, DeletePcs, AppliedPcs
    <3> QED BY <3>3, <3>4
  <2> QED BY <2>0, <2>5
<1>22. ASSUME NEW j \in Jobs, AgeJob(j) PROVE (ExecOK' /\ PcStep(i) /\ OutcomeStep(i))
  BY <1>v, <1>22 DEF AgeJob, Stays
<1>23. ASSUME NEW w \in Reapers \cup Jobs, ReadParent(w) PROVE (ExecOK' /\ PcStep(i) /\ OutcomeStep(i))
  BY <1>v, <1>23 DEF ReadParent, Stays
<1>24. ASSUME NEW w \in Reapers \cup Jobs, RepairParent(w) PROVE (ExecOK' /\ PcStep(i) /\ OutcomeStep(i))
  BY <1>v, <1>24 DEF RepairParent, Stays
<1>25. ASSUME NEW r \in Reapers, Reap(r) PROVE (ExecOK' /\ PcStep(i) /\ OutcomeStep(i))
  BY <1>v, <1>25 DEF Reap, Stays
<1>26. ASSUME NEW r \in Reapers, ScanParents(r) PROVE (ExecOK' /\ PcStep(i) /\ OutcomeStep(i))
  BY <1>v, <1>26 DEF ScanParents, Stays
<1>27. ASSUME NEW r \in Reapers, ScanJobs(r) PROVE (ExecOK' /\ PcStep(i) /\ OutcomeStep(i))
  BY <1>v, <1>27 DEF ScanJobs, Stays
<1>28. ASSUME NEW w \in Reapers \cup Jobs, RepairFails(w) PROVE (ExecOK' /\ PcStep(i) /\ OutcomeStep(i))
  BY <1>v, <1>28 DEF RepairFails
<1>29. ASSUME NEW w \in Reapers \cup Jobs, Crash(w) PROVE (ExecOK' /\ PcStep(i) /\ OutcomeStep(i))
  <2>0. CASE UNCHANGED exec
    BY <1>v, <2>0
  <2>5. CASE ~UNCHANGED exec
    <3>1. w \in Jobs /\ Halt(w)
      BY <1>29, <2>5 DEF Crash, Repairing
    <3>2. /\ exec' \in [Jobs -> Executions] /\ \A h \in Jobs \ {w} : exec'[h] = exec[h]
          /\ exec'[w].pc = "done" /\ ~exec'[w].hook
      BY <1>t, <3>1, HaltShape
    <3>3. CASE i # w
      BY <1>t, <1>s, <3>2, <3>3 DEF ExecOK
    <3>4. CASE i = w
      BY <1>u, <3>1, <3>2, <3>4 DEF ExecOK, PcStep, OutcomeStep, Running, Reported,
       At, Unfenced, Fenced, SyncPcs, DeletePcs, AppliedPcs
    <3> QED BY <3>3, <3>4
  <2> QED BY <2>0, <2>5
<1>30. CASE Touch
  BY <1>v, <1>30 DEF Touch
<1>31. CASE AgeParent
  BY <1>v, <1>31 DEF AgeParent, Stays
<1>32. CASE UNCHANGED vars
  BY <1>v, <1>32 DEF vars
<1>. QED
  BY <1>1, <1>2, <1>3, <1>4, <1>5, <1>6, <1>7, <1>8, <1>9, <1>10, <1>11, <1>12, <1>13,
     <1>14, <1>15, <1>16, <1>17, <1>18, <1>19, <1>20, <1>21, <1>22, <1>23, <1>24, <1>25,
     <1>26, <1>27, <1>28, <1>29, <1>30, <1>31, <1>32, <1>33, <1>34 DEF Next, Execute, ReaperStep, Repair

-----------------------------------------------------------------------------
(* What a step does to the parent, to its child and to a repair *)

ParentStep ==
  \/ parent' = parent
  \/ \E b \in BOOLEAN : parent' = [parent EXCEPT !.old = b]
  \/ \E j \in Jobs : Begins(j)
  \/ \E j \in Jobs :
       /\ At(j, "book") /\ Live(j) /\ parent.status = "active" /\ parent.last = j
       /\ parent' = [parent EXCEPT !.sync = "syncing", !.old = FALSE]
  \/ \E j \in 0..MaxJobs, s \in {"success", "failed"}, rep \in Reports :
       /\ OwnsParent(j) /\ parent' = [parent EXCEPT !.sync = s, !.report = rep, !.old = FALSE]
       /\ \/ /\ j \in Jobs /\ At(j, "parent") /\ exec'[j].pc = "job"
             /\ s = Outcome(j) /\ rep = Report(j)
          \/ j \in Jobs /\ At(j, "failParent") /\ exec'[j].pc = "failJob" /\ s = "failed"
          \/ s = "failed" /\ \E w \in Reapers \cup Jobs : fix[w].pc = "fail" /\ fix[w].job = j
  \/ \E j \in Jobs :
       /\ At(j, "delete") /\ Deletes(j) /\ child' = Nothing /\ exec'[j].pc = "job"
       /\ parent' = [parent EXCEPT !.status = "deleted"]
  \/ \E j \in 0..MaxJobs :
       /\ Deletes(j)
       /\ parent' = [parent EXCEPT !.status = "active", !.sync = "failed", !.owner = NoJob,
                                   !.old = FALSE]
       /\ \/ j \in Jobs /\ At(j, "restore") /\ exec'[j].pc = "failJob"
          \/ \E w \in Reapers \cup Jobs : fix[w].pc = "restore" /\ fix[w].owner = j

ChildStep ==
  /\ \/ child' = child
     \/ \E j \in Jobs : Wrote(j)
     \/ child' = Nothing /\ parent.status = "deleting"
  /\ stalled \subseteq stalled'

LEMMA ParentsStep ==
  ASSUME TypeOK, [Next]_vars
  PROVE  ParentOK' /\ ParentStep
<1>t. ParentOK /\ JobsOK /\ ExecOK /\ FixOK /\ RestOK
  BY TypeParts
<1>b. Jobs \subseteq 0..MaxJobs
  BY BoundsAssumption DEF Jobs
<1>g. ParentStep => ParentOK'
  <2>1. ASSUME NEW j \in Jobs, Begins(j) PROVE ParentOK'
    BY <1>t, <2>1, ParentShapes DEF Begins, ParentOK
  <2>2. {"success", "failed", "syncing"} \subseteq Syncs
    BY DEF Syncs, InFlight, Startable
  <2>3. ASSUME NEW b \in BOOLEAN, parent' = [parent EXCEPT !.old = b] PROVE ParentOK'
    BY <1>t, <2>3, ParentShapes DEF ParentOK
  <2>4. ASSUME NEW s \in Syncs, parent' = [parent EXCEPT !.sync = s, !.old = FALSE]
        PROVE  ParentOK'
    BY <1>t, <2>4, ParentShapes DEF ParentOK
  <2>8. ASSUME NEW s \in Syncs, NEW rep \in Reports,
               parent' = [parent EXCEPT !.sync = s, !.report = rep, !.old = FALSE]
        PROVE  ParentOK'
    BY <1>t, <2>8, ParentShapes DEF ParentOK
  <2>5. CASE parent' = [parent EXCEPT !.status = "deleted"]
    BY <1>t, <2>5, ParentShapes DEF ParentOK
  <2>6. CASE parent' = [parent EXCEPT !.status = "active", !.sync = "failed", !.owner = NoJob,
                                      !.old = FALSE]
    BY <1>t, <2>6, ParentShapes DEF ParentOK
  <2>7. CASE parent' = parent
    BY <1>t, <2>7 DEF ParentOK
  <2> QED BY <2>1, <2>2, <2>3, <2>4, <2>5, <2>6, <2>7, <2>8, Zenon DEF ParentStep
<1>v. UNCHANGED parent => ParentStep
  BY DEF ParentStep
<1>s. ASSUME NEW j \in 0..MaxJobs, NEW s \in {"success", "failed"}, NEW rep \in Reports,
             Synced(j, s, rep),
             \/ /\ j \in Jobs /\ At(j, "parent") /\ exec'[j].pc = "job"
                /\ s = Outcome(j) /\ rep = Report(j)
             \/ j \in Jobs /\ At(j, "failParent") /\ exec'[j].pc = "failJob" /\ s = "failed"
             \/ s = "failed" /\ \E w \in Reapers \cup Jobs : fix[w].pc = "fail" /\ fix[w].job = j
      PROVE  ParentStep
  <2>1. CASE OwnsParent(j)
    BY <1>s, <2>1 DEF Synced, ParentStep
  <2>2. CASE ~OwnsParent(j)
    BY <1>s, <2>2 DEF Synced, ParentStep
  <2> QED BY <2>1, <2>2
<1>r. ASSUME NEW j \in 0..MaxJobs, Restored(j),
             \/ j \in Jobs /\ At(j, "restore") /\ exec'[j].pc = "failJob"
             \/ \E w \in Reapers \cup Jobs : fix[w].pc = "restore" /\ fix[w].owner = j
      PROVE  ParentStep
  <2>1. CASE Deletes(j)
    BY <1>r, <2>1 DEF Restored, Deletes, ParentStep
  <2>2. CASE ~Deletes(j)
    BY <1>r, <2>2 DEF Restored, Deletes, ParentStep
  <2> QED BY <2>1, <2>2
<1>h. SUFFICES ParentStep
  BY <1>g
<1>1. ASSUME NEW kind \in Kinds, Ask(kind) PROVE ParentStep
  BY <1>v, <1>1 DEF Ask
<1>2. ASSUME NEW kind \in Kinds, Submit(kind) PROVE ParentStep
  <2>1. CASE ~Admits
    BY <1>2, <1>v, <2>1 DEF Submit
  <2>2. CASE Admits
    <3>1. PICK h \in Jobs : /\ \A g \in Jobs : g < h <=> g \in Created
                            /\ exec' = [exec EXCEPT ![h].pc = "start"]
                            /\ jobs' = [jobs EXCEPT ![h] = [kind |-> kind, live |-> TRUE, old |-> FALSE,
                                                            status |-> "pending"]]
      BY <1>2, <2>2 DEF Submit
    <3>2. h \notin Created
      <4>1. ~(h < h)
        BY DEF Jobs
      <4> QED BY <3>1, <4>1
    <3>3. JobStep(h) /\ jobs'[h] # jobs[h]
      BY JobsStep, <1>t, <3>1, <3>2 DEF JobsOK, Created
    <3>4. Begins(h)
      BY <3>2, <3>3 DEF JobStep
    <3> QED BY <3>4 DEF ParentStep
  <2> QED BY <2>1, <2>2
<1>3. ASSUME NEW j \in Jobs, Start(j) PROVE ParentStep
  BY <1>v, <1>3 DEF Start, Stays
<1>4. ASSUME NEW j \in Jobs, Discover(j) PROVE ParentStep
  BY <1>v, <1>4 DEF Discover, Stays
<1>5. ASSUME NEW j \in Jobs, Bookkeeping(j) PROVE ParentStep
  BY <1>5, <1>v DEF Bookkeeping, ParentStep
<1>6. ASSUME NEW j \in Jobs, NEW r \in Runtimes, Apply(j, r) PROVE ParentStep
  BY <1>v, <1>6 DEF Apply, Stays
<1>7. ASSUME NEW j \in Jobs, Vectors(j) PROVE ParentStep
  BY <1>v, <1>7 DEF Vectors, Stays
<1>8. ASSUME NEW j \in Jobs, AssertOwned(j) PROVE ParentStep
  BY <1>v, <1>8 DEF AssertOwned, Stays
<1>9. ASSUME NEW j \in Jobs, FinalizeParent(j) PROVE ParentStep
  <2>1. Outcome(j) \in {"success", "failed"} /\ Report(j) \in Reports
    BY <1>t, OutcomeTypes
  <2>2. exec'[j].pc = "job"
    BY <1>9, <1>t, <2>1, FinalShape DEF FinalizeParent
  <2> QED BY <1>9, <1>b, <1>s, <2>1, <2>2 DEF FinalizeParent
<1>10. ASSUME NEW j \in Jobs, FailParent(j) PROVE ParentStep
  <2>1. exec'[j].pc = "failJob"
    BY <1>10, <1>t, GotoShape DEF FailParent, Goto, Pcs, Fenced
  <2> QED BY <1>10, <1>b, <1>s, <2>1, NothingTypes DEF FailParent
<1>11. ASSUME NEW j \in Jobs, FinalizeJob(j) PROVE ParentStep
  BY <1>v, <1>11 DEF FinalizeJob, Stays
<1>12. ASSUME NEW j \in Jobs, MarkSyncing(j) PROVE ParentStep
  BY <1>v, <1>12 DEF MarkSyncing, Stays
<1>13. ASSUME NEW j \in Jobs, DeleteTransaction(j) PROVE ParentStep
  <2>1. CASE Deletes(j)
    <3>1. exec'[j].pc = "job"
      BY <1>13, <2>1, <1>t, GotoShape DEF DeleteTransaction, Goto, Pcs, Fenced
    <3> QED BY <1>13, <2>1, <3>1 DEF DeleteTransaction, ParentStep
  <2>2. CASE ~Deletes(j)
    BY <1>13, <2>2, <1>v DEF DeleteTransaction
  <2> QED BY <2>1, <2>2
<1>14. ASSUME NEW j \in Jobs, Restore(j) PROVE ParentStep
  <2>1. exec'[j].pc = "failJob"
    BY <1>14, <1>t, GotoShape DEF Restore, Goto, Pcs, Fenced
  <2> QED BY <1>14, <1>b, <1>r, <2>1 DEF Restore
<1>15. ASSUME NEW j \in Jobs, Escaped(j) PROVE ParentStep
  BY <1>v, <1>15 DEF Escaped, Stays
<1>16. ASSUME NEW j \in Jobs, LeaseLost(j) PROVE ParentStep
  BY <1>v, <1>16 DEF LeaseLost, Stays
<1>17. ASSUME NEW j \in Jobs, NEW r \in Runtimes, ApplyFails(j, r) PROVE ParentStep
  BY <1>v, <1>17 DEF ApplyFails
<1>33. ASSUME NEW j \in Jobs, Applied(j) PROVE ParentStep
  BY <1>v, <1>33 DEF Applied
<1>34. ASSUME NEW j \in Jobs, VectorsFail(j) PROVE ParentStep
  BY <1>v, <1>34 DEF VectorsFail
<1>18. ASSUME NEW j \in Jobs, StepFails(j) PROVE ParentStep
  BY <1>v, <1>18 DEF StepFails
<1>19. ASSUME NEW j \in Jobs, Cancel(j) PROVE ParentStep
  BY <1>v, <1>19 DEF Cancel
<1>20. ASSUME NEW j \in Jobs, Stop(j) PROVE ParentStep
  BY <1>v, <1>20 DEF Stop, Stays
<1>21. ASSUME NEW j \in Jobs, Expire(j) PROVE ParentStep
  BY <1>v, <1>21 DEF Expire
<1>22. ASSUME NEW j \in Jobs, AgeJob(j) PROVE ParentStep
  BY <1>v, <1>22 DEF AgeJob, Stays
<1>23. ASSUME NEW w \in Reapers \cup Jobs, ReadParent(w) PROVE ParentStep
  BY <1>v, <1>23 DEF ReadParent, Stays
<1>24. ASSUME NEW w \in Reapers \cup Jobs, RepairParent(w) PROVE ParentStep
  <2>1. fix[w].job \in 0..MaxJobs /\ fix[w].owner \in 0..MaxJobs
    BY <1>t DEF FixOK, Repairs
  <2> QED BY <1>24, <2>1, <1>r, <1>s, NothingTypes DEF RepairParent, Repairing
<1>25. ASSUME NEW r \in Reapers, Reap(r) PROVE ParentStep
  BY <1>v, <1>25 DEF Reap, Stays
<1>26. ASSUME NEW r \in Reapers, ScanParents(r) PROVE ParentStep
  BY <1>v, <1>26 DEF ScanParents, Stays
<1>27. ASSUME NEW r \in Reapers, ScanJobs(r) PROVE ParentStep
  BY <1>v, <1>27 DEF ScanJobs, Stays
<1>28. ASSUME NEW w \in Reapers \cup Jobs, RepairFails(w) PROVE ParentStep
  BY <1>v, <1>28 DEF RepairFails
<1>29. ASSUME NEW w \in Reapers \cup Jobs, Crash(w) PROVE ParentStep
  BY <1>v, <1>29 DEF Crash
<1>30. CASE Touch
  BY <1>30 DEF Touch, ParentStep
<1>31. CASE AgeParent
  BY <1>31 DEF AgeParent, ParentStep
<1>32. CASE UNCHANGED vars
  BY <1>v, <1>32 DEF vars
<1>. QED
  BY <1>1, <1>2, <1>3, <1>4, <1>5, <1>6, <1>7, <1>8, <1>9, <1>10, <1>11, <1>12, <1>13,
     <1>14, <1>15, <1>16, <1>17, <1>18, <1>19, <1>20, <1>21, <1>22, <1>23, <1>24, <1>25,
     <1>26, <1>27, <1>28, <1>29, <1>30, <1>31, <1>32, <1>33, <1>34 DEF Next, Execute, ReaperStep, Repair

(* What is still planned for a runtime is a revision, or that it is gone:  *)
(* neither what was refused nor what could not be read is written.         *)
PlanOK ==
  \A j \in Jobs, r \in Runtimes :
    At(j, "apply") /\ exec[j].plan[r] \in {"create", "update", "delete"}
      => exec[j].found[r] \in 0..MaxRevision

LEMMA PlanOKStep ==
  ASSUME TypeOK, PlanOK, [Next]_vars
  PROVE  PlanOK'
<1> SUFFICES ASSUME NEW j \in Jobs, NEW r \in Runtimes, exec'[j].pc = "apply",
                    exec'[j].plan[r] \in {"create", "update", "delete"}
             PROVE  exec'[j].found[r] \in 0..MaxRevision
  BY DEF PlanOK, At
<1>1. PlanStep(j) /\ exec'[j].found = exec[j].found
  BY ExecsStep DEF OutcomeStep
<1>2. exec[j].found[r] \in Found /\ exec[j].plan \in [Runtimes -> Plans] /\ MaxRevision \in Nat
  BY TypeParts, BoundsAssumption DEF ExecOK, Executions
<1>3. CASE Booked(j)
  BY <1>1, <1>2, <1>3 DEF Booked, Plan, Found, Revisions, Absent
<1>4. CASE At(j, "apply") /\ exec[j].plan[r] = exec'[j].plan[r]
  BY <1>1, <1>4 DEF PlanOK
<1>5. CASE Wrote(j) \/ Missed(j)
  <2>1. PICK q \in Runtimes, p \in {"none", "written", "failed"} :
          At(j, "apply") /\ exec'[j].plan = [exec[j].plan EXCEPT ![q] = p]
    BY <1>5 DEF Wrote, Missed
  <2>2. At(j, "apply") /\ exec[j].plan \in [Runtimes -> Plans]
    BY <1>2, <2>1
  <2>3. CASE q = r
    BY <2>1, <2>2, <2>3
  <2>4. CASE q # r
    <3>1. exec'[j].plan[r] = exec[j].plan[r]
      BY <2>1, <2>2, <2>4
    <3> QED BY <1>4, <2>2, <3>1
  <2> QED BY <2>3, <2>4
<1>6. CASE GoesOn(j)
  BY <1>4, <1>6 DEF GoesOn, AppliedPcs, At
<1> QED BY <1>1, <1>3, <1>5, <1>6 DEF PlanStep, LosesVectors

LEMMA RestStep ==
  ASSUME TypeOK, [Next]_vars
  PROVE  (PlanOK => RestOK') /\ ChildStep
<1>t. ParentOK /\ JobsOK /\ ExecOK /\ FixOK /\ RestOK
  BY TypeParts
<1>b. MaxJobs \in Nat /\ MaxRevision \in Nat /\ MaxCalls \in Nat /\ MaxFaults \in Nat
  BY BoundsAssumption
<1>n. Nothing \in [Runtimes -> 0..MaxRevision]
  BY NothingTypes
<1>1. ASSUME NEW kind \in Kinds, Ask(kind) PROVE ((PlanOK => RestOK') /\ ChildStep)
  <2>1. /\ calls' = [calls EXCEPT ![kind] = calls[kind] + 1]
        /\ calls["sync"] + calls["delete"] < MaxCalls
    BY <1>1 DEF Ask
  <2>2. calls["sync"] \in Nat /\ calls["delete"] \in Nat /\ kind \in {"sync", "delete"}
    BY <1>t, <1>b DEF RestOK, Kinds
  <2>3. calls[kind] + 1 \in 0..MaxCalls
    BY <1>b, <2>1, <2>2
  <2> QED BY <1>1, <1>t, <2>1, <2>3 DEF Ask, RestOK, ChildStep
<1>2. ASSUME NEW kind \in Kinds, Submit(kind) PROVE ((PlanOK => RestOK') /\ ChildStep)
  <2>1. calls' = [calls EXCEPT ![kind] = calls[kind] - 1] /\ calls[kind] > 0
    BY <1>2 DEF Submit
  <2>2. calls[kind] - 1 \in 0..MaxCalls
    BY <1>t, <1>b, <2>1 DEF RestOK
  <2> QED BY <1>2, <1>t, <2>1, <2>2 DEF Submit, RestOK, ChildStep
<1>3. ASSUME NEW j \in Jobs, Start(j) PROVE ((PlanOK => RestOK') /\ ChildStep)
  BY <1>3, <1>t, <1>b DEF Start, At, Stays, RestOK, ChildStep
<1>4. ASSUME NEW j \in Jobs, Discover(j) PROVE ((PlanOK => RestOK') /\ ChildStep)
  BY <1>4, <1>t, <1>b DEF Discover, At, Stays, RestOK, ChildStep
<1>5. ASSUME NEW j \in Jobs, Bookkeeping(j) PROVE ((PlanOK => RestOK') /\ ChildStep)
  BY <1>5, <1>t, <1>b DEF Bookkeeping, At, Stays, RestOK, ChildStep
<1>6. ASSUME NEW j \in Jobs, NEW r \in Runtimes, Apply(j, r) PROVE ((PlanOK => RestOK') /\ ChildStep)
  <2>1. /\ exec'[j].pc = "apply" /\ exec'[j].plan = [exec[j].plan EXCEPT ![r] = "written"]
        /\ exec'[j].found = exec[j].found /\ exec'[j].noted = exec[j].noted
    BY <1>6, <1>t, WriteShape DEF Apply, At, Plans
  <2>2. Wrote(j)
    BY <1>6, <2>1 DEF Apply, Wrote
  <2>3. ASSUME PlanOK PROVE child' \in [Runtimes -> 0..MaxRevision]
    <3>1. exec[j].plan[r] \in {"create", "update", "delete"}
      BY <1>6 DEF Apply, Due
    <3>2. exec[j].found[r] \in 0..MaxRevision
      BY <1>6, <2>3, <3>1 DEF Apply, PlanOK
    <3> QED BY <1>6, <1>t, <3>2 DEF Apply, RestOK
  <2> QED BY <1>6, <1>t, <2>2, <2>3 DEF Apply, Stays, RestOK, ChildStep
<1>7. ASSUME NEW j \in Jobs, Vectors(j) PROVE ((PlanOK => RestOK') /\ ChildStep)
  BY <1>7, <1>t, <1>b DEF Vectors, At, Stays, RestOK, ChildStep
<1>8. ASSUME NEW j \in Jobs, AssertOwned(j) PROVE ((PlanOK => RestOK') /\ ChildStep)
  BY <1>8, <1>t, <1>b DEF AssertOwned, At, Stays, RestOK, ChildStep
<1>9. ASSUME NEW j \in Jobs, FinalizeParent(j) PROVE ((PlanOK => RestOK') /\ ChildStep)
  BY <1>9, <1>t, <1>b DEF FinalizeParent, At, Stays, RestOK, ChildStep
<1>10. ASSUME NEW j \in Jobs, FailParent(j) PROVE ((PlanOK => RestOK') /\ ChildStep)
  BY <1>10, <1>t, <1>b DEF FailParent, At, Stays, RestOK, ChildStep
<1>11. ASSUME NEW j \in Jobs, FinalizeJob(j) PROVE ((PlanOK => RestOK') /\ ChildStep)
  BY <1>11, <1>t, <1>b DEF FinalizeJob, At, Stays, RestOK, ChildStep
<1>12. ASSUME NEW j \in Jobs, MarkSyncing(j) PROVE ((PlanOK => RestOK') /\ ChildStep)
  BY <1>12, <1>t, <1>b DEF MarkSyncing, At, Stays, RestOK, ChildStep
<1>13. ASSUME NEW j \in Jobs, DeleteTransaction(j) PROVE ((PlanOK => RestOK') /\ ChildStep)
  <2>1. /\ \/ child' = child
           \/ child' = Nothing /\ parent.status = "deleting"
        /\ UNCHANGED <<calls, mishaps, stalled>>
    BY <1>13 DEF DeleteTransaction, Deletes, Stays
  <2> QED BY <1>t, <1>b, <1>n, <2>1 DEF RestOK, ChildStep
<1>14. ASSUME NEW j \in Jobs, Restore(j) PROVE ((PlanOK => RestOK') /\ ChildStep)
  BY <1>14, <1>t, <1>b DEF Restore, At, Stays, RestOK, ChildStep
<1>15. ASSUME NEW j \in Jobs, Escaped(j) PROVE ((PlanOK => RestOK') /\ ChildStep)
  BY <1>15, <1>t, <1>b DEF Escaped, At, Stays, RestOK, ChildStep
<1>16. ASSUME NEW j \in Jobs, LeaseLost(j) PROVE ((PlanOK => RestOK') /\ ChildStep)
  BY <1>16, <1>t, <1>b DEF LeaseLost, Stays, RestOK, ChildStep
<1>17. ASSUME NEW j \in Jobs, NEW r \in Runtimes, ApplyFails(j, r) PROVE ((PlanOK => RestOK') /\ ChildStep)
  BY <1>17, <1>t, <1>b DEF ApplyFails, At, Stays, RestOK, ChildStep
<1>33. ASSUME NEW j \in Jobs, Applied(j) PROVE ((PlanOK => RestOK') /\ ChildStep)
  BY <1>33, <1>t, <1>b DEF Applied, At, Stays, RestOK, ChildStep
<1>34. ASSUME NEW j \in Jobs, VectorsFail(j) PROVE ((PlanOK => RestOK') /\ ChildStep)
  BY <1>34, <1>t, <1>b DEF VectorsFail, Fault, At, RestOK, ChildStep
<1>18. ASSUME NEW j \in Jobs, StepFails(j) PROVE ((PlanOK => RestOK') /\ ChildStep)
  BY <1>18, <1>t, <1>b DEF StepFails, Fault, At, RestOK, ChildStep
<1>19. ASSUME NEW j \in Jobs, Cancel(j) PROVE ((PlanOK => RestOK') /\ ChildStep)
  BY <1>19, <1>t, <1>b DEF Cancel, Fault, RestOK, ChildStep
<1>20. ASSUME NEW j \in Jobs, Stop(j) PROVE ((PlanOK => RestOK') /\ ChildStep)
  BY <1>20, <1>t, <1>b DEF Stop, Stays, RestOK, ChildStep
<1>21. ASSUME NEW j \in Jobs, Expire(j) PROVE ((PlanOK => RestOK') /\ ChildStep)
  BY <1>21, <1>t, <1>b DEF Expire, Fault, RestOK, ChildStep
<1>22. ASSUME NEW j \in Jobs, AgeJob(j) PROVE ((PlanOK => RestOK') /\ ChildStep)
  BY <1>22, <1>t, <1>b DEF AgeJob, Stays, RestOK, ChildStep
<1>23. ASSUME NEW w \in Reapers \cup Jobs, ReadParent(w) PROVE ((PlanOK => RestOK') /\ ChildStep)
  BY <1>23, <1>t, <1>b DEF ReadParent, Stays, RestOK, ChildStep
<1>24. ASSUME NEW w \in Reapers \cup Jobs, RepairParent(w) PROVE ((PlanOK => RestOK') /\ ChildStep)
  BY <1>24, <1>t, <1>b DEF RepairParent, Stays, RestOK, ChildStep
<1>25. ASSUME NEW r \in Reapers, Reap(r) PROVE ((PlanOK => RestOK') /\ ChildStep)
  BY <1>25, <1>t, <1>b DEF Reap, Stays, RestOK, ChildStep
<1>26. ASSUME NEW r \in Reapers, ScanParents(r) PROVE ((PlanOK => RestOK') /\ ChildStep)
  BY <1>26, <1>t, <1>b DEF ScanParents, Stays, RestOK, ChildStep
<1>27. ASSUME NEW r \in Reapers, ScanJobs(r) PROVE ((PlanOK => RestOK') /\ ChildStep)
  BY <1>27, <1>t, <1>b DEF ScanJobs, Stays, RestOK, ChildStep
<1>28. ASSUME NEW w \in Reapers \cup Jobs, RepairFails(w) PROVE ((PlanOK => RestOK') /\ ChildStep)
  BY <1>28, <1>t, <1>b DEF RepairFails, Fault, RestOK, ChildStep
<1>29. ASSUME NEW w \in Reapers \cup Jobs, Crash(w) PROVE ((PlanOK => RestOK') /\ ChildStep)
  BY <1>29, <1>t, <1>b DEF Crash, Fault, At, RestOK, ChildStep
<1>30. CASE Touch
  BY <1>30, <1>t, <1>b DEF Touch, Fault, RestOK, ChildStep
<1>31. CASE AgeParent
  BY <1>31, <1>t, <1>b DEF AgeParent, Stays, RestOK, ChildStep
<1>32. CASE UNCHANGED vars
  BY <1>32, <1>t, <1>b DEF vars, RestOK, ChildStep
<1>. QED
  BY <1>1, <1>2, <1>3, <1>4, <1>5, <1>6, <1>7, <1>8, <1>9, <1>10, <1>11, <1>12, <1>13,
     <1>14, <1>15, <1>16, <1>17, <1>18, <1>19, <1>20, <1>21, <1>22, <1>23, <1>24, <1>25,
     <1>26, <1>27, <1>28, <1>29, <1>30, <1>31, <1>32, <1>33, <1>34 DEF Next, Execute, ReaperStep, Repair

FixStep(w) ==
  \/ fix'[w] = fix[w] \/ fix'[w].pc \in {"idle", "scanned"}
  \/ /\ fix'[w].pc = "read" /\ fix'[w].job \in Jobs
     /\ LET j == fix'[w].job
        IN  \/ exec[j].hook /\ exec'[j].pc = "done"
            \/ Live(j) /\ JobEnds(j, "failed") /\ exec'[j].pc = "done"
            \/ Unfinished(j) /\ ~jobs[j].live /\ JobEnds(j, "failed") /\ UNCHANGED <<exec, stalled>>
            \/ /\ j \in Created /\ jobs[j].old /\ ~ \E i \in Jobs : Live(i)
               /\ UNCHANGED <<jobs, exec, stalled>>
  \/ fix'[w].pc = "fail" /\ fix[w].pc = "read" /\ fix'[w].job = fix[w].job
  \/ fix'[w].pc = "restore" /\ fix[w].pc = "read" /\ fix'[w].owner \in {NoJob, fix[w].job}

LEMMA RepairsStep ==
  ASSUME TypeOK, [Next]_vars, NEW v \in Reapers \cup Jobs
  PROVE  FixOK' /\ FixStep(v)
<1>t. ParentOK /\ JobsOK /\ ExecOK /\ FixOK /\ RestOK
  BY TypeParts
<1>b. Jobs \subseteq 0..MaxJobs /\ NoJob \in 0..MaxJobs
  BY BoundsAssumption DEF Jobs, NoJob
<1>v. UNCHANGED fix => FixOK' /\ FixStep(v)
  BY <1>t DEF FixOK, FixStep
<1>l. ASSUME NEW w \in Reapers \cup Jobs, Leaves(w) PROVE FixOK' /\ FixStep(v)
  BY <1>t, <1>l, <1>b, FixShape, RepairShapes DEF Leaves, FixOK, FixStep
<1>r. ASSUME NEW w \in Reapers \cup Jobs, NEW j \in Jobs,
             fix' = [fix EXCEPT ![w] = [NoRepair EXCEPT !.pc = "read", !.job = j]],
             \/ exec[j].hook /\ exec'[j].pc = "done"
             \/ Live(j) /\ JobEnds(j, "failed") /\ exec'[j].pc = "done"
             \/ Unfinished(j) /\ ~jobs[j].live /\ JobEnds(j, "failed") /\ UNCHANGED <<exec, stalled>>
      PROVE  FixOK' /\ FixStep(v)
  <2>1. PICK rec \in Repairs : rec = [NoRepair EXCEPT !.pc = "read", !.job = j]
    BY <1>b, RepairShapes, Zenon
  <2>2. rec.pc = "read" /\ rec.job = j
    BY <1>b, <2>1, RepairShapes, Zenon
  <2>3. fix' = [fix EXCEPT ![w] = rec]
    BY <1>r, <2>1, Zenon
  <2>4. FixOK' /\ fix'[w] = rec /\ \A u \in (Reapers \cup Jobs) \ {w} : fix'[u] = fix[u]
    BY <1>t, <2>3, FixShape DEF FixOK
  <2>5. CASE v = w
    BY <1>r, <2>2, <2>4, <2>5, Zenon DEF FixStep
  <2>6. CASE v # w
    BY <2>4, <2>6 DEF FixStep
  <2> QED BY <2>4, <2>5, <2>6
<1>o. ASSUME NEW j \in Jobs, Over(j) PROVE FixOK' /\ FixStep(v)
  <2>1. exec'[j].pc = "done"
    BY <1>o, <1>t, HaltShape DEF Over
  <2>2. CASE exec[j].hook
    BY <1>o, <1>r, <2>1, <2>2 DEF Over
  <2>3. CASE ~exec[j].hook
    BY <1>o, <1>v, <2>3 DEF Over
  <2> QED BY <2>2, <2>3
<1>1. ASSUME NEW kind \in Kinds, Ask(kind) PROVE (FixOK' /\ FixStep(v))
  BY <1>v, <1>1 DEF Ask
<1>2. ASSUME NEW kind \in Kinds, Submit(kind) PROVE (FixOK' /\ FixStep(v))
  BY <1>v, <1>2 DEF Submit
<1>3. ASSUME NEW j \in Jobs, Start(j) PROVE (FixOK' /\ FixStep(v))
  BY <1>v, <1>3 DEF Start, Stays
<1>4. ASSUME NEW j \in Jobs, Discover(j) PROVE (FixOK' /\ FixStep(v))
  BY <1>v, <1>4 DEF Discover, Stays
<1>5. ASSUME NEW j \in Jobs, Bookkeeping(j) PROVE (FixOK' /\ FixStep(v))
  BY <1>v, <1>5 DEF Bookkeeping, Stays
<1>6. ASSUME NEW j \in Jobs, NEW r \in Runtimes, Apply(j, r) PROVE (FixOK' /\ FixStep(v))
  BY <1>v, <1>6 DEF Apply, Stays
<1>7. ASSUME NEW j \in Jobs, Vectors(j) PROVE (FixOK' /\ FixStep(v))
  BY <1>v, <1>7 DEF Vectors, Stays
<1>8. ASSUME NEW j \in Jobs, AssertOwned(j) PROVE (FixOK' /\ FixStep(v))
  BY <1>v, <1>8 DEF AssertOwned, Stays
<1>9. ASSUME NEW j \in Jobs, FinalizeParent(j) PROVE (FixOK' /\ FixStep(v))
  BY <1>v, <1>9 DEF FinalizeParent, Stays
<1>10. ASSUME NEW j \in Jobs, FailParent(j) PROVE (FixOK' /\ FixStep(v))
  BY <1>v, <1>10 DEF FailParent, Stays
<1>11. ASSUME NEW j \in Jobs, FinalizeJob(j) PROVE (FixOK' /\ FixStep(v))
  BY <1>11, <1>o DEF FinalizeJob
<1>12. ASSUME NEW j \in Jobs, MarkSyncing(j) PROVE (FixOK' /\ FixStep(v))
  BY <1>v, <1>12 DEF MarkSyncing, Stays
<1>13. ASSUME NEW j \in Jobs, DeleteTransaction(j) PROVE (FixOK' /\ FixStep(v))
  BY <1>v, <1>13 DEF DeleteTransaction, Stays
<1>14. ASSUME NEW j \in Jobs, Restore(j) PROVE (FixOK' /\ FixStep(v))
  BY <1>v, <1>14 DEF Restore, Stays
<1>15. ASSUME NEW j \in Jobs, Escaped(j) PROVE (FixOK' /\ FixStep(v))
  <2>1. exec'[j].pc = "done"
    BY <1>15, <1>t, HaltShape DEF Escaped
  <2>2. CASE Live(j)
    BY <1>15, <1>r, <2>1, <2>2 DEF Escaped
  <2>3. CASE ~Live(j)
    BY <1>15, <1>v, <2>3 DEF Escaped
  <2> QED BY <2>2, <2>3
<1>16. ASSUME NEW j \in Jobs, LeaseLost(j) PROVE (FixOK' /\ FixStep(v))
  BY <1>16, <1>o DEF LeaseLost
<1>17. ASSUME NEW j \in Jobs, NEW r \in Runtimes, ApplyFails(j, r) PROVE (FixOK' /\ FixStep(v))
  BY <1>v, <1>17 DEF ApplyFails, Stays
<1>33. ASSUME NEW j \in Jobs, Applied(j) PROVE (FixOK' /\ FixStep(v))
  BY <1>v, <1>33 DEF Applied, Stays
<1>34. ASSUME NEW j \in Jobs, VectorsFail(j) PROVE (FixOK' /\ FixStep(v))
  BY <1>v, <1>34 DEF VectorsFail
<1>18. ASSUME NEW j \in Jobs, StepFails(j) PROVE (FixOK' /\ FixStep(v))
  BY <1>v, <1>18 DEF StepFails
<1>19. ASSUME NEW j \in Jobs, Cancel(j) PROVE (FixOK' /\ FixStep(v))
  BY <1>v, <1>19 DEF Cancel
<1>20. ASSUME NEW j \in Jobs, Stop(j) PROVE (FixOK' /\ FixStep(v))
  BY <1>20, <1>o DEF Stop
<1>21. ASSUME NEW j \in Jobs, Expire(j) PROVE (FixOK' /\ FixStep(v))
  BY <1>v, <1>21 DEF Expire
<1>22. ASSUME NEW j \in Jobs, AgeJob(j) PROVE (FixOK' /\ FixStep(v))
  BY <1>v, <1>22 DEF AgeJob, Stays
<1>23. ASSUME NEW w \in Reapers \cup Jobs, ReadParent(w) PROVE (FixOK' /\ FixStep(v))
  <2>0. /\ fix[w].pc = "read" /\ fix[w].job \in 0..MaxJobs /\ parent.owner \in 0..MaxJobs
    BY <1>23, <1>t DEF ReadParent, Repairing, FixOK, Repairs, ParentOK, Parents
  <2>1. CASE parent.status = "deleting" /\ Restores(w)
    <3>1. PICK rec \in Repairs : rec = [NoRepair EXCEPT !.pc = "restore", !.owner = parent.owner]
      BY <2>0, RepairShapes, Zenon
    <3>2. rec.pc = "restore" /\ rec.owner = parent.owner
      BY <2>0, <3>1, RepairShapes, Zenon
    <3>3. fix' = [fix EXCEPT ![w] = rec] /\ parent.owner \in {NoJob, fix[w].job}
      BY <1>23, <2>1, <3>1 DEF ReadParent, Restores
    <3> QED BY <1>t, <2>0, <3>2, <3>3, FixShape DEF FixOK, FixStep
  <2>2. CASE /\ ~(parent.status = "deleting" /\ Restores(w))
             /\ parent.status = "active" /\ parent.sync \in InFlight
    <3>1. PICK rec \in Repairs : rec = [NoRepair EXCEPT !.pc = "fail", !.job = fix[w].job]
      BY <2>0, RepairShapes, Zenon
    <3>2. rec.pc = "fail" /\ rec.job = fix[w].job
      BY <2>0, <3>1, RepairShapes, Zenon
    <3>3. fix' = [fix EXCEPT ![w] = rec]
      BY <1>23, <2>2, <3>1 DEF ReadParent
    <3> QED BY <1>t, <2>0, <3>2, <3>3, FixShape DEF FixOK, FixStep
  <2>3. CASE /\ ~(parent.status = "deleting" /\ Restores(w))
             /\ ~(parent.status = "active" /\ parent.sync \in InFlight)
    BY <1>23, <2>3, <1>l DEF ReadParent, Leaves
  <2> QED BY <2>1, <2>2, <2>3
<1>24. ASSUME NEW w \in Reapers \cup Jobs, RepairParent(w) PROVE (FixOK' /\ FixStep(v))
  BY <1>24, <1>l DEF RepairParent
<1>25. ASSUME NEW r \in Reapers, Reap(r) PROVE (FixOK' /\ FixStep(v))
  BY <1>25, <1>r DEF Reap, Stays
<1>26. ASSUME NEW r \in Reapers, ScanParents(r) PROVE (FixOK' /\ FixStep(v))
  <2>1. parent.owner \in 0..MaxJobs
    BY <1>t DEF ParentOK, Parents
  <2>2. PICK rec \in Repairs :
          rec = [NoRepair EXCEPT !.pc = "scanned", !.scan = TRUE, !.owner = parent.owner]
    BY <2>1, RepairShapes, Zenon
  <2>3. rec.pc = "scanned"
    BY <2>1, <2>2, RepairShapes, Zenon
  <2>4. fix' = [fix EXCEPT ![r] = rec]
    BY <1>26, <2>2, Zenon DEF ScanParents
  <2> QED BY <1>t, <2>3, <2>4, FixShape DEF FixOK, FixStep
<1>27. ASSUME NEW r \in Reapers, ScanJobs(r) PROVE (FixOK' /\ FixStep(v))
  <2>1. CASE Leaves(r)
    BY <1>l, <2>1
  <2>2. CASE ~Leaves(r)
    <3>1. PICK j \in Jobs : /\ ~ \E i \in Jobs : Live(i)
                            /\ j \in Created /\ jobs[j].old
                            /\ fix' = [fix EXCEPT ![r].pc = "read", ![r].job = j]
      BY <1>27, <2>2 DEF ScanJobs, Recent, Documents
    <3>2. UNCHANGED <<jobs, exec, stalled>>
      BY <1>27 DEF ScanJobs, Stays
    <3>3. /\ FixOK' /\ fix'[r].pc = "read" /\ fix'[r].job = j
          /\ \A u \in (Reapers \cup Jobs) \ {r} : fix'[u] = fix[u]
      BY <1>t, <3>1, ScannedShape DEF FixOK
    <3>4. CASE v = r
      BY <3>1, <3>2, <3>3, <3>4 DEF FixStep
    <3>5. CASE v # r
      BY <3>3, <3>5 DEF FixStep
    <3> QED BY <3>3, <3>4, <3>5
  <2> QED BY <2>1, <2>2
<1>28. ASSUME NEW w \in Reapers \cup Jobs, RepairFails(w) PROVE (FixOK' /\ FixStep(v))
  BY <1>28, <1>l DEF RepairFails
<1>29. ASSUME NEW w \in Reapers \cup Jobs, Crash(w) PROVE (FixOK' /\ FixStep(v))
  BY <1>29, <1>l DEF Crash
<1>30. CASE Touch
  BY <1>v, <1>30 DEF Touch
<1>31. CASE AgeParent
  BY <1>v, <1>31 DEF AgeParent, Stays
<1>32. CASE UNCHANGED vars
  BY <1>v, <1>32 DEF vars
<1>. QED
  BY <1>1, <1>2, <1>3, <1>4, <1>5, <1>6, <1>7, <1>8, <1>9, <1>10, <1>11, <1>12, <1>13,
     <1>14, <1>15, <1>16, <1>17, <1>18, <1>19, <1>20, <1>21, <1>22, <1>23, <1>24, <1>25,
     <1>26, <1>27, <1>28, <1>29, <1>30, <1>31, <1>32, <1>33, <1>34 DEF Next, Execute, ReaperStep, Repair

-----------------------------------------------------------------------------
(* Types *)

(* Every reachable state has the declared types. *)
THEOREM TypeCorrect == Spec => []TypeOK
<1>b. /\ MaxJobs \in Nat /\ MaxCalls \in Nat /\ MaxRevision \in Nat /\ MaxFaults \in Nat
      /\ 1 \in Jobs
  BY BoundsAssumption DEF Jobs
<1>1. Init => TypeOK /\ PlanOK
  <2> SUFFICES ASSUME Init PROVE TypeOK /\ PlanOK
    OBVIOUS
  <2>1. ParentOK
    BY <1>b, NothingTypes DEF Init, ParentOK, Parents, NoJob, Startable
  <2>2. JobsOK
    BY DEF Init, JobsOK, JobRecords, Kinds
  <2>3. ExecOK
    BY <1>b, NothingTypes DEF Init, ExecOK, Executions, NoExecution
  <2>4. FixOK
    BY <1>b DEF Init, FixOK, Repairs, NoRepair, NoJob
  <2>5. RestOK
    BY <1>b, NothingTypes DEF Init, RestOK
  <2>6. PlanOK
    BY DEF Init, PlanOK, At, NoExecution
  <2> QED BY <2>1, <2>2, <2>3, <2>4, <2>5, <2>6, TypeParts
<1>2. TypeOK /\ PlanOK /\ [Next]_vars => TypeOK' /\ PlanOK'
  <2> SUFFICES ASSUME TypeOK, PlanOK, [Next]_vars PROVE TypeOK' /\ PlanOK'
    BY Zenon
  <2>1. ParentOK' /\ RestOK' /\ JobsOK' /\ ExecOK' /\ FixOK'
    BY <1>b, ParentsStep, RestStep, JobsStep, ExecsStep, RepairsStep
  <2> QED BY <2>1, PlanOKStep DEF TypeOK, ParentOK, JobsOK, ExecOK, FixOK, RestOK
<1> QED BY <1>1, <1>2, PTL DEF Spec

-----------------------------------------------------------------------------
(* Whose the parent is *)

(* An execution stays within its kind, a job that was failed by a shutdown *)
(* is not live, and nobody repairs the parent of a live job.               *)
PcFits ==
  \A j \in Jobs :
    /\ Running(j) => j \in Created
    /\ exec[j].pc \in SyncPcs => jobs[j].kind = "sync"
    /\ exec[j].pc \in DeletePcs => jobs[j].kind = "delete"
    /\ exec[j].hook => j \in Created /\ ~jobs[j].live
    /\ At(j, "job") /\ jobs[j].kind = "sync" => exec[j].told # "nothing"
Past(j) == j \in Created /\ ~jobs[j].live
RepairFits ==
  \A w \in Reapers \cup Jobs :
    /\ fix[w].pc \in {"read", "fail"} => Past(fix[w].job)
    /\ fix[w].pc = "restore" => fix[w].owner = NoJob \/ Past(fix[w].owner)
Charge == PcFits /\ RepairFits /\ LiveJobOwnsParent

LEMMA BeginsAlone ==
  ASSUME NEW i \in Jobs, NEW j \in Jobs, Begins(i), Begins(j)
  PROVE  i = j
<1>1. i \notin Created /\ j \notin Created
  BY DEF Begins
<1>2. ~(i < j) /\ ~(j < i)
  BY <1>1 DEF Begins
<1> QED BY <1>2, BoundsAssumption DEF Jobs

(* What a created job does to its parent and to itself. *)
LEMMA BegunFields ==
  ASSUME TypeOK, NEW i \in Jobs, Begins(i)
  PROVE  /\ exec'[i].pc = "start" /\ exec'[i].hook = exec[i].hook
         /\ exec'[i].told = exec[i].told
         /\ \A j \in Jobs \ {i} : exec'[j] = exec[j]
         /\ parent.status = "active" /\ parent.sync \in Startable /\ parent'.sync = "pending"
         /\ jobs'[i].kind = "sync" => /\ parent'.status = "active" /\ parent'.last = i
         /\ jobs'[i].kind # "sync" => /\ parent'.status = "deleting" /\ parent'.owner = i
<1>t. ParentOK /\ ExecOK
  BY TypeParts
<1>1. exec' = [exec EXCEPT ![i].pc = "start"] /\ "start" \in Pcs
  BY DEF Begins, Pcs, Unfenced
<1>2. /\ exec'[i].pc = "start" /\ exec'[i].hook = exec[i].hook
      /\ exec'[i].told = exec[i].told
      /\ \A j \in Jobs \ {i} : exec'[j] = exec[j]
  BY <1>t, <1>1, GotoShape
<1>3. /\ parent.status = "active" /\ parent.sync \in Startable /\ parent'.sync = "pending"
      /\ jobs'[i].kind = "sync" => /\ parent'.status = "active" /\ parent'.last = i
      /\ jobs'[i].kind # "sync" => /\ parent'.status = "deleting" /\ parent'.owner = i
  BY <1>t DEF Begins, Admits, ParentOK, Parents
<1> QED BY <1>2, <1>3

LEMMA PcFitsStep ==
  ASSUME TypeOK, PcFits, [Next]_vars
  PROVE  PcFits'
<1> SUFFICES ASSUME NEW j \in Jobs
             PROVE  /\ Running(j)' => (j \in Created)'
                    /\ exec'[j].pc \in SyncPcs => jobs'[j].kind = "sync"
                    /\ exec'[j].pc \in DeletePcs => jobs'[j].kind = "delete"
                    /\ exec'[j].hook => (j \in Created)' /\ ~jobs'[j].live
                    /\ exec'[j].pc = "job" /\ jobs'[j].kind = "sync"
                         => exec'[j].told # "nothing"
  BY DEF PcFits, At, SyncPcs, DeletePcs, Running
<1>1. JobStep(j) /\ PcStep(j) /\ OutcomeStep(j)
  BY JobsStep, ExecsStep
<1>2. /\ Running(j) => j \in Created
      /\ exec[j].pc \in SyncPcs => jobs[j].kind = "sync"
      /\ exec[j].pc \in DeletePcs => jobs[j].kind = "delete"
      /\ exec[j].hook => j \in Created /\ ~jobs[j].live
      /\ exec[j].pc = "job" /\ jobs[j].kind = "sync" => exec[j].told # "nothing"
  BY DEF PcFits, At
<1>s. /\ SyncPcs \cup DeletePcs \cup {"start", "job"} \subseteq Unfenced \cup Fenced
      /\ "start" \notin SyncPcs \cup DeletePcs /\ "delete" \in DeletePcs
  BY DEF Unfenced, Fenced, SyncPcs, DeletePcs
<1>3. CASE Begins(j)
  <2>1. exec'[j].pc = "start" /\ exec'[j].hook = exec[j].hook
    BY <1>3, BegunFields
  <2>2. j \notin Created /\ jobs'[j].status = "pending"
    BY <1>3 DEF Begins
  <2> QED BY <1>2, <1>s, <2>1, <2>2 DEF Created
<1>4. CASE ~Begins(j)
  <2>1. j \in Created => (j \in Created)' /\ jobs'[j].kind = jobs[j].kind
    BY <1>1 DEF JobStep, Created
  <2>2. Running(j)' => Running(j)
    BY <1>1, <1>4 DEF PcStep, Running
  <2>3. Running(j)' => (j \in Created)' /\ jobs'[j].kind = jobs[j].kind
    BY <1>2, <2>1, <2>2
  <2>4. exec'[j].pc \in SyncPcs => jobs'[j].kind = "sync"
    BY <1>1, <1>2, <1>s, <2>3 DEF PcStep, Running
  <2>5. exec'[j].pc \in DeletePcs => jobs'[j].kind = "delete"
    BY <1>1, <1>2, <1>s, <2>3 DEF PcStep, Running, At
  <2>6. exec'[j].hook => (j \in Created)' /\ ~jobs'[j].live
    BY <1>1, <1>2, <1>4, <2>1 DEF PcStep, JobStep
  <2>7. exec'[j].pc = "job" /\ jobs'[j].kind = "sync" => exec'[j].told # "nothing"
    BY <1>1, <1>2, <1>s, <2>3, TypeParts, OutcomeTypes DEF OutcomeStep, Running, At
  <2> QED BY <2>3, <2>4, <2>5, <2>6, <2>7
<1> QED BY <1>3, <1>4

(* The same, after the step. *)
WillBePast(j) == j \in Jobs /\ jobs'[j].status # "unborn" /\ ~jobs'[j].live

LEMMA PastStays ==
  ASSUME TypeOK, [Next]_vars, NEW j, Past(j)
  PROVE  WillBePast(j)
<1>1. j \in Jobs /\ j \in Created
  BY DEF Past, Created
<1>2. JobStep(j) /\ ~Begins(j)
  BY <1>1, JobsStep DEF Begins
<1> QED BY <1>1, <1>2 DEF JobStep, Past, WillBePast

LEMMA RepairFitsStep ==
  ASSUME TypeOK, PcFits, RepairFits, [Next]_vars
  PROVE  RepairFits'
<1> SUFFICES ASSUME NEW w \in Reapers \cup Jobs
             PROVE  /\ fix'[w].pc \in {"read", "fail"} => WillBePast(fix'[w].job)
                    /\ fix'[w].pc = "restore" => fix'[w].owner = NoJob \/ WillBePast(fix'[w].owner)
  BY DEF RepairFits, Past, WillBePast, Created
<1>1. FixStep(w)
  BY RepairsStep
<1>2. /\ fix[w].pc \in {"read", "fail"} => Past(fix[w].job)
      /\ fix[w].pc = "restore" => fix[w].owner = NoJob \/ Past(fix[w].owner)
  BY DEF RepairFits
<1>3. CASE fix'[w] = fix[w] \/ fix'[w].pc \in {"idle", "scanned"}
  BY <1>2, <1>3, PastStays
<1>4. CASE fix'[w].pc = "fail" /\ fix[w].pc = "read" /\ fix'[w].job = fix[w].job
  BY <1>2, <1>4, PastStays
<1>5. CASE /\ fix'[w].pc = "restore" /\ fix[w].pc = "read"
           /\ fix'[w].owner \in {NoJob, fix[w].job}
  BY <1>2, <1>5, PastStays
<1>6. ASSUME fix'[w].pc = "read", NEW j \in Jobs, fix'[w].job = j,
             \/ exec[j].hook /\ exec'[j].pc = "done"
             \/ Unfinished(j) /\ JobEnds(j, "failed")
             \/ j \in Created /\ ~Live(j) /\ jobs[j].old /\ UNCHANGED jobs
      PROVE  WillBePast(j)
  <2>1. CASE exec[j].hook
    BY <2>1, PastStays DEF PcFits, Past, Created
  <2>2. CASE Unfinished(j) /\ JobEnds(j, "failed")
    BY <2>2, TypeParts, JobEndsShape DEF WillBePast, Created, Unfinished, InFlight
  <2>3. CASE j \in Created /\ ~Live(j) /\ UNCHANGED jobs
    <3>1. ~jobs[j].live
      BY <2>3, TypeParts DEF JobsOK, Live, Unfinished
    <3> QED BY <2>3, <3>1 DEF WillBePast, Created
  <2> QED BY <1>6, <2>1, <2>2, <2>3
<1> QED BY <1>1, <1>3, <1>4, <1>5, <1>6 DEF FixStep, Live

LEMMA OwnsStep ==
  ASSUME TypeOK, Charge, [Next]_vars
  PROVE  LiveJobOwnsParent'
<1> SUFFICES ASSUME NEW j \in Jobs, InCharge(j)'
             PROVE  /\ parent'.sync \in InFlight
                    /\ jobs'[j].kind = "sync" => parent'.status = "active" /\ parent'.last = j
                    /\ jobs'[j].kind = "delete" => parent'.status = "deleting" /\ parent'.owner = j
  BY DEF LiveJobOwnsParent
<1>t. ParentOK /\ JobsOK /\ ExecOK
  BY TypeParts
<1>1. JobStep(j) /\ PcStep(j) /\ OutcomeStep(j) /\ ParentStep
  BY JobsStep, ExecsStep, ParentsStep
<1>2. CASE Begins(j)
  BY <1>2, BegunFields DEF InFlight
<1>3. CASE ~Begins(j)
  <2>1. InCharge(j) /\ j \in Created /\ jobs'[j].kind = jobs[j].kind /\ jobs[j].live
    <3>1. Live(j) /\ j \in Created
      BY <1>1, <1>3 DEF JobStep, InCharge, Live, Unfinished, InFlight, Created
    <3>2. ~Reported(j)
      BY <1>1, <1>3 DEF PcStep, PcFits, Charge, InCharge
    <3> QED BY <1>1, <3>1, <3>2 DEF InCharge, JobStep, Live
  <2>2. /\ parent.sync \in InFlight
        /\ jobs[j].kind = "sync" => parent.status = "active" /\ parent.last = j
        /\ jobs[j].kind = "delete" => parent.status = "deleting" /\ parent.owner = j
    BY <2>1 DEF Charge, LiveJobOwnsParent
  <2>3. jobs[j].kind \in {"sync", "delete"} /\ j # NoJob /\ ~Past(j)
    BY <1>t, <2>1 DEF JobsOK, JobRecords, Kinds, Jobs, NoJob, Past
  <2>4. ~Reported(j)'
    BY DEF InCharge
  <2>5. ASSUME NEW b \in BOOLEAN, parent' = [parent EXCEPT !.old = b]
        PROVE  /\ parent'.sync = parent.sync /\ parent'.status = parent.status
               /\ parent'.last = parent.last /\ parent'.owner = parent.owner
    BY <1>t, <2>5 DEF ParentOK, Parents
  <2>6. ASSUME NEW i \in Jobs, Begins(i) PROVE FALSE
    BY <2>2, <2>6, BegunFields DEF InFlight, Startable
  <2>7. ASSUME parent' = [parent EXCEPT !.sync = "syncing", !.old = FALSE]
        PROVE  /\ parent'.sync \in InFlight /\ parent'.status = parent.status
               /\ parent'.last = parent.last /\ parent'.owner = parent.owner
    BY <1>t, <2>7 DEF ParentOK, Parents, InFlight
  <2>8. ASSUME NEW i \in 0..MaxJobs, OwnsParent(i),
               \/ exec'[i].pc \in {"job", "failJob"}
               \/ \E w \in Reapers \cup Jobs : fix[w].pc = "fail" /\ fix[w].job = i
        PROVE  FALSE
    <3>1. i = j
      BY <2>2, <2>3, <2>8 DEF OwnsParent
    <3>2. exec'[i].pc \notin {"job", "failJob"}
      BY <2>4, <3>1 DEF Reported
    <3>3. ASSUME NEW w \in Reapers \cup Jobs, fix[w].pc = "fail", fix[w].job = i PROVE FALSE
      BY <2>3, <3>1, <3>3 DEF Charge, RepairFits
    <3> QED BY <2>8, <3>2, <3>3
  <2>9. ASSUME NEW i \in 0..MaxJobs, Deletes(i),
               \/ exec'[i].pc \in {"job", "failJob"}
               \/ \E w \in Reapers \cup Jobs : fix[w].pc = "restore" /\ fix[w].owner = i
        PROVE  FALSE
    <3>1. i = j
      BY <2>2, <2>3, <2>9 DEF Deletes
    <3>2. exec'[i].pc \notin {"job", "failJob"}
      BY <2>4, <3>1 DEF Reported
    <3>3. ASSUME NEW w \in Reapers \cup Jobs, fix[w].pc = "restore", fix[w].owner = i PROVE FALSE
      BY <2>3, <3>1, <3>3 DEF Charge, RepairFits
    <3> QED BY <2>9, <3>2, <3>3
  <2>10. Jobs \subseteq 0..MaxJobs
    BY BoundsAssumption DEF Jobs
  <2> QED BY <1>1, <2>1, <2>2, <2>5, <2>6, <2>7, <2>8, <2>9, <2>10, Zenon DEF ParentStep
<1> QED BY <1>2, <1>3

LEMMA ChargeInvariant == Spec => [](TypeOK /\ Charge)
<1>1. Init => Charge
  <2> SUFFICES ASSUME Init PROVE Charge
    OBVIOUS
  <2>1. \A j \in Jobs : exec[j] = NoExecution /\ ~jobs[j].live /\ jobs[j].status = "unborn"
    BY DEF Init
  <2>2. \A w \in Reapers \cup Jobs : fix[w].pc = "idle"
    BY DEF Init, NoRepair
  <2>3. PcFits
    BY <2>1 DEF PcFits, NoExecution, Running, Unfenced, Fenced, SyncPcs, DeletePcs, At
  <2>4. LiveJobOwnsParent
    BY <2>1 DEF LiveJobOwnsParent, InCharge, Live
  <2> QED BY <2>2, <2>3, <2>4 DEF Charge, RepairFits
<1>2. TypeOK /\ Charge /\ [Next]_vars => Charge'
  <2> SUFFICES ASSUME TypeOK, Charge, [Next]_vars PROVE Charge'
    OBVIOUS
  <2>1. PcFits' /\ RepairFits' /\ LiveJobOwnsParent'
    BY PcFitsStep, RepairFitsStep, OwnsStep DEF Charge
  <2> QED BY <2>1 DEF Charge
<1> QED BY <1>1, <1>2, TypeCorrect, PTL DEF Spec

(* While a job is live and has not reported, the parent is its own. *)
THEOREM LiveJobOwns == Spec => []LiveJobOwnsParent
<1>1. Charge => LiveJobOwnsParent
  BY DEF Charge
<1> QED BY <1>1, ChargeInvariant, PTL

-----------------------------------------------------------------------------
(* What a successful job has reported *)

Later(j) == \E i \in Created : i > j
SuccessFits ==
  /\ parent.status = "deleting" => parent.sync = "pending"
  /\ \A j \in Jobs : At(j, "job") =>
       /\ jobs[j].kind = "delete" => parent.status = "deleted"
       /\ jobs[j].kind = "sync" /\ Live(j) /\ exec[j].told # "failed"
            => (parent.sync = "success" /\ parent.last = j) \/ Later(j)

(* What a step leaves of the parent, field by field.                       *)
LEMMA ParentFields ==
  ASSUME TypeOK, [Next]_vars
  PROVE  \/ /\ parent'.sync = parent.sync /\ parent'.status = parent.status
            /\ parent'.last = parent.last /\ parent'.report = parent.report
         \/ \E j \in Jobs : Begins(j)
         \/ \E j \in Jobs :
              /\ At(j, "book") /\ parent.status = "active" /\ parent.last = j
              /\ parent'.status = "active" /\ parent'.last = j /\ parent'.sync = "syncing"
         \/ \E j \in 0..MaxJobs :
              /\ OwnsParent(j)
              /\ parent'.status = "active" /\ parent'.last = j
              /\ \/ parent'.sync = "failed"
                 \/ /\ parent'.sync = "success" /\ j \in Jobs
                    /\ At(j, "parent") /\ Outcome(j) = "success" /\ exec'[j].pc = "job"
                    /\ parent'.report = Report(j)
              /\ \/ j \in Jobs /\ exec[j].pc \in {"parent", "failParent"}
                    /\ exec'[j].pc \in {"job", "failJob"}
                 \/ \E w \in Reapers \cup Jobs : fix[w].pc = "fail" /\ fix[w].job = j
         \/ /\ parent.status = "deleting" /\ parent'.status = "deleted" /\ child' = Nothing
            /\ parent'.sync = parent.sync /\ parent'.last = parent.last
         \/ /\ parent.status = "deleting" /\ parent'.status = "active"
            /\ parent'.sync = "failed" /\ parent'.last = parent.last
<1>1. ParentStep /\ parent \in Parents
  BY ParentsStep, TypeParts DEF ParentOK
<1>2. ASSUME NEW b \in BOOLEAN, parent' = [parent EXCEPT !.old = b]
      PROVE  /\ parent'.sync = parent.sync /\ parent'.status = parent.status
             /\ parent'.last = parent.last /\ parent'.report = parent.report
  BY <1>1, <1>2 DEF Parents
<1>3. ASSUME NEW s \in Syncs, parent' = [parent EXCEPT !.sync = s, !.old = FALSE]
      PROVE  parent'.sync = s /\ parent'.status = parent.status /\ parent'.last = parent.last
  BY <1>1, <1>3 DEF Parents
<1>12. ASSUME NEW s \in Syncs, NEW rep \in Reports,
              parent' = [parent EXCEPT !.sync = s, !.report = rep, !.old = FALSE]
       PROVE  /\ parent'.sync = s /\ parent'.status = parent.status /\ parent'.last = parent.last
              /\ parent'.report = rep
  BY <1>1, <1>12 DEF Parents
<1>4. ASSUME parent' = [parent EXCEPT !.status = "deleted"]
      PROVE  /\ parent'.sync = parent.sync /\ parent'.status = "deleted"
             /\ parent'.last = parent.last
  BY <1>1, <1>4 DEF Parents
<1>5. ASSUME parent' = [parent EXCEPT !.status = "active", !.sync = "failed", !.owner = NoJob,
                                      !.old = FALSE]
      PROVE  parent'.sync = "failed" /\ parent'.status = "active" /\ parent'.last = parent.last
  BY <1>1, <1>5 DEF Parents
<1>6. {"syncing", "failed", "success"} \subseteq Syncs
  BY DEF Syncs, InFlight, Startable
<1>7. ASSUME NEW j \in 0..MaxJobs, NEW s \in {"success", "failed"}, NEW rep \in Reports,
             OwnsParent(j), parent' = [parent EXCEPT !.sync = s, !.report = rep, !.old = FALSE]
      PROVE  /\ parent'.status = "active" /\ parent'.last = j /\ parent'.sync = s
             /\ parent'.report = rep
  BY <1>12, <1>6, <1>7 DEF OwnsParent
<1>8. ASSUME NEW j \in Jobs, At(j, "book"), parent.status = "active", parent.last = j,
             parent' = [parent EXCEPT !.sync = "syncing", !.old = FALSE]
      PROVE  parent'.status = "active" /\ parent'.last = j /\ parent'.sync = "syncing"
  BY <1>3, <1>6, <1>8
<1>9. ASSUME NEW j \in 0..MaxJobs, NEW s \in {"success", "failed"}, NEW rep \in Reports,
             OwnsParent(j), parent' = [parent EXCEPT !.sync = s, !.report = rep, !.old = FALSE],
             \/ /\ j \in Jobs /\ At(j, "parent") /\ exec'[j].pc = "job"
                /\ s = Outcome(j) /\ rep = Report(j)
             \/ j \in Jobs /\ At(j, "failParent") /\ exec'[j].pc = "failJob" /\ s = "failed"
             \/ s = "failed" /\ \E w \in Reapers \cup Jobs : fix[w].pc = "fail" /\ fix[w].job = j
      PROVE  /\ OwnsParent(j)
             /\ parent'.status = "active" /\ parent'.last = j
             /\ \/ parent'.sync = "failed"
                \/ /\ parent'.sync = "success" /\ j \in Jobs
                   /\ At(j, "parent") /\ Outcome(j) = "success" /\ exec'[j].pc = "job"
                   /\ parent'.report = Report(j)
             /\ \/ j \in Jobs /\ exec[j].pc \in {"parent", "failParent"}
                   /\ exec'[j].pc \in {"job", "failJob"}
                \/ \E w \in Reapers \cup Jobs : fix[w].pc = "fail" /\ fix[w].job = j
  BY <1>7, <1>9 DEF At
<1>10. ASSUME NEW j \in 0..MaxJobs, Deletes(j) PROVE parent.status = "deleting"
  BY <1>10 DEF Deletes
<1>11. Jobs \subseteq 0..MaxJobs
  BY BoundsAssumption DEF Jobs
<1>13. CASE \E j \in 0..MaxJobs, s \in {"success", "failed"}, rep \in Reports :
             /\ OwnsParent(j) /\ parent' = [parent EXCEPT !.sync = s, !.report = rep, !.old = FALSE]
             /\ \/ /\ j \in Jobs /\ At(j, "parent") /\ exec'[j].pc = "job"
                   /\ s = Outcome(j) /\ rep = Report(j)
                \/ j \in Jobs /\ At(j, "failParent") /\ exec'[j].pc = "failJob" /\ s = "failed"
                \/ s = "failed" /\ \E w \in Reapers \cup Jobs : fix[w].pc = "fail" /\ fix[w].job = j
  <2>1. PICK j \in 0..MaxJobs, s \in {"success", "failed"}, rep \in Reports :
          /\ OwnsParent(j) /\ parent' = [parent EXCEPT !.sync = s, !.report = rep, !.old = FALSE]
          /\ \/ /\ j \in Jobs /\ At(j, "parent") /\ exec'[j].pc = "job"
                /\ s = Outcome(j) /\ rep = Report(j)
             \/ j \in Jobs /\ At(j, "failParent") /\ exec'[j].pc = "failJob" /\ s = "failed"
             \/ s = "failed" /\ \E w \in Reapers \cup Jobs : fix[w].pc = "fail" /\ fix[w].job = j
    BY <1>13
  <2>2. /\ OwnsParent(j)
        /\ parent'.status = "active" /\ parent'.last = j
        /\ \/ parent'.sync = "failed"
           \/ /\ parent'.sync = "success" /\ j \in Jobs
              /\ At(j, "parent") /\ Outcome(j) = "success" /\ exec'[j].pc = "job"
              /\ parent'.report = Report(j)
        /\ \/ j \in Jobs /\ exec[j].pc \in {"parent", "failParent"}
              /\ exec'[j].pc \in {"job", "failJob"}
           \/ \E w \in Reapers \cup Jobs : fix[w].pc = "fail" /\ fix[w].job = j
    BY <1>9, <2>1
  <2> QED BY <2>2, Zenon
<1>14. CASE parent' = parent
  BY <1>14
<1> QED BY <1>1, <1>2, <1>4, <1>5, <1>8, <1>10, <1>11, <1>13, <1>14, Zenon DEF ParentStep

LEMMA SuccessFitsStep ==
  ASSUME TypeOK, Charge, Charge', SuccessFits, [Next]_vars
  PROVE  SuccessFits'
<1>t. parent \in Parents
  BY TypeParts DEF ParentOK
<1>1. ASSUME parent'.status = "deleting" PROVE parent'.sync = "pending"
  <2>1. ASSUME NEW j \in Jobs, Begins(j) PROVE parent'.sync = "pending"
    BY <2>1, BegunFields
  <2>2. parent.status = "deleting" => parent.sync = "pending"
    BY DEF SuccessFits
  <2> QED BY <1>1, <2>1, <2>2, ParentFields
<1>2. ASSUME NEW j \in Jobs, exec'[j].pc = "job", jobs'[j].kind = "delete"
      PROVE  parent'.status = "deleted"
  <2>1. OutcomeStep(j) /\ JobStep(j)
    BY ExecsStep, JobsStep
  <2>2. exec[j].pc = "job" \/ (exec[j].pc = "parent" /\ UNCHANGED jobs) \/ parent'.status = "deleted"
    BY <1>2, <2>1 DEF OutcomeStep, At
  <2>3. exec[j].pc \in {"job", "parent"} => j \in Created
    BY DEF Charge, PcFits, Running, Unfenced, Fenced
  <2>4. exec[j].pc = "parent" => jobs[j].kind = "sync"
    BY DEF Charge, PcFits, SyncPcs
  <2>5. CASE exec[j].pc = "job"
    <3>1. jobs[j].kind = "delete"
      BY <1>2, <2>1, <2>3, <2>5 DEF JobStep
    <3>2. parent.status = "deleted"
      BY <2>5, <3>1 DEF SuccessFits, At
    <3>3. ASSUME NEW h \in Jobs, Begins(h) PROVE FALSE
      BY <3>2, <3>3, BegunFields
    <3> QED BY <3>2, <3>3, ParentFields DEF OwnsParent
  <2> QED BY <1>2, <2>2, <2>4, <2>5
<1>3. ASSUME NEW j \in Jobs, exec'[j].pc = "job", jobs'[j].kind = "sync", Live(j)',
             exec'[j].told # "failed"
      PROVE  (parent'.sync = "success" /\ parent'.last = j) \/ Later(j)'
  <2>1. OutcomeStep(j) /\ JobStep(j)
    BY ExecsStep, JobsStep
  <2>2. Later(j) => Later(j)'
    <3>1. ASSUME NEW i \in Jobs, i \in Created PROVE jobs'[i].status # "unborn"
      BY <3>1, JobsStep DEF JobStep
    <3> QED BY <3>1 DEF Later, Created
  <2>b. ~Begins(j)
    <3>1. CASE Begins(j)
      BY <1>3, <3>1, BegunFields
    <3> QED BY <3>1
  <2>3. Live(j)
    BY <1>3, <2>1, <2>b DEF Live, JobStep, Unfinished, InFlight
  <2>k. j \in Created /\ jobs[j].kind = "sync"
    BY <1>3, <2>1, <2>3 DEF JobStep, Live, Unfinished, InFlight, Created
  <2>n. ASSUME NEW i \in Jobs, Begins(i) PROVE Later(j)'
    <3>1. i # j /\ j < i
      BY <2>n, <2>k DEF Begins
    <3>2. jobs'[i].status # "unborn"
      BY <2>n DEF Begins
    <3> QED BY <3>1, <3>2 DEF Later, Created, Jobs
  <2>4. CASE At(j, "job") /\ exec'[j].told = exec[j].told
    <3>1. (parent.sync = "success" /\ parent.last = j) \/ Later(j)
      BY <1>3, <2>3, <2>4, <2>k DEF SuccessFits
    <3>2. CASE parent.sync = "success" /\ parent.last = j
      <4>1. parent.status # "deleting"
        BY <3>2 DEF SuccessFits
      <4>2. ASSUME NEW i \in Jobs, At(i, "book"), parent.last = i PROVE FALSE
        BY <2>4, <3>2, <4>2 DEF At
      <4> QED BY <2>n, <3>2, <4>1, <4>2, ParentFields DEF OwnsParent, InFlight
    <3> QED BY <2>2, <3>1, <3>2
  <2>5. CASE /\ At(j, "parent") /\ exec'[j].told = Outcome(j)
             /\ Synced(j, Outcome(j), Report(j))
    <3>1. InCharge(j)
      BY <2>3, <2>5 DEF InCharge, Reported, At
    <3>2. OwnsParent(j)
      BY <2>k, <3>1 DEF Charge, LiveJobOwnsParent, OwnsParent
    <3>3. Outcome(j) = "success" /\ Report(j) \in Reports
      BY <1>3, <2>5, TypeParts, OutcomeTypes
    <3>4. /\ parent' = [parent EXCEPT !.sync = "success", !.report = Report(j), !.old = FALSE]
          /\ parent.last = j
      BY <2>5, <3>2, <3>3 DEF Synced, OwnsParent
    <3> QED BY <1>t, <3>4 DEF Parents
  <2>6. CASE At(j, "delete")
    BY <2>6, <2>k DEF Charge, PcFits, DeletePcs, At
  <2> QED BY <1>3, <2>1, <2>4, <2>5, <2>6 DEF OutcomeStep
<1> QED BY <1>1, <1>2, <1>3 DEF SuccessFits, At

LEMMA SuccessFitsInvariant == Spec => []SuccessFits
<1>1. Init => SuccessFits
  BY DEF Init, SuccessFits, At, NoExecution
<1>2. TypeOK /\ Charge /\ Charge' /\ SuccessFits /\ [Next]_vars => SuccessFits'
  BY SuccessFitsStep
<1> QED BY <1>1, <1>2, ChargeInvariant, PTL DEF Spec

(* A job is successful only after its parent is. *)
THEOREM JobSuccessReported == Spec => JobSuccessIsReported
<1>1. ASSUME TypeOK, Charge, SuccessFits, [Next]_vars, NEW j \in Jobs,
             jobs[j].status # "success", jobs'[j].status = "success"
      PROVE  IF jobs[j].kind = "delete" THEN parent.status = "deleted"
               ELSE (parent.sync = "success" /\ parent.last = j) \/ \E i \in Created : i > j
  <2>1. At(j, "job") /\ Live(j) /\ exec[j].told # "failed"
    BY <1>1, JobsStep DEF JobStep
  <2>2. jobs[j].kind \in {"sync", "delete"}
    BY <1>1, TypeParts DEF JobsOK, JobRecords, Kinds
  <2> QED BY <1>1, <2>1, <2>2 DEF SuccessFits, Later
<1>2. TypeOK /\ Charge /\ SuccessFits /\ [Next]_vars
        => [\A j \in Jobs : jobs[j].status # "success" /\ jobs'[j].status = "success" =>
              IF jobs[j].kind = "delete" THEN parent.status = "deleted"
                ELSE (parent.sync = "success" /\ parent.last = j) \/ \E i \in Created : i > j]_vars
  BY <1>1
<1> QED BY <1>2, ChargeInvariant, SuccessFitsInvariant, PTL DEF Spec, JobSuccessIsReported

-----------------------------------------------------------------------------
(* Children, as long as nobody goes on without its lease *)

(* An execution that still runs has a live job, or one that a shutdown has *)
(* failed and nobody repairs yet; and while it applies its plan the parent *)
(* is in flight and its own.                                               *)
RunFits ==
  \A j \in Jobs : Running(j) =>
    /\ Unfinished(j) => jobs[j].live
    /\ ~jobs[j].old
    /\ \A w \in Reapers \cup Jobs : fix[w].pc \in {"read", "fail"} => fix[w].job # j
    /\ At(j, "apply") => OwnsParent(j)

(* What is in MongoDB is what the sync found, but for what it could not    *)
(* read or did not take, and for what has failed.                          *)
Fits(j, r) ==
  CASE exec[j].plan[r] = "none" ->
         \/ child[r] = exec[j].found[r]
         \/ exec[j].found[r] \in {Refused, Unread}
         \/ exec[j].noted /\ exec[j].found[r] = Absent
    [] exec[j].plan[r] = "delete" -> exec[j].found[r] = Absent
    [] exec[j].plan[r] = "written" -> child[r] = exec[j].found[r]
    [] exec[j].plan[r] = "failed" -> exec[j].noted
    [] OTHER -> TRUE
PlanFits ==
  \A j \in Jobs, r \in Runtimes :
    exec[j].pc \in {"apply"} \cup AppliedPcs /\ OwnsParent(j) =>
      /\ Fits(j, r)
      /\ At(j, "apply") \/ exec[j].plan[r] \in {"none", "written", "failed"}

(* A report is so of the children there are. *)
IsSo(report, children) ==
  /\ report.imported <=
       Cardinality({r \in Runtimes : report.found[r] \in Revisions /\ children[r] = report.found[r]})
  /\ report.whole =>
       \A r \in Runtimes : report.found[r] = Unread \/ children[r] = report.found[r]
ParentFits ==
  /\ parent.status = "deleted" => child = Nothing
  /\ parent.status = "active" /\ parent.sync = "success" => IsSo(parent.report, child)
Punctual == stalled = {} => RunFits /\ PlanFits /\ ParentFits

LEMMA RunFitsStep ==
  ASSUME TypeOK, Charge, SuccessFits, RunFits, [Next]_vars, stalled = {}, stalled' = {}
  PROVE  RunFits'
<1> SUFFICES ASSUME NEW j \in Jobs, exec'[j].pc \in Unfenced \cup Fenced
             PROVE  /\ jobs'[j].status \in InFlight => jobs'[j].live
                    /\ ~jobs'[j].old
                    /\ \A w \in Reapers \cup Jobs :
                         fix'[w].pc \in {"read", "fail"} => fix'[w].job # j
                    /\ exec'[j].pc = "apply" => OwnsParent(j)'
  BY DEF RunFits, Running, Unfinished, At
<1>1. JobStep(j) /\ PcStep(j) /\ OutcomeStep(j)
  BY JobsStep, ExecsStep
<1>p. exec'[j].pc \notin {"escaped", "done"}
  BY DEF Unfenced, Fenced
<1>2. CASE Begins(j)
  <2>1. /\ jobs'[j].live /\ ~jobs'[j].old /\ UNCHANGED fix /\ j \notin Created
        /\ exec'[j].pc = "start"
    BY <1>2, BegunFields DEF Begins
  <2> QED BY <2>1 DEF Charge, RepairFits, Past
<1>3. CASE ~Begins(j)
  <2>1. Running(j)
    BY <1>1, <1>3 DEF PcStep
  <2>2. /\ Unfinished(j) => jobs[j].live
        /\ ~jobs[j].old
        /\ \A w \in Reapers \cup Jobs : fix[w].pc \in {"read", "fail"} => fix[w].job # j
        /\ At(j, "apply") => OwnsParent(j)
    BY <2>1 DEF RunFits
  <2>3. jobs'[j].status \in InFlight => jobs'[j].live
    BY <1>1, <1>3, <1>p, <2>2 DEF JobStep
  <2>4. ~jobs'[j].old
    BY <1>1, <2>1, <2>2 DEF JobStep
  <2>5. ASSUME NEW w \in Reapers \cup Jobs, fix'[w].pc \in {"read", "fail"}, fix'[w].job = j
        PROVE  FALSE
    <3>1. FixStep(w)
      BY RepairsStep
    <3>2. CASE fix'[w] = fix[w] \/ (fix[w].pc = "read" /\ fix'[w].job = fix[w].job)
      BY <2>2, <2>5, <3>2
    <3>3. CASE exec'[j].pc = "done"
      BY <1>p, <3>3
    <3>4. CASE Unfinished(j) /\ ~jobs[j].live
      BY <2>2, <3>4
    <3>5. CASE jobs[j].old
      BY <2>2, <3>5
    <3> QED BY <2>5, <3>1, <3>2, <3>3, <3>4, <3>5 DEF FixStep
  <2>6. ASSUME exec'[j].pc = "apply" PROVE OwnsParent(j)'
    <3>1. CASE At(j, "apply")
      <4>1. OwnsParent(j)
        BY <2>2, <3>1
      <4>2. ASSUME NEW i \in Jobs, Begins(i) PROVE FALSE
        BY <4>1, <4>2, BegunFields DEF OwnsParent, InFlight, Startable
      <4>3. exec[j].pc = "apply"
        BY <3>1 DEF At
      <4> QED BY <2>2, <4>1, <4>2, <4>3, ParentFields DEF OwnsParent, At
    <3>2. CASE Booked(j)
      <4>1. parent \in Parents
        BY TypeParts DEF ParentOK
      <4> QED BY <3>2, <4>1 DEF Booked, OwnsParent, Parents, InFlight
    <3>3. At(j, "apply") \/ Booked(j)
      <4>1. PlanStep(j)
        BY <1>1, <2>6 DEF OutcomeStep
      <4> QED BY <2>6, <4>1 DEF PlanStep, Wrote, Missed, LosesVectors, GoesOn, AppliedPcs, At
    <3> QED BY <3>1, <3>2, <3>3
  <2> QED BY <2>3, <2>4, <2>5, <2>6
<1> QED BY <1>2, <1>3

(* The parent was its own before, if it is now and has a plan applied.     *)
LEMMA OwnedBefore ==
  ASSUME TypeOK, [Next]_vars, NEW j \in Jobs, exec'[j].pc \in {"apply"} \cup AppliedPcs,
         ~Booked(j), OwnsParent(j)'
  PROVE  OwnsParent(j)
<1>1. OutcomeStep(j)
  BY ExecsStep
<1>2. exec'[j].pc # "start" /\ exec[j].pc # "book"
  BY <1>1 DEF OutcomeStep, PlanStep, Wrote, Missed, LosesVectors, GoesOn, AppliedPcs, At
<1>3. parent'.status = "active" /\ parent'.sync \in InFlight /\ parent'.last = j
  BY DEF OwnsParent
<1>4. ASSUME NEW i \in Jobs, Begins(i) PROVE FALSE
  <2>1. CASE jobs'[i].kind = "sync"
    BY <1>2, <1>3, <1>4, <2>1, BegunFields
  <2>2. CASE jobs'[i].kind # "sync"
    BY <1>3, <1>4, <2>2, BegunFields
  <2> QED BY <2>1, <2>2
<1> QED BY <1>2, <1>3, <1>4, ParentFields DEF OwnsParent, At, InFlight

(* Only the execution whose parent is in flight changes a child.           *)
LEMMA ChildFields ==
  ASSUME TypeOK, [Next]_vars, RunFits
  PROVE  \/ child' = child
         \/ \E i \in Jobs : OwnsParent(i) /\ Wrote(i)
         \/ child' = Nothing /\ parent.status = "deleting"
<1>1. ASSUME NEW i \in Jobs, At(i, "apply") PROVE OwnsParent(i)
  BY <1>1 DEF RunFits, Running, At, Unfenced
<1> QED BY <1>1, RestStep DEF ChildStep, Wrote

LEMMA PlanFitsStep ==
  ASSUME TypeOK, RunFits, PlanFits, [Next]_vars
  PROVE  PlanFits'
<1> SUFFICES ASSUME NEW j \in Jobs, NEW r \in Runtimes,
                    exec'[j].pc \in {"apply"} \cup AppliedPcs, OwnsParent(j)'
             PROVE  /\ Fits(j, r)'
                    /\ exec'[j].pc = "apply" \/ exec'[j].plan[r] \in {"none", "written", "failed"}
  BY DEF PlanFits, At
<1>1. exec'[j].found = exec[j].found /\ PlanStep(j)
  BY ExecsStep DEF OutcomeStep
<1>t. /\ exec[j].plan \in [Runtimes -> Plans] /\ exec[j].noted \in BOOLEAN
      /\ exec'[j].noted \in BOOLEAN /\ child \in [Runtimes -> 0..MaxRevision]
      /\ exec[j].found[r] \in Found
  BY ExecsStep, TypeParts DEF ExecOK, Executions, RestOK
<1>2. CASE Booked(j)
  BY <1>1, <1>2 DEF Booked, Fits, Plan, At
<1>3. CASE ~Booked(j)
  <2>1. OwnsParent(j)
    BY <1>3, OwnedBefore
  <2>2. exec[j].pc \in {"apply"} \cup AppliedPcs
    BY <1>1, <1>3 DEF PlanStep, Wrote, Missed, LosesVectors, GoesOn, AppliedPcs, At
  <2>3. Fits(j, r) /\ (exec[j].pc = "apply" \/ exec[j].plan[r] \in {"none", "written", "failed"})
    BY <2>1, <2>2 DEF PlanFits, At
  <2>4. CASE Wrote(j)
    <3>1. PICK q \in Runtimes : /\ child' = [child EXCEPT ![q] = exec[j].found[q]]
                                /\ exec'[j].plan = [exec[j].plan EXCEPT ![q] = "written"]
      BY <2>4 DEF Wrote
    <3>2. exec'[j].pc = "apply" /\ exec'[j].noted = exec[j].noted
      BY <2>4 DEF Wrote
    <3>3. CASE q = r
      BY <1>1, <1>t, <3>1, <3>2, <3>3 DEF Fits
    <3>4. CASE q # r
      <4>1. child'[r] = child[r] /\ exec'[j].plan[r] = exec[j].plan[r]
        BY <1>t, <3>1, <3>4
      <4> QED BY <1>1, <2>3, <3>2, <4>1 DEF Fits
    <3> QED BY <3>3, <3>4
  <2>5. CASE ~Wrote(j)
    <3>1. child' = child
      BY <2>1, <2>5, ChildFields DEF OwnsParent
    <3>2. CASE Missed(j)
      <4>1. PICK q \in Runtimes :
              exec'[j].plan = [exec[j].plan EXCEPT
                                 ![q] = IF exec[j].plan[q] = "delete" THEN "none" ELSE "failed"]
        BY <3>2 DEF Missed
      <4>2. exec'[j].pc = "apply" /\ exec'[j].noted
        BY <3>2 DEF Missed
      <4>3. CASE q = r
        <5>1. exec'[j].plan[r] = IF exec[j].plan[r] = "delete" THEN "none" ELSE "failed"
          BY <1>t, <4>1, <4>3
        <5> QED BY <1>1, <2>3, <4>2, <5>1 DEF Fits
      <4>4. CASE q # r
        <5>1. exec'[j].plan[r] = exec[j].plan[r]
          BY <1>t, <4>1, <4>4
        <5> QED BY <1>1, <2>3, <3>1, <4>2, <5>1 DEF Fits
      <4> QED BY <4>3, <4>4
    <3>3. CASE LosesVectors(j)
      <4>1. /\ exec'[j].plan[r] = exec[j].plan[r] \/ exec'[j].plan[r] = "failed"
            /\ exec[j].pc # "apply" /\ exec'[j].noted
        BY <3>3 DEF LosesVectors, At
      <4> QED BY <1>1, <2>3, <3>1, <4>1 DEF Fits
    <3>4. CASE GoesOn(j)
      <4>1. Fits(j, r)'
        BY <1>1, <2>3, <3>1, <3>4 DEF GoesOn, Fits
      <4>2. exec'[j].plan[r] = exec[j].plan[r]
        BY <3>4 DEF GoesOn
      <4>3. CASE exec[j].pc = "apply" /\ exec'[j].pc # "apply"
        <5>1. ~ \E q \in Runtimes : Due(j, q)
          BY <3>4, <4>3 DEF GoesOn, AppliedPcs
        <5>2. exec[j].plan[r] \notin {"delete", "create", "update"}
          BY <5>1 DEF Due, Left
        <5> QED BY <1>t, <4>1, <4>2, <5>2 DEF Plans
      <4> QED BY <2>3, <4>1, <4>2, <4>3
    <3> QED BY <1>1, <1>3, <2>5, <3>2, <3>3, <3>4 DEF PlanStep
  <2> QED BY <2>4, <2>5
<1> QED BY <1>2, <1>3

(* What is counted as imported is there, and there is nothing else when    *)
(* nothing was noted and all that was listed is counted.                   *)
LEMMA ReportIsSo ==
  ASSUME TypeOK, PlanFits, NEW j \in Jobs, At(j, "parent"), OwnsParent(j), Outcome(j) = "success"
  PROVE  IsSo(Report(j), child)
<1> DEFINE found == exec[j].found
           F == {r \in Runtimes : found[r] \in Revisions}
           X == {r \in Runtimes : exec[j].plan[r] = "failed"}
           A == {r \in Runtimes : found[r] \in Revisions /\ child[r] = found[r]}
<1>1. \A r \in Runtimes : Fits(j, r) /\ exec[j].plan[r] \in {"none", "written", "failed"}
  BY DEF PlanFits, AppliedPcs, At
<1>r. /\ Report(j).found = found /\ Report(j).imported = Imported(j)
      /\ Report(j).whole = (~exec[j].noted /\ Cardinality(Listed(found)) = Imported(j))
  BY DEF Report
<1>2. /\ IsFiniteSet(F) /\ IsFiniteSet(X) /\ IsFiniteSet(A) /\ IsFiniteSet(Listed(found))
  <2>1. /\ F \in SUBSET Runtimes /\ X \in SUBSET Runtimes /\ A \in SUBSET Runtimes
        /\ Listed(found) \in SUBSET Runtimes
    BY DEF Listed
  <2> HIDE DEF F, X, A
  <2> QED BY <2>1, RuntimesAssumption, FS_Subset
<1>3. /\ Cardinality(F) \in Nat /\ Cardinality(X) \in Nat /\ Cardinality(A) \in Nat
      /\ Cardinality(Listed(found)) \in Nat
  <2> HIDE DEF F, X, A
  <2> QED BY <1>2, FS_CardinalityType
<1>4. Imported(j) = Cardinality(F) - Cardinality(X)
  BY DEF Imported
<1>5. F \in SUBSET (A \cup X)
  <2> SUFFICES ASSUME NEW r \in Runtimes, found[r] \in Revisions, exec[j].plan[r] # "failed"
               PROVE  child[r] = found[r]
    OBVIOUS
  <2>1. found[r] \notin {Absent, Refused, Unread}
    BY DEF Revisions, Absent, Refused, Unread
  <2> QED BY <1>1, <2>1 DEF Fits
<1>6. Cardinality(F) - Cardinality(X) <= Cardinality(A)
  <2> HIDE DEF F, X, A
  <2>1. /\ IsFiniteSet(A \cup X)
        /\ Cardinality(A \cup X) = Cardinality(A) + Cardinality(X) - Cardinality(A \cap X)
    BY <1>2, FS_Union
  <2>2. Cardinality(A \cap X) \in Nat
    BY <1>2, FS_Intersection, FS_CardinalityType
  <2>3. Cardinality(F) <= Cardinality(A \cup X)
    BY <1>5, <2>1, FS_Subset
  <2> QED BY <1>3, <2>1, <2>2, <2>3
<1>7. ASSUME Report(j).whole, NEW r \in Runtimes PROVE found[r] = Unread \/ child[r] = found[r]
  <2>1. ~exec[j].noted /\ Cardinality(Listed(found)) = Cardinality(F) - Cardinality(X)
    BY <1>7, <1>r, <1>4
  <2>2. F \in SUBSET Listed(found)
    BY DEF Listed
  <2>3. Listed(found) = F
    <3> HIDE DEF F, X, A
    <3>1. Cardinality(F) <= Cardinality(Listed(found))
      BY <1>2, <2>2, FS_Subset
    <3>2. Cardinality(Listed(found)) = Cardinality(F)
      BY <1>3, <2>1, <3>1
    <3> QED BY <1>2, <2>2, <3>2, FS_Subset
  <2>4. found[r] # Refused
    BY <2>3 DEF Listed, Revisions, Refused
  <2> QED BY <1>1, <2>1, <2>4 DEF Fits
<1> HIDE DEF F, X
<1> QED BY <1>r, <1>4, <1>6, <1>7 DEF IsSo

LEMMA ParentFitsStep ==
  ASSUME TypeOK, SuccessFits, RunFits, PlanFits, ParentFits, [Next]_vars
  PROVE  ParentFits'
<1>n. ASSUME NEW i \in Jobs, Begins(i)
      PROVE  parent'.status # "deleted" /\ parent'.sync # "success"
  <2>1. CASE jobs'[i].kind = "sync"
    BY <1>n, <2>1, BegunFields
  <2>2. CASE jobs'[i].kind # "sync"
    BY <1>n, <2>2, BegunFields
  <2> QED BY <2>1, <2>2
<1>d. parent.status = "deleting" => parent.sync = "pending"
  BY DEF SuccessFits
<1>1. ASSUME parent'.status = "deleted" PROVE child' = Nothing
  <2>1. CASE parent.status = "deleted"
    BY <2>1, ChildFields DEF ParentFits, OwnsParent
  <2> QED BY <1>1, <1>n, <2>1, ParentFields
<1>2. ASSUME parent'.status = "active", parent'.sync = "success"
      PROVE  IsSo(parent'.report, child')
  <2>1. CASE /\ parent'.sync = parent.sync /\ parent'.status = parent.status
             /\ parent'.report = parent.report
    <3>1. child' = child
      BY <1>2, <2>1, ChildFields DEF OwnsParent, InFlight
    <3>2. IsSo(parent.report, child)
      BY <1>2, <2>1 DEF ParentFits
    <3> QED BY <2>1, <3>1, <3>2, Zenon
  <2>2. ASSUME NEW j \in Jobs, OwnsParent(j), At(j, "parent"), Outcome(j) = "success",
               parent'.report = Report(j)
        PROVE  IsSo(parent'.report, child')
    <3>1. parent.status = "active" /\ parent'.sync # parent.sync
      BY <1>2, <2>2 DEF OwnsParent, InFlight
    <3>2. child' = child
      BY <3>1, ChildFields DEF Wrote
    <3> QED BY <2>2, <3>2, ReportIsSo, Zenon
  <2> QED BY <1>2, <1>n, <1>d, <2>1, <2>2, ParentFields
<1> QED BY <1>1, <1>2 DEF ParentFits

LEMMA PunctualInvariant == Spec => []Punctual
<1>1. Init => Punctual
  <2> SUFFICES ASSUME Init PROVE RunFits /\ PlanFits /\ ParentFits
    BY DEF Punctual
  <2>1. \A j \in Jobs : exec[j].pc = "none"
    BY DEF Init, NoExecution
  <2>2. parent.sync = "idle" /\ parent.status = "active"
    BY DEF Init
  <2>3. RunFits
    BY <2>1 DEF RunFits, Running, Unfenced, Fenced
  <2>4. PlanFits
    BY <2>1 DEF PlanFits, AppliedPcs
  <2> QED BY <2>2, <2>3, <2>4 DEF ParentFits
<1>2. TypeOK /\ Charge /\ SuccessFits /\ Punctual /\ [Next]_vars => Punctual'
  <2> SUFFICES ASSUME TypeOK, Charge, SuccessFits, Punctual, [Next]_vars, stalled' = {}
               PROVE  RunFits' /\ PlanFits' /\ ParentFits'
    BY DEF Punctual
  <2>1. stalled = {}
    BY RestStep DEF ChildStep
  <2> QED BY <2>1, RunFitsStep, PlanFitsStep, ParentFitsStep DEF Punctual
<1> QED BY <1>1, <1>2, ChargeInvariant, SuccessFitsInvariant, PTL DEF Spec

(* A federation that was deleted has no child, now or later. *)
THEOREM DeletedHasNoChild == Spec => []NoOrphan
<1>1. Punctual => NoOrphan
  BY DEF Punctual, ParentFits, NoOrphan
<1> QED BY <1>1, PunctualInvariant, PTL

(* What a parent reports of a successful sync is so: it counts no more     *)
(* runtimes as imported than are there as found, and shows neither a       *)
(* message nor anything left out only when all that could be read are.     *)
THEOREM SuccessApplied == Spec => []SuccessIsApplied
<1>1. Punctual => SuccessIsApplied
  BY DEF Punctual, ParentFits, SuccessIsApplied, IsSo
<1> QED BY <1>1, PunctualInvariant, PTL
=============================================================================
