---------------------------- MODULE FederationSync ----------------------------
(***************************************************************************)
(* The jobs of a federation: manual syncs, resyncs after a changed         *)
(* configuration and deletions, the parent document that says what goes    *)
(* on, the children they create, update and delete, and the three ways a   *)
(* parent is repaired after a job that did not finish: by its executor, by *)
(* the reaper that ends the job, and by the scan for stuck federations.    *)
(*                                                                         *)
(* One federation and its remote runtimes, each written on its own, so     *)
(* that a plan may be applied in part.  A job is born leased by the pod    *)
(* that executes it and is never claimed again.  Its lease is what         *)
(* LeasedJob describes, without its calls.                                 *)
(***************************************************************************)
EXTENDS Integers, FiniteSets

CONSTANTS
  Reapers,      \* lease reapers, one on each pod
  Runtimes,     \* remote runtimes
  Listings,     \* what the provider may list
  Faults,       \* what may go wrong, of AllFaults
  MaxJobs,      \* bound: jobs
  MaxCalls,     \* bound: API calls at a time
  MaxRevision,  \* bound: revisions of a runtime
  MaxFaults     \* bound: faults

AllFaults ==
  {"crash",     \* an executor or a reaper is killed
   "lapse",     \* a heartbeat misses its deadline
   "stall",     \* an executor goes on without its lease
   "error",     \* MongoDB, the provider or Weaviate fails
   "shutdown",  \* a pod is stopped
   "touch"}     \* a plain update of the federation

Jobs == 1..MaxJobs                            \* by createdAt
NoJob == 0
Absent == 0                                   \* no runtime, no child
Refused == -1                                 \* listed, with an error or a name that is taken
Unread == -2                                  \* not listed, as it could not be read just now
Revisions == 1..MaxRevision
Found == Revisions \cup {Absent, Refused, Unread}

ASSUME RuntimesAssumption == IsFiniteSet(Runtimes)
ASSUME ListingsAssumption == Listings \subseteq [Runtimes -> Found]
ASSUME ReapersAssumption == Reapers \cap Jobs = {}
ASSUME BoundsAssumption ==
  MaxJobs \in Nat \ {0} /\ MaxRevision \in Nat \ {0} /\ MaxCalls \in Nat /\ MaxFaults \in Nat
ASSUME FaultsAssumption == Faults \subseteq AllFaults

VARIABLES
  parent,   \* the Federation
  child,    \* the revision of each runtime in MongoDB
  jobs,     \* the FederationSyncJobs
  exec,     \* the execution of each job
  calls,    \* how many calls for a sync or a deletion found no active job
  fix,      \* repairs of the parent, by reapers and executors
  mishaps,  \* faults so far
  stalled   \* history: jobs whose executor went on without the lease

vars == <<parent, child, jobs, exec, calls, fix, mishaps, stalled>>

InFlight == {"pending", "syncing"}            \* _IN_FLIGHT_SYNC_STATUSES
Startable == {"idle", "success", "failed"}    \* _STARTABLE_SYNC_STATUSES

Kinds == {"sync", "delete"}

(* What a parent tells of a successful sync: stats.importedTotal, and that *)
(* there is no message and nothing was left out.  "found" is history.      *)
Nothing == [r \in Runtimes |-> Absent]
Reports == [found : [Runtimes -> Found], imported : Int, whole : BOOLEAN]
NoReport == [found |-> Nothing, imported |-> 0, whole |-> FALSE]

Parents ==
  [status : {"active", "deleting", "deleted"}, sync : InFlight \cup Startable,
   last : 0..MaxJobs,                         \* lastSync.jobId
   owner : 0..MaxJobs,                        \* deletingJobId
   report : Reports,
   old : BOOLEAN]                             \* updatedAt is before the stuck cutoff
JobRecords ==
  [kind : Kinds, live : BOOLEAN, old : BOOLEAN,
   status : {"unborn", "pending", "syncing", "success", "failed", "removed"}]
Unfenced == {"start", "discover", "apply", "parent", "failParent", "delete", "restore"}
Fenced == {"book", "mark", "vectors", "finalize", "job", "error", "undo", "failJob"}
(* What is planned for a runtime, or became of it: a create or an update   *)
(* that failed, in MongoDB or in Weaviate, is not counted as imported.     *)
Plans == {"none", "create", "update", "delete", "written", "failed"}
Executions ==
  [pc : {"none", "escaped", "done"} \cup Unfenced \cup Fenced,
   found : [Runtimes -> Found], plan : [Runtimes -> Plans],
   noted : BOOLEAN,                           \* there are errorMessages
   told : {"nothing", "success", "failed"},   \* the outcome, on its copy of the parent
   hook : BOOLEAN]                            \* on_cancelled has failed the job
Repairs ==
  [pc : {"idle", "scanned", "read", "fail", "restore"}, job : 0..MaxJobs, scan : BOOLEAN,
   owner : 0..MaxJobs]

NoPlan == [r \in Runtimes |-> "none"]
NoExecution == [pc |-> "none", found |-> Nothing, plan |-> NoPlan, noted |-> FALSE,
                told |-> "nothing", hook |-> FALSE]
NoRepair == [pc |-> "idle", job |-> NoJob, scan |-> FALSE, owner |-> NoJob]

TypeOK ==
  /\ parent \in Parents
  /\ child \in [Runtimes -> 0..MaxRevision]
  /\ jobs \in [Jobs -> JobRecords]
  /\ exec \in [Jobs -> Executions]
  /\ calls \in [Kinds -> 0..MaxCalls]
  /\ fix \in [Reapers \cup Jobs -> Repairs]
  /\ mishaps \in 0..MaxFaults
  /\ stalled \subseteq Jobs
  /\ \A j \in Jobs : jobs[j].live => jobs[j].status \in InFlight

Init ==
  /\ parent = [status |-> "active", sync |-> "idle", last |-> NoJob, owner |-> NoJob,
               report |-> NoReport, old |-> FALSE]
  /\ child = Nothing
  /\ jobs = [j \in Jobs |-> [kind |-> "sync", live |-> FALSE, old |-> FALSE, status |-> "unborn"]]
  /\ exec = [j \in Jobs |-> NoExecution]
  /\ calls = [kind \in Kinds |-> 0]
  /\ fix = [w \in Reapers \cup Jobs |-> NoRepair]
  /\ mishaps = 0
  /\ stalled = {}

Fault(name) == name \in Faults /\ mishaps < MaxFaults /\ mishaps' = mishaps + 1

-----------------------------------------------------------------------------
(* API calls.  get_active_job is read before the transaction.  The call's  *)
(* own copy of the parent, read before, only refuses more.                 *)

Busy == parent.status = "deleting" \/ (parent.status = "active" /\ parent.sync \in InFlight)
Unfinished(j) == jobs[j].status \in InFlight
Live(j) == Unfinished(j) /\ jobs[j].live                  \* _live_active_filter
Created == {j \in Jobs : jobs[j].status # "unborn"}

Ask(kind) ==
  /\ calls["sync"] + calls["delete"] < MaxCalls
  /\ parent.status # "deleted" /\ Created # Jobs
  /\ ~ \E j \in Jobs : Live(j)
  /\ calls' = [calls EXCEPT ![kind] = @ + 1]
  /\ UNCHANGED <<parent, child, jobs, exec, fix, mishaps, stalled>>

(* Mutant: only the job is looked at, which was read before. *)
AdmitsWhileActive == parent.status = "active"
Admits == parent.status = "active" /\ parent.sync \in Startable

(* create_sync_job_and_mark_pending, update_federation_and_create_resync_  *)
(* job, start_delete: the job and the parent in one transaction            *)
Submit(kind) ==
  /\ calls[kind] > 0
  /\ calls' = [calls EXCEPT ![kind] = @ - 1]
  /\ \/ /\ Admits
        /\ \E j \in Jobs :
             /\ \A i \in Jobs : i < j <=> i \in Created
             /\ jobs' = [jobs EXCEPT ![j] = [kind |-> kind, live |-> TRUE, old |-> FALSE,
                                             status |-> "pending"]]
             /\ exec' = [exec EXCEPT ![j].pc = "start"]
             /\ parent' = IF kind = "sync"
                  THEN [parent EXCEPT !.sync = "pending", !.last = j, !.report = NoReport,
                                      !.old = FALSE]
                  ELSE [parent EXCEPT !.sync = "pending", !.status = "deleting", !.owner = j,
                                      !.report = NoReport, !.old = FALSE]
     \/ ~Admits /\ UNCHANGED <<parent, jobs, exec>>
  /\ UNCHANGED <<child, fix, mishaps, stalled>>

(* update_federation without a resync *)
Touch ==
  /\ Fault("touch")
  /\ parent.status = "active"
  /\ parent' = [parent EXCEPT !.old = FALSE]
  /\ UNCHANGED <<child, jobs, exec, calls, fix, stalled>>

-----------------------------------------------------------------------------
(* The execution of a job *)

At(j, pc) == exec[j].pc = pc
Goto(j, pc) == exec' = [exec EXCEPT ![j].pc = pc]
Stays == UNCHANGED <<calls, mishaps, stalled>>

(* The lease is gone: the execution ends, and the job is for the reaper.   *)
(* After a shutdown whose hook failed the job, the parent is repaired now. *)
Halt(j) == exec' = [exec EXCEPT ![j] = [NoExecution EXCEPT !.pc = "done"]]
Over(j) ==
  /\ Halt(j)
  /\ fix' = IF exec[j].hook THEN [fix EXCEPT ![j] = [NoRepair EXCEPT !.pc = "read", !.job = j]] ELSE fix
LeaseLost(j) ==
  /\ exec[j].pc \in Fenced /\ ~Live(j)
  /\ Over(j)
  /\ UNCHANGED <<parent, child, jobs>> /\ Stays

JobEnds(j, status) ==
  jobs' = [jobs EXCEPT ![j].status = status, ![j].live = FALSE, ![j].old = FALSE]

(* The task is refused, the gate is closed, or the job begins. *)
Start(j) ==
  /\ At(j, "start")
  /\ \/ Goto(j, "escaped")
     \/ jobs[j].kind = "sync" /\ \E pc \in {"error", "discover"} : Goto(j, pc)
     \/ jobs[j].kind = "delete" /\ Goto(j, "mark")
  /\ UNCHANGED <<parent, child, jobs, fix>> /\ Stays

Discover(j) ==
  /\ At(j, "discover")
  /\ \E found \in Listings :
       exec' = [exec EXCEPT ![j].pc = "book", ![j].found = found]
  /\ UNCHANGED <<parent, child, jobs, fix>> /\ Stays

(* What was refused or could not be read stays as it is. *)
Plan(found) == [r \in Runtimes |->
  CASE found[r] \in {child[r], Refused, Unread} -> "none"
    [] found[r] = Absent -> "delete"
    [] OTHER -> IF child[r] = Absent THEN "create" ELSE "update"]

(* _commit_bookkeeping_transaction: all of it, or nothing.  A name that    *)
(* another federation has is refused without a message.                    *)
Bookkeeping(j) ==
  /\ At(j, "book") /\ Live(j)
  /\ IF parent.status = "active" /\ parent.last = j
       THEN /\ jobs' = [jobs EXCEPT ![j].status = "syncing", ![j].old = FALSE]
            /\ parent' = [parent EXCEPT !.sync = "syncing", !.old = FALSE]
            /\ \E noted \in BOOLEAN :
                 /\ noted => \E r \in Runtimes : exec[j].found[r] = Refused
                 /\ exec' = [exec EXCEPT ![j].pc = "apply", ![j].plan = Plan(exec[j].found),
                                         ![j].noted = noted]
       ELSE Goto(j, "error") /\ UNCHANGED <<parent, jobs>>
  /\ UNCHANGED <<child, fix>> /\ Stays

(* _apply_sync_plan, without a fence: the deletions, then the inserts,     *)
(* then the updates, each phase in any order                               *)
Left(j, op) == \E r \in Runtimes : exec[j].plan[r] = op
Due(j, r) ==
  \/ exec[j].plan[r] = "delete"
  \/ exec[j].plan[r] = "create" /\ ~Left(j, "delete")
  \/ exec[j].plan[r] = "update" /\ ~Left(j, "delete") /\ ~Left(j, "create")

(* The save of an update inserts a child that was deleted meanwhile; an    *)
(* insert fails on one that is there.                                      *)
Apply(j, r) ==
  /\ At(j, "apply") /\ Due(j, r)
  /\ exec[j].plan[r] = "create" => child[r] = Absent
  /\ child' = [child EXCEPT ![r] = exec[j].found[r]]
  /\ exec' = [exec EXCEPT ![j].plan[r] = "written"]
  /\ UNCHANGED <<parent, jobs, fix>> /\ Stays

(* A failure is noted and the others go on.  A child that was not deleted  *)
(* is no failed import.                                                    *)
(* Mutant: a write that failed counts as imported. *)
ApplyFailsUncounted(j, r) ==
  /\ At(j, "apply") /\ Due(j, r)
  /\ "error" \in Faults \/ (exec[j].plan[r] = "create" /\ child[r] # Absent)
  /\ exec' = [exec EXCEPT ![j].plan[r] = "none", ![j].noted = TRUE]
  /\ UNCHANGED <<parent, child, jobs, fix>> /\ Stays
ApplyFails(j, r) ==
  /\ At(j, "apply") /\ Due(j, r)
  /\ "error" \in Faults \/ (exec[j].plan[r] = "create" /\ child[r] # Absent)
  /\ exec' = [exec EXCEPT ![j].plan[r] = IF @ = "delete" THEN "none" ELSE "failed",
                          ![j].noted = TRUE]
  /\ UNCHANGED <<parent, child, jobs, fix>> /\ Stays

Applied(j) ==
  /\ At(j, "apply") /\ ~ \E r \in Runtimes : Due(j, r)
  /\ Goto(j, "vectors")
  /\ UNCHANGED <<parent, child, jobs, fix>> /\ Stays

(* update_apply_summary, mark_syncing, _sync_vector_index_after_commit     *)
Vectors(j) ==
  /\ At(j, "vectors") /\ Live(j)
  /\ jobs' = [jobs EXCEPT ![j].old = FALSE]
  /\ Goto(j, "finalize")
  /\ UNCHANGED <<parent, child, fix>> /\ Stays

(* The vectors of some that were written fail, or of a child that is gone  *)
(* or only misses them, which is noted; or the step fails as a whole, and  *)
(* then the deleted children are counted too.                              *)
Written(j) == {r \in Runtimes : exec[j].plan[r] = "written"}
VectorsFail(j) ==
  /\ Fault("error")
  /\ At(j, "vectors") /\ Live(j)
  /\ jobs' = [jobs EXCEPT ![j].old = FALSE]
  /\ \E rs \in {Written(j)} \cup SUBSET {r \in Written(j) : exec[j].found[r] # Absent} :
       exec' = [exec EXCEPT ![j].pc = "finalize", ![j].noted = TRUE,
                  ![j].plan = [r \in Runtimes |-> IF r \in rs THEN "failed" ELSE @[r]]]
  /\ UNCHANGED <<parent, child, calls, fix, stalled>>

(* assert_owned, before each write of the parent *)
Asserted == [finalize |-> "parent", error |-> "failParent", undo |-> "restore"]
AssertOwned(j) ==
  /\ exec[j].pc \in DOMAIN Asserted /\ Live(j)
  /\ Goto(j, IF At(j, "error") /\ exec[j].told = "success" THEN "escaped" ELSE Asserted[exec[j].pc])
  /\ UNCHANGED <<parent, child, jobs, fix>> /\ Stays

(* Mutant: a parent is written by whoever was asked to. *)
OwnsAnyParent(j) == j \in Jobs /\ parent.status = "active" /\ parent.sync \in InFlight
OwnsParent(j) == parent.status = "active" /\ parent.sync \in InFlight /\ parent.last = j

(* _build_federation_stats *)
Listed(found) == {r \in Runtimes : found[r] \in Revisions \cup {Refused}}
Imported(j) == Cardinality({r \in Runtimes : exec[j].found[r] \in Revisions})
                 - Cardinality({r \in Runtimes : exec[j].plan[r] = "failed"})
Outcome(j) ==
  IF Listed(exec[j].found) # {} /\ Imported(j) = 0 THEN "failed" ELSE "success"
Report(j) ==
  IF Outcome(j) = "failed" THEN NoReport
    ELSE [found |-> exec[j].found, imported |-> Imported(j),
          whole |-> ~exec[j].noted /\ Cardinality(Listed(exec[j].found)) = Imported(j)]

Synced(j, sync, report) ==
  parent' = IF OwnsParent(j)
              THEN [parent EXCEPT !.sync = sync, !.report = report, !.old = FALSE] ELSE parent
(* mark_sync_success or mark_sync_failed, in _finalize_sync_status *)
FinalizeParent(j) ==
  /\ At(j, "parent")
  /\ Synced(j, Outcome(j), Report(j))
  /\ exec' = [exec EXCEPT ![j].pc = "job", ![j].told = Outcome(j)]
  /\ UNCHANGED <<child, jobs, fix>> /\ Stays

(* mark_sync_failed, after an error *)
FailParent(j) ==
  /\ At(j, "failParent")
  /\ Synced(j, "failed", NoReport)
  /\ Goto(j, "failJob")
  /\ UNCHANGED <<child, jobs, fix>> /\ Stays

(* The last write of every job *)
FinalizeJob(j) ==
  /\ exec[j].pc \in {"job", "failJob"} /\ Live(j)
  /\ JobEnds(j, IF At(j, "job") /\ exec[j].told # "failed" THEN "success" ELSE "failed")
  /\ Over(j)
  /\ UNCHANGED <<parent, child>> /\ Stays

(* run_delete *)
MarkSyncing(j) ==
  /\ At(j, "mark") /\ Live(j)
  /\ jobs' = [jobs EXCEPT ![j].status = "syncing", ![j].old = FALSE]
  /\ Goto(j, "delete")
  /\ UNCHANGED <<parent, child, fix>> /\ Stays

Deletes(j) == parent.status = "deleting" /\ parent.owner = j
(* _delete_transaction, without a fence: the children, the other jobs and  *)
(* the parent, or nothing                                                  *)
DeleteTransaction(j) ==
  /\ At(j, "delete")
  /\ IF Deletes(j)
       THEN /\ child' = Nothing
            /\ jobs' = [i \in Jobs |-> IF i \in Created \ {j}
                                         THEN [jobs[i] EXCEPT !.status = "removed", !.live = FALSE]
                                         ELSE jobs[i]]
            /\ parent' = [parent EXCEPT !.status = "deleted"]
            /\ Goto(j, "job")
       ELSE Goto(j, "undo") /\ UNCHANGED <<parent, child, jobs>>
  /\ UNCHANGED fix /\ Stays

(* mark_delete_failed *)
Restored(owner) ==
  parent' = IF parent.status = "deleting" /\ parent.owner = owner
              THEN [parent EXCEPT !.status = "active", !.sync = "failed", !.owner = NoJob, !.old = FALSE]
              ELSE parent
Restore(j) ==
  /\ At(j, "restore")
  /\ Restored(j)
  /\ Goto(j, "failJob")
  /\ UNCHANGED <<child, jobs, fix>> /\ Stays

(* The last resort of execute_leased_federation_job and of a refused spawn *)
Escaped(j) ==
  /\ At(j, "escaped")
  /\ Halt(j)
  /\ IF Live(j)
       THEN /\ JobEnds(j, "failed")
            /\ fix' = [fix EXCEPT ![j] = [NoRepair EXCEPT !.pc = "read", !.job = j]]
       ELSE UNCHANGED <<jobs, fix>>
  /\ UNCHANGED <<parent, child>> /\ Stays

(* Each step may fail.  The copy of the parent is changed before the call. *)
AfterError(j) ==
  CASE exec[j].pc \in {"discover", "book", "vectors", "finalize", "parent"} -> "error"
    [] At(j, "delete") -> "undo"
    [] At(j, "job") /\ jobs[j].kind = "sync" -> "error"
    [] At(j, "escaped") -> "done"
    [] OTHER -> "escaped"
StepFails(j) ==
  /\ Fault("error")
  /\ exec[j].pc \notin {"none", "start", "apply", "done"}
  /\ exec' = [exec EXCEPT ![j].pc = AfterError(j),
                          ![j].told = IF At(j, "parent") /\ Outcome(j) = "success"
                                        THEN "success" ELSE @]
  /\ UNCHANGED <<parent, child, jobs, calls, fix, stalled>>

Execute(j) ==
  \/ Start(j) \/ Discover(j) \/ Bookkeeping(j)
  \/ \E r \in Runtimes : Apply(j, r) \/ ApplyFails(j, r)
  \/ Applied(j) \/ Vectors(j) \/ AssertOwned(j)
  \/ FinalizeParent(j) \/ FailParent(j) \/ FinalizeJob(j) \/ MarkSyncing(j)
  \/ DeleteTransaction(j) \/ Restore(j) \/ Escaped(j) \/ LeaseLost(j)

(* A pod is stopped: on_cancelled fails the job while its execution still  *)
(* runs, unless that fails; then the execution is stopped.                 *)
Running(j) == exec[j].pc \in Unfenced \cup Fenced
Cancel(j) ==
  /\ Fault("shutdown")
  /\ Running(j) /\ Live(j)
  /\ JobEnds(j, "failed")
  /\ exec' = [exec EXCEPT ![j].hook = TRUE]
  /\ UNCHANGED <<parent, child, calls, fix, stalled>>
Stop(j) ==
  /\ exec[j].hook /\ Running(j)
  /\ Over(j)
  /\ UNCHANGED <<parent, child, jobs>> /\ Stays

-----------------------------------------------------------------------------
(* _finalize_abandoned_job: the parent is read, then written under a guard *)

Repairing(w, pc) == fix[w].pc = pc
Leaves(w) == fix' = [fix EXCEPT ![w] = NoRepair]

Restores(w) ==
  /\ jobs[fix[w].job].kind = "delete"
  /\ parent.owner \in {NoJob, fix[w].job}
  /\ fix[w].scan => parent.owner = fix[w].owner

ReadParent(w) ==
  /\ Repairing(w, "read")
  /\ fix' = [fix EXCEPT ![w] =
       IF parent.status = "deleting" /\ Restores(w)
         THEN [NoRepair EXCEPT !.pc = "restore", !.owner = parent.owner]
       ELSE IF parent.status = "active" /\ parent.sync \in InFlight
         THEN [NoRepair EXCEPT !.pc = "fail", !.job = fix[w].job]
       ELSE NoRepair]
  /\ UNCHANGED <<parent, child, jobs, exec>> /\ Stays

RepairParent(w) ==
  /\ \/ Repairing(w, "restore") /\ Restored(fix[w].owner)
     \/ Repairing(w, "fail") /\ Synced(fix[w].job, "failed", NoReport)
  /\ Leaves(w)
  /\ UNCHANGED <<child, jobs, exec>> /\ Stays

(* _repair_abandoned_parent: what fails is logged. *)
RepairFails(w) ==
  /\ Fault("error")
  /\ fix[w].pc # "idle"
  /\ Leaves(w)
  /\ UNCHANGED <<parent, child, jobs, exec, calls, stalled>>

(* reap_expired_federation_jobs: the jobs whose lease ran out, one by one *)
Reap(r) ==
  /\ Repairing(r, "idle")
  /\ \E j \in Jobs :
       /\ Unfinished(j) /\ ~jobs[j].live
       /\ JobEnds(j, "failed")
       /\ fix' = [fix EXCEPT ![r] = [NoRepair EXCEPT !.pc = "read", !.job = j]]
  /\ UNCHANGED <<parent, child, exec>> /\ Stays

(* Then the federations that are stuck; and only then their jobs. *)
(* Mutant: a deletion is not looked for. *)
StuckSync == parent.old /\ parent.status = "active" /\ parent.sync \in InFlight
Stuck == parent.old /\ Busy
ScanParents(r) ==
  /\ Repairing(r, "idle")
  /\ ~ \E j \in Jobs : Unfinished(j) /\ ~jobs[j].live
  /\ Stuck
  /\ fix' = [fix EXCEPT ![r] = [NoRepair EXCEPT !.pc = "scanned", !.scan = TRUE, !.owner = parent.owner]]
  /\ UNCHANGED <<parent, child, jobs, exec>> /\ Stays

Documents == {j \in Created : jobs[j].status # "removed"}
Recent(j) == j \in Documents /\ \A i \in Documents : i <= j
ScanJobs(r) ==
  /\ Repairing(r, "scanned")
  /\ \/ /\ ~ \E j \in Jobs : Live(j)
        /\ \E j \in Jobs : /\ Recent(j) /\ jobs[j].old
                           /\ fix' = [fix EXCEPT ![r].pc = "read", ![r].job = j]
     \/ /\ \E j \in Jobs : Live(j) \/ (Recent(j) /\ ~jobs[j].old)
        /\ Leaves(r)
  /\ UNCHANGED <<parent, child, jobs, exec>> /\ Stays

Repair(w) == ReadParent(w) \/ RepairParent(w)
ReaperStep(r) == Reap(r) \/ ScanParents(r) \/ ScanJobs(r) \/ Repair(r)

-----------------------------------------------------------------------------
(* Time and faults *)

(* Nobody renews the lease of an execution that ended.  Any other may      *)
(* lapse: its execution stops itself before, or has stalled.               *)
Expire(j) ==
  /\ Live(j)
  /\ jobs' = [jobs EXCEPT ![j].live = FALSE]
  /\ \/ exec[j].pc \in {"escaped", "done"} /\ UNCHANGED <<exec, mishaps, stalled>>
     \/ Running(j) /\ Fault("lapse") /\ Halt(j) /\ UNCHANGED stalled
     \/ Running(j) /\ Fault("stall") /\ stalled' = stalled \cup {j} /\ UNCHANGED exec
  /\ UNCHANGED <<parent, child, calls, fix>>

(* One lease duration passes without a write, which matters to the scan    *)
(* only.  An execution takes less to stop, unless it stalls.               *)
AgeParent ==
  /\ Busy /\ ~parent.old
  /\ parent' = [parent EXCEPT !.old = TRUE]
  /\ UNCHANGED <<child, jobs, exec, fix>> /\ Stays
AgeJob(j) ==
  /\ Busy /\ Recent(j) /\ ~Unfinished(j) /\ ~jobs[j].old
  /\ ~Running(j) \/ j \in stalled
  /\ jobs' = [jobs EXCEPT ![j].old = TRUE]
  /\ UNCHANGED <<parent, child, exec, fix>> /\ Stays

Crash(w) ==
  /\ Fault("crash")
  /\ fix[w].pc # "idle" \/ (w \in Jobs /\ (Running(w) \/ At(w, "escaped")))
  /\ Leaves(w)
  /\ IF w \in Jobs THEN Halt(w) ELSE UNCHANGED exec
  /\ UNCHANGED <<parent, child, jobs, calls, stalled>>

-----------------------------------------------------------------------------
Next ==
  \/ \E kind \in Kinds : Ask(kind) \/ Submit(kind)
  \/ \E j \in Jobs : \/ Execute(j) \/ VectorsFail(j) \/ StepFails(j) \/ Cancel(j) \/ Stop(j)
                     \/ Expire(j) \/ AgeJob(j) \/ Repair(j)
  \/ \E r \in Reapers : ReaperStep(r)
  \/ \E w \in Reapers \cup Jobs : RepairFails(w) \/ Crash(w)
  \/ Touch \/ AgeParent

Spec == Init /\ [][Next]_vars

(* Executions and reapers go on, leases that nobody renews run out, and    *)
(* what nobody writes grows old.                                           *)
Fairness ==
  /\ \A j \in Jobs : /\ WF_vars(Execute(j)) /\ WF_vars(Stop(j)) /\ WF_vars(Repair(j))
                     /\ WF_vars(Expire(j) /\ UNCHANGED mishaps) /\ WF_vars(AgeJob(j))
  /\ \A r \in Reapers : WF_vars(ReaperStep(r))
  /\ WF_vars(AgeParent)
FairSpec == Spec /\ Fairness

-----------------------------------------------------------------------------
(* Properties *)

(* While a job is live and has not written its outcome to the parent, the  *)
(* parent is its own: no other call was admitted, and no executor, reaper  *)
(* or scan of an earlier job has ended what is going on.                   *)
Reported(j) == \/ exec[j].pc \in {"job", "failJob", "escaped", "done"}
               \/ exec[j].pc \in {"error", "failParent"} /\ exec[j].told # "nothing"
InCharge(j) == Live(j) /\ ~Reported(j)
LiveJobOwnsParent ==
  \A j \in Jobs : InCharge(j) =>
    /\ parent.sync \in InFlight
    /\ jobs[j].kind = "sync" => parent.status = "active" /\ parent.last = j
    /\ jobs[j].kind = "delete" => parent.status = "deleting" /\ parent.owner = j

(* A federation that was deleted leaves no child behind, and none appears  *)
(* later, as long as no execution went on without its lease.               *)
NoOrphan == parent.status = "deleted" /\ stalled = {} => child = Nothing

(* What a parent reports of a successful sync is so, whatever failed on    *)
(* the way: at least as many runtimes as it counts as imported are in      *)
(* MongoDB as the sync found them, and all that could be read are, the     *)
(* ones that are gone included, when it shows neither a message nor        *)
(* anything left out; as long as no execution went on without its lease.   *)
SuccessIsApplied ==
  parent.status = "active" /\ parent.sync = "success" /\ stalled = {} =>
    LET found == parent.report.found
    IN  /\ parent.report.imported <=
             Cardinality({r \in Runtimes : found[r] \in Revisions /\ child[r] = found[r]})
        /\ parent.report.whole =>
             \A r \in Runtimes : found[r] = Unread \/ child[r] = found[r]

(* A job is successful only after its parent is: it says so or is gone, or *)
(* a call that read no job before this one has started a later one.        *)
JobSuccessIsReported ==
  [][\A j \in Jobs : jobs[j].status # "success" /\ jobs'[j].status = "success" =>
       IF jobs[j].kind = "delete" THEN parent.status = "deleted"
         ELSE (parent.sync = "success" /\ parent.last = j) \/ \E i \in Created : i > j]_vars

(* A federation does not stay syncing or deleting: whichever execution,    *)
(* repair or reaper dies, it takes calls again, or is gone.                *)
ParentIsFreed == Busy ~> ~Busy
=============================================================================
