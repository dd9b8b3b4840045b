----------------------------- MODULE SkillSync -----------------------------
(***************************************************************************)
(* One skill sync source, its jobs and its skills: the API calls that      *)
(* edit, sync and delete the source, and the runners that claim its jobs   *)
(* and execute them.                                                       *)
(*                                                                         *)
(* The source and its job are two documents.  A call writes both in one    *)
(* transaction; an execution ends the job first, under its lease, and then *)
(* saves the source, whole, as it read it at the start.  Leases are those  *)
(* of LeasedJob: held, or expired because the runner died or stalled.      *)
(***************************************************************************)
EXTENDS Integers, FiniteSets

CONSTANTS
  Runners,      \* SkillSyncJobRunner, one per registry pod
  Callers,      \* API handlers in flight
  Skills,       \* upstream ids that are followed here; there may be others
  MaxAttempts,  \* _MAX_JOB_ATTEMPTS
  Faults,       \* what may go wrong, of AllFaults
  MaxJobs,      \* bound: jobs
  MaxRev        \* bound: configRevision

AllFaults ==
  {"crash",   \* a runner is killed
   "stall",   \* an execution goes on after its lease expired
   "error"}   \* saving a source raises

ASSUME BoundsAssumption == {MaxAttempts, MaxJobs, MaxRev} \subseteq Nat \ {0}
ASSUME FaultsAssumption == Faults \subseteq AllFaults
ASSUME NobodyAssumption == "nobody" \notin Runners

VARIABLES
  source,     \* the SkillSyncSource document
  jobs,       \* the SkillSyncJob documents, numbered by createdAt
  skills,     \* live Skill documents per upstream id
  call,       \* the source each API handler has read, NoCopy when there is none
  pc,         \* where each runner is
  job,        \* the job each runner works on, 0 for none
  copy,       \* the source in the memory of each execution
  plan,       \* the skills an execution has still to delete, create, update
  causes,     \* history: how source and jobs may have come to disagree
  kept        \* the skills that every version of the repository contains

runner == <<pc, job, copy, plan>>
vars == <<source, jobs, skills, call, runner, causes, kept>>

Jobs == 1..MaxJobs
Running == {"pending", "syncing"}          \* SkillSyncStatus.is_running
Sources == [status : {"active", "deleting", "deleted"},
            sync : Running \cup {"idle", "success", "failed"},
            rev : 1..MaxRev, last : 0..MaxJobs]
NoCopy == [status |-> "none"]
JobRecords == [kind : {"sync", "delete"}, rev : 1..MaxRev, attempts : 0..MaxAttempts,
               status : {"unborn", "success", "failed"} \cup Running,
               lease : {"none", "held", "expired"}, token : Runners \cup {"nobody"}]
NoPlan == [delete |-> {}, create |-> {}, update |-> {}]

(* The job is over in MongoDB, its source is not saved yet. *)
Ending == {"record", "bury", "failing", "restore"}
Recovering == {"recover", "failingLate", "restoreLate"}      \* within before_poll
Executing == {"load", "begin", "save", "fetch", "apply", "reject", "orphan",
              "sweep", "clear", "clearFailed", "undo"}
States == {"idle", "polled"} \cup Executing \cup Ending \cup Recovering

TypeOK ==
  /\ source \in Sources
  /\ jobs \in [Jobs -> JobRecords]
  /\ skills \in [Skills -> Nat]
  /\ call \in [Callers -> Sources \cup {NoCopy}]
  /\ pc \in [Runners -> States]
  /\ job \in [Runners -> 0..MaxJobs]
  /\ copy \in [Runners -> Sources \cup {NoCopy}]
  /\ plan \in [Runners -> [{"delete", "create", "update"} -> SUBSET Skills]]
  /\ causes \subseteq {"overwrite", "overrun", "unrecorded"}
  /\ kept \subseteq Skills

UnbornJob == [kind |-> "sync", rev |-> 1, attempts |-> 0,
              status |-> "unborn", lease |-> "none", token |-> "nobody"]

Init ==
  /\ source = [status |-> "active", sync |-> "idle", rev |-> 1, last |-> 0]
  /\ jobs = [j \in Jobs |-> UnbornJob]
  /\ skills = [k \in Skills |-> 0]
  /\ call = [c \in Callers |-> NoCopy]
  /\ pc = [r \in Runners |-> "idle"]
  /\ job = [r \in Runners |-> 0]
  /\ copy = [r \in Runners |-> NoCopy]
  /\ plan = [r \in Runners |-> NoPlan]
  /\ causes = {}
  /\ kept \in SUBSET Skills

-----------------------------------------------------------------------------
(* API calls.  A handler reads the source, waits for access control and    *)
(* tokens, and then saves what it read, changed.                           *)

Active(j) == jobs[j].status \in Running
Created == {j \in Jobs : jobs[j].status # "unborn"}

(* save() writes every field, whatever was written since the read. *)
CallerSaves(c, s) ==
  /\ source' = s
  /\ causes' = IF call[c] = source THEN causes ELSE causes \cup {"overwrite"}

Read(c) ==
  /\ call[c] = NoCopy
  /\ source.status # "deleted"
  /\ call' = [call EXCEPT ![c] = source]
  /\ UNCHANGED <<source, jobs, skills, runner, causes>>

(* Permission denied, no usable token, not active: nothing is written. *)
Refuse(c) ==
  /\ call[c] # NoCopy
  /\ call' = [call EXCEPT ![c] = NoCopy]
  /\ UNCHANGED <<source, jobs, skills, runner, causes>>

(* update_source; with syncAfterUpdate the handler goes on to a sync. *)
Edit(c, rev, syncAfterUpdate) ==
  /\ call[c].status = "active"
  /\ rev \in {call[c].rev, call[c].rev + 1} /\ rev <= MaxRev
  /\ LET saved == [call[c] EXCEPT !.rev = rev]
     IN  /\ CallerSaves(c, saved)
         /\ call' = [call EXCEPT ![c] = IF syncAfterUpdate THEN saved ELSE NoCopy]
  /\ UNCHANGED <<jobs, skills, runner>>

NoActiveJob == \A j \in Jobs : ~Active(j)

(* trigger_sync and delete_source_with_skills: both documents in one       *)
(* transaction.  Two of them write the same source, so one is aborted.     *)
Submit(c, kind) ==
  /\ call[c].status = "active"
  /\ call[c].sync \notin Running
  /\ NoActiveJob
  /\ \E j \in Jobs :
       /\ \A i \in Jobs : i < j <=> i \in Created
       /\ jobs' = [jobs EXCEPT ![j] = [UnbornJob EXCEPT !.kind = kind, !.rev = call[c].rev,
                                                        !.status = "pending"]]
  /\ CallerSaves(c, [call[c] EXCEPT !.sync = "pending",
                       !.status = IF kind = "delete" THEN "deleting" ELSE @])
  /\ call' = [call EXCEPT ![c] = NoCopy]
  /\ UNCHANGED <<skills, runner>>

-----------------------------------------------------------------------------
(* The poll loop *)

Goto(r, state) ==
  /\ pc' = [pc EXCEPT ![r] = state]
  /\ UNCHANGED <<job, copy, plan>>

Stop(r) ==
  /\ pc' = [pc EXCEPT ![r] = "idle"]
  /\ job' = [job EXCEPT ![r] = 0]
  /\ copy' = [copy EXCEPT ![r] = NoCopy]
  /\ plan' = [plan EXCEPT ![r] = NoPlan]

(* After the housekeeping of before_poll the poll goes on to its claim, *)
(* unless that raised.                                                   *)
Leave(r) ==
  \/ Stop(r)
  \/ /\ pc[r] \in Recovering
     /\ pc' = [pc EXCEPT ![r] = "polled"]
     /\ job' = [job EXCEPT ![r] = 0]
     /\ copy' = [copy EXCEPT ![r] = NoCopy]
     /\ UNCHANGED plan

Ended(j, status) ==
  [jobs EXCEPT ![j].status = status, ![j].lease = "none", ![j].token = "nobody"]

(* Mutant: the limit is off by one. *)
ExhaustedPastLimit(j) == Active(j) /\ jobs[j].attempts > MaxAttempts /\ jobs[j].lease = "expired"
Exhausted(j) == Active(j) /\ jobs[j].attempts >= MaxAttempts /\ jobs[j].lease = "expired"

(* before_poll: fail one exhausted job, and only then look for its source. *)
BeforePoll(r) ==
  /\ pc[r] = "idle"
  /\ \/ /\ \A j \in Jobs : ~Exhausted(j)
        /\ Goto(r, "polled")
        /\ UNCHANGED jobs
     \/ \E j \in Jobs :
          /\ Exhausted(j) /\ \A i \in Jobs : i < j => ~Exhausted(i)
          /\ jobs' = Ended(j, "failed")
          /\ pc' = [pc EXCEPT ![r] = "recover"]
          /\ job' = [job EXCEPT ![r] = j]
          /\ UNCHANGED <<copy, plan>>
  /\ UNCHANGED <<source, skills, call, causes>>

(* Mutant: a job that ended is claimed again. *)
ClaimableAnyStatus(j) == j \in Created /\ jobs[j].attempts < MaxAttempts /\ jobs[j].lease # "held"
Claimable(j) ==
  /\ jobs[j].attempts < MaxAttempts
  /\ \/ jobs[j].status = "pending"
     \/ jobs[j].status = "syncing" /\ jobs[j].lease = "expired"

Claim(r) ==
  /\ pc[r] = "polled"
  /\ \/ /\ \A j \in Jobs : ~Claimable(j)
        /\ Stop(r)
        /\ UNCHANGED jobs
     \/ \E j \in Jobs :
          /\ Claimable(j) /\ \A i \in Jobs : i < j => ~Claimable(i)
          /\ jobs' = [jobs EXCEPT ![j].status = "syncing", ![j].lease = "held", ![j].token = r,
                                  ![j].attempts = @ + 1]
          /\ pc' = [pc EXCEPT ![r] = "load"]
          /\ job' = [job EXCEPT ![r] = j]
          /\ UNCHANGED <<copy, plan>>
  /\ UNCHANGED <<source, skills, call, causes>>

-----------------------------------------------------------------------------
(* Executions.  Writes of the job are fenced; those of the source and of   *)
(* the skills are not.                                                     *)

Owns(r) == jobs[job[r]].token = r /\ jobs[job[r]].lease = "held"

(* An unfenced write by an execution that lost its lease is an overrun. *)
Overrun(r) == IF Owns(r) THEN causes ELSE causes \cup {"overrun"}

(* A fenced phase update: LeaseLostError ends the execution. *)
Advance(r, state) ==
  /\ IF Owns(r) THEN Goto(r, state) ELSE Stop(r)
  /\ UNCHANGED <<source, jobs, skills, call, causes>>

(* run_claimed_job *)
Load(r) ==
  /\ pc[r] = "load"
  /\ IF source.status = "deleted"
       THEN pc' = [pc EXCEPT ![r] = "orphan"] /\ UNCHANGED copy
       ELSE /\ copy' = [copy EXCEPT ![r] = source]
            /\ pc' \in {[pc EXCEPT ![r] = s] : s \in
                 IF jobs[job[r]].kind = "delete" THEN {"sweep"}
                 ELSE IF jobs[job[r]].rev # source.rev THEN {"reject"}
                 ELSE {"begin", "reject"}}       \* reject: no usable token
  /\ UNCHANGED <<source, jobs, skills, call, job, plan, causes>>

Begin(r) == pc[r] = "begin" /\ Advance(r, "save")

(* transition_to_syncing, which raises on a source that is not pending *)
SaveSyncing(r) ==
  /\ pc[r] = "save"
  /\ \/ /\ copy[r].status = "active" /\ copy[r].sync \in Running
        /\ copy' = [copy EXCEPT ![r].sync = "syncing"]
        /\ \/ /\ pc' = [pc EXCEPT ![r] = "fetch"]
              /\ source' = copy'[r]
              /\ causes' = Overrun(r)
           \/ /\ "error" \in Faults
              /\ pc' = [pc EXCEPT ![r] = "reject"]
              /\ UNCHANGED <<source, causes>>
     \/ /\ ~(copy[r].status = "active" /\ copy[r].sync \in Running)
        /\ pc' = [pc EXCEPT ![r] = "reject"]
        /\ UNCHANGED <<copy, source, causes>>
  /\ UNCHANGED <<jobs, skills, call, job, plan>>

Live == {k \in Skills : skills[k] > 0}        \* list_live_skills

(* Mutant: a skill that could not be parsed counts as removed upstream. *)
FoundOnly(found, unparsed) == found
Present(found, unparsed) == found \cup unparsed

(* Mutant: the keys compared lack the source id, so no live skill is found. *)
PlannedAnew(found, unparsed, live) == [delete |-> {}, create |-> found, update |-> {}]
Planned(found, unparsed, live) ==
  [delete |-> live \ Present(found, unparsed), create |-> found \ live, update |-> found \cap live]

(* Download, extract, discover; then list the live skills and compare.     *)
(* What the repository contains is found, or reported with an error.  Of   *)
(* the skills followed none may be found as long as another one is.        *)
Fetch(r) ==
  /\ pc[r] = "fetch"
  /\ \/ Advance(r, "reject")             \* GitHub failed, or nothing was found
     \/ \E found, unparsed \in SUBSET Skills :
          /\ Owns(r)
          /\ found \cap unparsed = {} /\ kept \subseteq found \cup unparsed
          /\ plan' = [plan EXCEPT ![r] = Planned(found, unparsed, Live)]
          /\ pc' = [pc EXCEPT ![r] = "apply"]
          /\ UNCHANGED <<source, jobs, skills, call, job, copy, causes>>

(* One transaction per skill; stale skills first.  One that fails is       *)
(* recorded in skillErrors, and its siblings go on.                        *)
ApplySkill(r, op, k) ==
  /\ pc[r] = "apply"
  /\ k \in plan[r][op]
  /\ op # "delete" => plan[r].delete = {}
  /\ plan' = [plan EXCEPT ![r][op] = @ \ {k}]
  /\ \/ UNCHANGED <<skills, causes>>
     \/ /\ skills' = [skills EXCEPT ![k] = CASE op = "create" -> @ + 1
                                             [] op = "update" -> IF @ = 0 THEN 1 ELSE @
                                             [] op = "delete" -> IF @ = 0 THEN 0 ELSE @ - 1]
        /\ causes' = Overrun(r)
  /\ UNCHANGED <<source, jobs, call, pc, job, copy>>

(* _finalize_job, releasing the lease: the job is over before its source. *)
Finalize(r, status, state) ==
  /\ IF Owns(r)
       THEN jobs' = Ended(job[r], status) /\ Goto(r, state)
       ELSE UNCHANGED jobs /\ Stop(r)
  /\ UNCHANGED <<source, skills, call, causes>>

Finish(r) ==
  /\ pc[r] = "apply" /\ plan[r] = NoPlan
  /\ Finalize(r, "success", "record")

Reject(r) == pc[r] = "reject" /\ Finalize(r, "failed", "failing")
Orphan(r) == pc[r] = "orphan" /\ Finalize(r, "failed", "idle")

-----------------------------------------------------------------------------
(* The source, after its job *)

Recorded(r) == [copy[r] EXCEPT !.sync = "success", !.last = job[r]]
Buried(r) == [copy[r] EXCEPT !.status = "deleted", !.sync = "success", !.last = job[r]]
Failed(r) == [copy[r] EXCEPT !.sync = "failed"]
(* restore_after_delete_failure *)
Restored(r) == [copy[r] EXCEPT !.status = "active", !.sync = "failed"]

(* Saves s, or raises. *)
EndWith(r, s) ==
  /\ \/ source' = s /\ UNCHANGED causes
     \/ "error" \in Faults /\ UNCHANGED source /\ causes' = causes \cup {"unrecorded"}
  /\ UNCHANGED <<jobs, skills, call>>

(* _save_source_after_finalize: a save that raises is followed by one that *)
(* marks the source failed.                                                *)
Record(r) ==
  /\ pc[r] = "record"
  /\ \/ EndWith(r, Recorded(r))
     \/ "error" \in Faults /\ EndWith(r, [Recorded(r) EXCEPT !.sync = "failed"])
  /\ Stop(r)

Bury(r) ==
  /\ pc[r] = "bury"
  /\ \/ EndWith(r, Buried(r))
     \/ "error" \in Faults /\ EndWith(r, [Restored(r) EXCEPT !.last = job[r]])
  /\ Stop(r)

(* mark_sync_failed raises on a source that is neither running nor failed. *)
MarkFailed(r) ==
  /\ pc[r] \in {"failing", "failingLate"}
  /\ IF copy[r].sync \in Running \cup {"failed"}
       THEN EndWith(r, Failed(r))
       ELSE UNCHANGED <<source, causes, jobs, skills, call>>
  /\ Leave(r)

Restore(r) ==
  /\ pc[r] \in {"restore", "restoreLate"}
  /\ EndWith(r, Restored(r))
  /\ Leave(r)

(* Mutant: recovery ends with the job. *)
RecoverNothing(r) == pc[r] = "recover" /\ Stop(r) /\ UNCHANGED <<source, jobs, skills, call, causes>>
(* recover_exhausted_job reads the source only now. *)
Recover(r) ==
  /\ pc[r] = "recover"
  /\ IF source.status = "deleted"
       THEN Leave(r)
       ELSE /\ copy' = [copy EXCEPT ![r] = source]
            /\ pc' = [pc EXCEPT ![r] = IF jobs[job[r]].kind = "delete" THEN "restoreLate"
                                       ELSE "failingLate"]
            /\ UNCHANGED <<job, plan>>
  /\ UNCHANGED <<source, jobs, skills, call, causes>>

-----------------------------------------------------------------------------
(* _run_delete *)

(* The phase update is fenced; then the live skills are listed. *)
Sweep(r) ==
  /\ pc[r] = "sweep"
  /\ IF Owns(r)
       THEN /\ plan' = [plan EXCEPT ![r].delete = Live]
            /\ pc' = [pc EXCEPT ![r] = "clear"]
            /\ UNCHANGED <<job, copy>>
       ELSE Stop(r)
  /\ UNCHANGED <<source, jobs, skills, call, causes>>

(* Every document listed is deleted in a transaction of its own. *)
ClearSkill(r, k) ==
  /\ pc[r] \in {"clear", "clearFailed"}
  /\ k \in plan[r].delete
  /\ plan' = [plan EXCEPT ![r].delete = @ \ {k}]
  /\ \/ /\ skills' = [skills EXCEPT ![k] = 0]
        /\ causes' = Overrun(r)
        /\ UNCHANGED pc
     \/ /\ pc' = [pc EXCEPT ![r] = "clearFailed"]
        /\ UNCHANGED <<skills, causes>>
  /\ UNCHANGED <<source, jobs, call, job, copy>>

(* Mutant: failures to delete a skill are only counted. *)
ClearedRegardless(r) == pc[r] \in {"clear", "clearFailed"} /\ plan[r].delete = {}
Cleared(r) == pc[r] = "clear" /\ plan[r].delete = {}

(* ACL entries and tokens go, or their deletion raises. *)
FinishDelete(r) == Cleared(r) /\ Finalize(r, "success", "bury")
GiveUp(r) ==
  /\ pc[r] \in {"clear", "clearFailed"} /\ plan[r].delete = {}
  /\ Goto(r, "undo")
  /\ UNCHANGED <<source, jobs, skills, call, causes>>
Undo(r) == pc[r] = "undo" /\ Finalize(r, "failed", "restore")

-----------------------------------------------------------------------------
(* Faults *)

(* An execution that ends without saving the source its job is over for. *)
Dropped(r) == IF pc[r] \in Ending \cup Recovering THEN causes \cup {"unrecorded"} ELSE causes

(* The pod dies, or a call to MongoDB raises past every handler; the lease runs out. *)
Crash(r) ==
  /\ "crash" \in Faults
  /\ pc[r] \in Executing \cup Ending \cup Recovering
  /\ jobs' = IF Owns(r) THEN [jobs EXCEPT ![job[r]].lease = "expired"] ELSE jobs
  /\ Stop(r)
  /\ causes' = Dropped(r)
  /\ UNCHANGED <<source, skills, call>>

(* The heartbeat finds the lease gone, or released by the terminal write,  *)
(* and cancels the execution.                                              *)
LeaseLost(r) ==
  /\ pc[r] \in Executing \cup Ending /\ ~Owns(r)
  /\ Stop(r)
  /\ causes' = Dropped(r)
  /\ UNCHANGED <<source, jobs, skills, call>>

(* The lease expires under an execution that goes on. *)
Stall(r) ==
  /\ "stall" \in Faults
  /\ pc[r] \in Executing /\ Owns(r)
  /\ jobs' = [jobs EXCEPT ![job[r]].lease = "expired"]
  /\ UNCHANGED <<source, skills, call, runner, causes>>

-----------------------------------------------------------------------------
Call(c) ==
  \/ Read(c)
  \/ Refuse(c)
  \/ \E rev \in 1..MaxRev, syncAfterUpdate \in BOOLEAN : Edit(c, rev, syncAfterUpdate)
  \/ \E kind \in {"sync", "delete"} : Submit(c, kind)

Work(r) ==
  \/ BeforePoll(r) \/ Claim(r) \/ Recover(r)
  \/ Load(r) \/ Begin(r) \/ SaveSyncing(r) \/ Fetch(r)
  \/ \E op \in {"delete", "create", "update"}, k \in Skills : ApplySkill(r, op, k)
  \/ Finish(r) \/ Reject(r) \/ Orphan(r)
  \/ Sweep(r) \/ \E k \in Skills : ClearSkill(r, k)
  \/ FinishDelete(r) \/ GiveUp(r) \/ Undo(r)
  \/ Record(r) \/ Bury(r) \/ MarkFailed(r) \/ Restore(r)

Fault(r) == Crash(r) \/ LeaseLost(r) \/ Stall(r)

Next ==
  /\ \/ \E c \in Callers : Call(c)
     \/ \E r \in Runners : Work(r) \/ Fault(r)
  /\ UNCHANGED kept

Spec == Init /\ [][Next]_vars
(* Every runner keeps polling; nothing else is promised. *)
FairSpec == Spec /\ \A r \in Runners : WF_vars(Work(r) /\ UNCHANGED kept)

-----------------------------------------------------------------------------
(* Properties *)

(* A source has at most one job that is queued or executing: the guard of  *)
(* create_job is a read, made safe by the write of the source that shares  *)
(* its transaction.                                                        *)
OneActiveJob == \A i, j \in Jobs : Active(i) /\ Active(j) => i = j

(* A job ends once: of its execution, the one that superseded it and the   *)
(* runner that finds it exhausted, one writes the outcome and no other     *)
(* changes it.                                                             *)
JobEndsOnce ==
  [][\A j \in Jobs : jobs[j].status \in {"success", "failed"} => jobs'[j] = jobs[j]]_vars

(* lastSync names a job that succeeded: whatever is saved late, twice or   *)
(* by an execution that lost its lease, no source reports a sync that      *)
(* failed or is still going on.                                            *)
LastSyncSucceeded == source.last # 0 => jobs[source.last].status = "success"

(* The source reads pending or syncing exactly while a job of it is active *)
(* or its outcome is on the way to the source.  An execution that ends in  *)
(* between, one that outlives its lease and an API call that saves a stale *)
(* source are the only ways out of this agreement.                         *)
SourceFollowsJob ==
  causes = {} =>
    (source.sync \in Running
       <=> \/ \E j \in Jobs : Active(j)
           \/ \E r \in Runners : pc[r] \in Ending \cup Recovering)

(* A skill that never left the repository is removed only with its source: *)
(* no outage, parse error or empty discovery is taken for a deletion.      *)
KeptSkillStays ==
  [][\A k \in kept : skills[k] > 0 /\ skills'[k] = 0
                       => \E j \in Jobs : jobs[j].kind = "delete"]_vars

(* Skills are matched by upstream id without a unique index: only an       *)
(* execution that outlives its lease creates one twice.                    *)
NoDuplicateSkill == "overrun" \in causes \/ \A k \in Skills : skills[k] <= 1

(* A deleted source leaves no skill behind, unless an execution outlived   *)
(* its lease or a call brought a stale source back.                        *)
DeletedSourceIsEmpty ==
  source.status = "deleted" /\ causes \subseteq {"unrecorded"} => \A k \in Skills : skills[k] = 0

(* A sync that was requested ends for its source, whatever crashes: the    *)
(* attempts are counted, and the last one is failed by whoever polls.      *)
SyncEnds == (source.sync \in Running) ~> (source.sync \notin Running \/ causes # {})
=============================================================================
