-------------------------- MODULE WorkflowSchedule --------------------------
(***************************************************************************)
(* One WorkflowSchedule of one workflow: the workflow-workers that claim   *)
(* its occurrences and run them, and the API calls that toggle, edit and   *)
(* delete the schedule and its workflow.                                   *)
(*                                                                         *)
(* A claim is a token (uuid4, here a number) with a time it is locked      *)
(* until; each claim is worked by one asyncio task.  The run a task        *)
(* inserts is leased on its own (LeasedJob) and executed as WorkflowRun    *)
(* says: here it is running, ended, or failed.                             *)
(***************************************************************************)
EXTENDS Integers, FiniteSets

CONSTANTS
  Workers,     \* workflow-worker pods
  Crons,       \* cron expressions, as the period between two occurrences
  Lease,       \* lease_duration_seconds
  Slots,       \* max_concurrent_runs, the semaphore of a worker
  Backlog,     \* max_claimed_runs
  Faults,      \* what may go wrong, of AllFaults
  MaxClaims,   \* bound: claims
  MaxCalls,    \* bound: API calls
  LastStart,   \* bound: no claim, renewal or call after this time
  Horizon      \* bound: the clock

AllFaults ==
  {"crash",       \* a worker is killed
   "shutdown",    \* a worker gets SIGTERM
   "silence",     \* renewals fail for as long as they like
   "error",       \* a MongoDB call of a task raises
   "lateCommit"}  \* a cancelled commit reaches the server afterwards

ASSUME BoundsAssumption ==
  /\ {Lease, Slots, Backlog, MaxClaims, MaxCalls, LastStart, Horizon} \subseteq Nat
  /\ Lease > 0
ASSUME CronsAssumption == Crons \subseteq Nat \ {0}
ASSUME FaultsAssumption == Faults \subseteq AllFaults

Claims == 1..MaxClaims
None == 0                       \* an unset time, token or run

VARIABLES
  clock,
  workflow,    \* the WorkflowDefinition: enabled, disabled or missing
  deleting,    \* how far delete_workflow is
  schedule,    \* the WorkflowSchedule document
  enabling,    \* a toggle-on transaction under way: the next_run_at it will write
  calls,       \* API calls so far
  stopping,    \* workers whose stop_event is set
  minted,      \* claims so far
  owner,       \* the worker of each claim
  pc,          \* where each claim's task is
  beat,        \* last_renewed_until of each task's heartbeat, None when it has stopped
  loaded,      \* the cron expression load_claim returned
  planned,     \* the next_run_at the task computed
  cancelled,   \* tasks the drain cancelled at its end
  commit,      \* tasks whose cancelled transaction is still open at the server
  run,         \* the run of each claim
  due,         \* history: the next_run_at each claim was made for
  withdrawn    \* history: claims cleared by an API call

api == <<workflow, deleting, calls>>
document == <<schedule, enabling>>
task == <<owner, pc, beat, loaded, planned, cancelled, commit>>
history == <<due, withdrawn>>
vars == <<clock, api, document, stopping, minted, task, run, history>>

Waiting == {"queued"}
Inside == {"entered", "loaded", "disabling", "inserting", "failing", "recording",
           "executing", "finishing"}   \* within the semaphore
Live == Waiting \cup Inside \cup {"releasing"}
TaskStates == Live \cup {"unborn", "done", "dead"}

(* The document; "deleted" is its absence. *)
Documents == [state : {"enabled", "disabled", "deleted"}, cron : Crons,
              next : Nat, locked : Nat, token : 0..MaxClaims]

Unclaimed(state, cron, next) ==
  [state |-> state, cron |-> cron, next |-> next, locked |-> None, token |-> None]

TypeOK ==
  /\ clock \in 1..(Horizon + 1)
  /\ workflow \in {"enabled", "disabled", "missing"}
  /\ deleting \in {"no", "runs", "schedules"}
  /\ schedule \in Documents
  /\ schedule.locked <= clock + Lease
  /\ enabling \in Nat
  /\ calls \in 0..MaxCalls
  /\ stopping \subseteq Workers
  /\ minted \in 0..MaxClaims
  /\ owner \in [Claims -> Workers]
  /\ pc \in [Claims -> TaskStates]
  /\ beat \in [Claims -> Nat]
  /\ loaded \in [Claims -> Crons]
  /\ planned \in [Claims -> Nat]
  /\ cancelled \subseteq Claims
  /\ commit \subseteq Claims
  /\ run \in [Claims -> {"none", "running", "ended", "failed", "deleted"}]
  /\ due \in [Claims -> Nat]
  /\ withdrawn \subseteq Claims

(* calculate_next_run_at: croniter's first fire time after the base time. *)
NextFire(cron) == (clock \div cron + 1) * cron

Init ==
  /\ clock = 1
  /\ workflow = "enabled"
  /\ deleting = "no"
  /\ \E cron \in Crons : schedule = Unclaimed("disabled", cron, None)
  /\ enabling = None
  /\ calls = 0
  /\ stopping = {}
  /\ minted = 0
  /\ owner \in {f \in [Claims -> Workers] : \A c, d \in Claims : f[c] = f[d]}
  /\ pc = [c \in Claims |-> "unborn"]
  /\ beat = [c \in Claims |-> None]
  /\ loaded = [c \in Claims |-> schedule.cron]
  /\ planned = [c \in Claims |-> None]
  /\ cancelled = {}
  /\ commit = {}
  /\ run = [c \in Claims |-> "none"]
  /\ due = [c \in Claims |-> None]
  /\ withdrawn = {}

-----------------------------------------------------------------------------
(* Writes of the schedule document.  A transaction that wrote it and is    *)
(* still open keeps others waiting; one that only read it is aborted.      *)

Put(s) == commit = {} /\ schedule' = s /\ enabling' = None

Disabled(s) == Unclaimed("disabled", s.cron, None)
(* Mutant: releasing forgets lease_token. *)
UnlockedOnly(s) == [s EXCEPT !.locked = None]
Unlocked(s) == Unclaimed(s.state, s.cron, s.next)

(* A write by claim c: fenced by _lease_filter, it may find nothing. *)
Holds(c) == schedule.token = c
FencedPut(c, s) == IF Holds(c) THEN Put(s) ELSE UNCHANGED document

(* Mutant: only schedules that were never locked, or were unlocked. *)
ClaimableUnlocked ==
  schedule.state = "enabled" /\ schedule.next # None /\ schedule.next <= clock /\ schedule.locked = None

(* _claimable_filter, with due_before = now. *)
Claimable ==
  /\ schedule.state = "enabled"
  /\ schedule.next # None /\ schedule.next <= clock
  /\ schedule.locked = None \/ schedule.locked < clock

LockFromNow == clock + Lease

-----------------------------------------------------------------------------
(* The scheduler loop and the task of a claim. *)

At(c, state) == pc' = [pc EXCEPT ![c] = state]

(* run_bounded's last finally: the heartbeat is stopped, the task is over. *)
Leave(c) == At(c, "done") /\ beat' = [beat EXCEPT ![c] = None]

Tasks(w, states) == {c \in Claims : owner[c] = w /\ pc[c] \in states}

ClaimDue(w) ==
  /\ w \notin stopping
  /\ Cardinality(Tasks(w, Live)) < Backlog
  /\ minted < MaxClaims /\ clock <= LastStart
  /\ Claimable
  /\ LET c == minted + 1 IN
       /\ minted' = c
       /\ Put([schedule EXCEPT !.token = c, !.locked = LockFromNow])
       /\ owner' = [owner EXCEPT ![c] = w]
       /\ beat' = [beat EXCEPT ![c] = LockFromNow]
       /\ due' = [due EXCEPT ![c] = schedule.next]
       /\ At(c, "queued")
  /\ UNCHANGED <<clock, api, stopping, loaded, planned, cancelled, commit, run, withdrawn>>

Enter(c) ==
  /\ pc[c] = "queued"
  /\ Cardinality(Tasks(owner[c], Inside)) < Slots
  /\ At(c, "entered")
  /\ UNCHANGED <<clock, api, document, stopping, minted, owner, beat, loaded, planned,
                 cancelled, commit, run, history>>

LoadClaim(c) ==
  /\ pc[c] = "entered"
  /\ IF Holds(c) /\ schedule.state = "enabled"
     THEN /\ At(c, "loaded")
          /\ loaded' = [loaded EXCEPT ![c] = schedule.cron]
          /\ UNCHANGED beat
     ELSE Leave(c) /\ UNCHANGED loaded
  /\ UNCHANGED <<clock, api, document, stopping, minted, owner, planned, cancelled, commit,
                 run, history>>

ReadDefinition(c) ==
  /\ pc[c] = "loaded"
  /\ IF workflow = "enabled"
     THEN /\ At(c, "inserting")
          /\ planned' = [planned EXCEPT ![c] = NextFire(loaded[c])]
     ELSE At(c, "disabling") /\ UNCHANGED planned
  /\ UNCHANGED <<clock, api, document, stopping, minted, owner, beat, loaded, cancelled,
                 commit, run, history>>

DisableClaim(c) ==
  /\ pc[c] = "disabling"
  /\ FencedPut(c, Disabled(schedule))
  /\ Leave(c)
  /\ UNCHANGED <<clock, api, stopping, minted, owner, loaded, planned, cancelled, commit,
                 run, history>>

(* Mutant: the transaction trusts load_claim for the token. *)
AdvancesWithoutToken(c) == schedule.state = "enabled" /\ schedule.cron = loaded[c]
(* advance_and_insert_run: one transaction. *)
Advances(c) == Holds(c) /\ schedule.state = "enabled" /\ schedule.cron = loaded[c]
(* Mutant: the claim is let go with the insert, not after the run. *)
AdvanceInsertAndUnlock(c) ==
  /\ Put([Unlocked(schedule) EXCEPT !.next = planned[c]])
  /\ run' = [run EXCEPT ![c] = "running"]
AdvanceAndInsertRun(c) ==
  /\ Put([schedule EXCEPT !.next = planned[c]])
  /\ run' = [run EXCEPT ![c] = "running"]

Insert(c) ==
  /\ pc[c] = "inserting"
  /\ IF Advances(c)
     THEN AdvanceAndInsertRun(c) /\ At(c, "executing") /\ UNCHANGED beat
     ELSE Leave(c) /\ UNCHANGED <<document, run>>
  /\ UNCHANGED <<clock, api, stopping, minted, owner, loaded, planned, cancelled, commit, history>>

(* execute_leased_run returned: the run ended, paused for somebody, or was  *)
(* taken from this worker.                                                 *)
RunReturns(c) ==
  /\ pc[c] = "executing"
  /\ At(c, "finishing")
  /\ run' = [run EXCEPT ![c] = IF @ = "running" THEN "ended" ELSE @]
  /\ UNCHANGED <<clock, api, document, stopping, minted, owner, beat, loaded, planned,
                 cancelled, commit, history>>

FinishClaim(c) ==
  /\ pc[c] \in {"finishing", "recording"}
  /\ FencedPut(c, Unlocked(schedule))
  /\ Leave(c)
  /\ UNCHANGED <<clock, api, stopping, minted, owner, loaded, planned, cancelled, commit,
                 run, history>>

(* A call of the task raised: nothing lets go of the claim. *)
Raise(c) ==
  /\ "error" \in Faults
  /\ pc[c] \in {"entered", "loaded", "disabling", "inserting", "failing", "finishing",
                "recording", "releasing"}
  /\ Leave(c)
  /\ UNCHANGED <<clock, api, document, stopping, minted, owner, loaded, planned, cancelled,
                 commit, run, history>>
-----------------------------------------------------------------------------
(* _renew_lease. *)

Renew(c) ==
  /\ beat[c] # None /\ clock < beat[c]
  /\ clock <= LastStart
  /\ FencedPut(c, [schedule EXCEPT !.locked = LockFromNow])
  /\ beat' = [beat EXCEPT ![c] = IF Holds(c) THEN LockFromNow ELSE None]
  /\ UNCHANGED <<clock, api, stopping, minted, owner, pc, loaded, planned, cancelled, commit,
                 run, history>>

Lapse(c) ==
  /\ beat[c] # None /\ clock >= beat[c]
  /\ beat' = [beat EXCEPT ![c] = None]
  /\ UNCHANGED <<clock, api, document, stopping, minted, owner, pc, loaded, planned,
                 cancelled, commit, run, history>>

(* Heartbeats come every third of a lease: one that is answered is in time. *)
RenewalPending ==
  \E c \in Claims : beat[c] # None /\ Holds(c) /\ clock + 1 >= beat[c] /\ clock <= LastStart

Tick ==
  /\ clock <= Horizon
  /\ "silence" \in Faults \/ ~RenewalPending
  /\ clock' = clock + 1
  /\ UNCHANGED <<api, document, stopping, minted, task, run, history>>

-----------------------------------------------------------------------------
(* Shutdown (_drain_in_flight), and a kill. *)

(* stop_event: no more claims, and the queued tasks are cancelled. *)
Shutdown(w) ==
  /\ "shutdown" \in Faults
  /\ w \notin stopping
  /\ stopping' = stopping \cup {w}
  /\ pc' = [c \in Claims |-> IF c \in Tasks(w, Waiting) THEN "releasing" ELSE pc[c]]
  /\ UNCHANGED <<clock, api, document, minted, owner, beat, loaded, planned, cancelled,
                 commit, run, history>>

Cancel(c) ==
  /\ owner[c] \in stopping /\ c \notin cancelled
  /\ cancelled' = cancelled \cup {c}

(* At the end of the drain window what is left is cancelled, wherever it is *)
(* waiting; its last call may or may not have reached the server.          *)
CancelPreparing(c) ==
  /\ Cancel(c)
  /\ pc[c] \in {"entered", "loaded", "disabling"}
  /\ \/ UNCHANGED document
     \/ pc[c] = "disabling" /\ FencedPut(c, Disabled(schedule))
  /\ At(c, "releasing")
  /\ UNCHANGED <<clock, api, stopping, minted, owner, beat, loaded, planned, commit, run, history>>

CancelInsert(c) ==
  /\ Cancel(c)
  /\ pc[c] = "inserting"
  /\ \/ UNCHANGED <<document, run, commit>>
     \/ Advances(c) /\ AdvanceAndInsertRun(c) /\ UNCHANGED commit
     \/ /\ "lateCommit" \in Faults /\ Advances(c) /\ commit = {}
        /\ commit' = {c}
        /\ UNCHANGED <<document, run>>
  /\ At(c, "failing")
  /\ UNCHANGED <<clock, api, stopping, minted, owner, beat, loaded, planned, history>>

(* execute_leased_run's hook fails the run; _finish_schedule still runs. *)
CancelExecution(c) ==
  /\ Cancel(c)
  /\ pc[c] = "executing"
  /\ run' = [run EXCEPT ![c] = IF @ = "running" THEN "failed" ELSE @]
  /\ At(c, "finishing")
  /\ UNCHANGED <<clock, api, document, stopping, minted, owner, beat, loaded, planned,
                 commit, history>>

(* A task caught in its last call does not repeat it. *)
CancelLastCall(c) ==
  /\ Cancel(c)
  /\ pc[c] \in {"finishing", "releasing"}
  /\ UNCHANGED document \/ FencedPut(c, Unlocked(schedule))
  /\ Leave(c)
  /\ UNCHANGED <<clock, api, stopping, minted, owner, loaded, planned, commit, run, history>>

(* _create_scheduled_run after a cancelled transaction. *)
FailInserted(c) ==
  /\ pc[c] = "failing"
  /\ IF run[c] = "running"
     THEN run' = [run EXCEPT ![c] = "failed"] /\ At(c, "recording")
     ELSE UNCHANGED run /\ At(c, "releasing")
  /\ UNCHANGED <<clock, api, document, stopping, minted, owner, beat, loaded, planned,
                 cancelled, commit, history>>

ReleaseClaim(c) ==
  /\ pc[c] = "releasing"
  /\ FencedPut(c, Unlocked(schedule))
  /\ Leave(c)
  /\ UNCHANGED <<clock, api, stopping, minted, owner, loaded, planned, cancelled, commit,
                 run, history>>

(* MongoDB: a commit nobody waits for any more takes effect, or does not. *)
CommitLate(c) ==
  /\ c \in commit
  /\ commit' = commit \ {c}
  /\ \/ /\ schedule' = [schedule EXCEPT !.next = planned[c]]
        /\ run' = [run EXCEPT ![c] = "running"]
     \/ UNCHANGED <<schedule, run>>
  /\ UNCHANGED <<clock, api, enabling, stopping, minted, owner, pc, beat, loaded, planned,
                 cancelled, history>>

(* The drained worker is replaced. *)
Restart(w) ==
  /\ w \in stopping /\ Tasks(w, Live) = {}
  /\ stopping' = stopping \ {w}
  /\ UNCHANGED <<clock, api, document, minted, task, run, history>>

Crash(w) ==
  /\ "crash" \in Faults
  /\ Tasks(w, Live) # {}
  /\ pc' = [c \in Claims |-> IF c \in Tasks(w, Live) THEN "dead" ELSE pc[c]]
  /\ beat' = [c \in Claims |-> IF c \in Tasks(w, Live) THEN None ELSE beat[c]]
  /\ stopping' = stopping \ {w}
  /\ UNCHANGED <<clock, api, document, minted, owner, loaded, planned, cancelled, commit,
                 run, history>>

(* The runs' reaper: a run nobody executes loses its own lease. *)
ReapRun(c) ==
  /\ run[c] = "running" /\ pc[c] \in {"releasing", "done", "dead"}
  /\ run' = [run EXCEPT ![c] = "failed"]
  /\ UNCHANGED <<clock, api, document, stopping, minted, task, history>>

-----------------------------------------------------------------------------
(* The API.  A call that writes the schedule withdraws the claim on it. *)

Call == calls < MaxCalls /\ clock <= LastStart /\ calls' = calls + 1
Withdraw == withdrawn' = withdrawn \cup ({schedule.token} \ {None})
Elsewhere == UNCHANGED <<clock, stopping, minted, task, run, due>>

(* toggle_schedule(enabled=True): the workflow and the schedule are read in *)
(* one snapshot ...                                                        *)
BeginEnable ==
  /\ Call
  /\ schedule.state = "disabled" /\ workflow = "enabled" /\ enabling = None
  /\ enabling' = NextFire(schedule.cron)
  /\ UNCHANGED <<workflow, deleting, schedule, withdrawn>> /\ Elsewhere

(* ... and the schedule is written, if nobody else wrote it since. *)
CommitEnable ==
  /\ enabling # None
  /\ Put(Unclaimed("enabled", schedule.cron, enabling))
  /\ UNCHANGED <<api, withdrawn>> /\ Elsewhere

DisableSchedule ==
  /\ Call
  /\ schedule.state = "enabled"
  /\ Put(Disabled(schedule)) /\ Withdraw
  /\ UNCHANGED <<workflow, deleting>> /\ Elsewhere

(* update_schedule: the claim, if any, stays. *)
ChangeCron(cron) ==
  /\ Call
  /\ schedule.state # "deleted" /\ schedule.cron # cron
  /\ Put([schedule EXCEPT !.cron = cron,
                          !.next = IF schedule.state = "enabled" THEN NextFire(cron) ELSE @])
  /\ UNCHANGED <<workflow, deleting, withdrawn>> /\ Elsewhere

Deleted(s) == Unclaimed("deleted", s.cron, None)
DeleteSchedule ==
  /\ Call
  /\ schedule.state # "deleted"
  /\ Put(Deleted(schedule)) /\ Withdraw
  /\ UNCHANGED <<workflow, deleting>> /\ Elsewhere

(* Mutant: a path that disables the workflow and forgets the cascade. *)
NoCascade == UNCHANGED <<document, withdrawn>>
(* _cascade_disable_schedules matches enabled schedules only. *)
Cascade == IF schedule.state = "enabled" THEN Put(Disabled(schedule)) /\ Withdraw
           ELSE UNCHANGED <<document, withdrawn>>

DisableWorkflow ==
  /\ Call
  /\ workflow = "enabled"
  /\ workflow' = "disabled"
  /\ Cascade
  /\ UNCHANGED deleting /\ Elsewhere

EnableWorkflow ==
  /\ Call
  /\ workflow = "disabled"
  /\ workflow' = "enabled"
  /\ UNCHANGED <<deleting, document, withdrawn>> /\ Elsewhere

(* delete_workflow: no transaction around its steps. *)
DeleteRuns ==
  /\ Call
  /\ workflow # "missing" /\ deleting = "no"
  /\ deleting' = "runs"
  /\ run' = [c \in Claims |-> IF run[c] = "none" THEN "none" ELSE "deleted"]
  /\ UNCHANGED <<workflow, document, clock, stopping, minted, task, history>>

DeleteSchedules ==
  /\ deleting = "runs"
  /\ deleting' = "schedules"
  /\ IF schedule.state # "deleted" THEN Put(Deleted(schedule)) /\ Withdraw
     ELSE UNCHANGED <<document, withdrawn>>
  /\ UNCHANGED <<workflow, calls>> /\ Elsewhere

DeleteDefinition ==
  /\ deleting = "schedules" /\ workflow # "missing"
  /\ workflow' = "missing"
  /\ UNCHANGED <<deleting, calls, document, withdrawn>> /\ Elsewhere

-----------------------------------------------------------------------------
TaskStep(c) ==
  \/ Enter(c) \/ LoadClaim(c) \/ ReadDefinition(c) \/ DisableClaim(c) \/ Insert(c)
  \/ RunReturns(c) \/ FinishClaim(c) \/ FailInserted(c) \/ ReleaseClaim(c)

Drained(c) == CancelPreparing(c) \/ CancelInsert(c) \/ CancelExecution(c) \/ CancelLastCall(c)

ApiStep ==
  \/ BeginEnable \/ CommitEnable \/ DisableSchedule \/ DeleteSchedule
  \/ \E cron \in Crons : ChangeCron(cron)
  \/ DisableWorkflow \/ EnableWorkflow
  \/ DeleteRuns \/ DeleteSchedules \/ DeleteDefinition

Next ==
  \/ \E w \in Workers : ClaimDue(w) \/ Shutdown(w) \/ Restart(w) \/ Crash(w)
  \/ \E c \in Claims : TaskStep(c) \/ Raise(c) \/ Drained(c) \/ Renew(c) \/ Lapse(c)
                       \/ CommitLate(c) \/ ReapRun(c)
  \/ Tick
  \/ ApiStep

Spec == Init /\ [][Next]_vars

(* The clock and the event loops run, MongoDB settles what it was sent, and *)
(* the workers poll.                                                       *)
Fairness ==
  /\ WF_vars(Tick)
  /\ WF_vars(\E w \in Workers : ClaimDue(w))
  /\ \A c \in Claims : /\ WF_vars(TaskStep(c)) /\ WF_vars(Renew(c)) /\ WF_vars(Lapse(c))
                       /\ WF_vars(CommitLate(c)) /\ WF_vars(ReapRun(c))
FairSpec == Spec /\ Fairness

-----------------------------------------------------------------------------
(* A disabled schedule keeps no claim and no next run; an enabled one has a *)
(* next run; a claim has a lock (workflow-schedule-api.md, "State Machine").*)
StateFieldsAgree ==
  /\ schedule.state = "enabled" <=> schedule.next # None
  /\ schedule.state # "enabled" => schedule.token = None
  /\ schedule.token = None <=> schedule.locked = None

(* No occurrence is run twice, however claims lapse, transactions are       *)
(* cancelled and the schedule is edited.                                   *)
OneRunPerOccurrence ==
  \A c, d \in Claims : c # d /\ run[c] # "none" /\ run[d] # "none" => due[c] # due[d]

(* Runs of one schedule overlap only where a user withdrew the claim of the *)
(* first: a run that executes keeps the next occurrence from being claimed. *)
NoUninvitedOverlap ==
  \A c, d \in Claims :
    c < d /\ pc[c] = "executing" /\ pc[d] = "executing" => c \in withdrawn

(* A task that ran, or that the drain found queued, does not leave its      *)
(* claim for the lock to run out, unless the drain ran out of time.        *)
EndedTaskLetsGo ==
  \A c \in Claims : pc[c] = "done" /\ Holds(c) => c \in cancelled \/ run[c] = "none"

(* "no orphaned schedules fire after their parent workflow is disabled"     *)
(* (workflow-schedule-api.md:373), not even one that a toggle racing the    *)
(* cascade left enabled.                                                   *)
NoRunOfDisabledWorkflow ==
  [][\A c \in Claims : run[c] = "none" /\ run'[c] # "none" => workflow = "enabled"]_vars

(* A claim nobody works on any more does not keep its occurrence from the   *)
(* other workers.                                                          *)
AbandonedClaimComesBack ==
  \A c \in Claims :
    (Holds(c) /\ pc[c] \in {"done", "dead"})
      ~> (~Holds(c) \/ Claimable \/ schedule.next > clock)
=============================================================================
