----------------------------- MODULE WorkflowRun -----------------------------
(***************************************************************************)
(* One workflow run from its launch to its terminal status: the leased     *)
(* executions that drive it (WorkflowRunner, with_control, the syncer,     *)
(* execute_leased_run), the control plane that pauses, resumes, cancels    *)
(* and approves it (WorkflowControlService, WorkflowRunLauncher), the      *)
(* in-process DirectiveQueue between them, and the reaper.                 *)
(*                                                                         *)
(* Every step makes one MongoDB call or one move on a queue: between two   *)
(* of them any other coroutine may run.  The lease is here what LeasedJob  *)
(* shows it to be: a token per claim, which expires only after its         *)
(* execution has stopped, unless "stall" is among the faults.              *)
(***************************************************************************)
EXTENDS Naturals, Sequences

CONSTANTS
  Pods,         \* registry and worker pods
  StepCount,    \* the steps of the workflow, in sequence
  Gates,        \* the steps agno holds for a human before it starts them
  MaxAttempts,  \* 1 + StepConfig.max_retries
  MaxClaims,    \* bound: the launch and the continuations of the run
  MaxCalls,     \* bound: the API calls that reach the run
  Faults        \* what may go wrong: see FaultsAssumption

ASSUME BoundsAssumption ==
  {StepCount, MaxAttempts, MaxClaims} \subseteq Nat \ {0} /\ MaxCalls \in Nat

ASSUME GatesAssumption == Gates \subseteq 1..StepCount

ASSUME FaultsAssumption ==
  Faults \subseteq
    {"crash",      \* a pod dies
     "shutdown",   \* a pod shuts down and cancels its executions
     "silence",    \* an execution cannot renew its lease and is stopped
     "stall",      \* an execution outlives its lease
     "error",      \* a call of the execution raises, whether or not it landed
     "finalize",   \* so does the status write of a finalizer
     "sync",       \* the syncer's write raises, and is swallowed
     "record",     \* the write of an attempt's result raises, likewise
     "call"}       \* a call of the API raises where it is, whether or not it landed

VARIABLES
  (* the WorkflowRun document and its NodeRuns *)
  status,       \* WorkflowRunStatus
  directive,    \* pending_directive
  token,        \* lease_token: the execution that holds the run, 0 for none
  expired,      \* lease_expires_at has passed
  requirement,  \* pending_requirements, of the one gate a run can be held at
  node,         \* NodeRun status of each step
  session,      \* the step agno's saved session is held at
  (* the executions, numbered by their lease tokens *)
  pc,           \* where the coroutine is
  home,         \* its pod
  step,         \* the step it is at
  decided,      \* whether the gate of that step is behind it
  attempt,      \* attempts of that step that failed
  outcome,      \* how the workflow ended, or is about to
  hook,         \* what on_cancelled did
  (* the pods *)
  queue,        \* DirectiveQueue: whether the run is registered, and its items
  handlers,     \* API calls under way, past their first write
  cleaning,     \* pods whose reaper finalized the run and not yet its NodeRuns
  (* history *)
  calls,        \* API calls made
  cut           \* a finalization was interrupted before it closed the NodeRuns

lease == <<token, expired>>
gate == <<requirement, session>>
document == <<status, directive, lease, gate, node>>
progress == <<home, step, decided, attempt, outcome, hook>>
execution == <<pc, progress>>
control == <<handlers, calls>>
reaping == <<cleaning, cut>>
vars == <<document, execution, queue, control, reaping>>

-----------------------------------------------------------------------------
Terminal == {"COMPLETED", "FAILED", "CANCELLED"}
NonTerminal == {"PENDING", "RUNNING", "PAUSED", "AWAITING_APPROVAL"}
Active == {"RUNNING", "PAUSED", "AWAITING_APPROVAL"}
Leased == {"PENDING", "RUNNING", "PAUSED"}
ReleasingAtTheEnd == Terminal   \* mutant: a run that is held keeps its lease
Releasing == Terminal \union {"AWAITING_APPROVAL"}
Directives == {"none", "PAUSE", "RESUME", "CANCEL"}

Executions == 1..MaxClaims
Steps == 1..StepCount

(* The coroutine of an execution checks directives, or runs a step. *)
Stepping ==
  {"boundary", "enterPause", "paused", "resuming", "recheck",
   "ackCancel", "ackCancelPaused", "start", "executing", "record"}
(* run_with_lease couples the coroutine to its heartbeat. *)
Coupled ==
  {"pending", "acquired", "building"} \union Stepping
    \union {"saving", "clearing", "output", "cancelling", "failing",
            "closing", "rearm", "leaving"}
Places == Coupled \union {"unborn", "escaped", "failOpen", "done"}

Claimed == {e \in Executions : pc[e] # "unborn"}
NoQueue == [open |-> FALSE, items |-> <<>>]
Queued(p, d) ==
  IF queue[p].open THEN [queue EXCEPT ![p].items = Append(@, d)] ELSE queue
Unregistered(e) == [queue EXCEPT ![home[e]] = NoQueue]
Registered(e) == [queue EXCEPT ![home[e]].open = TRUE]
Goes(e, place) == pc' = [pc EXCEPT ![e] = place]

NodesOpen == \E s \in Steps : node[s] = "RUNNING"
Closed(result) == [s \in Steps |-> IF node[s] = "RUNNING" THEN result ELSE node[s]]

(* LeasedRunStateWriter.write of a status: fenced on the token and on the   *)
(* status, and releasing the lease with a status that needs none.          *)
Writable(e, from) == status \in from /\ token = e
Release == token' = 0 /\ expired' = FALSE
Write(e, from, to) ==
  IF Writable(e, from)
    THEN /\ status' = to
         /\ IF to \in Releasing THEN Release ELSE UNCHANGED <<token, expired>>
    ELSE UNCHANGED <<status, token, expired>>

(* ack_directive: clears the directive it consumed and no other. *)
AcksWhatever(e, consumed, from) == Writable(e, from)   \* mutant: clears a newer directive
Acks(e, consumed, from) == Writable(e, from) /\ directive = consumed
Ack(e, consumed, from, to) ==
  IF Acks(e, consumed, from)
    THEN directive' = "none" /\ status' = to
    ELSE UNCHANGED <<directive, status>>

(* LeasedRepository.transition to FAILED with release. *)
Transitions(e) == status \in Leased /\ token = e /\ ~expired
Transition(e) ==
  IF Transitions(e)
    THEN status' = "FAILED" /\ Release
    ELSE UNCHANGED <<status, token, expired>>

Init ==
  /\ status = "PENDING" /\ directive = "none" /\ token = 1 /\ expired = FALSE
  /\ requirement = "none"
  /\ node = [s \in Steps |-> "none"]
  /\ session = 1
  /\ pc = [e \in Executions |-> IF e = 1 THEN "pending" ELSE "unborn"]
  /\ \E p \in Pods : home = [e \in Executions |-> p]
  /\ step = [e \in Executions |-> 1]
  /\ decided = [e \in Executions |-> FALSE]
  /\ attempt = [e \in Executions |-> 0]
  /\ outcome = [e \in Executions |-> "none"]
  /\ hook = [e \in Executions |-> "none"]
  /\ queue = [p \in Pods |-> NoQueue]
  /\ handlers = {}
  /\ cleaning = {}
  /\ calls = 0
  /\ cut = FALSE
-----------------------------------------------------------------------------
(* WorkflowRunner.run and continue_run, up to the first step *)

(* Where an exception out of the runner is dealt with. *)
Escapes(e) ==
  IF hook[e] = "none" THEN "escaped" ELSE IF hook[e] = "matched" THEN "failOpen" ELSE "done"

(* PENDING -> RUNNING is a compare-and-set: a run that moved on is skipped. *)
Start(e) ==
  /\ pc[e] = "pending"
  /\ Write(e, {"PENDING"}, "RUNNING")
  /\ \/ /\ Writable(e, {"PENDING"})
        /\ Goes(e, "building") /\ queue' = Registered(e)
     \/ /\ ~Writable(e, {"PENDING"})
        /\ Goes(e, "done") /\ UNCHANGED queue
     \/ /\ "error" \in Faults
        /\ Goes(e, Escapes(e)) /\ UNCHANGED queue
  /\ UNCHANGED <<directive, gate, node, progress, control, reaping>>

Continue(e) ==
  /\ pc[e] = "acquired"
  /\ \/ Goes(e, "building") /\ queue' = Registered(e)
     \/ "error" \in Faults /\ Goes(e, Escapes(e)) /\ UNCHANGED queue
  /\ UNCHANGED <<document, progress, control, reaping>>

Build(e) ==
  /\ pc[e] = "building"
  /\ Goes(e, "boundary")
  /\ UNCHANGED <<document, progress, queue, control, reaping>>

(* The tracker is shut down: the launcher fails the run it holds. *)
RefuseSpawn(e) ==
  /\ "shutdown" \in Faults
  /\ pc[e] \in {"pending", "acquired"} /\ hook[e] = "none"
  /\ Transition(e)
  /\ Goes(e, "done")
  /\ UNCHANGED <<directive, gate, node, progress, queue, control, reaping>>

-----------------------------------------------------------------------------
(* with_control *)

(* What the wrapper does with the directive it found before an attempt, and *)
(* with one it found while it waits in a pause.                            *)
OnDirective ==
  [none |-> "start", PAUSE |-> "enterPause", RESUME |-> "start", CANCEL |-> "ackCancel"]
OnWakeDeaf ==   \* mutant: a pause ends in a RESUME only
  [none |-> "paused", PAUSE |-> "paused", RESUME |-> "resuming", CANCEL |-> "paused"]
OnWake ==
  [none |-> "paused", PAUSE |-> "paused", RESUME |-> "resuming", CANCEL |-> "ackCancelPaused"]

Held(e) == step[e] \in Gates /\ ~decided[e]

(* The queue first, and pending_directive only when the queue is empty. *)
FindsQueued(p) ==   \* mutant: calls made on other pods are never seen
  IF queue[p].items # <<>> THEN Head(queue[p].items) ELSE "none"
Finds(p) == IF queue[p].items # <<>> THEN Head(queue[p].items) ELSE directive
Consumed(p) == IF queue[p].items # <<>> THEN [queue EXCEPT ![p].items = Tail(@)] ELSE queue

CheckDirective(e) ==
  /\ pc[e] = "boundary" /\ ~Held(e)
  /\ Goes(e, OnDirective[Finds(home[e])])
  /\ queue' = Consumed(home[e])
  /\ UNCHANGED <<document, progress, control, reaping>>

AckCancel(e) ==
  /\ pc[e] \in {"ackCancel", "ackCancelPaused"}
  /\ Ack(e, "CANCEL", IF pc[e] = "ackCancel" THEN {"RUNNING", "PAUSED"} ELSE {"PAUSED"}, status)
  /\ Goes(e, "cancelling")
  /\ UNCHANGED <<lease, gate, node, progress, queue, control, reaping>>

EnterPause(e) ==
  /\ pc[e] = "enterPause"
  /\ Ack(e, "PAUSE", {"RUNNING"}, "PAUSED")
  /\ Goes(e, IF Acks(e, "PAUSE", {"RUNNING"}) THEN "paused" ELSE "recheck")
  /\ UNCHANGED <<lease, gate, node, progress, queue, control, reaping>>

(* The wait loop: the queue, and every 30 polls of it the document. *)
WakeUp(e) ==
  /\ pc[e] = "paused"
  /\ Goes(e, OnWake[Finds(home[e])])
  /\ queue' = Consumed(home[e])
  /\ UNCHANGED <<document, progress, control, reaping>>

PauseTimeout(e) ==
  /\ pc[e] = "paused"
  /\ Goes(e, "cancelling")
  /\ UNCHANGED <<document, progress, queue, control, reaping>>

LeavePause(e) ==
  /\ pc[e] = "resuming"
  /\ Ack(e, "RESUME", {"PAUSED"}, "RUNNING")
  /\ Goes(e, IF Acks(e, "RESUME", {"PAUSED"}) THEN "start" ELSE "recheck")
  /\ UNCHANGED <<lease, gate, node, progress, queue, control, reaping>>

(* An acknowledgement was rejected: only a CANCEL in its place matters. *)
Recheck(e) ==
  /\ pc[e] = "recheck"
  /\ Goes(e, IF directive = "CANCEL" THEN "ackCancel" ELSE "start")
  /\ UNCHANGED <<document, progress, queue, control, reaping>>

(* _record_attempt_start: a save that no lease fences. *)
StartAttempt(e) ==
  /\ pc[e] = "start"
  /\ node' = [node EXCEPT ![step[e]] = "RUNNING"]
  /\ Goes(e, "executing")
  /\ UNCHANGED <<status, directive, lease, gate, progress, queue, control, reaping>>

Retries(e) == attempt[e] + 1 < MaxAttempts

(* A failure the step's on_error tolerates counts as a success: its NodeRun  *)
(* is closed and the workflow goes on.                                     *)
EndAttempt(e, succeeded) ==
  /\ pc[e] = "executing"
  /\ IF succeeded
       THEN Goes(e, "record") /\ UNCHANGED <<attempt, outcome>>
       ELSE IF Retries(e)
              THEN /\ Goes(e, "boundary")
                   /\ attempt' = [attempt EXCEPT ![e] = @ + 1]
                   /\ UNCHANGED outcome
              ELSE /\ Goes(e, "record")
                   /\ outcome' = [outcome EXCEPT ![e] = "failed"]
                   /\ UNCHANGED attempt
  /\ UNCHANGED <<document, home, step, decided, hook, queue, control, reaping>>

(* _record_attempt_result, then agno goes on to the next step, or stops. *)
RecordAttempt(e, landed) ==
  /\ pc[e] = "record" /\ (landed \/ "record" \in Faults)
  /\ node' = IF landed
               THEN [node EXCEPT ![step[e]] =
                       IF outcome[e] = "failed" THEN "FAILED" ELSE "COMPLETED"]
               ELSE node
  /\ IF outcome[e] = "none" /\ step[e] < StepCount
       THEN /\ Goes(e, "boundary")
            /\ step' = [step EXCEPT ![e] = @ + 1]
            /\ decided' = [decided EXCEPT ![e] = FALSE]
            /\ attempt' = [attempt EXCEPT ![e] = 0]
            /\ UNCHANGED outcome
       ELSE /\ Goes(e, "saving")
            /\ outcome' = [outcome EXCEPT ![e] = IF @ = "failed" THEN "failed" ELSE "completed"]
            /\ UNCHANGED <<step, decided, attempt>>
  /\ UNCHANGED <<status, directive, lease, gate, home, hook, queue, control, reaping>>

-----------------------------------------------------------------------------
(* agno between two steps *)

(* A gate is reached, a rejected decision ends the workflow, or             *)
(* araise_if_cancelled sees CANCEL: agno ends the run and saves its session. *)
AgnoEnds(e) ==
  /\ pc[e] = "boundary" /\ attempt[e] = 0
  /\ \/ Held(e) /\ outcome' = [outcome EXCEPT ![e] = "paused"]
     \/ decided[e] /\ \E o \in {"failed", "cancelled"} : outcome' = [outcome EXCEPT ![e] = o]
     \/ directive = "CANCEL" /\ outcome' = [outcome EXCEPT ![e] = "cancelled"]
  /\ Goes(e, "saving")
  /\ UNCHANGED <<document, home, step, decided, attempt, hook, queue, control, reaping>>

(* _STATUS_MAP *)
Mapped ==
  [completed |-> "COMPLETED", failed |-> "FAILED", cancelled |-> "CANCELLED", paused |-> "PAUSED"]

(* WorkflowRunSyncer: the run's status and the NodeRuns of the steps that    *)
(* have an output; a terminal status takes the requirements away.          *)
Sync(e, as) ==
  /\ Write(e, NonTerminal, Mapped[as])
  /\ IF Writable(e, NonTerminal)
       THEN /\ node' = IF as = "failed" /\ pc[e] = "saving"
                         THEN [Closed("COMPLETED") EXCEPT ![step[e]] = "FAILED"]
                         ELSE IF pc[e] = "saving" THEN Closed("COMPLETED") ELSE node
            /\ requirement' = IF Mapped[as] \in Terminal THEN "none" ELSE requirement
       ELSE UNCHANGED <<node, requirement>>

(* agno saves its session when the workflow ends or holds. *)
SaveSession(e, synced) ==
  /\ pc[e] = "saving" /\ (synced \/ "sync" \in Faults)
  /\ IF synced THEN Sync(e, outcome[e]) ELSE UNCHANGED <<status, lease, node, requirement>>
  /\ session' = IF outcome[e] = "paused" THEN step[e] ELSE session
  /\ Goes(e, IF e = 1 THEN "output" ELSE "clearing")
  /\ UNCHANGED <<directive, progress, queue, control, reaping>>

(* ... and may do so too when the workflow raises. *)
SaveError(e) ==
  /\ pc[e] \in {"cancelling", "failing"} /\ status \in NonTerminal
  /\ Sync(e, "failed")
  /\ UNCHANGED <<directive, session, execution, queue, control, reaping>>

-----------------------------------------------------------------------------
(* The end of run and continue_run *)

(* continue_run: the decisions have been consumed. *)
ClearRequirements(e) ==
  /\ pc[e] = "clearing"
  /\ requirement' = IF Writable(e, {"RUNNING"}) THEN "none" ELSE requirement
  /\ Goes(e, "output")
  /\ UNCHANGED <<status, directive, lease, session, node, progress, queue, control, reaping>>

(* _handle_run_output: a stopped failure is terminal even when the syncer   *)
(* failed, a pause awaits approval, and anything else the syncer wrote.    *)
HandleOutput(e) ==
  /\ pc[e] = "output"
  /\ \/ /\ outcome[e] = "failed"
        /\ Write(e, NonTerminal, "FAILED")
        /\ requirement' = IF Writable(e, NonTerminal) THEN "none" ELSE requirement
     \/ /\ outcome[e] = "paused"
        /\ Write(e, {"RUNNING", "PAUSED"}, "AWAITING_APPROVAL")
        /\ requirement' = IF Writable(e, {"RUNNING", "PAUSED"}) THEN "open" ELSE requirement
     \/ /\ outcome[e] \in {"completed", "cancelled"}
        /\ UNCHANGED <<status, lease, requirement>>
  /\ Goes(e, "leaving") \/ ("error" \in Faults /\ Goes(e, "failing"))
  /\ UNCHANGED <<directive, session, node, progress, queue, control, reaping>>

(* MongoDB, agno or an executor raises on the way. *)
Raise(e) ==
  /\ "error" \in Faults
  /\ pc[e] \in {"building"} \union (Stepping \ {"executing"}) \union {"clearing", "output"}
  /\ Goes(e, "failing")
  /\ UNCHANGED <<document, progress, queue, control, reaping>>

(* _finalize_cancel and _finalize_failure begin with their terminal write;  *)
(* if that raises, nothing else of them happens.                           *)
Finalize(e, to, as) ==
  /\ \/ /\ Write(e, NonTerminal, to)
        /\ outcome' = [outcome EXCEPT ![e] = as]
        /\ Goes(e, "closing")
     \/ /\ "finalize" \in Faults
        /\ UNCHANGED <<status, lease>>
        /\ outcome' = [outcome EXCEPT ![e] = "raised"]
        /\ Goes(e, "leaving")
  /\ UNCHANGED <<directive, gate, node, home, step, decided, attempt, hook, queue, control, reaping>>

FinalizeCancel(e) == pc[e] = "cancelling" /\ Finalize(e, "CANCELLED", "cancelled")
FinalizeFailure(e) == pc[e] = "failing" /\ Finalize(e, "FAILED", "raised")

(* _finalize_dangling_node_runs *)
CloseNodes(e) ==
  /\ pc[e] = "closing"
  /\ node' = Closed(IF outcome[e] = "cancelled" THEN "CANCELLED" ELSE "FAILED")
  /\ Goes(e, IF outcome[e] = "cancelled" THEN "rearm" ELSE "leaving")
  /\ UNCHANGED <<status, directive, lease, gate, progress, queue, control, reaping>>

(* acancel_run, which no lease fences: CANCEL on a run that is not over. *)
Rearm(e) ==
  /\ pc[e] = "rearm"
  /\ IF status \in NonTerminal
       THEN directive' = "CANCEL" /\ queue' = Queued(home[e], "CANCEL")
       ELSE UNCHANGED <<directive, queue>>
  /\ Goes(e, "leaving")
  /\ UNCHANGED <<status, lease, gate, node, progress, control, reaping>>

ForgetsHook(e) == IF outcome[e] = "raised" THEN Escapes(e) ELSE "done"   \* mutant
AfterLeaving(e) ==
  IF outcome[e] = "raised" THEN Escapes(e)
  ELSE IF hook[e] = "matched" THEN "failOpen" ELSE "done"

Leave(e) ==
  /\ pc[e] = "leaving"
  /\ queue' = Unregistered(e)
  /\ Goes(e, AfterLeaving(e))
  /\ UNCHANGED <<document, progress, control, reaping>>

-----------------------------------------------------------------------------
(* execute_leased_run *)

FinalizeEscaped(e) ==
  /\ pc[e] = "escaped"
  /\ Transition(e)
  /\ Goes(e, "done")
  /\ UNCHANGED <<directive, gate, node, progress, queue, control, reaping>>

(* Shutdown: on_cancelled writes FAILED while the execution still runs ... *)
Shutdown(e) ==
  /\ "shutdown" \in Faults
  /\ pc[e] \in Coupled /\ hook[e] = "none"
  /\ Transition(e)
  /\ hook' = [hook EXCEPT ![e] = IF Transitions(e) THEN "matched" ELSE "missed"]
  /\ UNCHANGED <<directive, gate, node, pc, home, step, decided, attempt, outcome>>
  /\ UNCHANGED <<queue, control, reaping>>

Interrupted(e) == cut' = (cut \/ (status \in Terminal /\ NodesOpen /\ hook[e] # "matched"))
Abandoned(e) == IF pc[e] \in {"pending", "acquired"} THEN queue ELSE Unregistered(e)

(* ... then the execution is cancelled and awaited ... *)
Stop(e) ==
  /\ pc[e] \in Coupled /\ hook[e] # "none"
  /\ Goes(e, IF hook[e] = "matched" THEN "failOpen" ELSE "done")
  /\ queue' = Abandoned(e)
  /\ Interrupted(e)
  /\ UNCHANGED <<document, progress, control, cleaning>>

(* ... and last its NodeRuns are failed. *)
FailOpenNodes(e) ==
  /\ pc[e] = "failOpen"
  /\ node' = Closed("FAILED")
  /\ Goes(e, "done")
  /\ UNCHANGED <<status, directive, lease, gate, progress, queue, control, reaping>>

(* The heartbeat finds the lease gone, released by the execution itself     *)
(* included, or cannot renew it: the execution is cancelled where it is.   *)
LoseLease(e) ==
  /\ pc[e] \in Coupled /\ hook[e] = "none"
  /\ token # e \/ expired \/ "silence" \in Faults
  /\ Goes(e, "done")
  /\ queue' = Abandoned(e)
  /\ Interrupted(e)
  /\ UNCHANGED <<document, progress, control, cleaning>>

Expire ==
  /\ token # 0 /\ ~expired
  /\ pc[token] \in Coupled => "stall" \in Faults
  /\ expired' = TRUE
  /\ UNCHANGED <<status, directive, token, gate, node, execution, queue, control, reaping>>

(* reap_expired_runs: the run first, its NodeRuns after. *)
Reap(p) ==
  /\ status \in Leased /\ expired /\ p \notin cleaning
  /\ status' = "FAILED"
  /\ Release
  /\ cleaning' = cleaning \union {p}
  /\ UNCHANGED <<directive, gate, node, execution, queue, control, cut>>

ReapNodes(p) ==
  /\ p \in cleaning
  /\ node' = Closed("FAILED")
  /\ cleaning' = cleaning \ {p}
  /\ UNCHANGED <<status, directive, lease, gate, execution, queue, control, cut>>

(* The pod dies, with its executions, its queue and its API calls. *)
Crash(p) ==
  /\ "crash" \in Faults
  /\ p \in cleaning \/ (\E h \in handlers : h.pod = p)
       \/ \E e \in Claimed : home[e] = p /\ pc[e] # "done"
  /\ pc' = [e \in Executions |-> IF e \in Claimed /\ home[e] = p THEN "done" ELSE pc[e]]
  /\ queue' = [queue EXCEPT ![p] = NoQueue]
  /\ handlers' = {h \in handlers : h.pod # p}
  /\ cleaning' = cleaning \ {p}
  /\ cut' = (cut \/ (status \in Terminal /\ NodesOpen))
  /\ UNCHANGED <<document, progress, calls>>

-----------------------------------------------------------------------------
(* The control plane.  A call checks the run as it loads it and again in    *)
(* the filter of its write; the first check refuses nothing the filter     *)
(* would not, so a call starts with its write.                             *)

Call(p, at, d) ==
  /\ calls < MaxCalls
  /\ calls' = calls + 1
  /\ handlers' = handlers \union {[id |-> calls + 1, pod |-> p, at |-> at, carries |-> d]}

SendDirective(p, d, from, unless) ==
  /\ status \in from /\ directive \notin unless
  /\ directive' = d
  /\ Call(p, "put", d)
  /\ UNCHANGED <<status, lease, gate, node, execution, queue, reaping>>

SendPause(p) == SendDirective(p, "PAUSE", {"RUNNING"}, {"PAUSE", "RESUME", "CANCEL"})
SendResume(p) == SendDirective(p, "RESUME", {"PAUSED"}, {"RESUME", "CANCEL"})
SendCancel(p) == SendDirective(p, "CANCEL", Active, {"CANCEL"})

Advance(h, at) ==
  handlers' = (handlers \ {h}) \union (IF at = "answered" THEN {} ELSE {[h EXCEPT !.at = at]})

PutDirective(h) ==
  /\ h.at \in {"put", "putAgain"}
  /\ queue' = Queued(h.pod, h.carries)
  /\ Advance(h, IF h.at = "put" /\ h.carries = "CANCEL" THEN "acancel" ELSE "answered")
  /\ UNCHANGED <<document, execution, calls, reaping>>

(* The bridge to agno's cancellation manager. *)
CancelAgno(h) ==
  /\ h.at = "acancel"
  /\ IF status \in NonTerminal
       THEN directive' = "CANCEL" /\ Advance(h, "putAgain")
       ELSE UNCHANGED directive /\ Advance(h, "answered")
  /\ UNCHANGED <<status, lease, gate, node, execution, queue, calls, reaping>>

(* mutant: a decision that comes after its deadline is left to the polls. *)
ResolveInTime(p) ==
  /\ status = "AWAITING_APPROVAL" /\ requirement \in {"open", "timedOut"}
  /\ requirement' = "decided"
  /\ IF requirement = "open" THEN Call(p, "prepare", "none") ELSE UNCHANGED control
  /\ UNCHANGED <<status, directive, lease, session, node, execution, queue, reaping>>

(* resolve_requirement: the decision, then the same call resumes the run. *)
Resolve(p) ==
  /\ status = "AWAITING_APPROVAL" /\ requirement \in {"open", "timedOut"}
  /\ requirement' = "decided"
  /\ Call(p, "prepare", "none")
  /\ UNCHANGED <<status, directive, lease, session, node, execution, queue, reaping>>

(* A status poll that finds a requirement past its timeout_at. *)
Nudge(p) ==
  /\ status = "AWAITING_APPROVAL" /\ requirement = "timedOut"
  /\ Call(p, "prepare", "none")
  /\ UNCHANGED <<document, execution, queue, reaping>>

GateTimeout ==
  /\ requirement = "open"
  /\ requirement' = "timedOut"
  /\ UNCHANGED <<status, directive, lease, session, node, execution, queue, control, reaping>>

(* _prepare_continue: the credentials are refreshed, or are gone for good   *)
(* (the run is failed).                                                    *)
Prepare(h) ==
  /\ h.at = "prepare"
  /\ \/ Advance(h, "acquire") /\ UNCHANGED <<status, requirement>>
     \/ /\ Advance(h, "answered")
        /\ IF status = "AWAITING_APPROVAL"
             THEN status' = "FAILED" /\ requirement' = "none"
             ELSE UNCHANGED <<status, requirement>>
  /\ UNCHANGED <<directive, lease, session, node, execution, queue, calls, reaping>>

AcquirableTwice == status \in {"AWAITING_APPROVAL", "RUNNING"}   \* mutant
Acquirable == status = "AWAITING_APPROVAL"

(* launch_continue: whoever wins AWAITING_APPROVAL -> RUNNING continues.  If  *)
(* the answer is lost the call raises, and nobody executes under the lease. *)
Acquire(h, answered) ==
  /\ h.at = "acquire" /\ Acquirable
  /\ answered \/ "call" \in Faults
  /\ \E e \in Executions :
       /\ pc[e] = "unborn" /\ \A f \in Executions : pc[f] = "unborn" => e <= f
       /\ status' = "RUNNING"
       /\ token' = e /\ expired' = FALSE
       /\ Goes(e, IF answered THEN "acquired" ELSE "done")
       /\ home' = [home EXCEPT ![e] = h.pod]
       /\ step' = [step EXCEPT ![e] = session]
       /\ decided' = [decided EXCEPT ![e] = TRUE]
  /\ Advance(h, "answered")
  /\ UNCHANGED <<directive, gate, node, attempt, outcome, hook, queue, calls, reaping>>

LoseRace(h) ==
  /\ h.at = "acquire" /\ ~Acquirable
  /\ Advance(h, "answered")
  /\ UNCHANGED <<document, execution, queue, calls, reaping>>

(* MongoDB or the refresh of the credentials raises in the middle of a call:  *)
(* the request fails (the cancel bridge logs it) and goes no further.  What   *)
(* the call wrote before, or at last without an answer, remains.              *)
CallRaises(h) ==
  /\ "call" \in Faults
  /\ Advance(h, "answered")
  /\ UNCHANGED <<document, execution, queue, calls, reaping>>

-----------------------------------------------------------------------------
ExecutionStep(e) ==
  \/ Start(e) \/ Continue(e) \/ Build(e)
  \/ CheckDirective(e) \/ AckCancel(e) \/ EnterPause(e) \/ WakeUp(e) \/ LeavePause(e)
  \/ Recheck(e) \/ StartAttempt(e)
  \/ \E succeeded \in BOOLEAN : EndAttempt(e, succeeded)
  \/ \E landed \in BOOLEAN : RecordAttempt(e, landed)
  \/ AgnoEnds(e)
  \/ \E synced \in BOOLEAN : SaveSession(e, synced)
  \/ ClearRequirements(e) \/ HandleOutput(e)
  \/ FinalizeCancel(e) \/ FinalizeFailure(e) \/ CloseNodes(e) \/ Rearm(e) \/ Leave(e)
  \/ FinalizeEscaped(e) \/ Stop(e) \/ FailOpenNodes(e)

Mishap(e) ==
  RefuseSpawn(e) \/ PauseTimeout(e) \/ SaveError(e) \/ Raise(e) \/ Shutdown(e) \/ LoseLease(e)

HandlerStep(h) ==
  \/ PutDirective(h) \/ CancelAgno(h) \/ Prepare(h) \/ LoseRace(h)
  \/ \E answered \in BOOLEAN : Acquire(h, answered)

ReaperStep(p) == Reap(p) \/ ReapNodes(p)

Request(p) == SendPause(p) \/ SendResume(p) \/ SendCancel(p) \/ Resolve(p) \/ Nudge(p)

Next ==
  \/ \E e \in Claimed : ExecutionStep(e) \/ Mishap(e)
  \/ \E h \in handlers : HandlerStep(h) \/ CallRaises(h)
  \/ \E p \in Pods : ReaperStep(p) \/ Request(p) \/ Crash(p)
  \/ Expire
  \/ GateTimeout

Spec == Init /\ [][Next]_vars

(* Every coroutine that can go on does, leases expire, a reaper loop runs in *)
(* every pod.  Nobody need ever call the API.                              *)
Fairness ==
  /\ \A e \in Executions : WF_vars(e \in Claimed /\ ExecutionStep(e))
  /\ WF_vars(\E h \in handlers : HandlerStep(h))
  /\ WF_vars(Expire)
  /\ WF_vars(\E p \in Pods : ReaperStep(p))

FairSpec == Spec /\ Fairness

-----------------------------------------------------------------------------
Queues == [Pods -> [open : BOOLEAN, items : Seq(Directives \ {"none"})]]
Handlers ==
  [id : 1..MaxCalls, pod : Pods, carries : Directives \ {"none"},
   at : {"put", "acancel", "putAgain"}]
    \union [id : 1..MaxCalls, pod : Pods, carries : {"none"}, at : {"prepare", "acquire"}]

TypeOK ==
  /\ status \in Terminal \union NonTerminal
  /\ directive \in Directives
  /\ token \in Executions \union {0}
  /\ expired \in BOOLEAN
  /\ requirement \in {"none", "open", "timedOut", "decided"}
  /\ node \in [Steps -> {"none", "RUNNING", "COMPLETED", "FAILED", "CANCELLED"}]
  /\ session \in Steps
  /\ pc \in [Executions -> Places]
  /\ home \in [Executions -> Pods]
  /\ step \in [Executions -> Steps]
  /\ decided \in [Executions -> BOOLEAN]
  /\ attempt \in [Executions -> 0..(MaxAttempts - 1)]
  /\ outcome \in [Executions -> {"none", "completed", "failed", "cancelled", "paused", "raised"}]
  /\ hook \in [Executions -> {"none", "matched", "missed"}]
  /\ queue \in Queues
  /\ handlers \subseteq Handlers
  /\ cleaning \subseteq Pods
  /\ calls \in 0..MaxCalls
  /\ cut \in BOOLEAN

(* A coroutine that is between steps or in one is the run's leased one, so  *)
(* there is one at a time across pauses for approval and continuations; or *)
(* it is being stopped behind its own on_cancelled write.                  *)
StepsUnderLease ==
  \A e \in Executions : pc[e] \in Stepping => token = e \/ hook[e] = "matched"

(* Only the executor that then aborts takes a CANCEL off the run. *)
CancelIsNeverErased ==
  [][directive = "CANCEL" /\ directive' # "CANCEL" =>
       \E e \in Executions : pc[e] # "cancelling" /\ pc'[e] = "cancelling"]_vars

Quiet == cleaning = {} /\ \A e \in Claimed : pc[e] = "done"

(* A finished run leaves no NodeRun open, in whatever order its executor,   *)
(* its hook, the syncer and the reaper got to it, unless one of them was   *)
(* interrupted between the run's terminal write and its NodeRuns.          *)
NodesEndWithRun == status \in Terminal /\ Quiet /\ ~cut => ~NodesOpen

(* A decided run that awaits approval is about to be continued: nothing     *)
(* else would ever look at it again (launch_continue: "no reaper covers    *)
(* that state and the decision cannot be resubmitted").  The call that     *)
(* continues it may die with its pod, or raise on the way; nothing else    *)
(* leaves it behind, however many decisions and polls compete for it.      *)
LeftBehind ==
  /\ status = "AWAITING_APPROVAL" /\ requirement = "decided"
  /\ \A h \in handlers : h.at \notin {"prepare", "acquire"}

DecisionIsActedOn ==
  [][LeftBehind' =>
       \/ LeftBehind
       \/ \E p \in Pods : Crash(p)
       \/ \E h \in handlers : h.at \in {"prepare", "acquire"} /\ CallRaises(h)]_vars

(* CANCEL on a run that is running or paused ends that, through the queue,  *)
(* the poll of the document, the cancellation manager or the reaper.       *)
CancelStopsRun ==
  (directive = "CANCEL" /\ status \in {"RUNNING", "PAUSED"})
    ~> status \notin {"RUNNING", "PAUSED"}

(* A resumed run does not stay paused. *)
ResumeWakesRun == (directive = "RESUME" /\ status = "PAUSED") ~> status # "PAUSED"

(* What a run promises holds of every interleaving of its writers: runner,  *)
(* syncer, wrapper, shutdown hook, reaper and control plane.               *)
Lifecycle ==
  INSTANCE RunLifecycle WITH Executors <- Executions, executor <- token, former <- Claimed
RunLifecycleSpec == Lifecycle!Spec
=============================================================================
