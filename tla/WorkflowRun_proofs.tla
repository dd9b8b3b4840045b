------------------------- MODULE WorkflowRun_proofs -------------------------
(***************************************************************************)
(* Proofs about WorkflowRun, for any pods, workflow, bounds and faults.    *)
(*                                                                         *)
(*   TypeCorrect          every variable keeps its type                    *)
(*   ImplementsLifecycle  a run implements RunLifecycle                    *)
(*   StepsAreExclusive    one coroutine at a time steps a run (no stalls)  *)
(*   CancelIsKept         only the executor that aborts takes CANCEL off   *)
(*   NodesAreClosed       a finished run leaves no NodeRun open            *)
(*   DecisionsAct         a decided run is not left behind                 *)
(*                                                                         *)
(* The invariant is Inv: types, what agno saves, and LeaseFitsStatus; for   *)
(* StepsAreExclusive also who drives a run and when a lease may lapse      *)
(* (LeaseInv); for NodesAreClosed also who is to close NodeRuns (TidyInv). *)
(***************************************************************************)
EXTENDS WorkflowRun, TLAPS

(* The lists of places and statuses, for the provers. *)
LEMMA PlacesAre ==
  Places =
    {"pending", "acquired", "building", "boundary", "enterPause", "paused", "resuming",
     "recheck", "ackCancel", "ackCancelPaused", "start", "executing", "record", "saving",
     "clearing", "output", "cancelling", "failing", "closing", "rearm", "leaving",
     "unborn", "escaped", "failOpen", "done"}
BY DEF Places, Coupled, Stepping

Statuses == Terminal \union NonTerminal

(* The DirectiveQueue keeps its type, and what is found in it is a directive. *)
LEMMA QueueTyped ==
  ASSUME queue \in Queues, directive \in Directives, NEW p \in Pods
  PROVE  /\ Finds(p) \in Directives
         /\ Consumed(p) \in Queues
         /\ [queue EXCEPT ![p] = NoQueue] \in Queues
         /\ [queue EXCEPT ![p].open = TRUE] \in Queues
         /\ \A d \in Directives \ {"none"} : Queued(p, d) \in Queues
<1> DEFINE D == Directives \ {"none"}
<1>1. /\ queue = [q \in Pods |-> queue[q]]
      /\ \A q \in Pods : queue[q] \in [open : BOOLEAN, items : Seq(D)]
  BY DEF Queues
<1>2. queue[p].items \in Seq(D) /\ queue[p].open \in BOOLEAN
  BY <1>1
<1>3. queue[p].items # <<>> => Head(queue[p].items) \in D /\ Tail(queue[p].items) \in Seq(D)
  BY <1>2
<1>4. ASSUME NEW q \in [open : BOOLEAN, items : Seq(D)]
      PROVE  [queue EXCEPT ![p] = q] \in Queues
  BY <1>1 DEF Queues
<1>5. ASSUME NEW items \in Seq(D)
      PROVE  [queue EXCEPT ![p].items = items] \in Queues
  BY <1>1 DEF Queues
<1>6. Finds(p) \in Directives
  BY <1>3 DEF Finds
<1>7. Consumed(p) \in Queues
  BY <1>3, <1>5 DEF Consumed
<1>8. [queue EXCEPT ![p] = NoQueue] \in Queues
  <2>1. <<>> \in Seq(D)
    OBVIOUS
  <2> QED BY <2>1, <1>4 DEF NoQueue
<1>9. [queue EXCEPT ![p].open = TRUE] \in Queues
  BY <1>1 DEF Queues
<1>10. ASSUME NEW d \in D PROVE Queued(p, d) \in Queues
  <2>1. Append(queue[p].items, d) \in Seq(D)
    BY <1>2
  <2> QED BY <2>1, <1>5 DEF Queued
<1> QED BY <1>6, <1>7, <1>8, <1>9, <1>10

(* Where a directive sends the coroutine. *)
LEMMA DirectedTyped ==
  ASSUME NEW d \in Directives
  PROVE  /\ OnDirective[d] \in {"start", "enterPause", "ackCancel"}
         /\ OnWake[d] \in {"paused", "resuming", "ackCancelPaused"}
         /\ OnDirective[d] \in Places /\ OnWake[d] \in Places
BY PlacesAre DEF Directives, OnDirective, OnWake

(* Moving one coroutine moves no other, and never back to the unborn. *)
LEMMA GoesTyped ==
  ASSUME TypeOK, NEW e \in Executions, NEW place \in Places, Goes(e, place)
  PROVE  pc' \in [Executions -> Places]
BY DEF TypeOK, Goes

LEMMA EscapesTyped ==
  ASSUME NEW e
  PROVE  /\ Escapes(e) \in {"escaped", "failOpen", "done"}
         /\ AfterLeaving(e) \in {"escaped", "failOpen", "done"}
         /\ Escapes(e) \in Places /\ AfterLeaving(e) \in Places
BY PlacesAre DEF Escapes, AfterLeaving

LEMMA WriteTyped ==
  ASSUME TypeOK, NEW e, NEW from, NEW to \in Statuses, Write(e, from, to)
  PROVE  status' \in Statuses /\ token' \in Executions \union {0} /\ expired' \in BOOLEAN
BY DEF TypeOK, Write, Release, Statuses

LEMMA TransitionTyped ==
  ASSUME TypeOK, NEW e, Transition(e)
  PROVE  status' \in Statuses /\ token' \in Executions \union {0} /\ expired' \in BOOLEAN
BY DEF TypeOK, Transition, Release, Statuses, Terminal

LEMMA ClosedTyped ==
  ASSUME TypeOK, NEW result \in {"COMPLETED", "FAILED", "CANCELLED"}
  PROVE  Closed(result) \in [Steps -> {"none", "RUNNING", "COMPLETED", "FAILED", "CANCELLED"}]
BY DEF TypeOK, Closed

(* What agno saves has an outcome that _STATUS_MAP maps. *)
Outcomes == {"completed", "failed", "cancelled", "paused"}
SavesItsOutcome == \A e \in Executions : pc[e] = "saving" => outcome[e] \in Outcomes

LEMMA SyncTyped ==
  ASSUME TypeOK, NEW e \in Executions, NEW as \in Outcomes, Sync(e, as)
  PROVE  /\ status' \in Statuses /\ token' \in Executions \union {0} /\ expired' \in BOOLEAN
         /\ node' \in [Steps -> {"none", "RUNNING", "COMPLETED", "FAILED", "CANCELLED"}]
         /\ requirement' \in {"none", "open", "timedOut", "decided"}
<1>1. Mapped[as] \in Statuses
  <2>1. Mapped[as] \in {"COMPLETED", "FAILED", "CANCELLED", "PAUSED"}
    <3>1. /\ Mapped["completed"] = "COMPLETED" /\ Mapped["failed"] = "FAILED"
          /\ Mapped["cancelled"] = "CANCELLED" /\ Mapped["paused"] = "PAUSED"
      BY DEF Mapped
    <3> QED BY <3>1 DEF Outcomes
  <2> QED BY <2>1 DEF Statuses, Terminal, NonTerminal
<1>2. status' \in Statuses /\ token' \in Executions \union {0} /\ expired' \in BOOLEAN
  BY <1>1, WriteTyped DEF Sync
<1>3. node' \in [Steps -> {"none", "RUNNING", "COMPLETED", "FAILED", "CANCELLED"}]
  BY ClosedTyped DEF Sync, TypeOK
<1>4. requirement' \in {"none", "open", "timedOut", "decided"}
  BY DEF Sync, TypeOK
<1> QED BY <1>2, <1>3, <1>4

(* Typing: every step keeps every variable in its type. *)
LEMMA ExecutionStepTyped ==
  ASSUME TypeOK, SavesItsOutcome, NEW e \in Executions, ExecutionStep(e)
  PROVE  TypeOK'
<1> USE BoundsAssumption
<1> USE DEF document, lease, gate, progress, execution, control, reaping
<1>q. /\ Finds(home[e]) \in Directives
      /\ Consumed(home[e]) \in Queues
      /\ Unregistered(e) \in Queues
      /\ Registered(e) \in Queues
      /\ \A d \in Directives \ {"none"} : Queued(home[e], d) \in Queues
  BY QueueTyped DEF TypeOK, Unregistered, Registered
<1>g. ASSUME NEW place \in Places, Goes(e, place) PROVE pc' \in [Executions -> Places]
  BY <1>g, GoesTyped
<1>w. ASSUME NEW from, NEW to \in Statuses, Write(e, from, to)
      PROVE  status' \in Statuses /\ token' \in Executions \union {0} /\ expired' \in BOOLEAN
  BY <1>w, WriteTyped
<1>t. ASSUME Transition(e)
      PROVE  status' \in Statuses /\ token' \in Executions \union {0} /\ expired' \in BOOLEAN
  BY <1>t, TransitionTyped
<1>c. ASSUME NEW result \in {"COMPLETED", "FAILED", "CANCELLED"}
      PROVE  Closed(result) \in [Steps -> {"none", "RUNNING", "COMPLETED", "FAILED", "CANCELLED"}]
  BY ClosedTyped
<1>s. Statuses = Terminal \union NonTerminal /\ {"COMPLETED", "FAILED", "CANCELLED", "RUNNING",
        "PAUSED", "AWAITING_APPROVAL"} \subseteq Statuses
  BY DEF Statuses, Terminal, NonTerminal
<1>1. CASE Start(e)
  <2>1. pc' \in [Executions -> Places]
    BY <1>1, <1>g, EscapesTyped, PlacesAre DEF Start
  <2>2. queue' \in Queues
    BY <1>1, <1>q DEF Start, TypeOK
  <2> QED BY <1>1, <1>w, <1>s, <2>1, <2>2 DEF Start, TypeOK
<1>2. CASE Continue(e)
  <2>1. pc' \in [Executions -> Places]
    BY <1>2, <1>g, EscapesTyped, PlacesAre DEF Continue
  <2>2. queue' \in Queues
    BY <1>2, <1>q DEF Continue, TypeOK
  <2> QED BY <1>2, <2>1, <2>2 DEF Continue, TypeOK
<1>3. CASE Build(e)
  BY <1>3, <1>g, PlacesAre DEF Build, TypeOK
<1>4. CASE CheckDirective(e)
  <2>1. pc' \in [Executions -> Places]
    BY <1>4, <1>g, <1>q, DirectedTyped DEF CheckDirective
  <2> QED BY <1>4, <1>q, <2>1 DEF CheckDirective, TypeOK
<1>5. CASE AckCancel(e)
  <2>1. pc' \in [Executions -> Places]
    BY <1>5, <1>g, PlacesAre DEF AckCancel
  <2> QED BY <1>5, <2>1 DEF AckCancel, Ack, TypeOK, Directives
<1>6. CASE EnterPause(e)
  <2>1. pc' \in [Executions -> Places]
    BY <1>6, <1>g, PlacesAre DEF EnterPause
  <2> QED BY <1>6, <1>s, <2>1 DEF EnterPause, Ack, TypeOK, Directives
<1>7. CASE WakeUp(e)
  <2>1. pc' \in [Executions -> Places]
    BY <1>7, <1>g, <1>q, DirectedTyped DEF WakeUp
  <2> QED BY <1>7, <1>q, <2>1 DEF WakeUp, TypeOK
<1>8. CASE LeavePause(e)
  <2>1. pc' \in [Executions -> Places]
    BY <1>8, <1>g, PlacesAre DEF LeavePause
  <2> QED BY <1>8, <1>s, <2>1 DEF LeavePause, Ack, TypeOK, Directives
<1>9. CASE Recheck(e)
  <2>1. pc' \in [Executions -> Places]
    BY <1>9, <1>g, PlacesAre DEF Recheck
  <2> QED BY <1>9, <2>1 DEF Recheck, TypeOK
<1>10. CASE StartAttempt(e)
  <2>1. pc' \in [Executions -> Places]
    BY <1>10, <1>g, PlacesAre DEF StartAttempt
  <2> QED BY <1>10, <2>1 DEF StartAttempt, TypeOK
<1>11. ASSUME NEW succeeded \in BOOLEAN, EndAttempt(e, succeeded) PROVE TypeOK'
  <2>1. pc' \in [Executions -> Places]
    BY <1>11, <1>g, PlacesAre DEF EndAttempt
  <2>2. attempt' \in [Executions -> 0..(MaxAttempts - 1)]
    BY <1>11 DEF EndAttempt, Retries, TypeOK
  <2>3. outcome' \in [Executions -> {"none", "completed", "failed", "cancelled", "paused", "raised"}]
    BY <1>11 DEF EndAttempt, TypeOK
  <2> QED BY <1>11, <2>1, <2>2, <2>3 DEF EndAttempt, TypeOK
<1>12. ASSUME NEW landed \in BOOLEAN, RecordAttempt(e, landed) PROVE TypeOK'
  <2>1. pc' \in [Executions -> Places]
    BY <1>12, <1>g, PlacesAre DEF RecordAttempt
  <2>2. step' \in [Executions -> Steps] /\ decided' \in [Executions -> BOOLEAN]
    <3>1. step[e] < StepCount => step[e] + 1 \in Steps
      BY DEF TypeOK, Steps
    <3> QED BY <1>12, <3>1 DEF RecordAttempt, TypeOK
  <2>3. attempt' \in [Executions -> 0..(MaxAttempts - 1)]
    BY <1>12 DEF RecordAttempt, TypeOK
  <2>4. outcome' \in [Executions -> {"none", "completed", "failed", "cancelled", "paused", "raised"}]
    BY <1>12 DEF RecordAttempt, TypeOK
  <2>5. node' \in [Steps -> {"none", "RUNNING", "COMPLETED", "FAILED", "CANCELLED"}]
    BY <1>12 DEF RecordAttempt, TypeOK
  <2> QED BY <1>12, <2>1, <2>2, <2>3, <2>4, <2>5 DEF RecordAttempt, TypeOK
<1>13. CASE AgnoEnds(e)
  <2>1. pc' \in [Executions -> Places]
    BY <1>13, <1>g, PlacesAre DEF AgnoEnds
  <2>2. outcome' \in [Executions -> {"none", "completed", "failed", "cancelled", "paused", "raised"}]
    BY <1>13 DEF AgnoEnds, TypeOK
  <2> QED BY <1>13, <2>1, <2>2 DEF AgnoEnds, TypeOK
<1>14. ASSUME NEW synced \in BOOLEAN, SaveSession(e, synced) PROVE TypeOK'
  <2>1. pc' \in [Executions -> Places]
    BY <1>14, <1>g, PlacesAre DEF SaveSession
  <2>2. session' \in Steps
    BY <1>14 DEF SaveSession, TypeOK
  <2>3. /\ status' \in Statuses /\ token' \in Executions \union {0} /\ expired' \in BOOLEAN
        /\ node' \in [Steps -> {"none", "RUNNING", "COMPLETED", "FAILED", "CANCELLED"}]
        /\ requirement' \in {"none", "open", "timedOut", "decided"}
    <3>1. CASE synced
      BY <1>14, <3>1, SyncTyped DEF SaveSession, SavesItsOutcome
    <3>2. CASE ~synced
      BY <1>14, <3>2, <1>s DEF SaveSession, TypeOK
    <3> QED BY <3>1, <3>2
  <2> QED BY <1>14, <1>s, <2>1, <2>2, <2>3 DEF SaveSession, TypeOK
<1>15. CASE ClearRequirements(e)
  <2>1. pc' \in [Executions -> Places]
    BY <1>15, <1>g, PlacesAre DEF ClearRequirements
  <2> QED BY <1>15, <2>1 DEF ClearRequirements, TypeOK
<1>16. CASE HandleOutput(e)
  <2>1. pc' \in [Executions -> Places]
    BY <1>16, <1>g, PlacesAre DEF HandleOutput
  <2>2. status' \in Statuses /\ token' \in Executions \union {0} /\ expired' \in BOOLEAN
    BY <1>16, <1>w, <1>s DEF HandleOutput, TypeOK
  <2>3. requirement' \in {"none", "open", "timedOut", "decided"}
    BY <1>16 DEF HandleOutput, TypeOK
  <2> QED BY <1>16, <1>s, <2>1, <2>2, <2>3 DEF HandleOutput, TypeOK
<1>17. ASSUME NEW to \in {"CANCELLED", "FAILED"}, NEW as \in {"cancelled", "raised"}, Finalize(e, to, as)
       PROVE  TypeOK'
  <2>1. pc' \in [Executions -> Places]
    BY <1>17, <1>g, PlacesAre DEF Finalize
  <2>2. status' \in Statuses /\ token' \in Executions \union {0} /\ expired' \in BOOLEAN
    BY <1>17, <1>w, <1>s DEF Finalize, TypeOK
  <2>3. outcome' \in [Executions -> {"none", "completed", "failed", "cancelled", "paused", "raised"}]
    BY <1>17 DEF Finalize, TypeOK
  <2> QED BY <1>17, <1>s, <2>1, <2>2, <2>3 DEF Finalize, TypeOK
<1>18. CASE FinalizeCancel(e) \/ FinalizeFailure(e)
  BY <1>18, <1>17 DEF FinalizeCancel, FinalizeFailure
<1>19. CASE CloseNodes(e)
  <2>1. pc' \in [Executions -> Places]
    BY <1>19, <1>g, PlacesAre DEF CloseNodes
  <2>2. node' \in [Steps -> {"none", "RUNNING", "COMPLETED", "FAILED", "CANCELLED"}]
    BY <1>19, <1>c DEF CloseNodes
  <2> QED BY <1>19, <2>1, <2>2 DEF CloseNodes, TypeOK
<1>20. CASE Rearm(e)
  <2>1. pc' \in [Executions -> Places]
    BY <1>20, <1>g, PlacesAre DEF Rearm
  <2>2. queue' \in Queues /\ directive' \in Directives
    BY <1>20, <1>q DEF Rearm, TypeOK, Directives
  <2> QED BY <1>20, <2>1, <2>2 DEF Rearm, TypeOK
<1>21. CASE Leave(e)
  <2>1. pc' \in [Executions -> Places]
    BY <1>21, <1>g, EscapesTyped DEF Leave
  <2> QED BY <1>21, <1>q, <2>1 DEF Leave, TypeOK
<1>22. CASE FinalizeEscaped(e)
  <2>1. pc' \in [Executions -> Places]
    BY <1>22, <1>g, PlacesAre DEF FinalizeEscaped
  <2> QED BY <1>22, <1>t, <1>s, <2>1 DEF FinalizeEscaped, TypeOK
<1>23. CASE Stop(e)
  <2>1. pc' \in [Executions -> Places]
    BY <1>23, <1>g, PlacesAre DEF Stop
  <2>2. queue' \in Queues /\ cut' \in BOOLEAN
    BY <1>23, <1>q DEF Stop, Abandoned, Interrupted, TypeOK
  <2> QED BY <1>23, <2>1, <2>2 DEF Stop, TypeOK
<1>24. CASE FailOpenNodes(e)
  <2>1. pc' \in [Executions -> Places]
    BY <1>24, <1>g, PlacesAre DEF FailOpenNodes
  <2> QED BY <1>24, <1>c, <2>1 DEF FailOpenNodes, TypeOK
<1> QED
  BY <1>1, <1>2, <1>3, <1>4, <1>5, <1>6, <1>7, <1>8, <1>9, <1>10, <1>11, <1>12, <1>13, <1>14, <1>15,
     <1>16, <1>18, <1>19, <1>20, <1>21, <1>22, <1>23, <1>24 DEF ExecutionStep

LEMMA MishapTyped ==
  ASSUME TypeOK, SavesItsOutcome, NEW e \in Executions, Mishap(e)
  PROVE  TypeOK'
<1> USE DEF document, lease, gate, progress, execution, control, reaping
<1>g. ASSUME NEW place \in Places, Goes(e, place) PROVE pc' \in [Executions -> Places]
  BY <1>g, GoesTyped
<1>t. ASSUME Transition(e)
      PROVE  /\ status' \in Terminal \union NonTerminal
             /\ token' \in Executions \union {0} /\ expired' \in BOOLEAN
  BY <1>t, TransitionTyped DEF Statuses
<1>1. CASE RefuseSpawn(e)
  <2>1. pc' \in [Executions -> Places]
    BY <1>1, <1>g, PlacesAre DEF RefuseSpawn
  <2> QED BY <1>1, <1>t, <2>1 DEF RefuseSpawn, TypeOK
<1>2. CASE PauseTimeout(e)
  <2>1. pc' \in [Executions -> Places]
    BY <1>2, <1>g, PlacesAre DEF PauseTimeout
  <2> QED BY <1>2, <2>1 DEF PauseTimeout, TypeOK
<1>3. CASE SaveError(e)
  <2>1. "failed" \in Outcomes
    BY DEF Outcomes
  <2>2. /\ status' \in Terminal \union NonTerminal
        /\ token' \in Executions \union {0} /\ expired' \in BOOLEAN
        /\ node' \in [Steps -> {"none", "RUNNING", "COMPLETED", "FAILED", "CANCELLED"}]
        /\ requirement' \in {"none", "open", "timedOut", "decided"}
    BY <1>3, <2>1, SyncTyped DEF SaveError, Statuses
  <2> QED BY <1>3, <2>2 DEF SaveError, TypeOK
<1>4. CASE Raise(e)
  <2>1. pc' \in [Executions -> Places]
    BY <1>4, <1>g, PlacesAre DEF Raise
  <2> QED BY <1>4, <2>1 DEF Raise, TypeOK
<1>5. CASE Shutdown(e)
  <2>1. hook' \in [Executions -> {"none", "matched", "missed"}]
    BY <1>5 DEF Shutdown, TypeOK
  <2> QED BY <1>5, <1>t, <2>1 DEF Shutdown, TypeOK
<1>6. CASE LoseLease(e)
  <2>1. pc' \in [Executions -> Places]
    BY <1>6, <1>g, PlacesAre DEF LoseLease
  <2>2. Unregistered(e) \in Queues
    BY QueueTyped DEF TypeOK, Unregistered
  <2>3. queue' \in Queues /\ cut' \in BOOLEAN
    BY <1>6, <2>2 DEF LoseLease, Abandoned, Interrupted, TypeOK
  <2> QED BY <1>6, <2>1, <2>3 DEF LoseLease, TypeOK
<1> QED BY <1>1, <1>2, <1>3, <1>4, <1>5, <1>6 DEF Mishap

LEMMA CallTyped ==
  ASSUME TypeOK, NEW p \in Pods, NEW at, NEW d, Call(p, at, d),
         (at = "put" /\ d \in Directives \ {"none"}) \/ (at = "prepare" /\ d = "none")
  PROVE  handlers' \subseteq Handlers /\ calls' \in 0..MaxCalls
<1>1. calls + 1 \in 1..MaxCalls
  BY BoundsAssumption DEF Call, TypeOK
<1>2. [id |-> calls + 1, pod |-> p, at |-> at, carries |-> d] \in Handlers
  BY <1>1 DEF Handlers
<1> QED BY <1>1, <1>2, BoundsAssumption DEF Call, TypeOK

LEMMA AdvanceTyped ==
  ASSUME TypeOK, NEW h \in handlers, NEW at, Advance(h, at),
         \/ at = "answered"
         \/ h.carries # "none" /\ at \in {"acancel", "putAgain"}
         \/ h.carries = "none" /\ at \in {"prepare", "acquire"}
  PROVE  handlers' \subseteq Handlers
<1>1. h \in Handlers
  BY DEF TypeOK
<1>2. at # "answered" => [h EXCEPT !.at = at] \in Handlers
  BY <1>1 DEF Handlers
<1> QED BY <1>2 DEF Advance, TypeOK

LEMMA HandlerStepTyped ==
  ASSUME TypeOK, NEW h \in handlers, HandlerStep(h) \/ CallRaises(h)
  PROVE  TypeOK'
<1> USE DEF document, lease, gate, progress, execution, control, reaping
<1>h. /\ h.pod \in Pods
      /\ h.at \in {"put", "acancel", "putAgain"} => h.carries \in Directives \ {"none"}
      /\ h.at \in {"prepare", "acquire"} => h.carries = "none"
  BY DEF TypeOK, Handlers
<1>1. CASE PutDirective(h)
  <2>1. handlers' \subseteq Handlers
    BY <1>1, <1>h, AdvanceTyped DEF PutDirective
  <2>2. queue' \in Queues
    BY <1>1, <1>h, QueueTyped DEF PutDirective, TypeOK
  <2> QED BY <1>1, <2>1, <2>2 DEF PutDirective, TypeOK
<1>2. CASE CancelAgno(h)
  <2>1. handlers' \subseteq Handlers
    BY <1>2, <1>h, AdvanceTyped DEF CancelAgno
  <2> QED BY <1>2, <2>1 DEF CancelAgno, TypeOK, Directives
<1>3. CASE Prepare(h)
  <2>1. handlers' \subseteq Handlers
    BY <1>3, <1>h, AdvanceTyped DEF Prepare
  <2> QED BY <1>3, <2>1 DEF Prepare, TypeOK, Terminal
<1>4. ASSUME NEW answered \in BOOLEAN, Acquire(h, answered) PROVE TypeOK'
  <2>1. handlers' \subseteq Handlers
    BY <1>4, <1>h, AdvanceTyped DEF Acquire
  <2>2. PICK e \in Executions :
          /\ status' = "RUNNING"
          /\ token' = e /\ expired' = FALSE
          /\ Goes(e, IF answered THEN "acquired" ELSE "done")
          /\ home' = [home EXCEPT ![e] = h.pod]
          /\ step' = [step EXCEPT ![e] = session]
          /\ decided' = [decided EXCEPT ![e] = TRUE]
    BY <1>4 DEF Acquire
  <2>3. pc' \in [Executions -> Places]
    BY <2>2, GoesTyped, PlacesAre
  <2>4. /\ home' \in [Executions -> Pods] /\ step' \in [Executions -> Steps]
        /\ decided' \in [Executions -> BOOLEAN]
    BY <2>2, <1>h DEF TypeOK
  <2> QED BY <1>4, <2>1, <2>2, <2>3, <2>4 DEF Acquire, TypeOK, NonTerminal
<1>5. CASE LoseRace(h) \/ CallRaises(h)
  <2>1. handlers' \subseteq Handlers
    BY <1>5, AdvanceTyped DEF LoseRace, CallRaises
  <2> QED BY <1>5, <2>1 DEF LoseRace, CallRaises, TypeOK
<1> QED BY <1>1, <1>2, <1>3, <1>4, <1>5 DEF HandlerStep

LEMMA PodStepTyped ==
  ASSUME TypeOK, NEW p \in Pods, ReaperStep(p) \/ Request(p) \/ Crash(p)
  PROVE  TypeOK'
<1> USE DEF document, lease, gate, progress, execution, control, reaping
<1>1. CASE Reap(p)
  BY <1>1 DEF Reap, Release, TypeOK, Terminal
<1>2. CASE ReapNodes(p)
  BY <1>2, ClosedTyped DEF ReapNodes, TypeOK
<1>3. ASSUME NEW d \in Directives \ {"none"}, NEW from, NEW unless, SendDirective(p, d, from, unless)
      PROVE  TypeOK'
  <2>1. handlers' \subseteq Handlers /\ calls' \in 0..MaxCalls
    BY <1>3, CallTyped DEF SendDirective
  <2> QED BY <1>3, <2>1 DEF SendDirective, TypeOK
<1>4. CASE SendPause(p) \/ SendResume(p) \/ SendCancel(p)
  BY <1>4, <1>3 DEF SendPause, SendResume, SendCancel, Directives
<1>5. CASE Resolve(p)
  <2>1. handlers' \subseteq Handlers /\ calls' \in 0..MaxCalls
    BY <1>5, CallTyped DEF Resolve
  <2> QED BY <1>5, <2>1 DEF Resolve, TypeOK
<1>6. CASE Nudge(p)
  <2>1. handlers' \subseteq Handlers /\ calls' \in 0..MaxCalls
    BY <1>6, CallTyped DEF Nudge
  <2> QED BY <1>6, <2>1 DEF Nudge, TypeOK
<1>7. CASE Crash(p)
  <2>1. pc' \in [Executions -> Places]
    BY <1>7, PlacesAre DEF Crash, TypeOK
  <2>2. queue' \in Queues
    BY <1>7, QueueTyped DEF Crash, TypeOK
  <2>3. handlers' \subseteq Handlers
    BY <1>7 DEF Crash, TypeOK
  <2>4. cut' \in BOOLEAN
    BY <1>7 DEF Crash, TypeOK
  <2> QED BY <1>7, <2>1, <2>2, <2>3, <2>4 DEF Crash, TypeOK
<1> QED BY <1>1, <1>2, <1>4, <1>5, <1>6, <1>7 DEF ReaperStep, Request

(* An outcome is settled before the coroutine goes to save it. *)
LEMMA SavesStep ==
  ASSUME TypeOK, SavesItsOutcome, [Next]_vars
  PROVE  SavesItsOutcome'
<1> USE DEF TypeOK, SavesItsOutcome, Outcomes, Goes, execution, progress
<1>1. ASSUME UNCHANGED <<pc, outcome>> PROVE SavesItsOutcome'
  BY <1>1
<1>2. ASSUME NEW e \in Executions, NEW place, place # "saving", Goes(e, place), UNCHANGED outcome
      PROVE  SavesItsOutcome'
  BY <1>2
<1>3. ASSUME NEW e \in Executions, NEW place, NEW as, Goes(e, place),
             outcome' = [outcome EXCEPT ![e] = as], place # "saving" \/ as \in Outcomes
      PROVE  SavesItsOutcome'
  BY <1>3
<1> HIDE DEF TypeOK, SavesItsOutcome, Outcomes, Goes
<1>4. ASSUME NEW e \in Claimed, ExecutionStep(e) PROVE SavesItsOutcome'
  <2> USE DEF Claimed
  <2>1. CASE Start(e) \/ Continue(e) \/ Build(e)
    BY <2>1, <1>2, EscapesTyped DEF Start, Continue, Build, Escapes
  <2>2. CASE CheckDirective(e) \/ WakeUp(e)
    <3>1. Finds(home[e]) \in Directives
      BY QueueTyped DEF TypeOK
    <3> QED BY <2>2, <1>2, <3>1, DirectedTyped DEF CheckDirective, WakeUp
  <2>3. CASE AckCancel(e) \/ EnterPause(e) \/ LeavePause(e) \/ Recheck(e) \/ StartAttempt(e)
    BY <2>3, <1>2 DEF AckCancel, EnterPause, LeavePause, Recheck, StartAttempt
  <2>4. ASSUME NEW succeeded \in BOOLEAN, EndAttempt(e, succeeded) PROVE SavesItsOutcome'
    BY <2>4, <1>2, <1>3 DEF EndAttempt
  <2>5. ASSUME NEW landed \in BOOLEAN, RecordAttempt(e, landed) PROVE SavesItsOutcome'
    <3>1. {"failed", "completed"} \subseteq Outcomes
      BY DEF Outcomes
    <3> QED BY <2>5, <3>1, <1>2, <1>3 DEF RecordAttempt
  <2>6. CASE AgnoEnds(e)
    <3>1. {"failed", "cancelled", "paused"} \subseteq Outcomes
      BY DEF Outcomes
    <3> QED BY <2>6, <3>1, <1>3 DEF AgnoEnds
  <2>7. ASSUME NEW synced \in BOOLEAN, SaveSession(e, synced) PROVE SavesItsOutcome'
    BY <2>7, <1>2 DEF SaveSession
  <2>8. CASE ClearRequirements(e) \/ HandleOutput(e)
    BY <2>8, <1>2 DEF ClearRequirements, HandleOutput
  <2>9. CASE FinalizeCancel(e) \/ FinalizeFailure(e)
    BY <2>9, <1>3 DEF FinalizeCancel, FinalizeFailure, Finalize
  <2>10. CASE CloseNodes(e) \/ Rearm(e) \/ Leave(e)
    BY <2>10, <1>2, EscapesTyped DEF CloseNodes, Rearm, Leave
  <2>11. CASE FinalizeEscaped(e) \/ Stop(e) \/ FailOpenNodes(e)
    BY <2>11, <1>2 DEF FinalizeEscaped, Stop, FailOpenNodes
  <2> QED
    BY <1>4, <2>1, <2>2, <2>3, <2>4, <2>5, <2>6, <2>7, <2>8, <2>9, <2>10, <2>11 DEF ExecutionStep
<1>5. ASSUME NEW e \in Claimed, Mishap(e) PROVE SavesItsOutcome'
  <2> USE DEF Claimed
  <2>1. CASE RefuseSpawn(e) \/ PauseTimeout(e) \/ Raise(e) \/ LoseLease(e)
    BY <2>1, <1>2 DEF RefuseSpawn, PauseTimeout, Raise, LoseLease
  <2>2. CASE SaveError(e) \/ Shutdown(e)
    BY <2>2, <1>1 DEF SaveError, Shutdown
  <2> QED BY <1>5, <2>1, <2>2 DEF Mishap
<1>6. ASSUME NEW h \in handlers, HandlerStep(h) \/ CallRaises(h) PROVE SavesItsOutcome'
  <2>1. CASE PutDirective(h) \/ CancelAgno(h) \/ Prepare(h) \/ LoseRace(h) \/ CallRaises(h)
    BY <2>1, <1>1 DEF PutDirective, CancelAgno, Prepare, LoseRace, CallRaises
  <2>2. ASSUME NEW answered \in BOOLEAN, Acquire(h, answered) PROVE SavesItsOutcome'
    BY <2>2, <1>2 DEF Acquire
  <2> QED BY <1>6, <2>1, <2>2 DEF HandlerStep
<1>7. ASSUME NEW p \in Pods, ReaperStep(p) \/ Request(p) PROVE SavesItsOutcome'
  BY <1>7, <1>1 DEF ReaperStep, Reap, ReapNodes, Request, SendPause, SendResume, SendCancel,
     SendDirective, Resolve, Nudge
<1>8. ASSUME NEW p \in Pods, Crash(p) PROVE SavesItsOutcome'
  BY <1>8 DEF Crash, TypeOK, SavesItsOutcome
<1>9. CASE Expire \/ GateTimeout \/ UNCHANGED vars
  BY <1>9, <1>1 DEF Expire, GateTimeout, vars
<1> QED BY <1>4, <1>5, <1>6, <1>7, <1>8, <1>9 DEF Next

LEMMA TypeStep ==
  ASSUME TypeOK, SavesItsOutcome, [Next]_vars
  PROVE  TypeOK'
<1>1. CASE \E e \in Claimed : ExecutionStep(e) \/ Mishap(e)
  BY <1>1, ExecutionStepTyped, MishapTyped DEF Claimed
<1>2. CASE \E h \in handlers : HandlerStep(h) \/ CallRaises(h)
  BY <1>2, HandlerStepTyped
<1>3. CASE \E p \in Pods : ReaperStep(p) \/ Request(p) \/ Crash(p)
  BY <1>3, PodStepTyped
<1>4. CASE Expire
  BY <1>4 DEF Expire, TypeOK, execution, progress, control, reaping, gate
<1>5. CASE GateTimeout
  BY <1>5 DEF GateTimeout, TypeOK, execution, progress, control, reaping, lease
<1>6. CASE UNCHANGED vars
  BY <1>6 DEF TypeOK, vars, document, execution, progress, control, reaping, gate, lease
<1> QED BY <1>1, <1>2, <1>3, <1>4, <1>5, <1>6 DEF Next

LEMMA TypeInit == Init => TypeOK /\ SavesItsOutcome
<1> SUFFICES ASSUME Init PROVE TypeOK /\ SavesItsOutcome
  OBVIOUS
<1>1. pc \in [Executions -> Places] /\ SavesItsOutcome
  BY PlacesAre DEF Init, SavesItsOutcome
<1>2. queue \in Queues
  <2>1. <<>> \in Seq(Directives \ {"none"})
    OBVIOUS
  <2> QED BY <2>1 DEF Init, Queues, NoQueue
<1>3. home \in [Executions -> Pods]
  BY DEF Init
<1>4. /\ token \in Executions \union {0} /\ session \in Steps
      /\ step \in [Executions -> Steps] /\ attempt \in [Executions -> 0..(MaxAttempts - 1)]
  BY BoundsAssumption DEF Init, Executions, Steps
<1>5. calls \in 0..MaxCalls
  BY BoundsAssumption DEF Init
<1> QED BY <1>1, <1>2, <1>3, <1>4, <1>5 DEF Init, TypeOK, NonTerminal, Directives

(* Every variable keeps its type: a failed attempt is never counted past    *)
(* StepConfig.max_retries, a queue holds directives only.                  *)
THEOREM TypeCorrect == Spec => []TypeOK
<1>1. TypeOK /\ SavesItsOutcome /\ [Next]_vars => (TypeOK /\ SavesItsOutcome)'
  BY TypeStep, SavesStep
<1> QED BY <1>1, TypeInit, PTL DEF Spec

-----------------------------------------------------------------------------
(* The lease and the status say the same: a run has an executor exactly     *)
(* while its status is a leased one.  And a run that is still PENDING has   *)
(* no coroutine past its start, so that nothing completes it.              *)
Early == {"unborn", "pending", "escaped", "failOpen", "done"}

LeaseFitsStatus ==
  /\ token # 0 <=> status \in Leased
  /\ token # 0 => token \in Claimed
  /\ status = "PENDING" => \A e \in Executions : pc[e] \in Early

Inv == TypeOK /\ SavesItsOutcome /\ LeaseFitsStatus

(* What a step has to show. *)
Implements == LeaseFitsStatus' /\ [Lifecycle!Next]_(Lifecycle!vars)

LEMMA ClaimedStays ==
  ASSUME TypeOK, NEW e \in Claimed, NEW place, place # "unborn", Goes(e, place)
  PROVE  Claimed' = Claimed
BY DEF TypeOK, Claimed, Goes

(* A step that writes neither the status nor the lease. *)
LEMMA SilentStep ==
  ASSUME LeaseFitsStatus, UNCHANGED <<status, token>>, Claimed' = Claimed,
         status = "PENDING" => \A e \in Executions : pc'[e] \in Early
  PROVE  Implements
BY DEF Implements, LeaseFitsStatus, Lifecycle!vars

(* The coroutine of e moves, and the step writes neither of them. *)
LEMMA SilentMove ==
  ASSUME Inv, NEW e \in Claimed, NEW place, place # "unborn", Goes(e, place),
         UNCHANGED <<status, token>>, pc[e] \in Early => place \in Early
  PROVE  Implements
<1>1. status = "PENDING" => \A f \in Executions : pc'[f] \in Early
  BY DEF Inv, TypeOK, LeaseFitsStatus, Goes, Claimed
<1> QED BY <1>1, ClaimedStays, SilentStep DEF Inv

(* A write of the executor: what it may write depends on where it is. *)
LEMMA LoudStep ==
  ASSUME Inv, NEW e \in Claimed, NEW from, NEW to, Write(e, from, to),
         Claimed' = Claimed,
         status = "PENDING" => \A f \in Executions : pc'[f] \in Early \/ Writable(e, from),
         \/ to = "FAILED" /\ from \subseteq NonTerminal
         \/ to = "AWAITING_APPROVAL" /\ from \subseteq {"RUNNING", "PAUSED"}
         \/ to = "RUNNING" /\ from = {"PENDING"}
         \/ to \in {"COMPLETED", "CANCELLED", "PAUSED"} /\ status # "PENDING"
  PROVE  Implements
<1> USE DEF Inv, TypeOK, LeaseFitsStatus, Leased, Terminal, NonTerminal, Releasing
<1>0. e # 0
  BY DEF Claimed, Executions
<1>1. CASE ~Writable(e, from)
  <2>1. UNCHANGED <<status, token>>
    BY <1>1 DEF Write
  <2> QED BY <1>1, <2>1, SilentStep
<1>2. CASE Writable(e, from)
  <2>1. status \in Leased /\ status \in from /\ token = e /\ status' = to
    BY <1>0, <1>2 DEF Write, Writable
  <2>2. token' = IF to \in Releasing THEN 0 ELSE token
    BY <1>2 DEF Write, Release
  <2>3. LeaseFitsStatus'
    BY <1>0, <2>1, <2>2
  <2>4. Lifecycle!Next \/ UNCHANGED <<status, token, Claimed>>
    BY <2>1, <2>2 DEF Lifecycle!Next, Lifecycle!Start, Lifecycle!Pause, Lifecycle!Hold, Lifecycle!End,
       Lifecycle!Fail
  <2> QED BY <2>3, <2>4 DEF Implements, Lifecycle!vars
<1> QED BY <1>1, <1>2

LEMMA TransitionStep ==
  ASSUME Inv, NEW e \in Claimed, Transition(e), Claimed' = Claimed,
         status = "PENDING" => \A f \in Executions : pc'[f] \in Early \/ Transitions(e)
  PROVE  Implements
<1> USE DEF Inv, TypeOK, LeaseFitsStatus, Leased, Terminal, NonTerminal
<1>1. CASE ~Transitions(e)
  <2>1. UNCHANGED <<status, token>>
    BY <1>1 DEF Transition
  <2> QED BY <1>1, <2>1, SilentStep
<1>2. CASE Transitions(e)
  <2>1. status \in Leased /\ status' = "FAILED" /\ token' = 0
    BY <1>2 DEF Transition, Transitions, Release
  <2>2. LeaseFitsStatus' /\ Lifecycle!Fail
    BY <2>1 DEF Lifecycle!Fail
  <2> QED BY <2>2 DEF Implements, Lifecycle!Next
<1> QED BY <1>1, <1>2

LEMMA ExecutionStepImplements ==
  ASSUME Inv, NEW e \in Claimed, ExecutionStep(e)
  PROVE  Implements
<1> USE DEF Claimed, document, lease, gate, execution, progress
<1>m. ASSUME NEW place, place # "unborn", Goes(e, place), UNCHANGED <<status, token>>,
             pc[e] \in Early => place \in Early
      PROVE  Implements
  BY <1>m, SilentMove
<1>c. ASSUME NEW place, place # "unborn", Goes(e, place) PROVE Claimed' = Claimed
  BY <1>c, ClaimedStays DEF Inv
<1>p. ASSUME pc[e] \notin Early PROVE status # "PENDING"
  BY <1>p DEF Inv, LeaseFitsStatus
<1>e. ASSUME NEW place \in Early, Goes(e, place)
      PROVE  status = "PENDING" => \A f \in Executions : pc'[f] \in Early
  BY <1>e DEF Inv, TypeOK, LeaseFitsStatus, Goes
<1>s. ASSUME NEW as \in Outcomes, Sync(e, as), pc[e] \notin Early, Claimed' = Claimed
      PROVE  Implements
  <2>1. Mapped[as] \in {"COMPLETED", "FAILED", "CANCELLED", "PAUSED"}
    <3>1. /\ Mapped["completed"] = "COMPLETED" /\ Mapped["failed"] = "FAILED"
          /\ Mapped["cancelled"] = "CANCELLED" /\ Mapped["paused"] = "PAUSED"
      BY DEF Mapped
    <3> QED BY <3>1 DEF Outcomes
  <2>2. Write(e, NonTerminal, Mapped[as]) /\ status # "PENDING"
    BY <1>s, <1>p DEF Sync
  <2> QED BY <1>s, <2>1, <2>2, LoudStep
<1>1. CASE Start(e)
  <2>1. PICK place \in {"building", "done", Escapes(e)} :
          /\ Goes(e, place)
          /\ place = "building" => Writable(e, {"PENDING"})
    <3>1. \/ Goes(e, "building") /\ Writable(e, {"PENDING"})
          \/ Goes(e, "done")
          \/ Goes(e, Escapes(e))
      BY <1>1 DEF Start
    <3>2. "done" # "building" /\ Escapes(e) # "building"
      BY EscapesTyped
    <3> QED BY <3>1, <3>2
  <2>2. place \in Early \/ place = "building"
    BY <2>1, EscapesTyped DEF Early
  <2>3. Claimed' = Claimed
    BY <2>1, <2>2, <1>c DEF Early, Escapes
  <2>4. Write(e, {"PENDING"}, "RUNNING")
    BY <1>1 DEF Start
  <2> QED BY <2>1, <2>2, <2>3, <2>4, <1>e, LoudStep
<1>2. CASE Continue(e)
  <2>1. pc[e] \notin Early /\ UNCHANGED <<status, token>>
    BY <1>2 DEF Continue, Early
  <2>2. PICK place \in {"building", Escapes(e)} : Goes(e, place)
    BY <1>2 DEF Continue
  <2> QED BY <2>1, <2>2, <1>m, EscapesTyped
<1>3. CASE Build(e) \/ AckCancel(e) \/ Recheck(e) \/ StartAttempt(e) \/ ClearRequirements(e)
  BY <1>3, <1>m DEF Build, AckCancel, Ack, Recheck, StartAttempt, ClearRequirements, Early
<1>4. CASE CheckDirective(e) \/ WakeUp(e)
  <2>1. Finds(home[e]) \in Directives
    BY QueueTyped DEF Inv, TypeOK
  <2> QED BY <1>4, <2>1, <1>m, DirectedTyped DEF CheckDirective, WakeUp, Early
<1>5. CASE EnterPause(e)
  <2>1. CASE Acks(e, "PAUSE", {"RUNNING"})
    <3>1. status = "RUNNING" /\ status' = "PAUSED" /\ UNCHANGED token /\ Goes(e, "paused")
      BY <1>5, <2>1 DEF EnterPause, Ack, Acks, Writable
    <3>2. Claimed' = Claimed
      BY <3>1, <1>c
    <3> QED BY <3>1, <3>2 DEF Inv, Implements, LeaseFitsStatus, Leased, Lifecycle!Next, Lifecycle!Pause
  <2>2. CASE ~Acks(e, "PAUSE", {"RUNNING"})
    BY <1>5, <2>2, <1>m DEF EnterPause, Ack, Early
  <2> QED BY <2>1, <2>2
<1>6. CASE LeavePause(e)
  <2>1. CASE Acks(e, "RESUME", {"PAUSED"})
    <3>1. status = "PAUSED" /\ status' = "RUNNING" /\ UNCHANGED token /\ Goes(e, "start")
      BY <1>6, <2>1 DEF LeavePause, Ack, Acks, Writable
    <3>2. Claimed' = Claimed
      BY <3>1, <1>c
    <3> QED BY <3>1, <3>2 DEF Inv, Implements, LeaseFitsStatus, Leased, Lifecycle!Next, Lifecycle!Resume
  <2>2. CASE ~Acks(e, "RESUME", {"PAUSED"})
    BY <1>6, <2>2, <1>m DEF LeavePause, Ack, Early
  <2> QED BY <2>1, <2>2
<1>7. ASSUME NEW succeeded \in BOOLEAN, EndAttempt(e, succeeded) PROVE Implements
  BY <1>7, <1>m DEF EndAttempt, Early
<1>8. ASSUME NEW landed \in BOOLEAN, RecordAttempt(e, landed) PROVE Implements
  BY <1>8, <1>m DEF RecordAttempt, Early
<1>9. CASE AgnoEnds(e)
  BY <1>9, <1>m DEF AgnoEnds, Early
<1>10. ASSUME NEW synced \in BOOLEAN, SaveSession(e, synced) PROVE Implements
  <2>1. PICK place \in {"output", "clearing"} : Goes(e, place)
    BY <1>10 DEF SaveSession
  <2>2. pc[e] = "saving" /\ outcome[e] \in Outcomes
    BY <1>10 DEF SaveSession, Inv, SavesItsOutcome
  <2>3. CASE synced
    BY <1>10, <2>1, <2>2, <2>3, <1>c, <1>s DEF SaveSession, Early
  <2>4. CASE ~synced
    BY <1>10, <2>1, <2>2, <2>4, <1>m DEF SaveSession, Early
  <2> QED BY <2>3, <2>4
<1>11. CASE HandleOutput(e)
  <2>1. PICK place \in {"leaving", "failing"} : Goes(e, place)
    BY <1>11 DEF HandleOutput
  <2>2. Claimed' = Claimed /\ pc[e] = "output" /\ status # "PENDING"
    BY <1>11, <2>1, <1>c, <1>p DEF HandleOutput, Early
  <2>3. CASE Write(e, NonTerminal, "FAILED")
    BY <2>2, <2>3, LoudStep
  <2>4. CASE Write(e, {"RUNNING", "PAUSED"}, "AWAITING_APPROVAL")
    BY <2>2, <2>4, LoudStep
  <2>5. CASE UNCHANGED <<status, token>>
    BY <2>1, <2>2, <2>5, <1>m DEF Early
  <2> QED BY <1>11, <2>3, <2>4, <2>5 DEF HandleOutput
<1>12. ASSUME NEW to \in {"CANCELLED", "FAILED"}, NEW as, Finalize(e, to, as), pc[e] \notin Early
       PROVE  Implements
  <2>1. PICK place \in {"closing", "leaving"} : Goes(e, place)
    BY <1>12 DEF Finalize
  <2>2. Claimed' = Claimed /\ status # "PENDING"
    BY <1>12, <2>1, <1>c, <1>p
  <2>3. CASE Write(e, NonTerminal, to)
    BY <2>2, <2>3, LoudStep
  <2>4. CASE UNCHANGED <<status, token>>
    BY <1>12, <2>1, <2>4, <1>m
  <2> QED BY <1>12, <2>3, <2>4 DEF Finalize
<1>13. CASE FinalizeCancel(e) \/ FinalizeFailure(e)
  BY <1>13, <1>12 DEF FinalizeCancel, FinalizeFailure, Early
<1>14. CASE CloseNodes(e)
  <2>1. PICK place \in {"rearm", "leaving"} : Goes(e, place)
    BY <1>14 DEF CloseNodes
  <2> QED BY <1>14, <2>1, <1>m DEF CloseNodes, Early
<1>15. CASE Rearm(e) \/ Leave(e)
  BY <1>15, <1>m, EscapesTyped DEF Rearm, Leave, Early
<1>16. CASE FinalizeEscaped(e)
  <2>1. Goes(e, "done") /\ Transition(e) /\ "done" \in Early
    BY <1>16 DEF FinalizeEscaped, Early
  <2> QED BY <2>1, <1>c, <1>e, TransitionStep
<1>17. CASE Stop(e) \/ FailOpenNodes(e)
  BY <1>17, <1>m DEF Stop, FailOpenNodes, Early
<1> QED
  BY <1>1, <1>2, <1>3, <1>4, <1>5, <1>6, <1>7, <1>8, <1>9, <1>10, <1>11, <1>13, <1>14, <1>15, <1>16,
     <1>17 DEF ExecutionStep

LEMMA MishapImplements ==
  ASSUME Inv, NEW e \in Claimed, Mishap(e)
  PROVE  Implements
<1> USE DEF Claimed, document, lease, gate, execution, progress
<1>m. ASSUME NEW place, place # "unborn", Goes(e, place), UNCHANGED <<status, token>>,
             pc[e] \in Early => place \in Early
      PROVE  Implements
  BY <1>m, SilentMove
<1>1. CASE RefuseSpawn(e)
  <2>1. Goes(e, "done") /\ Transition(e)
    BY <1>1 DEF RefuseSpawn
  <2>2. Claimed' = Claimed
    BY <2>1, ClaimedStays DEF Inv
  <2>3. status = "PENDING" => \A f \in Executions : pc'[f] \in Early
    BY <2>1 DEF Inv, TypeOK, LeaseFitsStatus, Goes, Early
  <2> QED BY <2>1, <2>2, <2>3, TransitionStep
<1>2. CASE PauseTimeout(e) \/ Raise(e) \/ LoseLease(e)
  BY <1>2, <1>m DEF PauseTimeout, Raise, LoseLease, Early, Stepping
<1>3. CASE SaveError(e)
  <2>1. Write(e, NonTerminal, "FAILED") /\ UNCHANGED pc
    BY <1>3 DEF SaveError, Sync, Mapped
  <2>2. Claimed' = Claimed /\ status # "PENDING"
    BY <1>3, <2>1 DEF SaveError, Inv, LeaseFitsStatus, Early
  <2> QED BY <2>1, <2>2, LoudStep
<1>4. CASE Shutdown(e)
  <2>1. Transition(e) /\ UNCHANGED pc
    BY <1>4 DEF Shutdown
  <2>2. status = "PENDING" => \A f \in Executions : pc'[f] \in Early
    BY <2>1 DEF Inv, LeaseFitsStatus
  <2> QED BY <2>1, <2>2, TransitionStep
<1> QED BY <1>1, <1>2, <1>3, <1>4 DEF Mishap

(* The control plane and the reaper. *)
LEMMA OutsideStepImplements ==
  ASSUME Inv,
         \/ \E h \in handlers : HandlerStep(h) \/ CallRaises(h)
         \/ \E p \in Pods : ReaperStep(p) \/ Request(p) \/ Crash(p)
         \/ Expire \/ GateTimeout \/ UNCHANGED vars
  PROVE  Implements
<1> USE DEF document, lease, gate, execution, progress, control, reaping
<1>1. ASSUME UNCHANGED <<status, token, pc>> PROVE Implements
  BY <1>1, SilentStep DEF Inv, LeaseFitsStatus, Claimed
<1>2. ASSUME UNCHANGED pc, status' = "FAILED", token' = 0, status \in NonTerminal PROVE Implements
  <2>1. Lifecycle!Fail
    BY <1>2 DEF Lifecycle!Fail, NonTerminal, Claimed
  <2>2. LeaseFitsStatus'
    BY <1>2 DEF LeaseFitsStatus, Leased
  <2> QED BY <2>1, <2>2 DEF Implements, Lifecycle!Next
<1>3. ASSUME NEW h \in handlers, NEW answered \in BOOLEAN, Acquire(h, answered) PROVE Implements
  <2>1. PICK e \in Executions : /\ pc[e] = "unborn"
                                /\ status' = "RUNNING" /\ token' = e
                                /\ Goes(e, IF answered THEN "acquired" ELSE "done")
    BY <1>3 DEF Acquire
  <2>2. status = "AWAITING_APPROVAL"
    BY <1>3 DEF Acquire, Acquirable
  <2>3. Claimed' = Claimed \union {e} /\ e \notin Claimed
    BY <2>1 DEF Inv, TypeOK, Goes, Claimed
  <2>4. Lifecycle!Continue
    BY <2>1, <2>2, <2>3 DEF Lifecycle!Continue
  <2>5. LeaseFitsStatus'
    BY <2>1, <2>3 DEF LeaseFitsStatus, Leased, Executions
  <2> QED BY <2>4, <2>5 DEF Implements, Lifecycle!Next
<1>4. ASSUME NEW h \in handlers, Prepare(h) PROVE Implements
  <2>1. CASE UNCHANGED status
    BY <1>4, <1>1, <2>1 DEF Prepare
  <2>2. CASE status = "AWAITING_APPROVAL" /\ status' = "FAILED"
    <3>1. token' = 0
      BY <1>4, <2>2 DEF Prepare, Inv, TypeOK, LeaseFitsStatus, Leased
    <3> QED BY <1>4, <1>2, <2>2, <3>1 DEF Prepare, NonTerminal
  <2> QED BY <1>4, <2>1, <2>2 DEF Prepare
<1>5. ASSUME NEW h \in handlers, HandlerStep(h) \/ CallRaises(h) PROVE Implements
  BY <1>1, <1>3, <1>4, <1>5 DEF HandlerStep, PutDirective, CancelAgno, LoseRace, CallRaises
<1>6. ASSUME NEW p \in Pods, ReaperStep(p) PROVE Implements
  BY <1>1, <1>2, <1>6 DEF ReaperStep, Reap, ReapNodes, Release, Leased, NonTerminal
<1>7. ASSUME NEW p \in Pods, Request(p) PROVE Implements
  BY <1>1, <1>7 DEF Request, SendPause, SendResume, SendCancel, SendDirective, Resolve, Nudge
<1>8. ASSUME NEW p \in Pods, Crash(p) PROVE Implements
  <2>1. Claimed' = Claimed
    BY <1>8 DEF Crash, Claimed
  <2>2. status = "PENDING" => \A e \in Executions : pc'[e] \in Early
    BY <1>8 DEF Crash, Inv, LeaseFitsStatus, Early
  <2> QED BY <1>8, <2>1, <2>2, SilentStep DEF Crash, Inv
<1>9. CASE Expire \/ GateTimeout \/ UNCHANGED vars
  BY <1>1, <1>9 DEF Expire, GateTimeout, vars
<1> QED BY <1>5, <1>6, <1>7, <1>8, <1>9

LEMMA StepImplements ==
  ASSUME Inv, [Next]_vars PROVE Inv' /\ [Lifecycle!Next]_(Lifecycle!vars)
<1>1. Implements
  BY ExecutionStepImplements, MishapImplements, OutsideStepImplements DEF Next
<1> QED BY <1>1, TypeStep, SavesStep DEF Inv, Implements

LEMMA InitImplements ==
  ASSUME Init PROVE Inv /\ Lifecycle!Init
<1>1. 1 \in Executions
  BY BoundsAssumption DEF Executions
<1>2. token = 1 /\ status = "PENDING" /\ Claimed = {1}
  BY <1>1 DEF Init, Claimed
<1>3. LeaseFitsStatus
  BY <1>2 DEF Init, LeaseFitsStatus, Leased, Early
<1> QED BY <1>1, <1>2, <1>3, TypeInit DEF Inv, Lifecycle!Init

(* The run keeps what RunLifecycle promises, whatever its writers do, stall  *)
(* or crash: its executor is a fresh claim each time it is continued, it   *)
(* has one exactly while it is PENDING, RUNNING or PAUSED, and its first   *)
(* terminal status is its last.                                            *)
THEOREM ImplementsLifecycle == Spec => RunLifecycleSpec
<1>1. Init => Inv /\ Lifecycle!Init
  BY InitImplements
<1>2. Inv /\ [Next]_vars => Inv' /\ [Lifecycle!Next]_(Lifecycle!vars)
  BY StepImplements
<1> QED BY <1>1, <1>2, PTL DEF Spec, RunLifecycleSpec, Lifecycle!Spec

-----------------------------------------------------------------------------
(* A coroutine drives its run until agno saves the outcome; from then on    *)
(* its lease may be gone.  A lease that lapsed has no coroutine any more,  *)
(* as long as no execution stalls past its lease.                          *)
Driving == {"pending", "acquired", "building"} \union Stepping

DriversHold ==
  \A e \in Executions : pc[e] \in Driving => token = e \/ hook[e] = "matched"

LapsedIsIdle == expired /\ token # 0 => pc[token] \notin Coupled

LeaseInv == Inv /\ DriversHold /\ LapsedIsIdle

LEMMA DrivingIs ==
  /\ Driving = {"pending", "acquired", "building", "boundary", "enterPause", "paused", "resuming",
                "recheck", "ackCancel", "ackCancelPaused", "start", "executing", "record"}
  /\ Driving \subseteq Coupled
BY DEF Driving, Stepping, Coupled

(* The steps of e, apart from its hook: wherever e drives afterwards it did  *)
(* before, and the lease it holds is released only as it stops driving.    *)
Orderly(e, place) ==
  /\ Goes(e, place)
  /\ place \in Driving => pc[e] \in Driving
  /\ place \in Coupled => pc[e] \in Coupled
  /\ UNCHANGED hook
  /\ \/ UNCHANGED <<token, expired>>
     \/ token = e /\ token' = 0 /\ place \notin Driving

LEMMA OrderlyStep ==
  ASSUME LeaseInv, NEW e \in Executions, NEW place, Orderly(e, place)
  PROVE  DriversHold' /\ LapsedIsIdle'
<1> USE DEF LeaseInv, Inv, TypeOK, Orderly, Goes
<1>1. \A f \in Executions : pc'[f] = IF f = e THEN place ELSE pc[f]
  OBVIOUS
<1>2. DriversHold'
  BY <1>1 DEF DriversHold, Executions
<1>3. LapsedIsIdle'
  <2>1. CASE UNCHANGED <<token, expired>>
    BY <1>1, <2>1 DEF LapsedIsIdle
  <2>2. CASE token' = 0
    BY <2>2 DEF LapsedIsIdle
  <2> QED BY <2>1, <2>2
<1> QED BY <1>2, <1>3

(* What a write does to the lease of its execution. *)
LEMMA WriteOnLease ==
  ASSUME NEW e, NEW from, NEW to, Write(e, from, to)
  PROVE  \/ UNCHANGED <<token, expired>>
         \/ token = e /\ token' = 0 /\ to \in Releasing
BY DEF Write, Writable, Release

LEMMA TransitionOnLease ==
  ASSUME NEW e, Transition(e)
  PROVE  \/ ~Transitions(e) /\ UNCHANGED <<token, expired>>
         \/ Transitions(e) /\ token = e /\ token' = 0
BY DEF Transition, Transitions, Release

LEMMA ExecutionStepOrderly ==
  ASSUME LeaseInv, NEW e \in Claimed, ExecutionStep(e)
  PROVE  DriversHold' /\ LapsedIsIdle'
<1> USE DEF document, lease, gate, execution, progress
<1>e. e \in Executions
  BY DEF Claimed
<1>m. ASSUME NEW place, Goes(e, place), place \in Driving => pc[e] \in Driving,
             place \in Coupled => pc[e] \in Coupled, UNCHANGED hook,
             \/ UNCHANGED <<token, expired>>
             \/ token = e /\ token' = 0 /\ place \notin Driving
      PROVE  DriversHold' /\ LapsedIsIdle'
  BY <1>m, <1>e, OrderlyStep DEF Orderly
<1>p. /\ pc[e] \in Driving => pc[e] \in Coupled
      /\ \A place \in {"escaped", "failOpen", "done"} : place \notin Coupled /\ place \notin Driving
      /\ {"saving", "clearing", "output", "cancelling", "failing", "closing", "rearm", "leaving"}
           \subseteq Coupled \ Driving
  BY DrivingIs DEF Coupled, Stepping
<1>r. "RUNNING" \notin Releasing
  BY DEF Releasing, Terminal
<1>1. CASE Start(e)
  <2>1. pc[e] = "pending" /\ pc[e] \in Driving /\ UNCHANGED hook /\ Write(e, {"PENDING"}, "RUNNING")
    BY <1>1, DrivingIs DEF Start
  <2>2. UNCHANGED <<token, expired>>
    BY <2>1, <1>r, WriteOnLease
  <2>3. Goes(e, "building") \/ Goes(e, "done") \/ Goes(e, Escapes(e))
    BY <1>1 DEF Start
  <2> QED BY <2>1, <2>2, <2>3, <1>m, <1>p
<1>2. CASE Continue(e)
  <2>1. pc[e] \in Driving /\ UNCHANGED hook /\ UNCHANGED <<token, expired>>
    BY <1>2, DrivingIs DEF Continue
  <2>2. Goes(e, "building") \/ Goes(e, Escapes(e))
    BY <1>2 DEF Continue
  <2> QED BY <2>1, <2>2, <1>m, <1>p
<1>3. CASE Build(e) \/ StartAttempt(e)
  <2>1. pc[e] \in Driving /\ UNCHANGED hook /\ UNCHANGED <<token, expired>>
    BY <1>3, DrivingIs DEF Build, StartAttempt
  <2> QED BY <1>3, <2>1, <1>m, <1>p DEF Build, StartAttempt
<1>4. CASE CheckDirective(e) \/ WakeUp(e)
  <2>1. pc[e] \in Driving /\ UNCHANGED hook /\ UNCHANGED <<token, expired>>
    BY <1>4, DrivingIs DEF CheckDirective, WakeUp
  <2> QED BY <1>4, <2>1, <1>m, <1>p DEF CheckDirective, WakeUp
<1>5. CASE AckCancel(e) \/ EnterPause(e) \/ LeavePause(e) \/ Recheck(e)
  <2>1. pc[e] \in Driving /\ UNCHANGED hook /\ UNCHANGED <<token, expired>>
    BY <1>5, DrivingIs DEF AckCancel, EnterPause, LeavePause, Recheck
  <2> QED BY <1>5, <2>1, <1>m, <1>p DEF AckCancel, EnterPause, LeavePause, Recheck
<1>6. ASSUME NEW succeeded \in BOOLEAN, EndAttempt(e, succeeded) PROVE DriversHold' /\ LapsedIsIdle'
  <2>1. pc[e] \in Driving /\ UNCHANGED hook /\ UNCHANGED <<token, expired>>
    BY <1>6, DrivingIs DEF EndAttempt
  <2> QED BY <1>6, <2>1, <1>m, <1>p DEF EndAttempt
<1>7. ASSUME NEW landed \in BOOLEAN, RecordAttempt(e, landed) PROVE DriversHold' /\ LapsedIsIdle'
  <2>1. pc[e] \in Driving /\ UNCHANGED hook /\ UNCHANGED <<token, expired>>
    BY <1>7, DrivingIs DEF RecordAttempt
  <2> QED BY <1>7, <2>1, <1>m, <1>p DEF RecordAttempt
<1>8. CASE AgnoEnds(e)
  <2>1. pc[e] \in Driving /\ UNCHANGED hook /\ UNCHANGED <<token, expired>>
    BY <1>8, DrivingIs DEF AgnoEnds
  <2> QED BY <1>8, <2>1, <1>m, <1>p DEF AgnoEnds
(* Past its steps, the execution may release its lease wherever it goes. *)
<1>t. ASSUME NEW place, Goes(e, place), place \notin Driving, place \in Coupled => pc[e] \in Coupled,
             UNCHANGED hook,
             UNCHANGED <<token, expired>> \/ (token = e /\ token' = 0)
      PROVE  DriversHold' /\ LapsedIsIdle'
  BY <1>t, <1>m
<1>9. ASSUME NEW synced \in BOOLEAN, SaveSession(e, synced) PROVE DriversHold' /\ LapsedIsIdle'
  <2>1. pc[e] = "saving" /\ UNCHANGED hook /\ (Goes(e, "output") \/ Goes(e, "clearing"))
    BY <1>9 DEF SaveSession
  <2>2. UNCHANGED <<token, expired>> \/ (token = e /\ token' = 0)
    BY <1>9, WriteOnLease DEF SaveSession, Sync
  <2> QED BY <2>1, <2>2, <1>p, <1>t
<1>10. CASE ClearRequirements(e)
  <2>1. /\ pc[e] = "clearing" /\ Goes(e, "output") /\ UNCHANGED hook
        /\ UNCHANGED <<token, expired>>
    BY <1>10 DEF ClearRequirements
  <2> QED BY <2>1, <1>p, <1>t
<1>11. CASE HandleOutput(e)
  <2>1. pc[e] = "output" /\ UNCHANGED hook /\ (Goes(e, "leaving") \/ Goes(e, "failing"))
    BY <1>11 DEF HandleOutput
  <2>2. UNCHANGED <<token, expired>> \/ (token = e /\ token' = 0)
    BY <1>11, WriteOnLease DEF HandleOutput
  <2> QED BY <2>1, <2>2, <1>p, <1>t
<1>12. CASE FinalizeCancel(e) \/ FinalizeFailure(e)
  <2>1. /\ pc[e] \in {"cancelling", "failing"} /\ UNCHANGED hook
        /\ Goes(e, "closing") \/ Goes(e, "leaving")
    BY <1>12 DEF FinalizeCancel, FinalizeFailure, Finalize
  <2>2. UNCHANGED <<token, expired>> \/ (token = e /\ token' = 0)
    BY <1>12, WriteOnLease DEF FinalizeCancel, FinalizeFailure, Finalize
  <2> QED BY <2>1, <2>2, <1>p, <1>t
<1>13. CASE CloseNodes(e) \/ Rearm(e) \/ Leave(e)
  <2>1. /\ pc[e] \in {"closing", "rearm", "leaving"} /\ UNCHANGED hook
        /\ UNCHANGED <<token, expired>>
        /\ Goes(e, "rearm") \/ Goes(e, "leaving") \/ Goes(e, AfterLeaving(e))
    BY <1>13 DEF CloseNodes, Rearm, Leave
  <2> QED BY <2>1, <1>p, <1>t, EscapesTyped
<1>14. CASE FinalizeEscaped(e)
  <2>1. Goes(e, "done") /\ UNCHANGED hook /\ Transition(e)
    BY <1>14 DEF FinalizeEscaped
  <2> QED BY <2>1, <1>p, <1>t, TransitionOnLease
<1>15. CASE Stop(e) \/ FailOpenNodes(e)
  <2>1. /\ Goes(e, "failOpen") \/ Goes(e, "done")
        /\ UNCHANGED hook /\ UNCHANGED <<token, expired>>
    BY <1>15 DEF Stop, FailOpenNodes
  <2> QED BY <2>1, <1>p, <1>t
<1> QED
  BY <1>1, <1>2, <1>3, <1>4, <1>5, <1>6, <1>7, <1>8, <1>9, <1>10, <1>11, <1>12, <1>13, <1>14,
     <1>15 DEF ExecutionStep

LEMMA MishapOrderly ==
  ASSUME LeaseInv, NEW e \in Claimed, Mishap(e)
  PROVE  DriversHold' /\ LapsedIsIdle'
<1> USE DEF document, lease, gate, execution, progress
<1>e. e \in Executions
  BY DEF Claimed
<1>1. CASE RefuseSpawn(e)
  <2>1. Goes(e, "done") /\ UNCHANGED hook /\ Transition(e)
    BY <1>1 DEF RefuseSpawn
  <2>2. "done" \notin Driving /\ "done" \notin Coupled
    BY DEF Driving, Coupled, Stepping
  <2> QED BY <1>e, <2>1, <2>2, TransitionOnLease, OrderlyStep DEF Orderly
<1>2. CASE PauseTimeout(e) \/ Raise(e) \/ LoseLease(e)
  <2>1. /\ UNCHANGED hook /\ UNCHANGED <<token, expired>>
        /\ pc[e] \in Coupled
        /\ Goes(e, "cancelling") \/ Goes(e, "failing") \/ Goes(e, "done")
    BY <1>2 DEF PauseTimeout, Raise, LoseLease, Coupled, Stepping
  <2>2. {"cancelling", "failing", "done"} \intersect Driving = {}
    BY DrivingIs
  <2> QED BY <1>e, <2>1, <2>2, OrderlyStep DEF Orderly
<1>3. CASE SaveError(e)
  <2>1. /\ UNCHANGED <<pc, hook>>
        /\ UNCHANGED <<token, expired>> \/ (token = e /\ token' = 0)
    BY <1>3, WriteOnLease DEF SaveError, Sync
  <2>2. pc[e] \notin Driving
    BY <1>3, DrivingIs DEF SaveError
  <2> QED BY <2>1, <2>2 DEF LeaseInv, DriversHold, LapsedIsIdle
<1>4. CASE Shutdown(e)
  <2>1. /\ UNCHANGED pc /\ hook[e] = "none"
        /\ hook' = [hook EXCEPT ![e] = IF Transitions(e) THEN "matched" ELSE "missed"]
    BY <1>4 DEF Shutdown
  <2>2. \/ ~Transitions(e) /\ UNCHANGED <<token, expired>>
        \/ Transitions(e) /\ token = e /\ token' = 0
    BY <1>4, TransitionOnLease DEF Shutdown
  <2>3. \A f \in Executions :
          hook'[f] = IF f # e THEN hook[f] ELSE IF Transitions(e) THEN "matched" ELSE "missed"
    BY <1>e, <2>1 DEF LeaseInv, Inv, TypeOK
  <2> QED BY <1>e, <2>1, <2>2, <2>3 DEF LeaseInv, DriversHold, LapsedIsIdle
<1> QED BY <1>1, <1>2, <1>3, <1>4 DEF Mishap

LEMMA OutsideStepOrderly ==
  ASSUME LeaseInv, "stall" \notin Faults,
         \/ \E h \in handlers : HandlerStep(h) \/ CallRaises(h)
         \/ \E p \in Pods : ReaperStep(p) \/ Request(p) \/ Crash(p)
         \/ Expire \/ GateTimeout \/ UNCHANGED vars
  PROVE  DriversHold' /\ LapsedIsIdle'
<1> USE DEF document, lease, gate, execution, progress, control, reaping
<1>1. ASSUME UNCHANGED <<token, expired, pc, hook>> PROVE DriversHold' /\ LapsedIsIdle'
  BY <1>1 DEF LeaseInv, DriversHold, LapsedIsIdle
<1>2. ASSUME NEW h \in handlers, NEW answered \in BOOLEAN, Acquire(h, answered)
      PROVE  DriversHold' /\ LapsedIsIdle'
  <2>1. PICK e \in Executions : /\ pc[e] = "unborn"
                                /\ token' = e /\ expired' = FALSE
                                /\ Goes(e, IF answered THEN "acquired" ELSE "done")
    BY <1>2 DEF Acquire
  <2>2. UNCHANGED hook /\ token = 0
    BY <1>2 DEF Acquire, Acquirable, LeaseInv, Inv, LeaseFitsStatus, Leased
  <2>3. \A f \in Executions : pc'[f] = pc[f] \/ (f = e /\ pc'[f] \in {"acquired", "done"})
    BY <2>1 DEF Goes, LeaseInv, Inv, TypeOK
  <2> QED BY <2>1, <2>2, <2>3 DEF LeaseInv, DriversHold, LapsedIsIdle, Executions
<1>3. ASSUME NEW h \in handlers, HandlerStep(h) \/ CallRaises(h) PROVE DriversHold' /\ LapsedIsIdle'
  BY <1>1, <1>2, <1>3 DEF HandlerStep, PutDirective, CancelAgno, Prepare, LoseRace, CallRaises
<1>4. ASSUME NEW p \in Pods, Reap(p) PROVE DriversHold' /\ LapsedIsIdle'
  <2>1. pc[token] \notin Driving /\ token' = 0 /\ UNCHANGED <<pc, hook>>
    BY <1>4, DrivingIs DEF Reap, Release, LeaseInv, Inv, LeaseFitsStatus, LapsedIsIdle
  <2> QED BY <2>1 DEF LeaseInv, DriversHold, LapsedIsIdle
<1>5. ASSUME NEW p \in Pods, ReapNodes(p) \/ Request(p) PROVE DriversHold' /\ LapsedIsIdle'
  BY <1>1, <1>5 DEF ReapNodes, Request, SendPause, SendResume, SendCancel, SendDirective, Resolve, Nudge
<1>6. ASSUME NEW p \in Pods, Crash(p) PROVE DriversHold' /\ LapsedIsIdle'
  <2>1. /\ \A e \in Executions : pc'[e] \in {"done", pc[e]}
        /\ UNCHANGED <<token, expired, hook>>
    BY <1>6 DEF Crash, LeaseInv, Inv, TypeOK
  <2>2. "done" \notin Driving /\ "done" \notin Coupled
    BY DEF Driving, Coupled, Stepping
  <2> QED BY <2>1, <2>2 DEF LeaseInv, Inv, TypeOK, DriversHold, LapsedIsIdle
<1>7. CASE Expire
  <2>1. pc[token] \notin Coupled /\ UNCHANGED <<pc, token, hook>>
    BY <1>7 DEF Expire
  <2> QED BY <2>1 DEF LeaseInv, DriversHold, LapsedIsIdle
<1>8. CASE GateTimeout \/ UNCHANGED vars
  BY <1>1, <1>8 DEF GateTimeout, vars
<1> QED BY <1>3, <1>4, <1>5, <1>6, <1>7, <1>8 DEF ReaperStep

LEMMA InitOrderly == ASSUME Init PROVE LeaseInv
<1>1. DriversHold /\ LapsedIsIdle
  BY BoundsAssumption, DrivingIs DEF Init, DriversHold, LapsedIsIdle, Executions
<1> QED BY <1>1, InitImplements DEF LeaseInv

LEMMA LeaseStep == ASSUME LeaseInv, [Next]_vars, "stall" \notin Faults PROVE LeaseInv'
<1>1. DriversHold' /\ LapsedIsIdle'
  BY ExecutionStepOrderly, MishapOrderly, OutsideStepOrderly DEF Next
<1> QED BY <1>1, StepImplements DEF LeaseInv

(* As long as no execution stalls past its lease, a coroutine that is at a  *)
(* step or between two is the one the run is leased to, or is being stopped *)
(* behind its own shutdown write: no two ever step the run, through pauses, *)
(* approvals, lost races, crashes and lost heartbeats.                     *)
THEOREM StepsAreExclusive ==
  ASSUME "stall" \notin Faults
  PROVE  Spec => []StepsUnderLease
<1>1. Init => LeaseInv
  BY InitOrderly
<1>2. LeaseInv /\ [Next]_vars => LeaseInv'
  BY LeaseStep
<1>3. LeaseInv => StepsUnderLease
  BY DEF LeaseInv, DriversHold, StepsUnderLease, Driving
<1> QED BY <1>1, <1>2, <1>3, PTL DEF Spec

(* However calls, queues and acknowledgements interleave, a CANCEL leaves   *)
(* the run only in the hands of the coroutine that then aborts.            *)
THEOREM CancelIsKept == Spec => CancelIsNeverErased
<1>1. ASSUME Inv, [Next]_vars, directive = "CANCEL", directive' # "CANCEL"
      PROVE  \E e \in Executions : pc[e] # "cancelling" /\ pc'[e] = "cancelling"
  <2> USE DEF document, lease, gate, execution, progress, control, reaping
  <2>1. ~UNCHANGED directive
    BY <1>1
  <2>2. \A e : Acks(e, "PAUSE", {"RUNNING"}) \/ Acks(e, "RESUME", {"PAUSED"}) => FALSE
    BY <1>1 DEF Acks
  <2>3. ASSUME NEW e \in Claimed, ExecutionStep(e) PROVE AckCancel(e)
    <3>1. ~EnterPause(e) /\ ~LeavePause(e)
      BY <2>1, <2>2 DEF EnterPause, LeavePause, Ack
    <3>2. ~Rearm(e)
      BY <1>1 DEF Rearm
    <3>3. ~Start(e) /\ ~Continue(e) /\ ~Build(e) /\ ~CheckDirective(e) /\ ~WakeUp(e) /\ ~Recheck(e)
      BY <2>1 DEF Start, Continue, Build, CheckDirective, WakeUp, Recheck
    <3>4. /\ ~StartAttempt(e) /\ ~AgnoEnds(e) /\ ~ClearRequirements(e) /\ ~HandleOutput(e)
          /\ \A b \in BOOLEAN : ~EndAttempt(e, b) /\ ~RecordAttempt(e, b) /\ ~SaveSession(e, b)
      BY <2>1 DEF StartAttempt, AgnoEnds, ClearRequirements, HandleOutput, EndAttempt, RecordAttempt,
         SaveSession
    <3>5. ~FinalizeCancel(e) /\ ~FinalizeFailure(e) /\ ~CloseNodes(e) /\ ~Leave(e)
      BY <2>1 DEF FinalizeCancel, FinalizeFailure, Finalize, CloseNodes, Leave
    <3>6. ~FinalizeEscaped(e) /\ ~Stop(e) /\ ~FailOpenNodes(e)
      BY <2>1 DEF FinalizeEscaped, Stop, FailOpenNodes
    <3> QED BY <2>3, <3>1, <3>2, <3>3, <3>4, <3>5, <3>6 DEF ExecutionStep
  <2>4. ASSUME NEW e \in Claimed PROVE ~Mishap(e)
    BY <2>1 DEF Mishap, RefuseSpawn, PauseTimeout, SaveError, Raise, Shutdown, LoseLease
  <2>5. ASSUME NEW h \in handlers PROVE ~HandlerStep(h) /\ ~CallRaises(h)
    BY <1>1 DEF HandlerStep, PutDirective, CancelAgno, Prepare, Acquire, LoseRace, CallRaises
  <2>6. ASSUME NEW p \in Pods PROVE ~ReaperStep(p) /\ ~Request(p) /\ ~Crash(p)
    <3>1. ~ReaperStep(p) /\ ~Crash(p) /\ ~Resolve(p) /\ ~Nudge(p)
      BY <2>1 DEF ReaperStep, Reap, ReapNodes, Crash, Resolve, Nudge
    <3>2. ~SendPause(p) /\ ~SendResume(p) /\ ~SendCancel(p)
      BY <1>1 DEF SendPause, SendResume, SendCancel, SendDirective
    <3> QED BY <3>1, <3>2 DEF Request
  <2>7. ~Expire /\ ~GateTimeout /\ ~UNCHANGED vars
    BY <2>1 DEF Expire, GateTimeout, vars
  <2>8. PICK e \in Claimed : AckCancel(e)
    BY <1>1, <2>3, <2>4, <2>5, <2>6, <2>7 DEF Next
  <2>9. pc[e] # "cancelling" /\ pc'[e] = "cancelling" /\ e \in Executions
    BY <1>1, <2>8 DEF AckCancel, Goes, Claimed, Inv, TypeOK
  <2> QED BY <2>9
<1>2. Inv /\ [Next]_vars =>
        [directive = "CANCEL" /\ directive' # "CANCEL" =>
           \E e \in Executions : pc[e] # "cancelling" /\ pc'[e] = "cancelling"]_vars
  BY <1>1
<1>3. Init => Inv
  BY InitImplements
<1>4. Inv /\ [Next]_vars => Inv'
  BY StepImplements
<1> QED BY <1>2, <1>3, <1>4, PTL DEF Spec, CancelIsNeverErased

-----------------------------------------------------------------------------
(* A finished run leaves no NodeRun open.  Whoever writes the terminal      *)
(* status finds the NodeRuns closed, or closes them afterwards: the        *)
(* invariant says, for every place a coroutine can be at, which of the two *)
(* it is, and that nobody opens one behind its back.                       *)

(* The shutdown hook writes once, and only then is the hook "matched".     *)
MatchedEnds ==
  \A e \in Executions :
    hook[e] = "matched" => /\ status \in Terminal
                           /\ \A f \in Executions : hook[f] = "matched" => f = e

(* Where a run is held, launched, continued or handed back, all are closed. *)
Tidied ==
  /\ status = "AWAITING_APPROVAL" => ~NodesOpen
  /\ \A e \in Executions : pc[e] = "pending" => ~NodesOpen
  /\ \A e \in Executions :
       pc[e] \in {"acquired", "escaped", "clearing", "output"} /\ token = e => ~NodesOpen

(* An execution whose finalizer wrote has no lease, and one that raised has *)
(* none when it leaves.                                                    *)
Synced ==
  \A e \in Executions :
    /\ pc[e] \in {"closing", "rearm"} => token # e
    /\ pc[e] = "leaving" /\ token = e => outcome[e] # "raised"

(* As long as results are recorded, the NodeRun of its step is the only one *)
(* that the executor can leave open, and only while it tries that step.    *)
Recorded ==
  "record" \notin Faults =>
    \A e \in Executions : token = e =>
      /\ pc[e] \in {"building", "saving"} => ~NodesOpen
      /\ pc[e] \in Stepping => \A s \in Steps \ {step[e]} : node[s] # "RUNNING"
      /\ pc[e] \in Stepping \ {"executing", "record"} /\ attempt[e] = 0 => ~NodesOpen

Finalizing == {"cancelling", "failing", "closing", "failOpen"}
WillClose(e) == pc[e] \in Finalizing \/ (hook[e] = "matched" /\ pc[e] \in Coupled)

Tended ==
  status \in Terminal /\ NodesOpen =>
    cut \/ cleaning # {} \/ \E e \in Executions : WillClose(e)

Tidy == MatchedEnds /\ Tidied /\ Synced /\ Tended
TidyInv == LeaseInv /\ Recorded /\ Tidy

LEMMA TerminalStays ==
  ASSUME Inv, [Next]_vars
  PROVE  /\ status \in Terminal => status' = status
         /\ status \in Terminal => token = 0
         /\ status = "AWAITING_APPROVAL" => token = 0
         /\ status' \notin Terminal => status \notin Terminal
<1>1. status \in Terminal => status' = status
  BY StepImplements DEF Lifecycle!Next, Lifecycle!Start, Lifecycle!Pause, Lifecycle!Resume, Lifecycle!Hold,
     Lifecycle!Continue, Lifecycle!End, Lifecycle!Fail, Lifecycle!vars, Terminal
<1>2. /\ status \in Terminal => token = 0
      /\ status = "AWAITING_APPROVAL" => token = 0
  BY DEF Inv, LeaseFitsStatus, Leased, Terminal
<1> QED BY <1>1, <1>2

(* Closing the NodeRuns closes them, and so does ending one of them. *)
LEMMA NodesClosed ==
  ASSUME TypeOK
  PROVE  /\ UNCHANGED node => NodesOpen' = NodesOpen
         /\ \A result \in {"COMPLETED", "FAILED", "CANCELLED"} : node' = Closed(result) => ~NodesOpen'
         /\ \A s \in Steps : node' = [Closed("COMPLETED") EXCEPT ![s] = "FAILED"] => ~NodesOpen'
         /\ \A s \in Steps, result \in {"COMPLETED", "FAILED", "CANCELLED"} :
              node' = [node EXCEPT ![s] = result] /\ NodesOpen' => NodesOpen
<1>1. UNCHANGED node => NodesOpen' = NodesOpen
  BY DEF NodesOpen
<1>2. ASSUME NEW result \in {"COMPLETED", "FAILED", "CANCELLED"}, node' = Closed(result) PROVE ~NodesOpen'
  BY <1>2 DEF NodesOpen, Closed
<1>3. ASSUME NEW s \in Steps, node' = [Closed("COMPLETED") EXCEPT ![s] = "FAILED"] PROVE ~NodesOpen'
  BY <1>3 DEF NodesOpen, Closed
<1>4. ASSUME NEW s \in Steps, NEW result \in {"COMPLETED", "FAILED", "CANCELLED"},
             node' = [node EXCEPT ![s] = result], NodesOpen'
      PROVE  NodesOpen
  BY <1>4 DEF NodesOpen, TypeOK
<1> QED BY <1>1, <1>2, <1>3, <1>4

(* A step of e that ends at place, and what it owes the NodeRuns. *)
Tidily(e, place) ==
  /\ Goes(e, place) /\ place # "pending"
  /\ UNCHANGED <<hook, cleaning>>
  /\ \A f \in Executions \ {e} : outcome'[f] = outcome[f]
  /\ UNCHANGED token \/ token' = 0
  /\ cut => cut'
  /\ NodesOpen' => NodesOpen
  /\ status' \in Terminal => status \in Terminal \/ ~NodesOpen' \/ place \in Finalizing
  /\ status' = "AWAITING_APPROVAL" => status = "AWAITING_APPROVAL" \/ ~NodesOpen'
  /\ place \in {"acquired", "escaped", "clearing", "output"} /\ token' = e => ~NodesOpen'
  /\ place \in {"closing", "rearm"} => token' # e
  /\ place = "leaving" /\ token' = e => outcome'[e] # "raised"
  /\ status \in Terminal /\ WillClose(e) =>
       \/ ~NodesOpen' \/ cut' \/ place \in Finalizing
       \/ hook[e] = "matched" /\ place \in Coupled

LEMMA TidyStep ==
  ASSUME TidyInv, [Next]_vars, NEW e \in Executions, NEW place, Tidily(e, place)
  PROVE  Tidy'
<1>1. /\ \A f \in Executions : pc'[f] = IF f = e THEN place ELSE pc[f]
      /\ hook' = hook /\ cleaning' = cleaning
      /\ \A f \in Executions : f # 0
  BY DEF Tidily, Goes, TidyInv, LeaseInv, Inv, TypeOK, Executions
<1>s. /\ status \in Terminal => status' = status
      /\ status' \notin Terminal => status \notin Terminal
  BY TerminalStays DEF TidyInv, LeaseInv
<1>2. MatchedEnds'
  BY <1>1, <1>s DEF TidyInv, Tidy, MatchedEnds
<1>3. Tidied'
  <2>1. status' = "AWAITING_APPROVAL" => ~NodesOpen'
    BY DEF Tidily, TidyInv, Tidy, Tidied
  <2>2. ASSUME NEW f \in Executions, pc'[f] = "pending" PROVE ~NodesOpen'
    BY <1>1, <2>2 DEF Tidily, TidyInv, Tidy, Tidied
  <2>3. ASSUME NEW f \in Executions, pc'[f] \in {"acquired", "escaped", "clearing", "output"}, token' = f
        PROVE  ~NodesOpen'
    <3>1. CASE f = e
      BY <1>1, <2>3, <3>1 DEF Tidily
    <3>2. CASE f # e
      BY <1>1, <2>3, <3>2 DEF Tidily, TidyInv, Tidy, Tidied
    <3> QED BY <3>1, <3>2
  <2> QED BY <2>1, <2>2, <2>3 DEF Tidied
<1>4. Synced'
  <2> SUFFICES ASSUME NEW f \in Executions
               PROVE  /\ pc'[f] \in {"closing", "rearm"} => token' # f
                      /\ pc'[f] = "leaving" /\ token' = f => outcome'[f] # "raised"
    BY DEF Synced
  <2>1. CASE f = e
    BY <1>1, <2>1 DEF Tidily
  <2>2. CASE f # e
    BY <1>1, <2>2 DEF Tidily, TidyInv, Tidy, Synced
  <2> QED BY <2>1, <2>2
<1>5. Tended'
  <2> SUFFICES ASSUME status' \in Terminal, NodesOpen', ~cut', cleaning' = {}
               PROVE  \E f \in Executions : WillClose(f)'
    BY DEF Tended
  <2>1. NodesOpen /\ ~cut /\ cleaning = {}
    BY <1>1 DEF Tidily
  <2>2. CASE place \in Finalizing
    BY <1>1, <2>2 DEF WillClose
  <2>3. CASE place \notin Finalizing
    <3>1. status \in Terminal
      BY <2>3 DEF Tidily
    <3>2. PICK f \in Executions : WillClose(f)
      BY <2>1, <3>1 DEF TidyInv, Tidy, Tended
    <3>3. CASE f = e
      <4>1. hook[e] = "matched" /\ place \in Coupled
        BY <2>3, <3>2, <3>3 DEF Tidily
      <4> QED BY <1>1, <4>1 DEF WillClose
    <3>4. CASE f # e
      BY <1>1, <3>2, <3>4 DEF WillClose
    <3> QED BY <3>3, <3>4
  <2> QED BY <2>2, <2>3
<1> QED BY <1>2, <1>3, <1>4, <1>5 DEF Tidy

(* A step that moves no coroutine and neither opens NodeRuns nor ends or    *)
(* holds the run.                                                          *)
LEMMA TidyStutter ==
  ASSUME TidyInv, [Next]_vars, UNCHANGED <<pc, hook, outcome, cleaning, cut, node>>,
         UNCHANGED token \/ token' = 0, status' = status
  PROVE  Tidy'
<1>1. NodesOpen' = NodesOpen
  BY NodesClosed DEF TidyInv, LeaseInv, Inv
<1>2. \A e \in Executions : e # 0 /\ WillClose(e)' = WillClose(e)
  BY DEF WillClose, Executions
<1> QED BY <1>1, <1>2 DEF TidyInv, Tidy, MatchedEnds, Tidied, Synced, Tended

(* A step on the way to the saved session. *)
Onward ==
  {"building", "boundary", "enterPause", "paused", "resuming", "recheck", "ackCancel", "ackCancelPaused",
   "start", "executing", "record", "saving", "cancelling", "failing"}

LEMMA OnwardTidily ==
  ASSUME NEW e \in Executions, NEW place \in Onward, Goes(e, place), pc[e] \notin Finalizing \ {"cancelling", "failing"},
         pc[e] \in {"cancelling", "failing"} => place = pc[e],
         UNCHANGED <<token, hook, cleaning, cut>>,
         \A f \in Executions \ {e} : outcome'[f] = outcome[f],
         NodesOpen' => NodesOpen,
         status' = status \/ status' \in {"RUNNING", "PAUSED"}
  PROVE  Tidily(e, place)
<1>1. place \in Coupled
  BY DEF Onward, Coupled, Stepping
<1>2. place \notin {"pending", "acquired", "escaped", "clearing", "output", "closing", "rearm", "leaving"}
  BY DEF Onward
<1>3. WillClose(e) => hook[e] = "matched" \/ place \in Finalizing
  BY DEF WillClose, Finalizing
<1> QED BY <1>1, <1>2, <1>3 DEF Tidily, Terminal

(* A step that leaves the NodeRuns closed. *)
LEMMA ClosedTidily ==
  ASSUME NEW e \in Executions, NEW place, place # "pending", Goes(e, place), ~NodesOpen',
         UNCHANGED <<hook, cleaning>>, cut => cut', UNCHANGED token \/ token' = 0,
         \A f \in Executions \ {e} : outcome'[f] = outcome[f],
         place \in {"closing", "rearm", "leaving"} => token' # e
  PROVE  Tidily(e, place)
BY DEF Tidily

LEMMA ExecutionStepTidy ==
  ASSUME TidyInv, [Next]_vars, "finalize" \notin Faults, "sync" \notin Faults \/ "record" \notin Faults,
         NEW e \in Claimed, ExecutionStep(e)
  PROVE  Tidy'
<1> USE DEF document, lease, gate, execution, progress, control, reaping
<1>e. e \in Executions /\ e # 0
  BY DEF Claimed, Executions
<1>y. TypeOK /\ Inv
  BY DEF TidyInv, LeaseInv, Inv
<1>t. ASSUME NEW place, Tidily(e, place) PROVE Tidy'
  BY <1>e, <1>t, TidyStep
<1>n. /\ UNCHANGED node => NodesOpen' = NodesOpen
      /\ \A result \in {"COMPLETED", "FAILED", "CANCELLED"} : node' = Closed(result) => ~NodesOpen'
  BY <1>y, NodesClosed
<1>z. /\ status \in Terminal => token = 0
      /\ status = "AWAITING_APPROVAL" => token = 0
  BY <1>y, TerminalStays
<1>p. /\ \A place \in {"pending", "acquired", "building", "saving", "clearing", "output", "cancelling", "failing",
                       "closing", "rearm", "leaving", "boundary", "enterPause", "paused", "resuming", "recheck",
                       "ackCancel", "ackCancelPaused", "start", "executing", "record"} : place \in Coupled
      /\ \A place \in {"unborn", "escaped", "failOpen", "done"} : place \notin Coupled
      /\ Finalizing = {"cancelling", "failing", "closing", "failOpen"}
  BY DEF Coupled, Stepping, Finalizing
<1>w. WillClose(e) /\ pc[e] \notin Finalizing => hook[e] = "matched" /\ pc[e] \in Coupled
  BY DEF WillClose
<1>o. /\ pc[e] = "pending" => ~NodesOpen
      /\ pc[e] \in {"acquired", "escaped", "clearing", "output"} /\ token = e => ~NodesOpen
      /\ pc[e] \in {"closing", "rearm"} => token # e
      /\ pc[e] = "leaving" /\ token = e => outcome[e] # "raised"
      /\ pc[e] = "saving" /\ token = e /\ "record" \notin Faults => ~NodesOpen
  BY <1>e DEF TidyInv, Tidy, Tidied, Synced, Recorded
<1>f. "finalize" \notin Faults /\ ("sync" \notin Faults \/ "record" \notin Faults)
  OBVIOUS
<1>h. hook[e] = "matched" => status \in Terminal /\ token = 0
  BY <1>e, <1>z DEF TidyInv, Tidy, MatchedEnds
<1>q. /\ TypeOK /\ outcome \in [Executions -> {"none", "completed", "failed", "cancelled", "paused", "raised"}]
      /\ step[e] \in Steps /\ pc \in [Executions -> Places]
  BY <1>e, <1>y DEF TypeOK
<1>u. ASSUME NEW place \in Onward, Goes(e, place), pc[e] \notin Finalizing, UNCHANGED <<token, hook, cleaning, cut>>,
             \A f \in Executions \ {e} : outcome'[f] = outcome[f], NodesOpen' => NodesOpen,
             status' = status \/ status' \in {"RUNNING", "PAUSED"}
      PROVE  Tidy'
  BY <1>e, <1>t, <1>u, <1>p, OnwardTidily
<1>a. UNCHANGED outcome => \A f \in Executions \ {e} : outcome'[f] = outcome[f]
  OBVIOUS
<1>r. "RUNNING" \notin Releasing /\ "PAUSED" \notin Releasing /\ Terminal \subseteq Releasing
  BY DEF Releasing, Terminal
<1>1. CASE Start(e)
  <2>1. pc[e] = "pending" /\ UNCHANGED <<hook, cleaning, cut, outcome, node>> /\ Write(e, {"PENDING"}, "RUNNING")
    BY <1>1 DEF Start
  <2>2. UNCHANGED token
    BY <2>1, <1>r DEF Write
  <2>3. ~NodesOpen'
    BY <2>1, <1>n, <1>o
  <2>4. ASSUME NEW place \in {"building", "done", "escaped", "failOpen"}, Goes(e, place) PROVE Tidy'
    BY <1>e, <1>t, <2>1, <2>2, <2>3, <2>4, ClosedTidily
  <2> QED BY <1>1, <2>4, EscapesTyped DEF Start
<1>2. CASE Continue(e)
  <2>1. pc[e] = "acquired" /\ UNCHANGED <<status, token, hook, cleaning, cut, outcome, node>>
    BY <1>2 DEF Continue
  <2>2. ASSUME Goes(e, Escapes(e)) PROVE Tidily(e, Escapes(e))
    <3>1. hook[e] = "matched" => Escapes(e) = "failOpen"
      BY DEF Escapes
    <3> QED BY <2>1, <2>2, <3>1, <1>a, <1>n, <1>o, <1>p, <1>w, EscapesTyped DEF Tidily
  <2>3. "building" \in Onward
    BY DEF Onward
  <2> QED BY <1>2, <2>1, <2>2, <2>3, <1>n, <1>p, <1>t, <1>u DEF Continue
<1>3. CASE Build(e) \/ CheckDirective(e) \/ WakeUp(e) \/ AckCancel(e) \/ Recheck(e)
  <2>1. /\ UNCHANGED <<token, hook, cleaning, cut, outcome, node>>
        /\ pc[e] \in {"building", "boundary", "paused", "ackCancel", "ackCancelPaused", "recheck"}
    BY <1>3 DEF Build, CheckDirective, WakeUp, AckCancel, Recheck
  <2>2. \E place \in {"boundary", "start", "enterPause", "ackCancel", "paused", "resuming", "ackCancelPaused",
                      "cancelling"} : Goes(e, place)
    <3>1. Finds(home[e]) \in Directives
      BY <1>e, QueueTyped, <1>y DEF TypeOK
    <3> QED BY <1>3, <3>1, DirectedTyped DEF Build, CheckDirective, WakeUp, AckCancel, Recheck
  <2>3. status' = status
    BY <1>3 DEF Build, CheckDirective, WakeUp, AckCancel, Recheck, Ack
  <2> QED BY <2>1, <2>2, <2>3, <1>n, <1>p, <1>u DEF Onward
<1>4. CASE EnterPause(e) \/ LeavePause(e)
  <2>1. /\ UNCHANGED <<token, hook, cleaning, cut, outcome, node>> /\ pc[e] \in {"enterPause", "resuming"}
        /\ \E place \in {"paused", "recheck", "start"} : Goes(e, place)
        /\ status' = status \/ status' \in {"RUNNING", "PAUSED"}
    BY <1>4 DEF EnterPause, LeavePause, Ack
  <2> QED BY <2>1, <1>n, <1>p, <1>u DEF Onward
<1>5. CASE StartAttempt(e)
  <2>1. pc[e] = "start" /\ pc' = [pc EXCEPT ![e] = "executing"] /\ UNCHANGED <<status, token, hook, cleaning, cut, outcome>>
    BY <1>5 DEF StartAttempt, Goes
  <2>2. token = e \/ hook[e] = "matched"
    BY <2>1, <1>e, DrivingIs DEF TidyInv, LeaseInv, DriversHold
  <2>3. \A f \in Executions : pc'[f] = IF f = e THEN "executing" ELSE pc[f]
    BY <2>1, <1>q
  <2>4. MatchedEnds'
    BY <2>1 DEF TidyInv, Tidy, MatchedEnds
  <2>5. status # "AWAITING_APPROVAL"
    BY <2>2, <1>z, <1>e, <1>h DEF Terminal
  <2>6. ASSUME NEW f \in Executions, pc[f] = "pending", f # e PROVE FALSE
    <3>1. token = f \/ hook[f] = "matched"
      BY <2>6, DrivingIs DEF TidyInv, LeaseInv, DriversHold
    <3> QED BY <2>2, <2>6, <3>1, <1>e, <1>h, <1>z DEF TidyInv, Tidy, MatchedEnds, Executions
  <2>7. ASSUME NEW f \in Executions, token = f, f # e PROVE FALSE
    BY <2>2, <2>7, <1>h DEF Executions
  <2>8. Tidied'
    BY <2>1, <2>3, <2>5, <2>6, <2>7 DEF Tidied
  <2>9. Synced'
    BY <2>1, <2>3 DEF TidyInv, Tidy, Synced
  <2>10. Tended'
    <3> SUFFICES ASSUME status' \in Terminal PROVE WillClose(e)'
      BY <1>e DEF Tended
    <3>1. hook[e] = "matched"
      BY <2>1, <2>2, <1>e, <1>z
    <3> QED BY <2>1, <2>3, <3>1, <1>e, <1>p DEF WillClose
  <2> QED BY <2>4, <2>8, <2>9, <2>10 DEF Tidy
<1>6. ASSUME NEW succeeded \in BOOLEAN, EndAttempt(e, succeeded) PROVE Tidy'
  <2>1. /\ UNCHANGED <<status, token, hook, cleaning, cut, node>> /\ pc[e] = "executing"
        /\ Goes(e, "record") \/ Goes(e, "boundary")
        /\ \A f \in Executions \ {e} : outcome'[f] = outcome[f]
    BY <1>6, <1>q DEF EndAttempt
  <2> QED BY <2>1, <1>n, <1>p, <1>u DEF Onward
<1>7. ASSUME NEW landed \in BOOLEAN, RecordAttempt(e, landed) PROVE Tidy'
  <2>1. /\ UNCHANGED <<status, token, hook, cleaning, cut>> /\ pc[e] = "record"
        /\ Goes(e, "boundary") \/ Goes(e, "saving")
        /\ \A f \in Executions \ {e} : outcome'[f] = outcome[f]
        /\ UNCHANGED node \/ \E result \in {"FAILED", "COMPLETED"} : node' = [node EXCEPT ![step[e]] = result]
    BY <1>7, <1>q DEF RecordAttempt
  <2>2. NodesOpen' => NodesOpen
    BY <2>1, <1>n, <1>q, NodesClosed
  <2> QED BY <2>1, <2>2, <1>p, <1>u DEF Onward
<1>8. CASE AgnoEnds(e)
  <2>1. /\ UNCHANGED <<status, token, hook, cleaning, cut, node>> /\ pc[e] = "boundary" /\ Goes(e, "saving")
        /\ \A f \in Executions \ {e} : outcome'[f] = outcome[f]
    BY <1>8, <1>q DEF AgnoEnds
  <2> QED BY <2>1, <1>n, <1>p, <1>u DEF Onward
<1>9. ASSUME NEW synced \in BOOLEAN, SaveSession(e, synced) PROVE Tidy'
  <2>1. /\ pc[e] = "saving" /\ UNCHANGED <<hook, cleaning, cut, outcome>>
        /\ \E place \in {"output", "clearing"} : Goes(e, place)
        /\ \/ Sync(e, outcome[e])
           \/ UNCHANGED <<status, token, node>> /\ "sync" \in Faults
    BY <1>9 DEF SaveSession
  <2>2. PICK place \in {"output", "clearing"} : Goes(e, place)
    BY <2>1
  <2>3. CASE Sync(e, outcome[e]) /\ Writable(e, NonTerminal)
    <3>1. ~NodesOpen'
      BY <2>1, <2>3, <1>q, NodesClosed DEF Sync
    <3>4. UNCHANGED token \/ token' = 0
      BY <2>1, <2>3 DEF Sync, Write, Release
    <3>5. Tidily(e, place)
      BY <1>e, <2>1, <2>2, <3>1, <3>4, ClosedTidily
    <3> QED BY <1>t, <3>5
  <2>4. CASE Sync(e, outcome[e]) /\ ~Writable(e, NonTerminal)
    <3>1. UNCHANGED <<status, token, node>>
      BY <2>1, <2>4 DEF Sync, Write
    <3>2. token # e
      BY <2>4, <1>e, <1>z, <1>y DEF Writable, TypeOK
    <3>3. Tidily(e, place)
      BY <2>1, <2>2, <3>1, <3>2, <1>n, <1>p, <1>w DEF Tidily
    <3> QED BY <1>t, <3>3
  <2>5. CASE UNCHANGED <<status, token, node>> /\ "sync" \in Faults
    <3>1. token = e => ~NodesOpen
      BY <2>1, <2>5, <1>f, <1>o
    <3>2. Tidily(e, place)
      BY <2>1, <2>2, <2>5, <3>1, <1>n, <1>p, <1>w DEF Tidily
    <3> QED BY <1>t, <3>2
  <2> QED BY <2>1, <2>3, <2>4, <2>5
<1>10. CASE ClearRequirements(e)
  <2>1. /\ pc[e] = "clearing" /\ Goes(e, "output")
        /\ UNCHANGED <<status, token, hook, cleaning, cut, outcome, node>>
    BY <1>10 DEF ClearRequirements
  <2>2. Tidily(e, "output")
    BY <2>1, <1>n, <1>o, <1>p, <1>w DEF Tidily
  <2> QED BY <1>t, <2>2
<1>11. CASE HandleOutput(e)
  <2>1. /\ pc[e] = "output" /\ UNCHANGED <<hook, cleaning, cut, outcome, node>>
        /\ \E place \in {"leaving", "failing"} : Goes(e, place)
    BY <1>11 DEF HandleOutput
  <2>2. PICK place \in {"leaving", "failing"} : Goes(e, place)
    BY <2>1
  <2>3. \/ UNCHANGED <<status, token>> /\ token # e
        \/ UNCHANGED <<status, token>> /\ outcome[e] # "raised"
        \/ status' \in {"FAILED", "AWAITING_APPROVAL"} /\ token' = 0 /\ ~NodesOpen
    <3>1. CASE token # e
      BY <1>11, <3>1 DEF HandleOutput, Write, Writable
    <3>2. CASE token = e
      <4>1. ~NodesOpen /\ outcome[e] # "raised"
        BY <1>11, <2>1, <3>2, <1>o DEF HandleOutput
      <4>2. ASSUME NEW from, NEW to \in {"FAILED", "AWAITING_APPROVAL"}, Write(e, from, to)
            PROVE  UNCHANGED <<status, token>> \/ (status' = to /\ token' = 0)
        BY <4>2 DEF Write, Release, Releasing, Terminal
      <4> QED BY <1>11, <4>1, <4>2 DEF HandleOutput
    <3> QED BY <3>1, <3>2
  <2>4. Tidily(e, place)
    BY <1>e, <2>1, <2>2, <2>3, <1>n, <1>p, <1>w DEF Tidily, Terminal
  <2> QED BY <1>t, <2>4
<1>12. CASE FinalizeCancel(e) \/ FinalizeFailure(e)
  <2>1. PICK to \in {"CANCELLED", "FAILED"} : Write(e, NonTerminal, to)
    BY <1>12, <1>f DEF FinalizeCancel, FinalizeFailure, Finalize
  <2>2. /\ Goes(e, "closing") /\ UNCHANGED <<hook, cleaning, cut, node>>
        /\ \A f \in Executions \ {e} : outcome'[f] = outcome[f]
    BY <1>12, <1>f, <1>q DEF FinalizeCancel, FinalizeFailure, Finalize
  <2>3. \/ UNCHANGED <<status, token>> /\ token # e
        \/ token' = 0 /\ status' # "AWAITING_APPROVAL"
    <3>1. CASE Writable(e, NonTerminal)
      BY <2>1, <3>1, <1>r DEF Write, Release, Terminal
    <3>2. CASE ~Writable(e, NonTerminal)
      BY <2>1, <3>2, <1>e, <1>y, <1>z DEF Write, Writable, TypeOK
    <3> QED BY <3>1, <3>2
  <2>4. Tidily(e, "closing")
    BY <1>e, <2>2, <2>3, <1>n, <1>p DEF Tidily
  <2> QED BY <1>t, <2>4
<1>13. CASE CloseNodes(e)
  <2>1. /\ pc[e] = "closing" /\ UNCHANGED <<token, hook, cleaning, cut, outcome>>
        /\ \E place \in {"rearm", "leaving"} : Goes(e, place)
        /\ node' = Closed(IF outcome[e] = "cancelled" THEN "CANCELLED" ELSE "FAILED")
    BY <1>13 DEF CloseNodes
  <2>2. ~NodesOpen'
    BY <2>1, <1>n
  <2> QED BY <1>e, <2>1, <2>2, <1>o, <1>t, ClosedTidily
<1>14. CASE Rearm(e)
  <2>1. pc[e] = "rearm" /\ Goes(e, "leaving") /\ UNCHANGED <<status, token, hook, cleaning, cut, outcome, node>>
    BY <1>14 DEF Rearm
  <2>2. Tidily(e, "leaving")
    BY <2>1, <1>n, <1>o, <1>p, <1>w DEF Tidily
  <2> QED BY <1>t, <2>2
<1>15. CASE Leave(e)
  <2>1. /\ pc[e] = "leaving" /\ Goes(e, AfterLeaving(e))
        /\ UNCHANGED <<status, token, hook, cleaning, cut, outcome, node>>
    BY <1>15 DEF Leave
  <2>2. /\ hook[e] = "matched" => AfterLeaving(e) = "failOpen"
        /\ AfterLeaving(e) = "escaped" => outcome[e] = "raised"
    BY DEF AfterLeaving, Escapes
  <2>3. Tidily(e, AfterLeaving(e))
    BY <2>1, <2>2, <1>n, <1>o, <1>p, <1>w, EscapesTyped DEF Tidily
  <2> QED BY <1>t, <2>3
<1>16. CASE FinalizeEscaped(e)
  <2>1. pc[e] = "escaped" /\ Goes(e, "done") /\ Transition(e) /\ UNCHANGED <<hook, cleaning, cut, outcome, node>>
    BY <1>16 DEF FinalizeEscaped
  <2>2. \/ UNCHANGED <<status, token>>
        \/ token' = 0 /\ status' = "FAILED" /\ ~NodesOpen
    BY <2>1, <1>o DEF Transition, Transitions, Release
  <2>3. Tidily(e, "done")
    BY <2>1, <2>2, <1>n, <1>p, <1>w DEF Tidily
  <2> QED BY <1>t, <2>3
<1>17. CASE Stop(e)
  <2> DEFINE place == IF hook[e] = "matched" THEN "failOpen" ELSE "done"
  <2>1. /\ Goes(e, place) /\ Interrupted(e) /\ UNCHANGED <<status, token, hook, cleaning, outcome, node>>
    BY <1>17 DEF Stop
  <2>b. /\ cut => cut'
        /\ status \in Terminal /\ hook[e] # "matched" => ~NodesOpen \/ cut'
    BY <2>1 DEF Interrupted
  <2>c. /\ hook[e] = "matched" => place = "failOpen" /\ "failOpen" \in Finalizing
        /\ place \in {"failOpen", "done"}
    BY DEF Finalizing
  <2>2. Tidily(e, place)
    BY <2>1, <2>b, <2>c, <1>n DEF Tidily
  <2> QED BY <1>t, <2>2
<1>18. CASE FailOpenNodes(e)
  <2>1. Goes(e, "done") /\ node' = Closed("FAILED") /\ UNCHANGED <<status, token, hook, cleaning, cut, outcome>>
    BY <1>18 DEF FailOpenNodes
  <2>2. ~NodesOpen'
    BY <2>1, <1>n
  <2> QED BY <1>e, <2>1, <2>2, <1>t, ClosedTidily
<1> QED
  BY <1>1, <1>2, <1>3, <1>4, <1>5, <1>6, <1>7, <1>8, <1>9, <1>10, <1>11, <1>12, <1>13, <1>14, <1>15, <1>16, <1>17,
     <1>18 DEF ExecutionStep

LEMMA MishapTidy ==
  ASSUME TidyInv, [Next]_vars, NEW e \in Claimed, Mishap(e)
  PROVE  Tidy'
<1> USE DEF document, lease, gate, execution, progress, control, reaping
<1>e. e \in Executions /\ e # 0
  BY DEF Claimed, Executions
<1>y. TypeOK /\ Inv
  BY DEF TidyInv, LeaseInv, Inv
<1>t. ASSUME NEW place, Tidily(e, place) PROVE Tidy'
  BY <1>e, <1>t, TidyStep
<1>n. UNCHANGED node => NodesOpen' = NodesOpen
  BY <1>y, NodesClosed
<1>z. /\ status \in Terminal => token = 0
      /\ status = "AWAITING_APPROVAL" => token = 0
  BY <1>y, TerminalStays
<1>w. WillClose(e) /\ pc[e] \notin Finalizing => hook[e] = "matched" /\ pc[e] \in Coupled
  BY DEF WillClose
<1>o. /\ pc[e] = "pending" => ~NodesOpen
      /\ pc[e] = "acquired" /\ token = e => ~NodesOpen
  BY <1>e DEF TidyInv, Tidy, Tidied
<1>1. CASE RefuseSpawn(e)
  <2>1. /\ pc[e] \in {"pending", "acquired"} /\ hook[e] = "none" /\ Goes(e, "done") /\ Transition(e)
        /\ UNCHANGED <<hook, cleaning, cut, outcome, node>>
    BY <1>1 DEF RefuseSpawn
  <2>2. \/ UNCHANGED <<status, token>>
        \/ token' = 0 /\ status' = "FAILED" /\ ~NodesOpen
    BY <2>1, <1>o DEF Transition, Transitions, Release
  <2>3. Tidily(e, "done")
    BY <2>1, <2>2, <1>n, <1>w DEF Tidily, Finalizing
  <2> QED BY <1>t, <2>3
<1>2. CASE PauseTimeout(e) \/ Raise(e)
  <2>1. /\ UNCHANGED <<status, token, hook, cleaning, cut, outcome, node>>
        /\ \E place \in {"cancelling", "failing"} : Goes(e, place)
    BY <1>2 DEF PauseTimeout, Raise
  <2>2. \A place \in {"cancelling", "failing"} : Goes(e, place) => Tidily(e, place)
    BY <2>1, <1>n DEF Tidily, Finalizing
  <2> QED BY <1>t, <2>1, <2>2
<1>3. CASE SaveError(e)
  <2>1. /\ pc[e] \in Finalizing /\ Sync(e, "failed") /\ UNCHANGED <<pc, hook, cleaning, cut, outcome>>
        /\ pc[e] \notin {"pending", "acquired", "escaped", "clearing", "output", "closing", "rearm", "leaving"}
    BY <1>3 DEF SaveError, Finalizing
  <2>2. UNCHANGED node
    BY <1>3 DEF SaveError, Sync
  <2>3. UNCHANGED <<status, token>> \/ (token' = 0 /\ status' = "FAILED")
    BY <2>1 DEF Sync, Write, Release, Mapped, Releasing, Terminal
  <2>4. Goes(e, pc[e])
    BY <1>e, <1>y, <2>1 DEF Goes, TypeOK
  <2>5. Tidily(e, pc[e])
    BY <2>1, <2>2, <2>3, <2>4, <1>n DEF Tidily
  <2> QED BY <1>t, <2>5
<1>4. CASE Shutdown(e)
  <2>1. /\ UNCHANGED <<pc, cleaning, cut, outcome, node>> /\ hook[e] = "none" /\ pc[e] \in Coupled /\ Transition(e)
        /\ hook' = [hook EXCEPT ![e] = IF Transitions(e) THEN "matched" ELSE "missed"]
    BY <1>4 DEF Shutdown
  <2>2. \A f \in Executions :
          hook'[f] = IF f # e THEN hook[f] ELSE IF Transitions(e) THEN "matched" ELSE "missed"
    BY <1>e, <1>y, <2>1 DEF TypeOK
  <2>3. NodesOpen' = NodesOpen
    BY <2>1, <1>n
  <2>4. CASE ~Transitions(e)
    <3>1. UNCHANGED <<status, token>>
      BY <2>1, <2>4 DEF Transition
    <3>2. \A f \in Executions : WillClose(f) => WillClose(f)'
      BY <2>1, <2>2 DEF WillClose
    <3>3. MatchedEnds'
      BY <2>2, <2>4, <3>1 DEF TidyInv, Tidy, MatchedEnds
    <3>4. Tidied' /\ Synced' /\ Tended'
      BY <2>1, <2>3, <3>1, <3>2 DEF TidyInv, Tidy, Tidied, Synced, Tended
    <3> QED BY <3>3, <3>4 DEF Tidy
  <2>5. CASE Transitions(e)
    <3>1. status \in Leased /\ token = e /\ status' = "FAILED" /\ token' = 0
      BY <2>1, <2>5 DEF Transition, Transitions, Release
    <3>2. \A f \in Executions : hook[f] # "matched"
      BY <3>1, <1>z, <1>e DEF TidyInv, Tidy, MatchedEnds
    <3>3. MatchedEnds'
      BY <2>2, <3>1, <3>2 DEF MatchedEnds, Terminal
    <3>4. Tidied' /\ Synced'
      BY <2>1, <2>3, <3>1 DEF TidyInv, Tidy, Tidied, Synced, Executions
    <3>5. WillClose(e)'
      BY <1>e, <2>1, <2>2, <2>5 DEF WillClose
    <3> QED BY <1>e, <3>3, <3>4, <3>5 DEF Tidy, Tended
  <2> QED BY <2>4, <2>5
<1>5. CASE LoseLease(e)
  <2>1. /\ Goes(e, "done") /\ hook[e] = "none" /\ Interrupted(e)
        /\ UNCHANGED <<status, token, hook, cleaning, outcome, node>>
    BY <1>5 DEF LoseLease
  <2>b. /\ cut => cut'
        /\ status \in Terminal => ~NodesOpen \/ cut'
    BY <2>1 DEF Interrupted
  <2>2. Tidily(e, "done")
    BY <2>1, <2>b, <1>n DEF Tidily
  <2> QED BY <1>t, <2>2
<1> QED BY <1>1, <1>2, <1>3, <1>4, <1>5 DEF Mishap

LEMMA OutsideStepTidy ==
  ASSUME TidyInv, [Next]_vars, "stall" \notin Faults,
         \/ \E h \in handlers : HandlerStep(h) \/ CallRaises(h)
         \/ \E p \in Pods : ReaperStep(p) \/ Request(p) \/ Crash(p)
         \/ Expire \/ GateTimeout \/ UNCHANGED vars
  PROVE  Tidy'
<1> USE DEF document, lease, gate, execution, progress, control, reaping
<1>y. TypeOK /\ Inv
  BY DEF TidyInv, LeaseInv, Inv
<1>n. /\ UNCHANGED node => NodesOpen' = NodesOpen
      /\ node' = Closed("FAILED") => ~NodesOpen'
  BY <1>y, NodesClosed
<1>z. /\ status \in Terminal => token = 0 /\ status' = status
      /\ status = "AWAITING_APPROVAL" => token = 0
  BY <1>y, TerminalStays
<1>s. ASSUME UNCHANGED <<pc, hook, outcome, cleaning, cut, node>>, UNCHANGED token \/ token' = 0, status' = status
      PROVE  Tidy'
  BY <1>s, TidyStutter
<1>1. ASSUME NEW h \in handlers,
             PutDirective(h) \/ CancelAgno(h) \/ LoseRace(h) \/ CallRaises(h)
      PROVE  Tidy'
  <2>1. UNCHANGED <<status, token, pc, hook, outcome, cleaning, cut, node>>
    BY <1>1 DEF PutDirective, CancelAgno, LoseRace, CallRaises
  <2> QED BY <1>s, <2>1
<1>2. ASSUME NEW h \in handlers, Prepare(h) PROVE Tidy'
  <2>1. UNCHANGED <<token, pc, hook, outcome, cleaning, cut, node>>
    BY <1>2 DEF Prepare
  <2>2. CASE status' = status
    BY <1>s, <2>1, <2>2
  <2>3. CASE status' # status
    <3>1. status = "AWAITING_APPROVAL" /\ status' = "FAILED"
      BY <1>2, <2>3 DEF Prepare
    <3>2. ~NodesOpen'
      BY <2>1, <3>1, <1>n DEF TidyInv, Tidy, Tidied
    <3>3. MatchedEnds' /\ Tidied' /\ Synced' /\ Tended'
      BY <2>1, <3>1, <3>2 DEF TidyInv, Tidy, MatchedEnds, Tidied, Synced, Tended, Terminal
    <3> QED BY <3>3 DEF Tidy
  <2> QED BY <2>2, <2>3
<1>3. ASSUME NEW h \in handlers, NEW answered \in BOOLEAN, Acquire(h, answered) PROVE Tidy'
  <2>1. PICK e \in Executions : /\ pc[e] = "unborn" /\ token' = e
                                /\ Goes(e, IF answered THEN "acquired" ELSE "done")
    BY <1>3 DEF Acquire
  <2>2. /\ status = "AWAITING_APPROVAL" /\ status' = "RUNNING"
        /\ UNCHANGED <<hook, outcome, cleaning, cut, node>>
    BY <1>3 DEF Acquire, Acquirable
  <2>3. \A f \in Executions : pc'[f] = pc[f] \/ (f = e /\ pc'[f] \in {"acquired", "done"})
    BY <2>1, <1>y DEF Goes, TypeOK
  <2>4. ~NodesOpen'
    BY <2>2, <1>n DEF TidyInv, Tidy, Tidied
  <2>5. \A f \in Executions : hook[f] # "matched"
    BY <2>2 DEF TidyInv, Tidy, MatchedEnds, Terminal
  <2>6. MatchedEnds' /\ Tidied' /\ Tended'
    BY <2>2, <2>4, <2>5 DEF MatchedEnds, Tidied, Tended
  <2>7. Synced'
    BY <2>1, <2>2, <2>3 DEF TidyInv, Tidy, Synced
  <2> QED BY <2>6, <2>7 DEF Tidy
<1>4. ASSUME NEW p \in Pods, Reap(p) PROVE Tidy'
  <2>1. /\ status \in Leased /\ status' = "FAILED" /\ token' = 0 /\ cleaning' = cleaning \union {p}
        /\ UNCHANGED <<pc, hook, outcome, cut, node>>
    BY <1>4 DEF Reap, Release
  <2>2. NodesOpen' = NodesOpen
    BY <2>1, <1>n
  <2>3. MatchedEnds' /\ Tidied' /\ Synced' /\ Tended'
    BY <2>1, <2>2 DEF TidyInv, Tidy, MatchedEnds, Tidied, Synced, Tended, Terminal, Executions
  <2> QED BY <2>3 DEF Tidy
<1>5. ASSUME NEW p \in Pods, ReapNodes(p) PROVE Tidy'
  <2>1. UNCHANGED <<status, token, pc, hook, outcome, cut>> /\ ~NodesOpen'
    BY <1>5, <1>n DEF ReapNodes
  <2>2. MatchedEnds' /\ Tidied' /\ Synced' /\ Tended'
    BY <2>1 DEF TidyInv, Tidy, MatchedEnds, Tidied, Synced, Tended
  <2> QED BY <2>2 DEF Tidy
<1>6. ASSUME NEW p \in Pods, Request(p) PROVE Tidy'
  <2>1. UNCHANGED <<status, token, pc, hook, outcome, cleaning, cut, node>>
    BY <1>6 DEF Request, SendPause, SendResume, SendCancel, SendDirective, Resolve, Nudge
  <2> QED BY <1>s, <2>1
<1>7. ASSUME NEW p \in Pods, Crash(p) PROVE Tidy'
  <2>1. /\ \A e \in Executions : pc'[e] \in {"done", pc[e]}
        /\ UNCHANGED <<status, token, hook, outcome, node>>
        /\ cut' = (cut \/ (status \in Terminal /\ NodesOpen))
    BY <1>7, <1>y DEF Crash, TypeOK
  <2>2. NodesOpen' = NodesOpen
    BY <2>1, <1>n
  <2>3. MatchedEnds' /\ Tidied' /\ Synced' /\ Tended'
    BY <2>1, <2>2 DEF TidyInv, Tidy, MatchedEnds, Tidied, Synced, Tended
  <2> QED BY <2>3 DEF Tidy
<1>8. CASE Expire \/ GateTimeout \/ UNCHANGED vars
  <2>1. UNCHANGED <<status, token, pc, hook, outcome, cleaning, cut, node>>
    BY <1>8 DEF Expire, GateTimeout, vars
  <2> QED BY <1>s, <2>1
<1> QED BY <1>1, <1>2, <1>3, <1>4, <1>5, <1>6, <1>7, <1>8 DEF HandlerStep, ReaperStep

(* What leaves the NodeRuns to the executor e. *)
Undisturbed(e) ==
  /\ pc'[e] = pc[e] \/ pc'[e] \notin Stepping \union {"building", "saving"}
  /\ attempt'[e] = attempt[e] /\ step'[e] = step[e]
  /\ \A s \in Steps : node'[s] = "RUNNING" => node[s] = "RUNNING"

(* Only the executor opens NodeRuns, or goes from step to step. *)
LEMMA OthersDisturbNot ==
  ASSUME TidyInv, [Next]_vars, NEW e \in Executions, token = e, token' = e, ~ \E f \in {e} \intersect Claimed : ExecutionStep(f)
  PROVE  Undisturbed(e)
<1> USE DEF document, lease, gate, execution, progress, control, reaping
<1>y. TypeOK /\ Inv /\ e # 0 /\ Executions \subseteq Nat
  BY DEF TidyInv, LeaseInv, Inv, Executions
<1>z. status \notin Terminal /\ \A f \in Executions : hook[f] # "matched"
  BY <1>y, TerminalStays DEF TidyInv, Tidy, MatchedEnds
<1>d. \A f \in Executions \ {e} : pc[f] \notin Driving
  BY <1>z DEF TidyInv, LeaseInv, DriversHold
<1>n. /\ \A result \in {"COMPLETED", "FAILED", "CANCELLED"} :
           node' = Closed(result) => \A s \in Steps : node'[s] # "RUNNING"
      /\ UNCHANGED node => \A s \in Steps : node'[s] = "RUNNING" => node[s] = "RUNNING"
  BY DEF Closed
<1>g. ASSUME NEW f \in Executions \ {e}, NEW place, Goes(f, place) PROVE pc'[e] = pc[e]
  BY <1>g, <1>y DEF Goes, TypeOK
<1>1. ASSUME NEW f \in Claimed, f # e, ExecutionStep(f) PROVE Undisturbed(e)
  <2>f. f \in Executions \ {e} /\ pc[f] \notin Driving
    BY <1>1, <1>d DEF Claimed
  <2>1. CASE Start(f) \/ Continue(f) \/ Build(f) \/ CheckDirective(f) \/ AckCancel(f) \/ EnterPause(f) \/ WakeUp(f)
             \/ LeavePause(f) \/ Recheck(f) \/ StartAttempt(f) \/ AgnoEnds(f)
    BY <2>f, <2>1, DrivingIs
    DEF Start, Continue, Build, CheckDirective, AckCancel, EnterPause, WakeUp, LeavePause, Recheck, StartAttempt, AgnoEnds
  <2>2. ASSUME NEW b \in BOOLEAN, EndAttempt(f, b) \/ RecordAttempt(f, b) PROVE FALSE
    BY <2>f, <2>2, DrivingIs DEF EndAttempt, RecordAttempt
  <2>3. ASSUME NEW b \in BOOLEAN, SaveSession(f, b) PROVE Undisturbed(e)
    <3>1. UNCHANGED <<node, attempt, step>> /\ \E place : Goes(f, place)
      BY <2>f, <2>3 DEF SaveSession, Sync, Writable
    <3> QED BY <2>f, <3>1, <1>g, <1>n DEF Undisturbed
  <2>4. CASE ClearRequirements(f) \/ HandleOutput(f) \/ FinalizeCancel(f) \/ FinalizeFailure(f) \/ Rearm(f)
             \/ Leave(f) \/ FinalizeEscaped(f) \/ Stop(f)
    <3>1. UNCHANGED <<node, attempt, step>> /\ \E place : Goes(f, place)
      BY <2>4 DEF ClearRequirements, HandleOutput, FinalizeCancel, FinalizeFailure, Finalize, Rearm, Leave,
         FinalizeEscaped, Stop
    <3> QED BY <2>f, <3>1, <1>g, <1>n DEF Undisturbed
  <2>5. CASE CloseNodes(f) \/ FailOpenNodes(f)
    <3>1. /\ UNCHANGED <<attempt, step>> /\ \E place : Goes(f, place)
          /\ \E result \in {"COMPLETED", "FAILED", "CANCELLED"} : node' = Closed(result)
      BY <2>5 DEF CloseNodes, FailOpenNodes
    <3> QED BY <2>f, <3>1, <1>g, <1>n DEF Undisturbed
  <2> QED BY <1>1, <2>1, <2>2, <2>3, <2>4, <2>5 DEF ExecutionStep
<1>2. ASSUME NEW f \in Claimed, Mishap(f) PROVE Undisturbed(e)
  <2>f. f \in Executions
    BY DEF Claimed
  <2>1. CASE SaveError(f) \/ Shutdown(f)
    BY <2>1, <1>n DEF SaveError, Sync, Shutdown, Undisturbed
  <2>2. CASE RefuseSpawn(f) \/ PauseTimeout(f) \/ Raise(f) \/ LoseLease(f)
    <3>1. UNCHANGED <<node, attempt, step>> /\ \E place \in {"done", "cancelling", "failing"} : Goes(f, place)
      BY <2>2 DEF RefuseSpawn, PauseTimeout, Raise, LoseLease
    <3>2. pc'[e] \in {pc[e], "done", "cancelling", "failing"}
      BY <2>f, <3>1, <1>y DEF Goes, TypeOK
    <3> QED BY <3>1, <3>2, <1>n DEF Undisturbed, Stepping
  <2> QED BY <1>2, <2>1, <2>2 DEF Mishap
<1>3. ASSUME NEW h \in handlers, HandlerStep(h) \/ CallRaises(h) PROVE Undisturbed(e)
  <2>1. \A answered \in BOOLEAN : ~Acquire(h, answered)
    BY <1>y, TerminalStays DEF Acquire, Acquirable
  <2>2. UNCHANGED <<pc, attempt, step, node>>
    BY <1>3, <2>1 DEF HandlerStep, PutDirective, CancelAgno, Prepare, LoseRace, CallRaises
  <2> QED BY <2>2, <1>n DEF Undisturbed
<1>4. ASSUME NEW p \in Pods, ReaperStep(p) \/ Request(p) \/ Crash(p) PROVE Undisturbed(e)
  <2>1. CASE Reap(p) \/ Request(p)
    <3>1. UNCHANGED <<pc, attempt, step, node>>
      BY <2>1 DEF Reap, Request, SendPause, SendResume, SendCancel, SendDirective, Resolve, Nudge
    <3> QED BY <3>1, <1>n DEF Undisturbed
  <2>2. CASE ReapNodes(p)
    BY <2>2, <1>n DEF ReapNodes, Undisturbed
  <2>3. CASE Crash(p)
    <3>1. UNCHANGED <<attempt, step, node>> /\ pc'[e] \in {pc[e], "done"}
      BY <2>3 DEF Crash
    <3> QED BY <3>1, <1>n DEF Undisturbed, Stepping
  <2> QED BY <1>4, <2>1, <2>2, <2>3 DEF ReaperStep
<1>5. CASE Expire \/ GateTimeout \/ UNCHANGED vars
  <2>1. UNCHANGED <<pc, attempt, step, node>>
    BY <1>5 DEF Expire, GateTimeout, vars
  <2> QED BY <2>1, <1>n DEF Undisturbed
<1> QED BY <1>1, <1>2, <1>3, <1>4, <1>5 DEF Next

(* A claim gets its lease when it acquires the run, at no other time. *)
LEMMA TokenStep ==
  ASSUME NEW e \in Claimed, ExecutionStep(e) \/ Mishap(e)
  PROVE  token' \in {token, 0}
<1> USE DEF document, lease, gate, execution, progress, control, reaping
<1>w. ASSUME NEW from, NEW to, Write(e, from, to) PROVE token' \in {token, 0}
  BY <1>w, WriteOnLease
<1>t. Transition(e) => token' \in {token, 0}
  BY TransitionOnLease
<1>1. CASE Start(e) \/ FinalizeEscaped(e) \/ RefuseSpawn(e) \/ Shutdown(e)
  BY <1>1, <1>w, <1>t DEF Start, FinalizeEscaped, RefuseSpawn, Shutdown
<1>2. CASE (\E b \in BOOLEAN : SaveSession(e, b)) \/ SaveError(e) \/ HandleOutput(e)
  BY <1>2, <1>w DEF SaveSession, SaveError, Sync, HandleOutput
<1>3. CASE FinalizeCancel(e) \/ FinalizeFailure(e)
  BY <1>3, <1>w DEF FinalizeCancel, FinalizeFailure, Finalize
<1>4. CASE Continue(e) \/ Build(e) \/ CheckDirective(e) \/ AckCancel(e) \/ EnterPause(e) \/ WakeUp(e) \/ LeavePause(e)
           \/ Recheck(e) \/ StartAttempt(e) \/ (\E b \in BOOLEAN : EndAttempt(e, b) \/ RecordAttempt(e, b)) \/ AgnoEnds(e)
  BY <1>4 DEF Continue, Build, CheckDirective, AckCancel, EnterPause, WakeUp, LeavePause, Recheck, StartAttempt, EndAttempt,
     RecordAttempt, AgnoEnds
<1>5. CASE ClearRequirements(e) \/ CloseNodes(e) \/ Rearm(e) \/ Leave(e) \/ Stop(e) \/ FailOpenNodes(e)
           \/ PauseTimeout(e) \/ Raise(e) \/ LoseLease(e)
  BY <1>5 DEF ClearRequirements, CloseNodes, Rearm, Leave, Stop, FailOpenNodes, PauseTimeout, Raise, LoseLease
<1> QED BY <1>1, <1>2, <1>3, <1>4, <1>5 DEF ExecutionStep, Mishap

LEMMA RecordedStep ==
  ASSUME TidyInv, [Next]_vars
  PROVE  Recorded'
<1> USE DEF document, lease, gate, execution, progress, control, reaping
<1> SUFFICES ASSUME "record" \notin Faults, NEW e \in Executions, token' = e
             PROVE  /\ pc'[e] \in {"building", "saving"} => ~NodesOpen'
                    /\ pc'[e] \in Stepping => \A s \in Steps \ {step'[e]} : node'[s] # "RUNNING"
                    /\ pc'[e] \in Stepping \ {"executing", "record"} /\ attempt'[e] = 0 => ~NodesOpen'
  BY DEF Recorded
<1>y. TypeOK /\ Inv /\ e # 0
  BY DEF TidyInv, LeaseInv, Inv, Executions
<1>l. Stepping = {"boundary", "enterPause", "paused", "resuming", "recheck", "ackCancel", "ackCancelPaused",
                  "start", "executing", "record"}
  BY DEF Stepping
<1>g. \A place : Goes(e, place) => pc'[e] = place
  BY <1>y DEF Goes, TypeOK
<1>q. /\ attempt[e] \in Nat /\ step[e] \in Steps
      /\ node \in [Steps -> {"none", "RUNNING", "COMPLETED", "FAILED", "CANCELLED"}]
      /\ outcome \in [Executions -> {"none", "completed", "failed", "cancelled", "paused", "raised"}]
      /\ attempt \in [Executions -> Nat] /\ step \in [Executions -> Steps]
  BY <1>y, BoundsAssumption DEF TypeOK
<1>1. CASE token # e
  <2>1. pc'[e] \in {"acquired", "done"}
    <3>1. PICK h \in handlers, answered \in BOOLEAN : Acquire(h, answered)
      <4>1. ASSUME NEW f \in Claimed, ExecutionStep(f) \/ Mishap(f) PROVE token' \in {token, 0}
        BY <4>1, TokenStep
      <4>2. ASSUME NEW h \in handlers, HandlerStep(h) \/ CallRaises(h),
                   \A answered \in BOOLEAN : ~Acquire(h, answered)
            PROVE  token' = token
        BY <4>2 DEF HandlerStep, PutDirective, CancelAgno, Prepare, LoseRace, CallRaises
      <4>3. ASSUME NEW p \in Pods, ReaperStep(p) \/ Request(p) \/ Crash(p) PROVE token' \in {token, 0}
        BY <4>3 DEF ReaperStep, Reap, Release, ReapNodes, Request, SendPause, SendResume, SendCancel, SendDirective,
           Resolve, Nudge, Crash
      <4>4. Expire \/ GateTimeout \/ UNCHANGED vars => token' = token
        BY DEF Expire, GateTimeout, vars
      <4> QED BY <1>1, <1>y, <4>1, <4>2, <4>3, <4>4 DEF Next
    <3> QED BY <3>1, <1>g, <1>y DEF Acquire
  <2> QED BY <2>1, <1>l
<1>2. CASE token = e
  <2>r. /\ pc[e] \in {"building", "saving"} => ~NodesOpen
        /\ pc[e] \in Stepping => \A s \in Steps \ {step[e]} : node[s] # "RUNNING"
        /\ pc[e] \in Stepping \ {"executing", "record"} /\ attempt[e] = 0 => ~NodesOpen
        /\ pc[e] \in {"pending", "acquired"} => ~NodesOpen
    BY <1>2 DEF TidyInv, Recorded, Tidy, Tidied
  <2>n. /\ UNCHANGED node => NodesOpen' = NodesOpen
        /\ NodesOpen <=> \E s \in Steps : node[s] = "RUNNING"
        /\ NodesOpen' <=> \E s \in Steps : node'[s] = "RUNNING"
    BY DEF NodesOpen
  <2>1. CASE Undisturbed(e)
    BY <2>1, <2>r, <2>n DEF Undisturbed
  <2>2. CASE e \in Claimed /\ ExecutionStep(e)
    <3>1. CASE Start(e) \/ Continue(e)
      <4>1. UNCHANGED node /\ pc[e] \in {"pending", "acquired"} /\ pc'[e] \in {"building", "done", "escaped", "failOpen"}
        BY <3>1, <1>g, EscapesTyped DEF Start, Continue
      <4> QED BY <4>1, <2>r, <2>n, <1>l
    <3>2. CASE Build(e)
      <4>1. UNCHANGED node /\ pc[e] = "building" /\ pc'[e] = "boundary"
        BY <3>2, <1>g DEF Build
      <4> QED BY <4>1, <2>r, <2>n
    <3>3. CASE CheckDirective(e) \/ AckCancel(e) \/ EnterPause(e) \/ WakeUp(e) \/ LeavePause(e) \/ Recheck(e)
      <4>1. UNCHANGED <<node, step, attempt>> /\ pc[e] \in Stepping \ {"executing", "record"}
        BY <3>3, <1>l DEF CheckDirective, AckCancel, EnterPause, WakeUp, LeavePause, Recheck
      <4>2. pc'[e] \in (Stepping \ {"executing", "record"}) \union {"cancelling"}
        <5>1. Finds(home[e]) \in Directives
          BY QueueTyped, <1>y DEF TypeOK
        <5> QED BY <3>3, <5>1, <1>g, <1>l, DirectedTyped
            DEF CheckDirective, AckCancel, EnterPause, WakeUp, LeavePause, Recheck
      <4> QED BY <4>1, <4>2, <2>r, <2>n, <1>l
    <3>4. CASE StartAttempt(e)
      <4>1. /\ UNCHANGED <<step, attempt>> /\ pc[e] = "start" /\ pc'[e] = "executing"
            /\ node' = [node EXCEPT ![step[e]] = "RUNNING"]
        BY <3>4, <1>g DEF StartAttempt
      <4> QED BY <4>1, <2>r, <1>l, <1>q
    <3>5. ASSUME NEW b \in BOOLEAN, EndAttempt(e, b)
          PROVE  /\ UNCHANGED <<node, step>> /\ pc[e] = "executing"
                 /\ \/ pc'[e] = "record"
                    \/ pc'[e] = "boundary" /\ attempt'[e] # 0
      BY <3>5, <1>g, <1>q DEF EndAttempt
    <3>6. ASSUME NEW b \in BOOLEAN, RecordAttempt(e, b) PROVE ~NodesOpen' /\ pc'[e] \in {"boundary", "saving"}
      <4>1. \E result \in {"FAILED", "COMPLETED"} : node' = [node EXCEPT ![step[e]] = result]
        BY <3>6 DEF RecordAttempt
      <4>2. pc[e] = "record" /\ pc'[e] \in {"boundary", "saving"}
        BY <3>6, <1>g DEF RecordAttempt
      <4> QED BY <4>1, <4>2, <2>r, <2>n, <1>l, <1>q
    <3>7. CASE AgnoEnds(e)
      <4>1. UNCHANGED node /\ pc[e] = "boundary" /\ attempt[e] = 0 /\ pc'[e] = "saving"
        BY <3>7, <1>g DEF AgnoEnds
      <4> QED BY <4>1, <2>r, <2>n, <1>l
    <3>8. ASSUME \/ \E b \in BOOLEAN : SaveSession(e, b)
                 \/ ClearRequirements(e) \/ HandleOutput(e)
                 \/ FinalizeCancel(e) \/ FinalizeFailure(e) \/ CloseNodes(e) \/ Rearm(e) \/ Leave(e)
                 \/ FinalizeEscaped(e) \/ Stop(e) \/ FailOpenNodes(e)
          PROVE  pc'[e] \in {"output", "clearing", "leaving", "failing", "closing", "rearm", "escaped", "failOpen", "done"}
      <4>1. AfterLeaving(e) \in {"escaped", "failOpen", "done"}
        BY EscapesTyped DEF AfterLeaving
      <4> QED BY <3>8, <4>1, <1>g
          DEF SaveSession, ClearRequirements, HandleOutput, FinalizeCancel, FinalizeFailure, Finalize, CloseNodes, Rearm,
              Leave, FinalizeEscaped, Stop, FailOpenNodes
    <3>9. CASE \E b \in BOOLEAN : EndAttempt(e, b)
      BY <3>5, <3>9, <2>r, <2>n, <1>l
    <3>10. CASE \E b \in BOOLEAN : RecordAttempt(e, b)
      BY <3>6, <3>10, <2>n
    <3> QED BY <2>2, <3>1, <3>2, <3>3, <3>4, <3>7, <3>8, <3>9, <3>10, <1>l DEF ExecutionStep
  <2> QED BY <1>2, <2>1, <2>2, OthersDisturbNot
<1> QED BY <1>1, <1>2

(* A finished run leaves no NodeRun open, in whatever order its executor,   *)
(* the shutdown hook, the syncer and the reaper got to it, as long as no   *)
(* execution stalls past its lease, MongoDB does not refuse a finalizer,   *)
(* and not both the syncer and the record of a result.                     *)
THEOREM NodesAreClosed ==
  ASSUME Faults \intersect {"stall", "finalize"} = {}, ~({"sync", "record"} \subseteq Faults)
  PROVE  Spec => []NodesEndWithRun
<1>f. "stall" \notin Faults /\ "finalize" \notin Faults /\ ("sync" \notin Faults \/ "record" \notin Faults)
  OBVIOUS
<1>1. Init => TidyInv
  <2> SUFFICES ASSUME Init PROVE TidyInv
    OBVIOUS
  <2>1. LeaseInv
    BY InitOrderly
  <2>2. /\ ~NodesOpen /\ status = "PENDING" /\ \A e \in Executions : hook[e] = "none" /\ pc[e] \in {"pending", "unborn"}
    BY DEF Init, NodesOpen
  <2>3. Tidy
    BY <2>2 DEF Tidy, MatchedEnds, Tidied, Synced, Tended, Terminal
  <2>4. Recorded
    BY <2>2 DEF Recorded, Stepping
  <2> QED BY <2>1, <2>3, <2>4 DEF TidyInv
<1>2. TidyInv /\ [Next]_vars => TidyInv'
  <2> SUFFICES ASSUME TidyInv, [Next]_vars PROVE TidyInv'
    OBVIOUS
  <2>1. LeaseInv'
    BY <1>f, LeaseStep DEF TidyInv
  <2>2. Tidy'
    BY <1>f, ExecutionStepTidy, MishapTidy, OutsideStepTidy DEF Next
  <2>3. Recorded'
    BY RecordedStep
  <2> QED BY <2>1, <2>2, <2>3 DEF TidyInv
<1>3. TidyInv => NodesEndWithRun
  <2> SUFFICES ASSUME TidyInv, status \in Terminal, Quiet, ~cut, NodesOpen PROVE FALSE
    BY DEF NodesEndWithRun
  <2>1. PICK e \in Executions : WillClose(e)
    BY DEF TidyInv, Tidy, Tended, Quiet
  <2>2. pc[e] \in {"unborn", "done"}
    BY DEF Quiet, Claimed
  <2> QED BY <2>1, <2>2 DEF WillClose, Finalizing, Coupled, Stepping
<1> QED BY <1>1, <1>2, <1>3, PTL DEF Spec

-----------------------------------------------------------------------------
(* A decided run that awaits approval is always about to be continued, and  *)
(* is left behind only when the pod of the call that continues it dies, or  *)
(* that call raises, wherever it is: decisions and polls that compete for  *)
(* the run never all give it up, and no other fault makes them.            *)
THEOREM DecisionsAct == Spec => DecisionIsActedOn
<1>1. ASSUME Inv, [Next]_vars, LeftBehind', ~LeftBehind,
             ~ \E p \in Pods : Crash(p),
             ~ \E h \in handlers : h.at \in {"prepare", "acquire"} /\ CallRaises(h)
      PROVE  FALSE
  <2> USE DEF document, lease, gate, execution, progress, control, reaping
  <2>1. /\ status' = "AWAITING_APPROVAL" /\ requirement' = "decided"
        /\ \A h \in handlers' : h.at \notin {"prepare", "acquire"}
    BY <1>1 DEF LeftBehind
  <2>2. \/ status # "AWAITING_APPROVAL" \/ requirement # "decided"
        \/ \E h \in handlers : h.at \in {"prepare", "acquire"}
    BY <1>1 DEF LeftBehind
  <2>3. ~UNCHANGED <<status, requirement, handlers>>
    BY <2>1, <2>2
  <2>w. ASSUME NEW e, NEW from, NEW to, Write(e, from, to), to # "AWAITING_APPROVAL" PROVE UNCHANGED status
    BY <2>1, <2>w DEF Write
  <2>t. ASSUME NEW e, Transition(e) PROVE UNCHANGED status
    BY <2>1, <2>t DEF Transition
  <2>4. ASSUME NEW e \in Claimed, ExecutionStep(e) PROVE FALSE
    <3>0. ASSUME UNCHANGED <<status, handlers>>, requirement' \in {requirement, "none", "open"} PROVE FALSE
      BY <2>1, <2>3, <3>0
    <3>1. CASE Start(e) \/ FinalizeEscaped(e)
      BY <3>0, <3>1, <2>w, <2>t DEF Start, FinalizeEscaped
    <3>2. CASE Continue(e) \/ Build(e) \/ CheckDirective(e) \/ WakeUp(e) \/ Recheck(e) \/ StartAttempt(e)
      BY <3>0, <3>2 DEF Continue, Build, CheckDirective, WakeUp, Recheck, StartAttempt
    <3>3. CASE AckCancel(e) \/ EnterPause(e) \/ LeavePause(e)
      BY <2>1, <3>0, <3>3 DEF AckCancel, EnterPause, LeavePause, Ack
    <3>4. ASSUME NEW b \in BOOLEAN, EndAttempt(e, b) \/ RecordAttempt(e, b) PROVE FALSE
      BY <3>0, <3>4 DEF EndAttempt, RecordAttempt
    <3>5. ASSUME NEW synced \in BOOLEAN, SaveSession(e, synced) PROVE FALSE
      <4>1. outcome[e] \in Outcomes
        BY <1>1, <3>5 DEF SaveSession, Inv, SavesItsOutcome, Claimed
      <4>2. Mapped[outcome[e]] # "AWAITING_APPROVAL"
        <5>1. /\ Mapped["completed"] = "COMPLETED" /\ Mapped["failed"] = "FAILED"
              /\ Mapped["cancelled"] = "CANCELLED" /\ Mapped["paused"] = "PAUSED"
          BY DEF Mapped
        <5> QED BY <4>1, <5>1 DEF Outcomes
      <4> QED BY <3>0, <3>5, <4>2, <2>w DEF SaveSession, Sync
    <3>6. CASE AgnoEnds(e) \/ ClearRequirements(e) \/ CloseNodes(e) \/ Rearm(e) \/ Leave(e) \/ Stop(e)
                 \/ FailOpenNodes(e)
      BY <3>0, <3>6 DEF AgnoEnds, ClearRequirements, CloseNodes, Rearm, Leave, Stop, FailOpenNodes
    <3>7. CASE HandleOutput(e)
      <4>1. ~(requirement' = "open" /\ Writable(e, {"RUNNING", "PAUSED"}))
        BY <2>1
      <4>2. UNCHANGED status /\ requirement' \in {requirement, "none", "open"} /\ UNCHANGED handlers
        BY <2>1, <3>7 DEF HandleOutput, Write
      <4> QED BY <3>0, <4>2
    <3>8. CASE FinalizeCancel(e) \/ FinalizeFailure(e)
      BY <3>0, <3>8, <2>w DEF FinalizeCancel, FinalizeFailure, Finalize
    <3> QED BY <2>4, <3>1, <3>2, <3>3, <3>4, <3>5, <3>6, <3>7, <3>8 DEF ExecutionStep
  <2>5. ASSUME NEW e \in Claimed, Mishap(e) PROVE FALSE
    <3>1. CASE SaveError(e)
      <4>1. Mapped["failed"] = "FAILED" BY DEF Mapped
      <4>2. UNCHANGED <<status, handlers>> /\ requirement' \in {requirement, "none"}
        BY <3>1, <4>1, <2>w DEF SaveError, Sync
      <4> QED BY <2>1, <2>3, <4>2
    <3>2. CASE RefuseSpawn(e) \/ Shutdown(e)
      BY <2>3, <2>t, <3>2 DEF RefuseSpawn, Shutdown
    <3>3. CASE PauseTimeout(e) \/ Raise(e) \/ LoseLease(e)
      BY <2>3, <3>3 DEF PauseTimeout, Raise, LoseLease
    <3> QED BY <2>5, <3>1, <3>2, <3>3 DEF Mishap
  <2>6. ASSUME NEW h \in handlers, HandlerStep(h) \/ CallRaises(h) PROVE FALSE
    <3>1. ~Prepare(h)
      <4>1. ASSUME Prepare(h) PROVE FALSE
        <5>1. CASE Advance(h, "acquire")
          <6>1. [h EXCEPT !.at = "acquire"] \in handlers'
            BY <5>1 DEF Advance
          <6>2. [h EXCEPT !.at = "acquire"].at = "acquire"
            BY <1>1 DEF Inv, TypeOK, Handlers
          <6> QED BY <2>1, <6>1, <6>2
        <5>2. CASE status' = "FAILED"
          BY <2>1, <5>2
        <5>3. CASE status # "AWAITING_APPROVAL" /\ UNCHANGED status
          BY <2>1, <5>3
        <5> QED BY <4>1, <5>1, <5>2, <5>3 DEF Prepare
      <4> QED BY <4>1
    <3>2. \A answered \in BOOLEAN : ~Acquire(h, answered)
      BY <2>1 DEF Acquire
    <3>3. ASSUME PutDirective(h) \/ CancelAgno(h) \/ LoseRace(h) \/ CallRaises(h),
                 NEW g \in handlers, g.at \in {"prepare", "acquire"}
          PROVE  FALSE
      <4>1. UNCHANGED <<status, requirement>> /\ handlers \ {h} \subseteq handlers'
        BY <3>3 DEF PutDirective, CancelAgno, LoseRace, CallRaises, Advance
      <4>2. g = h
        BY <2>1, <3>3, <4>1
      <4>3. LoseRace(h) /\ ~Acquirable
        BY <1>1, <3>3, <4>2 DEF PutDirective, CancelAgno, LoseRace
      <4> QED BY <2>1, <4>1, <4>3 DEF Acquirable
    <3>4. UNCHANGED <<status, requirement>>
      BY <2>6, <3>1, <3>2 DEF HandlerStep, PutDirective, CancelAgno, LoseRace, CallRaises
    <3> QED BY <2>1, <2>2, <2>6, <3>1, <3>2, <3>3, <3>4 DEF HandlerStep
  <2>7. ASSUME NEW p \in Pods, ReaperStep(p) PROVE FALSE
    BY <2>1, <2>3, <2>7 DEF ReaperStep, Reap, ReapNodes
  <2>8. ASSUME NEW p \in Pods, Request(p) PROVE FALSE
    <3>1. ASSUME NEW d, Call(p, "prepare", d) PROVE \E h \in handlers' : h.at = "prepare"
      <4> DEFINE call == [id |-> calls + 1, pod |-> p, at |-> "prepare", carries |-> d]
      <4>1. call \in handlers'
        BY <3>1 DEF Call
      <4>2. call.at = "prepare"
        OBVIOUS
      <4> QED BY <4>1, <4>2
    <3>2. ~Resolve(p) /\ ~Nudge(p)
      BY <2>1, <3>1 DEF Resolve, Nudge
    <3>3. CASE SendPause(p) \/ SendResume(p) \/ SendCancel(p)
      <4>1. UNCHANGED <<status, requirement>> /\ handlers \subseteq handlers'
        BY <3>3 DEF SendPause, SendResume, SendCancel, SendDirective, Call
      <4> QED BY <2>1, <2>2, <4>1
    <3> QED BY <2>8, <3>2, <3>3 DEF Request
  <2>9. ~Expire /\ ~UNCHANGED vars
    BY <2>3 DEF Expire, vars
  <2>10. ~GateTimeout
    BY <2>1 DEF GateTimeout
  <2> QED BY <1>1, <2>4, <2>5, <2>6, <2>7, <2>8, <2>9, <2>10 DEF Next
<1>2. Inv /\ [Next]_vars =>
        [LeftBehind' =>
           \/ LeftBehind
           \/ \E p \in Pods : Crash(p)
           \/ \E h \in handlers : h.at \in {"prepare", "acquire"} /\ CallRaises(h)]_vars
  BY <1>1
<1>3. Init => Inv
  BY InitImplements
<1>4. Inv /\ [Next]_vars => Inv'
  BY StepImplements
<1> QED BY <1>2, <1>3, <1>4, PTL DEF Spec, DecisionIsActedOn
=============================================================================
